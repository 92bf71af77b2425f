-------------------------------- MODULE MCThreads --------------------------------
(* What threads do by themselves, and how they are stopped, each part explored      *)
(* alone: stopping the engine, the capture loop, the buffer of packets, the setters *)
(* that threads share, the rate of events and the estimate of changes in area.      *)
EXTENDS MCEngineShutdown, CameraCapture, PacketRingBuffer, AtomicSetter, EventRate,
        AreaEstimator

VARIABLE part

cameraVars == <<captureVars, ringVars, setterVars, rateVars, areaVars>>
threadVars == <<part, vars, cameraVars>>

\* 4 is too small to be judged; 8 and 11 are the thresholds of 10, and both 10 and
\* 11 are approaches from 8.
BoundaryAreas == {4, 8, 10, 11}

ThreadsInit ==
    /\ Init
    /\ CaptureInit /\ RingInit /\ SetterInit /\ RateInit /\ AreaInit
    /\ part \in {"shutdown", "capture", "buffer", "setters", "rate", "estimator"}
    /\ part # "shutdown" => pullBased
    /\ part # "capture" => pull

ThreadsNext ==
    /\ \/ /\ part = "shutdown" /\ Next
          /\ UNCHANGED cameraVars
       \/ /\ part = "capture" /\ CaptureNext
          /\ UNCHANGED <<vars, ringVars, setterVars, rateVars, areaVars>>
       \/ /\ part = "buffer" /\ RingNext
          /\ UNCHANGED <<vars, captureVars, setterVars, rateVars, areaVars>>
       \/ /\ part = "setters" /\ SetterNext
          /\ UNCHANGED <<vars, captureVars, ringVars, rateVars, areaVars>>
       \/ /\ part = "rate" /\ RateNext
          /\ UNCHANGED <<vars, captureVars, ringVars, setterVars, areaVars>>
       \/ /\ part = "estimator" /\ AreaNext
          /\ UNCHANGED <<vars, captureVars, ringVars, setterVars, rateVars>>
       \* Only the engine may not come to a stop before it has stopped: the others
       \* do so at the bounds of the model.
       \/ part # "shutdown" /\ UNCHANGED <<vars, cameraVars>>
    /\ UNCHANGED part

\* CaptureFairness, for the runs in which the capture loop is explored.
ThreadsFairness ==
    WF_threadVars(/\ part = "capture" /\ OwnStep
                  /\ UNCHANGED <<part, vars, ringVars, setterVars, rateVars, areaVars>>)

ThreadsSpec == ThreadsInit /\ [][ThreadsNext]_threadVars /\ ThreadsFairness
===================================================================================
