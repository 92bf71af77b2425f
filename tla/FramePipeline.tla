---------------------------- MODULE FramePipeline ----------------------------
(***************************************************************************)
(* The path of a video frame through the engine: one CameraCapture and one *)
(* CameraProcessor thread per camera, a pool of ObjectDetectorSession and  *)
(* a pool of LPDetectorSession threads shared by all cameras, and the four *)
(* bounded queues between them.                                            *)
(*                                                                         *)
(* A processor hands its frame to a pool through a queue and then waits on *)
(* its camera's QWaitCondition.  The answer is not a message: the worker   *)
(* writes the predictions into the shared Frame, raises the frame's        *)
(* hasBeenProcessed flag and calls notify_all on the camera's condition,   *)
(* without taking the mutex the processor waits with.  Each of these       *)
(* accesses is a step of its own here.                                     *)
(*                                                                         *)
(* Time is abstracted: while a processor waits, its timeout may strike.    *)
(***************************************************************************)
EXTENDS Naturals, Sequences, FiniteSets

CONSTANTS
    Cameras,            \* the enabled cameras
    Detectors,          \* object detector threads, one per configured predictor
    LPDetectors,        \* license plate detector threads
    Mode,               \* camera -> "pull" (pull_based_order) or "push"
    FrameQueueCap,      \* capacity of a camera's frameQueue
    DetectorQueueCap,   \* capacity of m_inUnifiedObjDetectorQ
    LPQueueCap,         \* capacity of m_inUnifiedLPDetectorQ
    TrackedQueueCap,    \* capacity of m_trackedFramesQueue
    MaxBatch,           \* frames an object detector takes per inference
    WorkersMayFail,     \* may an inference throw and end its thread?
    MaxFrames,          \* camera -> frames it captures (bound of the model)
    NoFrame             \* a null SharedFrame

Frame == UNION { [camera : {c}, index : 0 .. MaxFrames[c] - 1] : c \in Cameras }

ASSUME PipelineAssumption ==
    /\ Mode \in [Cameras -> {"pull", "push"}]
    /\ FrameQueueCap \in Nat \ {0}
    /\ DetectorQueueCap \in Nat \ {0}
    /\ LPQueueCap \in Nat \ {0}
    /\ TrackedQueueCap \in Nat \ {0}
    /\ MaxBatch \in Nat \ {0}
    /\ MaxFrames \in [Cameras -> Nat]
    /\ WorkersMayFail \in BOOLEAN
    /\ NoFrame \notin Frame

VARIABLES
    captured,       \* camera -> index of the next frame it captures
    frameQueue,     \* camera -> CameraMetrics::frameQueue
    inQueue,        \* stage -> the pool's input queue
    trackedQueue,   \* m_trackedFramesQueue
    predictMode,    \* the function-local static is_pull_based of predict()
    processed,      \* frames whose hasBeenProcessed flag is up
    expired,        \* frames whose hasExpired flag is up
    predictions,    \* frame -> which results its prediction list carries
    processor,      \* camera -> state of its CameraProcessor thread
    detector,       \* state of each ObjectDetectorSession thread
    lpDetector,     \* state of each LPDetectorSession thread
    delivered,      \* history: camera -> frames put on the tracked queue
    overtaken       \* history: cameras whose processor left a predict() call
                    \* while the answer to it was still to come

queueVars == <<captured, frameQueue, inQueue, trackedQueue>>
frameVars == <<processed, expired, predictions>>
threadVars == <<processor, detector, lpDetector>>
historyVars == <<delivered, overtaken>>
vars == <<queueVars, predictMode, frameVars, threadVars, historyVars>>

Stage == {"object", "lp"}
StageCap == [s \in Stage |-> IF s = "object" THEN DetectorQueueCap ELSE LPQueueCap]

\* What a frame's prediction list carries: raw detector results, results that
\* went through the tracker, and the license plates added to them.
Mark == {"detected", "tracked", "plates"}

IdleProcessor == [pc |-> "pop", stage |-> "object", frame |-> NoFrame, seen |-> {}]
IdleDetector == [pc |-> "pop", batch |-> <<>>]
IdleLPDetector == [pc |-> "pop", frame |-> NoFrame, seen |-> {}]

Init ==
    /\ captured = [c \in Cameras |-> 0]
    /\ frameQueue = [c \in Cameras |-> <<>>]
    /\ inQueue = [s \in Stage |-> <<>>]
    /\ trackedQueue = <<>>
    /\ predictMode = "unset"
    /\ processed = {}
    /\ expired = {}
    /\ predictions = [f \in Frame |-> {}]
    /\ processor = [c \in Cameras |-> IdleProcessor]
    /\ detector = [d \in Detectors |-> IdleDetector]
    /\ lpDetector = [l \in LPDetectors |-> IdleLPDetector]
    /\ delivered = [c \in Cameras |-> <<>>]
    /\ overtaken = {}
-----------------------------------------------------------------------------
(* CameraCapture: a push camera blocks on a full queue, a pull camera      *)
(* throws the frame away.  The frame index advances either way.            *)

\* Slip: frame_index++ is left out.
CaptureFrameKeepsIndex(c) ==
    /\ captured[c] < MaxFrames[c]
    /\ Len(frameQueue[c]) < FrameQueueCap
    /\ frameQueue' = [frameQueue EXCEPT
                        ![c] = Append(@, [camera |-> c, index |-> captured[c]])]
    /\ UNCHANGED <<captured, inQueue, trackedQueue, predictMode, frameVars,
                   threadVars, historyVars>>

CaptureFrame(c) ==
    /\ captured[c] < MaxFrames[c]
    /\ Len(frameQueue[c]) < FrameQueueCap
    /\ captured' = [captured EXCEPT ![c] = @ + 1]
    /\ frameQueue' = [frameQueue EXCEPT
                        ![c] = Append(@, [camera |-> c, index |-> captured[c]])]
    /\ UNCHANGED <<inQueue, trackedQueue, predictMode, frameVars, threadVars, historyVars>>

\* Slip: a full queue makes room by dropping its oldest frame.
SkipFrameDropsOldest(c) ==
    /\ captured[c] < MaxFrames[c]
    /\ Mode[c] = "pull"
    /\ Len(frameQueue[c]) = FrameQueueCap
    /\ captured' = [captured EXCEPT ![c] = @ + 1]
    /\ frameQueue' = [frameQueue EXCEPT
                        ![c] = Append(Tail(@), [camera |-> c, index |-> captured[c]])]
    /\ UNCHANGED <<inQueue, trackedQueue, predictMode, frameVars, threadVars, historyVars>>

SkipFrame(c) ==
    /\ captured[c] < MaxFrames[c]
    /\ Mode[c] = "pull"
    /\ Len(frameQueue[c]) = FrameQueueCap
    /\ captured' = [captured EXCEPT ![c] = @ + 1]
    /\ UNCHANGED <<frameQueue, inQueue, trackedQueue, predictMode,
                   frameVars, threadVars, historyVars>>
-----------------------------------------------------------------------------
(* CameraProcessor.  predict() is called twice per frame, once per stage.  *)

At(c, pc) == processor[c].pc = pc
Goto(c, pc) == processor' = [processor EXCEPT ![c].pc = pc]

\* The first thread to enter predict() fixes its mode for every camera.
PopFrame(c) ==
    /\ At(c, "pop")
    /\ frameQueue[c] # <<>>
    /\ frameQueue' = [frameQueue EXCEPT ![c] = Tail(@)]
    /\ processor' = [processor EXCEPT ![c] = [IdleProcessor EXCEPT
                        !.pc = "push", !.frame = Head(frameQueue[c])]]
    /\ predictMode' = IF predictMode = "unset" THEN Mode[c] ELSE predictMode
    /\ UNCHANGED <<captured, inQueue, trackedQueue, frameVars,
                   detector, lpDetector, historyVars>>

\* emplace blocks while the pool's queue is full; try_emplace does not.
SubmitFrame(c) ==
    LET s == processor[c].stage IN
    /\ At(c, "push")
    /\ Len(inQueue[s]) < StageCap[s]
    /\ inQueue' = [inQueue EXCEPT ![s] = Append(@, processor[c].frame)]
    /\ Goto(c, "check")
    /\ UNCHANGED <<captured, frameQueue, trackedQueue, predictMode, frameVars,
                   detector, lpDetector, historyVars>>

RefuseFrame(c) ==
    LET s == processor[c].stage IN
    /\ At(c, "push")
    /\ predictMode = "pull"
    /\ Len(inQueue[s]) = StageCap[s]
    /\ processor' = [processor EXCEPT ![c] = IdleProcessor]
    /\ UNCHANGED <<queueVars, predictMode, frameVars, detector, lpDetector, historyVars>>

\* A worker has raised f's flag and is about to notify f's camera.
NotifyPending(f) ==
    \/ \E d \in Detectors : detector[d].pc = "notify" /\ Head(detector[d].batch) = f
    \/ \E l \in LPDetectors : lpDetector[l].pc = "notify" /\ lpDetector[l].frame = f

\* hasBeenProcessed() is read before the mutex is taken.
CheckProcessed(c) ==
    LET f == processor[c].frame IN
    /\ At(c, "check")
    /\ Goto(c, IF f \in processed THEN "reset" ELSE "lock")
    /\ overtaken' = IF f \in processed /\ NotifyPending(f)
                    THEN overtaken \cup {c} ELSE overtaken
    /\ UNCHANGED <<queueVars, predictMode, frameVars, detector, lpDetector, delivered>>

\* Lock the mutex and wait.  The mutex guards nothing else, so holding it
\* only delays other processors that come to wait.
BeginWait(c) ==
    /\ At(c, "lock")
    /\ Goto(c, "waiting")
    /\ UNCHANGED <<queueVars, predictMode, frameVars, detector, lpDetector, historyVars>>

\* Slip: predict() does not return after the timeout of a pull camera.
WaitTimesOutGoesOn(c) ==
    /\ At(c, "waiting")
    /\ overtaken' = overtaken \cup {c}
    /\ expired' = IF predictMode = "pull" THEN expired \cup {processor[c].frame} ELSE expired
    /\ Goto(c, "reset")
    /\ UNCHANGED <<queueVars, predictMode, processed, predictions,
                   detector, lpDetector, delivered>>

\* Slip: after a timeout the frame is submitted a second time.
WaitTimesOutResubmits(c) ==
    /\ At(c, "waiting")
    /\ overtaken' = overtaken \cup {c}
    /\ Goto(c, "push")
    /\ UNCHANGED <<queueVars, predictMode, frameVars, detector, lpDetector, delivered>>

\* Slip: after a timeout the wait is begun again.
WaitTimesOutWaitsAgain(c) ==
    /\ At(c, "waiting")
    /\ overtaken' = overtaken \cup {c}
    /\ Goto(c, "lock")
    /\ UNCHANGED <<queueVars, predictMode, frameVars, detector, lpDetector, delivered>>

\* Pull: the frame expires and is abandoned.  Push: logged, then carried on.
WaitTimesOut(c) ==
    /\ At(c, "waiting")
    /\ overtaken' = overtaken \cup {c}
    /\ IF predictMode = "pull"
       THEN /\ expired' = expired \cup {processor[c].frame}
            /\ processor' = [processor EXCEPT ![c] = IdleProcessor]
       ELSE /\ Goto(c, "reset")
            /\ UNCHANGED expired
    /\ UNCHANGED <<queueVars, predictMode, processed, predictions,
                   detector, lpDetector, delivered>>

\* The end of predict(), setHasBeenProcessed(false); after the object stage
\* the processor then copies the frame's predictions.  A worker writes them
\* before it raises the flag, so the two steps of the code commute with the
\* worker steps that could come between them and are one step here.
ResetProcessed(c) ==
    LET f == processor[c].frame
        objectStage == processor[c].stage = "object"
    IN
    /\ At(c, "reset")
    /\ processed' = processed \ {f}
    /\ processor' = [processor EXCEPT ![c] = [@ EXCEPT
                       !.pc = IF objectStage THEN "track" ELSE "emit",
                       !.seen = IF objectStage THEN predictions[f] ELSE {}]]
    /\ UNCHANGED <<queueVars, predictMode, expired, predictions,
                   detector, lpDetector, historyVars>>

\* Filter, track and estimate areas on the copy, then replace the frame's list.
TrackFrame(c) ==
    LET tracked == IF "detected" \in processor[c].seen THEN {"tracked"} ELSE {} IN
    /\ At(c, "track")
    /\ predictions' = [predictions EXCEPT ![processor[c].frame] = tracked]
    /\ processor' = [processor EXCEPT ![c] = [@ EXCEPT
                       !.pc = "push", !.stage = "lp", !.seen = {}]]
    /\ UNCHANGED <<queueVars, predictMode, processed, expired,
                   detector, lpDetector, historyVars>>

\* try_emplace: a full tracked-frame queue drops the frame.
EmitFrame(c) ==
    LET f == processor[c].frame IN
    /\ At(c, "emit")
    /\ IF Len(trackedQueue) < TrackedQueueCap
       THEN /\ trackedQueue' = Append(trackedQueue, f)
            /\ delivered' = [delivered EXCEPT ![c] = Append(@, f)]
       ELSE UNCHANGED <<trackedQueue, delivered>>
    /\ processor' = [processor EXCEPT ![c] = IdleProcessor]
    /\ UNCHANGED <<captured, frameQueue, inQueue, predictMode, frameVars,
                   detector, lpDetector, overtaken>>

\* Slip: one wait condition shared by all cameras.
NotifyEveryCamera(c) ==
    processor' = [e \in Cameras |->
        IF At(e, "waiting") THEN [processor[e] EXCEPT !.pc = "reset"] ELSE processor[e]]

\* notify_all on camera c's condition: wakes its processor if it waits now.
NotifyAll(c) ==
    IF At(c, "waiting") THEN Goto(c, "reset") ELSE UNCHANGED processor
-----------------------------------------------------------------------------
(* ObjectDetectorSession: fill a batch, infer, answer frame by frame.      *)

DetectorPop(d) ==
    LET f == Head(inQueue["object"]) IN
    /\ detector[d].pc = "pop"
    /\ inQueue["object"] # <<>>
    /\ inQueue' = [inQueue EXCEPT !["object"] = Tail(@)]
    /\ detector' = [detector EXCEPT ![d] =
                      [pc |-> "more",
                       batch |-> IF f \in expired THEN @.batch ELSE Append(@.batch, f)]]
    /\ UNCHANGED <<captured, frameQueue, trackedQueue, predictMode, frameVars,
                   processor, lpDetector, historyVars>>

\* Slip: <= instead of < in the batch loop's condition.
DetectorMoreOffByOne(d) ==
    LET batch == detector[d].batch IN
    /\ detector[d].pc = "more"
    /\ \/ batch = <<>>
       \/ Len(batch) <= MaxBatch /\ inQueue["object"] # <<>>
    /\ detector' = [detector EXCEPT ![d].pc = "pop"]
    /\ UNCHANGED <<queueVars, predictMode, frameVars, processor, lpDetector, historyVars>>

\* The batch has room and the queue was seen non-empty, or nothing was taken.
\* Another detector may pop first: this one then blocks with its batch.
DetectorMore(d) ==
    LET batch == detector[d].batch IN
    /\ detector[d].pc = "more"
    /\ \/ batch = <<>>
       \/ Len(batch) < MaxBatch /\ inQueue["object"] # <<>>
    /\ detector' = [detector EXCEPT ![d].pc = "pop"]
    /\ UNCHANGED <<queueVars, predictMode, frameVars, processor, lpDetector, historyVars>>

BatchComplete(d) ==
    /\ detector[d].pc = "more"
    /\ detector[d].batch # <<>>
    /\ Len(detector[d].batch) >= MaxBatch \/ inQueue["object"] = <<>>

DetectorInfer(d) ==
    /\ BatchComplete(d)
    /\ detector' = [detector EXCEPT ![d].pc = "answer"]
    /\ UNCHANGED <<queueVars, predictMode, frameVars, processor, lpDetector, historyVars>>

\* The try block encloses the loop: an exception ends the thread for good.
DetectorFail(d) ==
    /\ WorkersMayFail
    /\ BatchComplete(d)
    /\ detector' = [detector EXCEPT ![d] = [pc |-> "dead", batch |-> <<>>]]
    /\ UNCHANGED <<queueVars, predictMode, frameVars, processor, lpDetector, historyVars>>

\* Go on to the next result of the batch, or back to the queue.
NextResult(d) ==
    detector' = [detector EXCEPT
                   ![d].pc = IF Len(detector[d].batch) = 1 THEN "pop" ELSE "answer",
                   ![d].batch = Tail(@)]

DetectorCheckExpired(d) ==
    /\ detector[d].pc = "answer"
    /\ IF Head(detector[d].batch) \in expired
       THEN NextResult(d)
       ELSE detector' = [detector EXCEPT ![d].pc = "add"]
    /\ UNCHANGED <<queueVars, predictMode, frameVars, processor, lpDetector, historyVars>>

DetectorAdd(d) ==
    /\ detector[d].pc = "add"
    /\ predictions' = [predictions EXCEPT ![Head(detector[d].batch)] = @ \cup {"detected"}]
    /\ detector' = [detector EXCEPT ![d].pc = "flag"]
    /\ UNCHANGED <<queueVars, predictMode, processed, expired,
                   processor, lpDetector, historyVars>>

DetectorFlag(d) ==
    /\ detector[d].pc = "flag"
    /\ processed' = processed \cup {Head(detector[d].batch)}
    /\ detector' = [detector EXCEPT ![d].pc = "notify"]
    /\ UNCHANGED <<queueVars, predictMode, expired, predictions,
                   processor, lpDetector, historyVars>>

DetectorNotify(d) ==
    /\ detector[d].pc = "notify"
    /\ NotifyAll(Head(detector[d].batch).camera)
    /\ NextResult(d)
    /\ UNCHANGED <<queueVars, predictMode, frameVars, lpDetector, historyVars>>
-----------------------------------------------------------------------------
(* LPDetectorSession: one frame at a time, on a copy of its predictions.   *)

LPPop(l) ==
    LET f == Head(inQueue["lp"]) IN
    /\ lpDetector[l].pc = "pop"
    /\ inQueue["lp"] # <<>>
    /\ inQueue' = [inQueue EXCEPT !["lp"] = Tail(@)]
    /\ lpDetector' = IF f \in expired THEN lpDetector
                     ELSE [lpDetector EXCEPT
                             ![l] = [pc |-> "infer", frame |-> f, seen |-> predictions[f]]]
    /\ UNCHANGED <<captured, frameQueue, trackedQueue, predictMode, frameVars,
                   processor, detector, historyVars>>

\* The copy, with the plates found, replaces the frame's list.
LPDetect(l) ==
    LET f == lpDetector[l].frame IN
    /\ lpDetector[l].pc = "infer"
    /\ IF f \in expired
       THEN /\ lpDetector' = [lpDetector EXCEPT ![l] = IdleLPDetector]
            /\ UNCHANGED predictions
       ELSE /\ lpDetector' = [lpDetector EXCEPT ![l].pc = "flag"]
            /\ predictions' = [predictions EXCEPT ![f] = lpDetector[l].seen \cup {"plates"}]
    /\ UNCHANGED <<queueVars, predictMode, processed, expired,
                   processor, detector, historyVars>>

LPFail(l) ==
    /\ WorkersMayFail
    /\ lpDetector[l].pc = "infer"
    /\ lpDetector' = [lpDetector EXCEPT ![l] = [IdleLPDetector EXCEPT !.pc = "dead"]]
    /\ UNCHANGED <<queueVars, predictMode, frameVars, processor, detector, historyVars>>

LPFlag(l) ==
    /\ lpDetector[l].pc = "flag"
    /\ processed' = processed \cup {lpDetector[l].frame}
    /\ lpDetector' = [lpDetector EXCEPT ![l].pc = "notify"]
    /\ UNCHANGED <<queueVars, predictMode, expired, predictions,
                   processor, detector, historyVars>>

LPNotify(l) ==
    /\ lpDetector[l].pc = "notify"
    /\ NotifyAll(lpDetector[l].frame.camera)
    /\ lpDetector' = [lpDetector EXCEPT ![l] = IdleLPDetector]
    /\ UNCHANGED <<queueVars, predictMode, frameVars, detector, historyVars>>
-----------------------------------------------------------------------------
\* TrackedObjectProcessor takes the next frame.
ConsumeTracked ==
    /\ trackedQueue # <<>>
    /\ trackedQueue' = Tail(trackedQueue)
    /\ UNCHANGED <<captured, frameQueue, inQueue, predictMode, frameVars,
                   threadVars, historyVars>>

CaptureNext(c) == CaptureFrame(c) \/ SkipFrame(c)

ProcessorNext(c) ==
    \/ PopFrame(c) \/ SubmitFrame(c) \/ RefuseFrame(c) \/ CheckProcessed(c)
    \/ BeginWait(c) \/ WaitTimesOut(c) \/ ResetProcessed(c)
    \/ TrackFrame(c) \/ EmitFrame(c)

DetectorNext(d) ==
    \/ DetectorPop(d) \/ DetectorMore(d) \/ DetectorInfer(d)
    \/ DetectorCheckExpired(d) \/ DetectorAdd(d) \/ DetectorFlag(d) \/ DetectorNotify(d)

LPNext(l) == LPPop(l) \/ LPDetect(l) \/ LPFlag(l) \/ LPNotify(l)

\* Every captured frame has been decided; only the model's bound stops it here.
Drained ==
    /\ \A c \in Cameras : captured[c] = MaxFrames[c] /\ frameQueue[c] = <<>> /\ At(c, "pop")
    /\ trackedQueue = <<>>

Rest == Drained /\ UNCHANGED vars

Next ==
    \/ \E c \in Cameras : CaptureNext(c) \/ ProcessorNext(c)
    \/ \E d \in Detectors : DetectorNext(d) \/ DetectorFail(d)
    \/ \E l \in LPDetectors : LPNext(l) \/ LPFail(l)
    \/ ConsumeTracked
    \/ Rest

Spec == Init /\ [][Next]_vars

\* Threads keep running and a wait has a timeout; nothing forces a camera to
\* deliver frames or an inference to fail.
Fairness ==
    /\ \A c \in Cameras : WF_vars(ProcessorNext(c))
    /\ \A d \in Detectors : WF_vars(DetectorNext(d))
    /\ \A l \in LPDetectors : WF_vars(LPNext(l))
    /\ WF_vars(ConsumeTracked)

FairSpec == Spec /\ Fairness
-----------------------------------------------------------------------------
(* Properties.                                                             *)

PlaceOf(s) == { s[i] : i \in 1 .. Len(s) }

ProcessorPc == {"pop", "push", "check", "lock", "waiting", "reset", "track", "emit"}
DetectorPc == {"pop", "more", "answer", "add", "flag", "notify", "dead"}
LPDetectorPc == {"pop", "infer", "flag", "notify", "dead"}

QueuesOK ==
    /\ captured \in [Cameras -> Nat]
    /\ \A c \in Cameras : captured[c] <= MaxFrames[c]
    /\ frameQueue \in [Cameras -> Seq(Frame)]
    /\ \A c \in Cameras : /\ Len(frameQueue[c]) <= FrameQueueCap
                          /\ \A i \in 1 .. Len(frameQueue[c]) : frameQueue[c][i].camera = c
    /\ inQueue \in [Stage -> Seq(Frame)]
    /\ \A s \in Stage : Len(inQueue[s]) <= StageCap[s]
    /\ trackedQueue \in Seq(Frame)
    /\ Len(trackedQueue) <= TrackedQueueCap

FramesOK ==
    /\ predictMode \in {"unset", "pull", "push"}
    /\ processed \in SUBSET Frame
    /\ expired \in SUBSET Frame
    /\ predictions \in [Frame -> SUBSET Mark]
    /\ delivered \in [Cameras -> Seq(Frame)]
    /\ overtaken \in SUBSET Cameras

ProcessorsOK ==
    /\ processor \in [Cameras -> [pc : ProcessorPc, stage : Stage,
                                  frame : Frame \cup {NoFrame}, seen : SUBSET Mark]]
    /\ \A c \in Cameras : ~At(c, "pop") =>
            processor[c].frame \in Frame /\ processor[c].frame.camera = c

DetectorsOK ==
    /\ detector \in [Detectors -> [pc : DetectorPc, batch : Seq(Frame)]]
    /\ \A d \in Detectors :
            /\ Len(detector[d].batch) <= MaxBatch
            /\ detector[d].pc \in {"answer", "add", "flag", "notify"}
                  => detector[d].batch # <<>>
            /\ detector[d].pc = "pop" => Len(detector[d].batch) < MaxBatch

LPDetectorsOK ==
    /\ lpDetector \in [LPDetectors -> [pc : LPDetectorPc,
                                       frame : Frame \cup {NoFrame}, seen : SUBSET Mark]]
    /\ \A l \in LPDetectors :
            lpDetector[l].pc \in {"infer", "flag", "notify"} => lpDetector[l].frame \in Frame

(***************************************************************************)
(* Type correctness, with the capacities of the queues and what a thread's *)
(* position says about the frames it holds.                                *)
(***************************************************************************)
TypeOK == QueuesOK /\ FramesOK /\ ProcessorsOK /\ DetectorsOK /\ LPDetectorsOK

\* The frames of camera c not yet decided, oldest first: the one its processor
\* works on, then those in its frame queue.
Waiting(c) == IF At(c, "pop") THEN frameQueue[c]
              ELSE <<processor[c].frame>> \o frameQueue[c]

Flow == INSTANCE FrameFlow WITH waiting <- [c \in Cameras |-> Waiting(c)]

(***************************************************************************)
(* The pipeline is a lossy FIFO per camera: whatever the pools do, frames  *)
(* reach the tracker and the event processor in capture order and at most  *)
(* once (the order ByteTrack and the lost counters rely on).               *)
(***************************************************************************)
LossyFifo == Flow!Spec
FramesInOrder == Flow!InOrder

(***************************************************************************)
(* A frame a pull processor gave up on never reaches the event processor,  *)
(* although workers may still be writing its results.                      *)
(***************************************************************************)
ExpiredNeverDelivered ==
    \A f \in expired : f \notin PlaceOf(delivered[f.camera])

(***************************************************************************)
(* The handshake is sound while nobody is late: as long as camera c's      *)
(* processor never left predict() ahead of its answer (by a timeout, or by *)
(* reading the flag in the instant before the notify_all), every frame it  *)
(* hands on has been through the tracker with its detections and carries   *)
(* its license plate results.                                              *)
(***************************************************************************)
OnTimeIsComplete ==
    \A c \in Cameras \ overtaken : \A i \in 1 .. Len(trackedQueue) :
        trackedQueue[i].camera = c => predictions[trackedQueue[i]] = {"tracked", "plates"}

\* Over the pool's queue q and the batches of its workers, no frame has two places.
NoFrameTwice(q, batch) ==
    /\ \A i, j \in 1 .. Len(q) : q[i] = q[j] => i = j
    /\ \A d, e \in Detectors : \A i \in 1 .. Len(batch[d]), j \in 1 .. Len(batch[e]) :
            batch[d][i] = batch[e][j] => d = e /\ i = j
    /\ \A d \in Detectors : \A i \in 1 .. Len(q), j \in 1 .. Len(batch[d]) :
            q[i] # batch[d][j]

Batches == [d \in Detectors |-> detector[d].batch]

(***************************************************************************)
(* No frame is detected twice: it is in at most one place of the object    *)
(* stage, the pool's queue or the hands of one worker, whatever the        *)
(* processor that submitted it has done since.                             *)
(***************************************************************************)
DetectedOnce == NoFrameTwice(inQueue["object"], Batches)

\* A push processor waits in emplace for a worker of the pool to take a frame.
PushPoolDead ==
    /\ predictMode = "push"
    /\ \/ \A d \in Detectors : detector[d].pc = "dead"
       \/ \A l \in LPDetectors : lpDetector[l].pc = "dead"

(***************************************************************************)
(* Every captured frame is decided: its camera's processor reaches it and  *)
(* delivers or drops it.  Workers may die of exceptions: a pull engine     *)
(* goes on even without any, a push engine while each pool has one left.   *)
(***************************************************************************)
EveryFrameDecided ==
    \A f \in Frame : f \in PlaceOf(Waiting(f.camera))
                    ~> f \notin PlaceOf(Waiting(f.camera)) \/ PushPoolDead

(***************************************************************************)
(* Comment at lpdetectorsession.cpp:124: raising the flag prevents the     *)
(* processor "blocking, if finished very early".  So a processor does not  *)
(* wait for a frame whose answer is complete.                              *)
(***************************************************************************)
NoWaitWhenFinished ==
    \A c \in Cameras : At(c, "waiting") /\ processor[c].frame \in processed
                        => NotifyPending(processor[c].frame)

(***************************************************************************)
(* Comment at cameraprocessor.h:16: "push it to the unified detectors      *)
(* queue, wait for results".  In pull mode a frame without results in time *)
(* expires, so a frame that gets past the wait has been detected.          *)
(***************************************************************************)
ResultsAwaited ==
    \A c \in Cameras : predictMode = "pull" /\ At(c, "track")
                        => "detected" \in processor[c].seen
=============================================================================
