----------------------------- MODULE EngineShutdown -----------------------------
(***************************************************************************)
(* APSSEngine::stop: it asks each thread of the engine to end, in the      *)
(* order capture, processors, detectors, license plate detectors, tracked  *)
(* object processor, waits for it with a timeout, and may terminate it.    *)
(*                                                                         *)
(* A thread tests for interruption at the top of its loop only.  Between   *)
(* that test and the pop that may block it an abort of the queue passes    *)
(* unnoticed; the frame queues of the cameras are never aborted.           *)
(* Queues are counters: which frame is in them does not matter here.       *)
(***************************************************************************)
EXTENDS Naturals, Sequences, FiniteSets

CONSTANTS
    Cameras,        \* each has a capture thread and a processor
    Detectors,      \* ObjectDetectorSession threads
    LPDetectors,    \* LPDetectorSession threads
    Tracked,        \* the TrackedObjectProcessor thread
    Modes,          \* the values is_pull_based may have
    QueueCap,       \* capacity of every queue (bound of the model)
    Order           \* the threads in the order stop visits them

Thread == ({"capture", "processor"} \X Cameras) \cup ({"detector"} \X Detectors)
          \cup ({"lpdetector"} \X LPDetectors) \cup {<<"tracked", Tracked>>}
Kind(t) == t[1]

Rank(t) == CASE Kind(t) = "capture" -> 1 [] Kind(t) = "processor" -> 2
             [] Kind(t) = "detector" -> 3 [] Kind(t) = "lpdetector" -> 4
             [] OTHER -> 5

ASSUME ShutdownAssumption ==
    /\ Modes \in SUBSET BOOLEAN
    /\ QueueCap \in Nat \ {0}
    /\ Order \in Seq(Thread)
    /\ { Order[i] : i \in 1 .. Len(Order) } = Thread
    /\ \A i, j \in 1 .. Len(Order) : i < j => Rank(Order[i]) <= Rank(Order[j])

VARIABLES
    pullBased,  \* pull mode: a full queue drops the frame, nobody blocks
    at,         \* thread -> where it is in its loop
    asked,      \* threads whose interruption was requested
    queue,      \* queue -> its length
    turn,       \* the thread stop is dealing with, an index of Order
    phase,      \* what stop does next about it
    late,       \* threads whose wait timed out
    aborted     \* processors a user_abort was thrown in, which they do not catch

stopVars == <<asked, turn, phase, late, aborted>>
vars == <<pullBased, at, queue, stopVars>>

FrameQueue(c) == <<"frames", c>>
ObjectQueue == <<"object">>
LPQueue == <<"lp">>
TrackedQueue == <<"tracked">>
Queue == { FrameQueue(c) : c \in Cameras } \cup {ObjectQueue, LPQueue, TrackedQueue}

\* The queue a thread pops.
Input(t) == CASE Kind(t) = "processor" -> FrameQueue(t[2])
              [] Kind(t) = "detector" -> ObjectQueue
              [] Kind(t) = "lpdetector" -> LPQueue
              [] OTHER -> TrackedQueue

Init ==
    /\ pullBased \in Modes
    /\ at = [t \in Thread |-> "check"]
    /\ asked = {}
    /\ queue = [q \in Queue |-> 0]
    /\ turn = 1
    /\ phase = "idle"
    /\ late = {}
    /\ aborted = {}
------------------------------------------------------------------------------
(* The threads.                                                            *)

Move(t, place) == at' = [at EXCEPT ![t] = place]

\* while(!isInterruptionRequested())
Check(t) ==
    /\ at[t] = "check"
    /\ Move(t, IF t \in asked THEN "ended"
               ELSE IF Kind(t) = "capture" THEN "busy" ELSE "pop")
    /\ UNCHANGED <<pullBased, queue, stopVars>>

\* A detector may pop again to fill its batch without testing in between.
Pop(t) ==
    /\ at[t] = "pop"
    /\ queue[Input(t)] > 0
    /\ queue' = [queue EXCEPT ![Input(t)] = @ - 1]
    /\ \/ Move(t, "busy")
       \/ Kind(t) = "detector" /\ UNCHANGED at
    /\ UNCHANGED <<pullBased, stopVars>>

Put(q) ==
    /\ queue[q] < QueueCap
    /\ queue' = [queue EXCEPT ![q] = @ + 1]

\* A push camera blocks on a full queue, a pull camera drops the frame;
\* reading a frame may be interrupted, putting it in the queue may not.
Capture(c) ==
    LET t == <<"capture", c>>
        q == FrameQueue(c)
    IN
    /\ at[t] = "busy"
    /\ \/ Put(q)
       \/ pullBased /\ queue[q] = QueueCap /\ UNCHANGED queue
       \/ t \in asked /\ UNCHANGED queue
    /\ Move(t, "check")
    /\ UNCHANGED <<pullBased, stopVars>>

\* predict() for each stage: submit, then wait, with a timeout.  In pull mode
\* a frame that is refused or expires ends the iteration.
Process(c) ==
    LET t == <<"processor", c>> IN
    /\ \/ at[t] = "busy" /\ Put(ObjectQueue) /\ Move(t, "plates")
       \/ at[t] = "plates" /\ Put(LPQueue) /\ Move(t, "emit")
       \/ /\ at[t] \in {"busy", "plates", "emit"}
          /\ pullBased
          /\ Move(t, "check")
          /\ UNCHANGED queue
       \/ /\ at[t] = "emit"
          /\ \/ Put(TrackedQueue)
             \/ queue[TrackedQueue] = QueueCap /\ UNCHANGED queue
          /\ Move(t, "check")
    /\ UNCHANGED <<pullBased, stopVars>>

\* A worker is done with what it popped; an exception ends it.
Work(t) ==
    /\ Kind(t) \in {"detector", "lpdetector", "tracked"}
    /\ at[t] = "busy"
    /\ Move(t, "check") \/ Move(t, "ended")
    /\ UNCHANGED <<pullBased, queue, stopVars>>
------------------------------------------------------------------------------
(* APSSEngine::stop, on the main thread.                                   *)

Visited == Order[turn]

NextThread ==
    /\ turn' = IF turn = Len(Order) THEN turn ELSE turn + 1
    /\ phase' = IF turn = Len(Order) THEN "done" ELSE "request"

AboutToQuit ==
    /\ phase = "idle"
    /\ phase' = "request"
    /\ UNCHANGED <<pullBased, at, asked, queue, turn, late, aborted>>

\* Slip: the pool's queue is aborted, but requestInterruption is left out.
RequestOnlyAborts ==
    /\ phase = "request"
    /\ asked' = IF Kind(Visited) = "detector" THEN asked ELSE asked \cup {Visited}
    /\ phase' = IF Kind(Visited) \in {"capture", "processor"} THEN "wait" ELSE "abort"
    /\ UNCHANGED <<pullBased, at, queue, turn, late, aborted>>

Request ==
    /\ phase = "request"
    /\ asked' = asked \cup {Visited}
    /\ phase' = IF Kind(Visited) \in {"capture", "processor"} THEN "wait" ELSE "abort"
    /\ UNCHANGED <<pullBased, at, queue, turn, late, aborted>>

\* Threads blocked on the queue get a user_abort.  Those in pop end, whether
\* asked or not, but a thread that is only about to block misses it; a
\* processor blocked in emplace does not catch it.
Abort ==
    LET q == Input(Visited)
        poppers == { t \in Thread : Kind(t) = Kind(Visited) /\ at[t] = "pop" /\ queue[q] = 0 }
        blocked == { t \in Thread : /\ Kind(t) = "processor" /\ ~pullBased /\ queue[q] = QueueCap
                                    /\ at[t] = (CASE q = ObjectQueue -> "busy"
                                                  [] q = LPQueue -> "plates"
                                                  [] OTHER -> "never") }
    IN
    /\ phase = "abort"
    /\ \E woken \in SUBSET poppers :
         at' = [t \in Thread |-> IF t \in woken THEN "ended" ELSE at[t]]
    /\ aborted' = aborted \cup blocked
    /\ phase' = "wait"
    /\ UNCHANGED <<pullBased, asked, queue, turn, late>>

\* stop tests the result of wait() the wrong way round for these: it terminates
\* them when they have ended, which does nothing, and not when they are late.
Inverted == {"lpdetector", "tracked"}

\* wait() returned true.
Joined ==
    /\ phase = "wait"
    /\ at[Visited] = "ended"
    /\ NextThread
    /\ UNCHANGED <<pullBased, at, asked, queue, late, aborted>>

\* Slip: the return value of wait() is ignored.
WaitTimesOutUnnoticed ==
    /\ phase = "wait"
    /\ at[Visited] # "ended"
    /\ late' = late \cup {Visited}
    /\ NextThread
    /\ UNCHANGED <<pullBased, at, asked, queue, aborted>>

\* wait() returned false: terminate, and wait for the end of the thread.
WaitTimesOut ==
    /\ phase = "wait"
    /\ at[Visited] # "ended"
    /\ late' = late \cup {Visited}
    /\ IF Kind(Visited) \in Inverted
       THEN UNCHANGED at
       ELSE Move(Visited, "ended")
    /\ NextThread
    /\ UNCHANGED <<pullBased, asked, queue, aborted>>

\* Nothing runs any more, or what runs is blocked for good.
Quiet ==
    /\ phase = "done"
    /\ \A t \in Thread : at[t] # "ended" => at[t] = "pop" /\ queue[Input(t)] = 0
    /\ UNCHANGED vars

Next ==
    \/ \E t \in Thread : Check(t) \/ Pop(t) \/ Work(t)
    \/ \E c \in Cameras : Capture(c) \/ Process(c)
    \/ AboutToQuit \/ Request \/ Abort \/ Joined \/ WaitTimesOut
    \/ Quiet

Spec == Init /\ [][Next]_vars
------------------------------------------------------------------------------
(* Properties.                                                             *)

(***************************************************************************)
(* Type correctness; before stop is called nothing is asked of anybody.    *)
(***************************************************************************)
TypeOK ==
    /\ pullBased \in BOOLEAN
    /\ at \in [Thread -> {"check", "pop", "busy", "plates", "emit", "ended"}]
    /\ asked \in SUBSET Thread
    /\ queue \in [Queue -> 0 .. QueueCap]
    /\ turn \in 1 .. Len(Order)
    /\ phase \in {"idle", "request", "abort", "wait", "done"}
    /\ late \in SUBSET asked
    /\ aborted \in SUBSET Thread
    /\ phase = "idle" => asked = {}

(***************************************************************************)
(* A queue is aborted only when no processor can be blocked in its emplace *)
(* (CameraProcessor::run has no handler: an exception there would end the  *)
(* whole program), although a processor may sit in emplace for good.       *)
(***************************************************************************)
AbortsAreCaught == aborted = {}

(***************************************************************************)
(* The stages end from the source on: when stop deals with a thread, every *)
(* capture, processor and object detector thread before it has ended, also *)
(* if it missed the abort of its queue or never gets one.  It does not     *)
(* hold of the kinds whose wait() is tested the wrong way round.           *)
(***************************************************************************)
EarlierStagesEnded ==
    \A i \in 1 .. Len(Order) :
        (i < turn \/ phase = "done") /\ Kind(Order[i]) \notin Inverted
            => at[Order[i]] = "ended"

(***************************************************************************)
(* Comment at apssengine.cpp:132, "Stop License Plate Detectors": after    *)
(* stop none of them is running.                                           *)
(***************************************************************************)
LPDetectorsStopped ==
    phase = "done" => \A l \in LPDetectors : at[<<"lpdetector", l>>] = "ended"
===============================================================================
