------------------------- MODULE EngineShutdownProofs -------------------------
(***************************************************************************)
(* Theorems about APSSEngine::stop, for any cameras, workers and queue     *)
(* capacities and whatever the threads do meanwhile: the stages end from   *)
(* the source on, and no queue is aborted under a processor.               *)
(*                                                                         *)
(* An ended thread stays ended, so the second property needs only that     *)
(* stop aborts no queue before it has dealt with all processors (in        *)
(* Aborting), which its order sees to.  Aborting also says that a thread   *)
(* is waited for only after its interruption was requested.                *)
(***************************************************************************)
EXTENDS EngineShutdown, TLAPS

\* The kinds of the threads, and what Thread is made of.
LEMMA ThreadKinds ==
    /\ \A t \in Thread :
         /\ Kind(t) \in {"capture", "processor", "detector", "lpdetector", "tracked"}
         /\ Kind(t) \in {"capture", "processor"} => t[2] \in Cameras
    /\ \A c \in Cameras : <<"capture", c>> \in Thread /\ <<"processor", c>> \in Thread
    /\ \A c \in Cameras : Kind(<<"capture", c>>) = "capture" /\ Kind(<<"processor", c>>) = "processor"
    /\ <<"tracked", Tracked>> \in Thread
  BY DEF Thread, Kind

\* What a thread pops is one of the queues.
LEMMA InputIsQueue == \A t \in Thread : Input(t) \in Queue
  BY ThreadKinds DEF Input, Queue, FrameQueue

LEMMA OtherQueues ==
    /\ ObjectQueue \in Queue /\ LPQueue \in Queue /\ TrackedQueue \in Queue
    /\ \A c \in Cameras : FrameQueue(c) \in Queue
  BY DEF Queue

\* stop visits threads, and has at least one to visit.
LEMMA OrderFacts ==
    /\ Len(Order) \in Nat \ {0}
    /\ \A i \in 1 .. Len(Order) : Order[i] \in Thread
    /\ \A t \in Thread : \E i \in 1 .. Len(Order) : Order[i] = t
  <1>1. Len(Order) \in Nat /\ \A i \in 1 .. Len(Order) : Order[i] \in Thread
    BY ShutdownAssumption DEF ShutdownAssumption
  <1>2. \A t \in Thread : \E i \in 1 .. Len(Order) : Order[i] = t
    BY ShutdownAssumption DEF ShutdownAssumption
  <1>. QED BY <1>1, <1>2, ThreadKinds

Places == {"check", "pop", "busy", "plates", "emit", "ended"}

\* Once ended, a thread stays so.
EndedStay == \A t \in Thread : at[t] = "ended" => at'[t] = "ended"

\* When stop aborts a queue, the thread it deals with is behind all processors.
Aborting ==
    /\ phase = "abort" => Kind(Visited) \notin {"capture", "processor"}
    /\ phase \in {"abort", "wait"} => Visited \in asked

ShutdownInv == TypeOK /\ EarlierStagesEnded /\ Aborting /\ AbortsAreCaught

LEMMA ShutdownInit == Init => ShutdownInv
  <1>. SUFFICES ASSUME Init PROVE ShutdownInv
    OBVIOUS
  <1>1. TypeOK
    BY OrderFacts, ShutdownAssumption DEF Init, TypeOK, ShutdownAssumption
  <1>. QED
    BY <1>1, OrderFacts DEF Init, ShutdownInv, EarlierStagesEnded, Aborting, AbortsAreCaught

\* A step of a thread that leaves stop where it is.
LEMMA ThreadStep ==
    ASSUME ShutdownInv, UNCHANGED <<pullBased, stopVars>>,
           NEW t \in Thread, at[t] # "ended", NEW place \in Places, Move(t, place),
           queue' \in [Queue -> 0 .. QueueCap]
    PROVE  ShutdownInv'
  <1>. USE DEF ShutdownInv, stopVars
  <1>1. at' \in [Thread -> Places] /\ EndedStay
    BY DEF TypeOK, Move, Places, EndedStay
  <1>2. TypeOK'
    BY <1>1 DEF TypeOK, Places
  <1>3. EarlierStagesEnded'
    BY <1>1, OrderFacts DEF EarlierStagesEnded, EndedStay
  <1>. QED BY <1>2, <1>3 DEF Aborting, AbortsAreCaught, Visited

\* One frame less in a queue, or one more while there is room.
LEMMA QueueSteps ==
    ASSUME TypeOK, NEW q \in Queue
    PROVE  /\ queue[q] > 0 => [queue EXCEPT ![q] = @ - 1] \in [Queue -> 0 .. QueueCap]
           /\ Put(q) => queue' \in [Queue -> 0 .. QueueCap]
  <1>1. QueueCap \in Nat
    BY ShutdownAssumption DEF ShutdownAssumption
  <1>2. queue \in [Queue -> 0 .. QueueCap] /\ queue[q] \in 0 .. QueueCap
    BY DEF TypeOK
  <1>3. ASSUME queue[q] > 0 PROVE [queue EXCEPT ![q] = @ - 1] \in [Queue -> 0 .. QueueCap]
    <2>1. queue[q] - 1 \in 0 .. QueueCap
      BY <1>1, <1>2, <1>3
    <2>. QED BY <1>2, <2>1
  <1>4. ASSUME Put(q) PROVE queue' \in [Queue -> 0 .. QueueCap]
    <2>1. queue[q] + 1 \in 0 .. QueueCap
      BY <1>1, <1>2, <1>4 DEF Put
    <2>. QED BY <1>2, <1>4, <2>1 DEF Put
  <1>. QED BY <1>3, <1>4

LEMMA CheckStep ==
    ASSUME ShutdownInv, NEW t \in Thread, Check(t)
    PROVE  ShutdownInv'
  <1>1. UNCHANGED <<pullBased, stopVars>> /\ at[t] # "ended" /\ queue' \in [Queue -> 0 .. QueueCap]
    BY DEF Check, ShutdownInv, TypeOK
  <1>2. PICK place \in Places : Move(t, place)
    BY DEF Check, Places
  <1>. QED BY <1>1, <1>2, ThreadStep

LEMMA PopStep ==
    ASSUME ShutdownInv, NEW t \in Thread, Pop(t)
    PROVE  ShutdownInv'
  <1>1. UNCHANGED <<pullBased, stopVars>> /\ at[t] = "pop" /\ queue' \in [Queue -> 0 .. QueueCap]
    BY InputIsQueue, QueueSteps DEF Pop, ShutdownInv
  <1>2. CASE Move(t, "busy")
    BY <1>1, <1>2, ThreadStep DEF Places
  <1>3. CASE UNCHANGED at
    <2>1. Move(t, "pop")
      BY <1>1, <1>3 DEF Move, ShutdownInv, TypeOK
    <2>. QED BY <1>1, <2>1, ThreadStep DEF Places
  <1>. QED BY <1>2, <1>3 DEF Pop

LEMMA CaptureStep ==
    ASSUME ShutdownInv, NEW c \in Cameras, Capture(c)
    PROVE  ShutdownInv'
  <1>. DEFINE t == <<"capture", c>>
  <1>1. t \in Thread /\ UNCHANGED <<pullBased, stopVars>> /\ at[t] # "ended" /\ Move(t, "check")
    BY ThreadKinds DEF Capture
  <1>2. queue' \in [Queue -> 0 .. QueueCap]
    BY OtherQueues, QueueSteps DEF Capture, ShutdownInv, TypeOK
  <1>. HIDE DEF t
  <1>. QED BY <1>1, <1>2, ThreadStep DEF Places

LEMMA ProcessStep ==
    ASSUME ShutdownInv, NEW c \in Cameras, Process(c)
    PROVE  ShutdownInv'
  <1>. DEFINE t == <<"processor", c>>
  <1>1. t \in Thread /\ UNCHANGED <<pullBased, stopVars>> /\ at[t] # "ended"
    BY ThreadKinds DEF Process
  <1>2. queue' \in [Queue -> 0 .. QueueCap]
    BY OtherQueues, QueueSteps DEF Process, ShutdownInv, TypeOK
  <1>3. \E place \in Places : Move(t, place)
    BY DEF Process, Places
  <1>. HIDE DEF t
  <1>. QED BY <1>1, <1>2, <1>3, ThreadStep

LEMMA WorkStep ==
    ASSUME ShutdownInv, NEW t \in Thread, Work(t)
    PROVE  ShutdownInv'
  <1>1. UNCHANGED <<pullBased, stopVars>> /\ at[t] # "ended" /\ queue' \in [Queue -> 0 .. QueueCap]
    BY DEF Work, ShutdownInv, TypeOK
  <1>2. PICK place \in Places : Move(t, place)
    BY DEF Work, Places
  <1>. QED BY <1>1, <1>2, ThreadStep

\* The thread stop deals with is one of the threads.
LEMMA VisitedThread ==
    ASSUME TypeOK
    PROVE  Visited \in Thread
  BY OrderFacts DEF TypeOK, Visited

\* stop goes on to the next thread: the one it leaves has ended, unless it is of a
\* kind for which the result of wait() is tested the wrong way round.
LEMMA NextThreadStep ==
    ASSUME ShutdownInv, phase = "wait", NextThread, at' \in [Thread -> Places], EndedStay,
           Kind(Visited) \notin Inverted => at'[Visited] = "ended",
           late' \in SUBSET asked, UNCHANGED <<pullBased, asked, queue, aborted>>
    PROVE  ShutdownInv'
  <1>. USE DEF ShutdownInv
  <1>1. TypeOK'
    BY OrderFacts DEF TypeOK, NextThread, Places
  <1>2. EarlierStagesEnded'
    <2>. SUFFICES ASSUME NEW i \in 1 .. Len(Order), i < turn' \/ phase' = "done",
                         Kind(Order[i]) \notin Inverted
                  PROVE  at'[Order[i]] = "ended"
      BY DEF EarlierStagesEnded
    <2>1. i < turn \/ i = turn
      BY OrderFacts DEF NextThread, TypeOK
    <2>. QED BY <2>1, OrderFacts DEF EarlierStagesEnded, EndedStay, Visited
  <1>3. Aborting' /\ AbortsAreCaught'
    BY DEF NextThread, Aborting, AbortsAreCaught
  <1>. QED BY <1>1, <1>2, <1>3

\* When a queue is aborted, every processor has ended.
LEMMA ProcessorsEnded ==
    ASSUME ShutdownInv, phase = "abort"
    PROVE  \A t \in Thread : Kind(t) = "processor" => at[t] = "ended"
  <1>. USE DEF ShutdownInv
  <1>. SUFFICES ASSUME NEW t \in Thread, Kind(t) = "processor" PROVE at[t] = "ended"
    OBVIOUS
  <1>1. PICK i \in 1 .. Len(Order) : Order[i] = t
    BY OrderFacts
  <1>2. turn \in 1 .. Len(Order) /\ Order[turn] \in Thread
    BY OrderFacts DEF TypeOK
  <1>3. Rank(Order[turn]) \in 3 .. 5
    BY <1>2, ThreadKinds DEF Aborting, Visited, Rank
  <1>4. Rank(t) = 2
    BY DEF Rank
  <1>5. ~(turn <= i)
    <2>1. turn < i => Rank(Order[turn]) <= Rank(Order[i])
      BY <1>2, ShutdownAssumption DEF ShutdownAssumption
    <2>. QED BY <1>1, <1>2, <1>3, <1>4, <2>1
  <1>. QED BY <1>1, <1>2, <1>5 DEF EarlierStagesEnded, Inverted

LEMMA AbortStep ==
    ASSUME ShutdownInv, Abort
    PROVE  ShutdownInv'
  <1>. USE DEF ShutdownInv
  <1>1. phase = "abort" /\ phase' = "wait" /\ UNCHANGED <<pullBased, asked, queue, turn, late>>
    BY DEF Abort
  <1>2. at' \in [Thread -> Places] /\ EndedStay
    BY DEF Abort, TypeOK, Places, EndedStay
  <1>3. aborted' = aborted
    BY <1>1, ProcessorsEnded DEF Abort
  <1>4. TypeOK'
    BY <1>1, <1>2, <1>3 DEF TypeOK, Places
  <1>5. EarlierStagesEnded'
    BY <1>1, <1>2, OrderFacts DEF EarlierStagesEnded, EndedStay
  <1>. QED BY <1>1, <1>3, <1>4, <1>5 DEF Aborting, AbortsAreCaught, Visited

LEMMA StopStep ==
    ASSUME ShutdownInv, AboutToQuit \/ Request \/ Joined \/ WaitTimesOut
    PROVE  ShutdownInv'
  <1>. USE DEF ShutdownInv
  <1>1. CASE AboutToQuit
    BY <1>1 DEF AboutToQuit, TypeOK, EarlierStagesEnded, Aborting, AbortsAreCaught
  <1>2. CASE Request
    <2>1. Visited \in Thread
      BY VisitedThread
    <2>2. TypeOK'
      BY <1>2, <2>1 DEF Request, TypeOK
    <2>. QED
      BY <1>2, <2>2 DEF Request, EarlierStagesEnded, Aborting, AbortsAreCaught, Visited
  <1>3. CASE Joined
    BY <1>3, NextThreadStep DEF Joined, EndedStay, TypeOK, Places
  <1>4. CASE WaitTimesOut
    <2>1. Visited \in Thread
      BY VisitedThread
    <2>2. at' \in [Thread -> Places] /\ EndedStay /\ (Kind(Visited) \notin Inverted => at'[Visited] = "ended")
      BY <1>4, <2>1 DEF WaitTimesOut, Move, EndedStay, TypeOK, Places
    <2>3. Visited \in asked
      BY <1>4 DEF WaitTimesOut, Aborting
    <2>4. late' \in SUBSET asked
      BY <1>4, <2>3 DEF WaitTimesOut, TypeOK
    <2>. QED
      BY <1>4, <2>2, <2>4, NextThreadStep DEF WaitTimesOut
  <1>. QED BY <1>1, <1>2, <1>3, <1>4

\* Every step of the threads and of stop keeps the invariant.
LEMMA ShutdownStep == ShutdownInv /\ [Next]_vars => ShutdownInv'
  <1>. SUFFICES ASSUME ShutdownInv, [Next]_vars PROVE ShutdownInv'
    OBVIOUS
  <1>1. CASE UNCHANGED vars
    BY <1>1 DEF ShutdownInv, TypeOK, EarlierStagesEnded, Aborting, AbortsAreCaught, Visited,
                vars, stopVars
  <1>. QED
    BY <1>1, CheckStep, PopStep, CaptureStep, ProcessStep, WorkStep, AbortStep, StopStep
    DEF Next, Quiet

LEMMA ShutdownHolds == Spec => []ShutdownInv
  BY ShutdownInit, ShutdownStep, PTL DEF Spec

(***************************************************************************)
(* Queues stay within their capacities, and only threads that were asked   *)
(* to end are late.                                                        *)
(***************************************************************************)
THEOREM ShutdownTypes == Spec => []TypeOK
  BY ShutdownHolds, PTL DEF ShutdownInv

(***************************************************************************)
(* For any number of threads and whatever they miss: when stop deals with  *)
(* a thread, every capture, processor and object detector thread before it *)
(* has ended.                                                              *)
(***************************************************************************)
THEOREM StagesEndInOrder == Spec => []EarlierStagesEnded
  BY ShutdownHolds, PTL DEF ShutdownInv

(***************************************************************************)
(* No user_abort reaches a processor, which has no handler for it.         *)
(***************************************************************************)
THEOREM NoAbortEscapes == Spec => []AbortsAreCaught
  BY ShutdownHolds, PTL DEF ShutdownInv
===============================================================================
