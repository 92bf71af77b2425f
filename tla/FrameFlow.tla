------------------------------ MODULE FrameFlow ------------------------------
(***************************************************************************)
(* What the frame pipeline promises of one camera's frames, whatever the   *)
(* number of detectors and whatever goes wrong in them: a lossy FIFO.      *)
(* Frames arrive numbered in capture order and wait; the frame at the head *)
(* leaves the pipeline either delivered to the tracked-frame queue or      *)
(* dropped.  FramePipeline implements this specification.                  *)
(***************************************************************************)
EXTENDS Naturals, Sequences

CONSTANTS Cameras,      \* the enabled cameras
          MaxFrames     \* camera -> frames it captures (bound of the model)

Frame == UNION { [camera : {c}, index : 0 .. MaxFrames[c] - 1] : c \in Cameras }

VARIABLES captured,     \* camera -> index of its next frame
          waiting,      \* camera -> its captured frames, not yet decided
          delivered     \* camera -> its frames put on the tracked-frame queue

flowVars == <<captured, waiting, delivered>>

FrameOf(c, n) == [camera |-> c, index |-> n]

Init ==
    /\ captured = [c \in Cameras |-> 0]
    /\ waiting = [c \in Cameras |-> <<>>]
    /\ delivered = [c \in Cameras |-> <<>>]

Arrive(c) ==
    /\ captured[c] < MaxFrames[c]
    /\ captured' = [captured EXCEPT ![c] = @ + 1]
    /\ waiting' = [waiting EXCEPT ![c] = Append(@, FrameOf(c, captured[c]))]
    /\ UNCHANGED delivered

Skip(c) ==
    /\ captured[c] < MaxFrames[c]
    /\ captured' = [captured EXCEPT ![c] = @ + 1]
    /\ UNCHANGED <<waiting, delivered>>

Drop(c) ==
    /\ waiting[c] # <<>>
    /\ waiting' = [waiting EXCEPT ![c] = Tail(@)]
    /\ UNCHANGED <<captured, delivered>>

Deliver(c) ==
    /\ waiting[c] # <<>>
    /\ waiting' = [waiting EXCEPT ![c] = Tail(@)]
    /\ delivered' = [delivered EXCEPT ![c] = Append(@, Head(waiting[c]))]
    /\ UNCHANGED captured

Next == \E c \in Cameras : Arrive(c) \/ Skip(c) \/ Drop(c) \/ Deliver(c)

Spec == Init /\ [][Next]_flowVars

\* A frame that waits leaves: the pipeline never stops deciding.
FairSpec == Spec /\ \A c \in Cameras : WF_flowVars(Drop(c) \/ Deliver(c))
-----------------------------------------------------------------------------
Ascending(s) == \A i, j \in 1 .. Len(s) : i < j => s[i].index < s[j].index

Precedes(s, t) == \A i \in 1 .. Len(s), j \in 1 .. Len(t) : s[i].index < t[j].index

(***************************************************************************)
(* Per camera, frames leave in capture order and at most once: what was    *)
(* delivered is strictly ascending, and comes before all that still waits. *)
(***************************************************************************)
InOrder ==
    \A c \in Cameras : /\ Ascending(delivered[c])
                       /\ Ascending(waiting[c])
                       /\ Precedes(delivered[c], waiting[c])
=============================================================================
