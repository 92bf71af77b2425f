----------------------------- MODULE AreaEstimator -----------------------------
(***************************************************************************)
(* CameraProcessor::estimateChangesInArea: decides, per tracked vehicle    *)
(* and frame, whether its license plate is worth detecting (hasDeltas),    *)
(* from the area of its box in this frame and in the frame that last       *)
(* triggered a detection.  Times are those of QTime: they wrap at midnight.*)
(***************************************************************************)
EXTENDS Integers, Sequences, FiniteSets

CONSTANTS
    Trackers,       \* tracker ids
    Areas,          \* box areas that occur
    MinArea,        \* TRACK_MIN_AREA
    MaxLostWait,    \* TRACK_MAX_LOST_WAIT, in seconds
    Day,            \* seconds in a day
    MaxTime,        \* seconds the model runs for (bound of the model)
    MaxSightings    \* frames an object is seen in (bound of the model)

ASSUME EstimatorAssumption ==
    /\ Areas \subseteq Nat
    /\ MinArea \in Nat
    /\ MaxLostWait \in Nat
    /\ Day \in Nat \ {0}
    /\ MaxTime \in Nat

VARIABLES
    now,            \* seconds since the start
    cache,          \* objectsHistory: tracker -> its TrackedObject, or Unseen
    sightings       \* history: tracker -> its observations, oldest first

areaVars == <<now, cache, sightings>>

None == -1

Unseen == [known |-> FALSE, lastSeenAt |-> 0, lastTriggered |-> None, maxObserved |-> 0]

\* What is observed of a vehicle: its area, and whether it shows its side.
Box == [area : Areas, side : BOOLEAN]

AreaInit ==
    /\ now = 0
    /\ cache = [k \in Trackers |-> Unseen]
    /\ sightings = [k \in Trackers |-> <<>>]

\* Slip: seconds that do not wrap.
ClockSinceStart == now

Clock == now % Day

\* QTime::secsTo: negative when the other time is earlier in the day.
SecsTo(from, to) == to - from

RemoveLost ==
    [k \in Trackers |->
        IF cache[k].known /\ SecsTo(cache[k].lastSeenAt, Clock) > MaxLostWait
        THEN Unseen ELSE cache[k]]

\* Slip: > instead of >=.
ApproachingStrictly(area, ref) == ref # None /\ area * 10 > ref * 11

\* 10% larger and 20% smaller than the area that last triggered.
Approaching(area, ref) == ref # None /\ area * 10 >= ref * 11
Departing(area, ref) == ref # None /\ area * 10 <= ref * 8

LargerOf(a, b) == IF a > b THEN a ELSE b

\* A detection is triggered: remember the area.
Trigger(area) ==
    [known |-> TRUE, lastSeenAt |-> Clock, lastTriggered |-> area, maxObserved |-> area]

\* The maximum is raised to this area before anything is compared with it.
MaxObserved(h, area) == LargerOf(h.maxObserved, area)

HasDeltas(h, box) ==
    /\ box.area >= MinArea
    /\ ~box.side
    /\ \/ h.lastTriggered = None
       \/ Approaching(box.area, h.lastTriggered)
       \/ box.area > MaxObserved(h, box.area)

\* Slip: a side view resets the trigger too.
ObserveResetsOnSideView(h, box) ==
    IF HasDeltas(h, box) THEN Trigger(box.area)
    ELSE [known |-> TRUE, lastSeenAt |-> Clock,
          maxObserved |-> MaxObserved(h, box.area),
          lastTriggered |-> IF Departing(box.area, h.lastTriggered) \/ box.side
                            THEN None ELSE h.lastTriggered]

\* A departing vehicle triggers again when it is next seen well.
Observe(h, box) ==
    IF HasDeltas(h, box) THEN Trigger(box.area)
    ELSE [known |-> TRUE, lastSeenAt |-> Clock,
          maxObserved |-> MaxObserved(h, box.area),
          lastTriggered |-> IF /\ box.area >= MinArea /\ ~box.side
                               /\ Departing(box.area, h.lastTriggered)
                            THEN None ELSE h.lastTriggered]

\* One frame with the boxes of the trackers in it.
EstimateChangesInArea(boxes) ==
    LET kept == RemoveLost IN
    /\ \A k \in DOMAIN boxes : Len(sightings[k]) < MaxSightings
    /\ cache' = [k \in Trackers |->
                    IF k \in DOMAIN boxes THEN Observe(kept[k], boxes[k]) ELSE kept[k]]
    /\ sightings' = [k \in Trackers |->
                    IF k \in DOMAIN boxes
                    THEN Append(sightings[k], [box |-> boxes[k], time |-> now,
                                               deltas |-> HasDeltas(kept[k], boxes[k])])
                    ELSE sightings[k]]
    /\ UNCHANGED now

Tick ==
    /\ now < MaxTime
    /\ now' = now + 1
    /\ UNCHANGED <<cache, sightings>>

AreaNext ==
    \/ \E seen \in SUBSET Trackers : \E boxes \in [seen -> Box] : EstimateChangesInArea(boxes)
    \/ Tick

AreaSpec == AreaInit /\ [][AreaNext]_areaVars
-------------------------------------------------------------------------------
(* Properties.                                                             *)

(***************************************************************************)
(* Type correctness: last_seen_at is a time of day, and a remembered area  *)
(* is one that was seen.                                                   *)
(***************************************************************************)
AreaTypeOK ==
    /\ now \in 0 .. MaxTime
    /\ cache \in [Trackers -> [known : BOOLEAN, lastSeenAt : 0 .. Day - 1,
                               lastTriggered : Areas \cup {None},
                               maxObserved : Areas \cup {0}]]
    /\ sightings \in [Trackers -> Seq([box : Box, time : Nat, deltas : BOOLEAN])]

WellSeen(box) == box.area >= MinArea /\ ~box.side

(***************************************************************************)
(* No approach is missed: once a vehicle is seen well at 1.1 times the     *)
(* area of an earlier trigger, a detection has been triggered after that   *)
(* one, whatever departures and absences came in between.                  *)
(***************************************************************************)
ApproachTriggers ==
    \A k \in Trackers : LET s == sightings[k] IN
        \A i, j \in 1 .. Len(s) :
            (/\ i < j /\ s[i].deltas /\ WellSeen(s[j].box)
             /\ s[j].box.area * 10 >= s[i].box.area * 11)
            => \E m \in i + 1 .. j : s[m].deltas

(***************************************************************************)
(* Detection is shed: a vehicle triggers again only for a reason.  Since   *)
(* the earlier trigger it came closer by 10%, went away by 20%, was gone   *)
(* for longer than MaxLostWait, or is now larger than it has been since.   *)
(* Neither a side view nor a box that is too small makes it trigger.       *)
(***************************************************************************)
TriggeredForAReason ==
    \A k \in Trackers : LET s == sightings[k] IN
        \A i, j \in 1 .. Len(s) :
            i < j /\ s[i].deltas /\ s[j].deltas =>
            \/ \A m \in i .. j - 1 : s[m].box.area < s[j].box.area
            \/ \E m \in i + 1 .. j :
                 \/ s[m].box.area * 10 >= s[i].box.area * 11
                 \/ s[m].box.area * 10 <= s[i].box.area * 8 /\ WellSeen(s[m].box)
                 \/ s[m].time - s[m - 1].time > MaxLostWait

(***************************************************************************)
(* Comment at cameraprocessor.cpp:177, "new maximum area observed (even if *)
(* stationary)" triggers a detection: a vehicle that is seen well and      *)
(* larger than ever before has its license plate detected.                 *)
(***************************************************************************)
NewMaximumTriggers ==
    \A k \in Trackers : LET s == sightings[k] IN
        \A j \in 1 .. Len(s) :
            /\ WellSeen(s[j].box)
            /\ \A i \in 1 .. j - 1 : s[i].box.area < s[j].box.area
            => s[j].deltas

===============================================================================
