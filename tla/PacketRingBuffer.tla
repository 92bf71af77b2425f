--------------------------- MODULE PacketRingBuffer ---------------------------
(***************************************************************************)
(* The latest packets of a camera, meant to go in front of a recording:    *)
(* push() charges each packet's duration to an account and drops the       *)
(* oldest packets while the account is over the limit.  A packet without a *)
(* duration is charged the distance to the pts of the packet before it,    *)
(* if both are known, but credited nothing when it is dropped.             *)
(***************************************************************************)
EXTENDS Naturals, Sequences

CONSTANTS
    DurationLimit,  \* m_durationLimit, in units of the time base
    Durations,      \* durations of packets, 0 if there is none
    Gaps,           \* distances of a packet's pts to the one before, 0 if unknown
    MaxPushes       \* bound of the model

ASSUME RingAssumption ==
    DurationLimit \in Nat /\ Durations \subseteq Nat /\ Gaps \subseteq Nat

VARIABLES
    ring,           \* m_buffer: the durations of the packets it holds
    totalTime,      \* m_totalSeconds
    pushes          \* durations of all packets pushed (a history of the model)

ringVars == <<ring, totalTime, pushes>>

RingInit == ring = <<>> /\ totalTime = 0 /\ pushes = <<>>

\* The sums of the first n of s, for each n.
Sums(s) ==
    LET total[n \in 0 .. Len(s)] == IF n = 0 THEN 0 ELSE total[n - 1] + s[n] IN total

Sum(s) == Sums(s)[Len(s)]

\* The account when the first n packets are dropped.
Dropped(n, packets, total) == total - Sum(SubSeq(packets, 1, n))

\* Slip: one packet at most is dropped.
ExcessOne(packets, total) == IF total > DurationLimit THEN 1 ELSE 0

\* How many are dropped: until the account fits or none is left.
Excess(packets, total) ==
    CHOOSE n \in 0 .. Len(packets) :
        /\ Dropped(n, packets, total) <= DurationLimit \/ n = Len(packets)
        /\ \A k \in 0 .. n - 1 : Dropped(k, packets, total) > DurationLimit

Push(duration, gap) ==
    LET packets == Append(ring, duration)
        total == totalTime + (IF duration > 0 THEN duration ELSE gap)
        n == Excess(packets, total)
    IN  /\ ring' = SubSeq(packets, n + 1, Len(packets))
        /\ totalTime' = Dropped(n, packets, total)
        /\ pushes' = Append(pushes, duration)

\* Copies for a new recording; the buffer keeps its packets.
ExtractAll == UNCHANGED ringVars

RingNext ==
    \/ Len(pushes) < MaxPushes /\ \E duration \in Durations, gap \in Gaps : Push(duration, gap)
    \/ ExtractAll

RingSpec == RingInit /\ [][RingNext]_ringVars
------------------------------------------------------------------------------
(* Properties.                                                             *)

Latest(n) == SubSeq(pushes, Len(pushes) - n + 1, Len(pushes))

\* The buffer holds an unbroken run of the latest packets, within the limit and never
\* charged less than it is worth; if all packets came with durations, it is the longest
\* such run.
HoldsLongestSuffix ==
    /\ ring = Latest(Len(ring))
    /\ Sum(ring) <= DurationLimit /\ Sum(ring) <= totalTime
    /\ (\A i \in DOMAIN pushes : pushes[i] > 0) =>
           Len(ring) = Len(pushes) \/ Sum(Latest(Len(ring) + 1)) > DurationLimit
=============================================================================
