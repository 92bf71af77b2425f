------------------------------- MODULE EventRate -------------------------------
(***************************************************************************)
(* EventsPerSecond: the rate of a thread's work over the last seconds,     *)
(* from the times of its events.  The list of times is cut back when it    *)
(* grows too long, and old times leave it when it is next used.            *)
(*                                                                         *)
(* Time is in whole seconds, and does not run backwards.                   *)
(***************************************************************************)
EXTENDS Naturals, Sequences, FiniteSets

CONSTANTS
    LastSeconds,    \* m_lastNSeconds
    MaxEvents,      \* m_maxEvents
    Slack,          \* times beyond it before the list is cut: 100
    MaxUpdates, MaxSeconds  \* bounds of the model

ASSUME RateAssumption ==
    LastSeconds \in Nat \ {0} /\ MaxEvents \in Nat \ {0} /\ Slack \in Nat

VARIABLES
    started,        \* m_start, 0 if unset
    timestamps,     \* m_timestamps
    clock,          \* seconds
    updates         \* times of all updates (a history of the model)

rateVars == <<started, timestamps, clock, updates>>

RateInit == started = 0 /\ timestamps = <<>> /\ clock = 1 /\ updates = <<>>

Recent(t) == t + LastSeconds >= clock

\* Slip: the time that is just as old as the window goes too.
ExpiredEarly(times) == SelectSeq(times, LAMBDA t : t + LastSeconds > clock)

\* expireTimestamps: how many are removed, from the front until one is recent.
Old(times) ==
    CHOOSE n \in 0 .. Len(times) :
        /\ n = Len(times) \/ Recent(times[n + 1])
        /\ \A k \in 1 .. n : ~Recent(times[k])

Expired(times) == SubSeq(times, Old(times) + 1, Len(times))

\* Slip: the list is cut at its other end.
CutAtEnd(times) ==
    IF Len(times) > MaxEvents + Slack THEN SubSeq(times, 1, MaxEvents) ELSE times

Cut(times) ==
    IF Len(times) > MaxEvents + Slack
    THEN SubSeq(times, Len(times) - MaxEvents + 1, Len(times)) ELSE times

Started == IF started = 0 THEN clock ELSE started

StartRate == started' = clock /\ UNCHANGED <<timestamps, clock, updates>>

UpdateRate ==
    /\ started' = Started
    /\ timestamps' = Expired(Cut(Append(timestamps, clock)))
    /\ updates' = Append(updates, clock)
    /\ UNCHANGED clock

\* eps() returns Rate.
Eps ==
    /\ started' = Started
    /\ timestamps' = Expired(timestamps)
    /\ UNCHANGED <<clock, updates>>

Rate ==
    LET elapsed == clock - Started
        seconds == IF elapsed < LastSeconds THEN elapsed ELSE LastSeconds
    IN  [count |-> Len(Expired(timestamps)), seconds |-> IF seconds = 0 THEN 1 ELSE seconds]

SecondPasses ==
    /\ clock < MaxSeconds
    /\ clock' = clock + 1
    /\ UNCHANGED <<started, timestamps, updates>>

RateNext ==
    \/ StartRate \/ Eps \/ SecondPasses
    \/ Len(updates) < MaxUpdates /\ UpdateRate

RateSpec == RateInit /\ [][RateNext]_rateVars
------------------------------------------------------------------------------
(* Properties.                                                             *)

\* Whenever it is asked for, the rate counts the events of the last seconds, all of
\* them unless there are too many, and then the latest; the list stays short, and the
\* time they are divided by is positive.
CountsTheLatest ==
    LET latest == Cardinality({ i \in DOMAIN updates : Recent(updates[i]) }) IN
    /\ Rate.count <= latest
    /\ latest <= MaxEvents => Rate.count = latest
    /\ latest > MaxEvents => Rate.count >= MaxEvents
    /\ Len(timestamps) <= MaxEvents + Slack
    /\ Rate.seconds \in 1 .. LastSeconds
===============================================================================
