------------------------------- MODULE EventLog -------------------------------
(***************************************************************************)
(* What the event processor promises about the Event table: one row per    *)
(* appearance of a track, opened once, closed once, and after that changed *)
(* by nothing but the license plate text.                                  *)
(***************************************************************************)
EXTENDS Naturals, Sequences

CONSTANTS
    Track,      \* what an event is about: an object followed by one camera
    Scores,     \* confidences a detection may have
    MaxLost,    \* frames a track may be missing before its event closes
    MaxFrames   \* frames of a camera (a bound)

VARIABLE log    \* row id -> the row, and whether it is closed

Init == log = <<>>

\* The last frame a closed event was seen in: an event seen once has no end.
LastSeen(r) == IF r.ended = 0 THEN r.start ELSE r.ended

\* A track gets a row when it has no open one; if it had one before, more
\* than MaxLost frames of its camera lie between its last frame and this one.
Open(t, n, s) ==
    /\ \A i \in 1 .. Len(log) : log[i].track = t =>
            log[i].closed /\ n > LastSeen(log[i]) + MaxLost + 1
    /\ log' = Append(log, [track |-> t, start |-> n, ended |-> 0, top |-> s,
                           plates |-> FALSE, closed |-> FALSE])

\* The outcome is written once, as a whole.
Close(i, n, s) ==
    /\ i \in 1 .. Len(log)
    /\ ~log[i].closed
    /\ n = 0 \/ n > log[i].start
    /\ s >= log[i].top
    /\ log' = [log EXCEPT ![i] = [@ EXCEPT !.ended = n, !.top = s, !.closed = TRUE]]

\* Recognition comes after closing and touches nothing else.
Annotate(i) ==
    /\ i \in 1 .. Len(log)
    /\ log[i].closed
    /\ log' = [log EXCEPT ![i] = [@ EXCEPT !.plates = TRUE]]

Next ==
    \/ \E t \in Track, n \in 1 .. MaxFrames, s \in Scores : Open(t, n, s)
    \/ \E i \in 1 .. Len(log), n \in 0 .. MaxFrames, s \in Scores : Close(i, n, s)
    \/ \E i \in 1 .. Len(log) : Annotate(i)

Spec == Init /\ [][Next]_log
===============================================================================
