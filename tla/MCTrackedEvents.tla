---------------------------- MODULE MCTrackedEvents ----------------------------
EXTENDS TrackedEvents, TLC

TwoScores == {1, 2}
OneScore == {1}

OneCamera == \E c \in Cameras : \A d \in Cameras \ {c} : frames[d] = 0

TracksInUse ==
    { t \in Track : history[t].known } \cup { events[id].track : id \in DOMAIN events }
    \cup { [camera |-> camera, tracker |-> todo[i].tracker] : i \in DOMAIN todo }

OneTracker == Cardinality({ t.tracker : t \in TracksInUse }) <= 1

ScoresInUse ==
    { history[t].top : t \in Track } \cup { todo[i].score : i \in DOMAIN todo }

\* Two tracks of one camera for long, or two cameras with the same tracker id and
\* varying scores for three frames each.
TwoTracksOrTwoCameras ==
    \/ OneCamera /\ ScoresInUse \subseteq {0, 1}
    \/ OneTracker /\ \A c \in Cameras : frames[c] <= 3

\* A failed commit is taken but not followed further: the evidence run does that.
CommitsSucceed == \A t \in Track : history[t].id # 0 => history[t].persisted

Alike == Permutations(Cameras) \cup Permutations(Trackers)
===============================================================================
