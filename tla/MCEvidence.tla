------------------------------- MODULE MCEvidence -------------------------------
EXTENDS Evidence, TLC

OneScore == {1}

\* Tracker ids are only compared and used as keys.
TrackersAlike == Permutations(Trackers)
===============================================================================
