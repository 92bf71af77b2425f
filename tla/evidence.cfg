SPECIFICATION EvidenceSpec
CONSTANTS
    Cameras = {c1}
    Trackers = {t1, t2}
    Scores <- OneScore
    MaxLost = 1
    StepsMayFail = TRUE
    CommitMayFail = TRUE
    ImagesMayFail = FALSE
    MaxObjects = 1
    MaxFrames = 4
INVARIANTS NoEventForgotten OpenEventShowsItself
PROPERTY PlateIsNotOlder
SYMMETRY TrackersAlike
