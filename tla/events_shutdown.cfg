SPECIFICATION Spec
CONSTANTS
    Cameras = {c1}
    Trackers = {t1}
    Scores <- OneScore
    MaxLost = 1
    StepsMayFail = FALSE
    CommitMayFail = FALSE
    MaxObjects = 1
    MaxFrames = 4
INVARIANT RemainingSubmitted
