SPECIFICATION Spec
CONSTANTS
    Cameras = {c1, c2}
    Trackers = {t1, t2}
    Scores <- TwoScores
    MaxLost = 1
    StepsMayFail = TRUE
    CommitMayFail = TRUE
    MaxObjects = 2
    MaxFrames = 4
INVARIANTS TypeOK CompletedOnce OutcomeAddsUp
PROPERTY KeepsLog
CONSTRAINTS TwoTracksOrTwoCameras CommitsSucceed
SYMMETRY Alike
