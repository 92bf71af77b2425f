CONSTANTS
    Cameras = {c1, c2}
    Detectors = {d1}
    LPDetectors = {l1}
    Mode <- MixedModes
    FrameQueueCap = 1
    DetectorQueueCap = 1
    LPQueueCap = 1
    TrackedQueueCap = 1
    MaxBatch = 2
    WorkersMayFail = TRUE
    MaxFrames <- OneEach
    NoFrame = NoFrame
SPECIFICATION FairSpec
INVARIANTS
    OnTimeIsComplete
PROPERTIES
    EveryFrameDecided
CHECK_DEADLOCK FALSE
