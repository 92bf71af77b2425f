CONSTANTS
    Cameras = {c1}
    Detectors = {d1}
    LPDetectors = {l1}
    Mode <- AllPull
    FrameQueueCap = 1
    DetectorQueueCap = 1
    LPQueueCap = 1
    TrackedQueueCap = 1
    MaxBatch = 2
    WorkersMayFail = FALSE
    MaxFrames <- TwoEach
    NoFrame = NoFrame
SPECIFICATION Spec
INVARIANTS
    NoWaitWhenFinished
