CONSTANTS
    Cameras = {c1}
    Detectors = {d1, d2}
    LPDetectors = {l1}
    Mode <- AllPull
    FrameQueueCap = 1
    DetectorQueueCap = 1
    LPQueueCap = 1
    TrackedQueueCap = 1
    MaxBatch = 2
    WorkersMayFail = FALSE
    MaxFrames <- ThreeEach
    NoFrame = NoFrame
SPECIFICATION Spec
INVARIANTS
    TypeOK
    ExpiredNeverDelivered
    DetectedOnce
    FramesInOrder
PROPERTIES
    LossyFifo
