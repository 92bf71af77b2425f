SPECIFICATION ThreadsSpec
CONSTANTS
    c1 = c1
    d1 = d1
    d2 = d2
    l1 = l1
    top = top
    Cameras <- OneCamera
    Detectors <- TwoDetectors
    LPDetectors <- OneLPDetector
    Tracked = top
    Modes = {TRUE, FALSE}
    QueueCap = 1
    Order <- StopOrder
    Packets = 3
    Delay = 1
    FrameRoom = 1
    MaxPasses = 2
    DurationLimit = 4
    Durations = {0, 1, 2, 5}
    Gaps = {0, 1, 2}
    MaxPushes = 4
    Threads = {p1, p2}
    Values = {0, 1}
    First = 0
    MaxTold = 3
    LastSeconds = 2
    MaxEvents = 2
    Slack = 1
    MaxUpdates = 6
    MaxSeconds = 6
    Trackers = {k1}
    Areas <- BoundaryAreas
    MinArea = 8
    MaxLostWait = 1
    Day = 3
    MaxTime = 3
    MaxSightings = 4
INVARIANTS TypeOK AbortsAreCaught EarlierStagesEnded CaptureTypeOK ClockOfItsPass HoldsLongestSuffix CountsTheLatest AreaTypeOK ApproachTriggers TriggeredForAReason
PROPERTIES PicturesInOrder StopIsHeeded SetsAtomically
