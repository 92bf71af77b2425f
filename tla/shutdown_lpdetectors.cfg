SPECIFICATION Spec
CONSTANTS
    c1 = c1
    d1 = d1
    d2 = d2
    l1 = l1
    top = top
    Cameras <- OneCamera
    Detectors <- TwoDetectors
    LPDetectors <- OneLPDetector
    Tracked = top
    Modes = {TRUE}
    QueueCap = 1
    Order <- StopOrder
INVARIANT LPDetectorsStopped
