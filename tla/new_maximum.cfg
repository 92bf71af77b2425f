SPECIFICATION AreaSpec
CONSTANTS
    Trackers = {k1}
    Areas = {10, 11, 12}
    MinArea = 8
    MaxLostWait = 1
    Day = 3
    MaxTime = 3
    MaxSightings = 3
INVARIANT NewMaximumTriggers
