SPECIFICATION Spec
CONSTANTS
    ConfThreshold = 40
    IouThreshold = 40
    ClassOffset = 7880
    Frames <- Shapes
    Canvas <- Square
    ObjectReports <- RowOrEdge
    PlateReports <- Plates
    Vehicles <- LastTwo
    MinArea = 20
    BatchSize = 2
    PlateThreshold = 70
INVARIANT EveryVehicleSearched
