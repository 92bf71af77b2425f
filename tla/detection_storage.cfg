SPECIFICATION PartsSpec
CONSTANTS
    ConfThreshold = 40
    IouThreshold = 40
    ClassOffset = 7880
    Frames <- Shapes
    Canvas <- Square
    ObjectReports <- RowOrEdge
    PlateReports <- Plates
    Vehicles <- LastTwo
    MinArea = 20
    BatchSize = 2
    PlateThreshold = 70
    Connections = {u1, u2}
    LongColumns <- SomeLong
    MaxRows = 1
    MaxIds = 2
INVARIANTS TypeOK CropsAreSafe SuppressionIsExact BackInPlace PlatesOfTheirVehicle BindingsAreLive VersionMatchesTables
PROPERTIES KeepsObjects RowsKept
SYMMETRY ConnectionsAlike
