CONSTANTS
    Responses <- SomeResponses
    StepHeight = 2
    Extent = 6
    MaxAdded = 8
    Scale = 60
    Latitude <- Bent
    Metre = 3600
    IntMax = 9999
    MaxFeatures = 2
SPECIFICATION Spec
CHECK_DEADLOCK FALSE
INVARIANTS
    TypeOK
    FailsOnlyForCause
    BoundaryKept
    SameAreaEitherShape
    RisksAsForecast
    ReportsAsFiled
