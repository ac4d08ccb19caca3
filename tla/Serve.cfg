SPECIFICATION ServeSpec
CONSTANT
    MaxInstances = 2
CHECK_DEADLOCK FALSE
INVARIANTS
    Reachable
    CleanStop
    NothingStale
PROPERTIES
    ComesUp
    StopsWhenAsked
