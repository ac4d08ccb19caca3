SPECIFICATION Spec
CONSTANTS
    Minute = 2
    MaxTime = 4
    MaxAdmits = 4
    Configs <- MCConfigs
    Requests <- MCRequests
INVARIANTS
    WindowLimit
    SlidingLimit
PROPERTIES
    ImplementsFixedWindow
