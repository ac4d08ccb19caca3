SPECIFICATION Spec
CONSTANTS
    Requests <- MCRequests
    SafePart <- MCSafePart
    Tenants = {"ta", "tb"}
    Types <- MCTypes
    Hours = {"12h", "13h"}
    Configs <- MCConfigs
    Batches <- MCBatches
    Emits = {1, 2}
    MaxConfigures = 3
CHECK_DEADLOCK FALSE
INVARIANTS
    RowsHaveObjects
    BypassHonoured
    OkMeansStored
