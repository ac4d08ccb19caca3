SPECIFICATION Spec
CONSTANTS
    Callers = {c1}
    Tenants <- OneTenant
    CacheKeys <- OneKey
    Versions = {1}
    PolicyTTLs = {0}
    Configs <- RejectedLimit
    MaxTime = 1
CHECK_DEADLOCK FALSE
INVARIANTS
    EvictionEnds
