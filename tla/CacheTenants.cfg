SPECIFICATION Spec
CONSTANTS
    Callers = {c1, c2}
    Tenants <- TwoTenants
    CacheKeys <- TwoKeys
    Versions = {1}
    PolicyTTLs = {0}
    Configs <- TenantConfigs
    MaxTime = 2
CHECK_DEADLOCK FALSE
INVARIANTS
    WithinMaxEntries
PROPERTIES
    HitsAreFaithful
    StoredEntrySurvives
    ImplementsTTLCache
