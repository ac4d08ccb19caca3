SPECIFICATION Spec
CONSTANTS
    Requests = {r1, r2, r3}
    Deployments <- Listed
    RequestedModel = "gpt"
    Fallbacks <- NoFallback
    Strategy = "least-busy"
    AllowedFails = 2
    FailureWindow = 1
    CooldownTime = 2
    Minute = 2
    Usage = {0, 1}
    MaxTime = 2
    MaxConfigures = 1
SYMMETRY SymmetricRequests
CHECK_DEADLOCK FALSE
INVARIANTS
    InFlightCounts
    NothingLeaks
    RepeatedFailuresCool
    RpmOfFirstChoices
