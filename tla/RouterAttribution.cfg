SPECIFICATION Spec
CONSTANTS
    Requests = {r1}
    Deployments <- WithFallback
    RequestedModel = "gpt"
    Fallbacks <- ToMini
    Strategy = "weighted"
    AllowedFails = 2
    FailureWindow = 2
    CooldownTime = 2
    Minute = 2
    Usage = {0, 1}
    MaxTime = 1
    MaxConfigures = 0
CHECK_DEADLOCK FALSE
PROPERTIES
    FailuresAttributed
