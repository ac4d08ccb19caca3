SPECIFICATION FairSpec
CONSTANTS
    Calls = {c1, c2}
    Configs <- MCConfigs
    Rotations = {TRUE, FALSE}
    MaxGrants = 3
    MaxConfigures = 1
CHECK_DEADLOCK FALSE
INVARIANTS
    RefreshTokenKept
    RetryUsesAnother
PROPERTIES
    EveryCallEnds
