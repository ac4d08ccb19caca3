SPECIFICATION Spec
CONSTANTS
    KeyConfigs <- MCKeyConfigs
    DbConfigs <- MCDbConfigs
    Rows <- MCRows
    PromptConfigs <- MCPromptConfigs
    VersionOrder <- MCVersionOrder
    RouterConfigs <- MCRouterConfigs
    Services <- MCServices
    Candidates <- MCCandidates
    StdoutConfigs <- MCStdoutConfigs
    OtelConfigs <- MCOtelConfigs
    Deployments <- MCDeployments
    Calls <- MCCalls
    Requests = {1}
    MaxConfigures = 2
    MaxChanges = 1
CHECK_DEADLOCK FALSE
INVARIANTS
    IdentityIsOfToken
    PromptFits
    MessagesKept
    RoutesComplete
    ExportedOnce
    PayloadsAsConfigured
