SPECIFICATION MetricsSpec
CONSTANTS
    GatewayEvents <- MCGatewayEvents
    EmitCalls <- MCEmitCalls
    ConfigureCalls <- MCConfigureCalls
    Sanitized <- MCSanitized
    DefaultAddress = "default"
    DefaultNamespace = "vulpes_gateway"
    MaxEvents = 4
    MaxReconfigurations = 3
CHECK_DEADLOCK FALSE
INVARIANTS
    NothingLost
    ResultsMatchEvents
    SeriesToldApart
PROPERTIES
    CountersNeverFall
