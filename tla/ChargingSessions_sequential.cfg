SPECIFICATION Spec
CONSTANTS
    k1 = k1
    k2 = k2
    s1 = s1
    s2 = s2
    s3 = s3
    p1 = p1
    p2 = p2
    Connectors = {k1, k2}
    Sessions = {s1, s2, s3}
    NoSession = NoSession
    ConnectorOf <- TwoAndOne
    Slots = {p1}
    Triggers = {"start", "meter", "stop", "connect", "close"}
    MaxMeter = 1
    MeterResets = TRUE
    MaxClock = 1
    Window = 0
    MaxRestarts = 1
INVARIANTS
    CompletedEnergy
    StationAgrees
    NoneStranded
PROPERTIES
    ImplementsLifecycle
SYMMETRY SwapTwo
