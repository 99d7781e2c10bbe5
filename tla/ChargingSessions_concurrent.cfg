SPECIFICATION Spec
CONSTANTS
    k1 = k1
    k2 = k2
    s1 = s1
    s2 = s2
    s3 = s3
    p1 = p1
    p2 = p2
    Connectors = {k1}
    Sessions = {s1, s2, s3}
    NoSession = NoSession
    ConnectorOf <- OneConnector
    Slots = {p1, p2}
    Triggers = {"start", "stop", "connect", "close"}
    MaxMeter = 0
    MeterResets = FALSE
    MaxClock = 2
    Window = 1
    MaxRestarts = 0
PROPERTIES
    CreatedOnlyOnFreeConnector
    SupersedesOnlyExpired
SYMMETRY Symmetry
