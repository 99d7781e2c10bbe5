SPECIFICATION Spec
CONSTANTS
    r1 = r1
    p1 = p1
    st1 = st1
    k1 = k1
    s1 = s1
    s2 = s2
    Starts = {r1}
    Stops = {p1}
    Stations = {st1}
    Connectors = {k1}
    Sessions = {s1}
    NoSession = NoSession
    StationOf <- OneStation
    ConnectorOf <- OneConnector
    SkewedClocks = TRUE
    Faults = {"restart", "database"}
    MaxFaults = 1
INVARIANTS
    OutcomeIsTheChargers
    RowsAsKnown
    ConfirmedHasEvidence
    StopConfirmationNotLost
    AcceptedIsWatched
PROPERTIES
    SettledOnce
    NeverReopened
    ImplementsConnectorLock
