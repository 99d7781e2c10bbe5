SPECIFICATION FairSpec
CONSTANTS
    r1 = r1
    p1 = p1
    st1 = st1
    k1 = k1
    s1 = s1
    s2 = s2
    Starts = {r1}
    Stops = {}
    Stations = {st1}
    Connectors = {k1}
    Sessions = {s1, s2}
    NoSession = NoSession
    StationOf <- OneStation
    ConnectorOf <- OneConnector
    SkewedClocks = FALSE
    Faults = {}
    MaxFaults = 0
PROPERTIES
    Resolved
