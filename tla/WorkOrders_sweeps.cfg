SPECIFICATION FairSpec
CONSTANTS
    s1 = s1
    s2 = s2
    o1 = o1
    o2 = o2
    o3 = o3
    Stations = {s1}
    Orders = {o1, o2}
    StationOf <- OneStation
    Members = {m1}
    None = None
    Slots = {p1}
    Triggers = {"create", "assign", "start", "resolve", "cancel", "checklist", "down", "up"}
    Threshold = 0
    MaxClock = 4
    MaxFaults = 1
INVARIANTS
    OneOrderPerOutage
    RecoveredMeansReconnected
    TimelineTells
PROPERTIES
    ImplementsLifecycle
    OutageReported
