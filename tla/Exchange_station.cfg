SPECIFICATION Spec
CONSTANTS
    k1 = k1
    k2 = k2
    c1 = c1
    c2 = c2
    c3 = c3
    Calls = {c1, c2, c3}
    Connectors = {k1, k2}
    Requests <- KnownRequest
    Versions = {"OCPP1_6J"}
    Initial = "UNAVAILABLE"
    Edits = {"UNAVAILABLE"}
    None = None
    MaxTx = 2
    MaxMeter = 1
    MaxConnections = 2
    MaxRestarts = 1
    MaxTimeouts = 1
    MaxJobs = 2
INVARIANTS
    AnsweredStartStands
    AnsweredStopStands
    StatusFollows
SYMMETRY Alike
CHECK_DEADLOCK FALSE
