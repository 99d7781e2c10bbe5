SPECIFICATION Spec
CONSTANTS
    k1 = k1
    k2 = k2
    c1 = c1
    c2 = c2
    c3 = c3
    Calls = {c1, c2, c3}
    Connectors = {k1, k2}
    Requests <- AnyRequest
    Versions = {"OCPP1_6J", "OCPP2_0_1"}
    Initial = "UNAVAILABLE"
    Edits = {}
    None = None
    MaxTx = 1
    MaxMeter = 1
    MaxConnections = 1
    MaxRestarts = 0
    MaxTimeouts = 1
    MaxJobs = 1
INVARIANTS
    NotPenalized
CHECK_DEADLOCK FALSE
