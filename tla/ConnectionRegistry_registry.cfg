SPECIFICATION FairSpec
CONSTANTS
    st1 = st1
    st2 = st2
    w1 = w1
    w2 = w2
    w3 = w3
    w4 = w4
    Stations = {st1, st2}
    Sockets = {w1, w2, w3, w4}
    NoSocket = NoSocket
    Owner <- Owners
    StaleThreshold = 5
    SweepInterval = 1
    MaxSilence = 5
INVARIANTS
    RecordIsOpenSocket
    SilenceBounded
    ConnectedIsOnline
PROPERTIES
    LivePeerKept
    LossIsReported
    DeadIsDetected
