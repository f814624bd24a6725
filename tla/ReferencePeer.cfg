SPECIFICATION HostSpec
CONSTANTS
    Workers = {w1, w2}
    NoWorker = NoWorker
    Messages = {m1, m2}
    MaxRequests = 1
    MaxQueue = 2
    MaxRecoverAttempts = 2
    TaskedWait = FALSE
CHECK_DEADLOCK FALSE
INVARIANT LivePeerIsLeftAlone
