CONSTANTS
    t1 = t1
    t2 = t2
    s1 = s1
    s2 = s2
    s3 = s3
    NoConn = NoConn
    NoExc = NoExc
    Nobody = Nobody
    Threads <- OneThread
    Slots <- MCSlots
    CallerOps <- NarOps
    DaemonMinor = 37
    EarlyError = FALSE
    InitialValidity = {TRUE}
    MaxConnections = 1
    MaxFrames = 1
    MaxLogs = 0
    MaxFaults = 2
    MaxCalls = 2

SYMMETRY Symmetry
SPECIFICATION Spec
\* narFromPath blocks for good after a daemon error (MCNarHang.cfg).
CHECK_DEADLOCK FALSE
INVARIANT PoolCountsHandles
