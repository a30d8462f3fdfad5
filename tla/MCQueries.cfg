CONSTANTS
    t1 = t1
    t2 = t2
    s1 = s1
    s2 = s2
    s3 = s3
    NoConn = NoConn
    NoExc = NoExc
    Nobody = Nobody
    Threads <- MCThreads
    Slots <- MCSlots
    CallerOps <- QueryOps
    DaemonMinor = 37
    EarlyError = FALSE
    InitialValidity = {TRUE, FALSE}
    MaxConnections = 2
    MaxFrames = 1
    MaxLogs = 0
    MaxFaults = 1
    MaxCalls = 2

SYMMETRY Symmetry
SPECIFICATION Spec
INVARIANT IdleInSync
INVARIANT DaemonErrorSurfaces
INVARIANT PoolCountsHandles
INVARIANT NoDeadlock
INVARIANT GCInvalidates
