CONSTANTS
    t1 = t1
    t2 = t2
    s1 = s1
    s2 = s2
    s3 = s3
    NoConn = NoConn
    NoExc = NoExc
    Nobody = Nobody
    Threads <- MCThreads
    Slots <- MCSlots
    CallerOps <- NarUploadOps
    DaemonMinor = 37
    EarlyError = TRUE
    InitialValidity = {TRUE}
    MaxConnections = 1
    MaxFrames = 1
    MaxLogs = 0
    MaxFaults = 1
    MaxCalls = 1

SYMMETRY Symmetry
SPECIFICATION Spec
INVARIANT DaemonErrorSurfaces
INVARIANT NoDeadlock
