SPECIFICATION BackendsSpec
CONSTANTS
    Callers = {c1, c2, c3}
    Threshold = 2
    MaxRetries = 2
    Policy = "fast-only"
    MaxKey = 4
    BadKeys = {2}
    o1 = o1
    o2 = o2
    o3 = o3
    OReqs = {o1, o2, o3}
    OSessionOf <- MCOSessionOf
    OMaxSessions = 1
    MaxContexts = 1
    Browsing = {o1, o3}
    CTurns = {u1, u2}
    CSessions = {"s1", "s2"}
    CMaxSessions = 1
    MaxBlocks = 1
    Talkers = {u1}
CHECK_DEADLOCK FALSE
INVARIANTS
    BackendTypes
    BreakerCountsFailures
    NoDoubleRun
    ResourcesTracked
    ToolsRunOnce
PROPERTIES
    BackendsProgress
