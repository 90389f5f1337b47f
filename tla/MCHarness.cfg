SPECIFICATION HarnessSpec
CONSTANTS
    s1 = s1
    s2 = s2
    h1 = h1
    h2 = h2
    NoMsg = NoMsg
    Stopped = Stopped
    MaxDepth = 2
    SendMsgs = {s1, s2}
    TryMsgs = {h1, h2}
    Kinds <- MCKinds
    KindOf <- MCKindOf
    Probes = {p1, p2}
    Backends = {b1, b2}
    TTL = 1
    SweepMax = 1
    SameModule = FALSE
    None = None
INVARIANTS
    HarnessTypes
    NoLeakedSlot
    HealthFresh
PROPERTIES
    ResolvedOnce
    ImplementsSlot
    HarnessProgress
