SPECIFICATION ChannelsSpec
CONSTANTS
    Clients = {c1}
    RingMax = 2
    QueueMax = 2
    MaxFailures = 1
    MaxId = 5
    MaxEpoch = 1
    Overrun = Overrun
    None = None
    s1 = s1
    s2 = s2
    r1 = r1
    r2 = r2
    StreamSessions = {s1, s2}
    Readers = {r1, r2}
    ReadersOf <- MCReadersOf
    RegistryMax = 1
    SQueueMax = 1
    SRingMax = 2
    Grace = 1
    PerCaller = 2
    MaxStreams = 2
    MaxEnvelopes = 2
    Paths = {p1, p2}
    HookFiles <- MCHookFiles
    Kinds = {"job"}
    GlobalCap = 2
    DefaultCap = 1
    Budget = 2
    SubBudget = 1
    Allowed = {}
    SkipDns = FALSE
    Decisions = {d1, d2}
    Spans = {t1}
    MaxInflight = 1
    CbWindow = 2
    CbFails = 2
    DecisionQueue = 1
    NoPost = NoPost
    TriggerFiles <- MCTriggerFiles
    Posts = {q1, q2}
    Requests <- MCRequests
    PoolMax = 1
    Token = TRUE
CHECK_DEADLOCK FALSE
INVARIANTS
    ChannelTypes
    StreamsTruthful
    DeliveriesBounded
    PostsAccounted
    SlotExact

    
