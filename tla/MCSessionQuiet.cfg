SPECIFICATION SSSpec
CONSTANTS
    StreamSessions = {s1, s2}
    ReadersOf <- MCReadersOf
    s1 = s1
    s2 = s2
    r1 = r1
    r2 = r2
    Readers = {r1, r2}
    RegistryMax = 1
    SQueueMax = 1
    SRingMax = 2
    Grace = 1
    PerCaller = 2
    MaxStreams = 2
    MaxEnvelopes = 3
CHECK_DEADLOCK FALSE
INVARIANTS
    QuietStreamStays
