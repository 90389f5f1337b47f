CONSTANTS
    Clients = {c1}
    RingMax = 3
    QueueMax = 3
    MaxFailures = 2
    MaxId = 3
    MaxEpoch = 1
    Overrun = Overrun
    None = None
SPECIFICATION Spec
INVARIANTS RingIsReplayed
