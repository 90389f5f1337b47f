CONSTANTS
    Members = {iris, nova}
    RingSize = 4
    Burst = 2
    MaxId = 2
    MaxEvents = 4
    MaxTime = 2
SPECIFICATION Spec
INVARIANTS NothingDropped
