SPECIFICATION LiveSpec
CONSTANTS
    Paths = {a}
    AdHocs = {x}
    MaxGen = 3
    MaxFires = 2
    None = None
CHECK_DEADLOCK FALSE
INVARIANTS
    TypeOK
    JobsSafe
PROPERTIES
    JobsProgress
