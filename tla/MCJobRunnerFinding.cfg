SPECIFICATION Spec
CONSTANTS
    Paths = {a}
    AdHocs = {x, y}
    MaxGen = 2
    MaxFires = 2
    None = None
CHECK_DEADLOCK FALSE
INVARIANT
    RunningFlagTruthful
