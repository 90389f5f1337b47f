SPECIFICATION Spec
CONSTANTS
    Probes = {p1, p2}
    Backends = {b1, b2}
    TTL = 1
    SweepMax = 1
    SameModule = FALSE
    None = None
INVARIANT
    FlipSurfaces
