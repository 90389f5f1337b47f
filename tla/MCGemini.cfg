SPECIFICATION GeminiSpec
CONSTANTS
    r1 = r1
    r2 = r2
    r3 = r3
    Reqs = {r1, r2, r3}
    SessionOf <- MCSessionOf
    MaxSessions = 1
    EvictMax = 1
    Retries = 2
    Before <- MCBefore
    NoOne = NoOne
    McpReqs = {q1, q2}
    Servers = {k1}
    MaxReloads = 3
    Closed = Closed
CHECK_DEADLOCK FALSE
INVARIANTS
    GeminiTypes
    
PROPERTIES
    GeminiProgress
