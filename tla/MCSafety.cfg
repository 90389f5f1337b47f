SPECIFICATION SafetySpec
CONSTANTS
    Paths = {p1, p2}
    Sessions = {s1}
    Kinds <- MCKinds
    Results = {"ok", "error"}
    Defs <- MCDefs
    TTL = 1
    GlobalCap = 2
    None = None
    SlotsPerDay = 3
    Horizon = 4
    TaskFiles <- MCTaskFiles
    TaskGens = 2
    TaskCap = 2
    Unset = Unset
    Members = {iris, nova}
    RingSize = 2
    Burst = 1
    MaxId = 3
    MaxEvents = 3
    MaxTime = 2
    t1 = t1
    t2 = t2
    t3 = t3
    TurnIds = {t1, t2, t3}
    TurnSession <- MCTurnSession
    TurnTask <- MCTurnTask
    MaxTexts = 1
    BackendKinds = {"claude", "openai", "gemini"}
    ToolNames = {"Bash", "Write"}
    ToolInputs = {"i1", "i2"}
    Baseline <- MCBaseline
    LegacyHits = {"i1"}
    Entries <- MCEntries
    Calls = {c1, c2}
    PostMax = 1
    CommandMax = 2
    EditMax = 1
    AnyTool = AnyTool
    Junk = Junk
    Missing = Missing
    Malformed = Malformed
    Tools = {x, y}
    MaxParts = 5
    MaxTurns = 5
    MaxBytes = 9
    Sizes = {1, 3, 6}
    TurnBound = 5
    StreamTools = {"shell", "mcp"}
    MaxChunks = 2
    MaxCalls = 3
    TokenBudget = 3
    Usages = {1, 2, 3, 4}
CHECK_DEADLOCK FALSE
INVARIANTS
    SafetyTypes
    
    WindowsKept
    
    
    
PROPERTIES
    ShedKeepsFanIn
    StrictestWins
