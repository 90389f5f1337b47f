SPECIFICATION PromptsSpec
CONSTANTS
    Delay = 2
    MaxRestarts = 3
    Reqs = {r1, r2}
    Inputs <- MCInputs
    ConfigFiles <- MCConfigFiles
    MaxSessions = 1
    BgMax = 1
    BgCriticalMax = 2
    MaxReloads = 1
    HbFiles <- MCHbFiles
    HbEnds = 1
    HbEdits = 2
    HbClock = 2
    HbSkews = 1
CHECK_DEADLOCK FALSE
INVARIANTS
    PromptTypes
    StableMeansReady
    
    AnswersFit
    
PROPERTIES
    NoLateRecovery
    
    PromptsProgress
