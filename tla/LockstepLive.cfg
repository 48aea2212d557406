SPECIFICATION FairSpec
CONSTANTS
    Clients = {c1}
    NoClient = NoClient
    Ring = 2
    MaxMapCounters = 1
    ChecksEvery = 2
    FramesPerStep = 4
    PauseNoClients = TRUE
    LinksMayBreak = TRUE
    SendMayFail = FALSE
    MaxStep = 3
    MaxTools = 1
    MaxMaps = 3
    MaxJoins = 2
INVARIANT PausedIsAnswered
PROPERTY PausedResumes
PROPERTY ImplementsLog
CHECK_DEADLOCK FALSE
