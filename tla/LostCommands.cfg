SPECIFICATION Spec
CONSTANTS
    Clients = {c1}
    NoClient = NoClient
    Ring = 2
    MaxMapCounters = 2
    ChecksEvery = 2
    FramesPerStep = 4
    PauseNoClients = TRUE
    LinksMayBreak = FALSE
    SendMayFail = FALSE
    MaxStep = 3
    MaxTools = 1
    MaxMaps = 2
    MaxJoins = 2
CHECK_DEADLOCK FALSE
INVARIANT CommandsSurvive
