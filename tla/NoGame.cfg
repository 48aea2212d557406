SPECIFICATION Spec
CONSTANTS
    Clients = {c1}
    NoClient = NoClient
    Ring = 2
    MaxMapCounters = 2
    ChecksEvery = 2
    FramesPerStep = 4
    PauseNoClients = FALSE
    LinksMayBreak = FALSE
    SendMayFail = TRUE
    MaxStep = 3
    MaxTools = 0
    MaxMaps = 1
    MaxJoins = 2
CHECK_DEADLOCK FALSE
INVARIANT PlayersHaveTheGame
