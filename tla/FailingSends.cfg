SPECIFICATION Spec
CONSTANTS
    Clients = {c1}
    NoClient = NoClient
    Ring = 2
    MaxMapCounters = 1
    ChecksEvery = 2
    FramesPerStep = 1
    PauseNoClients = TRUE
    LinksMayBreak = FALSE
    SendMayFail = TRUE
    MaxStep = 4
    MaxTools = 2
    MaxMaps = 2
    MaxJoins = 1
INVARIANT Lockstep
INVARIANT KickedOnlyIfDiverged
INVARIANT PendingIsServed
CHECK_DEADLOCK FALSE
