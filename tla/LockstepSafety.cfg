SPECIFICATION Spec
CONSTANTS
    Clients = {c1, c2}
    NoClient = NoClient
    Ring = 2
    MaxMapCounters = 1
    ChecksEvery = 2
    FramesPerStep = 1
    PauseNoClients = TRUE
    LinksMayBreak = TRUE
    SendMayFail = FALSE
    MaxStep = 3
    MaxTools = 1
    MaxMaps = 2
    MaxJoins = 2
INVARIANT TypeOK
INVARIANT NeverAhead
INVARIANT NeverInThePast
INVARIANT Lockstep
INVARIANT KickedOnlyIfDiverged
INVARIANT PendingIsServed
INVARIANT PlayersHaveTheGame
SYMMETRY Symmetry
CHECK_DEADLOCK FALSE
