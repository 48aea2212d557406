SPECIFICATION Spec
CONSTANTS
    long = long
    short = short
    a = a
    m = m
    x = x
    n = n
    e = e
    b = b
    d = d
    y = y
    p = p
    q = q
    Tiles <- TwoTracksTiles
    Convoys = {long, short}
    Cars = {v}
    NoConvoy = NoConvoy
    NoVehicle = NoVehicle
    CrossingTiles = {x, y}
    Halts = {a, b, d, p}
    Goals <- TwoTracksGoals
    Routes <- TwoTracksRoutes
    Signals <- NoSignals
    Removable = {}
    Wagons <- MCWagons
    Home <- TwoTracksHome
    AnyTime = FALSE
INVARIANT TrainsMeetNoCars
CHECK_DEADLOCK FALSE
