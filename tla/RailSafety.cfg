SPECIFICATION Spec
CONSTANTS
    long = long
    short = short
    a = a
    m = m
    x = x
    n = n
    e = e
    b = b
    d = d
    y = y
    p = p
    q = q
    Tiles <- MCTiles
    Convoys = {long, short}
    Cars = {v}
    NoConvoy = NoConvoy
    NoVehicle = NoVehicle
    CrossingTiles = {x}
    Halts = {a, b, d}
    Goals <- MCGoals
    Routes <- MCRoutes
    Signals <- MCSignals
    Removable = {e}
    Wagons <- MCWagons
    Home <- MCHome
    AnyTime = FALSE
INVARIANT TypeOK
INVARIANT WayIsReserved
INVARIANT StandsOnItsTiles
INVARIANT NoTwoTrains
INVARIANT TrainsMeetNoCars
INVARIANT RequestIsForSomebody
PROPERTY RoadGivesWay
CHECK_DEADLOCK FALSE
