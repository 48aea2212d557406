SPECIFICATION Spec
CONSTANTS
    BufSize = 3
    MaxBytes = 13
    SpuriousWakeUps = FALSE
INVARIANT TypeOK
INVARIANT InOrder
INVARIANT NothingIsLost
INVARIANT BuffersAreDisjoint
INVARIANT FatalOnlyIfShort
PROPERTY Ends
PROPERTY ImplementsRendezvous
CHECK_DEADLOCK FALSE
