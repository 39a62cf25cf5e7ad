SPECIFICATION FairSpec
CONSTANTS
    StartSeq = 1
    MaxSeq = 4
    Lossy = TRUE
    Echoes = TRUE
    RestMayFail = TRUE
CHECK_DEADLOCK FALSE
INVARIANTS
    TypeOK
    JoinNeverBlocks
    HolesWereMissed
    MergeSound
PROPERTIES
    StreamSpec
    Recovers
    QueuedIsHandled
    DestructorReturns
