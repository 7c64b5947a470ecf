SPECIFICATION FairSpec
CONSTANT Budget = 2
INVARIANTS
    TypeOK
    Watched
    JackFollows
    ToldAgrees
    AmplifierOn
    SuspendedMarked
    VolumeFollows
PROPERTY ComesToRest
CHECK_DEADLOCK FALSE
