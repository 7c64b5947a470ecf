SPECIFICATION Spec
CONSTANTS
    MaxMoves = 4
    MaxInit = 2
INVARIANTS
    TypeOK
    OutputFollowsJack
    QuietWhenClosed
    CaptureFollowsJack
    MikeMarked
