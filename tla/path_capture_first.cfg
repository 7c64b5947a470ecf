SPECIFICATION PathSpec
CONSTANTS
    MaxMoves = 2
    MaxInit = 2
    Patient = TRUE
    Amplifier = "tas576"
INVARIANT AlwaysSetUp
