SPECIFICATION Spec
CONSTANTS
    MaxMoves = 4
    MaxInit = 2
INVARIANT
    PlugWhilePlaying
