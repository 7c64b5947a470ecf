CONSTANTS
  LoopMax = 2
  MaxMoves = 4
  MaxPress = 3
SPECIFICATION FairSpec
INVARIANTS TypeOK LineAttended ListensForChange EmptyJackForgotten
PROPERTIES JackSettles UserSettles InputSettles
CHECK_DEADLOCK FALSE
