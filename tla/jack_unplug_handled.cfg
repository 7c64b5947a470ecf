CONSTANTS
  LoopMax = 2
  MaxMoves = 4
  MaxPress = 2
SPECIFICATION FairSpec
PROPERTIES UnplugHandled
CHECK_DEADLOCK FALSE
