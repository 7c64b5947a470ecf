CONSTANTS
  NumItems = 2
  MaxIrq = 3
SPECIFICATION FairSpec
INVARIANTS TypeOK BlockHasOwner InterruptAccounted
PROPERTIES Unblocks ServicedByNextOp
