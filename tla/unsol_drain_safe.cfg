CONSTANTS
  NumItems = 2
  MaxIrq = 3
SPECIFICATION Spec
INVARIANT DrainSafe
