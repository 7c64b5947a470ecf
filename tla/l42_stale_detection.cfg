SPECIFICATION Spec
CONSTANT Budget = 3
INVARIANT StatusNotified
CHECK_DEADLOCK FALSE
