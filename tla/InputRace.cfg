SPECIFICATION Spec
CONSTANTS
  Cap = 2
  Count = 1
  MaxEvents = 5
INVARIANTS InOrder WholeAndIncreasing HoldsLatest
PROPERTIES Drains
CHECK_DEADLOCK FALSE
