SPECIFICATION Spec
CONSTANTS
  Event = {e1, e2, e3}
  Garbage = Garbage
  Cap = 3
INVARIANTS TypeOK Aligned
PROPERTIES ImplementsQueue
CHECK_DEADLOCK FALSE
