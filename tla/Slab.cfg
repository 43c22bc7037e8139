SPECIFICATION SlabSpec
CONSTANTS
  PerSlab <- MCPerSlab
  MaxCaches = 4
  MaxSlabs = 5
INVARIANTS Sound
PROPERTY ImplementsPool
CHECK_DEADLOCK FALSE
