SPECIFICATION SpecFreeing
CONSTANTS
  PerSlab <- MCPerSlab
  MaxCaches = 4
  MaxSlabs = 5
INVARIANT ObjectsOnly
CHECK_DEADLOCK FALSE
