SPECIFICATION Spec
CONSTANTS
  MemMaps <- MCMemMaps
  W <- MCW
  MaxPages = 3
INVARIANTS TypeOK Bump FreeCountExact FramesUsable FailsOnlyWhenShort
PROPERTIES NothingComesBack ImplementsLedger
CHECK_DEADLOCK FALSE
