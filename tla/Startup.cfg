SPECIFICATION Spec
CONSTANTS
  SleepMs = 1
  Strokes <- MCStrokes
  Packets <- MCPackets
  MaxStrokes = 1
  MaxUnusual = 2
INVARIANTS Acknowledged ComesUp EventsFaithful
PROPERTIES StartsUp InputServed
CHECK_DEADLOCK FALSE
