SPECIFICATION Spec
CONSTANTS
  Width = 3
  Height = 3
  Pitch = 16
  Side = 2
  Start = 1
  Packets <- MCPackets
  SizeMod = 64
  MaxAway = 4
INVARIANT Inside
PROPERTY ImplementsPointer
CHECK_DEADLOCK FALSE
