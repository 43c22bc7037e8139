SPECIFICATION Spec
CONSTANTS
  Start <- MCStart
  HeapPages <- MCHeapPages
  Frames <- MCFrames
  MaxPages <- MCMaxPages
INVARIANTS Tiled Backed
PROPERTIES CountsNeighboursAgain ImplementsBlocks
CHECK_DEADLOCK FALSE
