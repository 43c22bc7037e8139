SPECIFICATION Spec
CONSTANTS
  Fanout = 6
  Hhdm = 648
  Sub = 2
  MemMap <- MCMemMap
  VirtualBase = 1080
  PhysicalBase = 24
  Section <- MCSection
  Pool <- MCPool
  Lapic = 211
  Ioapic = 214
  HeapPages = 3
  MaxArea = 2
  MaxUsers = 1
INVARIANTS TablesReachable DirectMapped TlbCoherent
PROPERTY ImplementsMap
CHECK_DEADLOCK FALSE
