SPECIFICATION Spec
CONSTANTS
  c1 = c1 c2 = c2 c3 = c3
  Null = Null Self = Self
  Client <- ThreeClients
  Fd <- ThreeFds
  NFDESC = 4
  Kind <- EveryKind
  Leaving <- ThreeClients
SYMMETRY Alike
INVARIANTS TypeOK OneSlotEach ReadsWhatIsReady RepliesToAsker
CHECK_DEADLOCK FALSE
