\* The scheduler for two kinds, master times 0 and 1 and two events from outside.
CONSTANTS
  Forever = 1000
  Kinds <- MCKinds
  MaxTime = 1
  MaxEvents = 2
  MaxSeq = 8
  MaxPush = 2
SPECIFICATION FairSpec
INVARIANTS
  DispatchOrder
PROPERTIES
  DrainEnds
