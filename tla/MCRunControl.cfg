\* Every order of user requests, slices, interrupts, faults and breakpoints.
CONSTANTS
  Addresses <- MCAddresses
  Vector = 2
  MaxOps = 3
  StepCounts <- MCStepCounts
SPECIFICATION Spec
INVARIANTS
  RecordsAreWhole
PROPERTIES
  StepsAsRequested
  ResumeMakesProgress
  OneSkipPerRequest
