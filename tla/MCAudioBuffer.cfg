\* The audio ring: eight samples through six slots, three flushes.
CONSTANTS
  Storage = 6
  Burst = 1
  InputRate = 2
  Rates <- MCRates
  Nominals <- MCNominals
  MaxFrames = 8
  MaxFlushes = 3
SPECIFICATION Spec
INVARIANTS
  NeverOverwritesUnread
  NothingFromBeforeFlush
  RefillReachable
PROPERTIES
  ImplementsFifo
