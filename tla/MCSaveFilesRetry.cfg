\* Whether the emulator's failed flush is tried again before the SRAM goes.
CONSTANTS
  Pages <- SomePages
  Offsets <- BothEnds
  Images <- AllImages
  SramCells <- SomeCells
  Sessions <- AllSessions
  kCuts <- Cuts
SPECIFICATION Spec
PROPERTIES
  FailedFlushIsRetried
CHECK_DEADLOCK FALSE
