\* Cartridges, MEMSEL and battery saves in both applications.
CONSTANTS
  Pages <- SomePages
  Offsets <- BothEnds
  Images <- AllImages
  SramCells <- SomeCells
  Sessions <- AllSessions
  kCuts <- Cuts
SPECIFICATION Spec
INVARIANTS
  BusShowsMap
  DetectionLoads
  CleanIsSaved
PROPERTIES
  SaveReplacedWhole
  SwapKeepsSave
  UnreadSaveKept
CHECK_DEADLOCK FALSE
