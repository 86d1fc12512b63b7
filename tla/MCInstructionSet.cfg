\* Every opcode once, arithmetic samples, and interrupted programs.
CONSTANTS
  Profiles <- MCProfiles
  Modes <- MCModes
  Operands <- MCOperands
  Backgrounds <- MCBackgrounds
  Samples <- MCSamples
  Programs <- MCPrograms
SPECIFICATION ISASpec
CHECK_DEADLOCK FALSE
INVARIANTS
  CyclesAsPublished
  OperandAddresses
  ContinuesAt
  ComputesItsMeaning
  ChangesOnlyItsOwn
  BlockMoveProgress
PROPERTIES
  StackMirrors
