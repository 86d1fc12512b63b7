\* The NMI edge detector across a WAI that lasts from one VBlank to the next.
CONSTANTS
  Forever = 1000
  DotsPerLine = 3
  LinesPerFrame = 4
  DotCycles = 2
  LongDots <- MCLongDots
  LongDotCycles = 3
  ShortLine = 3
  Program <- MCNmiProgram
  Cost <- MCCost
  HTimes <- MCHTimes
  VTimes <- MCVTimes
  DmaLengths <- MCDmaLengths
  Overscan = FALSE
  VblankLine = 2
  OverscanLine = 3
  RefreshStart = 5
  RefreshPeriod = 7
  RefreshCycles = 1
  InternalCycles = 2
  WakeCycles = 2
  HdmaInitAt = 1
  HdmaLineAt = 5
  HdmaInitCost = 1
  HdmaChannelInitCost = 1
  HdmaSetup = 1
  HdmaLineCosts <- MCHdmaLineCosts
  JoyFirst = 2
  JoyEarliest = 1
  JoyClock = 2
  Budgets <- MCBudgets
  Horizon = 60
  MaxWrites = 0
  MaxResets = 0
SPECIFICATION Spec
PROPERTY
  NmiTakenWhenSampled
