\* The H/V timer inside the machine, over the first two of three-line frames, with two writes.
CONSTANTS
  Forever = 1000
  DotsPerLine = 3
  LinesPerFrame = 3
  DotCycles = 2
  LongDots <- MCLongDots
  LongDotCycles = 3
  ShortLine = 1
  Program <- MCTimerProgram
  Cost <- MCCost
  HTimes <- MCHTimes
  VTimes <- MCVTimes
  DmaLengths <- MCDmaLengths
  Overscan = FALSE
  VblankLine = 1
  OverscanLine = 1
  RefreshStart = 5
  RefreshPeriod = 7
  RefreshCycles = 1
  InternalCycles = 2
  WakeCycles = 2
  HdmaInitAt = 1
  HdmaLineAt = 5
  HdmaInitCost = 1
  HdmaChannelInitCost = 1
  HdmaSetup = 1
  HdmaLineCosts <- MCHdmaLineCosts
  JoyFirst = 2
  JoyEarliest = 1
  JoyClock = 2
  Budgets <- MCNoBudget
  Horizon = 36
  MaxWrites = 2
  MaxResets = 0
SPECIFICATION Spec
INVARIANTS
  TimerStaysArmed
  MatchIsNext
PROPERTIES
  LatchOnlyAtMatch
  EveryDotLatches
