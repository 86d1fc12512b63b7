\* The devices behind the bus: lazy and eager, over the sessions of MCDevices.
CONSTANTS
  DotsPerLine = 24
  LinesPerFrame = 5
  DotCycles = 2
  LongDots <- MCLongDots
  LongDotCycles = 3
  ShortLine = 4
  Objects = 4
  ScreenWidth = 16
  VisibleHStart = 2
  VisibleVStart = 1
  VisibleVEnd224 = 3
  VisibleVEnd239 = 4
  HblankStart = 20
  FetchStart = 10
  ObjLineCap = 2
  ObjTileCap = 3
  LogSize = 4
  PadBits = 2
  EdgeCycles = 4
  PhaseCycles = 8
  FirstStart = 9
  EarliestStart = 4
  ByteBits = 3
  ClockNumerator = 2
  ClockDenominator = 7
  TimerPeriods <- MCTimerPeriods
  CounterRange = 8
  OutputRange = 4
  DspCycles = 8
  Sessions <- MCSessions
SPECIFICATION Spec
INVARIANTS
  AnswersAsDue
  PictureAsDue
  ApuNeverDrifts
  MathResults
CHECK_DEADLOCK FALSE
