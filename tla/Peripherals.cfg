\* The PPI routes every event of the clock to every task that does not lead
\* to the stop of the event's own clock; TIMERs of two ticks a microsecond.
SPECIFICATION MCSpec
CONSTANTS
  Routes <- MCNoClockStopsItself
  IntEvents <- MCIntEvents
  MaxDepth = 2
  CtivMax = 2
  Horizon = 2
  Comparators <- MCComparators
  UsPerTick = 1
  TicksPerUs = 2
  BitMask = 3
  SwTasks <- MCSwTasks
  SwCcs <- MCSwCcs
  SwInts <- MCSwInts
  TimerSettings <- MCTimerSettings
  TimerHorizon = 3
  FlashPages = {p1, p2}
  ScannedPages = {p1}
  PageTime = 3
  AllTime = 4
  WriteTime = 1
  PartialTimes = {0, 2}
  NvmcArgs <- MCNvmcArgs
  TempTime = 1
  RngFirstTime = 1
  RngTime = 1
  EcbTime = 1
  AarTimes = {1}
  EguEvents = {1, 2}
  SmallConfigs <- MCSmallConfigs
  SubUs = 2
  LfPeriod = 3
  Prescaler = 0
  CounterMask = 3
  OverflowValue = 2
  NCc = 1
  RtcCcValues = {2}
  RtcInts = {1}
  RtcEvts = {0}
  RtcRoutes <- MCRtcRoutes
  RtcHorizon = 6
INVARIANTS
  LineFollowsEvents
  MasterTimerIsFirst
  CaltimerRunsWhenArmed
  StatusFollowsState
  ClocksSettleInOneDelta
  TimerMatchesTheCount
  RtcMatchesTheCount
  
  PartialErasesAddUp
  EachStartIsAnsweredOnce
  EguLineFollowsEvents
PROPERTIES
  CaptureReadsTheCount
  RtcEventIsOnTime
  OnlyTheAcceptedIsErased
