\* One peripheral, one interrupt.
SPECIFICATION FairSpec
CONSTANTS
  NumberOfNRFHWTimers = 4
  Horizon = 2
  TickerPeriodMax = 1
  IRQ <- MCIRQ
  Prio <- MCPrio
INVARIANTS
  NoTimerIsMissed
  BusyWaitIsOnTime
PROPERTIES
  TicksOnTime
  ServedInOrder
  ImplementsIrqCtrl
  BusyWaitEnds
CHECK_DEADLOCK FALSE
