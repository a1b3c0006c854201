\* Three interrupts, two priorities, the whole interface, and the wake-up.
SPECIFICATION FairSpec
CONSTANTS
  IRQ <- MCIRQ
  Prio <- MCPrio
INVARIANTS
  HandlersNestByPrio
  NoLostWakeUp
  PendingConsistent
PROPERTIES
  LevelNotLost
  WakesUp
