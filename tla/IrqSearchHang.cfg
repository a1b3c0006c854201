\* The search always answers, says its comment; not above ffs()'s width.
SPECIFICATION FairSpec
CONSTANTS
  IRQ <- MCIRQ
  Prio <- MCPrio
  FfsWidth = 3
PROPERTIES
  AlwaysAnswers
CHECK_DEADLOCK FALSE
