\* The search on every status, priority table and running priority.
SPECIFICATION FairSpec
CONSTANTS
  IRQ <- MCIRQ
  Prio <- MCPrio
  FfsWidth = 3
INVARIANTS
  AnswerIsHighest
PROPERTIES
  AnswersWhenVisible
CHECK_DEADLOCK FALSE
