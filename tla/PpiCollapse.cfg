\* A programmable and a fixed channel, one group, calls nested three deep: an event inside another asks for the same task.
SPECIFICATION Spec
CONSTANTS
  Channel <- MCChannel
  FixedEvent <- MCFixedEvent
  FixedTask <- MCFixedTask
  Event <- MCEvent
  Task <- MCTask
  Group <- MCGroup
  EnTask <- MCEnTask
  DisTask <- MCDisTask
  Raises <- MCRaises
  MaxDepth = 3
PROPERTIES
  TwoEventsTriggerTwice
