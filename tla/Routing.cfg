SPECIFICATION MCSpec
CONSTANTS
  Channel <- MCChannel
  FixedEvent <- MCFixedEvent
  FixedTask <- MCFixedTask
  Event <- MCEvent
  Task <- MCTask
  Group <- MCGroup
  EnTask <- MCEnTask
  DisTask <- MCDisTask
  Raises <- MCRaises
  MaxDepth = 3
  Pins = {0, 1, 2, 3, 4}
  Channels = {1, 2}
  Shorted <- MCShorted
  ChannelConfigs <- MCChannelConfigs
  ChannelRoutes <- MCChannelRoutes
  TestPins = {2}
  OutputPins = {1}
  InputPins = {3}
  CarefulSoftware = TRUE
  SignalInts = {1}
INVARIANTS
  RoutesFollowRegisters
  EventIsServed
  PinsSettle
  ShortFollowsOutput
  ChannelKnowsItsLevel
  ChannelsOwnTheirPins
PROPERTIES
  OncePerEvent
