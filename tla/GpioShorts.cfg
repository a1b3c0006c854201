SPECIFICATION IoSpec
CONSTANTS
  Pins = {0, 1, 2, 3, 4}
  Channels = {1, 2}
  Shorted <- MCTwoShorts
  ChannelConfigs <- MCChannelConfigs
  ChannelRoutes <- MCChannelRoutes
  TestPins = {2}
  OutputPins = {}
  InputPins = {}
  CarefulSoftware = TRUE
  SignalInts = {1}
INVARIANT ShortFollowsOutput
