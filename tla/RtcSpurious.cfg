SPECIFICATION RtcSpec
CONSTANTS
  SubUs = 2
  LfPeriod = 3
  Prescaler = 0
  CounterMask = 3
  OverflowValue = 2
  NCc = 2
  RtcCcValues = {2}
  RtcInts = {1}
  RtcEvts = {1}
  RtcRoutes <- MCRtcRoutesClear
  RtcHorizon = 9
PROPERTIES RtcEventIsOnTime
