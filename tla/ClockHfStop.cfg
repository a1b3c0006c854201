\* The comment in HFCLKSTOP, against a PPI that routes HFCLKSTARTED to it.
SPECIFICATION Spec
CONSTANTS
  Routes <- MCAnyRoute
  IntEvents <- MCNoEvents
  MaxDepth = 2
  CtivMax = 2
  Horizon = 2
INVARIANTS
  HfSettlesInOneDelta
