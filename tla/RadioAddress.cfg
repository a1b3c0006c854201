SPECIFICATION Spec
CONSTANTS
  Never = 1000
  TxChain = 1
  RxChain = 1
  RampUp <- MCRampUp
  TifsRampUp <- MCTifsRampUp
  TxRampDown = 1
  AddressTime = 2
  PayloadTime = 1
  CrcTime = 1
  CcaTime = 2
  Tifs = 5
  Configs <- MCConfigs
  Routes <- MCStopAtAddress
  IntEvents = {"ADDRESS"}
  Careless = {}
  AddressMax = 2
  OtherMax = 2
  BccMax = 1
  SwCalls = 1
  MaxTodo = 7
INVARIANT AddressAwaitsItsAnswer
