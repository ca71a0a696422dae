SPECIFICATION ActiveSpec
CONSTANTS
  SerialLinks = {}
  UsbLinks = {cdc}
  TcpLinks = {tcp0}
  NoLink = NoLink
  Nonces = {n1, n2}
  NoNonce = NoNonce
  MaxTransitions = 3
  MaxGeneration = 3
  MaxEpoch = 2
  QueueFrames = 1
INVARIANT RouteInv
PROPERTY ReleaseEnds
PROPERTY DeadOwnerEnds
