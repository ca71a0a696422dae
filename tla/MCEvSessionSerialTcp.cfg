SPECIFICATION ActiveSpec
CONSTANTS
  SerialLinks = {uart}
  UsbLinks = {}
  TcpLinks = {tcp0}
  NoLink = NoLink
  Nonces = {n1}
  NoNonce = NoNonce
  MaxTransitions = 3
  MaxGeneration = 1
  MaxEpoch = 1
  QueueFrames = 1
INVARIANT RoutesFollowSession
INVARIANT CompletionOutstanding
INVARIANT SerialInv
