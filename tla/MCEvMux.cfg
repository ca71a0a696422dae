SPECIFICATION MuxFairSpec
CONSTANTS
  SerialTargets = {0}
  TcpTargets = {3, 4}
  Uart = 0
  QueueFrames = 2
  ReservedFrames = 1
  QueueBytes = 3
  ReservedBytes = 1
  BlockCount = 2
  PreviewObservers = 1
  Scenarios <- MCScenarios
CHECK_DEADLOCK FALSE
INVARIANTS MuxInv StreamIsWhole BufferHolds
PROPERTIES FramesEnd ObserverEnds
