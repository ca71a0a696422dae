SPECIFICATION Spec
CONSTANTS
  transport = transport
  tcp = tcp
  RxTasks <- OneRxTask
  QueueLen = 2
  Capacity = 3
  Kinds = {"stdin", "signal", "run"}
  MaxGeneration = 4
  MaxInput = 3
  MaxRequests = 1
INVARIANTS QueueInv LineHasOneOrigin
PROPERTY InputKept
