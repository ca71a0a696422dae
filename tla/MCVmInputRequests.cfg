SPECIFICATION Spec
CONSTANTS
  transport = transport
  tcp = tcp
  RxTasks <- BothRxTasks
  QueueLen = 2
  Capacity = 3
  Kinds = {"debug"}
  MaxGeneration = 4
  MaxInput = 0
  MaxRequests = 2
SYMMETRY Exchange
INVARIANTS RequestInv
