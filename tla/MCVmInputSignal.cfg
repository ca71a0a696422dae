SPECIFICATION Spec
CONSTANTS
  transport = transport
  tcp = tcp
  RxTasks <- OneRxTask
  QueueLen = 2
  Capacity = 3
  Kinds = {"stdin", "signal"}
  MaxGeneration = 2
  MaxInput = 1
  MaxRequests = 0
INVARIANT InterruptOnlyArmed
