CONSTANTS
  RpcTasks <- OneRpcTask
  SessionTasks <- OneSessionTask
  NvsFails = FALSE
  MaxSessions = 2
  MaxLeases = 2
  MaxHandles = 1
  MaxWrites = 1
  MaxCrashes = 1
  MaxResets = 1
SPECIFICATION Spec
INVARIANTS WriterInv DrainHolds RecordInv
PROPERTY HandsOver
