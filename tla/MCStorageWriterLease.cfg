CONSTANTS
  RpcTasks <- OneRpcTask
  SessionTasks <- OneSessionTask
  NvsFails = FALSE
  MaxSessions = 1
  MaxLeases = 1
  MaxHandles = 0
  MaxWrites = 0
  MaxCrashes = 0
  MaxResets = 0
SPECIFICATION Spec
INVARIANT LeaseHasSession
