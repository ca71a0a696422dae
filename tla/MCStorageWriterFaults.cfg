CONSTANTS
  RpcTasks <- OneRpcTask
  SessionTasks <- OneSessionTask
  NvsFails = TRUE
  MaxSessions = 1
  MaxLeases = 1
  MaxHandles = 1
  MaxWrites = 1
  MaxCrashes = 1
  MaxResets = 0
SPECIFICATION FairSpec
INVARIANT RecoveryAgrees
PROPERTY TransitionEnds
