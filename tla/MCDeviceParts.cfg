SPECIFICATION PartsSpec
CONSTANTS
  Receivers = {"transport"}
  ClockMod = 11
  Lease = 4
  MaxDelay = 1
  PumpGap = 2
  Bauds = {1, 2}
  Baseline = 1
  MaxBaudSessions = 2
  MaxAttempts = 2
  MaxAnswers = 2
  Operations = {1, 2}
  NoOperation = 0
  MaxVms = 3
  GenerationMax = 5
  RingCapacity = 2
  MaxConnections = 3
  MaxBytes = 3
  Slots = {0, 1}
  MaxAccepts = 3
CHECK_DEADLOCK FALSE
INVARIANTS PartsInv KnownSpeed RunningIsTrue TrialRunsOnce OneStream
PROPERTIES ExpiresIdleOrOvertaken SilentSessionEnds SpeedChangeIsAgreed PauseEnds InputMoves OnlyItsOwnClose InvalidLinkEnds
