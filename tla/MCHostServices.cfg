SPECIFICATION ServicesSpec
CONSTANTS
  Ids = {1, 2}
  MaxChunks = 1
  MaxUploads = 2
  MaxSessions = 2
  MaxScripts = 2
  MaxCrashes = 1
  Profiles = {1, 2}
  NoProfile = 0
  MaxCommands = 2
  MaxEvents = 1
CHECK_DEADLOCK FALSE
INVARIANTS ServicesInv ResultInForce
PROPERTIES ReplacesAtomically NameComesBack StagingIsOwn UploadEnds OperationEnds
