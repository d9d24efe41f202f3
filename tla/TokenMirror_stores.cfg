CONSTANTS
  Kinds = {"object", "postgres"}
  MaxChanges = 2
  MaxSaves = 2
  MaxFailures = 1
  MaxCrashes = 2
  None = None
  Empty = Empty
  Lost = Lost
SPECIFICATION MirrorSpec
INVARIANTS RemoteFollows
PROPERTIES SavedSurvives
CHECK_DEADLOCK FALSE
