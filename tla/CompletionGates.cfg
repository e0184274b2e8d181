SPECIFICATION Spec
CONSTANTS
  MaxUnchangedRounds = 1
  MaxStuckRounds = 2
  MaxVerifications = 2
  Reflective = TRUE
  RestartOnYolo = TRUE
  UserEntries = {"DONE", "resume", "reopened"}
  Works = {"edit", "timeout"}
  Stops = {"unfinished", "unchecked", "recommends", "confident", "clean"}
  MaxWork = 2
  MaxTroubles = 2
  MaxUserActs = 1
  MaxDisturbances = 0
CHECK_DEADLOCK FALSE
INVARIANTS TypeOK
PROPERTIES OneRequestPerClaim AcceptedThroughGates CorrectionsBeforeFailure
