SPECIFICATION FairSpec
CONSTANTS
  MaxUnchangedRounds = 1
  MaxStuckRounds = 2
  MaxVerifications = 1
  Reflective = FALSE
  RestartOnYolo = TRUE
  UserEntries = {}
  Works = {"edit", "outside"}
  Stops = {"unfinished","yolo","mistakes","overflow","recommends"}
  MaxWork = 1
  MaxTroubles = 1
  MaxUserActs = 0
  MaxDisturbances = 1
CHECK_DEADLOCK FALSE
INVARIANTS FlagsTellTruth VerificationBounded FreshThreadsJustified StandsStillOnlyWhen
PROPERTIES RecordEnds
