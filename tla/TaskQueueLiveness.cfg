SPECIFICATION FairSpec
CONSTANTS
  MaxItems = 2
  Messages = {}
  SourceOf <- DistinctSources
  c1 = c1
  c2 = c2
  Slots = {c1,c2}
  Ops <- WakingOperations
  MaxCommands = 3
  MaxCrashes = 1
  MaxFaults = 0
  MaxRounds = 0
  Outcomes = {"completed", "failed"}
  UserActs = {"resume"}
INVARIANTS
  PolicyAlongside
PROPERTIES
  CommandsReturn
  QueuedAdvances
  RunningEnds
CHECK_DEADLOCK FALSE
