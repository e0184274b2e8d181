SPECIFICATION Spec
CONSTANTS
  MaxItems = 3
  Messages = {2}
  SourceOf <- DistinctSources
  c1 = c1
  c2 = c2
  Slots = {c1,c2}
  Ops <- ConcurrentOperations
  MaxCommands = 3
  MaxCrashes = 1
  MaxFaults = 1
  MaxRounds = 1
  Outcomes = {"completed"}
  UserActs = {"done"}
INVARIANTS
  AtMostOneRunning
PROPERTIES
  ImplementsFifo
  PersistBeforeDispatch
  ResubmitsOnlyUnbound
CHECK_DEADLOCK FALSE
