SPECIFICATION Spec
CONSTANTS
  MaxItems = 3
  Messages = {2}
  SourceOf <- DistinctSources
  c1 = c1
  Slots = {c1}
  Ops <- Operation
  MaxCommands = 4
  MaxCrashes = 1
  MaxFaults = 0
  MaxRounds = 0
  Outcomes = {"completed", "failed"}
  UserActs = {"delete"}
INVARIANTS
  TypeOK
  MonitoredItemRunning
  AcknowledgedDurable
PROPERTIES
  DispatchesHead
  ActiveNotLost
CHECK_DEADLOCK FALSE
