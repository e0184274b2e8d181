SPECIFICATION Spec
CONSTANTS
  MaxItems = 1
  Messages = {1}
  SourceOf <- DistinctSources
  c1 = c1
  Slots = {c1}
  Ops = {"message", "stop"}
  MaxCommands = 2
  MaxCrashes = 0
  MaxFaults = 0
  MaxRounds = 0
  Outcomes = {"completed", "failed"}
  UserActs = {}
PROPERTIES
  AbortPreservesItem
CHECK_DEADLOCK FALSE
