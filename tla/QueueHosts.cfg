SPECIFICATION FairSpec
CONSTANTS
  Hosts = {h1, h2}
  NoHost = NoHost
  Records = {r0, r1}
  Imported = {r0}
  Disturbances = {"early", "missed", "dropped", "crash"}
  MaxDisturbances = 2
INVARIANTS
  TypeOK
  LossesAccounted
PROPERTIES
  StaleQueueStops
CHECK_DEADLOCK FALSE
