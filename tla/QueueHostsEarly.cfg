SPECIFICATION Spec
CONSTANTS
  Hosts = {h1}
  NoHost = NoHost
  Records = {r0, r1}
  Imported = {r0}
  Disturbances = {"early"}
  MaxDisturbances = 1
INVARIANT
  AcknowledgedKept
CHECK_DEADLOCK FALSE
