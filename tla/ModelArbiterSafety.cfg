SPECIFICATION Spec
CONSTANTS
  w1 = w1
  w2 = w2
  Workspaces = {w1,w2}
  NoWorkspace = NoWorkspace
  Tasks <- OneEach
  Disturbances <- EveryDisturbance
  MaxDisturbances = 1
INVARIANT
  TypeOK
PROPERTIES
  SameThread
  LeaseKept
SYMMETRY
  Interchangeable
CHECK_DEADLOCK FALSE
