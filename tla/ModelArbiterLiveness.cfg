SPECIFICATION FairSpec
CONSTANTS
  w1 = w1
  w2 = w2
  Workspaces = {w1,w2}
  NoWorkspace = NoWorkspace
  Tasks <- TwoAndOne
  Disturbances = {"cancel", "pause", "fault", "crash"}
  MaxDisturbances = 1
PROPERTIES
  PreemptedRestored
  OneRuns
CHECK_DEADLOCK FALSE
