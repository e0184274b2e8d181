SPECIFICATION FairSpec
CONSTANTS
  r1 = r1
  Requests = {r1}
  NoRequest = NoRequest
  MinFailures = 2
  Disturbances = {"busy", "close", "open", "lost", "crash", "second", "client"}
  MaxDisturbances = 2
INVARIANT OneRestartPerRequest
PROPERTIES RestartsOnEvidence RequestsSettle WindowReturns
