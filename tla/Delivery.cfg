SPECIFICATION FairSpec
CONSTANTS
  Threads = {1, 2}
  Owned = {1, 2}
  WorkerThread = 1
  Attempts = 2
  RepeatLimit = 2
  MaxMessages = 1
  MaxHandoffs = 3
  MaxDisturbances = 2
INVARIANTS
  TypeOK
  StraysAccounted
  CopiesAccounted
  CompactsOnce
  HandledOnlyAnswered
PROPERTIES
  HandoffsSettle
CHECK_DEADLOCK FALSE
