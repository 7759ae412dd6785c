SPECIFICATION LiveSpec
CONSTANTS
  Threads = {t1, t2, t3}
  Documents <- ThreeDocuments
  Requests <- SomeRequests
  Nobody = Nobody
  Nesting = TRUE
  MaxCalls = 4
INVARIANTS
  TypeOK
  MutualExclusion
  Possession
  NothingLeaks
  NoCircularWait
PROPERTIES
  EverySessionEnds
  LockTableImplemented
CHECK_DEADLOCK FALSE
