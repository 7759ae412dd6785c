SPECIFICATION TrackedSpec
CONSTANTS
  Entries = {1, 2}
  Values = {v1, v2}
  Absent = Absent
  Torn = Torn
  Plans <- EveryPlan
  Caller = "guarded"
  CrashPhases = {"publish", "recover"}
  FaultPhases = {"publish", "recover"}
  ShortWrites = FALSE
INVARIANT TypeOK
INVARIANT PublishDelivers
PROPERTY Atomicity
INVARIANT RecoverySucceedsOnce
INVARIANT ForwardIsComplete
PROPERTY OpensCleanPair
PROPERTY InterruptedIsSettled
