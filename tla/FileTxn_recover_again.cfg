SPECIFICATION TrackedSpec
CONSTANTS
  Entries = {1, 2}
  Values = {v1, v2}
  Absent = Absent
  Torn = Torn
  Plans <- EveryPlan
  Caller = "reopen"
  CrashPhases = {"publish", "recover"}
  FaultPhases = {"publish"}
  ShortWrites = FALSE
INVARIANT RecoverySucceeds
