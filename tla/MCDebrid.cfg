CONSTANTS
  Kinds = {"realdebrid", "torbox", "alldebrid", "debridlink", "premiumize"}
  Callers = {c1, c2}
  Files = {f1, f2}
  QuotaReturns = TRUE
  MaxCalls = 2
  MaxPlacements = 2
  MaxLinkFaults = 1
  MaxEvents = 2
  MainKinds = {"realdebrid", "torbox", "alldebrid", "debridlink", "premiumize"}
  BackupKind = "torbox"
  Fixers = {x1}
  MaxId = 2
  MaxFixes = 2
  MaxFaults = 1
SPECIFICATION Spec
INVARIANTS  BadIsEarned
 
CHECK_DEADLOCK FALSE
