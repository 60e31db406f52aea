CONSTANTS
  Versions = {1, 2}
  MaxId = 3
  Recurring = "a"
  Items = {"a", "b", "check"}
  Check = "check"
  MaxAttempts = 2
  MaxFires = 2
  MaxEnds = 2
  MaxStages = 2
  MaxCrashes = 2
  Paths = {p1, p2}
  Entries = {e1, e2}
  Limit = 1
  MaxWrites = 2
SPECIFICATION Spec
INVARIANTS SnapshotIsWhole RestoreIsSafe 
PROPERTIES OwedIsPaid
CHECK_DEADLOCK FALSE
