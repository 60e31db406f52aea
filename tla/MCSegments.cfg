CONSTANTS
  r1 = r1
  r2 = r2
  r3 = r3
  Actor = {r1, r2, r3}
  World <- MCWorlds
  MaxTries = 2
  MaxStreak = 2
  MaxTimeouts = 1
  File <- MCFile
  Seg <- MCSeg
  FileOf <- MCFileOf
  Slice <- MCSlice
  FileSlices <- MCFileSlices
  SlicesOf <- MCSlicesOf
  SetOf <- MCSetOf
  Vol <- MCVol
  Count <- MCCount
  VolSet <- MCVolSet
  Cap = 4
  Large = 2
  MaxRounds = 3
  MaxNotFound = 2
  MaxMismatch = 1
  SuspectLimit = 2
  MaxPasses = 2
  MaxBad = 2
  MaxReads = 1
  Casts = {{"gone", "transport", "extra"}, {"gone", "corrupt", "short", "partial"}, {"gone", "viewer", "disk"},
           {"wrong", "estimated", "gone"}, {"gone", "dead", "stat", "extra"}, {"crowd"}, {"cancel", "gone"},
           {"nodata", "noindex", "untied", "gone", "dead"}, {"sets", "gone", "untied", "extra"}, {"sets", "noindex"}}
SPECIFICATION MCSpec
INVARIANTS ZerosAreMarked RepairIsServed NoReadIsStranded  
CHECK_DEADLOCK FALSE
