CONSTANTS
  r1 = r1
  r2 = r2
  r3 = r3
  Actor = {r1, r2, r3}
  World <- EvictedWorlds
  MaxTries = 1
  MaxStreak = 2
  MaxTimeouts = 0
  File <- MCFile
  Seg <- MCSeg
  FileOf <- MCFileOf
  Slice <- MCSlice
  FileSlices <- MCFileSlices
  SlicesOf <- MCSlicesOf
  SetOf <- MCSetOf
  Vol <- MCVol
  Count <- MCCount
  VolSet <- MCVolSet
  Cap = 4
  Large = 2
  MaxRounds = 3
  MaxNotFound = 2
  MaxMismatch = 1
  SuspectLimit = 2
  MaxPasses = 2
  MaxBad = 2
  MaxReads = 1
  Casts = {}
SPECIFICATION MCSpec
INVARIANTS PaddingNeverVerifies
CHECK_DEADLOCK FALSE
