SPECIFICATION MCFairSpec
CONSTANTS
  Nzb = {n1}
  Seg = {1, 2}
  Worker = {w1}
  Depth = 1
  MaxRun = 1
  MaxTotal = 2
  ViewerRun = 2
  MinSegments = 2
  SuspectLimit = 2
  MaxReads = 2
  MaxAttempts = 1
  MaxRegrabs = 1
  Casts = {{"now"}, {"batch"}, {"router", "sticky", "off", "age"}, {"sweep", "sticky"}, {"manual", "panic"}, {"stop"}}
  MaxFlaws = 2
  MaxFaults = 2
  Passes = 2
  N = 2
  Streams = {s1, s2}
  Direct = {s2}
  MaxReaders = 2
  MaxReorders = 1
  MaxDeletes = 1
  MaxTries = 2
  MaxEvents = 3
  MaxSlips = 1
INVARIANTS OnePass DeletedStaysDeleted CondemnedIsBad StreamIsServed
PROPERTIES DamageIsChased ReapIsSafe
CHECK_DEADLOCK FALSE
