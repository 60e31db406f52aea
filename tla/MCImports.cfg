CONSTANTS
  Job = {j1, j2, j3}
  Worker = {w1, w2}
  MaxRetries = 1
  Torrent = {t}
  Nzb = {n}
  Slots = 1
  Task = {1, 2}
  MaxRestarts = 1
  Faults = {"provider", "transient", "unlinked", "crash", "delete", "stalled"}
SPECIFICATION MCSpec
INVARIANTS NoSleepOverWork  
PROPERTIES  ImportSettles
CHECK_DEADLOCK FALSE
