CONSTANTS
  Cells = 3
  Per = 2
  MaxBlocks = 1
  Budget = 1
  DiskLimit = 1
  BackWindow = 0
  BufScenes = {{"writer","second","reader","flush","others","sized"}, {"writer","second","reader","discarder","sized","close"}, {"writer","second","reader","pool","forward","sized","close"}}
  MaxOpens = 2
  VfsScenes = {{"v1","evictfile","still","crash","wide"}, {"v1","replace","settled","crash","janitor","still"}, {"v1","precache","janitor","still"}, {"v1","forget","alone","janitor","still"}, {"v1","v2","janitor","still","crash"}, {"v1","v2","replace","settled"}, {"v1","replace","settled","forget","alone","wide"}}
  Chunks = 2
  Ahead = 1
  Window = 1
  MaxErr = 2
  Attempts = 2
  Slots = 2
  Reads = 2
  DlScenes = {{"r1","idle","retry"}, {"r1","retry","stop"}, {"r1","evict","cancel","gone"}, {"r1","r2","retry"}, {"r1","r2","idle","probe"}, {"r1","perm","close"}}
SPECIFICATION MountSpec
  
PROPERTIES ReadReturns
CHECK_DEADLOCK FALSE
