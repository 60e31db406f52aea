CONSTANTS
  pA = pA
  pB = pB
  pC = pC
  X = X
  Provider = {pA, pB, pC}
  NoBackbone = NoBackbone
  None = None
  Backbone <- MCBackbone
  Tier <- MCTier
  Retries = 1
  Primary = {pA, pB}
  Backups <- MCBackups
  StatBackbone <- MCStatBackbone
  Skips <- MCSkips
  Ids <- MCIds
  HomeOf <- MCHomeOf
  Chunk = {1, 2}
  Depth = 1
  ProbeIds = {1}
  MinAnswers = 2
  MaxFaults = 1
SPECIFICATION MCSpec
INVARIANTS  DeadArticleIsReported MissingIsUnanimous CompleteIsExact
CHECK_DEADLOCK FALSE
