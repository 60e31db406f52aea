CONSTANTS
  Twins = TRUE
  MaxTicks = 2
  MaxEvents = 1
  LastEpisode = 3
  Ahead = 1
  MaxBytes = 2
  Walkers = {w1, w2}
  MaxTriggers = 2
  MaxRegrabs = 1
  MaxErrors = 1
  MaxAges = 1
  Playing = {p1, p2}
  AheadBursts = {a1}
  Chunks = 2
  MaxLosses = 2
  MaxMoves = 1
SPECIFICATION Spec
INVARIANTS WalkKeepsRequests TurnIsOwned
PROPERTIES LinkedStays
CHECK_DEADLOCK FALSE
