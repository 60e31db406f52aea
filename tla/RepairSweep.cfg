CONSTANTS
  Rel = {1, 2, 3, 4}
  TitleOf <- MCTitleOf
  PostOf <- MCPostOf
  MaxAttempts = 1
  MaxRestarts = 1
  Scenes <- MCScenes
SPECIFICATION SweepSpec
INVARIANTS GuardBounds
PROPERTIES  LostIsReplaced
CHECK_DEADLOCK FALSE
