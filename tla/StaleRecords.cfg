SPECIFICATION SpecRecords
CONSTANTS
  Twins = TRUE
  MaxAges = 2
  MaxEvents = 1
PROPERTIES ReplacementIsSpared
CHECK_DEADLOCK FALSE
