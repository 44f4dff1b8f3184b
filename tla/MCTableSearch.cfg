SPECIFICATION FairSpec
CONSTANTS
  Words = 7
  MaxRows = 7
  Queries <- PresentQueries
  Beyond <- BeyondWords
INVARIANTS
  TargetInWindow
  InBounds
PROPERTIES
  WindowHalves
  RefinesLookup
CHECK_DEADLOCK FALSE
