SPECIFICATION FairSpec
CONSTANTS
  Words = 3
  MaxRows = 3
  Queries <- AbsentQueries
  Beyond <- BeyondWords
PROPERTY
  SearchReturns
CHECK_DEADLOCK FALSE
