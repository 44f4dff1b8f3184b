SPECIFICATION Spec
CONSTANTS
  Text <- SmallText
  OldTables <- SomeTables
  MaxBuilds = 5
  Broken = Broken
INVARIANT FitsIfLayoutStays
INVARIANT ThirdBuildFits
CHECK_DEADLOCK FALSE
