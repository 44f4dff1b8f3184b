SPECIFICATION Spec
CONSTANTS
  Programs <- TwoPrograms
  Tables <- TwoTables
  TableAt <- TwoPlaces
  PageRows = 2
  Frames = {0, 1, 2}
  AddressRows = 4
  MaxBlocks = 3
  Junk <- NoRow
  Panic = Panic
  Anything = Anything
  NULL = NULL
PROPERTY QuoteFreesContext
CHECK_DEADLOCK FALSE
