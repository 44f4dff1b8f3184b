SPECIFICATION Spec
CONSTANTS
  m = 10
  p <- Taps10
  Parameters <- Codes10
  IndexSize = 500
  GenSize = 500
INVARIANT TablesInBounds
CHECK_DEADLOCK FALSE
