SPECIFICATION Spec
CONSTANTS
  Addrs = {a1, a2, a3, a4}
  token = token
  NULL = NULL
  Garbage = Garbage
  Data <- Words
INVARIANTS
  ChainWhole
  FaultsJustified
  IteratorBehind
PROPERTIES
  LoopsEnd
  RefinesDeque
CHECK_DEADLOCK FALSE
