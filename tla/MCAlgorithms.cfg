SPECIFICATION MCSpec
CONSTANTS
  Programs <- MCPrograms
  NULL = NULL
  BitXor <- MCBitXor
  Base = 2
  Length = 6
  TokenLength = 2
  WordLength = 4
  Returns <- MCReturns
  Key <- MCKey
  Measurements <- MCMeasurements
  OtherDigests <- MCOtherDigests
  ByteValues = 4
  Keys <- MCKeys
  MaxSent = 5
  BITSPERLONG = 12
  NUM_NODES = 4
  NONE = 99
  Matrices <- MCMatrices
  Chars = {"a", "b"}
  MaxFind = 3
  MaxText = 5
  SHA_BLOCKSIZE = 8
  BLOCK_SIZE = 16
  LONG = 256
  MaxFile = 100
  PopLists <- MCPopLists
  BlxRegs = {0, 1, 2, 3, 4, 5, 6, 7, 8, 9, 10, 11, 12, 14}
  Depth = 15
INVARIANT TokensTellCallsApart
INVARIANT DecodesFullText
INVARIANT InBounds
INVARIANT CorrectsUpToT
INVARIANT WordOrUntouched
INVARIANT Recovered
INVARIANT SmallRootRight
INVARIANT EndsShortest
INVARIANT FirstFound
INVARIANT BlocksOfFile
INVARIANT ClassifiedExactly
INVARIANT SameControl
INVARIANT ExitRegisters
INVARIANT CallRegisters
INVARIANT FellPast
CHECK_DEADLOCK FALSE
