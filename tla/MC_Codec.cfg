SPECIFICATION Spec
CONSTANTS
  IntMax = 134217727
  DoubleDigits <- MCDoubleDigits
  Values <- MCValues
  Changes <- MCChanges
  MaxChanges = 2
  Foreign <- MCForeign
  Caps = {0, 1, 4, 7, 40}
  Chunks = {1, 3, 256}
  ConvertChunks = {256}
CHECK_DEADLOCK FALSE
INVARIANTS ReadBack BytesAreExact
PROPERTY ImplementsChannel
