SPECIFICATION Spec
CONSTANTS
  IntMax = 134217727
  DoubleDigits <- MCDoubleDigits
  Links <- MCLinks
  Messages <- MCMessages
  MaxSent = 2
  FlushSizes = {0, 9}
  ChunkSizes = {1}
  FaultBytes = {162, 163, 170}
  MaxDisturbances = 1
  MaxWriteBufferLength = 40
INVARIANTS
  FramesAreSound
  FaultsAreLocal
