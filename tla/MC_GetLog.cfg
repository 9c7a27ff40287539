SPECIFICATION Spec
CONSTANTS
  Paths <- MCPaths
  Changes <- MCChanges
  Queries <- MCQueries
  Defaults <- MCDefaults
  Cuts = {1, 2, 3, 4, 5, 6, 7, 8}
  Settle = 1
  MaxSkew = 2
  ShortMod = 6
  DefaultLimit = 9
  FileLimit = 1
  MaxTime = 4
  MaxEntries = 4
  MaxPaged = 3
  MaxFed = 3
INVARIANTS  EntriesAreKept
PROPERTY DownloadCatchesUp
CHECK_DEADLOCK FALSE
