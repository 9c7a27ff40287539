SPECIFICATION Spec
CONSTANTS
  Paths = {p1, p2}
  FileLimit = 1
  JournalLimit = 3
  MaxTime = 4
  MaxEntries = 6
  MaxRestarts = 1
  MaxRemovals = 1
  MaxErrors = 1
INVARIANTS FilesAreSound RotationIsSound LossIsLimited
