CONSTANTS
  Width = 5
  MaxEdits = 2
  Files <- MCFiles
  EditPaths <- MCEditPaths
  EditNames <- MCEditNames
  Probes <- MCProbes
  Watchable <- MCWatchable
  Values <- MCValues
  Unsets <- MCUnsets
SPECIFICATION Spec
INVARIANTS
  DescriptionsAreRight
  ReloadKeepsAnswers
  ValuesAreReadRight
CHECK_DEADLOCK FALSE
