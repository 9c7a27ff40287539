CONSTANTS
  Calls = {c1, c2}
  Other = other
  Timeout = 1
  MaxWire = 2
  MaxChunks = 1
  MaxAnswers = 2
  MaxLosses = 1
  Abortable = {c2}
SPECIFICATION Spec
CHECK_DEADLOCK FALSE
INVARIANT TypeOK
PROPERTIES KeepsItsContract EveryCallEnds
