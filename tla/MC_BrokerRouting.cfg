CONSTANTS
  N = 2
  Calls = {k1}
  MaxId = 5
  MaxLosses = 2
  MaxRestarts = 1
SPECIFICATION Spec
CHECK_DEADLOCK FALSE
INVARIANTS ResponsesAreRight UnansweredOnlyIfDisturbed
PROPERTIES CallsAreDelivered
