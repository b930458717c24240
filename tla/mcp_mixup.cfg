\* Two tool calls at once, one server that never dies.
SPECIFICATION Spec
CONSTANTS
  w1 = w1
  w2 = w2
  Callers <- MCTwoCallers
  MaxCalls = 2
  MaxCrashes = 0
INVARIANTS
  OwnAnswer
CHECK_DEADLOCK FALSE
