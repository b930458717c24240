\* One thread that calls and closes, over servers that die at any moment.
SPECIFICATION Spec
CONSTANTS
  w1 = w1
  w2 = w2
  Callers <- MCOneCaller
  MaxCalls = 6
  MaxCrashes = 4
INVARIANTS
  TypeOK
  OwnAnswer
  InSync
  OneServer
PROPERTIES
  CallsEnd
CHECK_DEADLOCK FALSE
