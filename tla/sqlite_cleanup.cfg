\* A record whose expiry carries another UTC offset.
SPECIFICATION Spec
CONSTANTS
  m1 = m1
  m2 = m2
  a = a
  b = b
  Ids <- MCIds
  Slots <- MCSlots
  Records <- MCZoned
  Never = 9
  NoMatch = 9
  NoRecord = NoRecord
  MaxTime = 1
  Procs = {p1, p2}
  Turns = {1}
  MaxOps = 2
PROPERTIES
  CleanupComplete
CHECK_DEADLOCK FALSE
