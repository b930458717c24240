\* Two processes that take turns of a session and change records, with
\* failing statements, crashes and a clock.
SPECIFICATION Spec
CONSTANTS
  m1 = m1
  m2 = m2
  a = a
  b = b
  Ids <- MCIds
  Slots <- MCSlots
  Records <- MCRecords
  Never = 9
  NoMatch = 9
  NoRecord = NoRecord
  MaxTime = 1
  Procs = {p1, p2}
  Turns = {1, 2}
  MaxOps = 3
INVARIANTS
  StoreTypeOK
  ReadsAgree
  LockHeldOnlyAfterFailure
  LostOnlyToOverlap
  SessionIsHistory
PROPERTIES
  ActsAsStore
  CleanupComplete
CHECK_DEADLOCK FALSE
