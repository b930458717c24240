\* A tight budget.
SPECIFICATION Spec
CONSTANTS
  m1 = m1
  m2 = m2
  a = a
  b = b
  Ids <- MCIds
  Slots <- MCSlots
  Records <- MCRecords
  Never = 9
  NoMatch = 9
  NoRecord = NoRecord
  MaxTime = 1
  Conversations <- MCConversations
  RefLists <- MCRefLists
  MaxContextTokens = 6
  MaxMemoryRecords = 2
  NoticeTokens = 1
  HeaderTokens = 1
  MaxWrites = 2
INVARIANTS
  HardBudget
CHECK_DEADLOCK FALSE
