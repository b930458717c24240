\* Contexts of every conversation of up to three messages while another
\* thread changes the store and records expire.
SPECIFICATION Spec
CONSTANTS
  m1 = m1
  m2 = m2
  a = a
  b = b
  Ids <- MCIds
  Slots <- MCSlots
  Records <- MCRecords
  Never = 9
  NoMatch = 9
  NoRecord = NoRecord
  MaxTime = 1
  Conversations <- MCConversations
  RefLists <- MCRefLists
  MaxContextTokens = 6
  MaxMemoryRecords = 2
  NoticeTokens = 1
  HeaderTokens = 1
  MaxWrites = 3
INVARIANTS
  TypeOK
  ReadsAgree
  LatestUserKept
  OverBudgetOnlyByMandatory
  NoNeedlessDrop
  MemoriesFresh
PROPERTIES
  StoreSpec
\* One context is built.
CHECK_DEADLOCK FALSE
