\* Up to three branches on two workers.
SPECIFICATION Spec
CONSTANTS
  v0 = v0
  v1 = v1
  v2 = v2
  Raises = Raises
  Contexts <- MCContexts
  Works <- MCWorks
  Observations <- MCObservations
  MaxBranches = 3
  MaxWorkers = 2
INVARIANTS
  TypeOK
  CompletionOrderIrrelevant
  AllOrNothing
  NoBranchLeft
PROPERTIES
  ExecuteEnds
CHECK_DEADLOCK FALSE
