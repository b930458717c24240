\* Two runs of one id (the second resumes the first), every outcome of every
\* planner, tool, approver and timer.
SPECIFICATION FairSpec
CONSTANTS
  s1 = s1
  echo = echo
  mail = mail
  Ids <- MCIds
  Tools <- MCTools
  RequireApprovalFor <- MCRequireApprovalFor
  HasApprovalCallback = TRUE
  TimedCalls <- MCTimedCalls
  HasRunTimeout = TRUE
  MaxSteps = 2
  MaxRetries = 1
  MaxRuns = 2
  NoTool = NoTool
INVARIANTS
  TypeOK
  ToolCallsTraceable
  GuardedCallsGranted
  OneWorkerAtATime
  StopsSoon
  ReturnsFinalState
  NoInvalidTransition
  CancelledOnRequest
PROPERTIES
  KeepsPromise
  EveryRunEnds
