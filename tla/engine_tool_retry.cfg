\* One run with one step more than max_retries allows failures.
SPECIFICATION Spec
CONSTANTS
  s1 = s1
  echo = echo
  mail = mail
  Ids <- MCIds
  Tools <- MCTools
  RequireApprovalFor <- MCRequireApprovalFor
  HasApprovalCallback = TRUE
  TimedCalls <- MCTimedCalls
  HasRunTimeout = TRUE
  MaxSteps = 3
  MaxRetries = 1
  MaxRuns = 1
  NoTool = NoTool
INVARIANTS
  ToolFailuresBounded
