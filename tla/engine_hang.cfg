\* One run whose planner or tool may hang.
SPECIFICATION HungSpec
CONSTANTS
  s1 = s1
  echo = echo
  mail = mail
  Ids <- MCIds
  Tools <- MCTools
  RequireApprovalFor <- MCRequireApprovalFor
  HasApprovalCallback = TRUE
  TimedCalls <- MCTimedCalls
  HasRunTimeout = TRUE
  MaxSteps = 1
  MaxRetries = 1
  MaxRuns = 1
  NoTool = NoTool
PROPERTIES
  TimeoutsUnblock
