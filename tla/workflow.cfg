\* One client that runs, is interrupted and resumes, with every outcome of
\* nodes and edge conditions.
SPECIFICATION WfSpec
CONSTANTS
  planner = planner
  tool = tool
  NoNode = NoNode
  EdgeError = EdgeError
  Nodes <- MCNodes
  Contexts <- MCContexts
  Edges <- MCEdges
  Entry = planner
  MaxSteps = 3
  Callers = {c1}
  Breakpoints <- MCBreakpoints
  MaxCalls = 3
  MaxInterrupts = 2
INVARIANTS
  WfTypeOK
  ResumePoint
PROPERTIES
  NothingAfterTheEnd
  OneInterruptOnePause
  Walks
  EveryLoopEnds
\* Calls are bounded.
CHECK_DEADLOCK FALSE
