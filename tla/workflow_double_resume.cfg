\* Two clients: one resumes the run that the other is still executing.
SPECIFICATION WfSpec
CONSTANTS
  planner = planner
  tool = tool
  NoNode = NoNode
  EdgeError = EdgeError
  Nodes <- MCNodes
  Contexts <- MCContexts
  Edges <- MCEdges
  Entry = planner
  MaxSteps = 2
  Callers = {c1, c2}
  Breakpoints <- MCBreakpoints
  MaxCalls = 2
  MaxInterrupts = 1
INVARIANTS
  OneLoop
CHECK_DEADLOCK FALSE
