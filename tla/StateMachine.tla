---------------------------- MODULE StateMachine ----------------------------
(***************************************************************************)
(* The phase table of runtime/state_machine.py: which phase a run of the   *)
(* engine may enter next, and the status its State shows in each phase.    *)
(***************************************************************************)

RuntimePhase ==
  { "idle", "planning", "executing", "waiting_tool", "waiting_approval",
    "completed", "failed", "cancelled", "interrupted" }

StateStatus ==
  { "created", "running", "waiting_tool", "completed", "failed", "cancelled" }

TerminalPhase == { "completed", "failed", "cancelled" }

\* Phases with an edge to every way a run can be stopped early.
Stops == { "failed", "cancelled" }

\* Seeded fault: no way from waiting_tool back to executing.
AfterToolWithoutRetry == { "planning" } \cup Stops

AfterTool == { "planning", "executing" } \cup Stops

ALLOWED_TRANSITIONS ==
  [ current \in RuntimePhase |->
      CASE current = "idle" -> { "planning" } \cup Stops
        [] current = "planning" ->
             { "executing", "waiting_approval", "planning", "completed",
               "interrupted" } \cup Stops
        [] current = "executing" ->
             { "waiting_tool", "planning", "completed", "interrupted" }
               \cup Stops
        [] current = "waiting_tool" -> AfterTool
        [] current = "waiting_approval" ->
             { "executing", "planning", "interrupted" } \cup Stops
        [] current = "interrupted" ->
             { "planning", "executing", "waiting_approval" } \cup Stops
        [] OTHER -> {} ]

\* transition() returns the target when the table allows it, else it raises.
Allowed(current, target) == target \in ALLOWED_TRANSITIONS[current]

\* The status a State gets on entering a phase; the idle phase sets none.
to_state_status ==
  [ phase \in RuntimePhase \ {"idle"} |->
      IF phase \in TerminalPhase \cup {"waiting_tool"} THEN phase ELSE "running" ]
=============================================================================
