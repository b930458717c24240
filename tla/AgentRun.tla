------------------------------ MODULE AgentRun ------------------------------
(***************************************************************************)
(* What a client may rely on when it calls RuntimeEngine.run(): the life   *)
(* of a State as its client sees it, without phases, threads, timers or    *)
(* retries.  A run begins with the State the client kept, works through    *)
(* tool calls one at a time, ends in one of three statuses, and only then  *)
(* hands the State back; or it is abandoned, and the client is left with   *)
(* what it kept.                                                           *)
(***************************************************************************)
EXTENDS Naturals, Sequences

CONSTANTS Ids, Tools

VARIABLES
  running, \* ids with a run in progress
  run,     \* id -> [status, tool_calls, observations] of its current State
  open,    \* ids whose run has a tool call waiting for its observation
  kept     \* id -> what the client holds

vars == << running, run, open, kept >>

Live     == { "running", "waiting_tool" }
Terminal == { "completed", "failed", "cancelled" }

New == [ status |-> "created", tool_calls |-> <<>>, observations |-> <<>> ]

Init ==
  /\ running = {}
  /\ open = {}
  /\ run = [id \in Ids |-> New]
  /\ kept = [id \in Ids |-> New]

Begin(id) ==
  /\ id \notin running
  /\ running' = running \cup {id}
  /\ run' = [run EXCEPT ![id] = [kept[id] EXCEPT !.status = "created"]]
  /\ UNCHANGED << open, kept >>

\* The status moves within a run; the records of its tool calls do not.
Move(id, from, to) ==
  /\ id \in running
  /\ run[id].status \in from
  /\ run' = [run EXCEPT ![id].status = to]
  /\ UNCHANGED << running, kept >>

Start(id) == Move(id, {"created"}, "running") /\ UNCHANGED open

OpenCall(id, tool) ==
  /\ id \in running \ open
  /\ run[id].status = "running"
  /\ run' = [run EXCEPT
       ![id].tool_calls = Append(@, [tool |-> tool, status |-> "pending"]),
       ![id].status = "waiting_tool"]
  /\ open' = open \cup {id}
  /\ UNCHANGED << running, kept >>

\* A call whose tool ran out of time may be tried again.
RetryCall(id) ==
  /\ id \in open
  /\ \/ Move(id, {"waiting_tool"}, "running")
     \/ Move(id, {"running"}, "waiting_tool")
  /\ UNCHANGED open

\* The open call is closed by exactly one observation, which names it.
Observe(id, success) ==
  /\ id \in open
  /\ run[id].status = "waiting_tool"
  /\ LET last == Len(run[id].tool_calls) IN
     \E next \in { "running" } \cup (IF success THEN {} ELSE { "failed" }) :
       run' = [run EXCEPT
         ![id].tool_calls[last].status = IF success THEN "completed" ELSE "failed",
         ![id].observations = Append(@, [call |-> last, success |-> success]),
         ![id].status = next]
  /\ open' = open \ {id}
  /\ UNCHANGED << running, kept >>

\* Success is reported only with no call left open.
Complete(id) ==
  /\ id \notin open
  /\ Move(id, {"running"}, "completed")
  /\ UNCHANGED open

Stop(id) ==
  /\ \E end \in { "failed", "cancelled" } : Move(id, Live, end)
  /\ open' = open \ {id}

Return(id) ==
  /\ id \in running
  /\ run[id].status \in Terminal
  /\ running' = running \ {id}
  /\ kept' = [kept EXCEPT ![id] = run[id]]
  /\ UNCHANGED << run, open >>

Abandon(id) ==
  /\ id \in running
  /\ run[id].status \in Live
  /\ running' = running \ {id}
  /\ open' = open \ {id}
  /\ run' = [run EXCEPT ![id] = kept[id]]
  /\ UNCHANGED kept

Next == \E id \in Ids :
  \/ Begin(id) \/ Start(id)
  \/ \E tool \in Tools : OpenCall(id, tool)
  \/ RetryCall(id)
  \/ \E success \in BOOLEAN : Observe(id, success)
  \/ Complete(id) \/ Stop(id) \/ Return(id) \/ Abandon(id)

Spec == Init /\ [][Next]_vars
=============================================================================
