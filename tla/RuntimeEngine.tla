---------------------------- MODULE RuntimeEngine ----------------------------
(***************************************************************************)
(* RuntimeEngine of runtime/engine.py: one engine object whose run() is    *)
(* called on the threads of its clients and whose cancel() any thread may  *)
(* call at any moment.                                                     *)
(*                                                                         *)
(* A run is a process per state id: its client calls run() for an id again *)
(* only after the previous call has come back (resume_state is what that   *)
(* call returned).  A step of a process reads the shared cancel flag or    *)
(* enters a phase at most once, so cancel(), the run clock and the worker  *)
(* threads of _call_with_timeout interleave wherever the code lets them.   *)
(*                                                                         *)
(* Abstracted: the texts of messages and errors, time stamps, backoff      *)
(* delays, telemetry, and planner_outputs (appended, never read).  REPLY   *)
(* and CLARIFY differ in text only ("answer"), and so do a planner output  *)
(* that fails validation and a planner that raises ("raises").             *)
(***************************************************************************)
EXTENDS Naturals, Sequences, FiniteSets, StateMachine

CONSTANTS
  Ids,                \* state ids
  Tools,              \* tool names a planner may ask for
  RequireApprovalFor, \* require_approval_for
  HasApprovalCallback,\* approval_callback is not None
  TimedCalls,         \* which of llm_timeout, tool_timeout are not None
  HasRunTimeout,      \* run_timeout is not None
  MaxSteps,           \* max_steps
  MaxRetries,         \* max_retries
  MaxRuns,            \* bound: calls of run() per id
  NoTool

ASSUME EngineAssumption ==
  /\ RequireApprovalFor \subseteq Tools
  /\ NoTool \notin Tools
  /\ TimedCalls \subseteq { "plan", "tool" }
  /\ HasApprovalCallback \in BOOLEAN
  /\ HasRunTimeout \in BOOLEAN
  /\ MaxSteps \in Nat
  /\ MaxRetries \in Nat
  /\ MaxRuns \in Nat

VARIABLES
  \* the engine's dictionaries
  phases,     \* _phases; "none" where the id has no entry
  active,     \* keys of _active (its values are never read)
  cancelled,  \* _cancelled
  \* the locals of run(), _run_loop() and _handle_tool_call()
  pc,
  st,         \* state
  loc,        \* step (iterations finished), retries, pending (tool name of the
              \* pending call), attempt (how often it has been submitted)
  \* worker threads, clock and clients
  workers,    \* jobs whose worker thread has not finished
  future,     \* what the awaited call has produced
  timedOut,   \* run_timeout has elapsed since `started`
  held,       \* the State the client holds: what the last run returned
  runs,       \* calls of run() made
  outcome,    \* how the last call of run() ended
  \* history
  granted,    \* tool calls (by position) that an approver allowed
  late,       \* external calls begun since this run was told to stop
  asked       \* ids with a cancel() since their last run ended

callVars   == << workers, future >>
clientVars == << held, runs, outcome >>
\* What the thread of a run leaves alone while the run lasts.
outside    == << active, cancelled, asked, granted, timedOut, clientVars >>
vars       == << phases, pc, st, loc, callVars, late, outside >>

-----------------------------------------------------------------------------
(* Data *)

ToolCallStatus == { "pending", "completed", "failed" }
Error == { "none", "max_steps", "run_timeout", "planner", "llm_timeout",
           "tool_timeout", "tool_failed" }

ToolCall    == [ tool : Tools, status : ToolCallStatus ]
\* tool_call_id is the position of the call in tool_calls.
Observation == [ call : Nat, success : BOOLEAN ]
State == [ status       : StateStatus,
           messages     : Seq({ "user", "assistant", "tool" }),
           tool_calls   : Seq(ToolCall),
           observations : Seq(Observation),
           error        : Error ]

NewState == [ status |-> "created", messages |-> <<>>, tool_calls |-> <<>>,
              observations |-> <<>>, error |-> "none" ]

Locals == [ step : Nat, retries : Nat, attempt : 0..2,
            pending : Tools \cup {NoTool} ]
NewLocals == [ step |-> 0, retries |-> 0, attempt |-> 0, pending |-> NoTool ]

\* The locals for the next iteration of the loop.
NextStep(l, retries) == [ step |-> l.step + 1, retries |-> retries,
                          attempt |-> l.attempt, pending |-> l.pending ]

PlanJob    == [ kind |-> "plan", attempt |-> 1 ]
ToolJob(n) == [ kind |-> "tool", attempt |-> n ]
Job        == { PlanJob, ToolJob(1), ToolJob(2) }

\* A call that raises TimeoutError itself ends like one that ran out of time.
PlanOutcome == { "answer", "tool_call", "raises", "timeout" }
ToolOutcome == { "success", "failure", "raises", "timeout" }
Result      == { "none", "pending" } \cup PlanOutcome \cup ToolOutcome
OutcomeOf(job) == IF job.kind = "plan" THEN PlanOutcome ELSE ToolOutcome

Label ==
  { "idle", "starting", "loop", "plan", "planning", "planDraining", "planned",
    "dispatch", "replying", "approval", "approving", "executing", "opened",
    "invoke", "calling", "callDraining", "retrying",
    "returning", "raising", "invalid" }

AddMessage(s, role) == [ s EXCEPT !.messages = Append(@, role) ]

-----------------------------------------------------------------------------
(* Helpers of the engine *)

Goto(id, label) == pc' = [pc EXCEPT ![id] = label]

\* _is_cancelled, _run_timed_out
IsCancelled(id) == id \in cancelled
RunTimedOut(id) == HasRunTimeout /\ timedOut[id]
ToldToStop(id)  == IsCancelled(id) \/ RunTimedOut(id)

\* _enter: the table decides, except that a live run may always be cancelled.
MayEnter(current, target) ==
  \/ Allowed(current, target)
  \/ target = "cancelled" /\ current \notin TerminalPhase

\* _enter(s, target), after which the thread goes on at `label`; a refused
\* transition raises InvalidTransitionError out of run().
Enter(id, s, target, label) ==
  IF MayEnter(phases[id], target)
  THEN /\ phases' = [phases EXCEPT ![id] = target]
       /\ st' = [st EXCEPT ![id] = [s EXCEPT !.status = to_state_status[target]]]
       /\ Goto(id, label)
  ELSE /\ st' = [st EXCEPT ![id] = s]
       /\ Goto(id, "invalid")
       /\ UNCHANGED phases

Fail(id, s, error) ==
  Enter(id, [s EXCEPT !.error = error], "failed", "returning")

\* Seeded fault: the checks are forgotten.
UncheckedPoint(id, label) == Goto(id, label) /\ UNCHANGED << phases, st >>

\* The pair of checks the loop makes between its external calls.
Checkpoint(id, label) ==
  \/ /\ IsCancelled(id)
     /\ Enter(id, st[id], "cancelled", "returning")
  \/ /\ ~IsCancelled(id)
     /\ RunTimedOut(id)
     /\ Fail(id, st[id], "run_timeout")
  \/ /\ ~ToldToStop(id)
     /\ Goto(id, label)
     /\ UNCHANGED << phases, st >>

\* Seeded fault: a failure that counts neither as a retry nor as a step.
RetryForever(id, s, error) ==
  Enter(id, s, "planning", "loop") /\ UNCHANGED loc

\* One more failure: give up with `error`, or plan again.
RetryOrFail(id, s, error) ==
  IF loc[id].retries + 1 > MaxRetries
  THEN /\ Fail(id, s, error)
       /\ loc' = [loc EXCEPT ![id].retries = @ + 1]
  ELSE /\ Enter(id, s, "planning", "loop")
       /\ loc' = [loc EXCEPT ![id] = NextStep(@, @.retries + 1)]

\* Hand a job to a fresh worker thread (or run it on this thread).
Submit(id, job, label) ==
  /\ workers' = [workers EXCEPT ![id] = @ \cup {job}]
  /\ future' = [future EXCEPT ![id] = "pending"]
  /\ Goto(id, label)

\* The thread is about to call out: remember whether it should have stopped.
CountLate(id) ==
  late' = [late EXCEPT ![id] = IF ToldToStop(id) THEN @ + 1 ELSE @]

-----------------------------------------------------------------------------
(* run() *)

\* The client passes the State it holds as resume_state, with a new message.
Run(id) ==
  /\ pc[id] = "idle"
  /\ runs[id] < MaxRuns
  /\ runs' = [runs EXCEPT ![id] = @ + 1]
  /\ st' = [st EXCEPT ![id] =
              [AddMessage(held[id], "user") EXCEPT !.status = "created"]]
  /\ active' = active \cup {id}
  /\ phases' = [phases EXCEPT ![id] = "idle"]
  /\ timedOut' = [timedOut EXCEPT ![id] = FALSE]
  /\ loc' = [loc EXCEPT ![id] = NewLocals]
  /\ late' = [late EXCEPT ![id] = 0]
  /\ Goto(id, "starting")
  /\ UNCHANGED << cancelled, asked, granted, held, outcome, callVars >>

Start(id) ==
  /\ pc[id] = "starting"
  /\ Enter(id, st[id], "planning", "loop")
  /\ UNCHANGED << late, loc, callVars, outside >>

\* Seeded fault: the finally block leaves the cancel request behind.
ReturnKeepingRequest(id) ==
  /\ pc[id] = "returning"
  /\ active' = active \ {id}
  /\ asked' = asked \ {id}
  /\ held' = [held EXCEPT ![id] = st[id]]
  /\ outcome' = [outcome EXCEPT ![id] = "returned"]
  /\ Goto(id, "idle")
  /\ UNCHANGED << phases, cancelled, granted, st, late, timedOut, runs,
                  loc, callVars >>

\* `return final_state` and the finally block.
Return(id) ==
  /\ pc[id] = "returning"
  /\ active' = active \ {id}
  /\ cancelled' = cancelled \ {id}
  /\ asked' = asked \ {id}
  /\ held' = [held EXCEPT ![id] = st[id]]
  /\ outcome' = [outcome EXCEPT ![id] = "returned"]
  /\ Goto(id, "idle")
  /\ UNCHANGED << phases, granted, st, late, timedOut, runs, loc, callVars >>

\* An exception leaves run() through the finally block: the client never gets
\* the State of this run.  (The calls it opened are lost with it, and so is
\* what was granted to them: the model reuses their positions.)
Raise(id) ==
  /\ pc[id] \in { "raising", "invalid" }
  /\ active' = active \ {id}
  /\ cancelled' = cancelled \ {id}
  /\ asked' = asked \ {id}
  /\ st' = [st EXCEPT ![id] = held[id]]
  /\ granted' = [granted EXCEPT ![id] = @ \cap 1..Len(held[id].tool_calls)]
  /\ outcome' = [outcome EXCEPT ![id] = "raised"]
  /\ Goto(id, "idle")
  /\ UNCHANGED << phases, late, timedOut, held, runs, loc, callVars >>

-----------------------------------------------------------------------------
(* _run_loop: planning *)

LoopTop(id) ==
  /\ pc[id] = "loop"
  /\ IF loc[id].step >= MaxSteps
     THEN Fail(id, st[id], "max_steps")
     ELSE Checkpoint(id, "plan")
  /\ UNCHANGED << late, loc, callVars, outside >>

SubmitPlan(id) ==
  /\ pc[id] = "plan"
  /\ Submit(id, PlanJob, "planning")
  /\ CountLate(id)
  /\ UNCHANGED << phases, st, loc, outside >>

PlanReturns(id) ==
  /\ pc[id] = "planning"
  /\ future[id] \in { "answer", "tool_call" }
  /\ loc' = [loc EXCEPT ![id].retries = 0]
  /\ Goto(id, "planned")
  /\ UNCHANGED << phases, st, late, callVars, outside >>

PlanRaises(id) ==
  /\ pc[id] = "planning"
  /\ future[id] = "raises"
  /\ RetryOrFail(id, st[id], "planner")
  /\ future' = [future EXCEPT ![id] = "none"]
  /\ UNCHANGED << workers, late, outside >>

\* future.result(timeout) gives up; leaving the `with` block then waits for
\* the worker thread all the same.
PlanTimesOut(id) ==
  /\ pc[id] = "planning"
  /\ "plan" \in TimedCalls
  /\ future[id] = "pending"
  /\ Goto(id, "planDraining")
  /\ UNCHANGED << phases, st, late, loc, callVars, outside >>

\* `except TimeoutError`, once no worker is left (or from the call itself).
PlanGivesUp(id) ==
  /\ \/ pc[id] = "planDraining" /\ workers[id] = {}
     \/ pc[id] = "planning" /\ future[id] = "timeout"
  /\ Fail(id, st[id], "llm_timeout")
  /\ future' = [future EXCEPT ![id] = "none"]
  /\ UNCHANGED << workers, late, loc, outside >>

Planned(id) ==
  /\ pc[id] = "planned"
  /\ Checkpoint(id, "dispatch")
  /\ UNCHANGED << late, loc, callVars, outside >>

\* REPLY or CLARIFY: through EXECUTING to _complete.
Answer(id) ==
  /\ pc[id] = "dispatch"
  /\ future[id] = "answer"
  /\ Enter(id, st[id], "executing", "replying")
  /\ future' = [future EXCEPT ![id] = "none"]
  /\ UNCHANGED << workers, late, loc, outside >>

\* Seeded fault: the reply is not added to the messages.
CompleteSilently(id) ==
  /\ pc[id] = "replying"
  /\ Enter(id, st[id], "completed", "returning")
  /\ UNCHANGED << late, loc, callVars, outside >>

Complete(id) ==
  /\ pc[id] = "replying"
  /\ Enter(id, AddMessage(st[id], "assistant"), "completed", "returning")
  /\ UNCHANGED << late, loc, callVars, outside >>

-----------------------------------------------------------------------------
(* _handle_tool_call *)

NeedsApproval(tool) == tool \in RequireApprovalFor

\* TOOL_CALL for some tool: ask for approval, or go and execute.
ToolCalled(id) ==
  /\ pc[id] = "dispatch"
  /\ future[id] = "tool_call"
  /\ \E tool \in Tools :
       /\ loc' = [loc EXCEPT ![id].pending = tool]
       /\ IF NeedsApproval(tool)
          THEN Enter(id, st[id], "waiting_approval", "approval")
          ELSE Enter(id, st[id], "executing", "executing")
  /\ future' = [future EXCEPT ![id] = "none"]
  /\ UNCHANGED << workers, late, outside >>

\* Cancellation is looked at before the approver is asked; the clock is not.
AskApproval(id) ==
  /\ pc[id] = "approval"
  /\ IF IsCancelled(id)
     THEN Enter(id, st[id], "cancelled", "returning") /\ UNCHANGED late
     ELSE /\ Goto(id, "approving")
          /\ UNCHANGED << phases, st >>
          /\ IF HasApprovalCallback THEN CountLate(id) ELSE UNCHANGED late
  /\ UNCHANGED << loc, callVars, outside >>

Approved(id) ==
  /\ pc[id] = "approving"
  /\ HasApprovalCallback
  /\ granted' = [granted EXCEPT ![id] = @ \cup {Len(st[id].tool_calls) + 1}]
  /\ Enter(id, st[id], "executing", "executing")
  /\ UNCHANGED << active, cancelled, asked, late, timedOut, loc, callVars,
                  clientVars >>

\* Seeded fault: a rejection is noted, but does not skip the execution.
RejectedFallsThrough(id) ==
  /\ pc[id] = "approving"
  /\ Enter(id, AddMessage(st[id], "assistant"), "executing", "executing")
  /\ UNCHANGED << late, loc, callVars, outside >>

\* The answer was no, or there is nobody to ask.
Rejected(id) ==
  /\ pc[id] = "approving"
  /\ Enter(id, AddMessage(st[id], "assistant"), "planning", "loop")
  /\ loc' = [loc EXCEPT ![id].step = @ + 1]
  /\ UNCHANGED << late, callVars, outside >>

ApprovalRaises(id) ==
  /\ pc[id] = "approving"
  /\ HasApprovalCallback
  /\ Goto(id, "raising")
  /\ UNCHANGED << phases, st, late, loc, callVars, outside >>

\* Record the pending call and wait for its tool.
OpenToolCall(id) ==
  /\ pc[id] = "executing"
  /\ Enter(id, [st[id] EXCEPT !.tool_calls =
                  Append(@, [tool |-> loc[id].pending, status |-> "pending"])],
           "waiting_tool", "opened")
  /\ loc' = [loc EXCEPT ![id].attempt = 1]
  /\ UNCHANGED << late, callVars, outside >>

\* Seeded fault: no checks once the call is recorded.
OpenedUnchecked(id) ==
  /\ pc[id] = "opened"
  /\ UncheckedPoint(id, "invoke")
  /\ UNCHANGED << late, loc, callVars, outside >>

Opened(id) ==
  /\ pc[id] = "opened"
  /\ Checkpoint(id, "invoke")
  /\ UNCHANGED << late, loc, callVars, outside >>

SubmitTool(id) ==
  /\ pc[id] = "invoke"
  /\ Submit(id, ToolJob(loc[id].attempt), "calling")
  /\ CountLate(id)
  /\ UNCHANGED << phases, st, loc, outside >>

\* Seeded fault: the finished call is appended, not put in the pending one's place.
ObservedAppended(s, success) ==
  [ s EXCEPT
      !.tool_calls =
          Append(@, [ s.tool_calls[Len(s.tool_calls)] EXCEPT
                        !.status = IF success THEN "completed" ELSE "failed" ]),
      !.observations =
          Append(@, [call |-> Len(s.tool_calls), success |-> success]),
      !.messages = Append(@, "tool") ]

\* The State with the observation of its last tool call.
Observed(s, success) ==
  [ s EXCEPT
      !.tool_calls[Len(s.tool_calls)].status =
          IF success THEN "completed" ELSE "failed",
      !.observations =
          Append(@, [call |-> Len(s.tool_calls), success |-> success]),
      !.messages = Append(@, "tool") ]

ToolSucceeds(id) ==
  /\ pc[id] = "calling"
  /\ future[id] = "success"
  /\ Enter(id, Observed(st[id], TRUE), "planning", "loop")
  /\ loc' = [loc EXCEPT ![id] = NextStep(@, 0)]
  /\ future' = [future EXCEPT ![id] = "none"]
  /\ UNCHANGED << workers, late, outside >>

ToolFails(id) ==
  /\ pc[id] = "calling"
  /\ future[id] = "failure"
  /\ RetryOrFail(id, Observed(st[id], FALSE), "tool_failed")
  /\ future' = [future EXCEPT ![id] = "none"]
  /\ UNCHANGED << workers, late, outside >>

\* Nothing catches what a tool raises (nor an observation that json.dumps
\* cannot write).
ToolRaises(id) ==
  /\ pc[id] = "calling"
  /\ future[id] = "raises"
  /\ Goto(id, "raising")
  /\ future' = [future EXCEPT ![id] = "none"]
  /\ UNCHANGED << phases, st, workers, late, loc, outside >>

ToolTimesOut(id) ==
  /\ pc[id] = "calling"
  /\ "tool" \in TimedCalls
  /\ future[id] = "pending"
  /\ Goto(id, "callDraining")
  /\ UNCHANGED << phases, st, late, loc, callVars, outside >>

\* Seeded fault: the pool is left without waiting for its worker.
ToolRanOutUnjoined(id) ==
  \/ pc[id] = "callDraining"
  \/ pc[id] = "calling" /\ future[id] = "timeout"

\* `except TimeoutError`, once no worker is left (or from the call itself).
ToolRanOut(id) ==
  \/ pc[id] = "callDraining" /\ workers[id] = {}
  \/ pc[id] = "calling" /\ future[id] = "timeout"

\* Seeded fault: only the retry counter is looked at.
LastAttemptByRetries(id) == loc[id].retries > MaxRetries

LastAttempt(id) == loc[id].attempt > 1 \/ loc[id].retries + 1 > MaxRetries

\* A timeout of the first attempt is retried once, if retries are left.
ToolGivesUp(id) ==
  /\ ToolRanOut(id)
  /\ loc' = [loc EXCEPT ![id].retries = IF loc[id].attempt = 1 THEN @ + 1 ELSE @]
  /\ IF LastAttempt(id)
     THEN Fail(id, st[id], "tool_timeout")
     ELSE Enter(id, st[id], "executing", "retrying")
  /\ future' = [future EXCEPT ![id] = "none"]
  /\ UNCHANGED << workers, late, outside >>

\* Seeded fault: the retried call is recorded a second time.
RetryToolReopening(id) ==
  /\ pc[id] = "retrying"
  /\ Enter(id, [st[id] EXCEPT !.tool_calls =
                  Append(@, [tool |-> loc[id].pending, status |-> "pending"])],
           "waiting_tool", "invoke")
  /\ loc' = [loc EXCEPT ![id].attempt = @ + 1]
  /\ UNCHANGED << late, callVars, outside >>

\* No checkpoint lies between the two attempts.
RetryTool(id) ==
  /\ pc[id] = "retrying"
  /\ Enter(id, st[id], "waiting_tool", "invoke")
  /\ loc' = [loc EXCEPT ![id].attempt = @ + 1]
  /\ UNCHANGED << late, callVars, outside >>

-----------------------------------------------------------------------------
(* The environment *)

\* cancel(), from any thread, whether or not the id is running.
cancel(id) ==
  /\ cancelled' = cancelled \cup {id}
  /\ asked' = asked \cup {id}
  /\ UNCHANGED << phases, active, granted, pc, st, late, timedOut, loc,
                  callVars, clientVars >>

Clock(id) ==
  /\ HasRunTimeout
  /\ pc[id] # "idle"
  /\ timedOut' = [timedOut EXCEPT ![id] = TRUE]
  /\ UNCHANGED << phases, active, cancelled, asked, granted, pc, st, late,
                  loc, callVars, clientVars >>

\* The job whose future the thread of the run is waiting for.
Awaits(id, job) ==
  \/ pc[id] = "planning" /\ job = PlanJob
  \/ pc[id] = "calling"  /\ job = ToolJob(loc[id].attempt)

\* A worker ends; its result is dropped when nobody waits for it any more.
WorkerEnds(id) ==
  \E job \in workers[id] :
    /\ workers' = [workers EXCEPT ![id] = @ \ {job}]
    /\ IF Awaits(id, job)
       THEN \E o \in OutcomeOf(job) : future' = [future EXCEPT ![id] = o]
       ELSE UNCHANGED future
    /\ UNCHANGED << phases, pc, st, late, loc, outside >>

-----------------------------------------------------------------------------
(* The specification *)

Init ==
  /\ phases = [id \in Ids |-> "none"]
  /\ active = {}
  /\ cancelled = {}
  /\ pc = [id \in Ids |-> "idle"]
  /\ st = [id \in Ids |-> NewState]
  /\ loc = [id \in Ids |-> NewLocals]
  /\ workers = [id \in Ids |-> {}]
  /\ future = [id \in Ids |-> "none"]
  /\ timedOut = [id \in Ids |-> FALSE]
  /\ held = [id \in Ids |-> NewState]
  /\ runs = [id \in Ids |-> 0]
  /\ outcome = [id \in Ids |-> "none"]
  /\ granted = [id \in Ids |-> {}]
  /\ late = [id \in Ids |-> 0]
  /\ asked = {}

\* What the thread inside run() does next.
Thread(id) ==
  \/ Start(id) \/ Return(id) \/ Raise(id)
  \/ LoopTop(id) \/ SubmitPlan(id)
  \/ PlanReturns(id) \/ PlanRaises(id) \/ PlanGivesUp(id)
  \/ Planned(id) \/ Answer(id) \/ Complete(id)
  \/ ToolCalled(id) \/ AskApproval(id)
  \/ OpenToolCall(id) \/ Opened(id) \/ SubmitTool(id)
  \/ ToolSucceeds(id) \/ ToolFails(id) \/ ToolRaises(id)
  \/ ToolGivesUp(id) \/ RetryTool(id)

TimesOut(id)  == PlanTimesOut(id) \/ ToolTimesOut(id)
Approver(id)  == Approved(id) \/ Rejected(id) \/ ApprovalRaises(id)

Next == \E id \in Ids :
  \/ Run(id) \/ cancel(id) \/ Clock(id)
  \/ Thread(id) \/ TimesOut(id) \/ Approver(id) \/ WorkerEnds(id)

Spec == Init /\ [][Next]_vars

\* The threads of the engine are scheduled; tools, planners and approvers come
\* back in the end.  Clients and timers owe nothing.
FairSpec == Spec /\ \A id \in Ids :
  WF_vars(Thread(id)) /\ WF_vars(WorkerEnds(id)) /\ WF_vars(Approver(id))

\* The timers go off, but a planner or a tool may hang.
HungSpec == Spec /\ \A id \in Ids :
  WF_vars(Thread(id)) /\ WF_vars(TimesOut(id)) /\ WF_vars(Approver(id))

-----------------------------------------------------------------------------
(* Properties *)

ThreadTypeOK ==
  /\ phases \in [Ids -> RuntimePhase \cup {"none"}]
  /\ pc \in [Ids -> Label]
  /\ st \in [Ids -> State]
  /\ loc \in [Ids -> Locals]
  /\ workers \in [Ids -> SUBSET Job]
  /\ future \in [Ids -> Result]
  /\ late \in [Ids -> Nat]

OutsideTypeOK ==
  /\ active \subseteq Ids /\ cancelled \subseteq Ids /\ asked \subseteq Ids
  /\ granted \in [Ids -> SUBSET Nat]
  /\ timedOut \in [Ids -> BOOLEAN]
  /\ held \in [Ids -> State]
  /\ runs \in [Ids -> 0..MaxRuns]
  /\ outcome \in [Ids -> {"none", "returned", "raised"}]

\* Every variable keeps its type.
TypeOK == ThreadTypeOK /\ OutsideTypeOK

\* A transcript accounts for its tool calls (engine.py 252-268): observations
\* come in the order of their calls, each names a call closed with the same
\* verdict, and a call without an observation is still marked pending - after
\* retries, timeouts, cancellations and resumed runs alike.
Traceable(s) ==
  /\ \A k \in 1..Len(s.observations) :
       LET o == s.observations[k] IN
       /\ o.call \in 1..Len(s.tool_calls)
       /\ s.tool_calls[o.call].status =
            IF o.success THEN "completed" ELSE "failed"
  /\ \A j, k \in 1..Len(s.observations) :
       j < k => s.observations[j].call < s.observations[k].call
  /\ \A i \in 1..Len(s.tool_calls) :
       s.tool_calls[i].status # "pending" =>
         \E k \in 1..Len(s.observations) : s.observations[k].call = i

ToolCallsTraceable == \A id \in Ids : Traceable(st[id]) /\ Traceable(held[id])

\* No tool that needs approval is ever called without an approver's yes to
\* that very call (engine.py 203-223): not on a later try, not in a later run.
GuardedCallsGranted ==
  \A id \in Ids : \A i \in 1..Len(st[id].tool_calls) :
    NeedsApproval(st[id].tool_calls[i].tool) => i \in granted[id]

\* Leaving the pool waits for its worker (engine.py 310-315): the second
\* attempt of a tool never overlaps the first, and no tool or planner is still
\* at work when the engine does anything else or after run() has come back.
OneWorkerAtATime ==
  \A id \in Ids :
    /\ Cardinality(workers[id]) <= 1
    /\ workers[id] # {} =>
         pc[id] \in { "planning", "planDraining", "calling", "callDraining" }

\* Once cancel() was called or the run's time is up, the run begins at most two
\* more external calls: the one it was about to make when it was told, and the
\* second attempt of a tool, which no checkpoint precedes (engine.py 232-248).
StopsSoon == \A id \in Ids : late[id] <= 2

\* A State that run() returned is final and agrees with phase_of(); a failed
\* one says why and a completed one ends with the reply; the engine keeps
\* nothing of the run but its phase (engine.py 126-128, 357-374).
ReturnsFinalState ==
  \A id \in Ids : pc[id] = "idle" /\ outcome[id] = "returned" =>
    /\ held[id].status \in TerminalPhase
    /\ phases[id] = held[id].status
    /\ id \notin active
    /\ held[id].status = "failed" => held[id].error # "none"
    /\ held[id].status = "completed" =>
         /\ held[id].messages # <<>>
         /\ held[id].messages[Len(held[id].messages)] = "assistant"

\* Whatever the planner, the tools, the approver and the timers do, the engine
\* never asks the phase table for a step it refuses (engine.py 333-346): no run
\* dies of an InvalidTransitionError.
NoInvalidTransition == \A id \in Ids : pc[id] # "invalid"

\* One cancel() stops at most one run: a run ends CANCELLED only on a request
\* made since the id's previous run ended (engine.py 126-132).
CancelledOnRequest ==
  \A id \in Ids :
    pc[id] = "returning" /\ st[id].status = "cancelled" => id \in asked

\* The engine keeps the promise AgentRun states to the clients of run().
Promise == INSTANCE AgentRun WITH
  running <- { id \in Ids : pc[id] # "idle" },
  run  <- [ id \in Ids |-> [ status       |-> st[id].status,
                             tool_calls   |-> st[id].tool_calls,
                             observations |-> st[id].observations ] ],
  kept <- [ id \in Ids |-> [ status       |-> held[id].status,
                             tool_calls   |-> held[id].tool_calls,
                             observations |-> held[id].observations ] ],
  open <- { id \in Ids :
              \/ pc[id] \in { "opened", "invoke", "calling", "callDraining",
                              "retrying" }
              \/ pc[id] = "raising" /\ st[id].status = "waiting_tool" }

KeepsPromise == Promise!Spec

\* Every run comes back, by returning or by raising, provided that every planner,
\* tool and approver it calls comes back (engine.py 137-186).
EveryRunEnds == \A id \in Ids : pc[id] # "idle" ~> pc[id] = "idle"

\* docs/04-runtime-state-machine.md 71-83: a failed tool is retried a limited
\* number of times, max_retries.  (It is not: see the README.)
ToolFailuresBounded ==
  \A id \in Ids :
    LET obs == st[id].observations
        new == Len(obs) - Len(held[id].observations)
    IN  pc[id] = "planning" /\ new > MaxRetries =>
          \E k \in Len(obs) - MaxRetries .. Len(obs) : obs[k].success

\* docs/04-runtime-state-machine.md 90-98: timeouts keep the runtime from
\* blocking for ever.  (They do not when the call hangs: see the README.)
TimeoutsUnblock ==
  \A id \in Ids :
    pc[id] \in { "planning", "calling" } ~>
      pc[id] \notin { "planning", "planDraining", "calling", "callDraining" }
=============================================================================
