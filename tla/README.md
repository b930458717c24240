# Formal models of jarvis_agent

TLA+ models of the agent runtime, the workflow engine, the memory stores, the
context builder, the sessions and the MCP client of this repository, the TLC
configurations that check them on small instances, and TLAPS proofs about each of
them for every instance. Line numbers refer to the repository's files; `engine.py`
alone means `runtime/engine.py`.

    cd tla
    tlc -workers 2 -config engine.cfg MCRuntimeEngine
    for c in workflow workflow_double_resume; do tlc -workers 2 -config $c.cfg MCWorkflowEngine; done
    for c in memory context_budget; do tlc -workers 2 -config $c.cfg MCContextBuilder; done
    for c in sqlite sqlite_cleanup; do tlc -workers 2 -config $c.cfg MCSession; done
    for c in mcp mcp_mixup; do tlc -workers 2 -config $c.cfg MCMcpStdio; done
    tlc -workers 2 -config parallel.cfg MCParallel
    for m in Proofs Transcripts Stops; do tlapm RuntimeEngine$m.tla; done
    for m in WorkflowEngine Parallel ContextBuilder Session McpStdio; do tlapm ${m}Proofs.tla; done

## 1. The system

jarvis_agent runs a tool-using agent. A *planner* (an LLM behind an adapter) looks
at a `State` and decides: reply, ask back, or call a tool. An *engine* carries the
decision out, appends what happened to the `State`, and asks again.

| component | state it keeps | operations | talks to |
|---|---|---|---|
| RuntimeEngine (`runtime/engine.py`) | `_phases`, `_active`, `_cancelled` per state id; the running `State`, step and retry counters as locals | `run`, `cancel`, `phase_of` | planner, tool executor, approval callback, worker threads, phase table |
| Phase table (`runtime/state_machine.py`) | none | `transition`, `to_state_status` | RuntimeEngine |
| AgentLoop (`runtime/loop.py`) | locals only | `run` | planner, executor; the engine's simpler predecessor |
| Models (`runtime/models.py`, `tools/base.py`) | immutable values | `model_copy` | everything |
| Tools (`tools/executor.py`, `tools/registry.py`) | name to tool | `register`, `execute` | engines, MCP adapter |
| Planner, LLM (`planner/`, `llm/`) | none | `plan` | context builder, HTTP |
| WorkflowGraph (`workflow/edge.py`, `node.py`) | nodes, edges, entry point | `add_node`, `add_edge`, `validate`, `run` | WorkflowEngine |
| WorkflowEngine (`workflow/engine.py`) | `_runs` (snapshots), `_interrupt_signals` | `run`, `interrupt`, `resume`, `get_run`, `replay` | nodes, edge conditions |
| Parallel nodes (`workflow/parallel.py`) | locals, a thread pool | `execute`, merge strategies | nodes, tool executor |
| InMemoryMemoryStore (`memory/store.py`) | records, (key, scope) index, lock | `write`, `read`, `get`, `search`, `delete`, `cleanup_expired`, `count` | context builder |
| SQLiteMemoryStore (`memory/sqlite.py`) | two tables, one connection, lock | the same, `save_state`, `load_state`, `close` | CLI, planner |
| Context builder (`memory/context.py`) | none | `build` | planner, stores |
| MCP clients (`integrations/mcp/`) | subprocess, request counter | `send_request`, `call_tool`, `discover_tools` | tool registry |
| CLI (`integrations/cli/app.py`) | the session's State in SQLite | `chat` with either engine | everything |
| Telemetry (`infra/telemetry.py`) | context variables, spans, counters | `bind_context`, `start_span`, `increment` | everything |

**What is hard in it, and what makes each component correct.**

* RuntimeEngine: cancel requests, the run clock, worker threads and the loop
  interleave; failures of four kinds share one retry counter; a State survives
  several runs. Correct when a transcript accounts for its tool calls, no guarded
  tool runs without approval, a stopped run stops soon, at most one worker is at
  work, a returned State is final, and every run ends.
* WorkflowEngine: a run is one mutable snapshot that `interrupt` and `resume`
  change from other threads. Correct when an interrupted and resumed run executes
  the nodes an uninterrupted one would, in its order, on one loop at a time.
* Parallel nodes: completion order, failures and timeouts of branches. Correct
  when the merged result does not depend on completion order and loses no
  branch's update.
* Stores: index and records, transaction and crash, expiry. Correct when both
  implement one map from (key, scope) to record, and a failed or interrupted
  write leaves what was there.
* Context builder: a sliding window under a token budget. Correct when the newest
  user message is always in, order is kept, and the budget holds whenever it can.
* MCP stdio client: answers are matched to requests by position only. Correct when
  each caller gets the answer to its own request.
* Sessions: load, run and save are separate steps. Correct when a turn whose answer
  was shown is not lost.

How the modules use each other (`<-` EXTENDS, `<<` is implemented by):

    StateMachine <- RuntimeEngine            AgentRun    << RuntimeEngine
    Graph <- GraphWalk, WorkflowEngine       GraphWalk   << WorkflowEngine
    MemoryRecords <- MemoryStore             MemoryStore << InMemoryStore, SQLiteStore
    MemoryRecords <- InMemoryStore <- ContextBuilder
    MemoryRecords <- SQLiteStore <- Session
    McpStdio, Parallel

`PROJECT.json` lists the hazards line by line, with the properties about each, or a
note where none is.

## 2. What is modelled

### StateMachine
`ALLOWED_TRANSITIONS`, `transition` (as the predicate `Allowed`) and
`to_state_status`, entry by entry.

### RuntimeEngine
One engine object and a process per state id: the thread that is inside `run()`
for it. The process's program counter `pc[id]` moves through the code of `run`,
`_run_loop` and `_handle_tool_call`; each action is the stretch of code between
two points at which another thread can matter. In particular each read of the
cancel flag and the clock is a step of its own (`LoopTop`, `Planned`,
`AskApproval`, `Opened`), so `cancel` (any thread, at any time, running or not),
`Clock` (the run's time is up) and `WorkerEnds` (a pool thread finishes) fall in
every gap the code leaves.

| code | model |
|---|---|
| `_phases`, `_active`, `_cancelled` | `phases`, `active`, `cancelled` |
| `state` | `st[id]`: status, messages (roles), tool_calls, observations, error |
| loop index, `retries`, `pending`, first or second attempt | `loc[id]` |
| the pool of `_call_with_timeout` | `workers[id]`, `future[id]` |
| `resume_state` and what `run()` gave back | `held[id]`, `outcome[id]` |
| `_enter`, `_fail`, `_complete` | `Enter`, `Fail`, `Complete` |
| planner call: returned, raised, ran out of time | `PlanReturns`, `PlanRaises`, `PlanTimesOut` then `PlanGivesUp` |
| approval: asked, yes, no or nobody, raised | `AskApproval`, `Approved`, `Rejected`, `ApprovalRaises` |
| tool call: recorded, checked, submitted | `OpenToolCall`, `Opened`, `SubmitTool` |
| tool call: ended, ran out of time, retried | `ToolSucceeds`, `ToolFails`, `ToolRaises`, `ToolTimesOut` then `ToolGivesUp`, `RetryTool` |
| `finally` | `Return`, `Raise` |

A timeout takes two steps because the code does: `future.result(timeout)` gives up,
but leaving the `with ThreadPoolExecutor` block waits for the worker, and only then
does the handler run (`planDraining`, `callDraining`).

Three variables are history and read by properties only: `granted` (which calls an
approver allowed), `late` (external calls begun since the run was told to stop) and
`asked` (ids with a `cancel()` since their last run ended).

Abstracted: texts, ids and time stamps; backoff sleeps; telemetry;
`planner_outputs` (appended, never read by the engine). An observation names its
call by position, which is what the registry's `tool_call_id` rewrite
(`tools/registry.py` 49) achieves. The branches for a missing `tool_call` and an
unsupported decision (engine.py 184, 196-201) are left out: `PlannerOutput`'s
validator (`planner/base.py` 38-46) rejects both before the engine sees them.

Assumed of clients: one run at a time per state id, and a client resumes with the
State its last run returned. That is how the CLI uses the engine; overlapping runs
of one id are listed as an open hazard.

### AgentRun
What a client of `run()` may rely on, without phases, threads, timers or retries:
a run begins with what the client kept, works on one tool call at a time, closes
each with one observation that names it, reports success only with no call left
open, and hands back a final State, or is abandoned and leaves the client with
what it kept. `RuntimeEngine` implements it under the mapping `Promise`, whose
`open` is read off the program counter.

### Graph, GraphWalk, WorkflowEngine
`Graph` has what `validate()` accepts and the search for the next node, which
`WorkflowGraph.run` (edge.py 110-115) and `_find_next_node` do alike: the first
edge out of the node whose condition holds; a condition may also raise. A context
is a member of a small set that the conditions tell apart. `GraphWalk` is the
walk of `WorkflowGraph.run`: a node is executed and the first edge that holds leads to
the next one, until there is none or an exception ends the walk, be it the node's, a
condition's or the one for too many steps (`Execute`, `Fail`). It adds what a human may
do while a run stands still: give it another context (`Input`), and, where the run was
paused between a node and its edge (`held`), have that edge chosen with it (`Choose`).

`WorkflowEngine` is one run id, the threads that call `run()` and `resume()` and so
drive the loop, and a thread in `interrupt()`.

| code | model |
|---|---|
| the `WorkflowSnapshot`: status, current_node, context, pending_transition_from, nodes of the history | `snap` |
| the id is in `_interrupt_signals` | `signal` |
| a thread in the loop: breakpoints, `step_count`, `current_id` | `thr[t]` |
| `interrupt`: signal, look, mark (118-123) | `Interrupt`, `Look`, `Mark` |
| `run`, `resume` | `Run`, `Resume` |
| top of the loop | `Finish`, `TooManySteps`, `PauseBefore`, `StartNode` |
| the node, and what follows it (236-274) | `NodeRaises`, `NodeReturns` |

A node is executed between two steps of its thread, so an interrupt may fall inside
it. `due`, `done` and `aborted` (an exception has left the run, and no `resume()` has
set it going again) are history. Assumed: an id is given to `run()` again only when no
loop is at work for it.

The engine implements `GraphWalk` with `at` the current node, or none once an exception
has left the run, and `held` the presence of a pending transition. One step of the
engine has no counterpart there and is named in `Walks`: `Revived`, a `resume()` of a
run that an exception has left, which `interrupt()` makes possible by marking the run
although nobody drives it. If the exception was a condition's, the step had already been
recorded (workflow/engine.py 258-261) and the current node is still the one just
executed: the revived run executes it a second time, along no edge. No run of
`WorkflowGraph` does that, and no other step of the engine leads to it.

### Parallel
One `execute()` of a `ParallelNode` or `ParallelToolNode`. `call` is the node and
its input: the way to merge, whether it has a timeout, and what each branch will
return, so that only the schedule is left open. `Begin` and `End` are the pool
(first submitted, first begun, at most `Workers` at a time); `PickUp` and `Collect`
are `as_completed`, which hands over in any order what it found complete; `TimesOut`
is its exception, after which `LeaveTimedOut` still waits for the whole pool;
`Leave` sorts and merges or raises. Values are opaque, and ids of branches distinct.
The merges are left folds of `Updated` (`dict.update`) over the branches, as in the
code, with the whole dictionary a branch returned or the one item `Item(node_id, it)`;
`Sorted` is the increasing sequence of the same branches.

### MemoryRecords, MemoryStore, InMemoryStore, ContextBuilder
`MemoryStore` is what the protocol promises: records no two of which share an id
or a slot (a key and a scope). `InMemoryStore` has the two dictionaries, `records`
and `index`, and every method; the lock makes each method one step. A record shows
how well it matches the query (`rank`) instead of its text. `BestFirst` is the set of
lists `search()` may return: best rank first, then newest; the order of records that
tie in both is left open, as neither store defines it.

`ContextBuilder` composes it with `build()`: each reference is looked up in a step
(`LookUp`), then search and composition are one (`Compose`), and other threads change
the store in between (`Others`). The conversation is a sequence of roles and tokens;
`Context` computes the sliding window: the whole history if it fits, otherwise the
newest user message and, from newest to oldest, whatever still fits. The estimator
is taken to be additive. `memory_budget_tokens` is not in the model because the code
never reads it.

### SQLiteStore, Session
`SQLiteStore` has one connection per process to one file. An operation is a sequence
of statements (`op[p].step`): `WriteDelete`, `WriteInsert`, `Commit`, and so on.
The first change opens a transaction `txn[p]`, which only one connection can have;
others wait or give up (`Busy`). A statement or a commit can fail (`InsertFails`,
`CommitFails`) and the code does not roll back, so the transaction stays open.
`Close` is `close()` and a crash alike. SQLite is external and modelled from how
the code uses it. Time stamps are compared as strings in `cleanup_expired` and
`count` (`IsoLeq`: local time first, `+00:00` sorting lowest) and as times elsewhere.

`Session` adds the turn of the chat command in each process (both engines do the
same with the State): `Load`, `RunReturns`, the statements of `save_state`, `Show`,
`End`. A State is the sequence of the turns it contains; the engine is a step that
adds one turn or raises. `log` and `shown` are history.

### McpStdio
Threads that use one `StdioMCPClient`. `process` is `_process`; `servers` are all
server processes ever spawned with their two pipes. `Call`, `Start`, `Spawn`,
`Write` or `WriteFails`, `Await`, then `ReadLine` or `Eof` follow `call_tool`,
`start` and `send_request`; `Close` and `Forget` are `close()`. A server answers in
order (`Answer`) or dies (`Crash`). A message is the number of its request.

## 3. What is checked

| run | question | result |
|---|---|---|
| `engine` | do two consecutive runs of an id keep the eight invariants, implement AgentRun and end, whatever planner, tools, approver, timers and cancels do? | holds |
| `engine_tool_retry` | are failing tools retried at most `max_retries` times? | violated |
| `engine_hang` | do timeouts keep a run from blocking? | violated |
| `workflow` | does an interrupted and resumed run walk the graph as an uninterrupted one would, until it ends or an exception leaves it, and come back? | holds |
| `workflow_double_resume` | is there one loop per run? | violated |
| `parallel` | is the result independent of the schedule, and nothing left at work? | holds |
| `memory` | is the in-memory store the map of the protocol, and are contexts complete, fresh and tight? | holds |
| `context_budget` | is `max_context_tokens` a hard limit? | violated |
| `sqlite` | do two processes, failures and crashes keep the store's promise and the session's shown turns? | holds |
| `sqlite_cleanup` | does cleanup remove what has expired, whatever the UTC offset? | violated |
| `mcp` | does one caller get its own answers, whatever dies or is closed? | holds |
| `mcp_mixup` | do two callers? | violated |

**`engine`.** `TypeOK`; `ToolCallsTraceable` (observations are in the order of
their calls, each agrees with its call, a call without one is pending, in the
running and in the kept State); `GuardedCallsGranted` (a guarded tool is called
only on a yes to that very call); `OneWorkerAtATime`; `StopsSoon` (at most two more
external calls once told to stop); `ReturnsFinalState`; `NoInvalidTransition`;
`CancelledOnRequest` (one cancel stops at most one run); `KeepsPromise` (refinement
of AgentRun); `EveryRunEnds`.

**`workflow`.** `WfTypeOK`; `ResumePoint` (a pending transition exists only while the
run stands still and can be resumed, and names the last node executed);
`NothingAfterTheEnd` (`interrupt()` may turn COMPLETED into INTERRUPTED, but no node is
executed any more; a FAILED run that was marked does go on); `OneInterruptOnePause`;
`Walks` (refinement of GraphWalk: the nodes `WorkflowGraph.run` would execute, in its
order, no edge asked twice but where a pause holds the run, `max_steps` counted over
all resumes, nothing after an exception but `Revived`); `EveryLoopEnds`.

**`parallel`.** `TypeOK` (a branch is collected once, as a result or as an error); `CompletionOrderIrrelevant` (the result is the one defined
branch by branch: last node wins, one entry per node, observations in call order);
`AllOrNothing`; `NoBranchLeft`; `ExecuteEnds`.

**`memory`.** `TypeOK`; `ReadsAgree` (read, get and count tell one story);
`StoreSpec` (refinement of MemoryStore); `LatestUserKept`;
`OverBudgetOnlyByMandatory`; `NoNeedlessDrop`; `MemoriesFresh`.

**`sqlite`.** `StoreTypeOK`; `ReadsAgree`, on what each connection sees;
`LockHeldOnlyAfterFailure`; `ActsAsStore` (the file changes as MemoryStore does,
unless an operation has failed on the committing connection); `CleanupComplete`;
`LostOnlyToOverlap` (a turn shown to its user stays, or was wiped out by one that
overlaps it); `SessionIsHistory`.

**`mcp`.** `TypeOK`; `OwnAnswer`; `InSync` (nothing is left in the pipes of a living
server between calls); `OneServer` (none is leaked); `CallsEnd`.

**Bounds.**
* Engine: one id, since ids share no entry of any dictionary. Two tools, one
  guarded. `MaxSteps = 2`: a step that fails, is rejected or calls a tool is followed
  by another one; `MaxRetries = 1`: retries both left and exhausted; `MaxRuns = 2`: the
  second run resumes what the first left, a dangling call, an old error or a stale
  cancel included. The violation runs use one run; `engine_tool_retry` needs
  `MaxSteps = 3` for two failures and the planning step after them.
* Workflow: the chat graph of app.py (160-170) with a condition that may raise.
  Three calls of `run`/`resume` and two interrupts: a pause, its resume and a new run;
  `MaxSteps = 3` is reached with and without pauses in between.
* Parallel: three branches on two workers, so that one is queued; nodes that change
  nothing, overwrite, add, or return only what they add; contexts with and without
  earlier observations and namespaces.
* Memory: two ids and two slots in every combination, expiring or not; three changes
  of the store, enough to move an id to a slot that is held and to put another back;
  all conversations of up to three messages, small and large, under a budget of six.
* SQLite: two processes, two turns, three operations; three records, of which one
  shares its id with the second and its slot with the third.
* MCP: six calls or closes, four deaths: restarts after deaths at every point of a call.

**Fairness.** `FairSpec` of the engine is weakly fair to the thread inside `run()`,
to the workers and to the approver: threads get scheduled, and planners, tools and
approvers come back. Nothing is assumed of clients, of `cancel` or of the run
clock. `EveryRunEnds` holds under these assumptions with or without timers.
`HungSpec` drops the assumption on workers and lets the timers fire instead; that
is the case timeouts exist for. The workflow engine assumes that threads run and
nodes come back, and nothing of callers or of `interrupt`; `Parallel` the same of its
main thread, its pool and its branches (no timeout ends a branch); `McpStdio` that
threads run and a living server answers. `TimesOut` of `Parallel` is not fair: a
timeout may or may not strike. The stores have no liveness property: whether a
process gets the file's lock is up to SQLite.

**Findings.**

1. `retries` is reset by every planner call that returns (engine.py 165) and a
   failed tool is always followed by one, so a failing tool is never counted twice
   and `max_retries` does not limit tool failures, as docs/04 (73-83) says it does.
   Only `max_steps` ends such a run. With `max_retries = 0` the first failure does.
2. A call that hangs blocks `run()` for ever although its timeout fires
   (engine.py 310), against docs/04 (92). The same wait is what makes
   `OneWorkerAtATime` hold: a fix has to keep the second attempt from overlapping
   the first.
3. `interrupt()` marks the snapshot INTERRUPTED at once (workflow/engine.py 121), not
   "at the next checkpoint" (117); while the loop is still inside a node, `resume()`
   accepts the run and a second loop drives the same snapshot.
4. The system message, the notice and the newest user message are added whether or
   not they fit (context.py 176-217), so `max_context_tokens` is not the hard limit
   docs/11 (87) calls it. `OverBudgetOnlyByMandatory` says how far it can be missed.
5. `cleanup_expired()` compares ISO strings (sqlite.py 221): an expiry with another
   UTC offset is hidden by `read()` and not removed.
6. `send_request` takes the next line for its answer (client.py 175), without a lock
   or a look at the id: two workers of a `ParallelToolNode`, which is documented to
   run tool calls "without race conditions", get each other's answers.

None of them breaks a property of a passing run: each is shown in the instance that
contains its cause (two callers, a zoned time stamp, a tool that keeps failing).
Further facts the models show and no document contradicts: a run cancelled during
its last step ends FAILED (`max_steps`); a `cancel()` made while no run is active
stops the next one, and an unconsumed `interrupt()` pauses the next one; a completed
workflow run can be marked INTERRUPTED and resumed, to no effect, and a failed one is
revived that way; one that the exception of an edge condition has left is even still
RUNNING, and executes the node before that edge again; the default merge
lets a branch that merely copies the context undo an earlier branch's update; a
failed operation of SQLiteMemoryStore keeps the file's write lock, and half of a
failed write is made permanent by the connection's next commit; two overlapping
turns of a session keep only the later save.

## 4. What is proved

Every invariant, every action property and every refinement of the passing runs is a
theorem: TLC shows it on the instance of the run, TLAPS for any sets of ids, nodes,
records, processes, callers and messages and any limits that satisfy the `ASSUME`s of
the modules. Those only give the constants their types, apart from `ValidGraph`, which
is what `validate()` enforces.

| module | theorem | states | if |
|---|---|---|---|
| `RuntimeEngineProofs` | `TypeCorrect` | `TypeOK` | |
| | `NoRefusedTransition` | `NoInvalidTransition` | |
| `RuntimeEngineTranscripts` | `GuardedCalls` | `GuardedCallsGranted` | |
| | `TranscriptsTraceable` | `ToolCallsTraceable` | |
| | `EngineKeepsPromise` | `KeepsPromise` (refines AgentRun) | |
| `RuntimeEngineStops` | `OneWorker` | `OneWorkerAtATime` | |
| | `StopsAfterTwoCalls` | `StopsSoon` | |
| | `CancelOnlyOnRequest` | `CancelledOnRequest` | |
| | `FinalStates` | `ReturnsFinalState` | |
| `WorkflowEngineProofs` | `WorkflowTypes` | `WfTypeOK` | `[]OneLoop` |
| | `PendingIsLast` | `ResumePoint` | `[]OneLoop` |
| | `EndIsTheEnd` | `NothingAfterTheEnd` | `[]OneLoop` |
| | `EngineWalks` | `Walks` (refines GraphWalk, `Revived` apart) | `[]OneLoop` |
| | `PausesAreAskedFor` | `OneInterruptOnePause` | |
| | `OneClientOneLoop` | `[]OneLoop` | `OneClient` |
| `ParallelProofs` | `PoolTypes` | `TypeOK` | |
| | `OrderIrrelevant` | `CompletionOrderIrrelevant` | |
| | `AllBranchesOrNone` | `AllOrNothing` | |
| | `NothingLeft` | `NoBranchLeft` | |
| `ContextBuilderProofs` | `ReadsTellOneStory` | `ReadsAgree` | |
| | `StoreImplementsProtocol` | `StoreSpec` (refines MemoryStore) | |
| | `BuilderTypes` | `TypeOK` | |
| | `QuestionIsKept` | `LatestUserKept` | |
| | `BudgetIsKept` | `OverBudgetOnlyByMandatory` | |
| | `WindowIsMaximal` | `NoNeedlessDrop` | |
| | `MemoriesAreFresh` | `MemoriesFresh` | |
| `SessionProofs` | `StoreInOrder` | `StoreTypeOK` | |
| | `LocksAreReleased` | `LockHeldOnlyAfterFailure` | |
| | `StoreImplementsProtocol` | `ActsAsStore` | `Utc` |
| | `CleanupRemovesExpired` | `CleanupComplete` | `Utc` |
| | `ReadsTellOneStory` | `ReadsAgree` | `Utc` |
| | `FileIsHistory` | `SessionIsHistory` | |
| | `ShownTurnsAreKept` | `LostOnlyToOverlap` | |
| `McpStdioProofs` | `McpTypes` | `TypeOK` | `[]OneAtATime` |
| | `AnswersOwn` | `OwnAnswer` | `[]OneAtATime` |
| | `PipesInSync` | `InSync` | `[]OneAtATime` |
| | `NoServerLeaked` | `OneServer` | `[]OneAtATime` |
| | `OneCallerAtATime` | `[]OneAtATime` | `OneCaller` |

**The hypotheses.** Each of the three names the cause of a finding, and the theorems
say that nothing else can break the property. `OneLoop` (no two threads drive one run)
is what finding 3 violates, `OneAtATime` (no two threads are inside one MCP client)
what finding 6 violates, and `Utc` (no expiry carries an offset) is what finding 5
lacks. The first two are behaviours, not bounds: they allow any number of callers that
take turns. `OneClientOneLoop` and `OneCallerAtATime` derive them where there is one
client, which is how the CLI uses the workflow engine and how the `workflow` and `mcp`
runs are set up. `Utc` holds of every time stamp the repository makes itself
(`datetime.now(UTC)`); an `expires_at` comes from clients, who may choose otherwise.

**The inductive invariants.** Hardly any of these properties is inductive as it stands.

*Runtime.* `IInv` adds two facts to `TypeOK`. `PhaseInv` says for each program counter
which phase the engine is in and that the status of the State is the one of its phase;
it makes every `Enter` ask for an edge the table has (`TransitionsTaken`). `CallInv`
says where a tool call is open and what the attempt counter is; it makes
`tool_calls[-1]` exist and keeps a third attempt out. `TranscriptInv` says of each
run that its calls, running and kept, are granted and traceable, and that between the
approver's yes and `OpenToolCall` the grant is already there for the position the call
will take. `StopInv` says which worker each program counter allows (`WorkerOK`), how
many late calls (`LateOK`: none right after a checkpoint, one until the first attempt of
a tool, two only in its second), that `asked` and the engine's own `_cancelled` agree
(`AskOK`), and that a run on its way out already has the State it will return
(`FinalOK`). What `Enter`, `Fail`, `Checkpoint` and `RetryOrFail` do are lemmas of their
own; `StepFrame`, `StepRecords` and `StepOthers` show that a step of one id leaves the
other ids alone, which is also why one id is enough for the run.

*The refinement of AgentRun.* Beyond `IInv` it needs `RaisingInv`: a run that an
exception is about to leave has not ended, so the client may still see it abandoned. By
`OtherStepsMove` every step that neither begins nor ends a run nor opens or closes a
call moves the status as `MoveOK` allows, which `MovesArePromised` maps to one step of
AgentRun or a stutter; the remaining five kinds of steps have a lemma each
(`RunIsPromised`, `ReturnIsPromised`, `RaiseIsPromised`, `OpeningIsPromised`,
`ObservingIsPromised`).

*Workflow.* `WfInv` adds to `WfTypeOK` and `ResumePoint` what ties a loop to the snapshot:
a loop at work has no pending transition, and has counted the history's steps, one more
inside a node (`AtWork`); a run reported COMPLETED stands nowhere (`AtTheEnd`); and the
history stays within `max_steps` (`WithinBudget`), which is why the count survives a
pause; and a run that an exception has left is driven by nobody and has no pending
transition (`Left`), so that only `Revived` takes it further. `ResumeWalks` and
`NodeReturnsWalks` map the two steps that move along an edge. `PausesAreAskedFor` needs none of this: `SignalOwed` says that the signal stands
exactly while an `interrupt()` is owed a pause, with any number of loops.

*Parallel.* `PoolInv` says that a future is queued, running or done, so that an empty
queue and no busy worker (`PoolShut`) mean that all are done. `MainInv` says that only
branches that return reach `results` and only branches that raise reach `errors`: once
nothing is pending, `errors` are exactly the branches that raise (`ErrorsComplete`).
`TypeOK` is inductive as it stands: that what `as_completed` picked up is not collected
yet is part of it, and keeps a branch from being collected twice. `OrderIrrelevant` has
two halves. However the branches were collected, sorting them gives the sequence
1, ..., n (`SortedPlaces`, because a strictly increasing sequence over its own places is
the identity). And a fold of updates gives each key the value of the last update that
has it (`FoldOverwrites`), of which the promises about the three merges are cases.

*In-memory store and context builder.* `StoreInv` says that records and index lead to
each other, which is the refinement mapping of `StoreSpec` as well as the reason why
`read`, `get` and `count` agree. `Finding` says that what the look-ups have found has
distinct ids and came from the store. The context is computed in one step, so what it
promises is a fact about the sliding window: `TokensAreSums` identifies the fold `Tokens`
with a sum over a set of messages, whose laws are proved first, and `SelectionHolds`
says of each point of the walk from the newest message to the oldest that the selection
has the newest user message, is within the budget or nothing but that message, and that
nothing skipped so far would still fit, because the selection only grows.

*Sessions.* `StoreInv` is about transactions: one writer at a time (`OneWriter`); an open
transaction holds the file with the whole effect of the operation up to its present
statement (`Whole`), so that a commit on a connection where nothing has failed is
one operation of MemoryStore; ids and slots are unique in every transaction (`Tables`);
and after the DELETE of a write there is room for its INSERT (`RoomToInsert`), so its own
unique index never makes a write fail. `TurnAndOp` ties the turn of a process to its
`save_state`. `History` is about turns: a loaded State is a history in the order of
loading, of saved turns only, that misses of those saved before it was loaded only what
had been lost by then (`Bases`, `KeptAtLoad`); a turn that was saved is in the file or
lost to a turn that had loaded before and saved after it (`SavedKept`); and what was
shown was saved (`ShownSaved`).

*MCP.* `IInv` says that a server never has more than one line in its two pipes
(`OneLine`), that a caller waiting for an answer has its request or its answer in the
pipes of the client's present server (`Waiting`), that nothing is in the pipes of a
living server when nobody waits (`Quiet`), and that a server is spawned or forgotten
only when none is alive (`NoneAlive`).

**Only model-checked.** The liveness properties `EveryRunEnds`, `EveryLoopEnds`, `ExecuteEnds`
and `CallsEnd`: they rest on fairness and so on ENABLED, which the proof system does not
handle. The findings are counterexamples of TLC.

**Out of reach, and what is done instead.** A recursive function or a fold can only be
reasoned about by induction over its argument, and the induction theorems of the library
take an operator as a parameter, which no installed prover instantiates. Where
the theorems need such a fact (the fold of the merges, the sums of tokens, the sliding
window, the choice of the edge) it is proved by a least counterexample, from the
well-foundedness of `<`; that the recursive function exists is proved on the way
(`FoldsExist`, `PicksExist`). `SelectSeq`, `SortSeq`, `:>` and `@@` are opaque to
the provers; the modules use functions and `CHOOSE` in their place.

## 5. Not modelled

* AgentLoop (`runtime/loop.py`): the sequential predecessor of RuntimeEngine, without
  retries, timeouts, cancellation or threads; only its tests call it.
* Telemetry: log lines, counters and spans; no behaviour of the program depends on
  them. What can go wrong there (a nested run clears the outer run's context) is
  listed as a hazard without a property.
* LLM adapters, configuration, the parsing of planner replies, the options of the
  command line: input and output without state.
* InMemoryMCPClient and the MCP tool adapter: look-ups in a dictionary. Of
  StdioMCPClient, `discover_tools` and the resource calls send one request each
  through the `send_request` that is modelled.
* Overlapping runs of one state id or one workflow run id: the callers in the
  repository never start any.
* Objects shared by the shallow copies of parallel branches, duplicate ids of
  branches (the order of completion decides which one wins), the count
  `cleanup_expired` returns (another process may change what it counted), full pipes
  of a server.

## 6. Plan

1. The runtime engine, its runs and proofs (done).
2. Workflow engine, parallel nodes, stores, context builder, sessions, MCP client:
   modules and runs (done).
3. Proofs: each safety property and refinement of the passing runs (done).
4. Left to prove: that the hypotheses are needed no further than the findings show,
   that is, which parts of `WfInv` and of McpStdio's `IInv` survive a second caller; that
   a record found by a look-up is still live when the context is composed, or was
   changed by another thread since.
