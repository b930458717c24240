------------------------- MODULE RuntimeEngineProofs -------------------------
(***************************************************************************)
(* Proofs about RuntimeEngine, for every set of ids and tools and every    *)
(* value of the limits.                                                    *)
(***************************************************************************)
EXTENDS RuntimeEngine, SequenceTheorems, TLAPS

-----------------------------------------------------------------------------
(* The inductive invariant *)

Planning == { "loop", "plan", "planning", "planDraining", "planned", "dispatch" }
Calling  == { "opened", "invoke", "calling", "callDraining" }

\* Where the thread is decides the phase and the status.
PhaseOK(id) ==
  /\ pc[id] = "starting" => phases[id] = "idle" /\ st[id].status = "created"
  /\ pc[id] \in Planning =>
       phases[id] = "planning" /\ st[id].status = "running"
  /\ pc[id] \in { "replying", "executing", "retrying" } =>
       phases[id] = "executing" /\ st[id].status = "running"
  /\ pc[id] \in { "approval", "approving" } =>
       phases[id] = "waiting_approval" /\ st[id].status = "running"
  /\ pc[id] \in Calling =>
       phases[id] = "waiting_tool" /\ st[id].status = "waiting_tool"
  /\ pc[id] = "returning" =>
       phases[id] \in TerminalPhase /\ st[id].status = phases[id]
  /\ pc[id] # "invalid"

\* The pending call, and the record it has while its tool is being called.
OpenCall(s) ==
  /\ s.tool_calls # <<>>
  /\ s.tool_calls[Len(s.tool_calls)].status = "pending"

CallOK(id) ==
  /\ pc[id] \in { "approval", "approving", "executing" } =>
       loc[id].pending \in Tools
  /\ pc[id] \in Calling \cup { "retrying" } => OpenCall(st[id])
  /\ pc[id] \in { "opened", "retrying" } => loc[id].attempt = 1
  /\ pc[id] \in Calling => loc[id].attempt \in 1..2

PhaseInv == \A id \in Ids : PhaseOK(id)
CallInv  == \A id \in Ids : CallOK(id)

IInv == TypeOK /\ PhaseInv /\ CallInv

-----------------------------------------------------------------------------
(* The phase table *)

\* Every transition the engine asks for is in the table.
LEMMA TransitionsTaken ==
  /\ MayEnter("idle", "planning")
  /\ \A target \in { "planning", "executing", "waiting_approval", "cancelled",
                     "failed" } : MayEnter("planning", target)
  /\ \A target \in { "waiting_tool", "completed" } : MayEnter("executing", target)
  /\ \A target \in { "executing", "planning", "cancelled" } :
       MayEnter("waiting_approval", target)
  /\ \A target \in { "executing", "planning", "cancelled", "failed" } :
       MayEnter("waiting_tool", target)
BY DEF MayEnter, Allowed, ALLOWED_TRANSITIONS, AfterTool, RuntimePhase, Stops,
       TerminalPhase

\* The status of each phase the engine enters.
LEMMA StatusOfPhase ==
  /\ \A phase \in { "planning", "executing", "waiting_approval" } :
       to_state_status[phase] = "running"
  /\ \A phase \in TerminalPhase \cup {"waiting_tool"} :
       to_state_status[phase] = phase
BY DEF to_state_status, RuntimePhase, TerminalPhase

\* What Enter does when the table allows the transition.
LEMMA Entering ==
  ASSUME NEW id \in Ids, NEW s, NEW target, NEW label,
         MayEnter(phases[id], target), Enter(id, s, target, label)
  PROVE  /\ phases' = [phases EXCEPT ![id] = target]
         /\ st' = [st EXCEPT ![id] = [s EXCEPT !.status = to_state_status[target]]]
         /\ pc' = [pc EXCEPT ![id] = label]
BY DEF Enter, Goto

\* A type for the State that a run carries on with.
LEMMA StateWithStatus ==
  ASSUME NEW s \in State, NEW status \in StateStatus
  PROVE  [s EXCEPT !.status = status] \in State
BY DEF State

LEMMA StateWithMessage ==
  ASSUME NEW s \in State, NEW role \in { "user", "assistant", "tool" }
  PROVE  AddMessage(s, role) \in State
<1>1. Append(s.messages, role) \in Seq({ "user", "assistant", "tool" })
  BY AppendProperties DEF State
<1> QED  BY <1>1 DEF State, AddMessage

LEMMA StateWithError ==
  ASSUME NEW s \in State, NEW error \in Error
  PROVE  [s EXCEPT !.error = error] \in State
BY DEF State

LEMMA StateWithCall ==
  ASSUME NEW s \in State, NEW tool \in Tools
  PROVE  [s EXCEPT !.tool_calls = Append(@, [tool |-> tool, status |-> "pending"])]
           \in State
<1> DEFINE call == [tool |-> tool, status |-> "pending"]
<1>1. call \in ToolCall
  BY DEF ToolCall, ToolCallStatus
<1>2. Append(s.tool_calls, call) \in Seq(ToolCall)
  BY <1>1, AppendProperties DEF State
<1> QED  BY <1>2 DEF State

\* The list of tool calls once the last one is closed.
LEMMA ClosedCalls ==
  ASSUME NEW s \in State, s.tool_calls # <<>>, NEW success \in BOOLEAN
  PROVE  LET calls == s.tool_calls
             last  == Len(calls)
             after == Observed(s, success).tool_calls
         IN  /\ last \in 1..last
             /\ after \in Seq(ToolCall)
             /\ Len(after) = last
             /\ after[last].status = IF success THEN "completed" ELSE "failed"
             /\ after[last].tool = calls[last].tool
             /\ \A i \in 1..last : i # last => after[i] = calls[i]
<1> DEFINE calls == s.tool_calls
           last  == Len(calls)
           new   == [calls[last] EXCEPT
                      !.status = IF success THEN "completed" ELSE "failed"]
<1>1. calls \in Seq(ToolCall) /\ last \in 1..last
  BY EmptySeq, LenProperties DEF State
<1>2. calls[last] \in ToolCall
  BY <1>1, ElementOfSeq
<1>3. /\ new \in ToolCall
      /\ new.status = IF success THEN "completed" ELSE "failed"
      /\ new.tool = calls[last].tool
  BY <1>2 DEF ToolCall, ToolCallStatus
<1>4. Observed(s, success).tool_calls = [calls EXCEPT ![last] = new]
  BY DEF Observed, State
<1> HIDE DEF calls, last, new
<1>5. /\ [calls EXCEPT ![last] = new] \in Seq(ToolCall)
      /\ Len([calls EXCEPT ![last] = new]) = Len(calls)
      /\ \A j \in 1..Len(calls) :
           [calls EXCEPT ![last] = new][j] = IF j = last THEN new ELSE calls[j]
  BY <1>1, <1>3, ExceptSeq DEF last
<1> QED  BY <1>1, <1>3, <1>4, <1>5 DEF calls, last

LEMMA StateObserved ==
  ASSUME NEW s \in State, s.tool_calls # <<>>, NEW success \in BOOLEAN
  PROVE  Observed(s, success) \in State
<1> DEFINE o == [call |-> Len(s.tool_calls), success |-> success]
<1>1. Observed(s, success).tool_calls \in Seq(ToolCall)
  BY ClosedCalls
<1>2. o \in Observation
  BY LenProperties DEF State, Observation
<1>3. Append(s.observations, o) \in Seq(Observation)
  BY <1>2, AppendProperties DEF State
<1>4. Append(s.messages, "tool") \in Seq({ "user", "assistant", "tool" })
  BY AppendProperties DEF State
<1> QED  BY <1>1, <1>3, <1>4 DEF State, Observed

-----------------------------------------------------------------------------
(* Types *)

\* What the proofs below establish of the three variables that Enter changes.
Entered == /\ phases' \in [Ids -> RuntimePhase \cup {"none"}]
           /\ st' \in [Ids -> State]
           /\ pc' \in [Ids -> Label]

LEMMA EnterType ==
  ASSUME TypeOK, NEW id \in Ids, NEW s \in State,
         NEW target \in RuntimePhase \ {"idle"}, NEW label \in Label,
         Enter(id, s, target, label)
  PROVE  Entered
<1>1. to_state_status[target] \in StateStatus
  BY DEF to_state_status, RuntimePhase, TerminalPhase, StateStatus
<1>2. [s EXCEPT !.status = to_state_status[target]] \in State
  BY <1>1, StateWithStatus
<1>3. "invalid" \in Label
  BY DEF Label
<1>4. /\ phases \in [Ids -> RuntimePhase \cup {"none"}]
      /\ st \in [Ids -> State]
      /\ pc \in [Ids -> Label]
  BY DEF TypeOK, ThreadTypeOK
<1>5. CASE MayEnter(phases[id], target)
  <2>1. phases' = [phases EXCEPT ![id] = target] /\ pc' = [pc EXCEPT ![id] = label]
    BY <1>5, Entering
  <2>2. st' = [st EXCEPT ![id] = [s EXCEPT !.status = to_state_status[target]]]
    BY <1>5, Entering
  <2> QED  BY <1>2, <1>4, <2>1, <2>2 DEF Entered
<1>6. CASE ~MayEnter(phases[id], target)
  <2>1. /\ st' = [st EXCEPT ![id] = s]
        /\ pc' = [pc EXCEPT ![id] = "invalid"]
        /\ phases' = phases
    BY <1>6 DEF Enter, Goto
  <2> QED  BY <1>3, <1>4, <2>1 DEF Entered
<1> QED  BY <1>5, <1>6

LEMMA GotoType ==
  ASSUME TypeOK, NEW id \in Ids, NEW label \in Label,
         Goto(id, label), UNCHANGED << phases, st >>
  PROVE  Entered
BY DEF TypeOK, ThreadTypeOK, Goto, Entered

LEMMA FailType ==
  ASSUME TypeOK, NEW id \in Ids, NEW s \in State, NEW error \in Error,
         Fail(id, s, error)
  PROVE  Entered
<1>1. [s EXCEPT !.error = error] \in State
  BY StateWithError
<1>2. "failed" \in RuntimePhase \ {"idle"} /\ "returning" \in Label
  BY DEF RuntimePhase, Label
<1> QED  BY <1>1, <1>2, EnterType DEF Fail

LEMMA CheckpointType ==
  ASSUME TypeOK, NEW id \in Ids, NEW label \in Label, Checkpoint(id, label)
  PROVE  Entered
<1>1. st[id] \in State
  BY DEF TypeOK, ThreadTypeOK
<1>2. CASE Enter(id, st[id], "cancelled", "returning")
  BY <1>1, <1>2, EnterType DEF RuntimePhase, Label
<1>3. CASE Fail(id, st[id], "run_timeout")
  BY <1>1, <1>3, FailType DEF Error
<1>4. CASE Goto(id, label) /\ UNCHANGED << phases, st >>
  BY <1>4, GotoType
<1> QED  BY <1>2, <1>3, <1>4 DEF Checkpoint

LEMMA NextStepType ==
  ASSUME NEW l \in Locals, NEW r \in Nat
  PROVE  NextStep(l, r) \in Locals
<1>1. l.step + 1 \in Nat /\ l.attempt \in 0..2 /\ l.pending \in Tools \cup {NoTool}
  BY DEF Locals
<1> QED  BY <1>1 DEF Locals, NextStep

\* The ways in which a thread changes its locals.
LEMMA LocalsType ==
  ASSUME TypeOK, NEW id \in Ids
  PROVE  /\ [loc EXCEPT ![id] = NewLocals] \in [Ids -> Locals]
         /\ [loc EXCEPT ![id].retries = 0] \in [Ids -> Locals]
         /\ [loc EXCEPT ![id].retries = @ + 1] \in [Ids -> Locals]
         /\ [loc EXCEPT ![id].step = @ + 1] \in [Ids -> Locals]
         /\ [loc EXCEPT ![id] = NextStep(@, 0)] \in [Ids -> Locals]
         /\ [loc EXCEPT ![id] = NextStep(@, @.retries + 1)]
              \in [Ids -> Locals]
         /\ [loc EXCEPT ![id].attempt = 1] \in [Ids -> Locals]
         /\ loc[id].attempt = 1 =>
              [loc EXCEPT ![id].attempt = @ + 1] \in [Ids -> Locals]
         /\ \A tool \in Tools : [loc EXCEPT ![id].pending = tool] \in [Ids -> Locals]
<1>1. loc \in [Ids -> Locals]
  BY DEF TypeOK, ThreadTypeOK
<1>2. [loc EXCEPT ![id] = NewLocals] \in [Ids -> Locals]
  BY <1>1 DEF NewLocals, Locals
<1>3. [loc EXCEPT ![id].retries = 0] \in [Ids -> Locals]
  BY <1>1 DEF Locals
<1>4. [loc EXCEPT ![id].retries = @ + 1] \in [Ids -> Locals]
  BY <1>1 DEF Locals
<1>5. [loc EXCEPT ![id].step = @ + 1] \in [Ids -> Locals]
  BY <1>1 DEF Locals
<1>. \A r \in Nat : NextStep(loc[id], r) \in Locals
  BY <1>1, NextStepType
<1>6. [loc EXCEPT ![id] = NextStep(@, 0)] \in [Ids -> Locals]
  BY <1>1
<1>7. [loc EXCEPT ![id] = NextStep(@, @.retries + 1)] \in [Ids -> Locals]
  <2>1. loc[id].retries + 1 \in Nat
    BY <1>1 DEF Locals
  <2> QED  BY <1>1, <2>1
<1>8. [loc EXCEPT ![id].attempt = 1] \in [Ids -> Locals]
  BY <1>1 DEF Locals
<1>9. loc[id].attempt = 1 => [loc EXCEPT ![id].attempt = @ + 1] \in [Ids -> Locals]
  BY <1>1 DEF Locals
<1>10. \A tool \in Tools : [loc EXCEPT ![id].pending = tool] \in [Ids -> Locals]
  BY <1>1 DEF Locals
<1> QED
  BY <1>2, <1>3, <1>4, <1>5, <1>6, <1>7, <1>8, <1>9, <1>10

LEMMA RetryOrFailType ==
  ASSUME TypeOK, NEW id \in Ids, NEW s \in State, NEW error \in Error,
         RetryOrFail(id, s, error)
  PROVE  Entered /\ loc' \in [Ids -> Locals]
<1>1. loc' \in [Ids -> Locals]
  BY LocalsType DEF RetryOrFail
<1>2. CASE Fail(id, s, error)
  BY <1>1, <1>2, FailType
<1>3. CASE Enter(id, s, "planning", "loop")
  BY <1>1, <1>3, EnterType DEF RuntimePhase, Label
<1> QED  BY <1>2, <1>3 DEF RetryOrFail

LEMMA OutsideUnchanged ==
  ASSUME TypeOK, UNCHANGED outside
  PROVE  OutsideTypeOK'
BY DEF TypeOK, OutsideTypeOK, outside, clientVars

LEMMA CountLateType ==
  ASSUME TypeOK, NEW id \in Ids, CountLate(id)
  PROVE  late' \in [Ids -> Nat]
BY DEF TypeOK, ThreadTypeOK, CountLate

-----------------------------------------------------------------------------
(* Type correctness *)

\* Steps in which the thread of a run computes, with no call outstanding.
LEMMA ThreadTypes ==
  ASSUME IInv, NEW id \in Ids, Thread(id)
  PROVE  TypeOK'
<1> USE DEF IInv
<1>1. /\ st[id] \in State /\ loc[id] \in Locals
      /\ held[id] \in State
  BY DEF TypeOK, ThreadTypeOK, OutsideTypeOK
<1>2. /\ phases \in [Ids -> RuntimePhase \cup {"none"}] /\ st \in [Ids -> State]
      /\ loc \in [Ids -> Locals] /\ workers \in [Ids -> SUBSET Job]
      /\ future \in [Ids -> Result] /\ late \in [Ids -> Nat]
      /\ pc \in [Ids -> Label]
  BY DEF TypeOK, ThreadTypeOK
<1>3. "none" \in Result /\ "pending" \in Result
  BY DEF Result
<1>4. CASE Start(id)
  <2>1. Entered
    BY <1>1, <1>4, EnterType DEF Start, RuntimePhase, Label
  <2>2. OutsideTypeOK'
    BY <1>4, OutsideUnchanged DEF Start
  <2> QED
    BY <1>2, <1>4, <2>1, <2>2
    DEF Start, TypeOK, ThreadTypeOK, Entered, callVars
<1>5. CASE Return(id)
  <2>1. Entered
    BY <1>2, <1>5 DEF Return, Goto, Entered, Label
  <2>2. OutsideTypeOK'
    BY <1>1, <1>5 DEF Return, TypeOK, OutsideTypeOK
  <2> QED
    BY <1>2, <1>5, <2>1, <2>2 DEF Return, TypeOK, ThreadTypeOK, Entered, callVars
<1>6. CASE Raise(id)
  <2>1. Entered
    BY <1>1, <1>2, <1>6 DEF Raise, Goto, Entered, Label
  <2>2. granted' \in [Ids -> SUBSET Nat]
    BY <1>6 DEF Raise, TypeOK, OutsideTypeOK
  <2>3. OutsideTypeOK'
    BY <1>1, <1>6, <2>2 DEF Raise, TypeOK, OutsideTypeOK
  <2> QED
    BY <1>2, <1>6, <2>1, <2>3 DEF Raise, TypeOK, ThreadTypeOK, Entered, callVars
<1>7. CASE LoopTop(id)
  <2>1. Entered
    BY <1>1, <1>7, FailType, CheckpointType DEF LoopTop, Label, Error
  <2>2. OutsideTypeOK'
    BY <1>7, OutsideUnchanged DEF LoopTop
  <2> QED
    BY <1>2, <1>7, <2>1, <2>2
    DEF LoopTop, TypeOK, ThreadTypeOK, Entered, callVars
<1>8. CASE SubmitPlan(id)
  <2>1. Entered
    BY <1>2, <1>8 DEF SubmitPlan, Submit, Goto, Entered, Label
  <2>2. OutsideTypeOK'
    BY <1>8, OutsideUnchanged DEF SubmitPlan
  <2>3. PlanJob \in Job
    BY <1>8 DEF SubmitPlan, Job
  <2>4. workers' \in [Ids -> SUBSET Job] /\ future' \in [Ids -> Result]
    BY <1>2, <1>3, <1>8, <2>3 DEF SubmitPlan, Submit
  <2>5. late' \in [Ids -> Nat]
    BY <1>8, CountLateType DEF SubmitPlan
  <2> QED
    BY <1>2, <1>8, <2>1, <2>2, <2>4, <2>5
    DEF SubmitPlan, TypeOK, ThreadTypeOK, Entered
<1>9. CASE PlanReturns(id)
  <2>1. Entered
    BY <1>1, <1>9, GotoType DEF PlanReturns, Label
  <2>2. OutsideTypeOK'
    BY <1>9, OutsideUnchanged DEF PlanReturns
  <2>3. loc' \in [Ids -> Locals]
    BY <1>9, LocalsType DEF PlanReturns
  <2> QED
    BY <1>2, <1>9, <2>1, <2>2, <2>3
    DEF PlanReturns, TypeOK, ThreadTypeOK, Entered, callVars
<1>10. CASE PlanRaises(id)
  <2>1. Entered
    BY <1>1, <1>10, RetryOrFailType DEF PlanRaises, Error
  <2>2. OutsideTypeOK'
    BY <1>10, OutsideUnchanged DEF PlanRaises
  <2>3. loc' \in [Ids -> Locals]
    BY <1>1, <1>10, RetryOrFailType DEF PlanRaises, Error
  <2>4. future' \in [Ids -> Result]
    BY <1>2, <1>3, <1>10 DEF PlanRaises
  <2> QED
    BY <1>2, <1>10, <2>1, <2>2, <2>3, <2>4
    DEF PlanRaises, TypeOK, ThreadTypeOK, Entered, callVars
<1>11. CASE PlanGivesUp(id)
  <2>1. Entered
    BY <1>1, <1>11, FailType DEF PlanGivesUp, Error
  <2>2. OutsideTypeOK'
    BY <1>11, OutsideUnchanged DEF PlanGivesUp
  <2>3. future' \in [Ids -> Result]
    BY <1>2, <1>3, <1>11 DEF PlanGivesUp
  <2> QED
    BY <1>2, <1>11, <2>1, <2>2, <2>3
    DEF PlanGivesUp, TypeOK, ThreadTypeOK, Entered, callVars
<1>12. CASE Planned(id)
  <2>1. Entered
    BY <1>1, <1>12, CheckpointType DEF Planned, Label
  <2>2. OutsideTypeOK'
    BY <1>12, OutsideUnchanged DEF Planned
  <2> QED
    BY <1>2, <1>12, <2>1, <2>2
    DEF Planned, TypeOK, ThreadTypeOK, Entered, callVars
<1>13. CASE Answer(id)
  <2>1. Entered
    BY <1>1, <1>13, EnterType DEF Answer, RuntimePhase, Label
  <2>2. OutsideTypeOK'
    BY <1>13, OutsideUnchanged DEF Answer
  <2>3. future' \in [Ids -> Result]
    BY <1>2, <1>3, <1>13 DEF Answer
  <2> QED
    BY <1>2, <1>13, <2>1, <2>2, <2>3
    DEF Answer, TypeOK, ThreadTypeOK, Entered, callVars
<1>14. CASE Complete(id)
  <2>1. Entered
    BY <1>1, <1>14, EnterType, StateWithMessage DEF Complete, RuntimePhase, Label
  <2>2. OutsideTypeOK'
    BY <1>14, OutsideUnchanged DEF Complete
  <2> QED
    BY <1>2, <1>14, <2>1, <2>2
    DEF Complete, TypeOK, ThreadTypeOK, Entered, callVars
<1>15. CASE ToolCalled(id)
  <2> PICK tool \in Tools :
        /\ loc' = [loc EXCEPT ![id].pending = tool]
        /\ IF NeedsApproval(tool)
           THEN Enter(id, st[id], "waiting_approval", "approval")
           ELSE Enter(id, st[id], "executing", "executing")
    BY <1>15 DEF ToolCalled
  <2>1. Entered
    BY <1>1, EnterType DEF RuntimePhase, Label
  <2>2. OutsideTypeOK'
    BY <1>15, OutsideUnchanged DEF ToolCalled
  <2>3. loc' \in [Ids -> Locals]
    BY LocalsType
  <2>4. future' \in [Ids -> Result]
    BY <1>2, <1>3, <1>15 DEF ToolCalled
  <2> QED
    BY <1>2, <1>15, <2>1, <2>2, <2>3, <2>4
    DEF ToolCalled, TypeOK, ThreadTypeOK, Entered, callVars
<1>16. CASE AskApproval(id)
  <2>1. Entered
    <3>1. CASE IsCancelled(id)
      BY <1>1, <1>16, <3>1, EnterType DEF AskApproval, RuntimePhase, Label
    <3>2. CASE ~IsCancelled(id)
      BY <1>16, <3>2, GotoType DEF AskApproval, Label
    <3> QED  BY <3>1, <3>2
  <2>2. OutsideTypeOK'
    BY <1>16, OutsideUnchanged DEF AskApproval
  <2>3. late' \in [Ids -> Nat]
    BY <1>2, <1>16, CountLateType DEF AskApproval
  <2> QED
    BY <1>2, <1>16, <2>1, <2>2, <2>3
    DEF AskApproval, TypeOK, ThreadTypeOK, Entered, callVars
<1>17. CASE OpenToolCall(id)
  <2>1. Entered
    BY <1>1, <1>17, EnterType, StateWithCall DEF OpenToolCall, RuntimePhase, Label, CallInv, CallOK
  <2>2. OutsideTypeOK'
    BY <1>17, OutsideUnchanged DEF OpenToolCall
  <2>3. loc' \in [Ids -> Locals]
    BY <1>17, LocalsType DEF OpenToolCall
  <2> QED
    BY <1>2, <1>17, <2>1, <2>2, <2>3
    DEF OpenToolCall, TypeOK, ThreadTypeOK, Entered, callVars
<1>18. CASE Opened(id)
  <2>1. Entered
    BY <1>1, <1>18, CheckpointType DEF Opened, Label
  <2>2. OutsideTypeOK'
    BY <1>18, OutsideUnchanged DEF Opened
  <2> QED
    BY <1>2, <1>18, <2>1, <2>2
    DEF Opened, TypeOK, ThreadTypeOK, Entered, callVars
<1>19. CASE SubmitTool(id)
  <2>1. Entered
    BY <1>2, <1>19 DEF SubmitTool, Submit, Goto, Entered, Label
  <2>2. OutsideTypeOK'
    BY <1>19, OutsideUnchanged DEF SubmitTool
  <2>3. ToolJob(loc[id].attempt) \in Job
    BY <1>19 DEF SubmitTool, CallInv, CallOK, Calling, Job
  <2>4. workers' \in [Ids -> SUBSET Job] /\ future' \in [Ids -> Result]
    BY <1>2, <1>3, <1>19, <2>3 DEF SubmitTool, Submit
  <2>5. late' \in [Ids -> Nat]
    BY <1>19, CountLateType DEF SubmitTool
  <2> QED
    BY <1>2, <1>19, <2>1, <2>2, <2>4, <2>5
    DEF SubmitTool, TypeOK, ThreadTypeOK, Entered
<1>20. CASE ToolSucceeds(id)
  <2>1. Entered
    BY <1>1, <1>20, EnterType, StateObserved DEF ToolSucceeds, RuntimePhase, Label, CallInv, CallOK,
           Calling, OpenCall
  <2>2. OutsideTypeOK'
    BY <1>20, OutsideUnchanged DEF ToolSucceeds
  <2>3. loc' \in [Ids -> Locals]
    BY <1>20, LocalsType DEF ToolSucceeds
  <2>4. future' \in [Ids -> Result]
    BY <1>2, <1>3, <1>20 DEF ToolSucceeds
  <2> QED
    BY <1>2, <1>20, <2>1, <2>2, <2>3, <2>4
    DEF ToolSucceeds, TypeOK, ThreadTypeOK, Entered, callVars
<1>21. CASE ToolFails(id)
  <2>1. Entered
    BY <1>1, <1>21, RetryOrFailType, StateObserved DEF ToolFails, Error, CallInv, CallOK, Calling, OpenCall
  <2>2. OutsideTypeOK'
    BY <1>21, OutsideUnchanged DEF ToolFails
  <2>3. loc' \in [Ids -> Locals]
    BY <1>1, <1>21, RetryOrFailType, StateObserved
    DEF ToolFails, Error, CallInv, CallOK, Calling, OpenCall
  <2>4. future' \in [Ids -> Result]
    BY <1>2, <1>3, <1>21 DEF ToolFails
  <2> QED
    BY <1>2, <1>21, <2>1, <2>2, <2>3, <2>4
    DEF ToolFails, TypeOK, ThreadTypeOK, Entered, callVars
<1>22. CASE ToolRaises(id)
  <2>1. Entered
    BY <1>1, <1>22, GotoType DEF ToolRaises, Label
  <2>2. OutsideTypeOK'
    BY <1>22, OutsideUnchanged DEF ToolRaises
  <2>3. future' \in [Ids -> Result]
    BY <1>2, <1>3, <1>22 DEF ToolRaises
  <2> QED
    BY <1>2, <1>22, <2>1, <2>2, <2>3
    DEF ToolRaises, TypeOK, ThreadTypeOK, Entered, callVars
<1>23. CASE ToolGivesUp(id)
  <2>1. Entered
    BY <1>1, <1>23, FailType, EnterType DEF ToolGivesUp, Error, RuntimePhase, Label
  <2>2. OutsideTypeOK'
    BY <1>23, OutsideUnchanged DEF ToolGivesUp
  <2>3. loc' \in [Ids -> Locals]
    <3>1. CASE loc[id].attempt = 1
      BY <1>2, <1>23, <3>1, LocalsType DEF ToolGivesUp
    <3>2. CASE loc[id].attempt # 1
      BY <1>2, <1>23, <3>2 DEF ToolGivesUp, Locals
    <3> QED  BY <3>1, <3>2
  <2>4. future' \in [Ids -> Result]
    BY <1>2, <1>3, <1>23 DEF ToolGivesUp
  <2> QED
    BY <1>2, <1>23, <2>1, <2>2, <2>3, <2>4
    DEF ToolGivesUp, TypeOK, ThreadTypeOK, Entered, callVars
<1>24. CASE RetryTool(id)
  <2>1. Entered
    BY <1>1, <1>24, EnterType DEF RetryTool, RuntimePhase, Label
  <2>2. OutsideTypeOK'
    BY <1>24, OutsideUnchanged DEF RetryTool
  <2>3. loc' \in [Ids -> Locals]
    BY <1>24, LocalsType DEF RetryTool, CallInv, CallOK
  <2> QED
    BY <1>2, <1>24, <2>1, <2>2, <2>3
    DEF RetryTool, TypeOK, ThreadTypeOK, Entered, callVars
<1> QED
  BY <1>4, <1>5, <1>6, <1>7, <1>8, <1>9, <1>10, <1>11, <1>12,
     <1>13, <1>14, <1>15, <1>16, <1>17, <1>18, <1>19, <1>20, <1>21, <1>22, <1>23, <1>24 DEF Thread

\* The other steps: timers, approvers, workers, and the callers of the engine.
LEMMA OtherTypes ==
  ASSUME IInv, NEW id \in Ids,
         \/ Run(id) \/ cancel(id) \/ Clock(id)
         \/ TimesOut(id) \/ Approver(id) \/ WorkerEnds(id)
  PROVE  TypeOK'
<1> USE DEF IInv
<1>1. /\ st[id] \in State /\ held[id] \in State /\ loc[id] \in Locals
      /\ Len(st[id].tool_calls) + 1 \in Nat
  BY LenProperties DEF TypeOK, ThreadTypeOK, OutsideTypeOK, State
<1>2. /\ phases \in [Ids -> RuntimePhase \cup {"none"}] /\ st \in [Ids -> State]
      /\ loc \in [Ids -> Locals] /\ workers \in [Ids -> SUBSET Job]
      /\ future \in [Ids -> Result] /\ late \in [Ids -> Nat]
      /\ pc \in [Ids -> Label]
  BY DEF TypeOK, ThreadTypeOK
<1>3. CASE Run(id)
  <2>1. [AddMessage(held[id], "user") EXCEPT !.status = "created"] \in State
    BY <1>1, StateWithMessage, StateWithStatus DEF StateStatus
  <2>2. Entered
    BY <1>2, <1>3, <2>1 DEF Run, Goto, Entered, Label, RuntimePhase
  <2>3. loc' \in [Ids -> Locals]
    BY <1>3, LocalsType DEF Run
  <2>4. OutsideTypeOK'
    <3>1. runs' \in [Ids -> 0..MaxRuns]
      BY <1>3, EngineAssumption DEF Run, TypeOK, OutsideTypeOK
    <3> QED  BY <1>3, <3>1 DEF Run, TypeOK, OutsideTypeOK
  <2>5. late' \in [Ids -> Nat]
    BY <1>2, <1>3 DEF Run
  <2> QED
    BY <1>2, <1>3, <2>2, <2>3, <2>4, <2>5
    DEF Run, TypeOK, ThreadTypeOK, Entered, callVars
<1>4. CASE cancel(id)
  <2>1. OutsideTypeOK'
    BY <1>4 DEF cancel, TypeOK, OutsideTypeOK, clientVars
  <2> QED
    BY <1>2, <1>4, <2>1 DEF cancel, TypeOK, ThreadTypeOK, callVars
<1>5. CASE Clock(id)
  <2>1. OutsideTypeOK'
    BY <1>5 DEF Clock, TypeOK, OutsideTypeOK, clientVars
  <2> QED
    BY <1>2, <1>5, <2>1 DEF Clock, TypeOK, ThreadTypeOK, callVars
<1>6. CASE TimesOut(id)
  <2>1. Entered
    BY <1>6, GotoType DEF TimesOut, PlanTimesOut, ToolTimesOut, Label
  <2>2. OutsideTypeOK'
    BY <1>6, OutsideUnchanged DEF TimesOut, PlanTimesOut, ToolTimesOut
  <2> QED
    BY <1>2, <1>6, <2>1, <2>2
    DEF TimesOut, PlanTimesOut, ToolTimesOut, TypeOK, ThreadTypeOK, Entered,
        callVars
<1>7. CASE Approved(id)
  <2>1. Entered
    BY <1>1, <1>7, EnterType DEF Approved, RuntimePhase, Label
  <2>2. granted' \in [Ids -> SUBSET Nat]
    BY <1>1, <1>7 DEF Approved, TypeOK, OutsideTypeOK
  <2>3. OutsideTypeOK'
    BY <1>7, <2>2 DEF Approved, TypeOK, OutsideTypeOK, clientVars
  <2> QED
    BY <1>2, <1>7, <2>1, <2>3
    DEF Approved, TypeOK, ThreadTypeOK, Entered, callVars
<1>8. CASE Rejected(id)
  <2>1. Entered
    BY <1>1, <1>8, EnterType, StateWithMessage DEF Rejected, RuntimePhase, Label
  <2>2. OutsideTypeOK'
    BY <1>8, OutsideUnchanged DEF Rejected
  <2>3. loc' \in [Ids -> Locals]
    BY <1>8, LocalsType DEF Rejected
  <2> QED
    BY <1>2, <1>8, <2>1, <2>2, <2>3
    DEF Rejected, TypeOK, ThreadTypeOK, Entered, callVars
<1>9. CASE ApprovalRaises(id)
  <2>1. Entered
    BY <1>9, GotoType DEF ApprovalRaises, Label
  <2>2. OutsideTypeOK'
    BY <1>9, OutsideUnchanged DEF ApprovalRaises
  <2> QED
    BY <1>2, <1>9, <2>1, <2>2
    DEF ApprovalRaises, TypeOK, ThreadTypeOK, Entered, callVars
<1>10. CASE WorkerEnds(id)
  <2>1. OutsideTypeOK'
    BY <1>10, OutsideUnchanged DEF WorkerEnds
  <2>2. workers' \in [Ids -> SUBSET Job]
    BY <1>2, <1>10 DEF WorkerEnds
  <2>3. future' \in [Ids -> Result]
    BY <1>2, <1>10 DEF WorkerEnds, OutcomeOf, Result
  <2> QED
    BY <1>2, <1>10, <2>1, <2>2, <2>3
    DEF WorkerEnds, TypeOK, ThreadTypeOK
<1> QED
  BY <1>3, <1>4, <1>5, <1>6, <1>7, <1>8, <1>9, <1>10 DEF Approver

-----------------------------------------------------------------------------
(* Phases and calls *)

\* A step of one run changes nothing of another.
Frame(id) ==
  \A i \in Ids : i # id =>
    /\ pc'[i] = pc[i] /\ phases'[i] = phases[i]
    /\ st'[i] = st[i] /\ loc'[i] = loc[i]

\* The effect of Enter on its own id, where the table allows the transition.
LEMMA EnterEffect ==
  ASSUME TypeOK, NEW id \in Ids, NEW s \in State,
         NEW target \in RuntimePhase \ {"idle"}, NEW label,
         MayEnter(phases[id], target), Enter(id, s, target, label)
  PROVE  /\ phases'[id] = target
         /\ pc'[id] = label
         /\ st'[id].status = to_state_status[target]
         /\ st'[id].tool_calls = s.tool_calls
         /\ st'[id].observations = s.observations
         /\ st'[id].messages = s.messages
         /\ st'[id].error = s.error
<1>1. phases \in [Ids -> RuntimePhase \cup {"none"}] /\ pc \in [Ids -> Label]
  BY DEF TypeOK, ThreadTypeOK
<1>2. st \in [Ids -> State]
  BY DEF TypeOK, ThreadTypeOK
<1>3. /\ phases' = [phases EXCEPT ![id] = target]
      /\ st' = [st EXCEPT ![id] = [s EXCEPT !.status = to_state_status[target]]]
      /\ pc' = [pc EXCEPT ![id] = label]
  BY Entering
<1>4. st'[id] = [s EXCEPT !.status = to_state_status[target]]
  BY <1>2, <1>3
<1> QED  BY <1>1, <1>3, <1>4 DEF State

LEMMA FailEffect ==
  ASSUME TypeOK, NEW id \in Ids, NEW s \in State, NEW error \in Error,
         MayEnter(phases[id], "failed"), Fail(id, s, error)
  PROVE  /\ phases'[id] = "failed"
         /\ pc'[id] = "returning"
         /\ st'[id].status = "failed"
         /\ st'[id].tool_calls = s.tool_calls
         /\ st'[id].observations = s.observations
         /\ st'[id].error = error
<1> DEFINE t == [s EXCEPT !.error = error]
<1>1. t \in State /\ t.error = error
  BY StateWithError DEF State
<1>2. t.tool_calls = s.tool_calls /\ t.observations = s.observations
  BY DEF State
<1>3. Enter(id, t, "failed", "returning")
  BY DEF Fail
<1>4. "failed" \in RuntimePhase \ {"idle"} /\ to_state_status["failed"] = "failed"
  BY StatusOfPhase DEF RuntimePhase, TerminalPhase
<1> HIDE DEF t
<1> QED  BY <1>1, <1>2, <1>3, <1>4, EnterEffect

\* A checkpoint passed, or a run stopped in a phase that may be stopped.
LEMMA CheckpointEffect ==
  ASSUME TypeOK, NEW id \in Ids, NEW label \in Label, Checkpoint(id, label),
         MayEnter(phases[id], "cancelled"), MayEnter(phases[id], "failed")
  PROVE  \/ /\ pc'[id] = "returning"
            /\ phases'[id] \in Stops
            /\ st'[id].status = phases'[id]
            /\ st'[id].tool_calls = st[id].tool_calls
            /\ st'[id].observations = st[id].observations
         \/ /\ pc'[id] = label
            /\ phases' = phases /\ st' = st
<1>1. st[id] \in State /\ pc \in [Ids -> Label]
  BY DEF TypeOK, ThreadTypeOK
<1>2. CASE Enter(id, st[id], "cancelled", "returning")
  BY <1>1, <1>2, EnterEffect, StatusOfPhase DEF RuntimePhase, TerminalPhase, Stops
<1>3. CASE Fail(id, st[id], "run_timeout")
  BY <1>1, <1>3, FailEffect DEF Error, Stops
<1>4. CASE Goto(id, label) /\ UNCHANGED << phases, st >>
  BY <1>1, <1>4 DEF Goto
<1> QED  BY <1>2, <1>3, <1>4 DEF Checkpoint

LEMMA RetryOrFailEffect ==
  ASSUME TypeOK, NEW id \in Ids, NEW s \in State, NEW error \in Error,
         MayEnter(phases[id], "failed"), MayEnter(phases[id], "planning"),
         RetryOrFail(id, s, error)
  PROVE  /\ \/ /\ pc'[id] = "returning"
               /\ phases'[id] = "failed" /\ st'[id].status = "failed"
               /\ st'[id].error = error
            \/ /\ pc'[id] = "loop"
               /\ phases'[id] = "planning" /\ st'[id].status = "running"
         /\ st'[id].tool_calls = s.tool_calls
         /\ st'[id].observations = s.observations
<1>1. CASE Fail(id, s, error)
  BY <1>1, FailEffect
<1>2. CASE Enter(id, s, "planning", "loop")
  BY <1>2, EnterEffect, StatusOfPhase DEF RuntimePhase
<1> QED  BY <1>1, <1>2 DEF RetryOrFail

\* What one process may do, apart from what the others do.
Step(id) ==
  \/ Run(id) \/ cancel(id) \/ Clock(id)
  \/ Thread(id) \/ TimesOut(id) \/ Approver(id) \/ WorkerEnds(id)

LEMMA StepFrame ==
  ASSUME TypeOK, NEW id \in Ids, Step(id)
  PROVE  Frame(id)
<1>1. /\ phases \in [Ids -> RuntimePhase \cup {"none"}] /\ st \in [Ids -> State]
      /\ loc \in [Ids -> Locals] /\ pc \in [Ids -> Label]
  BY DEF TypeOK, ThreadTypeOK
<1>2. CASE Start(id)
  BY <1>1, <1>2 DEF Start, Frame, Enter, Goto
<1>3. CASE Return(id)
  BY <1>1, <1>3 DEF Return, Frame, Goto
<1>4. CASE Raise(id)
  BY <1>1, <1>4 DEF Raise, Frame, Goto
<1>5. CASE LoopTop(id)
  BY <1>1, <1>5 DEF LoopTop, Frame, Checkpoint, Fail, Enter, Goto
<1>6. CASE SubmitPlan(id)
  BY <1>1, <1>6 DEF SubmitPlan, Frame, Submit, Goto
<1>7. CASE PlanReturns(id)
  BY <1>1, <1>7 DEF PlanReturns, Frame, Goto
<1>8. CASE PlanRaises(id)
  BY <1>1, <1>8 DEF PlanRaises, Frame, RetryOrFail, Fail, Enter, Goto
<1>9. CASE PlanGivesUp(id)
  BY <1>1, <1>9 DEF PlanGivesUp, Frame, Fail, Enter, Goto
<1>10. CASE Planned(id)
  BY <1>1, <1>10 DEF Planned, Frame, Checkpoint, Fail, Enter, Goto
<1>11. CASE Answer(id)
  BY <1>1, <1>11 DEF Answer, Frame, Enter, Goto
<1>12. CASE Complete(id)
  BY <1>1, <1>12 DEF Complete, Frame, Enter, Goto
<1>13. CASE ToolCalled(id)
  BY <1>1, <1>13 DEF ToolCalled, Frame, Enter, Goto
<1>14. CASE AskApproval(id)
  BY <1>1, <1>14 DEF AskApproval, Frame, Enter, Goto
<1>15. CASE OpenToolCall(id)
  BY <1>1, <1>15 DEF OpenToolCall, Frame, Enter, Goto
<1>16. CASE Opened(id)
  BY <1>1, <1>16 DEF Opened, Frame, Checkpoint, Fail, Enter, Goto
<1>17. CASE SubmitTool(id)
  BY <1>1, <1>17 DEF SubmitTool, Frame, Submit, Goto
<1>18. CASE ToolSucceeds(id)
  BY <1>1, <1>18 DEF ToolSucceeds, Frame, Enter, Goto
<1>19. CASE ToolFails(id)
  BY <1>1, <1>19 DEF ToolFails, Frame, RetryOrFail, Fail, Enter, Goto
<1>20. CASE ToolRaises(id)
  BY <1>1, <1>20 DEF ToolRaises, Frame, Goto
<1>21. CASE ToolGivesUp(id)
  BY <1>1, <1>21 DEF ToolGivesUp, Frame, Fail, Enter, Goto
<1>22. CASE RetryTool(id)
  BY <1>1, <1>22 DEF RetryTool, Frame, Enter, Goto
<1>23. CASE Run(id)
  BY <1>1, <1>23 DEF Run, Frame, Goto
<1>24. CASE cancel(id)
  BY <1>1, <1>24 DEF cancel, Frame, callVars, clientVars
<1>25. CASE Clock(id)
  BY <1>1, <1>25 DEF Clock, Frame, callVars, clientVars
<1>26. CASE PlanTimesOut(id)
  BY <1>1, <1>26 DEF PlanTimesOut, Frame, Goto
<1>27. CASE ToolTimesOut(id)
  BY <1>1, <1>27 DEF ToolTimesOut, Frame, Goto
<1>28. CASE Approved(id)
  BY <1>1, <1>28 DEF Approved, Frame, Enter, Goto
<1>29. CASE Rejected(id)
  BY <1>1, <1>29 DEF Rejected, Frame, Enter, Goto
<1>30. CASE ApprovalRaises(id)
  BY <1>1, <1>30 DEF ApprovalRaises, Frame, Goto
<1>31. CASE WorkerEnds(id)
  BY <1>1, <1>31 DEF WorkerEnds, Frame
<1> QED
  BY <1>2, <1>3, <1>4, <1>5, <1>6, <1>7, <1>8, <1>9, <1>10, <1>11, <1>12,
     <1>13, <1>14, <1>15, <1>16, <1>17, <1>18, <1>19, <1>20, <1>21, <1>22,
     <1>23, <1>24, <1>25, <1>26, <1>27, <1>28, <1>29, <1>30, <1>31 DEF Step,
     Thread, TimesOut, Approver

LEMMA AppendedCall ==
  ASSUME NEW s \in State, NEW tool \in Tools
  PROVE  OpenCall([s EXCEPT !.tool_calls =
                     Append(@, [tool |-> tool, status |-> "pending"])])
<1> DEFINE call == [tool |-> tool, status |-> "pending"]
<1>1. s.tool_calls \in Seq(ToolCall) /\ call \in ToolCall
  BY DEF State, ToolCall, ToolCallStatus
<1>2. /\ Append(s.tool_calls, call) # <<>>
      /\ Append(s.tool_calls, call)[Len(Append(s.tool_calls, call))] = call
  BY <1>1, AppendProperties
<1> QED  BY <1>2 DEF OpenCall, State

LEMMA StepPhases ==
  ASSUME IInv, NEW id \in Ids, Step(id)
  PROVE  PhaseOK(id)' /\ CallOK(id)'
<1>1. /\ pc \in [Ids -> Label] /\ st[id] \in State /\ loc[id] \in Locals
      /\ st \in [Ids -> State] /\ loc \in [Ids -> Locals]
      /\ phases \in [Ids -> RuntimePhase \cup {"none"}]
      /\ TypeOK
  BY DEF IInv, TypeOK, ThreadTypeOK
<1>2. PhaseOK(id) /\ CallOK(id)
  BY DEF IInv, PhaseInv, CallInv
<1> DEFINE Target == RuntimePhase \ {"idle"}
<1>3. /\ \A target \in { "planning", "executing", "waiting_tool",
                         "waiting_approval", "completed", "cancelled", "failed" } :
           target \in Target
      /\ Error = Error \cup { "none" } /\ TerminalPhase = Stops \cup {"completed"}
  BY DEF RuntimePhase, Error, TerminalPhase, Stops
<1> HIDE DEF Target
<1>4. CASE Start(id)
  BY <1>1, <1>2, <1>3, <1>4, EnterEffect, TransitionsTaken, StatusOfPhase
  DEF Start, PhaseOK, CallOK, Planning, Calling, Target, OpenCall
<1>5. CASE Return(id)
  BY <1>1, <1>2, <1>5 DEF Return, PhaseOK, CallOK, Planning, Calling, Goto
<1>6. CASE Raise(id)
  BY <1>1, <1>2, <1>6 DEF Raise, PhaseOK, CallOK, Planning, Calling, Goto
<1>7. CASE LoopTop(id)
  <2>1. phases[id] = "planning"
    BY <1>2, <1>7 DEF LoopTop, PhaseOK, Planning, Calling
  <2>2. CASE Fail(id, st[id], "max_steps")
    BY <1>1, <1>3, <2>1, <2>2, TransitionsTaken, FailEffect
    DEF PhaseOK, CallOK, Planning, Calling, Error, Stops
  <2>3. CASE Checkpoint(id, "plan")
    BY <1>1, <1>2, <1>3, <1>7, <2>1, <2>3, TransitionsTaken, CheckpointEffect
    DEF LoopTop, PhaseOK, CallOK, Planning, Calling, Label, Stops
  <2> QED  BY <1>7, <2>2, <2>3 DEF LoopTop
<1>8. CASE SubmitPlan(id)
  BY <1>1, <1>2, <1>8 DEF SubmitPlan, PhaseOK, CallOK, Planning, Calling, Submit, Goto
<1>9. CASE PlanReturns(id)
  BY <1>1, <1>2, <1>9 DEF PlanReturns, PhaseOK, CallOK, Planning, Calling, Goto
<1>10. CASE PlanRaises(id)
  <2>1. phases[id] = "planning" /\ "planner" \in Error
    BY <1>2, <1>10 DEF PlanRaises, PhaseOK, Planning, Error
  <2> QED
    BY <1>1, <1>10, <2>1, RetryOrFailEffect, TransitionsTaken
    DEF PlanRaises, PhaseOK, CallOK, Planning, Calling, TerminalPhase
<1>11. CASE PlanGivesUp(id)
  <2>1. phases[id] = "planning" /\ "llm_timeout" \in Error
    BY <1>2, <1>11 DEF PlanGivesUp, PhaseOK, Planning, Error
  <2> QED
    BY <1>1, <1>11, <2>1, FailEffect, TransitionsTaken
    DEF PlanGivesUp, PhaseOK, CallOK, Planning, Calling, TerminalPhase
<1>12. CASE Planned(id)
  <2>1. phases[id] = "planning"
    BY <1>2, <1>12 DEF Planned, PhaseOK, Planning, Calling
  <2> QED
    BY <1>1, <1>2, <1>3, <1>12, <2>1, TransitionsTaken, CheckpointEffect
    DEF Planned, PhaseOK, CallOK, Planning, Calling, Label, Stops, OpenCall
<1>13. CASE Answer(id)
  BY <1>1, <1>2, <1>3, <1>13, EnterEffect, TransitionsTaken, StatusOfPhase
  DEF Answer, PhaseOK, CallOK, Planning, Calling, Target, OpenCall
<1>14. CASE Complete(id)
  BY <1>1, <1>2, <1>3, <1>14, EnterEffect, TransitionsTaken, StatusOfPhase, StateWithMessage
  DEF Complete, PhaseOK, CallOK, Planning, Calling, Target, OpenCall
<1>15. CASE ToolCalled(id)
  <2> PICK tool \in Tools :
        /\ loc' = [loc EXCEPT ![id].pending = tool]
        /\ IF NeedsApproval(tool)
           THEN Enter(id, st[id], "waiting_approval", "approval")
           ELSE Enter(id, st[id], "executing", "executing")
    BY <1>15 DEF ToolCalled
  <2>1. phases[id] = "planning" /\ loc'[id].pending = tool
    BY <1>1, <1>2, <1>15 DEF ToolCalled, PhaseOK, Planning, Locals
  <2> QED
    BY <1>1, <1>3, <2>1, EnterEffect, TransitionsTaken, StatusOfPhase
    DEF PhaseOK, CallOK, Planning, Calling, Target
<1>16. CASE AskApproval(id)
  <2>1. phases[id] = "waiting_approval"
    BY <1>2, <1>16 DEF AskApproval, PhaseOK
  <2>2. CASE IsCancelled(id)
    BY <1>1, <1>3, <1>16, <2>1, <2>2, EnterEffect, TransitionsTaken,
       StatusOfPhase
    DEF AskApproval, PhaseOK, CallOK, Planning, Calling, Target, Stops
  <2>3. CASE ~IsCancelled(id)
    BY <1>1, <1>2, <1>16, <2>3 DEF AskApproval, Goto, PhaseOK, CallOK, Planning, Calling
  <2> QED  BY <2>2, <2>3
<1>17. CASE OpenToolCall(id)
  <2> DEFINE s == [st[id] EXCEPT !.tool_calls =
                     Append(@, [tool |-> loc[id].pending, status |-> "pending"])]
  <2>1. phases[id] = "executing" /\ loc[id].pending \in Tools
    BY <1>2, <1>17 DEF OpenToolCall, PhaseOK, CallOK
  <2>2. s \in State /\ OpenCall(s)
    BY <1>1, <2>1, StateWithCall, AppendedCall
  <2>3. Enter(id, s, "waiting_tool", "opened") /\ loc'[id].attempt = 1
    BY <1>1, <1>17 DEF OpenToolCall, Locals
  <2> HIDE DEF s
  <2> QED
    BY <1>1, <1>3, <2>1, <2>2, <2>3, EnterEffect, TransitionsTaken,
       StatusOfPhase
    DEF PhaseOK, CallOK, Planning, Calling, Target, OpenCall
<1>18. CASE Opened(id)
  <2>1. phases[id] = "waiting_tool"
    BY <1>2, <1>18 DEF Opened, PhaseOK, Planning, Calling
  <2> QED
    BY <1>1, <1>2, <1>3, <1>18, <2>1, TransitionsTaken, CheckpointEffect
    DEF Opened, PhaseOK, CallOK, Planning, Calling, Label, Stops, OpenCall
<1>19. CASE SubmitTool(id)
  BY <1>1, <1>2, <1>19 DEF SubmitTool, PhaseOK, CallOK, Planning, Calling, Submit, Goto
<1>20. CASE ToolSucceeds(id)
  <2>1. phases[id] = "waiting_tool" /\ Observed(st[id], TRUE) \in State
    BY <1>1, <1>2, <1>20, StateObserved
    DEF ToolSucceeds, PhaseOK, CallOK, Calling, OpenCall
  <2>2. Enter(id, Observed(st[id], TRUE), "planning", "loop")
    BY <1>20 DEF ToolSucceeds
  <2>3. "planning" \in RuntimePhase \ {"idle"}
    BY DEF RuntimePhase
  <2>4. /\ phases'[id] = "planning" /\ pc'[id] = "loop"
        /\ st'[id].status = to_state_status["planning"]
    <3>1. MayEnter(phases[id], "planning")
      BY <2>1, TransitionsTaken
    <3> DEFINE s == Observed(st[id], TRUE)
    <3>2. s \in State /\ Enter(id, s, "planning", "loop") /\ TypeOK
      BY <1>1, <2>1, <2>2
    <3> HIDE DEF s
    <3> QED  BY <2>3, <3>1, <3>2, EnterEffect
  <2> QED
    BY <2>4, StatusOfPhase DEF PhaseOK, CallOK, Planning, Calling
<1>21. CASE ToolFails(id)
  <2>1. /\ phases[id] = "waiting_tool" /\ Observed(st[id], FALSE) \in State
        /\ "tool_failed" \in Error
    BY <1>1, <1>2, <1>21, StateObserved
    DEF ToolFails, PhaseOK, CallOK, Calling, OpenCall, Error
  <2> QED
    BY <1>1, <1>21, <2>1, RetryOrFailEffect, TransitionsTaken
    DEF ToolFails, PhaseOK, CallOK, Planning, Calling, TerminalPhase
<1>22. CASE ToolRaises(id)
  BY <1>1, <1>2, <1>22 DEF ToolRaises, PhaseOK, CallOK, Planning, Calling, Goto
<1>23. CASE ToolGivesUp(id)
  <2>1. /\ phases[id] = "waiting_tool" /\ OpenCall(st[id])
        /\ "tool_timeout" \in Error
    BY <1>2, <1>23 DEF ToolGivesUp, ToolRanOut, PhaseOK, CallOK, Calling, Error
  <2>2. CASE LastAttempt(id)
    BY <1>1, <1>23, <2>1, <2>2, FailEffect, TransitionsTaken
    DEF ToolGivesUp, PhaseOK, CallOK, Planning, Calling, TerminalPhase
  <2>3. CASE ~LastAttempt(id)
    <3>1. loc[id].attempt = 1 /\ loc'[id].attempt = loc[id].attempt
      BY <1>1, <1>2, <1>23, <2>3
      DEF ToolGivesUp, ToolRanOut, LastAttempt, CallOK, Calling, Locals
    <3> QED
      BY <1>1, <1>3, <1>23, <2>1, <2>3, <3>1, EnterEffect, TransitionsTaken,
         StatusOfPhase
      DEF ToolGivesUp, PhaseOK, CallOK, Planning, Calling, Target, OpenCall
  <2> QED  BY <2>2, <2>3
<1>24. CASE RetryTool(id)
  BY <1>1, <1>2, <1>3, <1>24, EnterEffect, TransitionsTaken, StatusOfPhase
  DEF RetryTool, PhaseOK, CallOK, Planning, Calling, Target, OpenCall
<1>25. CASE Run(id)
  BY <1>1, <1>2, <1>25 DEF Run, PhaseOK, CallOK, Planning, Calling, Goto
<1>26. CASE cancel(id)
  BY <1>1, <1>2, <1>26 DEF cancel, PhaseOK, CallOK, Planning, Calling, callVars, clientVars
<1>27. CASE Clock(id)
  BY <1>1, <1>2, <1>27 DEF Clock, PhaseOK, CallOK, Planning, Calling, callVars, clientVars
<1>28. CASE PlanTimesOut(id)
  BY <1>1, <1>2, <1>28 DEF PlanTimesOut, PhaseOK, CallOK, Planning, Calling, Goto
<1>29. CASE ToolTimesOut(id)
  BY <1>1, <1>2, <1>29 DEF ToolTimesOut, PhaseOK, CallOK, Planning, Calling, Goto
<1>30. CASE Approved(id)
  BY <1>1, <1>2, <1>3, <1>30, EnterEffect, TransitionsTaken, StatusOfPhase
  DEF Approved, PhaseOK, CallOK, Planning, Calling, Target, OpenCall
<1>31. CASE Rejected(id)
  BY <1>1, <1>2, <1>3, <1>31, EnterEffect, TransitionsTaken, StatusOfPhase, StateWithMessage
  DEF Rejected, PhaseOK, CallOK, Planning, Calling, Target, OpenCall
<1>32. CASE ApprovalRaises(id)
  BY <1>1, <1>2, <1>32 DEF ApprovalRaises, PhaseOK, CallOK, Planning, Calling, Goto
<1>33. CASE WorkerEnds(id)
  BY <1>1, <1>2, <1>33 DEF WorkerEnds, PhaseOK, CallOK, Planning, Calling
<1> QED
  BY <1>4, <1>5, <1>6, <1>7, <1>8, <1>9, <1>10, <1>11, <1>12, <1>13, <1>14,
     <1>15, <1>16, <1>17, <1>18, <1>19, <1>20, <1>21, <1>22, <1>23, <1>24,
     <1>25, <1>26, <1>27, <1>28, <1>29, <1>30, <1>31, <1>32, <1>33 DEF Step,
     Thread, TimesOut, Approver

-----------------------------------------------------------------------------
(* The invariant *)

LEMMA InvInit == Init => IInv
<1> SUFFICES ASSUME Init PROVE IInv
  OBVIOUS
<1>1. NewState \in State
  BY EmptySeq DEF NewState, State, StateStatus, Error
<1>2. NewLocals \in Locals
  BY DEF NewLocals, Locals
<1>3. TypeOK
  BY <1>1, <1>2, EngineAssumption
  DEF Init, TypeOK, ThreadTypeOK, OutsideTypeOK, Label, Result
<1>4. PhaseInv /\ CallInv
  BY DEF Init, PhaseInv, CallInv, PhaseOK, CallOK, Planning, Calling
<1> QED  BY <1>3, <1>4 DEF IInv

LEMMA InvStep == IInv /\ [Next]_vars => IInv'
<1> SUFFICES ASSUME IInv, [Next]_vars PROVE IInv'
  OBVIOUS
<1>1. CASE Next
  <2>1. PICK id \in Ids : Step(id)
    BY <1>1 DEF Next, Step
  <2>2. TypeOK'
    BY <2>1, ThreadTypes, OtherTypes DEF Step
  <2>3. Frame(id)
    BY <2>1, StepFrame DEF IInv
  <2>4. PhaseOK(id)' /\ CallOK(id)'
    BY <2>1, StepPhases
  <2>5. ASSUME NEW i \in Ids, i # id
        PROVE  PhaseOK(i)' /\ CallOK(i)'
    BY <2>3, <2>5 DEF Frame, IInv, PhaseInv, CallInv, PhaseOK, CallOK
  <2> QED  BY <2>2, <2>4, <2>5 DEF IInv, PhaseInv, CallInv
<1>2. CASE UNCHANGED vars
  BY <1>2 DEF vars, outside, callVars, clientVars, IInv, TypeOK, ThreadTypeOK,
              OutsideTypeOK, PhaseInv, CallInv, PhaseOK, CallOK
<1> QED  BY <1>1, <1>2

LEMMA Invariance == Spec => []IInv
BY InvInit, InvStep, PTL DEF Spec

\* The engine's state stays well typed, whatever planners, tools, approvers,
\* timers and callers do.
THEOREM TypeCorrect == Spec => []TypeOK
<1>1. IInv => TypeOK
  BY DEF IInv
<1> QED  BY <1>1, Invariance, PTL

\* No run dies of an InvalidTransitionError: the engine only asks the phase
\* table for transitions it has.
THEOREM NoRefusedTransition == Spec => []NoInvalidTransition
<1>1. IInv => NoInvalidTransition
  BY DEF IInv, PhaseInv, PhaseOK, NoInvalidTransition
<1> QED  BY <1>1, Invariance, PTL
=============================================================================
