---------------------- MODULE RuntimeEngineTranscripts ----------------------
(***************************************************************************)
(* Proofs that the transcripts of RuntimeEngine can be trusted: they       *)
(* account for their tool calls, no guarded tool was called without an     *)
(* approver's yes, and a client sees a run exactly as AgentRun promises.   *)
(***************************************************************************)
EXTENDS RuntimeEngineProofs

-----------------------------------------------------------------------------
(* The inductive invariants, next to IInv *)

GuardedGranted(calls, grants) ==
  \A i \in 1..Len(calls) : NeedsApproval(calls[i].tool) => i \in grants

\* The call about to be recorded has its approver's yes, if it needs one.
GrantOK(id) ==
  /\ GuardedGranted(st[id].tool_calls, granted[id])
  /\ GuardedGranted(held[id].tool_calls, granted[id])
  /\ pc[id] = "executing" /\ NeedsApproval(loc[id].pending) =>
       Len(st[id].tool_calls) + 1 \in granted[id]

TraceOK(id) == Traceable(st[id]) /\ Traceable(held[id])

TranscriptInv == \A id \in Ids : GrantOK(id) /\ TraceOK(id)

-----------------------------------------------------------------------------
(* What the helpers of the engine do to a transcript *)

Kept(id, s) == /\ st'[id].tool_calls = s.tool_calls
               /\ st'[id].observations = s.observations

LEMMA EnterKeeps ==
  ASSUME TypeOK, NEW id \in Ids, NEW s \in State, NEW target, NEW label,
         Enter(id, s, target, label)
  PROVE  Kept(id, s) /\ pc'[id] \in { label, "invalid" }
<1>1. st \in [Ids -> State] /\ pc \in [Ids -> Label]
  BY DEF TypeOK, ThreadTypeOK
<1>2. st'[id] = s \/ st'[id] = [s EXCEPT !.status = to_state_status[target]]
  BY <1>1 DEF Enter
<1>3. pc'[id] \in { label, "invalid" }
  BY <1>1 DEF Enter, Goto
<1> QED  BY <1>2, <1>3 DEF Kept, State

LEMMA FailKeeps ==
  ASSUME TypeOK, NEW id \in Ids, NEW s \in State, NEW error \in Error,
         Fail(id, s, error)
  PROVE  Kept(id, s) /\ pc'[id] \in { "returning", "invalid" }
<1> DEFINE t == [s EXCEPT !.error = error]
<1>1. /\ t \in State
      /\ t.tool_calls = s.tool_calls /\ t.observations = s.observations
  BY StateWithError DEF State
<1>2. Enter(id, t, "failed", "returning")
  BY DEF Fail
<1> HIDE DEF t
<1> QED  BY <1>1, <1>2, EnterKeeps DEF Kept

LEMMA CheckpointKeeps ==
  ASSUME TypeOK, NEW id \in Ids, NEW label, Checkpoint(id, label)
  PROVE  Kept(id, st[id]) /\ pc'[id] \in { "returning", "invalid", label }
<1>1. st[id] \in State /\ pc \in [Ids -> Label]
  BY DEF TypeOK, ThreadTypeOK
<1>2. CASE Enter(id, st[id], "cancelled", "returning")
  BY <1>1, <1>2, EnterKeeps
<1>3. CASE Fail(id, st[id], "run_timeout")
  BY <1>1, <1>3, FailKeeps DEF Error
<1>4. CASE Goto(id, label) /\ UNCHANGED << phases, st >>
  BY <1>1, <1>4 DEF Goto, Kept
<1> QED  BY <1>2, <1>3, <1>4 DEF Checkpoint

LEMMA RetryOrFailKeeps ==
  ASSUME TypeOK, NEW id \in Ids, NEW s \in State, NEW error \in Error,
         RetryOrFail(id, s, error)
  PROVE  Kept(id, s) /\ pc'[id] \in { "returning", "invalid", "loop" }
<1>1. CASE Fail(id, s, error)
  BY <1>1, FailKeeps
<1>2. CASE Enter(id, s, "planning", "loop")
  BY <1>2, EnterKeeps
<1> QED  BY <1>1, <1>2 DEF RetryOrFail

\* A step that leaves the transcript of its run and every record of approval
\* alone, and does not head for a new call.
Silent(id) ==
  /\ Kept(id, st[id])
  /\ held' = held /\ granted' = granted
  /\ pc'[id] = "executing" => pc[id] = "executing" /\ loc'[id] = loc[id]

Telling(id) ==
  \/ Run(id) \/ Return(id) \/ Raise(id) \/ ToolCalled(id) \/ Approved(id)
  \/ OpenToolCall(id) \/ ToolSucceeds(id) \/ ToolFails(id)

\* Only the steps named in Telling touch a transcript.
LEMMA OtherStepsSilent ==
  ASSUME IInv, NEW id \in Ids, Step(id), ~Telling(id)
  PROVE  Silent(id)
<1>1. TypeOK
  BY DEF IInv
<1>2. st[id] \in State /\ pc \in [Ids -> Label]
  BY <1>1 DEF TypeOK, ThreadTypeOK
<1>4. CASE Start(id)
  BY <1>1, <1>2, <1>4, EnterKeeps DEF Start, Silent, outside, clientVars
<1>5. CASE Answer(id)
  BY <1>1, <1>2, <1>5, EnterKeeps DEF Answer, Silent, outside, clientVars
<1>6. CASE RetryTool(id)
  BY <1>1, <1>2, <1>6, EnterKeeps DEF RetryTool, Silent, outside, clientVars
<1>7. CASE Complete(id)
  <2>1. /\ AddMessage(st[id], "assistant") \in State
        /\ AddMessage(st[id], "assistant").tool_calls = st[id].tool_calls
        /\ AddMessage(st[id], "assistant").observations = st[id].observations
    BY <1>2, StateWithMessage DEF AddMessage, State
  <2> QED
    BY <1>1, <1>2, <1>7, <2>1, EnterKeeps DEF Complete, Silent, Kept, outside, clientVars
<1>8. CASE Rejected(id)
  <2>1. /\ AddMessage(st[id], "assistant") \in State
        /\ AddMessage(st[id], "assistant").tool_calls = st[id].tool_calls
        /\ AddMessage(st[id], "assistant").observations = st[id].observations
    BY <1>2, StateWithMessage DEF AddMessage, State
  <2> QED
    BY <1>1, <1>2, <1>8, <2>1, EnterKeeps DEF Rejected, Silent, Kept, outside, clientVars
<1>9. CASE PlanGivesUp(id)
  BY <1>1, <1>2, <1>9, FailKeeps
  DEF PlanGivesUp, Silent, Error, outside, clientVars
<1>10. CASE PlanRaises(id)
  BY <1>1, <1>2, <1>10, RetryOrFailKeeps
  DEF PlanRaises, Silent, Error, outside, clientVars
<1>11. CASE LoopTop(id)
  BY <1>1, <1>2, <1>11, FailKeeps, CheckpointKeeps
  DEF LoopTop, Silent, Error, outside, clientVars
<1>12. CASE Planned(id)
  BY <1>1, <1>2, <1>12, CheckpointKeeps DEF Planned, Silent, outside, clientVars
<1>13. CASE Opened(id)
  BY <1>1, <1>2, <1>13, CheckpointKeeps DEF Opened, Silent, outside, clientVars
<1>14. CASE AskApproval(id)
  BY <1>1, <1>2, <1>14, EnterKeeps
  DEF AskApproval, Silent, Kept, Goto, outside, clientVars
<1>15. CASE ToolGivesUp(id)
  BY <1>1, <1>2, <1>15, FailKeeps, EnterKeeps
  DEF ToolGivesUp, Silent, Error, outside, clientVars
<1>16. CASE SubmitPlan(id)
  BY <1>1, <1>2, <1>16 DEF SubmitPlan, Submit, Goto, Silent, Kept, outside, clientVars
<1>17. CASE PlanReturns(id)
  BY <1>1, <1>2, <1>17 DEF PlanReturns, Goto, Silent, Kept, outside, clientVars
<1>18. CASE SubmitTool(id)
  BY <1>1, <1>2, <1>18 DEF SubmitTool, Submit, Goto, Silent, Kept, outside, clientVars
<1>19. CASE ToolRaises(id)
  BY <1>1, <1>2, <1>19 DEF ToolRaises, Goto, Silent, Kept, outside, clientVars
<1>20. CASE PlanTimesOut(id)
  BY <1>1, <1>2, <1>20 DEF PlanTimesOut, Goto, Silent, Kept, outside, clientVars
<1>21. CASE ToolTimesOut(id)
  BY <1>1, <1>2, <1>21 DEF ToolTimesOut, Goto, Silent, Kept, outside, clientVars
<1>22. CASE ApprovalRaises(id)
  BY <1>1, <1>2, <1>22 DEF ApprovalRaises, Goto, Silent, Kept, outside, clientVars
<1>23. CASE cancel(id)
  BY <1>1, <1>2, <1>23 DEF cancel, Silent, Kept, outside, clientVars
<1>24. CASE Clock(id)
  BY <1>1, <1>2, <1>24 DEF Clock, Silent, Kept, outside, clientVars
<1>25. CASE WorkerEnds(id)
  BY <1>1, <1>2, <1>25 DEF WorkerEnds, Silent, Kept, outside, clientVars
<1> QED
  BY <1>4, <1>5, <1>6, <1>7, <1>8, <1>9, <1>10, <1>11, <1>12, <1>13,
     <1>14, <1>15, <1>16, <1>17, <1>18, <1>19, <1>20, <1>21, <1>22,
     <1>23, <1>24, <1>25
  DEF Step, Thread, TimesOut, Approver, Telling

\* A tool call that ended, well or not, leaves the State with its observation.
LEMMA ObservedSteps ==
  ASSUME IInv, NEW id \in Ids, ToolSucceeds(id) \/ ToolFails(id)
  PROVE  \E success \in BOOLEAN :
           /\ Kept(id, Observed(st[id], success))
           /\ pc[id] = "calling" /\ pc'[id] # "executing"
           /\ held' = held /\ granted' = granted
<1>1. TypeOK /\ CallOK(id) /\ st[id] \in State
  BY DEF IInv, CallInv, TypeOK, ThreadTypeOK
<1>2. pc[id] = "calling" /\ st[id].tool_calls # <<>>
  BY <1>1 DEF ToolSucceeds, ToolFails, CallOK, Calling, OpenCall
<1>3. \A success \in BOOLEAN : Observed(st[id], success) \in State
  BY <1>1, <1>2, StateObserved
<1>4. held' = held /\ granted' = granted
  BY DEF ToolSucceeds, ToolFails, outside, clientVars
<1>5. CASE ToolSucceeds(id)
  <2> DEFINE s == Observed(st[id], TRUE)
  <2>1. s \in State /\ Enter(id, s, "planning", "loop")
    BY <1>3, <1>5 DEF ToolSucceeds
  <2> HIDE DEF s
  <2>2. Kept(id, s) /\ pc'[id] # "executing"
    BY <1>1, <2>1, EnterKeeps
  <2> QED  BY <1>2, <1>4, <2>2 DEF s
<1>6. CASE ToolFails(id)
  <2> DEFINE s == Observed(st[id], FALSE)
  <2>1. s \in State /\ RetryOrFail(id, s, "tool_failed") /\ "tool_failed" \in Error
    BY <1>3, <1>6 DEF ToolFails, Error
  <2> HIDE DEF s
  <2>2. Kept(id, s) /\ pc'[id] # "executing"
    BY <1>1, <2>1, RetryOrFailKeeps
  <2> QED  BY <1>2, <1>4, <2>2 DEF s
<1> QED  BY <1>5, <1>6

-----------------------------------------------------------------------------
(* Approvals *)

LEMMA GrantedAppend ==
  ASSUME NEW calls \in Seq(ToolCall), NEW call \in ToolCall, NEW grants,
         GuardedGranted(calls, grants),
         NeedsApproval(call.tool) => Len(calls) + 1 \in grants
  PROVE  GuardedGranted(Append(calls, call), grants)
<1>1. /\ Len(Append(calls, call)) = Len(calls) + 1 /\ Len(calls) \in Nat
      /\ \A i \in 1..Len(calls) : Append(calls, call)[i] = calls[i]
      /\ Append(calls, call)[Len(calls) + 1] = call
  BY AppendProperties, LenProperties
<1> QED  BY <1>1 DEF GuardedGranted

LEMMA GrantedObserved ==
  ASSUME NEW s \in State, s.tool_calls # <<>>, NEW success \in BOOLEAN, NEW grants,
         GuardedGranted(s.tool_calls, grants)
  PROVE  GuardedGranted(Observed(s, success).tool_calls, grants)
<1> DEFINE calls == s.tool_calls
           after == Observed(s, success).tool_calls
<1>1. Len(after) = Len(calls) /\ \A i \in 1..Len(calls) : after[i].tool = calls[i].tool
  BY ClosedCalls
<1> HIDE DEF after
<1>2. GuardedGranted(after, grants)
  BY <1>1 DEF GuardedGranted
<1> QED  BY <1>2 DEF after

\* A run's approvals keep covering its guarded calls.
LEMMA StepGrants ==
  ASSUME IInv, NEW id \in Ids, Step(id), GrantOK(id)
  PROVE  GrantOK(id)'
<1>1. /\ TypeOK /\ PhaseOK(id) /\ CallOK(id)
  BY DEF IInv, PhaseInv, CallInv
<1>2. /\ st \in [Ids -> State] /\ pc \in [Ids -> Label] /\ loc \in [Ids -> Locals]
      /\ st[id] \in State
  BY <1>1 DEF TypeOK, ThreadTypeOK
<1>3. held \in [Ids -> State] /\ granted \in [Ids -> SUBSET Nat] /\ held[id] \in State
  BY <1>1 DEF TypeOK, OutsideTypeOK
<1>4. st[id].tool_calls \in Seq(ToolCall) /\ held[id].tool_calls \in Seq(ToolCall)
  BY <1>2, <1>3 DEF State
<1>5. CASE ~Telling(id)
  <2>1. Silent(id)
    BY <1>5, OtherStepsSilent
  <2> QED  BY <1>2, <2>1 DEF Silent, Kept, GrantOK
<1>6. CASE Run(id)
  <2>1. st'[id].tool_calls = held[id].tool_calls
    BY <1>2, <1>3, <1>6 DEF Run, AddMessage, State
  <2>2. pc'[id] # "executing" /\ held' = held /\ granted' = granted
    BY <1>2, <1>6 DEF Run, Goto
  <2> QED  BY <2>1, <2>2 DEF GrantOK
<1>7. CASE Return(id)
  BY <1>2, <1>3, <1>7 DEF Return, Goto, GrantOK
<1>8. CASE Raise(id)
  <2>1. /\ st'[id] = held[id] /\ held' = held /\ pc'[id] # "executing"
        /\ granted'[id] = granted[id] \cap 1..Len(held[id].tool_calls)
    BY <1>2, <1>3, <1>8 DEF Raise, Goto
  <2> QED  BY <2>1 DEF GrantOK, GuardedGranted
<1>9. CASE ToolCalled(id)
  <2> PICK tool \in Tools :
        /\ loc' = [loc EXCEPT ![id].pending = tool]
        /\ IF NeedsApproval(tool)
           THEN Enter(id, st[id], "waiting_approval", "approval")
           ELSE Enter(id, st[id], "executing", "executing")
    BY <1>9 DEF ToolCalled
  <2>1. Kept(id, st[id]) /\ (pc'[id] = "executing" => ~NeedsApproval(tool))
    BY <1>1, <1>2, EnterKeeps
  <2>2. loc'[id].pending = tool
    BY <1>2 DEF Locals
  <2>3. held' = held /\ granted' = granted
    BY <1>9 DEF ToolCalled, outside, clientVars
  <2> QED  BY <2>1, <2>2, <2>3 DEF GrantOK, Kept
<1>10. CASE Approved(id)
  <2>1. Kept(id, st[id])
    BY <1>1, <1>2, <1>10, EnterKeeps DEF Approved
  <2>2. /\ held' = held
        /\ granted'[id] = granted[id] \cup { Len(st[id].tool_calls) + 1 }
    BY <1>3, <1>10 DEF Approved, clientVars
  <2> QED  BY <2>1, <2>2 DEF GrantOK, GuardedGranted, Kept
<1>11. CASE OpenToolCall(id)
  <2> DEFINE call == [tool |-> loc[id].pending, status |-> "pending"]
             s == [st[id] EXCEPT !.tool_calls = Append(@, call)]
  <2>1. loc[id].pending \in Tools
    BY <1>1, <1>11 DEF OpenToolCall, CallOK
  <2>2. call \in ToolCall /\ call.tool = loc[id].pending
    BY <2>1 DEF ToolCall, ToolCallStatus
  <2>3. s \in State /\ s.tool_calls = Append(st[id].tool_calls, call)
    BY <1>2, <2>1, StateWithCall DEF State
  <2>4. Enter(id, s, "waiting_tool", "opened")
    BY <1>11 DEF OpenToolCall
  <2>5. NeedsApproval(call.tool) => Len(st[id].tool_calls) + 1 \in granted[id]
    BY <1>11, <2>2 DEF OpenToolCall, GrantOK
  <2>6. held' = held /\ granted' = granted
    BY <1>11 DEF OpenToolCall, outside, clientVars
  <2> HIDE DEF call, s
  <2>7. st'[id].tool_calls = Append(st[id].tool_calls, call) /\ pc'[id] # "executing"
    BY <1>1, <2>3, <2>4, EnterKeeps DEF Kept
  <2>8. GuardedGranted(Append(st[id].tool_calls, call), granted[id])
    BY <1>4, <2>2, <2>5, GrantedAppend DEF GrantOK
  <2> QED  BY <2>6, <2>7, <2>8 DEF GrantOK
<1>12. ASSUME NEW success \in BOOLEAN, Kept(id, Observed(st[id], success)),
              pc[id] = "calling", held' = held, granted' = granted,
              pc'[id] # "executing"
       PROVE  GrantOK(id)'
  <2>1. st[id].tool_calls # <<>>
    BY <1>1, <1>12 DEF CallOK, Calling, OpenCall
  <2>2. GuardedGranted(Observed(st[id], success).tool_calls, granted[id])
    BY <1>2, <2>1, GrantedObserved DEF GrantOK
  <2> QED  BY <1>12, <2>2 DEF GrantOK, Kept
<1>13. CASE ToolSucceeds(id) \/ ToolFails(id)
  BY <1>12, <1>13, ObservedSteps
<1> QED
  BY <1>5, <1>6, <1>7, <1>8, <1>9, <1>10, <1>11, <1>13 DEF Telling

-----------------------------------------------------------------------------
(* Transcripts *)

\* Only its calls and observations make a State traceable.
LEMMA TraceableKept ==
  ASSUME NEW s, NEW t, Traceable(s),
         t.tool_calls = s.tool_calls, t.observations = s.observations
  PROVE  Traceable(t)
BY DEF Traceable

LEMMA TraceableOpened ==
  ASSUME NEW s \in State, NEW t, NEW call \in ToolCall, call.status = "pending",
         Traceable(s), t.tool_calls = Append(s.tool_calls, call),
         t.observations = s.observations
  PROVE  Traceable(t)
<1> DEFINE calls == s.tool_calls
           obs   == s.observations
<1>1. /\ calls \in Seq(ToolCall) /\ obs \in Seq(Observation)
      /\ Len(calls) \in Nat /\ Len(obs) \in Nat
  BY LenProperties DEF State
<1>2. /\ Len(t.tool_calls) = Len(calls) + 1
      /\ \A i \in 1..Len(calls) : t.tool_calls[i] = calls[i]
      /\ t.tool_calls[Len(calls) + 1] = call
  BY <1>1, AppendProperties
<1>3. ASSUME NEW k \in 1..Len(obs)
      PROVE  /\ obs[k].call \in 1..Len(t.tool_calls)
             /\ t.tool_calls[obs[k].call].status =
                  IF obs[k].success THEN "completed" ELSE "failed"
  BY <1>1, <1>2 DEF Traceable
<1>4. ASSUME NEW i \in 1..Len(t.tool_calls), t.tool_calls[i].status # "pending"
      PROVE  \E k \in 1..Len(obs) : obs[k].call = i
  <2>1. i \in 1..Len(calls)
    BY <1>1, <1>2, <1>4
  <2> QED  BY <1>2, <1>4, <2>1 DEF Traceable
<1>5. \A j, k \in 1..Len(obs) : j < k => obs[j].call < obs[k].call
  BY DEF Traceable
<1> QED  BY <1>3, <1>4, <1>5 DEF Traceable

LEMMA TraceableObserved ==
  ASSUME NEW s \in State, OpenCall(s), Traceable(s), NEW success \in BOOLEAN
  PROVE  Traceable(Observed(s, success))
<1> DEFINE calls == s.tool_calls
           obs   == s.observations
           last  == Len(calls)
           o     == [call |-> last, success |-> success]
           t     == Observed(s, success)
           n     == Len(obs)
<1>1. /\ calls \in Seq(ToolCall) /\ obs \in Seq(Observation)
      /\ last \in Nat /\ n \in Nat
  BY LenProperties DEF State
<1>2. /\ last \in 1..last
      /\ Len(t.tool_calls) = last
      /\ t.tool_calls[last].status = IF success THEN "completed" ELSE "failed"
      /\ \A i \in 1..last : i # last => t.tool_calls[i] = calls[i]
  BY ClosedCalls DEF OpenCall
<1>3. t.observations = Append(obs, o)
  BY DEF Observed, State
<1>4. o \in Observation
  BY <1>1 DEF Observation
<1>5. /\ Len(t.observations) = n + 1
      /\ \A k \in 1..n : t.observations[k] = obs[k]
      /\ t.observations[n + 1] = o
  BY <1>1, <1>3, <1>4, AppendProperties
<1>6. calls[last].status = "pending"
  BY DEF OpenCall
<1>7. o.call = last /\ o.success = success
  OBVIOUS
<1> HIDE DEF t, o
<1>8. ASSUME NEW k \in 1..n
      PROVE  /\ obs[k].call \in 1..last /\ obs[k].call # last
             /\ calls[obs[k].call].status =
                  IF obs[k].success THEN "completed" ELSE "failed"
  BY <1>6 DEF Traceable
<1>9. ASSUME NEW k \in 1..Len(t.observations)
      PROVE  /\ t.observations[k].call \in 1..Len(t.tool_calls)
             /\ t.tool_calls[t.observations[k].call].status =
                  IF t.observations[k].success THEN "completed" ELSE "failed"
  <2>1. CASE k \in 1..n
    BY <1>2, <1>5, <1>8, <2>1
  <2>2. CASE k = n + 1
    BY <1>2, <1>5, <1>7, <2>2
  <2> QED  BY <1>1, <1>5, <1>9, <2>1, <2>2
<1>10. ASSUME NEW j \in 1..Len(t.observations), NEW k \in 1..Len(t.observations),
              j < k
       PROVE  t.observations[j].call < t.observations[k].call
  <2>1. j \in 1..n
    BY <1>1, <1>5, <1>10
  <2>2. CASE k \in 1..n
    BY <1>5, <1>10, <2>1, <2>2 DEF Traceable
  <2>3. CASE k = n + 1
    <3>1. obs[j].call < last
      BY <1>1, <1>8, <2>1
    <3> QED  BY <1>5, <1>7, <2>1, <2>3, <3>1
  <2> QED  BY <1>1, <1>5, <2>2, <2>3
<1>11. ASSUME NEW i \in 1..Len(t.tool_calls), t.tool_calls[i].status # "pending"
       PROVE  \E k \in 1..Len(t.observations) : t.observations[k].call = i
  <2>1. CASE i = last
    <3>1. n + 1 \in 1..Len(t.observations) /\ t.observations[n + 1].call = i
      BY <1>1, <1>5, <1>7, <2>1
    <3> QED  BY <3>1
  <2>2. CASE i # last
    <3>1. calls[i].status # "pending" /\ i \in 1..last
      BY <1>2, <1>11, <2>2
    <3>2. PICK k \in 1..n : obs[k].call = i
      BY <3>1 DEF Traceable
    <3>3. k \in 1..Len(t.observations) /\ t.observations[k].call = i
      BY <1>1, <1>5, <3>2
    <3> QED  BY <3>3
  <2> QED  BY <2>1, <2>2
<1> QED  BY <1>9, <1>10, <1>11 DEF Traceable, t

\* A run's transcript, and the one its client holds, stay traceable.
LEMMA StepTraces ==
  ASSUME IInv, NEW id \in Ids, Step(id), TraceOK(id)
  PROVE  TraceOK(id)'
<1>1. /\ TypeOK /\ PhaseOK(id) /\ CallOK(id)
  BY DEF IInv, PhaseInv, CallInv
<1>2. /\ st \in [Ids -> State] /\ pc \in [Ids -> Label] /\ loc \in [Ids -> Locals]
      /\ st[id] \in State
  BY <1>1 DEF TypeOK, ThreadTypeOK
<1>3. held \in [Ids -> State] /\ held[id] \in State
  BY <1>1 DEF TypeOK, OutsideTypeOK
<1>4. ASSUME Kept(id, st[id]), held' = held
      PROVE  TraceOK(id)'
  BY <1>4, TraceableKept DEF Kept, TraceOK
<1>5. CASE ~Telling(id)
  BY <1>4, <1>5, OtherStepsSilent DEF Silent
<1>6. CASE Run(id)
  <2>1. /\ st'[id].tool_calls = held[id].tool_calls
        /\ st'[id].observations = held[id].observations
        /\ held' = held
    BY <1>2, <1>3, <1>6 DEF Run, AddMessage, State
  <2> QED  BY <2>1, TraceableKept DEF TraceOK
<1>7. CASE Return(id)
  BY <1>3, <1>7 DEF Return, TraceOK
<1>8. CASE Raise(id)
  BY <1>2, <1>8 DEF Raise, TraceOK
<1>9. CASE ToolCalled(id)
  BY <1>1, <1>2, <1>4, <1>9, EnterKeeps DEF ToolCalled, outside, clientVars
<1>10. CASE Approved(id)
  BY <1>1, <1>2, <1>4, <1>10, EnterKeeps DEF Approved, clientVars
<1>11. CASE OpenToolCall(id)
  <2> DEFINE call == [tool |-> loc[id].pending, status |-> "pending"]
             s == [st[id] EXCEPT !.tool_calls = Append(@, call)]
  <2>1. loc[id].pending \in Tools
    BY <1>1, <1>11 DEF OpenToolCall, CallOK
  <2>2. call \in ToolCall /\ call.status = "pending"
    BY <2>1 DEF ToolCall, ToolCallStatus
  <2>3. /\ s \in State /\ s.tool_calls = Append(st[id].tool_calls, call)
        /\ s.observations = st[id].observations
    BY <1>2, <2>1, StateWithCall DEF State
  <2>4. Enter(id, s, "waiting_tool", "opened") /\ held' = held
    BY <1>11 DEF OpenToolCall, outside, clientVars
  <2> HIDE DEF call, s
  <2>5. /\ st'[id].tool_calls = Append(st[id].tool_calls, call)
        /\ st'[id].observations = st[id].observations
    BY <1>1, <2>3, <2>4, EnterKeeps DEF Kept
  <2>6. Traceable(st'[id])
    BY <1>2, <2>2, <2>5, TraceableOpened DEF TraceOK
  <2> QED  BY <2>4, <2>6 DEF TraceOK
<1>12. ASSUME NEW success \in BOOLEAN, Kept(id, Observed(st[id], success)),
              pc[id] = "calling", held' = held
       PROVE  TraceOK(id)'
  <2>1. OpenCall(st[id])
    BY <1>1, <1>12 DEF CallOK, Calling
  <2>2. Traceable(Observed(st[id], success))
    BY <1>2, <2>1, TraceableObserved DEF TraceOK
  <2>3. Traceable(st'[id])
    BY <1>12, <2>2, TraceableKept DEF Kept
  <2> QED  BY <1>12, <2>3 DEF TraceOK
<1>13. CASE ToolSucceeds(id) \/ ToolFails(id)
  BY <1>12, <1>13, ObservedSteps
<1> QED
  BY <1>5, <1>6, <1>7, <1>8, <1>9, <1>10, <1>11, <1>13 DEF Telling

-----------------------------------------------------------------------------
(* The invariants *)

\* A step of one run leaves the records of the others alone.
LEMMA StepRecords ==
  ASSUME IInv, NEW id \in Ids, Step(id)
  PROVE  \A i \in Ids : i # id => held'[i] = held[i] /\ granted'[i] = granted[i]
<1>1. held \in [Ids -> State] /\ granted \in [Ids -> SUBSET Nat]
  BY DEF IInv, TypeOK, OutsideTypeOK
<1>2. CASE ~Telling(id)
  BY <1>2, OtherStepsSilent DEF Silent
<1>3. CASE Run(id) \/ Return(id) \/ Raise(id) \/ Approved(id)
  BY <1>1, <1>3 DEF Run, Return, Raise, Approved, clientVars
<1>4. CASE ToolCalled(id) \/ OpenToolCall(id) \/ ToolSucceeds(id) \/ ToolFails(id)
  BY <1>4 DEF ToolCalled, OpenToolCall, ToolSucceeds, ToolFails, outside, clientVars
<1> QED  BY <1>2, <1>3, <1>4 DEF Telling

LEMMA TranscriptInit == Init => TranscriptInv
<1> SUFFICES ASSUME Init PROVE TranscriptInv
  OBVIOUS
<1>1. ASSUME NEW id \in Ids
      PROVE  st[id] = NewState /\ held[id] = NewState /\ pc[id] = "idle"
  BY DEF Init
<1>2. Len(NewState.tool_calls) = 0 /\ Len(NewState.observations) = 0
  BY EmptySeq DEF NewState
<1>3. Traceable(NewState) /\ \A grants : GuardedGranted(NewState.tool_calls, grants)
  BY <1>2 DEF Traceable, GuardedGranted
<1> QED  BY <1>1, <1>3 DEF TranscriptInv, GrantOK, TraceOK

LEMMA TranscriptStep == IInv /\ TranscriptInv /\ [Next]_vars => TranscriptInv'
<1> SUFFICES ASSUME IInv, TranscriptInv, [Next]_vars PROVE TranscriptInv'
  OBVIOUS
<1>1. CASE Next
  <2>1. PICK id \in Ids : Step(id)
    BY <1>1 DEF Next, Step
  <2>2. GrantOK(id)' /\ TraceOK(id)'
    BY <2>1, StepGrants, StepTraces DEF TranscriptInv
  <2>3. ASSUME NEW i \in Ids, i # id
        PROVE  GrantOK(i)' /\ TraceOK(i)'
    <3>1. /\ pc'[i] = pc[i] /\ st'[i] = st[i] /\ loc'[i] = loc[i]
          /\ held'[i] = held[i] /\ granted'[i] = granted[i]
      BY <2>1, <2>3, StepFrame, StepRecords DEF IInv, Frame
    <3> QED  BY <3>1 DEF TranscriptInv, GrantOK, TraceOK
  <2> QED  BY <2>2, <2>3 DEF TranscriptInv
<1>2. CASE UNCHANGED vars
  BY <1>2 DEF vars, outside, clientVars, TranscriptInv, GrantOK, TraceOK
<1> QED  BY <1>1, <1>2

LEMMA TranscriptInvariance == Spec => []TranscriptInv
BY TranscriptInit, TranscriptStep, Invariance, PTL DEF Spec

\* No guarded tool is ever called without an approver's yes to that call,
\* whatever is rejected, retried, resumed or cancelled (engine.py 203-223).
THEOREM GuardedCalls == Spec => []GuardedCallsGranted
<1>1. TranscriptInv => GuardedCallsGranted
  BY DEF TranscriptInv, GrantOK, GuardedGranted, GuardedCallsGranted
<1> QED  BY <1>1, TranscriptInvariance, PTL

\* Every transcript, of a running State or of one a client holds, accounts for
\* its tool calls (engine.py 224-268).
THEOREM TranscriptsTraceable == Spec => []ToolCallsTraceable
<1>1. TranscriptInv => ToolCallsTraceable
  BY DEF TranscriptInv, TraceOK, ToolCallsTraceable
<1> QED  BY <1>1, TranscriptInvariance, PTL


-----------------------------------------------------------------------------
(* The engine keeps the promise of AgentRun *)

\* What a client sees of the engine.
View(s) == [ status |-> s.status, tool_calls |-> s.tool_calls,
             observations |-> s.observations ]

HasOpenCall(id) ==
  \/ pc[id] \in { "opened", "invoke", "calling", "callDraining", "retrying" }
  \/ pc[id] = "raising" /\ st[id].status = "waiting_tool"

AtRun    == { id \in Ids : pc[id] # "idle" }
AtCall   == { id \in Ids : HasOpenCall(id) }
RunViews == [ id \in Ids |-> View(st[id]) ]
KeptViews == [ id \in Ids |-> View(held[id]) ]

PromiseStep == [Promise!Next]_<< AtRun, RunViews, AtCall, KeptViews >>

\* A run that an exception is about to leave has not ended.
RaisingInv == \A id \in Ids :
  pc[id] = "raising" => st[id].status \in { "running", "waiting_tool" }

\* A step of one id changes what the client sees of that id only.
LEMMA ViewFrame ==
  ASSUME IInv, NEW id \in Ids, Step(id)
  PROVE  /\ RunViews' = [ RunViews EXCEPT ![id] = View(st'[id]) ]
         /\ KeptViews' = [ KeptViews EXCEPT ![id] = View(held'[id]) ]
         /\ AtRun' = IF pc'[id] # "idle" THEN AtRun \cup { id } ELSE AtRun \ { id }
         /\ AtCall' = IF HasOpenCall(id)' THEN AtCall \cup { id } ELSE AtCall \ { id }
<1>1. \A i \in Ids : i # id => pc'[i] = pc[i] /\ st'[i] = st[i] /\ held'[i] = held[i]
  BY StepFrame, StepRecords DEF IInv, Frame
<1>2. RunViews' = [ RunViews EXCEPT ![id] = View(st'[id]) ]
  BY <1>1 DEF RunViews
<1>3. KeptViews' = [ KeptViews EXCEPT ![id] = View(held'[id]) ]
  BY <1>1 DEF KeptViews
<1>4. AtRun' = IF pc'[id] # "idle" THEN AtRun \cup { id } ELSE AtRun \ { id }
  BY <1>1 DEF AtRun
<1>5. AtCall' = IF HasOpenCall(id)' THEN AtCall \cup { id } ELSE AtCall \ { id }
  BY <1>1 DEF AtCall, HasOpenCall
<1> QED
  BY <1>2, <1>3, <1>4, <1>5

\* The ways in which a status may move on, and the open call with it.
MoveOK(id) ==
  LET from == st[id].status
      to   == st'[id].status
  IN \/ to = from /\ (HasOpenCall(id)' <=> HasOpenCall(id))
     \/ /\ from = "created" /\ to = "running"
        /\ ~ HasOpenCall(id) /\ ~ HasOpenCall(id)'
     \/ /\ from = "running" /\ to = "completed"
        /\ ~ HasOpenCall(id) /\ ~ HasOpenCall(id)'
     \/ /\ << from, to >> \in { << "waiting_tool", "running" >>,
                                << "running", "waiting_tool" >> }
        /\ HasOpenCall(id) /\ HasOpenCall(id)'
     \/ /\ from \in { "running", "waiting_tool" } /\ to \in { "failed", "cancelled" }
        /\ ~ HasOpenCall(id)'

\* The steps that leave calls and observations alone.
LEMMA MovesArePromised ==
  ASSUME IInv, NEW id \in Ids, Step(id), Kept(id, st[id]), held' = held,
         pc[id] # "idle", pc'[id] # "idle", MoveOK(id)
  PROVE  PromiseStep
<1> DEFINE from == st[id].status
           to   == st'[id].status
<1>1. /\ RunViews' = [ RunViews EXCEPT ![id].status = to ]
      /\ RunViews[id].status = from
  <2>1. RunViews' = [ RunViews EXCEPT ![id] = View(st'[id]) ] /\ RunViews[id] = View(st[id])
    BY ViewFrame DEF RunViews
  <2>2. View(st'[id]) = [ View(st[id]) EXCEPT !.status = to ]
    BY DEF Kept, View
  <2>3. View(st[id]).status = from
    BY DEF View
  <2> HIDE DEF from, to
  <2> QED
    BY <2>1, <2>2, <2>3
<1>2. KeptViews' = KeptViews
  BY DEF KeptViews
<1>3. AtRun' = AtRun /\ id \in AtRun
  BY ViewFrame DEF AtRun
<1>4. /\ AtCall' = IF HasOpenCall(id)' THEN AtCall \cup { id } ELSE AtCall \ { id }
      /\ id \in AtCall <=> HasOpenCall(id)
  BY ViewFrame DEF AtCall
<1>5. CASE to = from /\ (HasOpenCall(id)' <=> HasOpenCall(id))
  <2>1. RunViews' = RunViews
    <3>1. RunViews' = [ RunViews EXCEPT ![id] = View(st'[id]) ]
      BY ViewFrame
    <3>2. View(st'[id]) = View(st[id])
      BY <1>5 DEF Kept, View
    <3> QED
      BY <3>1, <3>2 DEF RunViews
  <2>2. AtCall' = AtCall
    BY <1>4, <1>5
  <2> QED
    BY <1>2, <1>3, <2>1, <2>2 DEF PromiseStep
<1>6. CASE from = "created" /\ to = "running" /\ ~ HasOpenCall(id) /\ ~ HasOpenCall(id)'
  <2>1. Promise!Start(id)
    BY <1>1, <1>2, <1>3, <1>4, <1>6
    DEF Promise!Start, Promise!Move, AtRun, AtCall, RunViews, KeptViews, HasOpenCall, View
  <2> QED
    BY <2>1 DEF PromiseStep, Promise!Next
<1>7. CASE from = "running" /\ to = "completed" /\ ~ HasOpenCall(id) /\ ~ HasOpenCall(id)'
  <2>1. Promise!Complete(id)
    BY <1>1, <1>2, <1>3, <1>4, <1>7
    DEF Promise!Complete, Promise!Move, AtRun, AtCall, RunViews, KeptViews, HasOpenCall, View
  <2> QED
    BY <2>1 DEF PromiseStep, Promise!Next
<1>8. CASE /\ << from, to >> \in { << "waiting_tool", "running" >>,
                                    << "running", "waiting_tool" >> }
           /\ HasOpenCall(id) /\ HasOpenCall(id)'
  <2>1. Promise!RetryCall(id)
    BY <1>1, <1>2, <1>3, <1>4, <1>8
    DEF Promise!RetryCall, Promise!Move, AtRun, AtCall, RunViews, KeptViews, HasOpenCall, View
  <2> QED
    BY <2>1 DEF PromiseStep, Promise!Next
<1>9. CASE /\ from \in { "running", "waiting_tool" } /\ to \in { "failed", "cancelled" }
           /\ ~ HasOpenCall(id)'
  <2>1. Promise!Stop(id)
    BY <1>1, <1>2, <1>3, <1>4, <1>9
    DEF Promise!Stop, Promise!Move, Promise!Live, AtRun, AtCall, RunViews, KeptViews, HasOpenCall, View
  <2> QED
    BY <2>1 DEF PromiseStep, Promise!Next
<1> QED
  BY <1>5, <1>6, <1>7, <1>8, <1>9 DEF MoveOK

\* Every step but those named moves the status on, or leaves the client's view.
LEMMA OtherStepsMove ==
  ASSUME IInv, NEW id \in Ids, Step(id),
         ~ (Run(id) \/ Return(id) \/ Raise(id) \/ OpenToolCall(id)
             \/ ToolSucceeds(id) \/ ToolFails(id))
  PROVE  PromiseStep
<1>1. TypeOK /\ PhaseOK(id) /\ CallOK(id)
  BY DEF IInv, PhaseInv, CallInv
<1>2. /\ st[id] \in State /\ pc \in [Ids -> Label] /\ loc[id] \in Locals
      /\ "planner" \in Error /\ "llm_timeout" \in Error /\ "max_steps" \in Error
      /\ "tool_timeout" \in Error
  BY <1>1 DEF TypeOK, ThreadTypeOK, Error
<1>3. PhaseOK(id)'
  BY StepPhases
<1>4. /\ \A target \in { "planning", "executing", "waiting_tool", "waiting_approval",
                          "completed", "cancelled", "failed" } : target \in RuntimePhase \ {"idle"}
      /\ Stops = { "cancelled", "failed" }
  BY DEF RuntimePhase, Stops
<1>5. ASSUME Kept(id, st[id]), held' = held, pc[id] # "idle", pc'[id] # "idle", MoveOK(id)
      PROVE  PromiseStep
  BY <1>5, MovesArePromised
<1>6. CASE UNCHANGED << pc, st, held >>
  BY <1>6 DEF PromiseStep, AtRun, AtCall, RunViews, KeptViews, HasOpenCall
<1>7. CASE cancel(id) \/ Clock(id) \/ WorkerEnds(id)
  BY <1>6, <1>7 DEF cancel, Clock, WorkerEnds, outside, clientVars
<1>8. CASE Start(id)
  <2>1. Kept(id, st[id]) /\ held' = held /\ pc[id] = "starting" /\ pc'[id] = "loop"
    BY <1>1, <1>2, <1>3, <1>8, EnterKeeps DEF Start, PhaseOK, outside, clientVars
  <2>2. MoveOK(id)
    BY <1>1, <1>3, <2>1 DEF PhaseOK, Planning, MoveOK, HasOpenCall
  <2> QED
    BY <1>5, <2>1, <2>2
<1>9. CASE LoopTop(id)
  <2>1. /\ phases[id] = "planning" /\ st[id].status = "running" /\ pc[id] = "loop"
        /\ held' = held
    BY <1>1, <1>9 DEF LoopTop, PhaseOK, Planning, outside, clientVars
  <2>2. CASE Fail(id, st[id], "max_steps")
    BY <1>1, <1>2, <1>5, <2>1, <2>2, TransitionsTaken, FailEffect DEF Kept, MoveOK, HasOpenCall
  <2>3. CASE Checkpoint(id, "plan")
    BY <1>1, <1>2, <1>4, <1>5, <2>1, <2>3, TransitionsTaken, CheckpointEffect
    DEF Kept, MoveOK, HasOpenCall, Label
  <2> QED
    BY <1>9, <2>2, <2>3 DEF LoopTop
<1>10. CASE SubmitPlan(id)
  <2>1. Kept(id, st[id]) /\ held' = held /\ pc[id] = "plan" /\ pc'[id] = "planning" /\ st' = st
    BY <1>2, <1>10 DEF SubmitPlan, Submit, Goto, Kept, outside, clientVars
  <2> QED
    BY <1>5, <2>1 DEF MoveOK, HasOpenCall
<1>11. CASE PlanReturns(id)
  <2>1. Kept(id, st[id]) /\ held' = held /\ pc[id] = "planning" /\ pc'[id] = "planned" /\ st' = st
    BY <1>2, <1>11 DEF PlanReturns, Goto, Kept, outside, clientVars
  <2> QED
    BY <1>5, <2>1 DEF MoveOK, HasOpenCall
<1>12. CASE PlanRaises(id)
  <2>1. /\ phases[id] = "planning" /\ st[id].status = "running" /\ pc[id] = "planning"
        /\ held' = held /\ RetryOrFail(id, st[id], "planner")
    BY <1>1, <1>12 DEF PlanRaises, PhaseOK, Planning, outside, clientVars
  <2> QED
    BY <1>1, <1>2, <1>5, <2>1, TransitionsTaken, RetryOrFailEffect DEF Kept, MoveOK, HasOpenCall
<1>13. CASE PlanTimesOut(id)
  <2>1. /\ Kept(id, st[id]) /\ held' = held /\ st' = st
        /\ pc[id] = "planning" /\ pc'[id] = "planDraining"
    BY <1>2, <1>13 DEF PlanTimesOut, Goto, Kept, outside, clientVars
  <2> QED
    BY <1>5, <2>1 DEF MoveOK, HasOpenCall
<1>14. CASE PlanGivesUp(id)
  <2>1. /\ phases[id] = "planning" /\ st[id].status = "running"
        /\ pc[id] \in { "planning", "planDraining" }
        /\ held' = held /\ Fail(id, st[id], "llm_timeout")
    BY <1>1, <1>14 DEF PlanGivesUp, PhaseOK, Planning, outside, clientVars
  <2> QED
    BY <1>1, <1>2, <1>5, <2>1, TransitionsTaken, FailEffect DEF Kept, MoveOK, HasOpenCall
<1>15. CASE Planned(id)
  <2>1. /\ phases[id] = "planning" /\ st[id].status = "running" /\ pc[id] = "planned"
        /\ held' = held /\ Checkpoint(id, "dispatch")
    BY <1>1, <1>15 DEF Planned, PhaseOK, Planning, outside, clientVars
  <2> QED
    BY <1>1, <1>2, <1>4, <1>5, <2>1, TransitionsTaken, CheckpointEffect
    DEF Kept, MoveOK, HasOpenCall, Label
<1>16. CASE Answer(id)
  <2>1. Kept(id, st[id]) /\ held' = held /\ pc[id] = "dispatch" /\ pc'[id] = "replying"
    BY <1>1, <1>2, <1>3, <1>16, EnterKeeps DEF Answer, PhaseOK, outside, clientVars
  <2>2. MoveOK(id)
    BY <1>1, <1>3, <2>1 DEF PhaseOK, Planning, MoveOK, HasOpenCall
  <2> QED
    BY <1>5, <2>1, <2>2
<1>17. CASE Complete(id)
  <2>1. /\ AddMessage(st[id], "assistant") \in State
        /\ AddMessage(st[id], "assistant").tool_calls = st[id].tool_calls
        /\ AddMessage(st[id], "assistant").observations = st[id].observations
    BY <1>2, StateWithMessage DEF AddMessage, State
  <2>2. /\ phases[id] = "executing" /\ st[id].status = "running" /\ pc[id] = "replying"
        /\ held' = held /\ Enter(id, AddMessage(st[id], "assistant"), "completed", "returning")
    BY <1>1, <1>17 DEF Complete, PhaseOK, outside, clientVars
  <2>3. /\ Kept(id, st[id]) /\ pc'[id] = "returning" /\ st'[id].status = "completed"
    BY <1>1, <1>4, <2>1, <2>2, TransitionsTaken, EnterEffect, StatusOfPhase
    DEF Kept, TerminalPhase
  <2> QED
    BY <1>5, <2>2, <2>3 DEF MoveOK, HasOpenCall
<1>18. CASE ToolCalled(id)
  <2>1. /\ Kept(id, st[id]) /\ held' = held /\ pc[id] = "dispatch"
        /\ pc'[id] \in { "approval", "executing" }
    BY <1>1, <1>2, <1>3, <1>18, EnterKeeps DEF ToolCalled, PhaseOK, outside, clientVars
  <2>2. MoveOK(id)
    BY <1>1, <1>3, <2>1 DEF PhaseOK, Planning, MoveOK, HasOpenCall
  <2> QED
    BY <1>5, <2>1, <2>2
<1>19. CASE AskApproval(id)
  <2>1. /\ phases[id] = "waiting_approval" /\ st[id].status = "running" /\ pc[id] = "approval"
        /\ held' = held
    BY <1>1, <1>19 DEF AskApproval, PhaseOK, outside, clientVars
  <2>2. CASE IsCancelled(id)
    <3>1. Enter(id, st[id], "cancelled", "returning")
      BY <1>19, <2>2 DEF AskApproval
    <3>2. Kept(id, st[id]) /\ pc'[id] = "returning" /\ st'[id].status = "cancelled"
      BY <1>1, <1>2, <1>4, <2>1, <3>1, TransitionsTaken, EnterEffect, StatusOfPhase
      DEF Kept, TerminalPhase
    <3> QED
      BY <1>5, <2>1, <3>2 DEF MoveOK, HasOpenCall
  <2>3. CASE ~ IsCancelled(id)
    <3>1. Kept(id, st[id]) /\ pc'[id] = "approving" /\ st' = st
      BY <1>2, <1>19, <2>3 DEF AskApproval, Goto, Kept
    <3> QED
      BY <1>5, <2>1, <3>1 DEF MoveOK, HasOpenCall
  <2> QED
    BY <2>2, <2>3
<1>20. CASE Approved(id)
  <2>1. Kept(id, st[id]) /\ held' = held /\ pc[id] = "approving" /\ pc'[id] = "executing"
    BY <1>1, <1>2, <1>3, <1>20, EnterKeeps DEF Approved, PhaseOK, clientVars
  <2>2. MoveOK(id)
    BY <1>1, <1>3, <2>1 DEF PhaseOK, MoveOK, HasOpenCall
  <2> QED
    BY <1>5, <2>1, <2>2
<1>21. CASE Rejected(id)
  <2> DEFINE s == AddMessage(st[id], "assistant")
  <2>1. /\ s \in State /\ s.tool_calls = st[id].tool_calls
        /\ s.observations = st[id].observations
    BY <1>2, StateWithMessage DEF AddMessage, State
  <2>2. held' = held /\ pc[id] = "approving" /\ Enter(id, s, "planning", "loop")
    BY <1>21 DEF Rejected, outside, clientVars
  <2> HIDE DEF s
  <2>3. Kept(id, st[id]) /\ pc'[id] = "loop"
    BY <1>1, <1>3, <2>1, <2>2, EnterKeeps DEF PhaseOK, Kept
  <2>4. MoveOK(id)
    BY <1>1, <1>3, <2>2, <2>3 DEF PhaseOK, Planning, MoveOK, HasOpenCall
  <2> QED
    BY <1>5, <2>2, <2>3, <2>4
<1>22. CASE ApprovalRaises(id)
  <2>1. /\ Kept(id, st[id]) /\ held' = held /\ st' = st
        /\ pc[id] = "approving" /\ pc'[id] = "raising"
    BY <1>2, <1>22 DEF ApprovalRaises, Goto, Kept, outside, clientVars
  <2>2. st[id].status = "running"
    BY <1>1, <2>1 DEF PhaseOK
  <2> QED
    BY <1>5, <2>1, <2>2 DEF MoveOK, HasOpenCall
<1>23. CASE Opened(id)
  <2>1. /\ phases[id] = "waiting_tool" /\ st[id].status = "waiting_tool" /\ pc[id] = "opened"
        /\ held' = held /\ Checkpoint(id, "invoke")
    BY <1>1, <1>23 DEF Opened, PhaseOK, Calling, outside, clientVars
  <2> QED
    BY <1>1, <1>2, <1>4, <1>5, <2>1, TransitionsTaken, CheckpointEffect
    DEF Kept, MoveOK, HasOpenCall, Label
<1>24. CASE SubmitTool(id)
  <2>1. Kept(id, st[id]) /\ held' = held /\ pc[id] = "invoke" /\ pc'[id] = "calling" /\ st' = st
    BY <1>2, <1>24 DEF SubmitTool, Submit, Goto, Kept, outside, clientVars
  <2> QED
    BY <1>5, <2>1 DEF MoveOK, HasOpenCall
<1>25. CASE ToolRaises(id)
  <2>1. /\ Kept(id, st[id]) /\ held' = held /\ st' = st
        /\ pc[id] = "calling" /\ pc'[id] = "raising"
    BY <1>2, <1>25 DEF ToolRaises, Goto, Kept, outside, clientVars
  <2>2. st[id].status = "waiting_tool"
    BY <1>1, <2>1 DEF PhaseOK, Calling
  <2> QED
    BY <1>5, <2>1, <2>2 DEF MoveOK, HasOpenCall
<1>26. CASE ToolTimesOut(id)
  <2>1. /\ Kept(id, st[id]) /\ held' = held /\ st' = st
        /\ pc[id] = "calling" /\ pc'[id] = "callDraining"
    BY <1>2, <1>26 DEF ToolTimesOut, Goto, Kept, outside, clientVars
  <2> QED
    BY <1>5, <2>1 DEF MoveOK, HasOpenCall
<1>27. CASE ToolGivesUp(id)
  <2>1. /\ phases[id] = "waiting_tool" /\ st[id].status = "waiting_tool"
        /\ pc[id] \in { "calling", "callDraining" } /\ held' = held
    BY <1>1, <1>27 DEF ToolGivesUp, ToolRanOut, PhaseOK, Calling, outside, clientVars
  <2>2. CASE LastAttempt(id)
    <3>1. Fail(id, st[id], "tool_timeout")
      BY <1>27, <2>2 DEF ToolGivesUp
    <3> QED
      BY <1>1, <1>2, <1>5, <2>1, <3>1, TransitionsTaken, FailEffect DEF Kept, MoveOK, HasOpenCall
  <2>3. CASE ~ LastAttempt(id)
    <3>1. Enter(id, st[id], "executing", "retrying")
      BY <1>27, <2>3 DEF ToolGivesUp
    <3>2. Kept(id, st[id]) /\ pc'[id] = "retrying" /\ st'[id].status = "running"
      BY <1>1, <1>2, <1>4, <2>1, <3>1, TransitionsTaken, EnterEffect, StatusOfPhase DEF Kept
    <3> QED
      BY <1>5, <2>1, <3>2 DEF MoveOK, HasOpenCall
  <2> QED
    BY <2>2, <2>3
<1>28. CASE RetryTool(id)
  <2>1. Kept(id, st[id]) /\ held' = held /\ pc[id] = "retrying" /\ pc'[id] = "invoke"
    BY <1>1, <1>2, <1>3, <1>28, EnterKeeps DEF RetryTool, PhaseOK, outside, clientVars
  <2>2. MoveOK(id)
    BY <1>1, <1>3, <2>1 DEF PhaseOK, Calling, MoveOK, HasOpenCall
  <2> QED
    BY <1>5, <2>1, <2>2
<1> QED
  BY <1>7, <1>8, <1>9, <1>10, <1>11, <1>12, <1>13, <1>14, <1>15, <1>16, <1>17, <1>18,
     <1>19, <1>20, <1>21, <1>22, <1>23, <1>24, <1>25, <1>26, <1>27, <1>28
  DEF Step, Thread, TimesOut, Approver

\* The six steps a client hears of.
LEMMA RunIsPromised ==
  ASSUME IInv, NEW id \in Ids, Run(id)
  PROVE  PromiseStep
<1>1. /\ st \in [Ids -> State] /\ held \in [Ids -> State] /\ pc \in [Ids -> Label]
      /\ held[id] \in State
  BY DEF IInv, TypeOK, ThreadTypeOK, OutsideTypeOK
<1>2. Step(id)
  BY DEF Step
<1>3. /\ pc[id] = "idle" /\ pc'[id] = "starting" /\ held' = held
      /\ st'[id] = [AddMessage(held[id], "user") EXCEPT !.status = "created"]
  BY <1>1 DEF Run, Goto
<1>4. View(st'[id]) = [ View(held[id]) EXCEPT !.status = "created" ]
  BY <1>1, <1>3 DEF View, AddMessage, State
<1>5. RunViews' = [ RunViews EXCEPT ![id] = [ KeptViews[id] EXCEPT !.status = "created" ] ]
  BY <1>2, <1>4, ViewFrame DEF KeptViews
<1>6. KeptViews' = KeptViews
  BY <1>3 DEF KeptViews
<1>7. AtRun' = AtRun \cup { id } /\ id \notin AtRun
  BY <1>2, <1>3, ViewFrame DEF AtRun
<1>8. AtCall' = AtCall
  BY <1>2, <1>3, ViewFrame DEF HasOpenCall, AtCall
<1>9. Promise!Begin(id)
  BY <1>5, <1>6, <1>7, <1>8
  DEF Promise!Begin, AtRun, AtCall, RunViews, KeptViews, HasOpenCall, View
<1> QED
  BY <1>9 DEF PromiseStep, Promise!Next

LEMMA ReturnIsPromised ==
  ASSUME IInv, NEW id \in Ids, Return(id)
  PROVE  PromiseStep
<1>1. /\ st \in [Ids -> State] /\ held \in [Ids -> State] /\ pc \in [Ids -> Label]
      /\ PhaseOK(id)
  BY DEF IInv, TypeOK, ThreadTypeOK, OutsideTypeOK, PhaseInv
<1>2. Step(id)
  BY DEF Step, Thread
<1>3. /\ pc[id] = "returning" /\ pc'[id] = "idle" /\ st' = st /\ held'[id] = st[id]
      /\ st[id].status \in TerminalPhase
  BY <1>1 DEF Return, Goto, PhaseOK
<1>4. RunViews' = RunViews /\ RunViews[id].status \in Promise!Terminal
  BY <1>3 DEF RunViews, View, TerminalPhase, Promise!Terminal
<1>5. KeptViews' = [ KeptViews EXCEPT ![id] = RunViews[id] ]
  BY <1>2, <1>3, ViewFrame DEF RunViews
<1>6. AtRun' = AtRun \ { id } /\ id \in AtRun
  BY <1>2, <1>3, ViewFrame DEF AtRun
<1>7. AtCall' = AtCall
  BY <1>2, <1>3, ViewFrame DEF HasOpenCall, AtCall
<1>8. Promise!Return(id)
  BY <1>4, <1>5, <1>6, <1>7
  DEF Promise!Return, AtRun, AtCall, RunViews, KeptViews, HasOpenCall, View
<1> QED
  BY <1>8 DEF PromiseStep, Promise!Next

LEMMA RaiseIsPromised ==
  ASSUME IInv, RaisingInv, NEW id \in Ids, Raise(id)
  PROVE  PromiseStep
<1>1. /\ st \in [Ids -> State] /\ held \in [Ids -> State] /\ pc \in [Ids -> Label]
      /\ PhaseOK(id)
  BY DEF IInv, TypeOK, ThreadTypeOK, OutsideTypeOK, PhaseInv
<1>2. Step(id)
  BY DEF Step, Thread
<1>3. /\ pc[id] = "raising" /\ pc'[id] = "idle" /\ st'[id] = held[id] /\ held' = held
      /\ st[id].status \in { "running", "waiting_tool" }
  BY <1>1 DEF Raise, Goto, PhaseOK, RaisingInv
<1>4. RunViews[id].status \in Promise!Live
  BY <1>3 DEF RunViews, View, Promise!Live
<1>5. RunViews' = [ RunViews EXCEPT ![id] = KeptViews[id] ] /\ KeptViews' = KeptViews
  BY <1>2, <1>3, ViewFrame DEF KeptViews
<1>6. AtRun' = AtRun \ { id } /\ id \in AtRun
  BY <1>2, <1>3, ViewFrame DEF AtRun
<1>7. AtCall' = AtCall \ { id }
  BY <1>2, <1>3, ViewFrame DEF HasOpenCall
<1>8. Promise!Abandon(id)
  BY <1>4, <1>5, <1>6, <1>7
  DEF Promise!Abandon, AtRun, AtCall, RunViews, KeptViews, HasOpenCall, View
<1> QED
  BY <1>8 DEF PromiseStep, Promise!Next

\* What a view becomes when a call is opened, and when it is observed.
ViewOpened(v, call) ==
  [ v EXCEPT !.tool_calls = Append(@, call), !.status = "waiting_tool" ]

ViewObserved(v, success, next) ==
  [ v EXCEPT
      !.tool_calls[Len(v.tool_calls)].status = IF success THEN "completed" ELSE "failed",
      !.observations = Append(@, [ call |-> Len(v.tool_calls), success |-> success ]),
      !.status = next ]

\* Views are equal when their fields are.
LEMMA EqualViews ==
  ASSUME NEW t, NEW v,
         v = [ f \in { "status", "tool_calls", "observations" } |-> v[f] ],
         v.status = t.status, v.tool_calls = t.tool_calls, v.observations = t.observations
  PROVE  View(t) = v
<1> DEFINE w == View(t)
<1>1. w = [ f \in { "status", "tool_calls", "observations" } |-> w[f] ]
  BY DEF View
<1>2. w.status = v.status /\ w.tool_calls = v.tool_calls /\ w.observations = v.observations
  BY DEF View
<1> HIDE DEF w
<1>3. w = v
  BY <1>1, <1>2
<1> QED
  BY <1>3 DEF w

LEMMA OpenedIsViewOpened ==
  ASSUME NEW s, NEW t, NEW call, t.status = "waiting_tool",
         t.tool_calls = Append(s.tool_calls, call), t.observations = s.observations
  PROVE  View(t) = ViewOpened(View(s), call)
<1> DEFINE v == ViewOpened(View(s), call)
<1>1. v = [ f \in { "status", "tool_calls", "observations" } |-> v[f] ]
  BY DEF View, ViewOpened
<1>2. v.status = t.status /\ v.tool_calls = t.tool_calls /\ v.observations = t.observations
  BY DEF View, ViewOpened
<1> HIDE DEF v
<1>3. View(t) = v
  BY <1>1, <1>2, EqualViews
<1> QED
  BY <1>3 DEF v

LEMMA ObservedIsViewObserved ==
  ASSUME NEW s \in State, NEW success \in BOOLEAN, NEW next, NEW t, t.status = next,
         t.tool_calls = Observed(s, success).tool_calls,
         t.observations = Observed(s, success).observations
  PROVE  View(t) = ViewObserved(View(s), success, next)
<1> DEFINE v == ViewObserved(View(s), success, next)
<1>1. /\ Observed(s, success).tool_calls =
           [ s.tool_calls EXCEPT ![Len(s.tool_calls)].status =
               IF success THEN "completed" ELSE "failed" ]
      /\ Observed(s, success).observations =
           Append(s.observations, [ call |-> Len(s.tool_calls), success |-> success ])
  BY DEF Observed, State
<1>2. View(s).tool_calls = s.tool_calls /\ View(s).observations = s.observations
  BY DEF View
<1>3. v = [ f \in { "status", "tool_calls", "observations" } |-> v[f] ]
  BY DEF View, ViewObserved
<1>4. /\ v.status = next
      /\ v.tool_calls = [ s.tool_calls EXCEPT ![Len(s.tool_calls)].status =
               IF success THEN "completed" ELSE "failed" ]
      /\ v.observations =
           Append(s.observations, [ call |-> Len(s.tool_calls), success |-> success ])
  BY DEF View, ViewObserved
<1> HIDE DEF v
<1>5. v.tool_calls = t.tool_calls /\ v.observations = t.observations /\ v.status = t.status
  BY <1>1, <1>4
<1>6. View(t) = v
  BY <1>3, <1>5, EqualViews
<1> QED
  BY <1>6 DEF v

LEMMA OpeningIsPromised ==
  ASSUME IInv, NEW id \in Ids, OpenToolCall(id)
  PROVE  PromiseStep
<1> DEFINE call == [ tool |-> loc[id].pending, status |-> "pending" ]
           s == [ st[id] EXCEPT !.tool_calls = Append(@, call) ]
<1>1. /\ TypeOK /\ st \in [Ids -> State] /\ st[id] \in State /\ PhaseOK(id) /\ CallOK(id)
      /\ PhaseOK(id)'
  BY StepPhases DEF IInv, TypeOK, ThreadTypeOK, PhaseInv, CallInv, Step, Thread
<1>2. Step(id)
  BY DEF Step, Thread
<1>3. /\ pc[id] = "executing" /\ st[id].status = "running" /\ phases[id] = "executing"
      /\ loc[id].pending \in Tools /\ held' = held
  BY <1>1 DEF OpenToolCall, PhaseOK, CallOK, outside, clientVars
<1>4. /\ s \in State /\ s.tool_calls = Append(st[id].tool_calls, call)
      /\ s.observations = st[id].observations
  BY <1>1, <1>3, StateWithCall DEF State
<1>5. Enter(id, s, "waiting_tool", "opened")
  BY DEF OpenToolCall
<1> HIDE DEF call, s
<1>6. /\ pc'[id] = "opened" /\ st'[id].status = "waiting_tool"
      /\ st'[id].tool_calls = Append(st[id].tool_calls, call)
      /\ st'[id].observations = st[id].observations
  <2>1. MayEnter(phases[id], "waiting_tool")
    BY <1>3, TransitionsTaken
  <2>2. to_state_status["waiting_tool"] = "waiting_tool"
    BY StatusOfPhase
  <2>3. "waiting_tool" \in RuntimePhase \ {"idle"}
    BY DEF RuntimePhase
  <2> QED
    BY <1>1, <1>4, <1>5, <2>1, <2>2, <2>3, EnterEffect
<1>7. View(st'[id]) = ViewOpened(View(st[id]), call)
  BY <1>6, OpenedIsViewOpened
<1>8. /\ RunViews' = [ RunViews EXCEPT ![id].tool_calls = Append(@, call),
                                       ![id].status = "waiting_tool" ]
      /\ RunViews[id].status = "running"
  <2>1. RunViews' = [ RunViews EXCEPT ![id] = View(st'[id]) ]
    BY <1>2, ViewFrame
  <2>2. RunViews[id] = View(st[id]) /\ View(st[id]).status = "running"
    BY <1>3 DEF RunViews, View
  <2>3. id \in DOMAIN RunViews /\ RunViews = [ i \in DOMAIN RunViews |-> RunViews[i] ]
    BY DEF RunViews
  <2>4. [ RunViews EXCEPT ![id].tool_calls = Append(@, call), ![id].status = "waiting_tool" ]
          = [ RunViews EXCEPT ![id] = ViewOpened(RunViews[id], call) ]
    BY <2>3 DEF ViewOpened
  <2> QED
    BY <1>7, <2>1, <2>2, <2>4
<1>9. KeptViews' = KeptViews
  BY <1>3 DEF KeptViews
<1>10. AtRun' = AtRun /\ id \in AtRun
  BY <1>2, <1>3, <1>6, ViewFrame DEF AtRun
<1>11. AtCall' = AtCall \cup { id } /\ id \notin AtCall
  BY <1>2, <1>3, <1>6, ViewFrame DEF HasOpenCall, AtCall
<1>12. PICK tool \in Tools : tool = loc[id].pending
  BY <1>3
<1>13. Promise!OpenCall(id, tool)
  BY <1>8, <1>9, <1>10, <1>11, <1>12
  DEF Promise!OpenCall, AtRun, AtCall, RunViews, KeptViews, HasOpenCall, View, call
<1> QED
  BY <1>13 DEF PromiseStep, Promise!Next

LEMMA ObservingIsPromised ==
  ASSUME IInv, NEW id \in Ids, ToolSucceeds(id) \/ ToolFails(id)
  PROVE  PromiseStep
<1>1. /\ TypeOK /\ st[id] \in State /\ PhaseOK(id) /\ CallOK(id)
      /\ "planning" \in RuntimePhase \ {"idle"} /\ "tool_failed" \in Error
  BY DEF IInv, TypeOK, ThreadTypeOK, PhaseInv, CallInv, RuntimePhase, Error
<1>2. Step(id)
  BY DEF Step, Thread
<1>3. /\ pc[id] = "calling" /\ st[id].status = "waiting_tool" /\ phases[id] = "waiting_tool"
      /\ held' = held /\ st[id].tool_calls # <<>>
  BY <1>1 DEF ToolSucceeds, ToolFails, PhaseOK, CallOK, Calling, OpenCall, outside, clientVars
<1>4. \A success \in BOOLEAN : Observed(st[id], success) \in State
  BY <1>1, <1>3, StateObserved
<1>5. MayEnter(phases[id], "planning") /\ MayEnter(phases[id], "failed")
  BY <1>3, TransitionsTaken
<1>6. \E success \in BOOLEAN : \E next \in { "running" } \cup (IF success THEN {} ELSE { "failed" }) :
        /\ st'[id].status = next /\ Kept(id, Observed(st[id], success))
        /\ pc'[id] \in { "loop", "returning" }
  <2>1. CASE ToolSucceeds(id)
    <3> DEFINE s == Observed(st[id], TRUE)
    <3>1. s \in State /\ Enter(id, s, "planning", "loop")
      BY <1>4, <2>1 DEF ToolSucceeds
    <3> HIDE DEF s
    <3>2. st'[id].status = "running" /\ Kept(id, s) /\ pc'[id] = "loop"
      BY <1>1, <1>5, <3>1, EnterEffect, StatusOfPhase DEF Kept
    <3> QED
      BY <3>2 DEF s
  <2>2. CASE ToolFails(id)
    <3> DEFINE s == Observed(st[id], FALSE)
    <3>1. s \in State /\ RetryOrFail(id, s, "tool_failed")
      BY <1>4, <2>2 DEF ToolFails
    <3> HIDE DEF s
    <3>2. /\ st'[id].status \in { "running", "failed" } /\ Kept(id, s)
          /\ pc'[id] \in { "loop", "returning" }
      BY <1>1, <1>5, <3>1, RetryOrFailEffect DEF Kept
    <3> QED
      BY <3>2 DEF s
  <2> QED
    BY <2>1, <2>2
<1>7. PICK success \in BOOLEAN, next \in { "running", "failed" } :
        /\ next = "failed" => ~ success
        /\ st'[id].status = next /\ Kept(id, Observed(st[id], success))
        /\ pc'[id] \in { "loop", "returning" }
  BY <1>6
<1> DEFINE last == Len(RunViews[id].tool_calls)
<1>8. RunViews' = [ RunViews EXCEPT
        ![id].tool_calls[last].status = IF success THEN "completed" ELSE "failed",
        ![id].observations = Append(@, [ call |-> last, success |-> success ]),
        ![id].status = next ]
  <2>1. RunViews' = [ RunViews EXCEPT ![id] = View(st'[id]) ]
    BY <1>2, ViewFrame
  <2>2. /\ RunViews[id] = View(st[id]) /\ id \in DOMAIN RunViews
        /\ RunViews = [ i \in DOMAIN RunViews |-> RunViews[i] ]
    BY DEF RunViews
  <2>3. View(st'[id]) = ViewObserved(View(st[id]), success, next)
    <3>1. /\ st'[id].tool_calls = Observed(st[id], success).tool_calls
          /\ st'[id].observations = Observed(st[id], success).observations
          /\ st'[id].status = next
      BY <1>7 DEF Kept
    <3> QED
      BY <1>1, <3>1, ObservedIsViewObserved
  <2>4. [ RunViews EXCEPT
          ![id].tool_calls[last].status = IF success THEN "completed" ELSE "failed",
          ![id].observations = Append(@, [ call |-> last, success |-> success ]),
          ![id].status = next ]
            = [ RunViews EXCEPT ![id] = ViewObserved(RunViews[id], success, next) ]
    BY <2>2 DEF ViewObserved
  <2> QED
    BY <2>1, <2>2, <2>3, <2>4
<1>9. RunViews[id].status = "waiting_tool"
  BY <1>3 DEF RunViews, View
<1>10. KeptViews' = KeptViews
  BY <1>3 DEF KeptViews
<1>11. AtRun' = AtRun /\ id \in AtRun
  BY <1>2, <1>3, <1>7, ViewFrame DEF AtRun
<1>12. AtCall' = AtCall \ { id } /\ id \in AtCall
  BY <1>2, <1>3, <1>7, ViewFrame DEF HasOpenCall, AtCall
<1>13. Promise!Observe(id, success)
  BY <1>7, <1>8, <1>9, <1>10, <1>11, <1>12
  DEF Promise!Observe, AtRun, AtCall, RunViews, KeptViews, HasOpenCall, View
<1> QED
  BY <1>13 DEF PromiseStep, Promise!Next

\* Only an approver and a tool let an exception through.
LEMMA OnlyTheseRaise ==
  ASSUME IInv, NEW id \in Ids, Step(id), pc'[id] = "raising"
  PROVE  ApprovalRaises(id) \/ ToolRaises(id) \/ UNCHANGED << pc, st >>
<1>1. TypeOK /\ pc \in [Ids -> Label] /\ st[id] \in State /\ CallOK(id)
  BY DEF IInv, TypeOK, ThreadTypeOK, CallInv
<1>2. /\ "max_steps" \in Error /\ "planner" \in Error /\ "llm_timeout" \in Error
      /\ "tool_timeout" \in Error
  BY DEF Error
<1>3. CASE cancel(id) \/ Clock(id) \/ WorkerEnds(id)
  BY <1>3 DEF cancel, Clock, WorkerEnds
<1>4. CASE Run(id) \/ Return(id) \/ Raise(id) \/ SubmitPlan(id) \/ PlanReturns(id)
           \/ SubmitTool(id) \/ PlanTimesOut(id) \/ ToolTimesOut(id)
  BY <1>1, <1>4 DEF Run, Return, Raise, SubmitPlan, PlanReturns, SubmitTool, PlanTimesOut,
     ToolTimesOut, Submit, Goto
<1>5. CASE Start(id) \/ Answer(id) \/ ToolCalled(id) \/ Approved(id) \/ RetryTool(id)
  BY <1>1, <1>5, EnterKeeps DEF Start, Answer, ToolCalled, Approved, RetryTool
<1>6. CASE LoopTop(id)
  BY <1>1, <1>2, <1>6, FailKeeps, CheckpointKeeps DEF LoopTop
<1>7. CASE PlanRaises(id)
  BY <1>1, <1>2, <1>7, RetryOrFailKeeps DEF PlanRaises
<1>8. CASE PlanGivesUp(id)
  BY <1>1, <1>2, <1>8, FailKeeps DEF PlanGivesUp
<1>9. CASE Planned(id) \/ Opened(id)
  BY <1>1, <1>9, CheckpointKeeps DEF Planned, Opened
<1>10. CASE Complete(id) \/ Rejected(id)
  <2>1. AddMessage(st[id], "assistant") \in State
    BY <1>1, StateWithMessage DEF AddMessage
  <2> QED
    BY <1>1, <1>10, <2>1, EnterKeeps DEF Complete, Rejected
<1>11. CASE AskApproval(id)
  <2>1. CASE IsCancelled(id)
    BY <1>1, <1>11, <2>1, EnterKeeps DEF AskApproval
  <2>2. CASE ~ IsCancelled(id)
    BY <1>1, <1>11, <2>2 DEF AskApproval, Goto
  <2> QED
    BY <2>1, <2>2
<1>12. CASE OpenToolCall(id)
  <2> DEFINE s == [ st[id] EXCEPT !.tool_calls =
                      Append(@, [ tool |-> loc[id].pending, status |-> "pending" ]) ]
  <2>1. s \in State
    BY <1>1, <1>12, StateWithCall DEF OpenToolCall, CallOK
  <2>2. Enter(id, s, "waiting_tool", "opened")
    BY <1>12 DEF OpenToolCall
  <2> HIDE DEF s
  <2> QED
    BY <1>1, <2>1, <2>2, EnterKeeps
<1>13. CASE ToolGivesUp(id)
  <2>1. CASE LastAttempt(id)
    BY <1>1, <1>2, <1>13, <2>1, FailKeeps DEF ToolGivesUp
  <2>2. CASE ~ LastAttempt(id)
    BY <1>1, <1>13, <2>2, EnterKeeps DEF ToolGivesUp
  <2> QED
    BY <2>1, <2>2
<1>14. CASE ToolSucceeds(id) \/ ToolFails(id)
  <2>1. st[id].tool_calls # <<>>
    BY <1>1, <1>14 DEF ToolSucceeds, ToolFails, CallOK, Calling, OpenCall
  <2> DEFINE good == Observed(st[id], TRUE)
             bad  == Observed(st[id], FALSE)
  <2>2. good \in State /\ bad \in State /\ "tool_failed" \in Error
    BY <1>1, <2>1, StateObserved DEF Error
  <2>3. Enter(id, good, "planning", "loop") \/ RetryOrFail(id, bad, "tool_failed")
    BY <1>14 DEF ToolSucceeds, ToolFails
  <2> HIDE DEF good, bad
  <2> QED
    BY <1>1, <2>2, <2>3, EnterKeeps, RetryOrFailKeeps
<1> QED
  BY <1>3, <1>4, <1>5, <1>6, <1>7, <1>8, <1>9, <1>10, <1>11, <1>12, <1>13, <1>14
  DEF Step, Thread, TimesOut, Approver

LEMMA RaisingStep == IInv /\ RaisingInv /\ [Next]_vars => RaisingInv'
<1> SUFFICES ASSUME IInv, RaisingInv, [Next]_vars, NEW i \in Ids, pc'[i] = "raising"
             PROVE  st'[i].status \in { "running", "waiting_tool" }
  BY DEF RaisingInv
<1>1. CASE Next
  <2>1. PICK id \in Ids : Step(id)
    BY <1>1 DEF Next, Step
  <2>2. CASE i # id
    BY <2>1, <2>2, StepFrame DEF IInv, Frame, RaisingInv
  <2>3. CASE i = id
    <3>1. /\ TypeOK /\ PhaseOK(id) /\ PhaseOK(id)' /\ st[id] \in State
          /\ pc \in [Ids -> Label]
      BY <2>1, StepPhases DEF IInv, PhaseInv, TypeOK, ThreadTypeOK
    <3>2. CASE ApprovalRaises(id) \/ ToolRaises(id)
      BY <2>3, <3>1, <3>2 DEF ApprovalRaises, ToolRaises, PhaseOK, Calling
    <3>3. CASE UNCHANGED << pc, st >>
      BY <3>3 DEF RaisingInv
    <3> QED
      BY <2>1, <2>3, <3>2, <3>3, OnlyTheseRaise
  <2> QED
    BY <2>2, <2>3
<1>2. CASE UNCHANGED vars
  BY <1>2 DEF vars, RaisingInv
<1> QED
  BY <1>1, <1>2

\* The engine keeps, for any number of runs, tools, retries and steps, the
\* promise that AgentRun states to the clients of run() (engine.py 90-138).
THEOREM EngineKeepsPromise == Spec => KeepsPromise
<1>1. Init => Promise!Init
  BY DEF Init, Promise!Init, Promise!New, NewState
<1>2. Init => RaisingInv
  BY DEF Init, RaisingInv
<1>3. IInv /\ RaisingInv /\ [Next]_vars => PromiseStep
  <2> SUFFICES ASSUME IInv, RaisingInv, [Next]_vars PROVE PromiseStep
    OBVIOUS
  <2>1. CASE Next
    <3>1. PICK id \in Ids : Step(id)
      BY <2>1 DEF Next, Step
    <3> QED
      BY <3>1, OtherStepsMove, RunIsPromised, ReturnIsPromised, RaiseIsPromised,
         OpeningIsPromised, ObservingIsPromised
  <2>2. CASE UNCHANGED vars
    BY <2>2 DEF vars, outside, clientVars, PromiseStep, AtRun, AtCall, RunViews, KeptViews, HasOpenCall
  <2> QED
    BY <2>1, <2>2
<1>4. Promise!Spec <=>
        Promise!Init /\ [][Promise!Next]_<< AtRun, RunViews, AtCall, KeptViews >>
  BY DEF Promise!Spec, Promise!vars, AtRun, RunViews, AtCall, KeptViews, HasOpenCall, View
<1> QED
  BY <1>1, <1>2, <1>3, <1>4, RaisingStep, Invariance, PTL DEF Spec, KeepsPromise, PromiseStep
=============================================================================
