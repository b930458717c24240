------------------------- MODULE RuntimeEngineStops -------------------------
(***************************************************************************)
(* Proofs about how the runs of RuntimeEngine stop: one worker at a time,  *)
(* at most two calls once told to, never on another run's request, and     *)
(* with a State that says how.                                             *)
(***************************************************************************)
EXTENDS RuntimeEngineProofs, FiniteSetTheorems

-----------------------------------------------------------------------------
(* The inductive invariants, next to IInv *)

Waiting == { "planning", "planDraining", "calling", "callDraining" }

\* The only worker is the one the thread waits for.
WorkerOK(id) ==
  /\ pc[id] = "planning" =>
       workers[id] = IF future[id] = "pending" THEN { PlanJob } ELSE {}
  /\ pc[id] = "planDraining" => workers[id] \subseteq { PlanJob }
  /\ pc[id] = "calling" =>
       workers[id] =
         IF future[id] = "pending" THEN { ToolJob(loc[id].attempt) } ELSE {}
  /\ pc[id] = "callDraining" => workers[id] \subseteq { ToolJob(loc[id].attempt) }
  /\ pc[id] \notin Waiting => workers[id] = {}

\* How many calls a run that was told to stop may have begun.  A checkpoint
\* that is passed shows that there are none.
NoneLate(id) ==
  \/ pc[id] \in { "starting", "plan", "dispatch", "approval", "replying" }
  \/ pc[id] = "invoke" /\ loc[id].attempt = 1

OneLate(id) ==
  \/ pc[id] \in { "planning", "planDraining", "planned", "approving",
                  "executing", "opened", "retrying" }
  \/ pc[id] = "invoke"
  \/ pc[id] \in { "calling", "callDraining" } /\ loc[id].attempt = 1

LateOK(id) ==
  /\ pc[id] # "idle" /\ late[id] > 0 => ToldToStop(id)
  /\ NoneLate(id) => late[id] = 0
  /\ OneLate(id) => late[id] <= 1
  /\ late[id] <= 2

\* Requests are remembered exactly as long as they are heeded.
AskOK(id) ==
  /\ id \in asked <=> id \in cancelled
  /\ pc[id] = "returning" /\ st[id].status = "cancelled" => id \in asked

Explained(s) ==
  /\ s.status = "failed" => s.error # "none"
  /\ s.status = "completed" =>
       s.messages # <<>> /\ s.messages[Len(s.messages)] = "assistant"

FinalOK(id) ==
  /\ pc[id] = "returning" => Explained(st[id])
  /\ pc[id] = "idle" /\ outcome[id] = "returned" =>
       /\ held[id].status \in TerminalPhase
       /\ phases[id] = held[id].status
       /\ id \notin active
       /\ Explained(held[id])

StopOK(id) == WorkerOK(id) /\ LateOK(id) /\ AskOK(id) /\ FinalOK(id)

StopInv == \A id \in Ids : StopOK(id)

-----------------------------------------------------------------------------
(* Where the helpers of the engine lead *)

LEMMA EnterMoves ==
  ASSUME TypeOK, NEW id \in Ids, NEW s \in State, NEW target, NEW label,
         Enter(id, s, target, label)
  PROVE  \/ pc'[id] = "invalid"
         \/ /\ pc'[id] = label
            /\ st'[id].status = to_state_status[target]
            /\ st'[id].messages = s.messages /\ st'[id].error = s.error
<1>1. st \in [Ids -> State] /\ pc \in [Ids -> Label]
  BY DEF TypeOK, ThreadTypeOK
<1>2. CASE MayEnter(phases[id], target)
  <2>1. /\ pc'[id] = label
        /\ st'[id] = [s EXCEPT !.status = to_state_status[target]]
    BY <1>1, <1>2, Entering
  <2> QED  BY <2>1 DEF State
<1>3. CASE ~MayEnter(phases[id], target)
  BY <1>1, <1>3 DEF Enter, Goto
<1> QED  BY <1>2, <1>3

LEMMA FailMoves ==
  ASSUME TypeOK, NEW id \in Ids, NEW s \in State, NEW error \in Error,
         Fail(id, s, error)
  PROVE  \/ pc'[id] = "invalid"
         \/ /\ pc'[id] = "returning"
            /\ st'[id].status = "failed" /\ st'[id].error = error
<1> DEFINE t == [s EXCEPT !.error = error]
<1>1. t \in State /\ t.error = error
  BY StateWithError DEF State
<1>2. Enter(id, t, "failed", "returning")
  BY DEF Fail
<1> HIDE DEF t
<1> QED  BY <1>1, <1>2, EnterMoves, StatusOfPhase DEF TerminalPhase

LEMMA CheckpointMoves ==
  ASSUME TypeOK, NEW id \in Ids, NEW label, Checkpoint(id, label)
  PROVE  \/ pc'[id] = "invalid"
         \/ /\ pc'[id] = "returning"
            /\ \/ IsCancelled(id) /\ st'[id].status = "cancelled"
               \/ st'[id].status = "failed" /\ st'[id].error # "none"
         \/ pc'[id] = label /\ st' = st /\ ~ToldToStop(id)
<1>1. st[id] \in State /\ pc \in [Ids -> Label]
  BY DEF TypeOK, ThreadTypeOK
<1>2. CASE IsCancelled(id) /\ Enter(id, st[id], "cancelled", "returning")
  BY <1>1, <1>2, EnterMoves, StatusOfPhase DEF TerminalPhase
<1>3. CASE Fail(id, st[id], "run_timeout")
  BY <1>1, <1>3, FailMoves DEF Error
<1>4. CASE ~ToldToStop(id) /\ Goto(id, label) /\ UNCHANGED << phases, st >>
  BY <1>1, <1>4 DEF Goto
<1> QED  BY <1>2, <1>3, <1>4 DEF Checkpoint

LEMMA RetryOrFailMoves ==
  ASSUME TypeOK, NEW id \in Ids, NEW s \in State, NEW error \in Error,
         RetryOrFail(id, s, error)
  PROVE  \/ pc'[id] \in { "invalid", "loop" }
         \/ /\ pc'[id] = "returning"
            /\ st'[id].status = "failed" /\ st'[id].error = error
<1>1. CASE Fail(id, s, error)
  BY <1>1, FailMoves
<1>2. CASE Enter(id, s, "planning", "loop")
  BY <1>2, EnterMoves
<1> QED  BY <1>1, <1>2 DEF RetryOrFail

-----------------------------------------------------------------------------
(* Workers *)

LEMMA StepWorkers ==
  ASSUME IInv, NEW id \in Ids, Step(id), WorkerOK(id)
  PROVE  WorkerOK(id)'
<1>1. /\ pc \in [Ids -> Label] /\ workers \in [Ids -> SUBSET Job]
      /\ future \in [Ids -> Result] /\ loc \in [Ids -> Locals]
  BY DEF IInv, TypeOK, ThreadTypeOK
<1>2. ASSUME workers[id] = {}, workers' = workers, pc'[id] \notin Waiting
      PROVE  WorkerOK(id)'
  BY <1>2 DEF WorkerOK, Waiting
<1>3. ASSUME pc'[id] = pc[id], workers' = workers, future' = future, loc' = loc
      PROVE  WorkerOK(id)'
  BY <1>3 DEF WorkerOK
<1>4. CASE Run(id)
  BY <1>1, <1>2, <1>4 DEF Run, Goto, callVars, WorkerOK, Waiting
<1>5. CASE Start(id)
  BY <1>1, <1>2, <1>5 DEF Start, Enter, Goto, callVars, WorkerOK, Waiting
<1>6. CASE Return(id)
  BY <1>1, <1>2, <1>6 DEF Return, Goto, callVars, WorkerOK, Waiting
<1>7. CASE Raise(id)
  BY <1>1, <1>2, <1>7 DEF Raise, Goto, callVars, WorkerOK, Waiting
<1>8. CASE LoopTop(id)
  BY <1>1, <1>2, <1>8 DEF LoopTop, Checkpoint, Fail, Enter, Goto, callVars, WorkerOK, Waiting
<1>9. CASE PlanReturns(id)
  BY <1>1, <1>2, <1>9 DEF PlanReturns, Goto, callVars, WorkerOK, Waiting
<1>10. CASE PlanRaises(id)
  BY <1>1, <1>2, <1>10 DEF PlanRaises, RetryOrFail, Fail, Enter, Goto, WorkerOK, Waiting
<1>11. CASE PlanGivesUp(id)
  BY <1>1, <1>2, <1>11 DEF PlanGivesUp, Fail, Enter, Goto, WorkerOK, Waiting
<1>12. CASE Planned(id)
  BY <1>1, <1>2, <1>12 DEF Planned, Checkpoint, Fail, Enter, Goto, callVars, WorkerOK, Waiting
<1>13. CASE Answer(id)
  BY <1>1, <1>2, <1>13 DEF Answer, Enter, Goto, WorkerOK, Waiting
<1>14. CASE Complete(id)
  BY <1>1, <1>2, <1>14 DEF Complete, Enter, Goto, callVars, WorkerOK, Waiting
<1>15. CASE ToolCalled(id)
  BY <1>1, <1>2, <1>15 DEF ToolCalled, Enter, Goto, WorkerOK, Waiting
<1>16. CASE AskApproval(id)
  BY <1>1, <1>2, <1>16 DEF AskApproval, Enter, Goto, callVars, WorkerOK, Waiting
<1>17. CASE Approved(id)
  BY <1>1, <1>2, <1>17 DEF Approved, Enter, Goto, callVars, WorkerOK, Waiting
<1>18. CASE Rejected(id)
  BY <1>1, <1>2, <1>18 DEF Rejected, Enter, Goto, callVars, WorkerOK, Waiting
<1>19. CASE ApprovalRaises(id)
  BY <1>1, <1>2, <1>19 DEF ApprovalRaises, Goto, callVars, WorkerOK, Waiting
<1>20. CASE OpenToolCall(id)
  BY <1>1, <1>2, <1>20 DEF OpenToolCall, Enter, Goto, callVars, WorkerOK, Waiting
<1>21. CASE Opened(id)
  BY <1>1, <1>2, <1>21 DEF Opened, Checkpoint, Fail, Enter, Goto, callVars, WorkerOK, Waiting
<1>22. CASE ToolSucceeds(id)
  BY <1>1, <1>2, <1>22 DEF ToolSucceeds, Enter, Goto, WorkerOK, Waiting
<1>23. CASE ToolFails(id)
  BY <1>1, <1>2, <1>23 DEF ToolFails, RetryOrFail, Fail, Enter, Goto, WorkerOK, Waiting
<1>24. CASE ToolRaises(id)
  BY <1>1, <1>2, <1>24 DEF ToolRaises, Goto, WorkerOK, Waiting
<1>25. CASE ToolGivesUp(id)
  BY <1>1, <1>2, <1>25 DEF ToolGivesUp, ToolRanOut, Fail, Enter, Goto, WorkerOK, Waiting
<1>26. CASE RetryTool(id)
  BY <1>1, <1>2, <1>26 DEF RetryTool, Enter, Goto, callVars, WorkerOK, Waiting
<1>27. CASE cancel(id) \/ Clock(id)
  BY <1>3, <1>27 DEF cancel, Clock, callVars
<1>28. CASE SubmitPlan(id)
  <2>1. /\ workers'[id] = workers[id] \cup { PlanJob }
        /\ future'[id] = "pending" /\ pc'[id] = "planning" /\ workers[id] = {}
    BY <1>1, <1>28 DEF SubmitPlan, Submit, Goto, WorkerOK, Waiting
  <2> QED  BY <2>1 DEF WorkerOK, Waiting
<1>29. CASE SubmitTool(id)
  <2>1. /\ workers'[id] = workers[id] \cup { ToolJob(loc[id].attempt) }
        /\ future'[id] = "pending" /\ pc'[id] = "calling" /\ workers[id] = {}
        /\ loc' = loc
    BY <1>1, <1>29 DEF SubmitTool, Submit, Goto, WorkerOK, Waiting
  <2> QED  BY <2>1 DEF WorkerOK, Waiting
<1>30. CASE PlanTimesOut(id)
  BY <1>1, <1>30 DEF PlanTimesOut, Goto, callVars, WorkerOK, Waiting
<1>31. CASE ToolTimesOut(id)
  BY <1>1, <1>31 DEF ToolTimesOut, Goto, callVars, WorkerOK, Waiting
<1>32. CASE WorkerEnds(id)
  <2> PICK job \in workers[id] :
        /\ workers' = [workers EXCEPT ![id] = @ \ {job}]
        /\ IF Awaits(id, job)
           THEN \E o \in OutcomeOf(job) : future' = [future EXCEPT ![id] = o]
           ELSE UNCHANGED future
    BY <1>32 DEF WorkerEnds
  <2>1. pc' = pc /\ loc' = loc /\ workers'[id] = workers[id] \ {job}
    BY <1>1, <1>32 DEF WorkerEnds
  <2>2. CASE pc[id] \in { "planning", "calling" }
    <3>1. Awaits(id, job) /\ workers'[id] = {}
      BY <2>1, <2>2 DEF WorkerOK, Awaits
    <3>2. future'[id] # "pending"
      BY <1>1, <3>1 DEF OutcomeOf, PlanOutcome, ToolOutcome
    <3> QED  BY <2>1, <2>2, <3>1, <3>2 DEF WorkerOK, Waiting
  <2>3. CASE pc[id] \notin { "planning", "calling" }
    BY <2>1, <2>3 DEF WorkerOK
  <2> QED  BY <2>2, <2>3
<1> QED
  BY <1>4, <1>5, <1>6, <1>7, <1>8, <1>9, <1>10, <1>11, <1>12, <1>13,
     <1>14, <1>15, <1>16, <1>17, <1>18, <1>19, <1>20, <1>21, <1>22,
     <1>23, <1>24, <1>25, <1>26, <1>27, <1>28, <1>29, <1>30, <1>31, <1>32
  DEF Step, Thread, TimesOut, Approver

-----------------------------------------------------------------------------
(* Late calls *)

LEMMA StepLate ==
  ASSUME IInv, NEW id \in Ids, Step(id), LateOK(id)
  PROVE  LateOK(id)'
<1>1. /\ TypeOK /\ CallOK(id) /\ st[id] \in State
      /\ pc \in [Ids -> Label] /\ loc \in [Ids -> Locals] /\ late \in [Ids -> Nat]
  BY DEF IInv, CallInv, TypeOK, ThreadTypeOK
<1>2. cancelled \subseteq Ids /\ timedOut \in [Ids -> BOOLEAN]
  BY <1>1 DEF TypeOK, OutsideTypeOK
\* A step that begins no call must only not go where fewer are allowed.
<1>3. ASSUME late' = late, ToldToStop(id) => ToldToStop(id)', pc[id] # "idle",
             NoneLate(id)' => late[id] = 0, OneLate(id)' => late[id] <= 1
      PROVE  LateOK(id)'
  BY <1>3 DEF LateOK
<1>4. ASSUME UNCHANGED outside
      PROVE  ToldToStop(id)' = ToldToStop(id)
  BY <1>4 DEF outside, ToldToStop, IsCancelled, RunTimedOut
<1>5. ASSUME CountLate(id), UNCHANGED outside, pc[id] # "idle", NoneLate(id),
             ~NoneLate(id)'
      PROVE  LateOK(id)'
  <2>1. late'[id] = IF ToldToStop(id) THEN 1 ELSE 0
    BY <1>1, <1>5 DEF CountLate, LateOK
  <2> QED  BY <1>4, <1>5, <2>1 DEF LateOK
<1>6. CASE Run(id)
  BY <1>1, <1>6 DEF Run, Goto, NoneLate, OneLate, LateOK
<1>7. CASE Return(id)
  BY <1>1, <1>7 DEF Return, Goto, NoneLate, OneLate, LateOK
<1>8. CASE Raise(id)
  BY <1>1, <1>8 DEF Raise, Goto, NoneLate, OneLate, LateOK
<1>9. CASE cancel(id) \/ Clock(id)
  BY <1>1, <1>2, <1>3, <1>9 DEF cancel, Clock, callVars, ToldToStop, IsCancelled,
     RunTimedOut, NoneLate, OneLate, LateOK
<1>10. CASE Start(id)
  <2>1. pc[id] # "idle" /\ late' = late /\ UNCHANGED outside
    BY <1>10 DEF Start
  <2>2. pc'[id] \in { "loop", "invalid" }
    BY <1>1, <1>10 DEF Start, Enter, Goto
  <2> QED
    BY <1>1, <1>3, <1>4, <1>10, <2>1, <2>2 DEF Start, NoneLate, OneLate, LateOK
<1>11. CASE Answer(id)
  <2>1. pc[id] # "idle" /\ late' = late /\ UNCHANGED outside
    BY <1>11 DEF Answer
  <2>2. pc'[id] \in { "replying", "invalid" }
    BY <1>1, <1>11 DEF Answer, Enter, Goto
  <2> QED
    BY <1>1, <1>3, <1>4, <1>11, <2>1, <2>2 DEF Answer, NoneLate, OneLate, LateOK
<1>12. CASE Complete(id)
  <2>1. pc[id] # "idle" /\ late' = late /\ UNCHANGED outside
    BY <1>12 DEF Complete
  <2>2. pc'[id] \in { "returning", "invalid" }
    BY <1>1, <1>12 DEF Complete, Enter, Goto
  <2> QED
    BY <1>1, <1>3, <1>4, <1>12, <2>1, <2>2 DEF Complete, NoneLate, OneLate, LateOK
<1>13. CASE PlanGivesUp(id)
  <2>1. pc[id] # "idle" /\ late' = late /\ UNCHANGED outside
    BY <1>13 DEF PlanGivesUp
  <2>2. pc'[id] \in { "returning", "invalid" }
    BY <1>1, <1>13 DEF PlanGivesUp, Fail, Enter, Goto
  <2> QED
    BY <1>1, <1>3, <1>4, <1>13, <2>1, <2>2 DEF PlanGivesUp, NoneLate, OneLate, LateOK
<1>14. CASE PlanRaises(id)
  <2>1. pc[id] # "idle" /\ late' = late /\ UNCHANGED outside
    BY <1>14 DEF PlanRaises
  <2>2. pc'[id] \in { "loop", "returning", "invalid" }
    BY <1>1, <1>14 DEF PlanRaises, RetryOrFail, Fail, Enter, Goto
  <2> QED
    BY <1>1, <1>3, <1>4, <1>14, <2>1, <2>2 DEF PlanRaises, NoneLate, OneLate, LateOK
<1>15. CASE ToolCalled(id)
  <2>1. pc[id] # "idle" /\ late' = late /\ UNCHANGED outside
    BY <1>15 DEF ToolCalled
  <2>2. pc'[id] \in { "approval", "executing", "invalid" }
    BY <1>1, <1>15 DEF ToolCalled, Enter, Goto
  <2> QED
    BY <1>1, <1>3, <1>4, <1>15, <2>1, <2>2 DEF ToolCalled, NoneLate, OneLate, LateOK
<1>16. CASE PlanReturns(id)
  <2>1. pc[id] # "idle" /\ late' = late /\ UNCHANGED outside
    BY <1>16 DEF PlanReturns
  <2>2. pc'[id] \in { "planned" }
    BY <1>1, <1>16 DEF PlanReturns, Goto
  <2> QED
    BY <1>1, <1>3, <1>4, <1>16, <2>1, <2>2 DEF PlanReturns, NoneLate, OneLate, LateOK
<1>17. CASE ToolRaises(id)
  <2>1. pc[id] # "idle" /\ late' = late /\ UNCHANGED outside
    BY <1>17 DEF ToolRaises
  <2>2. pc'[id] \in { "raising" }
    BY <1>1, <1>17 DEF ToolRaises, Goto
  <2> QED
    BY <1>1, <1>3, <1>4, <1>17, <2>1, <2>2 DEF ToolRaises, NoneLate, OneLate, LateOK
<1>18. CASE PlanTimesOut(id)
  <2>1. pc[id] # "idle" /\ late' = late /\ UNCHANGED outside
    BY <1>18 DEF PlanTimesOut
  <2>2. pc'[id] \in { "planDraining" }
    BY <1>1, <1>18 DEF PlanTimesOut, Goto
  <2> QED
    BY <1>1, <1>3, <1>4, <1>18, <2>1, <2>2 DEF PlanTimesOut, NoneLate, OneLate, LateOK
<1>19. CASE ToolTimesOut(id)
  <2>1. pc[id] # "idle" /\ late' = late /\ UNCHANGED outside
    BY <1>19 DEF ToolTimesOut
  <2>2. pc'[id] \in { "callDraining" }
    BY <1>1, <1>19 DEF ToolTimesOut, Goto
  <2> QED
    BY <1>1, <1>3, <1>4, <1>19, <2>1, <2>2 DEF ToolTimesOut, NoneLate, OneLate, LateOK
<1>20. CASE Rejected(id)
  <2>1. pc[id] # "idle" /\ late' = late /\ UNCHANGED outside
    BY <1>20 DEF Rejected
  <2>2. pc'[id] \in { "loop", "invalid" }
    BY <1>1, <1>20 DEF Rejected, Enter, Goto
  <2> QED
    BY <1>1, <1>3, <1>4, <1>20, <2>1, <2>2 DEF Rejected, NoneLate, OneLate, LateOK
<1>21. CASE ApprovalRaises(id)
  <2>1. pc[id] # "idle" /\ late' = late /\ UNCHANGED outside
    BY <1>21 DEF ApprovalRaises
  <2>2. pc'[id] \in { "raising" }
    BY <1>1, <1>21 DEF ApprovalRaises, Goto
  <2> QED
    BY <1>1, <1>3, <1>4, <1>21, <2>1, <2>2 DEF ApprovalRaises, NoneLate, OneLate, LateOK
<1>22. CASE ToolSucceeds(id)
  <2>1. pc[id] # "idle" /\ late' = late /\ UNCHANGED outside
    BY <1>22 DEF ToolSucceeds
  <2>2. pc'[id] \in { "loop", "invalid" }
    BY <1>1, <1>22 DEF ToolSucceeds, Enter, Goto
  <2> QED
    BY <1>1, <1>3, <1>4, <1>22, <2>1, <2>2 DEF ToolSucceeds, NoneLate, OneLate, LateOK
<1>23. CASE ToolFails(id)
  <2>1. pc[id] # "idle" /\ late' = late /\ UNCHANGED outside
    BY <1>23 DEF ToolFails
  <2>2. pc'[id] \in { "loop", "returning", "invalid" }
    BY <1>1, <1>23 DEF ToolFails, RetryOrFail, Fail, Enter, Goto
  <2> QED
    BY <1>1, <1>3, <1>4, <1>23, <2>1, <2>2 DEF ToolFails, NoneLate, OneLate, LateOK
<1>24. CASE OpenToolCall(id)
  <2>1. pc[id] # "idle" /\ late' = late /\ UNCHANGED outside
    BY <1>24 DEF OpenToolCall
  <2>2. pc'[id] \in { "opened", "invalid" }
    BY <1>1, <1>24 DEF OpenToolCall, Enter, Goto
  <2> QED
    BY <1>1, <1>3, <1>4, <1>24, <2>1, <2>2 DEF OpenToolCall, NoneLate, OneLate, LateOK
<1>25. CASE Approved(id)
  <2>1. pc[id] = "approving" /\ late' = late /\ pc'[id] \in { "executing", "invalid" }
    BY <1>1, <1>25 DEF Approved, Enter, Goto
  <2>2. ToldToStop(id)' = ToldToStop(id)
    BY <1>25 DEF Approved, ToldToStop, IsCancelled, RunTimedOut
  <2> QED  BY <1>3, <2>1, <2>2 DEF NoneLate, OneLate, LateOK
<1>26. CASE Planned(id)
  <2>1. pc[id] # "idle" /\ late' = late /\ loc' = loc /\ UNCHANGED outside
    BY <1>26 DEF Planned
  <2>2. \/ pc'[id] \in { "returning", "invalid" }
        \/ pc'[id] = "dispatch" /\ ~ToldToStop(id)
    BY <1>1, <1>26, CheckpointMoves DEF Planned
  <2> QED  BY <1>1, <1>3, <1>4, <2>1, <2>2 DEF NoneLate, OneLate, LateOK
<1>27. CASE Opened(id)
  <2>1. pc[id] # "idle" /\ late' = late /\ loc' = loc /\ UNCHANGED outside
    BY <1>27 DEF Opened
  <2>2. \/ pc'[id] \in { "returning", "invalid" }
        \/ pc'[id] = "invoke" /\ ~ToldToStop(id)
    BY <1>1, <1>27, CheckpointMoves DEF Opened
  <2> QED  BY <1>1, <1>3, <1>4, <2>1, <2>2 DEF NoneLate, OneLate, LateOK
<1>28. CASE LoopTop(id)
  <2>1. pc[id] # "idle" /\ late' = late /\ loc' = loc /\ UNCHANGED outside
    BY <1>28 DEF LoopTop
  <2>2. \/ pc'[id] \in { "returning", "invalid" }
        \/ pc'[id] = "plan" /\ ~ToldToStop(id)
    BY <1>1, <1>28, CheckpointMoves, FailMoves DEF LoopTop, Error
  <2> QED  BY <1>1, <1>3, <1>4, <2>1, <2>2 DEF NoneLate, OneLate, LateOK
<1>29. CASE SubmitPlan(id)
  BY <1>1, <1>5, <1>29 DEF SubmitPlan, Submit, Goto, NoneLate
<1>30. CASE AskApproval(id)
  <2>1. pc[id] = "approval" /\ UNCHANGED outside
    BY <1>30 DEF AskApproval
  <2>2. pc'[id] \in { "approving", "returning", "invalid" }
    BY <1>1, <1>30 DEF AskApproval, Enter, Goto
  <2>3. CountLate(id) \/ late' = late
    BY <1>30 DEF AskApproval
  <2> QED  BY <1>3, <1>4, <1>5, <2>1, <2>2, <2>3 DEF NoneLate, OneLate, LateOK
<1>31. CASE SubmitTool(id)
  <2>1. /\ pc[id] = "invoke" /\ pc'[id] = "calling" /\ loc' = loc
        /\ CountLate(id) /\ UNCHANGED outside
    BY <1>1, <1>31 DEF SubmitTool, Submit, Goto
  <2>2. late'[id] = IF ToldToStop(id) THEN late[id] + 1 ELSE late[id]
    BY <1>1, <2>1 DEF CountLate
  <2> QED  BY <1>1, <1>4, <2>1, <2>2 DEF NoneLate, OneLate, LateOK
<1>32. CASE ToolGivesUp(id)
  <2>1. pc[id] # "idle" /\ late' = late /\ UNCHANGED outside
    BY <1>32 DEF ToolGivesUp, ToolRanOut
  <2>2. pc'[id] \in { "returning", "retrying", "invalid" }
    BY <1>1, <1>32 DEF ToolGivesUp, Fail, Enter, Goto
  <2>3. pc'[id] = "retrying" => loc[id].attempt = 1
    BY <1>1, <1>32 DEF ToolGivesUp, ToolRanOut, LastAttempt, CallOK, Calling, Fail,
       Enter, Goto, Locals
  <2> QED  BY <1>1, <1>3, <1>4, <1>32, <2>1, <2>2, <2>3 DEF ToolGivesUp, ToolRanOut, NoneLate, OneLate, LateOK
<1>33. CASE RetryTool(id)
  <2>1. pc[id] = "retrying" /\ late' = late /\ UNCHANGED outside
    BY <1>33 DEF RetryTool
  <2>2. pc'[id] \in { "invoke", "invalid" } /\ loc'[id].attempt = 2
    BY <1>1, <1>33 DEF RetryTool, Enter, Goto, CallOK, Locals
  <2> QED  BY <1>3, <1>4, <2>1, <2>2 DEF NoneLate, OneLate, LateOK
<1>34. CASE WorkerEnds(id)
  <2>1. pc' = pc /\ loc' = loc /\ late' = late /\ UNCHANGED outside
    BY <1>34 DEF WorkerEnds
  <2> QED  BY <1>4, <2>1 DEF NoneLate, OneLate, LateOK
<1> QED
  BY <1>6, <1>7, <1>8, <1>9, <1>10, <1>11, <1>12, <1>13, <1>14, <1>15,
     <1>16, <1>17, <1>18, <1>19, <1>20, <1>21, <1>22, <1>23, <1>24,
     <1>25, <1>26, <1>27, <1>28, <1>29, <1>30, <1>31, <1>32, <1>33, <1>34
  DEF Step, Thread, TimesOut, Approver

-----------------------------------------------------------------------------
(* Requests and final states *)

\* How a thread comes to return: on a request, with an error, or with a reply.
Ending(id) ==
  pc'[id] = "returning" =>
    /\ Explained(st'[id])
    /\ st'[id].status = "cancelled" => id \in cancelled

LEMMA ThreadEndings ==
  ASSUME IInv, NEW id \in Ids, Step(id), pc'[id] # pc[id]
  PROVE  Ending(id)
<1>1. /\ TypeOK /\ st[id] \in State /\ pc \in [Ids -> Label]
  BY DEF IInv, TypeOK, ThreadTypeOK
<1>2. CASE Planned(id)
  BY <1>1, <1>2, CheckpointMoves DEF Planned, Ending, Explained, IsCancelled
<1>3. CASE Opened(id)
  BY <1>1, <1>3, CheckpointMoves DEF Opened, Ending, Explained, IsCancelled
<1>4. CASE LoopTop(id)
  BY <1>1, <1>4, CheckpointMoves, FailMoves DEF LoopTop, Error, Ending, Explained, IsCancelled
<1>5. CASE PlanGivesUp(id)
  BY <1>1, <1>5, FailMoves DEF PlanGivesUp, Error, Ending, Explained
<1>6. CASE PlanRaises(id)
  BY <1>1, <1>6, RetryOrFailMoves DEF PlanRaises, Error, Ending, Explained
<1>7. CASE Complete(id)
  <2> DEFINE s == AddMessage(st[id], "assistant")
  <2>1. s \in State /\ s.messages = Append(st[id].messages, "assistant")
    BY <1>1, StateWithMessage DEF AddMessage, State
  <2>2. s.messages # <<>> /\ s.messages[Len(s.messages)] = "assistant"
    <3>1. st[id].messages \in Seq({ "user", "assistant", "tool" })
      BY <1>1 DEF State
    <3> QED  BY <2>1, <3>1, AppendProperties
  <2>3. Enter(id, s, "completed", "returning")
    BY <1>7 DEF Complete
  <2> HIDE DEF s
  <2> QED
    BY <1>1, <2>1, <2>2, <2>3, EnterMoves, StatusOfPhase DEF Ending, Explained, TerminalPhase
<1>8. CASE AskApproval(id)
  <2>1. CASE IsCancelled(id)
    BY <1>1, <1>8, <2>1, EnterMoves, StatusOfPhase
    DEF AskApproval, Ending, Explained, IsCancelled, TerminalPhase
  <2>2. CASE ~IsCancelled(id)
    BY <1>1, <1>8, <2>2 DEF AskApproval, Goto, Ending
  <2> QED  BY <2>1, <2>2
<1>9. CASE ToolFails(id)
  <2>1. Observed(st[id], FALSE) \in State /\ "tool_failed" \in Error
    BY <1>1, <1>9, StateObserved
    DEF ToolFails, IInv, CallInv, CallOK, Calling, OpenCall, Error
  <2> DEFINE s == Observed(st[id], FALSE)
  <2>2. s \in State /\ RetryOrFail(id, s, "tool_failed")
    BY <1>9, <2>1 DEF ToolFails
  <2> HIDE DEF s
  <2> QED  BY <1>1, <2>1, <2>2, RetryOrFailMoves DEF Ending, Explained
<1>10. CASE ToolGivesUp(id)
  <2>1. CASE Fail(id, st[id], "tool_timeout")
    BY <1>1, <2>1, FailMoves DEF Error, Ending, Explained
  <2>2. CASE Enter(id, st[id], "executing", "retrying")
    BY <1>1, <2>2, EnterMoves DEF Ending
  <2> QED  BY <1>10, <2>1, <2>2 DEF ToolGivesUp
<1>11. CASE Start(id) \/ Answer(id) \/ ToolCalled(id) \/ RetryTool(id) \/ Approved(id)
  BY <1>1, <1>11 DEF Start, Answer, ToolCalled, RetryTool, Approved, Enter, Goto, Ending
<1>12. CASE OpenToolCall(id) \/ ToolSucceeds(id) \/ Rejected(id)
  BY <1>1, <1>12 DEF OpenToolCall, ToolSucceeds, Rejected, Enter, Goto, Ending
<1>13. CASE Run(id) \/ Return(id) \/ Raise(id)
  BY <1>1, <1>13 DEF Run, Return, Raise, Goto, Ending
<1>14. CASE SubmitPlan(id) \/ PlanReturns(id) \/ SubmitTool(id) \/ ToolRaises(id)
  BY <1>1, <1>14 DEF SubmitPlan, PlanReturns, SubmitTool, ToolRaises, Submit, Goto,
     Ending
<1>15. CASE PlanTimesOut(id) \/ ToolTimesOut(id) \/ ApprovalRaises(id)
  BY <1>1, <1>15 DEF PlanTimesOut, ToolTimesOut, ApprovalRaises, Goto, Ending
<1>16. CASE cancel(id) \/ Clock(id) \/ WorkerEnds(id)
  BY <1>1, <1>16 DEF cancel, Clock, WorkerEnds
<1> QED
  BY <1>2, <1>3, <1>4, <1>5, <1>6, <1>7, <1>8, <1>9, <1>10, <1>11, <1>12,
     <1>13, <1>14, <1>15, <1>16
  DEF Step, Thread, TimesOut, Approver

\* The steps that may change what the thread inside run() leaves alone, or that
\* are not its own.
Boundary(id) ==
  Run(id) \/ Return(id) \/ Raise(id) \/ cancel(id) \/ Clock(id) \/ WorkerEnds(id)

LEMMA InnerSteps ==
  ASSUME IInv, NEW id \in Ids, Step(id), ~Boundary(id)
  PROVE  /\ pc'[id] # "idle" /\ pc'[id] # pc[id]
         /\ UNCHANGED << active, cancelled, asked, held, outcome, timedOut >>
<1>1. /\ TypeOK /\ st[id] \in State /\ pc \in [Ids -> Label]
  BY DEF IInv, TypeOK, ThreadTypeOK
<1>2. CASE Start(id) \/ Answer(id) \/ ToolCalled(id) \/ RetryTool(id) \/ Approved(id)
  BY <1>1, <1>2 DEF Start, Answer, ToolCalled, RetryTool, Approved, Enter, Goto,
     outside, clientVars
<1>3. CASE OpenToolCall(id) \/ ToolSucceeds(id) \/ Rejected(id) \/ Complete(id)
  BY <1>1, <1>3 DEF OpenToolCall, ToolSucceeds, Rejected, Complete, Enter, Goto,
     outside, clientVars
<1>4. CASE LoopTop(id) \/ Planned(id) \/ Opened(id)
  BY <1>1, <1>4 DEF LoopTop, Planned, Opened, Checkpoint, Fail, Enter, Goto,
     outside, clientVars
<1>5. CASE AskApproval(id) \/ ToolFails(id) \/ PlanRaises(id)
  BY <1>1, <1>5 DEF AskApproval, ToolFails, PlanRaises, RetryOrFail, Fail, Enter, Goto,
     outside, clientVars
<1>6. CASE PlanGivesUp(id) \/ ToolGivesUp(id)
  BY <1>1, <1>6 DEF PlanGivesUp, ToolGivesUp, ToolRanOut, Fail, Enter, Goto,
     outside, clientVars
<1>7. CASE SubmitPlan(id) \/ PlanReturns(id) \/ SubmitTool(id) \/ ToolRaises(id)
  BY <1>1, <1>7 DEF SubmitPlan, PlanReturns, SubmitTool, ToolRaises, Submit, Goto,
     outside, clientVars
<1>8. CASE PlanTimesOut(id) \/ ToolTimesOut(id) \/ ApprovalRaises(id)
  BY <1>1, <1>8 DEF PlanTimesOut, ToolTimesOut, ApprovalRaises, Goto,
     outside, clientVars
<1> QED
  BY <1>2, <1>3, <1>4, <1>5, <1>6, <1>7, <1>8
  DEF Step, Thread, TimesOut, Approver, Boundary

LEMMA StepAsks ==
  ASSUME IInv, NEW id \in Ids, Step(id), AskOK(id)
  PROVE  AskOK(id)'
<1>1. pc \in [Ids -> Label]
  BY DEF IInv, TypeOK, ThreadTypeOK
<1>2. CASE ~Boundary(id)
  BY <1>2, InnerSteps, ThreadEndings DEF AskOK, Ending
<1>3. CASE Run(id)
  BY <1>1, <1>3 DEF Run, Goto, AskOK
<1>4. CASE Return(id) \/ Raise(id)
  BY <1>1, <1>4 DEF Return, Raise, Goto, AskOK
<1>5. CASE cancel(id)
  BY <1>5 DEF cancel, AskOK
<1>6. CASE Clock(id) \/ WorkerEnds(id)
  BY <1>6 DEF Clock, WorkerEnds, outside, AskOK
<1> QED  BY <1>2, <1>3, <1>4, <1>5, <1>6 DEF Boundary

LEMMA StepFinals ==
  ASSUME IInv, NEW id \in Ids, Step(id), FinalOK(id)
  PROVE  FinalOK(id)'
<1>1. /\ pc \in [Ids -> Label]
      /\ held \in [Ids -> State] /\ outcome \in [Ids -> {"none", "returned", "raised"}]
  BY DEF IInv, TypeOK, ThreadTypeOK, OutsideTypeOK
<1>2. CASE ~Boundary(id)
  BY <1>2, InnerSteps, ThreadEndings DEF FinalOK, Ending, Explained
<1>3. CASE Run(id)
  BY <1>1, <1>3 DEF Run, Goto, FinalOK
<1>4. CASE Return(id)
  <2>1. /\ held'[id] = st[id] /\ phases' = phases /\ id \notin active'
        /\ pc'[id] = "idle"
    BY <1>1, <1>4 DEF Return, Goto
  <2>2. phases[id] \in TerminalPhase /\ st[id].status = phases[id]
    BY <1>4 DEF Return, IInv, PhaseInv, PhaseOK
  <2> QED  BY <1>4, <2>1, <2>2 DEF Return, FinalOK, Explained
<1>5. CASE Raise(id)
  BY <1>1, <1>5 DEF Raise, Goto, FinalOK
<1>6. CASE cancel(id) \/ Clock(id) \/ WorkerEnds(id)
  BY <1>6 DEF cancel, Clock, WorkerEnds, outside, clientVars, FinalOK, Explained
<1> QED  BY <1>2, <1>3, <1>4, <1>5, <1>6 DEF Boundary

-----------------------------------------------------------------------------
(* Every run *)

\* A step of one run leaves the records of the others alone.
LEMMA StepOthers ==
  ASSUME IInv, NEW id \in Ids, Step(id), NEW i \in Ids, i # id
  PROVE  /\ workers'[i] = workers[i] /\ future'[i] = future[i] /\ late'[i] = late[i]
         /\ timedOut'[i] = timedOut[i] /\ held'[i] = held[i]
         /\ outcome'[i] = outcome[i] /\ phases'[i] = phases[i]
         /\ i \in active' <=> i \in active
         /\ i \in cancelled' <=> i \in cancelled
         /\ i \in asked' <=> i \in asked
<1>1. /\ workers \in [Ids -> SUBSET Job] /\ future \in [Ids -> Result]
      /\ late \in [Ids -> Nat] /\ phases \in [Ids -> RuntimePhase \cup {"none"}]
  BY DEF IInv, TypeOK, ThreadTypeOK
<1>2. /\ timedOut \in [Ids -> BOOLEAN] /\ held \in [Ids -> State]
      /\ outcome \in [Ids -> {"none", "returned", "raised"}]
  BY DEF IInv, TypeOK, OutsideTypeOK
<1>3. /\ timedOut'[i] = timedOut[i] /\ held'[i] = held[i] /\ outcome'[i] = outcome[i]
      /\ i \in active' <=> i \in active
      /\ i \in cancelled' <=> i \in cancelled
      /\ i \in asked' <=> i \in asked
  <2>1. CASE ~Boundary(id)
    BY <2>1, InnerSteps
  <2>2. CASE Run(id) \/ Return(id) \/ Raise(id)
    BY <1>2, <2>2 DEF Run, Return, Raise
  <2>3. CASE cancel(id) \/ Clock(id) \/ WorkerEnds(id)
    BY <1>2, <2>3 DEF cancel, Clock, WorkerEnds, outside, clientVars
  <2> QED  BY <2>1, <2>2, <2>3 DEF Boundary
<1>4. /\ workers'[i] = workers[i] /\ future'[i] = future[i]
      /\ late'[i] = late[i] /\ phases'[i] = phases[i]
  <2>1. CASE Run(id) \/ Return(id) \/ Raise(id) \/ cancel(id) \/ Clock(id)
    BY <1>1, <2>1 DEF Run, Return, Raise, cancel, Clock, callVars
  <2>2. CASE WorkerEnds(id)
    BY <1>1, <2>2 DEF WorkerEnds
  <2>3. CASE Start(id) \/ Answer(id) \/ ToolCalled(id) \/ RetryTool(id) \/ Approved(id)
    BY <1>1, <2>3 DEF Start, Answer, ToolCalled, RetryTool, Approved, Enter, callVars
  <2>4. CASE OpenToolCall(id) \/ ToolSucceeds(id) \/ Rejected(id) \/ Complete(id)
    BY <1>1, <2>4 DEF OpenToolCall, ToolSucceeds, Rejected, Complete, Enter, callVars
  <2>5. CASE LoopTop(id) \/ Planned(id) \/ Opened(id)
    BY <1>1, <2>5 DEF LoopTop, Planned, Opened, Checkpoint, Fail, Enter, callVars
  <2>6. CASE AskApproval(id) \/ ToolFails(id) \/ PlanRaises(id)
    BY <1>1, <2>6 DEF AskApproval, ToolFails, PlanRaises, RetryOrFail, Fail, Enter,
       CountLate, callVars
  <2>7. CASE PlanGivesUp(id) \/ ToolGivesUp(id)
    BY <1>1, <2>7 DEF PlanGivesUp, ToolGivesUp, Fail, Enter
  <2>8. CASE SubmitPlan(id) \/ PlanReturns(id) \/ SubmitTool(id) \/ ToolRaises(id)
    BY <1>1, <2>8 DEF SubmitPlan, PlanReturns, SubmitTool, ToolRaises, Submit,
       CountLate, callVars
  <2>9. CASE PlanTimesOut(id) \/ ToolTimesOut(id) \/ ApprovalRaises(id)
    BY <2>9 DEF PlanTimesOut, ToolTimesOut, ApprovalRaises, callVars
  <2> QED
    BY <2>1, <2>2, <2>3, <2>4, <2>5, <2>6, <2>7, <2>8, <2>9
    DEF Step, Thread, TimesOut, Approver
<1> QED  BY <1>3, <1>4

LEMMA StopInit == Init => StopInv
<1> SUFFICES ASSUME Init, NEW id \in Ids PROVE StopOK(id)
  BY DEF StopInv
<1>1. /\ pc[id] = "idle" /\ workers[id] = {} /\ late[id] = 0
      /\ outcome[id] = "none" /\ id \notin asked /\ id \notin cancelled
  BY DEF Init
<1>2. WorkerOK(id)
  BY <1>1 DEF WorkerOK, Waiting
<1>3. LateOK(id)
  BY <1>1 DEF LateOK, NoneLate, OneLate
<1> QED  BY <1>1, <1>2, <1>3 DEF StopOK, AskOK, FinalOK

LEMMA StopStep == IInv /\ StopInv /\ [Next]_vars => StopInv'
<1> SUFFICES ASSUME IInv, StopInv, [Next]_vars PROVE StopInv'
  OBVIOUS
<1>1. CASE Next
  <2>1. PICK id \in Ids : Step(id)
    BY <1>1 DEF Next, Step
  <2>2. StopOK(id)'
    BY <2>1, StepWorkers, StepLate, StepAsks, StepFinals DEF StopInv, StopOK
  <2>3. ASSUME NEW i \in Ids, i # id
        PROVE  StopOK(i)'
    <3>1. pc'[i] = pc[i] /\ st'[i] = st[i] /\ loc'[i] = loc[i]
      BY <2>1, <2>3, StepFrame DEF IInv, Frame
    <3>2. StopOK(i)
      BY DEF StopInv
    <3>3. WorkerOK(i)'
      BY <2>1, <2>3, <3>1, <3>2, StepOthers DEF StopOK, WorkerOK
    <3>4. LateOK(i)'
      BY <2>1, <2>3, <3>1, <3>2, StepOthers
      DEF StopOK, LateOK, NoneLate, OneLate, ToldToStop, IsCancelled, RunTimedOut
    <3>5. AskOK(i)' /\ FinalOK(i)'
      BY <2>1, <2>3, <3>1, <3>2, StepOthers DEF StopOK, AskOK, FinalOK, Explained
    <3> QED  BY <3>3, <3>4, <3>5 DEF StopOK
  <2> QED  BY <2>2, <2>3 DEF StopInv
<1>2. CASE UNCHANGED vars
  BY <1>2 DEF vars, outside, callVars, clientVars, StopInv, StopOK, WorkerOK, LateOK,
     NoneLate, OneLate, ToldToStop, IsCancelled, RunTimedOut, AskOK, FinalOK, Explained
<1> QED  BY <1>1, <1>2

LEMMA StopInvariance == Spec => []StopInv
BY StopInit, StopStep, Invariance, PTL DEF Spec

-----------------------------------------------------------------------------
(* The theorems *)

\* No two tools or planners are ever at work for one run, and none outlives the
\* wait of its thread (engine.py 310-315).
THEOREM OneWorker == Spec => []OneWorkerAtATime
<1>1. ASSUME IInv, StopInv, NEW id \in Ids
      PROVE  /\ Cardinality(workers[id]) <= 1
             /\ workers[id] # {} => pc[id] \in Waiting
  <2>1. WorkerOK(id)
    BY <1>1 DEF StopInv, StopOK
  <2>2. workers[id] = {} \/ \E job \in Job : workers[id] = {job}
    <3>1. workers[id] \subseteq Job
      BY <1>1 DEF IInv, TypeOK, ThreadTypeOK
    <3>2. ASSUME NEW job, workers[id] \subseteq {job}
          PROVE  workers[id] = {} \/ \E j \in Job : workers[id] = {j}
      BY <3>1, <3>2
    <3> QED  BY <2>1, <3>2 DEF WorkerOK, Waiting
  <2>3. Cardinality(workers[id]) \in {0, 1}
    BY <2>2, FS_EmptySet, FS_Singleton
  <2> QED  BY <2>1, <2>3 DEF WorkerOK
<1>2. IInv /\ StopInv => OneWorkerAtATime
  BY <1>1 DEF OneWorkerAtATime, Waiting
<1> QED  BY <1>2, Invariance, StopInvariance, PTL

\* A run that was cancelled, or whose time is up, begins at most two more calls
\* (engine.py 147-170, 203-211, 232-248).
THEOREM StopsAfterTwoCalls == Spec => []StopsSoon
<1>1. StopInv => StopsSoon
  BY DEF StopInv, StopOK, LateOK, StopsSoon
<1> QED  BY <1>1, StopInvariance, PTL

\* No run ends CANCELLED on a request that an earlier run has answered
\* (engine.py 126-132).
THEOREM CancelOnlyOnRequest == Spec => []CancelledOnRequest
<1>1. StopInv => CancelledOnRequest
  BY DEF StopInv, StopOK, AskOK, CancelledOnRequest
<1> QED  BY <1>1, StopInvariance, PTL

\* What run() returns is final, agrees with phase_of(), and says why it failed
\* or how it answered (engine.py 126-128, 357-374).
THEOREM FinalStates == Spec => []ReturnsFinalState
<1>1. StopInv => ReturnsFinalState
  BY DEF StopInv, StopOK, FinalOK, Explained, ReturnsFinalState
<1> QED  BY <1>1, StopInvariance, PTL
=============================================================================
