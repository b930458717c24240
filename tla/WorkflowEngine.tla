--------------------------- MODULE WorkflowEngine ---------------------------
(***************************************************************************)
(* WorkflowEngine of workflow/engine.py for one run id: threads that call  *)
(* run() or resume() and so drive the loop over the run's snapshot, and a  *)
(* thread that calls interrupt() at any moment.                            *)
(*                                                                         *)
(* A run id is given to run() again only when no loop is at work for it.   *)
(* Abstracted: the run's error text, time stamps, telemetry, and what a    *)
(* step record holds besides its node.  __interrupt__ in the output of a   *)
(* node is the choice `explicit`.                                          *)
(***************************************************************************)
EXTENDS Graph

CONSTANTS
  Callers,        \* threads that call run() and resume()
  Breakpoints,    \* pairs << interrupt_before, interrupt_after >>
  MaxCalls,       \* bound: calls of run() and resume()
  MaxInterrupts   \* bound: calls of interrupt()

ASSUME WorkflowAssumption ==
  /\ Breakpoints \subseteq (SUBSET Nodes) \X (SUBSET Nodes)
  /\ MaxCalls \in Nat
  /\ MaxInterrupts \in Nat

VARIABLES
  snap,     \* the WorkflowSnapshot
  signal,   \* the run is in _interrupt_signals
  thr,      \* per caller: pc, breakpoints, step_count and current_id
  intr,     \* where the thread in interrupt() is
  calls,    \* << calls of run() and resume(), of interrupt() >> made
  due,      \* history: interrupt() called, and no pause or resume() since
  done,     \* history: this run has been reported COMPLETED
  aborted   \* history: an exception has left this run's loop, and no resume()
            \* has set it going again since

wfVars == << snap, signal, thr, intr, calls, due, done, aborted >>

WorkflowStatus == { "none", "running", "interrupted", "completed", "failed" }

\* No run() yet: get_run() is None.
NoRun == [ status |-> "none", current |-> NoNode,
           context |-> CHOOSE c \in Contexts : TRUE,
           pending |-> NoNode, history |-> <<>> ]

Idle == [ pc |-> "idle", brk |-> << {}, {} >>, count |-> 0, node |-> NoNode ]

-----------------------------------------------------------------------------
(* run(), resume() *)

Label(t, label) == thr' = [thr EXCEPT ![t].pc = label]

\* Seeded fault: a signal is never discarded.
SignalKept == UNCHANGED signal

DiscardSignal == signal' = FALSE

Enter(t, count) ==
  /\ thr[t].pc = "idle"
  /\ calls[1] < MaxCalls
  /\ calls' = << calls[1] + 1, calls[2] >>
  /\ \E b \in Breakpoints :
       thr' = [thr EXCEPT ![t] = [ pc |-> "top", brk |-> b, count |-> count,
                                   node |-> NoNode ]]

\* A new snapshot.  interrupt() may still hold the old one, and what it
\* marks there is lost.  A signal nobody has consumed is kept.
Run(t) ==
  /\ \A u \in Callers : thr[u].pc = "idle"
  /\ Enter(t, 0)
  /\ \E c \in Contexts :
       snap' = [ status |-> "running", current |-> Entry, context |-> c,
                 pending |-> NoNode, history |-> <<>> ]
  /\ intr' = IF intr = "marking" THEN "idle" ELSE intr
  /\ done' = FALSE
  /\ aborted' = FALSE
  /\ UNCHANGED << signal, due >>

\* Seeded fault: every resume chooses the edge anew.
ResumeFromLastNode(c) ==
  IF snap.history # <<>> THEN NextNode(snap.history[Len(snap.history)], c)
  ELSE snap.current

\* Where resume() goes on: after an interrupt_after pause the edges are
\* evaluated again.
ResumeAt(c) ==
  IF snap.pending # NoNode THEN NextNode(snap.pending, c) ELSE snap.current

\* Seeded fault: the pending transition outlives the resume.
ResumedKeepingPending(c) ==
  [ snap EXCEPT !.status = "running", !.current = ResumeAt(c), !.context = c ]

Resumed(c) ==
  [ snap EXCEPT !.status = "running", !.current = ResumeAt(c), !.context = c,
                !.pending = NoNode ]

\* Seeded fault: the budget starts anew.
StepsAtResume0 == 0

StepsAtResume == Len(snap.history)

\* Human input is any context; an edge condition that raises comes out of
\* resume() with the run still interrupted.
Resume(t) ==
  /\ thr[t].pc = "idle"
  /\ snap.status = "interrupted"
  /\ \E c \in Contexts :
       IF ResumeAt(c) = EdgeError
       THEN /\ snap' = [snap EXCEPT !.context = c]
            /\ calls[1] < MaxCalls
            /\ calls' = << calls[1] + 1, calls[2] >>
            /\ UNCHANGED << signal, thr, due, aborted >>
       ELSE /\ snap' = Resumed(c)
            /\ Enter(t, StepsAtResume)
            /\ DiscardSignal
            /\ due' = FALSE
            /\ aborted' = FALSE
  /\ UNCHANGED << intr, done >>

-----------------------------------------------------------------------------
(* _execute_loop() *)

Steady == UNCHANGED << intr, calls >>

Finish(t) ==
  /\ thr[t].pc = "top" /\ snap.current = NoNode
  /\ snap' = [snap EXCEPT !.status = "completed"]
  /\ Label(t, "idle")
  /\ done' = TRUE
  /\ Steady /\ UNCHANGED << signal, due, aborted >>

\* Seeded fault: one step too many.
OutOfStepsLate(t) == thr[t].count > MaxSteps

OutOfSteps(t) == thr[t].count + 1 > MaxSteps

TooManySteps(t) ==
  /\ thr[t].pc = "top" /\ snap.current # NoNode
  /\ OutOfSteps(t)
  /\ snap' = [snap EXCEPT !.status = "failed"]
  /\ Label(t, "idle")
  /\ aborted' = TRUE
  /\ Steady /\ UNCHANGED << signal, due, done >>

PauseDue(t) == snap.current \in thr[t].brk[1] \/ signal

Pause(t, label) ==
  /\ thr[t].pc = "top" /\ snap.current # NoNode
  /\ ~ OutOfSteps(t) /\ PauseDue(t)
  /\ snap' = [snap EXCEPT !.status = "interrupted"]
  /\ DiscardSignal
  /\ due' = FALSE
  /\ Label(t, label)
  /\ Steady /\ UNCHANGED << done, aborted >>

\* Seeded fault: the loop looks again instead of returning.
PauseBeforeLooping(t) == Pause(t, "top")

PauseBefore(t) == Pause(t, "idle")

StartNode(t) ==
  /\ thr[t].pc = "top" /\ snap.current # NoNode
  /\ ~ OutOfSteps(t) /\ ~ PauseDue(t)
  /\ thr' = [thr EXCEPT ![t].pc = "node", ![t].node = snap.current,
                        ![t].count = @ + 1]
  /\ Steady /\ UNCHANGED << snap, signal, due, done, aborted >>

NodeRaises(t) ==
  /\ thr[t].pc = "node"
  /\ snap' = [snap EXCEPT !.status = "failed"]
  /\ Label(t, "idle")
  /\ aborted' = TRUE
  /\ Steady /\ UNCHANGED << signal, due, done >>

\* The step is recorded before the edges are asked; if one raises, the run
\* keeps its status and its current node.
NodeReturns(t) ==
  LET n == thr[t].node
  IN /\ thr[t].pc = "node"
     /\ \E c \in Contexts, explicit \in BOOLEAN :
          LET next     == NextNode(n, c)
              pauses   == next # EdgeError /\ (explicit \/ n \in thr[t].brk[2])
              recorded == [ snap EXCEPT !.history = Append(@, n), !.context = c ]
          IN /\ snap' = CASE next = EdgeError -> recorded
                          [] pauses ->
                               [ recorded EXCEPT !.current = next, !.pending = n,
                                                 !.status = "interrupted" ]
                          [] OTHER -> [ recorded EXCEPT !.current = next ]
             /\ Label(t, IF next = EdgeError \/ pauses THEN "idle" ELSE "top")
             /\ aborted' = (aborted \/ next = EdgeError)
     /\ Steady /\ UNCHANGED << signal, due, done >>

-----------------------------------------------------------------------------
(* interrupt(): the signal, then a look at the status, then the mark *)

Interrupt ==
  /\ intr = "idle"
  /\ calls[2] < MaxInterrupts
  /\ calls' = << calls[1], calls[2] + 1 >>
  /\ signal' = TRUE
  /\ intr' = "looking"
  /\ due' = TRUE
  /\ UNCHANGED << snap, thr, done, aborted >>

Look ==
  /\ intr = "looking"
  /\ intr' = IF snap.status = "running" THEN "marking" ELSE "idle"
  /\ UNCHANGED << snap, signal, thr, calls, due, done, aborted >>

Mark ==
  /\ intr = "marking"
  /\ snap' = [snap EXCEPT !.status = "interrupted"]
  /\ intr' = "idle"
  /\ UNCHANGED << signal, thr, calls, due, done, aborted >>

-----------------------------------------------------------------------------
WfInit ==
  /\ snap = NoRun
  /\ signal = FALSE
  /\ thr = [t \in Callers |-> Idle]
  /\ intr = "idle"
  /\ calls = << 0, 0 >>
  /\ due = FALSE
  /\ done = FALSE
  /\ aborted = FALSE

Loop(t) == \/ Finish(t)     \/ TooManySteps(t) \/ PauseBefore(t)
           \/ StartNode(t)  \/ NodeRaises(t)   \/ NodeReturns(t)

WfNext == \/ \E t \in Callers : Run(t) \/ Resume(t) \/ Loop(t)
          \/ Interrupt \/ Look \/ Mark

\* Threads are scheduled and nodes come back; nobody has to call anything.
WfSpec == /\ WfInit /\ [][WfNext]_wfVars
          /\ \A t \in Callers : WF_wfVars(Loop(t))

-----------------------------------------------------------------------------
(* Properties *)

\* Every variable stays in its domain; in particular the loop is never sent
\* to the EdgeError of a condition that raised.
WfTypeOK ==
  /\ snap \in [ status : WorkflowStatus, current : Nodes \cup { NoNode },
                context : Contexts, pending : Nodes \cup { NoNode },
                history : Seq(Nodes) ]
  /\ signal \in BOOLEAN
  /\ thr \in [ Callers ->
       [ pc : { "idle", "top", "node" }, brk : Breakpoints \cup { << {}, {} >> },
         count : 0..MaxSteps, node : Nodes \cup { NoNode } ] ]
  /\ intr \in { "idle", "looking", "marking" }
  /\ calls \in (0..MaxCalls) \X (0..MaxInterrupts)
  /\ due \in BOOLEAN
  /\ done \in BOOLEAN
  /\ aborted \in BOOLEAN

\* A pause after a node is remembered only while the run stands still
\* (pending_transition_from, lines 147-154 and 269): while it is set the run is
\* resumable, no loop is at work, and it names the last node executed.
ResumePoint ==
  snap.pending # NoNode =>
    /\ snap.status = "interrupted"
    /\ \A t \in Callers : thr[t].pc = "idle"
    /\ snap.history # <<>>
    /\ snap.pending = snap.history[Len(snap.history)]

\* What COMPLETED says stays true: although interrupt() may turn it into
\* INTERRUPTED (it looks before it marks, lines 120-121) and the run be resumed
\* with new input, no node is executed any more until run() is called anew.
NothingAfterTheEnd ==
  [][ done /\ snap'.history # snap.history => snap'.history = <<>> ]_wfVars

\* A call of interrupt() pauses at most one loop, be it that of a later run
\* with the same id (lines 118 and 219).
OneInterruptOnePause ==
  [][ \A t \in Callers :
        ( /\ thr[t].pc = "top" /\ thr'[t].pc = "idle"
          /\ snap.current \notin thr[t].brk[1]
          /\ snap'.status = "interrupted" ) => due ]_wfVars

\* resume() of a run that an exception has left (possible once interrupt() has
\* marked it) goes on at the node where it was left.
Revived == /\ aborted /\ ~ aborted'
           /\ snap'.current = snap.current
           /\ UNCHANGED << snap.history, snap.pending >>

\* An interrupted and resumed run executes the nodes WorkflowGraph.run would, in
\* its order, and at most max_steps of them over all its resumes; where it was
\* held after a node, that node's edges are asked once more, and nowhere else.
\* Like that walk it is over when an exception leaves it: the one step the engine
\* has and no walk has is resume() of such a run, from where on it walks again.
Walk  == INSTANCE GraphWalk WITH
           at    <- IF aborted THEN NoNode ELSE snap.current,
           ctx   <- snap.context,
           trail <- snap.history,
           held  <- snap.pending # NoNode
Walks == Walk!Init /\ [][Walk!Next \/ Revived]_(Walk!walkVars)

\* Every run() and resume() comes back if its nodes do, cycles and
\* breakpoints included (lines 201-203).
EveryLoopEnds == \A t \in Callers : thr[t].pc # "idle" ~> thr[t].pc = "idle"

\* At most one loop drives a run: run() and resume() only start one where
\* none is at work (lines 138-142: only interrupted runs can be resumed).
OneLoop ==
  \A t, u \in Callers : thr[t].pc # "idle" /\ thr[u].pc # "idle" => t = u
=============================================================================
