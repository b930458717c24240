------------------------ MODULE WorkflowEngineProofs ------------------------
(***************************************************************************)
(* Proofs about WorkflowEngine, for any graph, any breakpoints and any     *)
(* number of callers, as long as no loop is started while another drives   *)
(* the run (OneLoop).  A single client guarantees that (OneClientOneLoop); *)
(* the engine itself does not, which is the finding about OneLoop.         *)
(***************************************************************************)
EXTENDS WorkflowEngine, WellFoundedInduction, SequenceTheorems, TLAPS

-----------------------------------------------------------------------------
(* The edge that is taken *)

\* A set of naturals that has an element has a least one.
LEMMA LeastElement ==
  ASSUME NEW S \in SUBSET Nat, S # {}
  PROVE  \E m \in S : \A n \in S : m <= n
<1>1. \E m \in S : \A n \in S : << n, m >> \notin OpToRel(<, Nat)
  BY NatLessThanWellFounded, WFMin, Zenon
<1>2. ASSUME NEW n \in Nat, NEW m \in Nat, << n, m >> \notin OpToRel(<, Nat)
      PROVE  ~ (n < m)
  BY <1>2, Zenon DEF OpToRel
<1>3. \E m \in S : \A n \in S : ~ (n < m)
  BY <1>1, <1>2, Zenon
<1> QED
  BY <1>3

\* The search ends at a node, at the end of the graph, or in the error of a
\* condition; it invents nothing.
LEMMA NextNodeType ==
  ASSUME NEW n, NEW c
  PROVE  NextNode(n, c) \in Nodes \cup { NoNode, EdgeError }
<1> DEFINE C == Candidates(n, c)
<1>1. CASE C = {}
  BY <1>1 DEF NextNode
<1>2. CASE C # {}
  <2> DEFINE first == CHOOSE i \in C : \A j \in C : i <= j
  <2>1. C \subseteq Nat /\ C \subseteq DOMAIN Edges
    BY GraphAssumption DEF Candidates
  <2>2. \E i \in C : \A j \in C : i <= j
    BY <1>2, <2>1, LeastElement
  <2>3. first \in DOMAIN Edges
    BY <2>1, <2>2
  <2>4. Edges[first].to \in Nodes
    BY <2>3, GraphAssumption DEF ValidGraph
  <2> QED
    BY <1>2, <2>4 DEF NextNode
<1> QED
  BY <1>1, <1>2

-----------------------------------------------------------------------------
(* The inductive invariant *)

\* The run a loop drives has no pending transition; a loop at its top has
\* counted the steps of the history, one in a node has counted that node too
\* and will record it.
AtWork ==
  \A t \in Callers :
    /\ thr[t].pc # "idle" => snap.pending = NoNode
    /\ thr[t].pc = "top"  => thr[t].count = Len(snap.history)
    /\ thr[t].pc = "node" => /\ thr[t].count = Len(snap.history) + 1
                             /\ thr[t].node = snap.current /\ snap.current \in Nodes

\* A run that was reported COMPLETED is at the end of the graph.
AtTheEnd == done => snap.current = NoNode /\ snap.pending = NoNode

WithinBudget == Len(snap.history) <= MaxSteps

\* A run that an exception has left is driven by no loop, and was not paused
\* after a node: it would be resumed where it was left.
Left ==
  aborted => /\ \A t \in Callers : thr[t].pc = "idle"
             /\ snap.pending = NoNode

WfInv == WfTypeOK /\ ResumePoint /\ AtWork /\ AtTheEnd /\ WithinBudget /\ Left

Snapshot == [ status : WorkflowStatus, current : Nodes \cup { NoNode },
              context : Contexts, pending : Nodes \cup { NoNode },
              history : Seq(Nodes) ]

Thread == [ pc : { "idle", "top", "node" }, brk : Breakpoints \cup { << {}, {} >> },
            count : 0..MaxSteps, node : Nodes \cup { NoNode } ]

Flags == /\ signal \in BOOLEAN /\ due \in BOOLEAN
         /\ done \in BOOLEAN /\ aborted \in BOOLEAN

\* What does not concern the loop.
RestOK ==
  /\ Flags
  /\ intr \in { "idle", "looking", "marking" }
  /\ calls \in (0..MaxCalls) \X (0..MaxInterrupts)

LEMMA TypeParts ==
  WfTypeOK <=> snap \in Snapshot /\ thr \in [ Callers -> Thread ] /\ RestOK
  BY DEF WfTypeOK, Snapshot, Thread, RestOK, Flags

LEMMA TypePartsNext ==
  WfTypeOK' <=> snap' \in Snapshot /\ thr' \in [ Callers -> Thread ] /\ RestOK'
  BY DEF WfTypeOK, Snapshot, Thread, RestOK, Flags

LEMMA WfInvInit == WfInit => WfInv
<1> SUFFICES ASSUME WfInit PROVE WfInv
  OBVIOUS
<1>1. (CHOOSE c \in Contexts : TRUE) \in Contexts
  BY GraphAssumption
<1>2. snap \in Snapshot
  BY <1>1 DEF WfInit, NoRun, Snapshot, WorkflowStatus
<1>3. Idle \in Thread
  BY GraphAssumption DEF Idle, Thread
<1>4. calls \in (0..MaxCalls) \X (0..MaxInterrupts)
  BY WorkflowAssumption DEF WfInit
<1>5. WfTypeOK
  BY <1>2, <1>3, <1>4, TypeParts DEF WfInit, RestOK, Flags
<1> QED
  BY <1>5, GraphAssumption
     DEF WfInit, WfInv, NoRun, Idle, ResumePoint, AtWork, AtTheEnd, WithinBudget, Left

\* Only a thread that drives the run is anywhere but idle.
LEMMA Alone ==
  ASSUME OneLoop, NEW t \in Callers, thr[t].pc # "idle",
         NEW u \in Callers, u # t
  PROVE  thr[u].pc = "idle"
  BY DEF OneLoop

LEMMA RunStep ==
  ASSUME WfInv, NEW t \in Callers, Run(t)
  PROVE  WfInv'
<1> USE DEF WfInv
<1>1. PICK c \in Contexts :
        snap' = [ status |-> "running", current |-> Entry, context |-> c,
                  pending |-> NoNode, history |-> <<>> ]
  BY DEF Run
<1>2. PICK b \in Breakpoints :
        thr' = [thr EXCEPT ![t] = [ pc |-> "top", brk |-> b, count |-> 0,
                                    node |-> NoNode ]]
  BY DEF Run, Enter
<1>3. RestOK'
  <2>1. Flags'
    BY TypeParts, Zenon DEF Run, RestOK, Flags
  <2> QED
    BY <2>1, TypeParts, WorkflowAssumption DEF Run, Enter, RestOK
<1>4. WfTypeOK'
  <2>1. snap' \in Snapshot
    BY <1>1, GraphAssumption DEF Snapshot, ValidGraph, WorkflowStatus
  <2>2. [ pc |-> "top", brk |-> b, count |-> 0, node |-> NoNode ] \in Thread
    BY GraphAssumption DEF Thread
  <2>3. thr' \in [ Callers -> Thread ]
    BY <1>2, <2>2, TypeParts
  <2> QED
    BY <1>3, <2>1, <2>3, TypePartsNext
<1>5. ResumePoint' /\ AtTheEnd' /\ WithinBudget' /\ Left'
  BY <1>1, GraphAssumption DEF Run, ResumePoint, AtTheEnd, WithinBudget, Left
<1>6. AtWork'
  BY <1>1, <1>2 DEF Run, AtWork, WfTypeOK
<1> QED
  BY <1>4, <1>5, <1>6

\* Where a resumed run goes on, and that a run that is over stays over.
LEMMA ResumeAtType ==
  ASSUME WfInv, NEW c
  PROVE  /\ ResumeAt(c) \in Nodes \cup { NoNode, EdgeError }
         /\ done => ResumeAt(c) = NoNode
  BY NextNodeType DEF WfInv, WfTypeOK, AtTheEnd, ResumeAt

LEMMA ResumeStep ==
  ASSUME WfInv, OneLoop', NEW t \in Callers, Resume(t)
  PROVE  WfInv'
<1> USE DEF WfInv
<1>1. PICK c \in Contexts :
        IF ResumeAt(c) = EdgeError
        THEN /\ snap' = [snap EXCEPT !.context = c]
             /\ calls[1] < MaxCalls
             /\ calls' = << calls[1] + 1, calls[2] >>
             /\ UNCHANGED << signal, thr, due, aborted >>
        ELSE /\ snap' = Resumed(c)
             /\ Enter(t, StepsAtResume)
             /\ DiscardSignal
             /\ due' = FALSE
             /\ aborted' = FALSE
  BY DEF Resume
<1>2. CASE ResumeAt(c) = EdgeError
  <2>1. WfTypeOK'
    <3>1. snap' \in Snapshot
      BY <1>1, <1>2, TypeParts DEF Snapshot
    <3>2. Flags'
      BY <1>1, <1>2, TypeParts, Zenon DEF Resume, RestOK, Flags
    <3>3. RestOK'
      BY <1>1, <1>2, <3>2, TypeParts, WorkflowAssumption DEF Resume, RestOK
    <3> QED
      BY <1>1, <1>2, <3>1, <3>3, TypeParts, TypePartsNext
  <2>2. /\ UNCHANGED << thr, aborted, done >>
        /\ snap'.status = snap.status /\ snap'.current = snap.current
        /\ snap'.pending = snap.pending /\ snap'.history = snap.history
    BY <1>1, <1>2 DEF Resume, WfTypeOK
  <2>3. ResumePoint'
    BY <2>2 DEF ResumePoint
  <2>4. AtWork'
    BY <2>2 DEF AtWork
  <2>5. AtTheEnd' /\ WithinBudget' /\ Left'
    BY <2>2 DEF AtTheEnd, WithinBudget, Left
  <2> QED
    BY <2>1, <2>3, <2>4, <2>5
<1>3. CASE ResumeAt(c) # EdgeError
  <2>1. ResumeAt(c) \in Nodes \cup { NoNode }
    BY <1>3, ResumeAtType
  <2>2. snap' = [ snap EXCEPT !.status = "running", !.current = ResumeAt(c),
                              !.context = c, !.pending = NoNode ]
    BY <1>1, <1>3 DEF Resumed
  <2>3. PICK b \in Breakpoints :
          thr' = [thr EXCEPT ![t] = [ pc |-> "top", brk |-> b,
                                      count |-> Len(snap.history), node |-> NoNode ]]
    BY <1>1, <1>3 DEF Enter, StepsAtResume
  <2>4. RestOK'
    <3>1. Flags'
      BY <1>1, <1>3, TypeParts, Zenon DEF Resume, DiscardSignal, RestOK, Flags
    <3> QED
      BY <1>1, <1>3, <3>1, TypeParts, WorkflowAssumption DEF Resume, Enter, RestOK
  <2>5. Len(snap.history) \in 0..MaxSteps
    BY GraphAssumption DEF WfTypeOK, WithinBudget
  <2>6. WfTypeOK'
    <3>1. snap' \in Snapshot
      BY <2>1, <2>2, TypeParts DEF Snapshot, WorkflowStatus
    <3>2. [ pc |-> "top", brk |-> b, count |-> Len(snap.history), node |-> NoNode ]
            \in Thread
      BY <2>5 DEF Thread
    <3>3. thr' \in [ Callers -> Thread ]
      BY <2>3, <3>2, TypeParts
    <3> QED
      BY <2>4, <3>1, <3>3, TypePartsNext
  <2>7. \A u \in Callers : u # t => thr'[u].pc = "idle"
    BY <2>3 DEF OneLoop, WfTypeOK
  <2>8. AtWork'
    BY <2>2, <2>3, <2>7 DEF AtWork, WfTypeOK
  <2>9. AtTheEnd'
    BY <2>2, ResumeAtType DEF Resume, AtTheEnd, WfTypeOK
  <2> QED
    BY <1>1, <1>3, <2>2, <2>6, <2>8, <2>9 DEF ResumePoint, WithinBudget, Left, WfTypeOK
<1> QED
  BY <1>2, <1>3

-----------------------------------------------------------------------------
(* The loop *)

\* A step of the loop that leaves the flags typed leaves the rest typed.
LEMMA SteadyRest ==
  ASSUME WfTypeOK, Steady, Flags'
  PROVE  RestOK'
  BY TypeParts DEF Steady, RestOK

\* A loop that comes back leaves nobody at work.
LEMMA BackToIdle ==
  ASSUME WfInv, OneLoop, NEW t \in Callers, thr[t].pc # "idle", Label(t, "idle")
  PROVE  /\ thr' \in [ Callers -> Thread ]
         /\ \A u \in Callers : thr'[u].pc = "idle"
<1>1. thr \in [ Callers -> Thread ] /\ thr' = [thr EXCEPT ![t].pc = "idle"]
  BY TypeParts DEF WfInv, Label
<1>2. \A u \in Callers : u # t => thr[u].pc = "idle"
  BY Alone
<1> QED
  BY <1>1, <1>2 DEF Thread

LEMMA FinishStep ==
  ASSUME WfInv, OneLoop, NEW t \in Callers, Finish(t)
  PROVE  WfInv'
<1> USE DEF WfInv
<1>1. snap' = [snap EXCEPT !.status = "completed"] /\ snap.current = NoNode
      /\ thr[t].pc = "top" /\ Label(t, "idle") /\ aborted' = aborted
  BY DEF Finish
<1>2. Flags'
  BY TypeParts, Zenon DEF Finish, RestOK, Flags
<1>3. WfTypeOK'
  BY <1>1, <1>2, SteadyRest, BackToIdle, TypeParts, TypePartsNext
     DEF Finish, Snapshot, WorkflowStatus
<1>4. snap.pending = NoNode
  BY <1>1 DEF AtWork
<1> QED
  BY <1>1, <1>3, <1>4, BackToIdle
     DEF ResumePoint, AtWork, AtTheEnd, WithinBudget, Left, WfTypeOK

\* A run that fails keeps everything but its status.
LEMMA FailsStep ==
  ASSUME WfInv, OneLoop, NEW t \in Callers, TooManySteps(t) \/ NodeRaises(t)
  PROVE  WfInv'
<1> USE DEF WfInv
<1>1. snap' = [snap EXCEPT !.status = "failed"] /\ thr[t].pc # "idle"
      /\ Label(t, "idle") /\ Steady /\ UNCHANGED << signal, due, done >>
      /\ aborted' = TRUE
  BY DEF TooManySteps, NodeRaises
<1>2. Flags'
  BY <1>1, TypeParts, Zenon DEF RestOK, Flags
<1>3. WfTypeOK'
  BY <1>1, <1>2, SteadyRest, BackToIdle, TypeParts, TypePartsNext
     DEF Snapshot, WorkflowStatus
<1>4. snap.pending = NoNode
  BY <1>1 DEF AtWork
<1> QED
  BY <1>1, <1>3, <1>4, BackToIdle
     DEF ResumePoint, AtWork, AtTheEnd, WithinBudget, Left, WfTypeOK

LEMMA PauseBeforeStep ==
  ASSUME WfInv, OneLoop, NEW t \in Callers, PauseBefore(t)
  PROVE  WfInv'
<1> USE DEF WfInv
<1>1. snap' = [snap EXCEPT !.status = "interrupted"] /\ thr[t].pc # "idle"
      /\ Label(t, "idle") /\ Steady
  BY DEF PauseBefore, Pause
<1>2. Flags'
  BY TypeParts, Zenon DEF PauseBefore, Pause, DiscardSignal, RestOK, Flags
<1>3. WfTypeOK'
  BY <1>1, <1>2, SteadyRest, BackToIdle, TypeParts, TypePartsNext
     DEF Snapshot, WorkflowStatus
<1>4. snap.pending = NoNode /\ UNCHANGED << done, aborted >>
  BY <1>1 DEF AtWork, PauseBefore, Pause
<1> QED
  BY <1>1, <1>3, <1>4, BackToIdle
     DEF ResumePoint, AtWork, AtTheEnd, WithinBudget, Left, WfTypeOK

LEMMA StartNodeStep ==
  ASSUME WfInv, OneLoop, NEW t \in Callers, StartNode(t)
  PROVE  WfInv'
<1> USE DEF WfInv
<1>1. /\ thr[t].pc = "top" /\ snap.current # NoNode
      /\ thr[t].count + 1 <= MaxSteps
      /\ thr' = [thr EXCEPT ![t].pc = "node", ![t].node = snap.current,
                            ![t].count = @ + 1]
      /\ Steady /\ UNCHANGED << snap, signal, due, done, aborted >>
  BY GraphAssumption DEF StartNode, OutOfSteps, WfTypeOK
<1>2. Flags'
  BY <1>1, TypeParts, Zenon DEF RestOK, Flags
<1>3. thr' \in [ Callers -> Thread ]
  BY <1>1, TypeParts, GraphAssumption DEF Thread, Snapshot
<1>4. WfTypeOK'
  BY <1>1, <1>2, <1>3, SteadyRest, TypeParts, TypePartsNext
<1>5. \A u \in Callers : u # t => thr'[u].pc = "idle"
  BY <1>1, Alone DEF WfTypeOK
<1>6. AtWork'
  BY <1>1, <1>5 DEF AtWork, WfTypeOK
<1> QED
  BY <1>1, <1>4, <1>6 DEF AtWork, ResumePoint, AtTheEnd, WithinBudget, Left

\* What a node that comes back leaves behind: its step, its context, and where
\* the run goes on, or why it does not.
NodeOutcome(t, c, label) ==
  LET n        == snap.current
      next     == NextNode(n, c)
      recorded == [ snap EXCEPT !.history = Append(@, n), !.context = c ]
  IN /\ Label(t, label)
     /\ aborted' = (aborted \/ next = EdgeError)
     /\ \/ next = EdgeError /\ snap' = recorded /\ label = "idle"
        \/ /\ next # EdgeError /\ label = "idle"
           /\ snap' = [ recorded EXCEPT !.current = next, !.pending = n,
                                        !.status = "interrupted" ]
        \/ /\ next # EdgeError /\ label = "top"
           /\ snap' = [ recorded EXCEPT !.current = next ]

LEMMA NodeReturnsOutcome ==
  ASSUME WfInv, NEW t \in Callers, NodeReturns(t)
  PROVE  /\ thr[t].pc = "node" /\ snap.current \in Nodes
         /\ thr[t].node = snap.current
         /\ thr[t].count = Len(snap.history) + 1
         /\ Len(snap.history) + 1 <= MaxSteps
         /\ Steady /\ UNCHANGED << signal, due, done >>
         /\ \E c \in Contexts, label \in { "idle", "top" } : NodeOutcome(t, c, label)
<1>1. /\ thr[t].pc = "node" /\ thr[t].node = snap.current
      /\ thr[t].count = Len(snap.history) + 1 /\ snap.current \in Nodes
  BY DEF NodeReturns, WfInv, AtWork
<1>2. thr[t].count \in 0..MaxSteps
  BY DEF WfInv, WfTypeOK
<1>3. Len(snap.history) + 1 <= MaxSteps
  BY <1>1, <1>2, GraphAssumption
<1>4. \E c \in Contexts, label \in { "idle", "top" } : NodeOutcome(t, c, label)
  BY <1>1 DEF NodeReturns, NodeOutcome
<1> QED
  BY <1>1, <1>3, <1>4 DEF NodeReturns

LEMMA NodeReturnsStep ==
  ASSUME WfInv, OneLoop, NEW t \in Callers, NodeReturns(t)
  PROVE  WfInv'
<1> USE DEF WfInv
<1>1. PICK c \in Contexts, label \in { "idle", "top" } : NodeOutcome(t, c, label)
  BY NodeReturnsOutcome
<1>2. /\ thr[t].pc = "node" /\ snap.current \in Nodes
      /\ thr[t].count = Len(snap.history) + 1
      /\ Len(snap.history) + 1 <= MaxSteps
      /\ Steady /\ UNCHANGED << signal, due, done >>
  BY NodeReturnsOutcome
<1>3. /\ snap'.history = Append(snap.history, snap.current)
      /\ snap'.status \in { snap.status, "interrupted" }
      /\ snap'.context = c
      /\ snap'.current \in Nodes \cup { NoNode }
      /\ snap'.pending \in { snap.pending, snap.current }
      /\ snap'.pending # snap.pending => snap'.status = "interrupted" /\ label = "idle"
  <2>1. NextNode(snap.current, c) \in Nodes \cup { NoNode, EdgeError }
    BY NextNodeType
  <2>2. DOMAIN snap = { "status", "current", "context", "pending", "history" }
        /\ snap.current \in Nodes \cup { NoNode }
    BY DEF WfTypeOK
  <2> HIDE DEF WfInv
  <2>3. CASE NextNode(snap.current, c) = EdgeError
    BY <1>1, <2>2, <2>3 DEF NodeOutcome
  <2>4. CASE NextNode(snap.current, c) # EdgeError /\ label = "idle"
    BY <1>1, <2>1, <2>2, <2>4 DEF NodeOutcome
  <2>5. CASE NextNode(snap.current, c) # EdgeError /\ label = "top"
    BY <1>1, <2>1, <2>2, <2>5 DEF NodeOutcome
  <2> QED
    BY <2>3, <2>4, <2>5
<1>4. snap' \in Snapshot
  <2>1. Append(snap.history, snap.current) \in Seq(Nodes)
    BY <1>2, TypeParts DEF Snapshot
  <2> QED
    BY <1>1, <1>2, <2>1, NextNodeType, TypeParts DEF NodeOutcome, Snapshot, WorkflowStatus
<1>5. Flags'
  <2>1. aborted' \in BOOLEAN
    BY <1>1, Zenon DEF NodeOutcome
  <2> QED
    BY <1>2, <2>1, TypeParts, Zenon DEF RestOK, Flags
<1>6. thr' \in [ Callers -> Thread ]
  BY <1>1, TypeParts DEF NodeOutcome, Label, Thread
<1>7. WfTypeOK'
  BY <1>2, <1>4, <1>5, <1>6, SteadyRest, TypePartsNext
<1>8. \A u \in Callers : thr'[u].pc = IF u = t THEN label ELSE "idle"
  BY <1>1, <1>2, Alone DEF NodeOutcome, Label, WfTypeOK
<1>9. thr'[t].count = thr[t].count /\ snap.pending = NoNode
  BY <1>1, <1>2 DEF NodeOutcome, Label, WfTypeOK, AtWork
<1>10. /\ Len(snap'.history) = Len(snap.history) + 1
       /\ snap'.history[Len(snap'.history)] = snap.current /\ snap'.history # <<>>
  BY <1>2, <1>3, AppendProperties DEF WfTypeOK
<1>11. ResumePoint'
  BY <1>3, <1>8, <1>9, <1>10 DEF ResumePoint
<1>12. AtWork'
  BY <1>2, <1>3, <1>8, <1>9, <1>10 DEF AtWork
<1>13. AtTheEnd'
  BY <1>2, GraphAssumption DEF AtTheEnd
<1>14. WithinBudget'
  BY <1>2, <1>10 DEF WithinBudget
<1>15. Left'
  <2>1. ~ aborted
    BY <1>2 DEF Left
  <2>2. NextNode(snap.current, c) = EdgeError => label = "idle" /\ snap'.pending = snap.pending
    BY <1>1 DEF NodeOutcome, WfTypeOK
  <2>3. aborted' => label = "idle" /\ snap'.pending = NoNode
    BY <1>1, <1>9, <2>1, <2>2 DEF NodeOutcome
  <2> QED
    BY <1>8, <2>3 DEF Left
<1> QED
  BY <1>7, <1>11, <1>12, <1>13, <1>14, <1>15

-----------------------------------------------------------------------------
(* interrupt() *)

\* Signal and look leave the snapshot and the loops alone, the mark only
\* changes the status, and to the one a pending transition needs.
LEMMA InterruptStep ==
  ASSUME WfInv, Interrupt \/ Look \/ Mark
  PROVE  WfInv'
<1> USE DEF WfInv
<1>1. UNCHANGED << thr, done, aborted >>
      /\ (snap' = snap \/ snap' = [snap EXCEPT !.status = "interrupted"])
  BY DEF Interrupt, Look, Mark
<1>2. Flags'
  BY TypeParts, Zenon DEF Interrupt, Look, Mark, RestOK, Flags
<1>3. RestOK'
  BY <1>2, TypeParts, WorkflowAssumption DEF Interrupt, Look, Mark, RestOK
<1>4. WfTypeOK'
  BY <1>1, <1>3, TypeParts, TypePartsNext DEF Snapshot, WorkflowStatus
<1> QED
  BY <1>1, <1>4 DEF ResumePoint, AtWork, AtTheEnd, WithinBudget, Left, WfTypeOK

-----------------------------------------------------------------------------
(* The theorems *)

LEMMA WfInvStep == WfInv /\ OneLoop /\ OneLoop' /\ [WfNext]_wfVars => WfInv'
<1> SUFFICES ASSUME WfInv, OneLoop, OneLoop', [WfNext]_wfVars PROVE WfInv'
  OBVIOUS
<1>1. ASSUME NEW t \in Callers, Run(t) PROVE WfInv'
  BY <1>1, RunStep
<1>2. ASSUME NEW t \in Callers, Resume(t) PROVE WfInv'
  BY <1>2, ResumeStep
<1>3. ASSUME NEW t \in Callers, Loop(t) PROVE WfInv'
  BY <1>3, FinishStep, FailsStep, PauseBeforeStep, StartNodeStep, NodeReturnsStep DEF Loop
<1>4. CASE Interrupt \/ Look \/ Mark
  BY <1>4, InterruptStep
<1>5. CASE UNCHANGED wfVars
  BY <1>5 DEF wfVars, WfInv, WfTypeOK, ResumePoint, AtWork, AtTheEnd, WithinBudget, Left
<1> QED
  BY <1>1, <1>2, <1>3, <1>4, <1>5 DEF WfNext

LEMMA WfInvHolds == WfSpec /\ []OneLoop => []WfInv
  BY WfInvInit, WfInvStep, PTL DEF WfSpec

\* Every reachable snapshot and loop is typed: no edge condition that raised is
\* ever the node to go on with, and no loop counts past max_steps (line 202).
THEOREM WorkflowTypes == WfSpec /\ []OneLoop => []WfTypeOK
<1>1. WfInv => WfTypeOK
  BY DEF WfInv
<1> QED
  BY <1>1, WfInvHolds, PTL

\* However run(), resume() and interrupt() fall, a pending transition stands
\* only in a run at rest that can be resumed, and names its last node.
THEOREM PendingIsLast == WfSpec /\ []OneLoop => []ResumePoint
<1>1. WfInv => ResumePoint
  BY DEF WfInv
<1> QED
  BY <1>1, WfInvHolds, PTL

\* One client at a time: what the examples and the command line are.
OneClient == \A t, u \in Callers : t = u

\* Where only one thread calls run() and resume(), at most one loop is at work.
THEOREM OneClientOneLoop ==
  ASSUME OneClient
  PROVE  WfSpec => []OneLoop
<1>1. OneLoop
  BY OneClient DEF OneClient, OneLoop
<1> QED
  BY <1>1, PTL

-----------------------------------------------------------------------------
(* Action properties *)

\* A node is only executed where the run is, and a finished run is nowhere.
LEMMA DoneExecutesNothing ==
  ASSUME WfInv, done, NEW t \in Callers
  PROVE  ~ NodeReturns(t)
  BY GraphAssumption DEF WfInv, AtTheEnd, AtWork, NodeReturns

\* Once reported COMPLETED a run executes no node until run() is called anew,
\* even if interrupt() has relabelled it and it is resumed (lines 120-121).
THEOREM EndIsTheEnd == WfSpec /\ []OneLoop => NothingAfterTheEnd
<1>1. ASSUME WfInv, [WfNext]_wfVars, done, snap'.history # snap.history
      PROVE  snap'.history = <<>>
  <2>1. ASSUME NEW t \in Callers, Run(t) PROVE snap'.history = <<>>
    BY <2>1 DEF Run
  <2>2. ASSUME NEW t \in Callers, Resume(t) PROVE FALSE
    BY <1>1, <2>2 DEF Resume, Resumed, WfInv, WfTypeOK
  <2>3. ASSUME NEW t \in Callers, Loop(t) PROVE FALSE
    BY <1>1, <2>3, DoneExecutesNothing
       DEF Loop, Finish, TooManySteps, PauseBefore, Pause, StartNode, NodeRaises,
           WfInv, WfTypeOK
  <2>4. CASE Interrupt \/ Look \/ Mark
    BY <1>1, <2>4 DEF Interrupt, Look, Mark, WfInv, WfTypeOK
  <2> QED
    BY <1>1, <2>1, <2>2, <2>3, <2>4 DEF WfNext, wfVars
<1>2. WfInv /\ [WfNext]_wfVars =>
        [done /\ snap'.history # snap.history => snap'.history = <<>>]_wfVars
  BY <1>1
<1> QED
  BY <1>2, WfInvHolds, PTL DEF WfSpec, NothingAfterTheEnd

\* A signal stands exactly as long as a call of interrupt() is owed a pause.
SignalOwed == /\ signal = due
              /\ DOMAIN thr = Callers
              /\ "status" \in DOMAIN snap
              /\ \A t \in Callers : "pc" \in DOMAIN thr[t]

LEMMA SignalOwedStep == SignalOwed /\ [WfNext]_wfVars => SignalOwed'
<1> SUFFICES ASSUME SignalOwed, [WfNext]_wfVars PROVE SignalOwed'
  OBVIOUS
<1>1. ASSUME NEW t \in Callers, Run(t) PROVE SignalOwed'
  BY <1>1 DEF Run, Enter, SignalOwed
<1>2. ASSUME NEW t \in Callers, Resume(t) PROVE SignalOwed'
  <2>1. signal' = due'
    BY <1>2, Zenon DEF Resume, DiscardSignal, SignalOwed
  <2>2. thr' = thr \/ \E b \in Breakpoints :
          thr' = [thr EXCEPT ![t] = [ pc |-> "top", brk |-> b, count |-> StepsAtResume,
                                      node |-> NoNode ]]
    BY <1>2, Zenon DEF Resume, Enter
  <2>3. DOMAIN snap' = DOMAIN snap
    BY <1>2 DEF Resume, Resumed
  <2> QED
    BY <2>1, <2>2, <2>3 DEF SignalOwed
<1>3. ASSUME NEW t \in Callers, Loop(t) PROVE SignalOwed'
  <2>1. signal' = due'
    BY <1>3, Zenon DEF Loop, Finish, TooManySteps, PauseBefore, Pause, StartNode,
                       NodeRaises, NodeReturns, DiscardSignal, SignalOwed
  <2>2. CASE NodeReturns(t)
    BY <2>1, <2>2 DEF NodeReturns, Label, SignalOwed
  <2>3. CASE ~ NodeReturns(t)
    BY <1>3, <2>1, <2>3 DEF Loop, Finish, TooManySteps, PauseBefore, Pause, StartNode,
                            NodeRaises, Label, SignalOwed
  <2> QED
    BY <2>2, <2>3
<1>4. CASE Interrupt \/ Look \/ Mark
  <2>1. signal' = due'
    BY <1>4, Zenon DEF Interrupt, Look, Mark, SignalOwed
  <2> QED
    BY <1>4, <2>1 DEF Interrupt, Look, Mark, SignalOwed
<1>5. CASE UNCHANGED wfVars
  BY <1>5 DEF wfVars, SignalOwed
<1> QED
  BY <1>1, <1>2, <1>3, <1>4, <1>5 DEF WfNext

\* With any number of loops at work, a loop pauses without a breakpoint only if
\* interrupt() was called since the last pause or resume (lines 118, 219).
THEOREM PausesAreAskedFor == WfSpec => OneInterruptOnePause
<1>1. WfInit => SignalOwed
  <2>1. WfInit => signal = due
    BY Zenon DEF WfInit
  <2> QED
    BY <2>1 DEF WfInit, SignalOwed, Idle, NoRun
<1>2. ASSUME SignalOwed, [WfNext]_wfVars, NEW t \in Callers,
             thr[t].pc = "top", thr'[t].pc = "idle",
             snap.current \notin thr[t].brk[1], snap'.status = "interrupted"
      PROVE  due
  <2>1. ASSUME NEW u \in Callers, Run(u) PROVE FALSE
    BY <1>2, <2>1 DEF SignalOwed, Run, Enter
  <2>2. ASSUME NEW u \in Callers, Resume(u) PROVE FALSE
    <3>1. thr' = thr \/ \E b \in Breakpoints :
            thr' = [thr EXCEPT ![u] = [ pc |-> "top", brk |-> b,
                                        count |-> StepsAtResume, node |-> NoNode ]]
      BY <2>2, Zenon DEF Resume, Enter
    <3> QED
      BY <1>2, <3>1 DEF SignalOwed
  <2>3. ASSUME NEW u \in Callers, Loop(u) PROVE due
    <3>1. \E label : Label(u, label) \/ StartNode(u)
      BY <2>3 DEF Loop, Finish, TooManySteps, PauseBefore, Pause, NodeRaises, NodeReturns
    <3>2. u = t
      BY <1>2, <3>1 DEF SignalOwed, Label, StartNode
    <3>3. ~ StartNode(u)
      BY <1>2, <3>2 DEF SignalOwed, StartNode
    <3>4. PauseBefore(u)
      BY <1>2, <2>3, <3>2, <3>3
         DEF SignalOwed, Loop, Finish, TooManySteps, NodeRaises, NodeReturns
    <3> QED
      BY <1>2, <3>2, <3>4, Zenon DEF PauseBefore, Pause, PauseDue, SignalOwed
  <2>4. CASE Interrupt \/ Look \/ Mark
    BY <1>2, <2>4 DEF Interrupt, Look, Mark
  <2> QED
    BY <1>2, <2>1, <2>2, <2>3, <2>4 DEF WfNext, wfVars
<1>3. SignalOwed /\ [WfNext]_wfVars =>
        [ \A t \in Callers :
            ( /\ thr[t].pc = "top" /\ thr'[t].pc = "idle"
              /\ snap.current \notin thr[t].brk[1]
              /\ snap'.status = "interrupted" ) => due ]_wfVars
  BY <1>2
<1> QED
  BY <1>1, <1>3, SignalOwedStep, PTL DEF WfSpec, OneInterruptOnePause

-----------------------------------------------------------------------------
(* The engine walks the graph *)

\* Both modules search the same edges.
LEMMA SameSearch == \A n, c : Walk!NextNode(n, c) = NextNode(n, c)
  BY DEF Walk!NextNode, NextNode, Walk!Candidates, Candidates

\* A run a loop drives has been left by no exception and stands before a node.
LEMMA WalkWhileDriven ==
  ASSUME WfInv, NEW t \in Callers, thr[t].pc # "idle"
  PROVE  ~ aborted /\ snap.pending = NoNode
  BY DEF WfInv, Left, AtWork

LEMMA ResumeWalks ==
  ASSUME WfInv, WfInv', NEW t \in Callers, Resume(t)
  PROVE  Walk!Next \/ Revived
<1>1. PICK c \in Contexts :
        IF ResumeAt(c) = EdgeError
        THEN /\ snap' = [snap EXCEPT !.context = c]
             /\ aborted' = aborted
        ELSE /\ snap' = Resumed(c)
             /\ aborted' = FALSE
  BY DEF Resume
<1>2. /\ snap'.context = c /\ snap'.history = snap.history
      /\ IF ResumeAt(c) = EdgeError
         THEN /\ snap'.current = snap.current /\ snap'.pending = snap.pending
              /\ aborted' = aborted
         ELSE /\ snap'.current = ResumeAt(c) /\ snap'.pending = NoNode
              /\ aborted' = FALSE
  BY <1>1 DEF Resumed, WfInv, WfTypeOK
<1>3. CASE snap.pending # NoNode
  <2>1. ~ aborted
    BY <1>3 DEF WfInv, Left
  <2>2. ResumeAt(c) = NextNode(snap.history[Len(snap.history)], c)
    BY <1>3 DEF WfInv, ResumePoint, ResumeAt
  <2>3. Walk!Choose
    BY <1>2, <1>3, <2>1, <2>2, SameSearch DEF Walk!Choose
  <2> QED
    BY <2>3 DEF Walk!Next
<1>4. CASE snap.pending = NoNode
  <2>1. ResumeAt(c) = snap.current /\ snap.current # EdgeError
    BY <1>4, GraphAssumption DEF ResumeAt, WfInv, WfTypeOK
  <2>2. CASE aborted
    BY <1>2, <1>4, <2>1, <2>2 DEF Revived
  <2>3. CASE ~ aborted
    BY <1>2, <1>4, <2>1, <2>3 DEF Walk!Input, Walk!Next
  <2> QED
    BY <2>2, <2>3
<1> QED
  BY <1>3, <1>4

LEMMA NodeReturnsWalks ==
  ASSUME WfInv, NEW t \in Callers, NodeReturns(t)
  PROVE  Walk!Execute
<1>1. PICK c \in Contexts, label \in { "idle", "top" } : NodeOutcome(t, c, label)
  BY NodeReturnsOutcome
<1>2. /\ snap.current \in Nodes /\ snap.current # NoNode
      /\ Len(snap.history) < MaxSteps
      /\ ~ aborted /\ snap.pending = NoNode
  BY NodeReturnsOutcome, WalkWhileDriven, GraphAssumption DEF WfInv, WfTypeOK
<1>3. /\ snap'.context = c
      /\ snap'.history = Append(snap.history, snap.current)
  BY <1>1 DEF NodeOutcome, WfInv, WfTypeOK
<1>4. CASE NextNode(snap.current, c) = EdgeError
  <2>1. aborted' /\ snap'.pending = NoNode
    BY <1>1, <1>2, <1>4 DEF NodeOutcome, WfInv, WfTypeOK
  <2> QED
    BY <1>2, <1>3, <1>4, <2>1, SameSearch DEF Walk!Execute
<1>5. CASE NextNode(snap.current, c) # EdgeError
  <2>1. ~ aborted'
    BY <1>1, <1>2, <1>5 DEF NodeOutcome
  <2>2. snap'.current = NextNode(snap.current, c)
    BY <1>1, <1>5 DEF NodeOutcome, WfInv, WfTypeOK
  <2> QED
    BY <1>2, <1>3, <1>5, <2>1, <2>2, SameSearch DEF Walk!Execute
<1> QED
  BY <1>4, <1>5

LEMMA WalkStep ==
  WfInv /\ WfInv' /\ [WfNext]_wfVars => [Walk!Next \/ Revived]_(Walk!walkVars)
<1> SUFFICES ASSUME WfInv, WfInv', [WfNext]_wfVars
             PROVE  Walk!Next \/ Revived \/ UNCHANGED Walk!walkVars
  OBVIOUS
<1>1. ASSUME NEW t \in Callers, Run(t) PROVE Walk!Begin
  BY <1>1 DEF Run, Walk!Begin
<1>2. ASSUME NEW t \in Callers, Resume(t) PROVE Walk!Next \/ Revived
  BY <1>2, ResumeWalks
<1>3. ASSUME NEW t \in Callers, NodeReturns(t) PROVE Walk!Execute
  BY <1>3, NodeReturnsWalks
<1>4. ASSUME NEW t \in Callers, NodeRaises(t) \/ TooManySteps(t) PROVE Walk!Fail
  <2>1. snap.current # NoNode
    BY <1>4, GraphAssumption DEF NodeRaises, TooManySteps, WfInv, AtWork
  <2>2. ~ aborted /\ snap.pending = NoNode
    BY <1>4, WalkWhileDriven DEF NodeRaises, TooManySteps
  <2>3. aborted' /\ UNCHANGED << snap.context, snap.history, snap.pending >>
    BY <1>4 DEF NodeRaises, TooManySteps, WfInv, WfTypeOK
  <2> QED
    BY <2>1, <2>2, <2>3 DEF Walk!Fail
<1>5. ASSUME NEW t \in Callers, Finish(t) \/ PauseBefore(t) \/ StartNode(t)
      PROVE  UNCHANGED Walk!walkVars
  BY <1>5 DEF Finish, PauseBefore, Pause, StartNode, Walk!walkVars, WfInv, WfTypeOK
<1>6. CASE Interrupt \/ Look \/ Mark
  BY <1>6 DEF Interrupt, Look, Mark, Walk!walkVars, WfInv, WfTypeOK
<1>7. CASE UNCHANGED wfVars
  BY <1>7 DEF wfVars, Walk!walkVars
<1> QED
  BY <1>1, <1>2, <1>3, <1>4, <1>5, <1>6, <1>7 DEF WfNext, Loop, Walk!Next

\* The engine implements the walk of edge.py: paused and resumed wherever it may
\* be, a run executes the nodes WorkflowGraph.run would, in its order, and at most
\* max_steps of them over all its resumes.  Once an exception has left it the walk
\* is over, except for one step, Revived: resume() of such a run.
THEOREM EngineWalks == WfSpec /\ []OneLoop => Walks
<1>1. WfInit => Walk!Init
  BY WfInvInit DEF WfInit, NoRun, Walk!Init, WfInv, WfTypeOK
<1> QED
  BY <1>1, WalkStep, WfInvHolds, PTL DEF WfSpec, Walks
=============================================================================
