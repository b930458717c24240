------------------------------ MODULE GraphWalk ------------------------------
(***************************************************************************)
(* The walk of WorkflowGraph.run (workflow/edge.py) from the entry point   *)
(* along the first edge whose condition holds, until a node has no such    *)
(* edge or an exception ends it: that of a node, of a condition, or the    *)
(* one for too many steps.  It is what WorkflowEngine promises too, with   *)
(* what a human may add while a run stands still: a new context, and where *)
(* the run stands after a node and before the choice of its edge (`held`), *)
(* that choice made under the new context.                                 *)
(***************************************************************************)
EXTENDS Graph

VARIABLES
  at,     \* the node to execute next, NoNode when the walk is over
  ctx,    \* the context it will get
  trail,  \* the nodes executed, in order
  held    \* the edge out of the last node is chosen with the human's input

walkVars == << at, ctx, trail, held >>

Init == at = NoNode /\ trail = <<>> /\ ctx \in Contexts /\ held = FALSE

Begin == /\ at' = Entry
         /\ trail' = <<>>
         /\ ctx' \in Contexts
         /\ held' = FALSE

\* One node executed; the walk is over if no edge leads on or a condition
\* raises.
Execute ==
  /\ at # NoNode /\ ~ held
  /\ Len(trail) < MaxSteps
  /\ ctx' \in Contexts
  /\ trail' = Append(trail, at)
  /\ LET next == NextNode(at, ctx')
     IN IF next = EdgeError THEN at' = NoNode /\ held' = FALSE
                            ELSE at' = next /\ held' \in BOOLEAN

\* The node raises, or it would be one step too many.
Fail == /\ at # NoNode /\ ~ held
        /\ at' = NoNode
        /\ UNCHANGED << ctx, trail, held >>

\* Human input to a run that stands before a node: it is still that node's turn.
Input == /\ ~ held
         /\ ctx' \in Contexts
         /\ UNCHANGED << at, trail, held >>

\* Human input to a run held after a node: the edges out of that node lead on,
\* or a condition raises and the run stays where it is.
Choose ==
  /\ held
  /\ ctx' \in Contexts
  /\ LET next == NextNode(trail[Len(trail)], ctx')
     IN IF next = EdgeError THEN UNCHANGED << at, held >>
                            ELSE at' = next /\ held' = FALSE
  /\ UNCHANGED trail

Next == Begin \/ Execute \/ Fail \/ Input \/ Choose

Spec == Init /\ [][Next]_walkVars
=============================================================================
