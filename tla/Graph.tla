------------------------------- MODULE Graph --------------------------------
(***************************************************************************)
(* The graph of workflow/edge.py, and the search for the node that comes   *)
(* next, which WorkflowGraph.run and WorkflowEngine._find_next_node do the *)
(* same way.  A context is what the edge conditions can tell apart.        *)
(***************************************************************************)
EXTENDS Naturals, Sequences

CONSTANTS
  Nodes,
  Contexts,
  Edges,      \* in the order of add_edge: records from, to, when and raises,
              \* the contexts that satisfy the condition and those on which
              \* it raises
  Entry,      \* entry_point
  MaxSteps,   \* max_steps
  NoNode,     \* None
  EdgeError   \* an edge condition has raised

\* What validate() accepts.
ValidGraph ==
  /\ Entry \in Nodes
  /\ \A i \in DOMAIN Edges : { Edges[i].from, Edges[i].to } \subseteq Nodes

ASSUME GraphAssumption ==
  /\ Contexts # {}
  /\ Edges \in Seq([ from : Nodes, to : Nodes,
                     when : SUBSET Contexts, raises : SUBSET Contexts ])
  /\ ValidGraph
  /\ \A i \in DOMAIN Edges : Edges[i].when \cap Edges[i].raises = {}
  /\ MaxSteps \in Nat
  /\ NoNode \notin Nodes
  /\ EdgeError \notin Nodes \cup { NoNode }

\* Edges out of n at which the search in the order of the edges may end.
Candidates(n, c) ==
  { i \in DOMAIN Edges : /\ Edges[i].from = n
                         /\ c \in Edges[i].when \cup Edges[i].raises }

\* Where the walk goes on after node n has left context c.
NextNode(n, c) ==
  IF Candidates(n, c) = {} THEN NoNode
  ELSE LET first == CHOOSE i \in Candidates(n, c) :
                      \A j \in Candidates(n, c) : i <= j
       IN IF c \in Edges[first].raises THEN EdgeError ELSE Edges[first].to
=============================================================================
