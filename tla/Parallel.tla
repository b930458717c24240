------------------------------ MODULE Parallel ------------------------------
(***************************************************************************)
(* One execute() of a ParallelNode or a ParallelToolNode                   *)
(* (workflow/parallel.py): branches run in a pool of threads, the main     *)
(* thread collects them as they complete, waits for the pool, and raises   *)
(* or merges what they returned.                                           *)
(*                                                                         *)
(* A branch is named by its place in the list of nodes or calls: ids are   *)
(* taken to be distinct.  What a branch returns is chosen beforehand, so   *)
(* that only the schedule is left open.                                    *)
(***************************************************************************)
EXTENDS Naturals, FiniteSets, SequencesExt

CONSTANTS
  Works,       \* what a subnode may return: contexts (keys to values)
  Contexts,    \* contexts execute() may be given
  Observations,\* what a tool may return
  MaxBranches, \* bound: length of the list of nodes or calls
  MaxWorkers,  \* max_workers
  Raises       \* a branch that raises

ASSUME ParallelAssumption ==
  MaxBranches \in Nat /\ MaxWorkers \in Nat \ {0}

VARIABLES
  call,     \* the node and its input
  pc,       \* of the main thread
  branch,   \* per future: "queued", "running" or "done"
  batch,    \* completed futures as_completed() has picked up and not yielded
  results,  \* the branches collected, as they came
  errors,   \* the branches that were found to have raised
  result    \* the context returned, NoResult before

vars == << call, pc, branch, batch, results, errors, result >>

ResultKey    == "observations"
NamespaceKey == "branches"
NoResult     == << "no result" >>

Node(kind, outcomes) ==
  UNION { [ kind : { kind }, context : Contexts, timed : BOOLEAN,
            works : [ 1..n -> outcomes \cup { Raises } ] ] : n \in 0..MaxBranches }

Calls == Node("default", Works) \cup Node("namespaced", Works)
           \cup Node("tools", Observations)

Branches == DOMAIN call.works

\* Seeded fault: max instead of min.
WorkersUncapped == Max({ MaxWorkers, Cardinality(Branches) })

Workers == Min({ MaxWorkers, Cardinality(Branches) })

In(status) == { b \in DOMAIN branch : branch[b] = status }

-----------------------------------------------------------------------------
(* Merging *)

Lookup(context, key) == IF key \in DOMAIN context THEN context[key] ELSE <<>>

Item(key, value) == [ k \in { key } |-> value ]

\* context.update(items)
Updated(context, items) ==
  [ k \in DOMAIN context \cup DOMAIN items |->
      IF k \in DOMAIN items THEN items[k] ELSE context[k] ]

DefaultMerge(bs) == FoldLeft(Updated, call.context, [ i \in DOMAIN bs |-> call.works[bs[i]] ])

NamespacedMerge(bs) ==
  LET items == [ i \in DOMAIN bs |-> Item(bs[i], call.works[bs[i]]) ]
      ns    == FoldLeft(Updated, Lookup(call.context, NamespaceKey), items)
  IN Updated(call.context, Item(NamespaceKey, ns))

ToolMerge(bs) ==
  LET observations == [ i \in DOMAIN bs |-> call.works[bs[i]] ]
  IN Updated(call.context,
             Item(ResultKey, Lookup(call.context, ResultKey) \o observations))

\* Seeded fault: the branches are merged as they completed.
SortedAsTheyCame(bs) == bs

\* The same branches in the order of their places.
Sorted(bs) ==
  CHOOSE s \in [ DOMAIN bs -> ToSet(bs) ] :
    ToSet(s) = ToSet(bs) /\ \A i, j \in DOMAIN s : i < j => s[i] < s[j]

Merge(bs) == CASE call.kind = "default"    -> DefaultMerge(Sorted(bs))
               [] call.kind = "namespaced" -> NamespacedMerge(Sorted(bs))
               [] call.kind = "tools"      -> ToolMerge(Sorted(bs))

-----------------------------------------------------------------------------
(* The pool *)

\* Seeded fault: a worker is not free before its result has been collected.
BusyUntilCollected == In("running") \cup (In("done") \ (ToSet(results) \cup errors))

Busy == In("running")

\* A free worker takes the future submitted first.
Begin ==
  /\ In("queued") # {} /\ Cardinality(Busy) < Workers
  /\ branch' = [ branch EXCEPT ![Min(In("queued"))] = "running" ]
  /\ UNCHANGED << call, pc, batch, results, errors, result >>

End(b) ==
  /\ branch[b] = "running"
  /\ branch' = [ branch EXCEPT ![b] = "done" ]
  /\ UNCHANGED << call, pc, batch, results, errors, result >>

-----------------------------------------------------------------------------
(* The main thread *)

Execute ==
  /\ pc = "idle"
  /\ IF Branches = {}
       THEN pc' = "returned" /\ result' = call.context /\ UNCHANGED branch
       ELSE /\ pc' = "collecting"
            /\ branch' = [ b \in Branches |-> "queued" ]
            /\ UNCHANGED result
  /\ UNCHANGED << call, batch, results, errors >>

Pending == Branches \ (ToSet(results) \cup errors)

\* as_completed() wakes up and picks up what has completed.
PickUp ==
  /\ pc = "collecting" /\ batch = {}
  /\ batch' = Pending \cap In("done")
  /\ batch' # {}
  /\ UNCHANGED << call, pc, branch, results, errors, result >>

Collect(b) ==
  /\ pc = "collecting" /\ b \in batch
  /\ batch' = batch \ { b }
  /\ IF call.works[b] = Raises
       THEN errors' = errors \cup { b } /\ UNCHANGED results
       ELSE results' = Append(results, b) /\ UNCHANGED errors
  /\ UNCHANGED << call, pc, branch, result >>

\* as_completed() raises: it looks at the clock before it looks at the futures.
TimesOut ==
  /\ pc = "collecting" /\ batch = {} /\ Pending # {} /\ call.timed
  /\ pc' = "timed out"
  /\ UNCHANGED << call, branch, batch, results, errors, result >>

\* Seeded fault: the pool is shut down without waiting for the branches.
PoolShutAtOnce == TRUE

PoolShut == In("queued") \cup In("running") = {}

LeaveTimedOut ==
  /\ pc = "timed out" /\ PoolShut
  /\ pc' = "raised"
  /\ UNCHANGED << call, branch, batch, results, errors, result >>

\* Seeded fault: a node fails only when all its branches do.
FailedAltogether == results = <<>>

Failed == errors # {}

Leave ==
  /\ pc = "collecting" /\ Pending = {} /\ PoolShut
  /\ IF Failed THEN pc' = "raised" /\ UNCHANGED result
               ELSE pc' = "returned" /\ result' = Merge(results)
  /\ UNCHANGED << call, branch, batch, results, errors >>

Init ==
  /\ call \in Calls
  /\ pc = "idle"
  /\ branch = <<>>
  /\ batch = {} /\ results = <<>> /\ errors = {}
  /\ result = NoResult

Main == Execute \/ PickUp \/ (\E b \in batch : Collect(b)) \/ LeaveTimedOut \/ Leave

Ended == pc \in { "returned", "raised" }

Next == Main \/ TimesOut \/ Begin \/ (\E b \in DOMAIN branch : End(b))

\* Threads run, and every branch comes to an end: no timeout ends one.
Spec == /\ Init /\ [][Next]_vars
        /\ WF_vars(Main) /\ WF_vars(Begin) /\ WF_vars(\E b \in DOMAIN branch : End(b))

-----------------------------------------------------------------------------
(* Properties *)

\* Every variable in its domain; no more branches at work than the node was
\* allowed (lines 89, 141), and those that were submitted first begin first; a
\* branch is collected once, into the results or into the errors (lines 92-97,
\* 153-158).
TypeOK ==
  /\ call \in Calls
  /\ pc \in { "idle", "collecting", "timed out", "raised", "returned" }
  /\ DOMAIN branch \in { {}, Branches }
  /\ \A b \in DOMAIN branch : branch[b] \in { "queued", "running", "done" }
  /\ \A b, c \in DOMAIN branch : branch[b] = "queued" /\ b < c => branch[c] = "queued"
  /\ Cardinality({ b \in DOMAIN branch : branch[b] = "running" }) <= MaxWorkers
  /\ batch \subseteq Branches /\ errors \subseteq Branches
  /\ results \in Seq(Branches) /\ IsInjective(results)
  /\ ToSet(results) \cap errors = {} /\ batch \cap (ToSet(results) \cup errors) = {}

\* A key of the result of the default merge has the value of the last branch,
\* in the order of the nodes, that returned the key, and of the context when
\* none did.
LastNodeWins ==
  LET having(k) == { b \in Branches : k \in DOMAIN call.works[b] }
  IN /\ DOMAIN result = DOMAIN call.context \cup UNION { DOMAIN call.works[b] : b \in Branches }
     /\ \A k \in DOMAIN result :
          result[k] = IF having(k) = {} THEN call.context[k]
                      ELSE call.works[Max(having(k))][k]

\* The other two add one entry per branch, the observations in the order of
\* the calls, and leave the rest of the context alone.
OneEntryEach ==
  LET key == IF call.kind = "tools" THEN ResultKey ELSE NamespaceKey
      old == Lookup(call.context, key)
  IN /\ DOMAIN result = DOMAIN call.context \cup { key }
     /\ \A k \in DOMAIN result \ { key } : result[k] = call.context[k]
     /\ IF call.kind = "tools" THEN result[key] = old \o call.works
        ELSE /\ \A b \in Branches : result[key][b] = call.works[b]
             /\ \A k \in DOMAIN old \ Branches : result[key][k] = old[k]

\* What execute() returns is a function of the nodes and the context, whatever
\* order the branches complete and are collected in (lines 102-106, 163-171).
CompletionOrderIrrelevant ==
  pc = "returned" =>
    IF Branches = {} THEN result = call.context
    ELSE IF call.kind = "default" THEN LastNodeWins ELSE OneEntryEach

Raising == { b \in Branches : call.works[b] = Raises }

\* execute() returns only if no branch raised, and what it raises without a
\* timeout names every branch that did, those that raised last included
\* (lines 92-100, 153-161).
AllOrNothing ==
  /\ pc = "returned" => Raising = {}
  /\ pc = "raised" => errors = Raising \/ call.timed
  /\ pc = "raised" /\ errors = {} => call.timed /\ Pending # {}

\* A node that has come to its end, in whatever way, has no branch that still
\* works on the context or on the world (lines 90, 149).
NoBranchLeft == Ended => \A b \in DOMAIN branch : branch[b] = "done"

\* execute() ends, a timeout included (lines 78-106, 132-171).
ExecuteEnds == pc = "collecting" ~> Ended
=============================================================================
