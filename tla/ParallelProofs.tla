--------------------------- MODULE ParallelProofs ---------------------------
(***************************************************************************)
(* Proofs about Parallel: for any number of branches and workers, any      *)
(* contexts and any schedule, a node that has ended leaves no branch at    *)
(* work, it returns only if none raised, and then what the nodes and the   *)
(* context alone determine, whatever the order of completion was.          *)
(***************************************************************************)
EXTENDS Parallel, TLAPS, FiniteSetTheorems, NaturalsInduction

-----------------------------------------------------------------------------
(* No branch is left *)

\* A future is queued, running or done.
Statuses == \A b \in DOMAIN branch : branch[b] \in { "queued", "running", "done" }

PoolInv == Statuses /\ NoBranchLeft /\ (pc = "idle" => branch = <<>>)

LEMMA PoolInvInit == Init => PoolInv
  BY DEF Init, PoolInv, Statuses, NoBranchLeft, Ended

\* What is neither queued nor running is done.
LEMMA PoolShutMeansDone ==
  Statuses /\ PoolShut => \A b \in DOMAIN branch : branch[b] = "done"
  BY DEF Statuses, PoolShut, In

LEMMA PoolInvStep == PoolInv /\ [Next]_vars => PoolInv'
<1> SUFFICES ASSUME PoolInv, [Next]_vars PROVE PoolInv'
  OBVIOUS
<1> USE DEF PoolInv
<1>1. CASE Execute
  BY <1>1 DEF Execute, Statuses, NoBranchLeft, Ended
<1>2. CASE PickUp
  BY <1>2 DEF PickUp, Statuses, NoBranchLeft, Ended
<1>3. ASSUME NEW b \in batch, Collect(b) PROVE PoolInv'
  BY <1>3 DEF Collect, Statuses, NoBranchLeft, Ended
<1>4. CASE LeaveTimedOut
  BY <1>4, PoolShutMeansDone DEF LeaveTimedOut, Statuses, NoBranchLeft, Ended
<1>5. CASE Leave
  BY <1>5, PoolShutMeansDone DEF Leave, Statuses, NoBranchLeft, Ended
<1>6. CASE TimesOut
  BY <1>6 DEF TimesOut, Statuses, NoBranchLeft, Ended
<1>7. CASE Begin
  <2>1. ~ Ended
    BY <1>7 DEF Begin, NoBranchLeft, In
  <2>2. Statuses'
    BY <1>7 DEF Begin, Statuses
  <2>3. pc # "idle"
    BY <1>7 DEF Begin, In
  <2> QED
    BY <1>7, <2>1, <2>2, <2>3 DEF Begin, NoBranchLeft, Ended
<1>8. ASSUME NEW b \in DOMAIN branch, End(b) PROVE PoolInv'
  <2>1. ~ Ended
    BY <1>8 DEF End, NoBranchLeft
  <2>2. Statuses'
    BY <1>8 DEF End, Statuses
  <2>3. pc # "idle"
    BY <1>8 DEF End
  <2> QED
    BY <1>8, <2>1, <2>2, <2>3 DEF End, NoBranchLeft, Ended
<1>9. CASE UNCHANGED vars
  BY <1>9 DEF vars, Statuses, NoBranchLeft, Ended
<1> QED
  BY <1>1, <1>2, <1>3, <1>4, <1>5, <1>6, <1>7, <1>8, <1>9 DEF Next, Main

\* Whether it returns, raises what its branches raised, or times out, a node
\* that has ended has waited for every branch it submitted, those that were
\* still queued included (lines 90, 149).
THEOREM NothingLeft == Spec => []NoBranchLeft
<1>1. PoolInv => NoBranchLeft
  BY DEF PoolInv
<1> QED
  BY <1>1, PoolInvInit, PoolInvStep, PTL DEF Spec

-----------------------------------------------------------------------------
(* All or nothing *)

\* What has been collected is in the right place.
Collected ==
  /\ results \in Seq(Branches \ Raising)
  /\ batch \subseteq Branches
  /\ errors \subseteq Raising

\* Where the main thread is, and what is still to come.
MainInv ==
  /\ Collected
  /\ AllOrNothing
  /\ pc = "timed out" => call.timed /\ Pending # {}
  /\ pc = "idle" => errors = {} /\ results = <<>>

LEMMA MainInvInit == Init => MainInv
  BY DEF Init, MainInv, Collected, AllOrNothing

\* When all are collected the errors are those of all branches.
LEMMA ErrorsComplete == Collected /\ Pending = {} => errors = Raising
<1> SUFFICES ASSUME Collected, Pending = {} PROVE errors = Raising
  OBVIOUS
<1>1. ToSet(results) \subseteq Branches \ Raising
  BY DEF Collected, ToSet
<1>2. Raising \subseteq Branches
  BY DEF Raising
<1> QED
  BY <1>1, <1>2 DEF Collected, Pending

LEMMA AppendIn ==
  ASSUME NEW S, NEW s \in Seq(S), NEW e \in S
  PROVE  Append(s, e) \in Seq(S)
  OBVIOUS

LEMMA MainInvStep == MainInv /\ [Next]_vars => MainInv'
<1> SUFFICES ASSUME MainInv, [Next]_vars PROVE MainInv'
  OBVIOUS
<1> USE DEF MainInv
<1>1. CASE Execute
  BY <1>1 DEF Execute, Collected, AllOrNothing, Raising, Branches, Pending
<1>2. CASE PickUp
  <2>1. Pending \subseteq Branches
    BY DEF Pending
  <2> QED
    BY <1>2, <2>1 DEF PickUp, Collected, AllOrNothing, Raising, Branches, Pending
<1>3. ASSUME NEW b \in batch, Collect(b) PROVE MainInv'
  <2>1. call' = call /\ pc' = pc /\ pc = "collecting" /\ b \in Branches
    BY <1>3 DEF Collect, Collected
  <2>2. Branches' = Branches /\ Raising' = Raising
    BY <2>1 DEF Raising, Branches
  <2>3. CASE call.works[b] = Raises
    <3>1. errors' = errors \cup { b } /\ results' = results /\ batch' = batch \ { b }
      BY <1>3, <2>3 DEF Collect
    <3>2. b \in Raising
      BY <2>1, <2>3 DEF Raising
    <3> QED
      BY <2>1, <2>2, <3>1, <3>2 DEF Collected, AllOrNothing
  <2>4. CASE call.works[b] # Raises
    <3>1. results' = Append(results, b) /\ errors' = errors /\ batch' = batch \ { b }
      BY <1>3, <2>4 DEF Collect
    <3>2. b \in Branches \ Raising
      BY <2>1, <2>4 DEF Raising
    <3>0. results \in Seq(Branches \ Raising)
      BY DEF Collected
    <3>3. results' \in Seq(Branches \ Raising)
      BY <3>0, <3>1, <3>2, AppendIn, Zenon
    <3> QED
      BY <2>1, <2>2, <3>1, <3>3 DEF Collected, AllOrNothing
  <2> QED
    BY <2>3, <2>4
<1>4. CASE LeaveTimedOut
  BY <1>4 DEF LeaveTimedOut, Collected, AllOrNothing, Raising, Branches, Pending
<1>5. CASE Leave
  <2>1. errors = Raising
    BY <1>5, ErrorsComplete DEF Leave
  <2>2. UNCHANGED << call, batch, results, errors >>
    BY <1>5 DEF Leave
  <2>3. Branches' = Branches /\ Raising' = Raising
    BY <2>2 DEF Raising, Branches
  <2>4. \/ errors # {} /\ pc' = "raised"
        \/ errors = {} /\ pc' = "returned"
    BY <1>5 DEF Leave, Failed
  <2> QED
    BY <2>1, <2>2, <2>3, <2>4 DEF Collected, AllOrNothing
<1>6. CASE TimesOut
  BY <1>6 DEF TimesOut, Collected, AllOrNothing, Raising, Branches, Pending
<1>7. CASE Begin
  BY <1>7 DEF Begin, Collected, AllOrNothing, Raising, Branches, Pending
<1>8. ASSUME NEW b \in DOMAIN branch, End(b) PROVE MainInv'
  BY <1>8 DEF End, Collected, AllOrNothing, Raising, Branches, Pending
<1>9. CASE UNCHANGED vars
  BY <1>9 DEF vars, Collected, AllOrNothing, Raising, Branches, Pending
<1> QED
  BY <1>1, <1>2, <1>3, <1>4, <1>5, <1>6, <1>7, <1>8, <1>9 DEF Next, Main

\* However many branches fail, in whatever order they are collected, a node
\* returns only if all succeeded, and one that raises without a timeout names
\* every branch that failed (lines 92-100, 153-161).
THEOREM AllBranchesOrNone == Spec => []AllOrNothing
<1>1. MainInv => AllOrNothing
  BY DEF MainInv
<1> QED
  BY <1>1, MainInvInit, MainInvStep, PTL DEF Spec

-----------------------------------------------------------------------------
(* Least elements *)

\* A set of naturals that has an element has a least one.
LEMMA LeastElement ==
  ASSUME NEW S \in SUBSET Nat, S # {}
  PROVE  \E m \in S : \A n \in S : m <= n
<1>1. \E m \in S : \A n \in S : << n, m >> \notin OpToRel(<, Nat)
  BY NatLessThanWellFounded, WFMin, Zenon
<1>2. ASSUME NEW n \in Nat, NEW m \in Nat, << n, m >> \notin OpToRel(<, Nat)
      PROVE  ~ (n < m)
  BY <1>2, Zenon DEF OpToRel
<1>3. \E m \in S : \A n \in S : ~ (n < m)
  BY <1>1, <1>2, Zenon
<1> QED
  BY <1>3

-----------------------------------------------------------------------------
(* Types *)

LEMMA Places ==
  ASSUME call \in Calls
  PROVE  \E n \in Nat : Branches = 1..n
<1>1. ASSUME NEW kind, NEW outcomes, call \in Node(kind, outcomes)
      PROVE  \E n \in 0..MaxBranches : Branches = 1..n
  <2>1. PICK n \in 0..MaxBranches :
          call \in [ kind : { kind }, context : Contexts, timed : BOOLEAN,
                     works : [ 1..n -> outcomes \cup { Raises } ] ]
    BY <1>1 DEF Node
  <2> QED
    BY <2>1 DEF Branches
<1>2. \E n \in 0..MaxBranches : Branches = 1..n
  BY <1>1 DEF Calls
<1> QED
  BY <1>2, ParallelAssumption

LEMMA WorksOfPlaces ==
  ASSUME call \in Calls, NEW n, Branches = 1..n
  PROVE  /\ call.kind \in { "default", "namespaced", "tools" }
         /\ call.works = [ i \in 1..n |-> call.works[i] ]
<1>1. ASSUME NEW kind, NEW outcomes, call \in Node(kind, outcomes)
      PROVE  call.kind = kind /\ call.works = [ i \in 1..n |-> call.works[i] ]
  <2>1. PICK m \in 0..MaxBranches :
          call \in [ kind : { kind }, context : Contexts, timed : BOOLEAN,
                     works : [ 1..m -> outcomes \cup { Raises } ] ]
    BY <1>1 DEF Node
  <2> QED
    BY <2>1 DEF Branches
<1> QED
  BY <1>1 DEF Calls

LEMMA AppendedOnce ==
  ASSUME NEW S, NEW s \in Seq(S), IsInjective(s), NEW e \in S, e \notin ToSet(s)
  PROVE  /\ Append(s, e) \in Seq(S) /\ IsInjective(Append(s, e))
         /\ ToSet(Append(s, e)) = ToSet(s) \cup { e }
<1>1. /\ DOMAIN s = 1..Len(s) /\ DOMAIN Append(s, e) = 1..(Len(s) + 1) /\ Len(s) \in Nat
      /\ \A i \in 1..Len(s) : Append(s, e)[i] = s[i]
      /\ Append(s, e)[Len(s) + 1] = e
  OBVIOUS
<1>2. \A i \in 1..Len(s) : s[i] # e
  BY <1>1 DEF ToSet
<1>3. IsInjective(Append(s, e))
  BY <1>1, <1>2 DEF IsInjective
<1>4. ToSet(Append(s, e)) = ToSet(s) \cup { e }
  BY <1>1 DEF ToSet
<1> QED
  BY <1>3, <1>4, AppendIn

LEMMA WorkersBound ==
  ASSUME call \in Calls
  PROVE  Workers \in Nat /\ Workers <= MaxWorkers
<1>1. Cardinality(Branches) \in Nat
  BY Places, FS_Interval, FS_CardinalityType
<1>2. MaxWorkers \in Nat
  BY ParallelAssumption
<1>3. \E x \in { MaxWorkers, Cardinality(Branches) } :
        \A y \in { MaxWorkers, Cardinality(Branches) } : x <= y
  BY <1>1, <1>2
<1> QED
  BY <1>1, <1>2, <1>3 DEF Workers, Min

LEMMA TypesInit == Init => TypeOK
  BY ParallelAssumption, FS_EmptySet DEF Init, TypeOK, ToSet, IsInjective

LEMMA TypesStep == TypeOK /\ [Next]_vars => TypeOK'
<1> SUFFICES ASSUME TypeOK, [Next]_vars PROVE TypeOK'
  OBVIOUS
<1>1. PICK n \in Nat : Branches = 1..n
  BY Places DEF TypeOK
<1>2. CASE Execute
  <2>1. CASE Branches = {}
    BY <1>2, <2>1 DEF Execute, TypeOK, Branches
  <2>2. CASE Branches # {}
    <3>1. UNCHANGED << call, batch, results, errors >> /\ Branches' = Branches
          /\ pc' = "collecting" /\ branch' = [ b \in Branches |-> "queued" ]
      BY <1>2, <2>2 DEF Execute, Branches
    <3>2. { b \in DOMAIN branch' : branch'[b] = "running" } = {}
      BY <3>1
    <3>3. Cardinality({}) <= MaxWorkers
      BY FS_EmptySet, ParallelAssumption
    <3>4. /\ DOMAIN branch' = Branches'
          /\ \A b \in DOMAIN branch' : branch'[b] = "queued"
      BY <3>1
    <3> QED
      BY <3>1, <3>2, <3>3, <3>4 DEF TypeOK
  <2> QED
    BY <2>1, <2>2
<1>3. CASE PickUp
  BY <1>3 DEF PickUp, Pending, TypeOK, Branches
<1>4. ASSUME NEW b \in batch, Collect(b) PROVE TypeOK'
  <2>1. b \in Branches /\ b \notin ToSet(results) /\ b \notin errors
    BY DEF TypeOK
  <2>2. UNCHANGED << call, pc, branch >> /\ batch' = batch \ { b } /\ Branches' = Branches
    BY <1>4 DEF Collect, Branches
  <2>3. CASE call.works[b] = Raises
    BY <1>4, <2>1, <2>2, <2>3 DEF Collect, TypeOK
  <2>4. CASE call.works[b] # Raises
    <3>1. results' = Append(results, b) /\ errors' = errors
      BY <1>4, <2>4 DEF Collect
    <3>2. results \in Seq(Branches) /\ IsInjective(results)
      BY DEF TypeOK
    <3>3. /\ results' \in Seq(Branches) /\ IsInjective(results')
          /\ ToSet(results') = ToSet(results) \cup { b }
      BY <2>1, <3>1, <3>2, AppendedOnce
    <3> QED
      BY <2>1, <2>2, <3>1, <3>3 DEF TypeOK
  <2> QED
    BY <2>3, <2>4
<1>5. CASE LeaveTimedOut \/ TimesOut
  BY <1>5 DEF LeaveTimedOut, TimesOut, TypeOK, Branches
<1>6. CASE Leave
  BY <1>6 DEF Leave, TypeOK, Branches
<1>7. CASE Begin
  <2> DEFINE q == Min(In("queued"))
  <2>1. DOMAIN branch \subseteq 1..n
    BY <1>1 DEF TypeOK
  <2>2. q \in In("queued") /\ \A b \in In("queued") : q <= b
    <3>1. In("queued") \in SUBSET (1..n) /\ In("queued") # {}
      BY <1>7, <2>1 DEF Begin, In
    <3>2. \E m \in In("queued") : \A b \in In("queued") : m <= b
      BY <3>1, LeastElement
    <3> QED
      BY <3>2 DEF Min
  <2>3. branch' = [ branch EXCEPT ![q] = "running" ] /\ Cardinality(Busy) < Workers
    BY <1>7 DEF Begin
  <2>4. UNCHANGED << call, pc, batch, results, errors >> /\ Branches' = Branches
    BY <1>7 DEF Begin, Branches
  <2> HIDE DEF q
  <2>5. q \in DOMAIN branch /\ branch[q] = "queued"
    BY <2>2 DEF In
  <2>6. { b \in DOMAIN branch' : branch'[b] = "running" } = Busy \cup { q }
    BY <2>3, <2>5 DEF Busy, In
  <2>7. Cardinality(Busy \cup { q }) <= MaxWorkers
    <3>1. IsFiniteSet(Busy)
      <4>1. IsFiniteSet(1..n) /\ Busy \subseteq 1..n
        BY <2>1, FS_Interval DEF Busy, In
      <4> QED
        BY <4>1, FS_Subset
    <3>2. Cardinality(Busy) \in Nat
      BY <3>1, FS_CardinalityType
    <3>3. Cardinality(Busy \cup { q }) \in { Cardinality(Busy), Cardinality(Busy) + 1 }
      BY <3>1, FS_AddElement
    <3>4. Workers \in Nat /\ Workers <= MaxWorkers /\ MaxWorkers \in Nat
      BY WorkersBound, ParallelAssumption DEF TypeOK
    <3> QED
      BY <2>3, <3>2, <3>3, <3>4
  <2>8. \A b, c \in DOMAIN branch' : branch'[b] = "queued" /\ b < c => branch'[c] = "queued"
    <3>1. ASSUME NEW b \in DOMAIN branch, NEW c \in DOMAIN branch, branch'[b] = "queued", b < c
          PROVE  branch'[c] = "queued"
      <4>1. branch[b] = "queued" /\ b # q /\ q <= b
        BY <2>2, <2>3, <2>5, <3>1 DEF In
      <4>2. branch[c] = "queued" /\ c # q
        <5>1. q \in Nat /\ b \in Nat /\ c \in Nat
          BY <2>1, <2>5
        <5>2. branch[c] = "queued"
          BY <3>1, <4>1 DEF TypeOK
        <5> QED
          BY <3>1, <4>1, <5>1, <5>2
      <4> QED
        BY <2>3, <4>2
    <3> QED
      BY <2>3, <3>1
  <2>9. /\ DOMAIN branch' = DOMAIN branch
        /\ \A b \in DOMAIN branch' : branch'[b] \in { "queued", "running", "done" }
    BY <2>3 DEF TypeOK
  <2> QED
    BY <2>4, <2>6, <2>7, <2>8, <2>9 DEF TypeOK
<1>8. ASSUME NEW e \in DOMAIN branch, End(e) PROVE TypeOK'
  <2>1. branch' = [ branch EXCEPT ![e] = "done" ] /\ branch[e] = "running"
    BY <1>8 DEF End
  <2>2. UNCHANGED << call, pc, batch, results, errors >> /\ Branches' = Branches
    BY <1>8 DEF End, Branches
  <2>3. { b \in DOMAIN branch' : branch'[b] = "running" } = Busy \ { e }
    BY <2>1 DEF Busy, In
  <2>4. Cardinality(Busy \ { e }) <= MaxWorkers
    <3>1. IsFiniteSet(Busy)
      <4>1. IsFiniteSet(1..n) /\ Busy \subseteq 1..n
        <5>1. DOMAIN branch \subseteq 1..n
          BY <1>1 DEF TypeOK
        <5> QED
          BY <5>1, FS_Interval DEF Busy, In
      <4> QED
        BY <4>1, FS_Subset
    <3>2. Cardinality(Busy \ { e }) <= Cardinality(Busy) /\ Cardinality(Busy) \in Nat
          /\ Cardinality(Busy \ { e }) \in Nat
      BY <3>1, FS_Subset, FS_CardinalityType
    <3>3. Cardinality(Busy) <= MaxWorkers
      BY DEF TypeOK, Busy, In
    <3> QED
      BY <3>2, <3>3, ParallelAssumption
  <2>5. /\ DOMAIN branch' = DOMAIN branch
        /\ \A b \in DOMAIN branch' : branch'[b] \in { "queued", "running", "done" }
        /\ \A b, c \in DOMAIN branch' : branch'[b] = "queued" /\ b < c => branch'[c] = "queued"
    BY <2>1 DEF TypeOK
  <2> QED
    BY <2>2, <2>3, <2>4, <2>5 DEF TypeOK
<1>9. CASE UNCHANGED vars
  BY <1>9 DEF vars, TypeOK, Branches
<1> QED
  BY <1>2, <1>3, <1>4, <1>5, <1>6, <1>7, <1>8, <1>9 DEF Next, Main

\* Whatever the number of branches and of workers, no more branches are at work
\* than the node was allowed, they begin in the order they were submitted in, and
\* no branch is collected twice, be it as a result and as an error (lines 82-97,
\* 141-158).
THEOREM PoolTypes == Spec => []TypeOK
BY TypesInit, TypesStep, PTL DEF Spec

-----------------------------------------------------------------------------
(* Merging *)

\* f folds the first places of us into base, the last one last.
Folds(f, n, base, us) ==
  f = [ s \in SUBSET (1..n) |->
          IF s = {} THEN base ELSE Updated(f[s \ { Max(s) }], us[Max(s)]) ]

LEMMA FoldIs ==
  ASSUME NEW n \in Nat, NEW base, NEW us, DOMAIN us = 1..n
  PROVE  FoldLeft(Updated, base, us) = (CHOOSE f : Folds(f, n, base, us))[1..n]
<1>1. FoldLeft(Updated, base, us)
        = (CHOOSE f : f = [ s \in SUBSET DOMAIN us |->
              IF s = {} THEN base ELSE Updated(f[s \ { Max(s) }], us[Max(s)]) ])[DOMAIN us]
  BY Zenon DEF FoldLeft, MapThenFoldSet
<1> QED
  BY <1>1, Zenon DEF Folds

\* Places have a greatest one.
LEMMA GreatestPlace ==
  ASSUME NEW n \in Nat, NEW s \in SUBSET (1..n), s # {}
  PROVE  Max(s) \in s /\ \A i \in s : i <= Max(s)
<1> DEFINE far == { n - i : i \in s }
<1>1. far \in SUBSET Nat /\ far # {}
  <2>1. \A i \in s : i \in 1..n
    OBVIOUS
  <2>2. \A i \in s : n - i \in Nat
    BY <2>1
  <2> QED
    BY <2>2
<1>2. PICK d \in far : \A e \in far : d <= e
  <2> HIDE DEF far
  <2> QED
    BY <1>1, LeastElement
<1>3. PICK m \in s : d = n - m
  BY <1>2
<1>4. \A i \in s : i <= m
  <2>1. ASSUME NEW i \in s PROVE i <= m
    <3>1. n - m <= n - i
      BY <1>2, <1>3
    <3> QED
      BY <3>1
  <2> QED
    BY <2>1
<1>5. \E x \in s : \A y \in s : x >= y
  BY <1>4
<1> QED
  BY <1>5 DEF Max

LEMMA FoldsExist ==
  ASSUME NEW n \in Nat, NEW base, NEW us
  PROVE  \E f : Folds(f, n, base, us)
<1> DEFINE S == 1..n
           Step(f, s) == IF s = {} THEN base ELSE Updated(f[s \ { Max(s) }], us[Max(s)])
           UpTo(m) == \E f : /\ DOMAIN f = SUBSET S
                             /\ f = [ s \in SUBSET S |-> f[s] ]
                             /\ \A s \in SUBSET S : Cardinality(s) <= m => f[s] = Step(f, s)
           Bad == { m \in Nat : ~ UpTo(m) }
<1>0. IsFiniteSet(S)
  BY FS_Interval
<1>1. \A s \in SUBSET S : IsFiniteSet(s) /\ Cardinality(s) \in Nat
                          /\ Cardinality(s) <= Cardinality(S)
  BY <1>0, FS_Subset, FS_CardinalityType
<1>2. \A s \in SUBSET S : \A x \in s :
        s \ { x } \in SUBSET S /\ Cardinality(s \ { x }) = Cardinality(s) - 1
  BY <1>1, FS_RemoveElement
<1>3. UpTo(0)
  <2> DEFINE f == [ s \in SUBSET S |-> base ]
  <2>1. \A s \in SUBSET S : Cardinality(s) <= 0 => s = {}
    BY <1>1, FS_EmptySet
  <2>2. \A s \in SUBSET S : Cardinality(s) <= 0 => f[s] = Step(f, s)
    BY <2>1
  <2>3. DOMAIN f = SUBSET S /\ f = [ s \in SUBSET S |-> f[s] ]
    OBVIOUS
  <2> HIDE DEF f, Step
  <2> QED
    BY <2>2, <2>3
<1>4. ASSUME NEW m \in Nat, UpTo(m) PROVE UpTo(m + 1)
  <2>1. PICK f : /\ DOMAIN f = SUBSET S
                 /\ f = [ s \in SUBSET S |-> f[s] ]
                 /\ \A s \in SUBSET S : Cardinality(s) <= m => f[s] = Step(f, s)
    BY <1>4
  <2> DEFINE g == [ s \in SUBSET S |-> IF Cardinality(s) = m + 1 THEN Step(f, s) ELSE f[s] ]
  <2>2. ASSUME NEW s \in SUBSET S, Cardinality(s) <= m + 1 PROVE g[s] = Step(g, s)
    <3>1. g[s] = Step(f, s)
      <4>1. g[s] = IF Cardinality(s) = m + 1 THEN Step(f, s) ELSE f[s]
        OBVIOUS
      <4> HIDE DEF g, Step
      <4>2. Cardinality(s) # m + 1 => f[s] = Step(f, s)
        <5>1. Cardinality(s) # m + 1 => Cardinality(s) <= m
          BY <1>1, <2>2
        <5> QED
          BY <2>1, <5>1
      <4> QED
        BY <4>1, <4>2
    <3>2. Step(g, s) = Step(f, s)
      <4>1. CASE s = {}
        BY <4>1
      <4>2. CASE s # {}
        <5> DEFINE x == Max(s)
        <5>1. x \in s
          BY <4>2, GreatestPlace
        <5>2. s \ { x } \in SUBSET S /\ Cardinality(s \ { x }) # m + 1
          <6> HIDE DEF x
          <6> QED
            BY <1>1, <1>2, <2>2, <5>1
        <5>3. g[s \ { x }] = f[s \ { x }]
          BY <5>2
        <5> QED
          BY <4>2, <5>3
      <4> QED
        BY <4>1, <4>2
    <3> QED
      BY <3>1, <3>2
  <2>3. DOMAIN g = SUBSET S /\ g = [ s \in SUBSET S |-> g[s] ]
    OBVIOUS
  <2> HIDE DEF g, Step
  <2> QED
    BY <2>2, <2>3
<1> HIDE DEF UpTo
<1>5. Bad = {}
  <2> SUFFICES ASSUME Bad # {} PROVE FALSE
    OBVIOUS
  <2>1. PICK m \in Bad : \A k \in Bad : m <= k
    BY LeastElement
  <2>2. m # 0 /\ m - 1 \in Nat /\ m - 1 \notin Bad
    BY <1>3, <2>1
  <2>3. UpTo((m - 1) + 1) /\ (m - 1) + 1 = m
    BY <1>4, <2>2
  <2> QED
    BY <2>3
<1>6. UpTo(Cardinality(S))
  BY <1>0, <1>1, <1>5
<1> USE DEF UpTo
<1>7. PICK f : /\ f = [ s \in SUBSET S |-> f[s] ]
               /\ \A s \in SUBSET S : Cardinality(s) <= Cardinality(S) => f[s] = Step(f, s)
  BY <1>6
<1>8. \A s \in SUBSET S : f[s] = Step(f, s)
  BY <1>1, <1>7
<1>9. f = [ s \in SUBSET S |-> Step(f, s) ]
  BY <1>7, <1>8
<1> QED
  BY <1>9 DEF Folds

\* d is base with the first m places of us written over it, one after the other.
Overwritten(d, m, base, us) ==
  /\ DOMAIN d = DOMAIN base \cup UNION { DOMAIN us[i] : i \in 1..m }
  /\ \A k \in DOMAIN base : (\A i \in 1..m : k \notin DOMAIN us[i]) => d[k] = base[k]
  /\ \A i \in 1..m : \A k \in DOMAIN us[i] :
       (\A j \in 1..m : k \in DOMAIN us[j] => j <= i) => d[k] = us[i][k]

LEMMA OverwrittenOnce ==
  ASSUME NEW m \in Nat, NEW base, NEW us, NEW d, Overwritten(d, m, base, us)
  PROVE  Overwritten(Updated(d, us[m + 1]), m + 1, base, us)
<1> DEFINE e == Updated(d, us[m + 1])
<1>1. /\ DOMAIN e = DOMAIN d \cup DOMAIN us[m + 1]
      /\ \A k \in DOMAIN us[m + 1] : e[k] = us[m + 1][k]
      /\ \A k \in DOMAIN d \ DOMAIN us[m + 1] : e[k] = d[k]
  BY DEF Updated
<1>2. 1..(m + 1) = (1..m) \cup { m + 1 } /\ m + 1 \in Nat
  OBVIOUS
<1> HIDE DEF e
<1>3. DOMAIN e = DOMAIN base \cup UNION { DOMAIN us[i] : i \in 1..(m + 1) }
  BY <1>1, <1>2 DEF Overwritten
<1>4. ASSUME NEW k \in DOMAIN base, \A i \in 1..(m + 1) : k \notin DOMAIN us[i]
      PROVE  e[k] = base[k]
  <2>1. k \in DOMAIN d \ DOMAIN us[m + 1] /\ \A i \in 1..m : k \notin DOMAIN us[i]
    BY <1>2, <1>4 DEF Overwritten
  <2> QED
    BY <1>1, <2>1 DEF Overwritten
<1>5. ASSUME NEW i \in 1..(m + 1), NEW k \in DOMAIN us[i],
             \A j \in 1..(m + 1) : k \in DOMAIN us[j] => j <= i
      PROVE  e[k] = us[i][k]
  <2>1. CASE i = m + 1
    BY <1>1, <2>1
  <2>2. CASE i # m + 1
    <3>1. i \in 1..m /\ k \notin DOMAIN us[m + 1]
      BY <1>2, <1>5, <2>2
    <3>2. k \in DOMAIN d
      BY <3>1 DEF Overwritten
    <3>3. \A j \in 1..m : k \in DOMAIN us[j] => j <= i
      BY <1>2, <1>5
    <3> QED
      BY <1>1, <3>1, <3>2, <3>3 DEF Overwritten
  <2> QED
    BY <2>1, <2>2
<1>6. Overwritten(e, m + 1, base, us)
  BY <1>3, <1>4, <1>5 DEF Overwritten
<1> QED
  BY <1>6 DEF e

LEMMA WithoutLast ==
  ASSUME NEW m \in Nat
  PROVE  (1..m) \ { m } = 1..(m - 1)
OBVIOUS

LEMMA FirstPlaces ==
  ASSUME NEW n \in Nat, NEW m \in 1..n
  PROVE  1..m \in SUBSET (1..n) /\ 1..m # {}
OBVIOUS

\* What folding updates into a context gives.
LEMMA FoldOverwrites ==
  ASSUME NEW n \in Nat, NEW base, NEW us, DOMAIN us = 1..n
  PROVE  Overwritten(FoldLeft(Updated, base, us), n, base, us)
<1> DEFINE f == CHOOSE f : Folds(f, n, base, us)
<1>1. Folds(f, n, base, us)
  BY FoldsExist, Zenon
<1>2. FoldLeft(Updated, base, us) = f[1..n]
  BY FoldIs, Zenon
<1> HIDE DEF f
<1> DEFINE Bad == { m \in 0..n : ~ Overwritten(f[1..m], m, base, us) }
<1>3. Bad = {}
  <2> SUFFICES ASSUME Bad # {} PROVE FALSE
    OBVIOUS
  <2>1. PICK m \in Bad : \A k \in Bad : m <= k
    <3>1. Bad \in SUBSET Nat
      OBVIOUS
    <3> HIDE DEF Bad
    <3> QED
      BY <3>1, LeastElement
  <2>2. CASE m = 0
    <3>1. f[1..0] = base /\ 1..0 = {}
      BY <1>1 DEF Folds
    <3>2. Overwritten(f[1..0], 0, base, us)
      BY <3>1 DEF Overwritten
    <3> QED
      BY <2>1, <2>2, <3>2
  <2>3. CASE m # 0
    <3>0. m \in 1..n /\ m \in Nat
      BY <2>1, <2>3
    <3>1. m - 1 \in 0..n /\ m - 1 \notin Bad
      BY <2>1, <3>0
    <3>2. Overwritten(f[1..(m - 1)], m - 1, base, us) /\ m - 1 \in Nat /\ (m - 1) + 1 = m
      BY <3>1
    <3>3. f[1..m] = Updated(f[1..(m - 1)], us[m])
      <4>1. 1..m \in SUBSET (1..n) /\ 1..m # {}
        BY <3>0, FirstPlaces
      <4>2. Max(1..m) = m
        <5>1. Max(1..m) \in 1..m /\ \A i \in 1..m : i <= Max(1..m)
          BY <4>1, GreatestPlace
        <5> QED
          BY <3>0, <5>1
      <4>3. (1..m) \ { m } = 1..(m - 1)
        BY <3>0, WithoutLast
      <4> QED
        BY <1>1, <4>1, <4>2, <4>3 DEF Folds
    <3>4. Overwritten(f[1..m], m, base, us)
      BY <3>2, <3>3, OverwrittenOnce
    <3> QED
      BY <2>1, <3>4
  <2> QED
    BY <2>2, <2>3
<1> QED
  BY <1>2, <1>3

-----------------------------------------------------------------------------
(* The order of completion *)

\* Once every branch is collected, sorting brings them into the order of the nodes.
LEMMA SortedPlaces ==
  ASSUME NEW n \in Nat, NEW bs \in Seq(1..n), IsInjective(bs), ToSet(bs) = 1..n
  PROVE  Sorted(bs) = [ i \in 1..n |-> i ]
<1> DEFINE same == [ i \in 1..n |-> i ]
           InOrder(s) == ToSet(s) = 1..n /\ \A i, j \in DOMAIN s : i < j => s[i] < s[j]
<1>1. DOMAIN bs = 1..n
  <2>1. DOMAIN bs = 1..Len(bs) /\ Len(bs) \in Nat /\ bs \in [ 1..Len(bs) -> 1..n ]
    OBVIOUS
  <2>2. \A b \in 1..n : \E i \in 1..Len(bs) : bs[i] = b
    BY <2>1 DEF ToSet
  <2>3. bs \in Bijection(1..Len(bs), 1..n)
    BY <2>1, <2>2 DEF Bijection, Injection, Surjection, IsInjective
  <2>4. Cardinality(1..n) = Len(bs)
    BY <2>1, <2>3, FS_CountingElements DEF ExistsBijection
  <2>5. Cardinality(1..n) = n
    BY FS_Interval
  <2> QED
    BY <2>1, <2>4, <2>5
<1>2. same \in [ 1..n -> 1..n ] /\ InOrder(same)
  BY DEF ToSet
<1>3. ASSUME NEW s \in [ 1..n -> 1..n ], InOrder(s) PROVE s = same
  <2> DEFINE Bad == { i \in 1..n : s[i] # i }
  <2> SUFFICES ASSUME Bad # {} PROVE FALSE
    OBVIOUS
  <2>1. PICK m \in Bad : \A k \in Bad : m <= k
    <3>1. Bad \in SUBSET Nat
      OBVIOUS
    <3> HIDE DEF Bad
    <3> QED
      BY <3>1, LeastElement
  <2>2. PICK j \in 1..n : s[j] = m
    BY <1>3 DEF ToSet
  <2>3. m \in 1..n /\ s[m] \in 1..n /\ s[m] # m /\ j # m
    BY <2>2
  <2>4. \A i \in 1..n : i < m => s[i] = i
    BY <2>1, <2>3
  <2>5. j > m
    BY <2>2, <2>3, <2>4
  <2>6. s[m] < m
    BY <1>3, <2>2, <2>3, <2>5
  <2>7. s[s[m]] = s[m]
    BY <2>3, <2>4, <2>6
  <2>8. s[s[m]] < s[m]
    BY <1>3, <2>3, <2>6
  <2> QED
    BY <2>3, <2>7, <2>8
<1>4. Sorted(bs) = CHOOSE s \in [ 1..n -> 1..n ] : InOrder(s)
  BY <1>1 DEF Sorted
<1> HIDE DEF InOrder, same
<1>5. (CHOOSE s \in [ 1..n -> 1..n ] : InOrder(s)) = same
  BY <1>2, <1>3
<1> QED
  BY <1>4, <1>5 DEF same

\* The three merges, of branches in the order of the nodes.
LEMMA DefaultMerged ==
  ASSUME NEW n \in Nat, Branches = 1..n, result' = DefaultMerge([ i \in 1..n |-> i ]),
         UNCHANGED call
  PROVE  LastNodeWins'
<1> DEFINE us == [ i \in 1..n |-> call.works[i] ]
           having(k) == { b \in 1..n : k \in DOMAIN call.works[b] }
<1>1. result' = FoldLeft(Updated, call.context, us)
  <2>1. [ i \in DOMAIN [ j \in 1..n |-> j ] |-> call.works[[ j \in 1..n |-> j ][i]] ] = us
    OBVIOUS
  <2> QED
    BY <2>1 DEF DefaultMerge
<1>2. DOMAIN us = 1..n /\ \A i \in 1..n : us[i] = call.works[i]
  OBVIOUS
<1> HIDE DEF us
<1>3. Overwritten(result', n, call.context, us)
  BY <1>1, <1>2, FoldOverwrites
<1>4. DOMAIN result' = DOMAIN call.context \cup UNION { DOMAIN call.works[b] : b \in 1..n }
  <2>1. { DOMAIN us[i] : i \in 1..n } = { DOMAIN call.works[b] : b \in 1..n }
    BY <1>2
  <2>2. DOMAIN result' = DOMAIN call.context \cup UNION { DOMAIN us[i] : i \in 1..n }
    BY <1>3 DEF Overwritten
  <2> QED
    BY <2>1, <2>2
<1>5. ASSUME NEW k \in DOMAIN result'
      PROVE  result'[k] = IF having(k) = {} THEN call.context[k]
                          ELSE call.works[Max(having(k))][k]
  <2>1. CASE having(k) = {}
    BY <1>2, <1>3, <1>4, <1>5, <2>1 DEF Overwritten
  <2>2. CASE having(k) # {}
    <3> DEFINE m == Max(having(k))
    <3>1. m \in having(k) /\ \A i \in having(k) : i <= m
      BY <2>2, GreatestPlace
    <3> HIDE DEF m
    <3>2. m \in 1..n /\ k \in DOMAIN us[m]
      BY <1>2, <3>1
    <3>3. \A j \in 1..n : k \in DOMAIN us[j] => j <= m
      BY <1>2, <3>1
    <3>4. result'[k] = us[m][k]
      BY <1>3, <3>2, <3>3 DEF Overwritten
    <3> QED
      BY <1>2, <2>2, <3>2, <3>4 DEF m
  <2> QED
    BY <2>1, <2>2
<1> HIDE DEF having
<1>6. call' = call /\ Branches' = 1..n /\ Branches = 1..n
  BY DEF Branches
<1> QED
  BY <1>4, <1>5, <1>6 DEF LastNodeWins, having

LEMMA NamespacedMerged ==
  ASSUME NEW n \in Nat, Branches = 1..n, call.kind = "namespaced",
         result' = NamespacedMerge([ i \in 1..n |-> i ]), UNCHANGED call
  PROVE  OneEntryEach'
<1> DEFINE us == [ i \in 1..n |-> Item(i, call.works[i]) ]
           old == Lookup(call.context, NamespaceKey)
           ns == FoldLeft(Updated, old, us)
<1>1. result' = Updated(call.context, Item(NamespaceKey, ns))
  <2>1. [ i \in DOMAIN [ j \in 1..n |-> j ] |->
            Item([ j \in 1..n |-> j ][i], call.works[[ j \in 1..n |-> j ][i]]) ] = us
    OBVIOUS
  <2> QED
    BY <2>1 DEF NamespacedMerge
<1>2. DOMAIN us = 1..n
      /\ \A i \in 1..n : DOMAIN us[i] = { i } /\ us[i][i] = call.works[i]
  BY DEF Item
<1> HIDE DEF us, old
<1>3. Overwritten(ns, n, old, us)
  BY <1>2, FoldOverwrites
<1> HIDE DEF ns
<1>4. /\ \A b \in 1..n : ns[b] = call.works[b]
      /\ \A k \in DOMAIN old \ 1..n : ns[k] = old[k]
  <2>1. ASSUME NEW b \in 1..n PROVE ns[b] = call.works[b]
    <3>1. b \in DOMAIN us[b] /\ \A j \in 1..n : b \in DOMAIN us[j] => j <= b
      BY <1>2
    <3>2. ns[b] = us[b][b]
      BY <1>3, <3>1 DEF Overwritten
    <3> QED
      BY <1>2, <3>2
  <2>2. ASSUME NEW k \in DOMAIN old \ 1..n PROVE ns[k] = old[k]
    <3>1. \A i \in 1..n : k \notin DOMAIN us[i]
      BY <1>2
    <3> QED
      BY <1>3, <3>1 DEF Overwritten
  <2> QED
    BY <2>1, <2>2
<1>5. /\ DOMAIN result' = DOMAIN call.context \cup { NamespaceKey }
      /\ \A k \in DOMAIN result' \ { NamespaceKey } : result'[k] = call.context[k]
      /\ result'[NamespaceKey] = ns
  BY <1>1 DEF Updated, Item
<1>6. call' = call /\ Branches' = 1..n
  BY DEF Branches
<1>7. call'.kind # "tools"
  BY <1>6
<1> QED
  BY <1>4, <1>5, <1>6, <1>7 DEF OneEntryEach, old

LEMMA ToolsMerged ==
  ASSUME NEW n \in Nat, Branches = 1..n, call.kind = "tools",
         call.works = [ i \in 1..n |-> call.works[i] ],
         result' = ToolMerge([ i \in 1..n |-> i ]), UNCHANGED call
  PROVE  OneEntryEach'
<1> DEFINE old == Lookup(call.context, ResultKey)
           new == old \o call.works
<1>1. result' = Updated(call.context, Item(ResultKey, new))
  <2>1. [ i \in DOMAIN [ j \in 1..n |-> j ] |-> call.works[[ j \in 1..n |-> j ][i]] ] = call.works
    OBVIOUS
  <2> QED
    BY <2>1 DEF ToolMerge
<1> HIDE DEF new
<1>2. /\ DOMAIN result' = DOMAIN call.context \cup { ResultKey }
      /\ \A k \in DOMAIN result' \ { ResultKey } : result'[k] = call.context[k]
      /\ result'[ResultKey] = new
  BY <1>1 DEF Updated, Item
<1>3. call' = call /\ call'.kind = "tools"
  OBVIOUS
<1> QED
  BY <1>2, <1>3 DEF OneEntryEach, new

ResultInv == CompletionOrderIrrelevant /\ (pc = "collecting" => Branches # {})

LEMMA MergedAsPromised ==
  ASSUME TypeOK, MainInv, Leave, pc' = "returned", Branches # {}
  PROVE  CompletionOrderIrrelevant'
<1>1. /\ UNCHANGED call /\ errors = {} /\ Pending = {} /\ result' = Merge(results)
  BY DEF Leave, Failed
<1>2. PICK n \in Nat : Branches = 1..n
  BY Places DEF TypeOK
<1>3. results \in Seq(1..n) /\ IsInjective(results) /\ ToSet(results) = 1..n
  <2>1. results \in Seq(Branches) /\ IsInjective(results)
    BY DEF TypeOK
  <2>2. ToSet(results) \subseteq Branches
    BY <2>1 DEF ToSet
  <2> QED
    BY <1>1, <1>2, <2>1, <2>2 DEF Pending
<1>4. Sorted(results) = [ i \in 1..n |-> i ]
  BY <1>3, SortedPlaces
<1>5. Branches' = Branches /\ call' = call
  BY <1>1 DEF Branches
<1>6. CASE call.kind = "default"
  <2>1. result' = DefaultMerge([ i \in 1..n |-> i ])
    BY <1>1, <1>4, <1>6 DEF Merge
  <2> QED
    BY <1>1, <1>2, <1>5, <1>6, <2>1, DefaultMerged DEF CompletionOrderIrrelevant
<1>7. CASE call.kind = "namespaced"
  <2>1. result' = NamespacedMerge([ i \in 1..n |-> i ])
    BY <1>1, <1>4, <1>7 DEF Merge
  <2> QED
    BY <1>1, <1>2, <1>5, <1>7, <2>1, NamespacedMerged DEF CompletionOrderIrrelevant
<1>8. CASE call.kind = "tools"
  <2>1. result' = ToolMerge([ i \in 1..n |-> i ])
    BY <1>1, <1>4, <1>8 DEF Merge
  <2>2. call.works = [ i \in 1..n |-> call.works[i] ]
    BY <1>2, WorksOfPlaces DEF TypeOK
  <2> QED
    BY <1>1, <1>2, <1>5, <1>8, <2>1, <2>2, ToolsMerged DEF CompletionOrderIrrelevant
<1>9. call.kind \in { "default", "namespaced", "tools" }
  BY <1>2, WorksOfPlaces DEF TypeOK
<1> QED
  BY <1>6, <1>7, <1>8, <1>9

LEMMA ResultInvStep == TypeOK /\ MainInv /\ ResultInv /\ [Next]_vars => ResultInv'
<1> SUFFICES ASSUME TypeOK, MainInv, ResultInv, [Next]_vars PROVE ResultInv'
  OBVIOUS
<1>1. ASSUME UNCHANGED << call, pc, result >> PROVE ResultInv'
  BY <1>1 DEF ResultInv, CompletionOrderIrrelevant, LastNodeWins, OneEntryEach, Branches
<1>2. ASSUME UNCHANGED call, pc' \in { "raised", "timed out" } PROVE ResultInv'
  BY <1>2 DEF ResultInv, CompletionOrderIrrelevant
<1>3. CASE Execute
  <2>1. Branches' = Branches /\ call' = call
    BY <1>3 DEF Execute, Branches
  <2>2. CASE Branches = {}
    BY <1>3, <2>1, <2>2 DEF Execute, ResultInv, CompletionOrderIrrelevant
  <2>3. CASE Branches # {}
    BY <1>3, <2>1, <2>3 DEF Execute, ResultInv, CompletionOrderIrrelevant
  <2> QED
    BY <2>2, <2>3
<1>4. CASE PickUp \/ Begin \/ (\E b \in batch : Collect(b)) \/ (\E b \in DOMAIN branch : End(b))
  BY <1>1, <1>4 DEF PickUp, Begin, Collect, End
<1>5. CASE LeaveTimedOut \/ TimesOut
  BY <1>2, <1>5 DEF LeaveTimedOut, TimesOut
<1>6. CASE Leave
  <2>1. CASE errors # {}
    BY <1>2, <1>6, <2>1 DEF Leave, Failed
  <2>2. CASE errors = {}
    <3>1. pc' = "returned" /\ Branches # {}
      BY <1>6, <2>2 DEF Leave, Failed, ResultInv
    <3> QED
      BY <1>6, <3>1, MergedAsPromised DEF ResultInv
  <2> QED
    BY <2>1, <2>2
<1>7. CASE UNCHANGED vars
  BY <1>1, <1>7 DEF vars
<1> QED
  BY <1>3, <1>4, <1>5, <1>6, <1>7 DEF Next, Main

\* Whatever the number of branches, the contexts they return and the order they
\* complete and are collected in, execute() returns what the nodes and the
\* context alone determine (lines 30-57, 102-106, 163-171).
THEOREM OrderIrrelevant == Spec => []CompletionOrderIrrelevant
<1>1. Init => ResultInv
  BY DEF Init, ResultInv, CompletionOrderIrrelevant
<1>2. ResultInv => CompletionOrderIrrelevant
  BY DEF ResultInv
<1> QED
  BY <1>1, <1>2, ResultInvStep, PoolTypes, MainInvInit, MainInvStep, PTL DEF Spec
=============================================================================
