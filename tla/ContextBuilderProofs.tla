------------------------- MODULE ContextBuilderProofs -------------------------
(***************************************************************************)
(* Proofs about the InMemoryStore, changed by other threads in any order,  *)
(* and about the contexts the ContextBuilder makes of any conversation     *)
(* under any budget.                                                       *)
(***************************************************************************)
EXTENDS ContextBuilder, FiniteSetTheorems, FunctionTheorems, SequenceTheorems, TLAPS

-----------------------------------------------------------------------------
(* The inductive invariant of the store *)

\* Records by id, and an index that leads from the slot of each record to it.
RecordsById ==
  /\ DOMAIN records \subseteq Ids /\ IsFiniteSet(DOMAIN records)
  /\ \A id \in DOMAIN records : records[id] \in Records /\ records[id].id = id

IndexLeadsBack ==
  /\ \A s \in DOMAIN index :
       s \in Slots /\ index[s] \in DOMAIN records /\ records[index[s]].slot = s
  /\ \A id \in DOMAIN records :
       records[id].slot \in DOMAIN index /\ index[records[id].slot] = id

StoreInv == RecordsById /\ IndexLeadsBack /\ now \in 0..MaxTime

-----------------------------------------------------------------------------
(* The steps of the store *)

\* A write keeps the records that share neither its id nor its slot.
LEMMA WriteKeeps ==
  ASSUME StoreInv, NEW r \in Records, Write(r)
  PROVE  /\ DOMAIN records' =
              { id \in DOMAIN records : id # r.id /\ records[id].slot # r.slot } \cup { r.id }
         /\ records'[r.id] = r
         /\ \A id \in DOMAIN records' \ { r.id } : records'[id] = records[id]
<1> DEFINE rest == WithoutHolder(r)
<1>1. /\ RecordsById /\ IndexLeadsBack /\ records' = Assigned(rest, r.id, r)
  BY DEF StoreInv, Write
<1>2. /\ DOMAIN rest \subseteq DOMAIN records
      /\ \A id \in DOMAIN rest : rest[id] = records[id]
      /\ \A id \in DOMAIN records \ { r.id } : id \in DOMAIN rest <=> records[id].slot # r.slot
  <2>1. CASE r.slot \in DOMAIN index /\ index[r.slot] # r.id
    <3>1. rest = Popped(records, index[r.slot])
      BY <2>1 DEF WithoutHolder
    <3>2. \A id \in DOMAIN records : id = index[r.slot] <=> records[id].slot = r.slot
      BY <1>1, <2>1 DEF IndexLeadsBack
    <3> HIDE DEF rest
    <3> QED
      BY <3>1, <3>2 DEF Popped
  <2>2. CASE ~ (r.slot \in DOMAIN index /\ index[r.slot] # r.id)
    <3>1. rest = records
      BY <2>2 DEF WithoutHolder
    <3>2. \A id \in DOMAIN records \ { r.id } : records[id].slot # r.slot
      BY <1>1, <2>2 DEF IndexLeadsBack
    <3> HIDE DEF rest
    <3> QED
      BY <3>1, <3>2
  <2> QED
    BY <2>1, <2>2
<1> HIDE DEF rest
<1>3. /\ DOMAIN records' = DOMAIN rest \cup { r.id }
      /\ records'[r.id] = r
      /\ \A id \in DOMAIN rest \ { r.id } : records'[id] = rest[id]
  BY <1>1 DEF Assigned
<1> QED
  BY <1>2, <1>3

LEMMA WriteStep ==
  ASSUME StoreInv, NEW r \in Records, Write(r), now' = now
  PROVE  StoreInv'
<1>1. /\ RecordsById /\ IndexLeadsBack /\ r.id \in Ids /\ r.slot \in Slots
  BY MemoryAssumption DEF StoreInv
<1> DEFINE moves == r.id \in DOMAIN records /\ records[r.id].slot # r.slot
           old   == IF moves THEN Popped(index, records[r.id].slot) ELSE index
<1>2. index' = Assigned(old, r.slot, r.id)
  BY DEF Write
<1>3. /\ DOMAIN old = { s \in DOMAIN index : ~ (moves /\ s = records[r.id].slot) }
      /\ \A s \in DOMAIN old : old[s] = index[s]
  BY DEF Popped
<1> HIDE DEF old
<1>4. /\ DOMAIN index' = DOMAIN old \cup { r.slot } /\ index'[r.slot] = r.id
      /\ \A s \in DOMAIN old \ { r.slot } : index'[s] = index[s]
  BY <1>2, <1>3 DEF Assigned
<1>5. /\ DOMAIN records' =
           { id \in DOMAIN records : id # r.id /\ records[id].slot # r.slot } \cup { r.id }
      /\ records'[r.id] = r
      /\ \A id \in DOMAIN records' \ { r.id } : records'[id] = records[id]
  BY WriteKeeps
<1>6. IsFiniteSet(DOMAIN records')
  <2> DEFINE kept == { id \in DOMAIN records : id # r.id /\ records[id].slot # r.slot }
  <2>1. IsFiniteSet(kept)
    BY <1>1, FS_Subset DEF RecordsById
  <2> HIDE DEF kept
  <2>2. IsFiniteSet(kept \cup { r.id })
    BY <2>1, FS_AddElement
  <2> QED
    BY <1>5, <2>2 DEF kept
<1>7. RecordsById'
  BY <1>1, <1>5, <1>6 DEF RecordsById
<1>8. ASSUME NEW s \in DOMAIN index'
      PROVE  s \in Slots /\ index'[s] \in DOMAIN records' /\ records'[index'[s]].slot = s
  <2>1. CASE s = r.slot
    BY <1>1, <1>4, <1>5, <2>1
  <2>2. CASE s # r.slot
    <3>1. s \in DOMAIN index /\ index'[s] = index[s] /\ ~ (moves /\ s = records[r.id].slot)
      BY <1>3, <1>4, <2>2
    <3>2. index[s] \in DOMAIN records /\ records[index[s]].slot = s /\ s \in Slots
      BY <1>1, <3>1 DEF IndexLeadsBack
    <3>3. index[s] # r.id
      BY <2>2, <3>1, <3>2
    <3> QED
      BY <1>5, <2>2, <3>1, <3>2, <3>3
  <2> QED
    BY <2>1, <2>2
<1>9. ASSUME NEW id \in DOMAIN records'
      PROVE  records'[id].slot \in DOMAIN index' /\ index'[records'[id].slot] = id
  <2>1. CASE id = r.id
    BY <1>4, <1>5, <2>1
  <2>2. CASE id # r.id
    <3>1. id \in DOMAIN records /\ records'[id] = records[id] /\ records[id].slot # r.slot
      BY <1>5, <2>2
    <3>2. records[id].slot \in DOMAIN index /\ index[records[id].slot] = id
      BY <1>1, <3>1 DEF IndexLeadsBack
    <3>3. records[id].slot \in DOMAIN old
      BY <1>1, <1>3, <2>2, <3>2 DEF IndexLeadsBack
    <3> QED
      BY <1>4, <3>1, <3>2, <3>3
  <2> QED
    BY <2>1, <2>2
<1> QED
  BY <1>7, <1>8, <1>9 DEF StoreInv, IndexLeadsBack

LEMMA DeleteStep ==
  ASSUME StoreInv, NEW gone, Delete(gone), now' = now
  PROVE  StoreInv'
<1>1. RecordsById /\ IndexLeadsBack
  BY DEF StoreInv
<1>2. /\ DOMAIN records' = DOMAIN records \ gone
      /\ \A id \in DOMAIN records' : records'[id] = records[id]
  BY DEF Delete
<1>3. /\ DOMAIN index' = { s \in DOMAIN index :
           ~ \E id \in gone \cap DOMAIN records : records[id].slot = s /\ index[s] = id }
      /\ \A s \in DOMAIN index' : index'[s] = index[s]
  BY DEF Delete, IndexWithout
<1>4. IsFiniteSet(DOMAIN records')
  BY <1>1, <1>2, FS_Subset DEF RecordsById
<1>5. RecordsById'
  BY <1>1, <1>2, <1>4 DEF RecordsById
<1>6. IndexLeadsBack'
  BY <1>1, <1>2, <1>3 DEF IndexLeadsBack
<1> QED
  BY <1>5, <1>6 DEF StoreInv

LEMMA StoreInvInit == StoreInit => StoreInv
<1> SUFFICES ASSUME StoreInit PROVE StoreInv
  OBVIOUS
<1>1. DOMAIN records = {} /\ DOMAIN index = {} /\ now = 0
  BY DEF StoreInit
<1> QED
  BY <1>1, FS_EmptySet, MemoryAssumption DEF StoreInv, RecordsById, IndexLeadsBack

LEMMA StoreInvStep ==
  ASSUME StoreInv, Change \/ Tick \/ UNCHANGED << records, index, now >>
  PROVE  StoreInv'
<1>1. CASE Change
  BY <1>1, WriteStep, DeleteStep DEF Change, CleanupExpired
<1>2. CASE Tick
  BY <1>2, MemoryAssumption DEF Tick, StoreInv, RecordsById, IndexLeadsBack
<1>3. CASE UNCHANGED << records, index, now >>
  BY <1>3 DEF StoreInv, RecordsById, IndexLeadsBack
<1> QED
  BY <1>1, <1>2, <1>3

-----------------------------------------------------------------------------
(* The store of the builder *)

LEMMA StoreUnderBuilder == Spec => []StoreInv
<1>1. Init => StoreInv
  BY StoreInvInit DEF Init
<1>2. StoreInv /\ [Next]_vars => StoreInv'
  <2> SUFFICES ASSUME StoreInv, [Next]_vars PROVE StoreInv'
    OBVIOUS
  <2>1. Change \/ Tick \/ UNCHANGED << records, index, now >>
    BY DEF Next, Build, LookUp, Compose, Others, vars
  <2> QED
    BY <2>1, StoreInvStep
<1> QED
  BY <1>1, <1>2, PTL DEF Spec

LEMMA GetIs ==
  ASSUME StoreInv
  PROVE  /\ \A id \in DOMAIN records : ~ Expired(records[id]) => Get(id) = records[id]
         /\ \A id : Get(id) # NoRecord =>
              id \in DOMAIN records /\ ~ Expired(records[id]) /\ Get(id) = records[id]
         /\ \A id \in DOMAIN records : records[id] # NoRecord /\ records[id] \in Records
  BY MemoryAssumption DEF StoreInv, RecordsById, Get

LEMMA OneStory == StoreInv => ReadsAgree
<1> SUFFICES ASSUME StoreInv PROVE ReadsAgree
  OBVIOUS
<1>1. RecordsById /\ IndexLeadsBack
  BY DEF StoreInv
<1>2. \A id \in DOMAIN records : ~ Expired(records[id]) =>
        Read(records[id].slot) = records[id]
  BY <1>1, GetIs DEF Read, IndexLeadsBack
<1>3. ASSUME NEW s, Read(s) # NoRecord
      PROVE  \E id \in DOMAIN records :
               ~ Expired(records[id]) /\ Read(s) = records[id] /\ records[id].slot = s
  <2>1. s \in DOMAIN index /\ Read(s) = Get(index[s]) /\ Get(index[s]) # NoRecord
    BY <1>3 DEF Read
  <2> QED
    BY <1>1, <2>1, GetIs DEF IndexLeadsBack
<1>4. \A id \in Ids : Get(id) # NoRecord => Read(Get(id).slot) = Get(id)
  BY <1>2, GetIs
<1>5. \A s \in Slots : Read(s) # NoRecord => Read(s).slot = s
  BY <1>3
<1>6. Count = Cardinality({ s \in Slots : Read(s) # NoRecord })
  <2> DEFINE live  == { id \in DOMAIN records : ~ Expired(records[id]) }
             taken == { s \in Slots : Read(s) # NoRecord }
             slot  == [ id \in live |-> records[id].slot ]
  <2>1. slot \in [ live -> taken ]
    BY <1>1, <1>2, GetIs, MemoryAssumption
  <2>2. \A i, j \in live : slot[i] = slot[j] => i = j
    BY <1>1 DEF IndexLeadsBack
  <2>3. \A s \in taken : \E id \in live : slot[id] = s
    BY <1>3
  <2>4. IsFiniteSet(live)
    BY <1>1, FS_Subset DEF RecordsById
  <2> HIDE DEF live, taken, slot
  <2>5. slot \in Injection(live, taken) /\ slot \in Surjection(live, taken)
    BY <2>1, <2>2, <2>3, Fun_IsInj, Fun_IsSurj
  <2>6. ExistsBijection(live, taken)
    BY <2>5 DEF ExistsBijection, Bijection
  <2>7. Cardinality(taken) = Cardinality(live)
    BY <2>4, <2>6, FS_Bijection
  <2> QED
    BY <2>7 DEF Count, live, taken
<1> QED
  BY <1>4, <1>5, <1>6 DEF ReadsAgree

\* A live record is found under its slot exactly when it is found under its id,
\* and there are as many as there are slots read, whatever other threads write.
THEOREM ReadsTellOneStory == Spec => []ReadsAgree
<1>1. StoreInv => ReadsAgree
  BY OneStory
<1> QED
  BY <1>1, StoreUnderBuilder, PTL

\* Every write, delete and cleanup is the one of the protocol.
LEMMA ChangeIsProtocol ==
  ASSUME StoreInv, Change
  PROVE  Store!Next
<1> DEFINE kept == { records[id] : id \in DOMAIN records }
<1>1. /\ RecordsById /\ IndexLeadsBack /\ now \in 0..MaxTime /\ now' = now
  BY DEF StoreInv, Change
<1>2. ASSUME NEW r \in Records, Write(r) PROVE Store!Write(r)
  <2> DEFINE others == { id \in DOMAIN records : id # r.id /\ records[id].slot # r.slot }
  <2>1. /\ DOMAIN records' = others \cup { r.id } /\ records'[r.id] = r
        /\ \A id \in DOMAIN records' \ { r.id } : records'[id] = records[id]
    BY <1>2, WriteKeeps
  <2>2. kept' = { records[id] : id \in others } \cup { r }
    BY <2>1
  <2>3. { records[id] : id \in others } = { k \in kept : k.id # r.id /\ k.slot # r.slot }
    BY <1>1 DEF RecordsById
  <2> QED
    BY <2>2, <2>3 DEF Store!Write
<1>3. ASSUME NEW gone, Delete(gone)
      PROVE  kept' = { records[id] : id \in DOMAIN records \ gone }
  BY <1>3 DEF Delete
<1>4. ASSUME NEW id \in Ids, Delete({ id }) PROVE Store!Delete(id)
  <2>1. { records[i] : i \in DOMAIN records \ { id } } = { k \in kept : k.id # id }
    BY <1>1 DEF RecordsById
  <2> QED
    BY <1>3, <1>4, <2>1 DEF Store!Delete
<1>5. ASSUME CleanupExpired PROVE Store!Cleanup
  <2>1. kept' = { records[id] : id \in DOMAIN records \ ExpiredIds }
    BY <1>3, <1>5 DEF CleanupExpired
  <2>2. { records[id] : id \in DOMAIN records \ ExpiredIds }
          = { k \in kept : ~ Store!IsExpired(k, now) }
    BY DEF ExpiredIds, Expired, IsExpired, Store!IsExpired
  <2>3. now \in 0..now
    BY <1>1, MemoryAssumption
  <2> QED
    BY <2>1, <2>2, <2>3 DEF Store!Cleanup
<1> HIDE DEF kept
<1> QED
  BY <1>1, <1>2, <1>4, <1>5 DEF Change, Store!Next

\* Whatever ids and slots clients reuse, and in whatever order the threads
\* write, the store is the map the protocol MemoryStore describes.
THEOREM StoreImplementsProtocol == Spec => StoreSpec
<1> DEFINE kept == { records[id] : id \in DOMAIN records }
<1>1. Init => Store!Init
  <2> SUFFICES ASSUME Init PROVE Store!Init
    OBVIOUS
  <2>1. DOMAIN records = {} /\ now = 0
    BY DEF Init, StoreInit
  <2> QED
    BY <2>1 DEF Store!Init
<1>2. StoreInv /\ [Next]_vars => [Store!Next]_<< kept, now >>
  <2> SUFFICES ASSUME StoreInv, [Next]_vars PROVE [Store!Next]_<< kept, now >>
    OBVIOUS
  <2>1. Change \/ Tick \/ UNCHANGED << records, index, now >>
    BY DEF Next, Build, LookUp, Compose, Others, vars
  <2>2. CASE Change
    BY <2>2, ChangeIsProtocol
  <2>3. CASE Tick
    BY <2>3 DEF Tick, Store!Next, Store!Tick
  <2>4. CASE UNCHANGED << records, index, now >>
    BY <2>4
  <2> QED
    BY <2>1, <2>2, <2>3, <2>4
<1>3. Spec => Store!Spec
  <2> HIDE DEF kept
  <2>1. Store!Spec <=> Store!Init /\ [][Store!Next]_<< kept, now >>
    BY DEF Store!Spec, kept
  <2> QED
    BY <1>1, <1>2, <2>1, StoreUnderBuilder, PTL DEF Spec
<1> QED
  BY <1>3 DEF StoreSpec

-----------------------------------------------------------------------------
(* Sums over finite sets *)

\* f gives the sum of the weights of every part of S, one element after the
\* other in the order of CHOOSE.
Sums(f, S, weight) ==
  f = [ s \in SUBSET S |->
          IF s = {} THEN 0
          ELSE weight[CHOOSE x \in s : TRUE] + f[s \ { CHOOSE x \in s : TRUE }] ]

Sum(S, weight) == (CHOOSE f : Sums(f, S, weight))[S]

\* A set of naturals that has an element has a least one.
LEMMA LeastElement ==
  ASSUME NEW S \in SUBSET Nat, S # {}
  PROVE  \E m \in S : \A n \in S : m <= n
<1>1. \E m \in S : \A n \in S : << n, m >> \notin OpToRel(<, Nat)
  BY NatLessThanWellFounded, WFMin, Zenon
<1>2. ASSUME NEW n \in Nat, NEW m \in Nat, << n, m >> \notin OpToRel(<, Nat)
      PROVE  ~ (n < m)
  BY <1>2, Zenon DEF OpToRel
<1>3. \E m \in S : \A n \in S : ~ (n < m)
  BY <1>1, <1>2, Zenon
<1> QED
  BY <1>3

\* Of the parts of a finite set that are in a collection, one is minimal.
LEMMA MinimalPart ==
  ASSUME NEW S, IsFiniteSet(S), NEW C \in SUBSET SUBSET S, C # {}
  PROVE  \E s \in C : \A t \in C : t \subseteq s => t = s
<1>1. IsWellFoundedOn(StrictSubsetOrdering(S), SUBSET S)
  BY FS_StrictSubsetOrderingWellFounded, FS_FiniteSubsetsOfFinite, Zenon
<1>2. \E s \in C : \A t \in C : << t, s >> \notin StrictSubsetOrdering(S)
  BY <1>1, WFMin, Zenon
<1>3. ASSUME NEW s \in C, NEW t \in C, << t, s >> \notin StrictSubsetOrdering(S), t \subseteq s
      PROVE  t = s
  <2>1. << t, s >> \in (SUBSET S) \X (SUBSET S)
    OBVIOUS
  <2> QED
    BY <1>3, <2>1 DEF StrictSubsetOrdering
<1>4. PICK s \in C : \A t \in C : << t, s >> \notin StrictSubsetOrdering(S)
  BY <1>2, Zenon
<1>5. ASSUME NEW t \in C, t \subseteq s PROVE t = s
  <2>1. << t, s >> \notin StrictSubsetOrdering(S)
    BY <1>4, Zenon
  <2> QED
    BY <1>3, <1>5, <2>1, Zenon
<1> QED
  BY <1>5
\* Up to any size, and so for all of S, there is such a function.
LEMMA SumsExist ==
  ASSUME NEW S, IsFiniteSet(S), NEW weight
  PROVE  \E f : Sums(f, S, weight)
<1> DEFINE Next1(f, s) == IF s = {} THEN 0
                          ELSE weight[CHOOSE x \in s : TRUE] + f[s \ { CHOOSE x \in s : TRUE }]
           UpTo(n) == \E f : /\ DOMAIN f = SUBSET S
                             /\ f = [ s \in SUBSET S |-> f[s] ]
                             /\ \A s \in SUBSET S : Cardinality(s) <= n => f[s] = Next1(f, s)
           Bad == { n \in Nat : ~ UpTo(n) }
<1>1. \A s \in SUBSET S : IsFiniteSet(s) /\ Cardinality(s) \in Nat
                          /\ Cardinality(s) <= Cardinality(S)
  BY FS_Subset, FS_CardinalityType
<1>2. \A s \in SUBSET S : \A x \in s :
        s \ { x } \in SUBSET S /\ Cardinality(s \ { x }) = Cardinality(s) - 1
  BY <1>1, FS_RemoveElement
<1>3. UpTo(0)
  <2> DEFINE f == [ s \in SUBSET S |-> 0 ]
  <2>1. \A s \in SUBSET S : Cardinality(s) <= 0 => s = {}
    BY <1>1, FS_EmptySet
  <2>2. \A s \in SUBSET S : Cardinality(s) <= 0 => f[s] = Next1(f, s)
    BY <2>1
  <2>3. DOMAIN f = SUBSET S /\ f = [ s \in SUBSET S |-> f[s] ]
    OBVIOUS
  <2> HIDE DEF f, Next1
  <2> QED
    BY <2>2, <2>3
<1>4. ASSUME NEW n \in Nat, UpTo(n) PROVE UpTo(n + 1)
  <2>1. PICK f : /\ DOMAIN f = SUBSET S
                 /\ f = [ s \in SUBSET S |-> f[s] ]
                 /\ \A s \in SUBSET S : Cardinality(s) <= n => f[s] = Next1(f, s)
    BY <1>4
  <2> DEFINE g == [ s \in SUBSET S |-> IF Cardinality(s) = n + 1 THEN Next1(f, s) ELSE f[s] ]
  <2>2. ASSUME NEW s \in SUBSET S, Cardinality(s) <= n + 1 PROVE g[s] = Next1(g, s)
    <3>1. g[s] = Next1(f, s)
      <4>1. g[s] = IF Cardinality(s) = n + 1 THEN Next1(f, s) ELSE f[s]
        OBVIOUS
      <4> HIDE DEF g, Next1
      <4>2. Cardinality(s) # n + 1 => f[s] = Next1(f, s)
        <5>1. Cardinality(s) # n + 1 => Cardinality(s) <= n
          BY <1>1, <2>2
        <5> QED
          BY <2>1, <5>1
      <4> QED
        BY <4>1, <4>2
    <3>2. Next1(g, s) = Next1(f, s)
      <4>1. CASE s = {}
        BY <4>1
      <4>2. CASE s # {}
        <5> DEFINE x == CHOOSE x \in s : TRUE
        <5>1. x \in s
          BY <4>2
        <5>2. s \ { x } \in SUBSET S /\ Cardinality(s \ { x }) # n + 1
          <6> HIDE DEF x
          <6> QED
            BY <1>1, <1>2, <2>2, <5>1
        <5>3. g[s \ { x }] = f[s \ { x }]
          BY <5>2
        <5> QED
          BY <4>2, <5>3
      <4> QED
        BY <4>1, <4>2
    <3> QED
      BY <3>1, <3>2
  <2>3. DOMAIN g = SUBSET S /\ g = [ s \in SUBSET S |-> g[s] ]
    OBVIOUS
  <2> HIDE DEF g, Next1
  <2> QED
    BY <2>2, <2>3
<1> HIDE DEF UpTo
<1>5. Bad = {}
  <2> SUFFICES ASSUME Bad # {} PROVE FALSE
    OBVIOUS
  <2>1. PICK n \in Bad : \A m \in Bad : n <= m
    BY LeastElement
  <2>2. n # 0 /\ n - 1 \in Nat /\ n - 1 \notin Bad
    BY <1>3, <2>1
  <2>3. UpTo((n - 1) + 1) /\ (n - 1) + 1 = n
    BY <1>4, <2>2
  <2> QED
    BY <2>3
<1>6. UpTo(Cardinality(S))
  BY <1>1, <1>5
<1> USE DEF UpTo
<1>7. PICK f : /\ f = [ s \in SUBSET S |-> f[s] ]
               /\ \A s \in SUBSET S : Cardinality(s) <= Cardinality(S) => f[s] = Next1(f, s)
  BY <1>6
<1>8. \A s \in SUBSET S : f[s] = Next1(f, s)
  BY <1>1, <1>7
<1>9. f = [ s \in SUBSET S |-> Next1(f, s) ]
  BY <1>7, <1>8
<1> QED
  BY <1>9 DEF Sums

\* Two such functions agree on the parts they share.
LEMMA SumsAgree ==
  ASSUME NEW S, IsFiniteSet(S), NEW T, NEW weight, NEW f, NEW g,
         Sums(f, S, weight), Sums(g, T, weight), NEW u \in SUBSET S, u \subseteq T
  PROVE  f[u] = g[u]
<1> DEFINE Bad == { s \in SUBSET S : s \subseteq T /\ f[s] # g[s] }
<1> SUFFICES ASSUME Bad # {} PROVE FALSE
  OBVIOUS
<1>1. PICK s \in Bad : \A t \in Bad : t \subseteq s => t = s
  <2>1. IsFiniteSet(S) /\ Bad \in SUBSET SUBSET S
    OBVIOUS
  <2> HIDE DEF Bad
  <2> QED
    BY <2>1, MinimalPart
<1> DEFINE x == CHOOSE y \in s : TRUE
<1>2. s # {} /\ x \in s /\ f[s] = weight[x] + f[s \ { x }] /\ g[s] = weight[x] + g[s \ { x }]
  BY DEF Sums
<1>3. s \ { x } \notin Bad
  BY <1>1, <1>2
<1> QED
  BY <1>2, <1>3

LEMMA SumIs ==
  ASSUME NEW S, IsFiniteSet(S), NEW weight
  PROVE  \E f : Sums(f, S, weight) /\ \A T \in SUBSET S : Sum(T, weight) = f[T]
<1>1. PICK f : Sums(f, S, weight)
  BY SumsExist
<1>2. ASSUME NEW T \in SUBSET S PROVE Sum(T, weight) = f[T]
  <2> DEFINE g == CHOOSE h : Sums(h, T, weight)
  <2>1. IsFiniteSet(T)
    BY FS_Subset
  <2>2. Sums(g, T, weight)
    BY <2>1, SumsExist
  <2> HIDE DEF g
  <2>3. g[T] = f[T]
    BY <1>1, <2>1, <2>2, SumsAgree
  <2> QED
    BY <2>3 DEF Sum, g
<1> QED
  BY <1>1, <1>2

Weighing(S, weight) == IsFiniteSet(S) /\ \A x \in S : weight[x] \in Nat

LEMMA SumEmpty ==
  ASSUME NEW weight
  PROVE  Sum({}, weight) = 0
<1>1. PICK f : Sums(f, {}, weight) /\ Sum({}, weight) = f[{}]
  BY SumIs, FS_EmptySet
<1> QED
  BY <1>1 DEF Sums

LEMMA SumNat ==
  ASSUME NEW S, NEW weight, Weighing(S, weight)
  PROVE  Sum(S, weight) \in Nat
<1>1. PICK f : Sums(f, S, weight) /\ Sum(S, weight) = f[S]
  BY SumIs DEF Weighing
<1> DEFINE Bad == { s \in SUBSET S : f[s] \notin Nat }
<1> SUFFICES ASSUME Bad # {} PROVE FALSE
  BY <1>1
<1>2. PICK s \in Bad : \A t \in Bad : t \subseteq s => t = s
  <2>1. IsFiniteSet(S) /\ Bad \in SUBSET SUBSET S
    BY DEF Weighing
  <2> HIDE DEF Bad
  <2> QED
    BY <2>1, MinimalPart
<1> DEFINE x == CHOOSE y \in s : TRUE
<1>3. f[{}] = 0
  BY <1>1 DEF Sums
<1>4. s # {} /\ x \in s /\ f[s] = weight[x] + f[s \ { x }]
  BY <1>1, <1>3 DEF Sums
<1>5. f[s \ { x }] \in Nat
  BY <1>2, <1>4
<1> QED
  BY <1>4, <1>5 DEF Weighing

\* The order does not matter: any element can be taken last.
LEMMA SumTakes ==
  ASSUME NEW S, NEW weight, Weighing(S, weight), NEW e \in S
  PROVE  Sum(S, weight) = weight[e] + Sum(S \ { e }, weight)
<1>1. PICK f : Sums(f, S, weight) /\ \A T \in SUBSET S : Sum(T, weight) = f[T]
  BY SumIs DEF Weighing
<1>2. ASSUME NEW t \in SUBSET S PROVE f[t] \in Nat
  <2>1. Weighing(t, weight)
    BY FS_Subset DEF Weighing
  <2> QED
    BY <1>1, <2>1, SumNat
<1> DEFINE Bad == { s \in SUBSET S : \E y \in s : f[s] # weight[y] + f[s \ { y }] }
<1>3. Bad = {}
  <2> SUFFICES ASSUME Bad # {} PROVE FALSE
    OBVIOUS
  <2>1. PICK s \in Bad : \A t \in Bad : t \subseteq s => t = s
    <3>1. IsFiniteSet(S) /\ Bad \in SUBSET SUBSET S
      BY DEF Weighing
    <3> HIDE DEF Bad
    <3> QED
      BY <3>1, MinimalPart
  <2>2. PICK y \in s : f[s] # weight[y] + f[s \ { y }]
    OBVIOUS
  <2> DEFINE x == CHOOSE z \in s : TRUE
             rest == s \ { x, y }
  <2>3. x \in s /\ f[s] = weight[x] + f[s \ { x }]
    BY <1>1 DEF Sums
  <2> HIDE DEF x
  <2>4. x # y
    BY <2>2, <2>3
  <2>5. s \ { x } \notin Bad /\ s \ { y } \notin Bad
    BY <2>1, <2>2, <2>3
  <2>6. f[s \ { x }] = weight[y] + f[rest] /\ f[s \ { y }] = weight[x] + f[rest]
    <3>1. (s \ { x }) \ { y } = rest /\ (s \ { y }) \ { x } = rest
      OBVIOUS
    <3>2. y \in s \ { x } /\ x \in s \ { y }
      BY <2>2, <2>3, <2>4
    <3> HIDE DEF rest
    <3> QED
      BY <2>5, <3>1, <3>2
  <2>7. f[rest] \in Nat /\ weight[x] \in Nat /\ weight[y] \in Nat
    BY <1>2, <2>2, <2>3 DEF Weighing
  <2> HIDE DEF rest
  <2> QED
    BY <2>2, <2>3, <2>6, <2>7
<1>4. f[S] = weight[e] + f[S \ { e }]
  BY <1>3
<1> QED
  BY <1>1, <1>4

\* A larger set weighs no less.
LEMMA SumGrows ==
  ASSUME NEW S, NEW weight, Weighing(S, weight), NEW T \in SUBSET S
  PROVE  Sum(T, weight) <= Sum(S, weight)
<1> DEFINE Bad == { s \in SUBSET S : T \subseteq s /\ ~ (Sum(T, weight) <= Sum(s, weight)) }
<1> SUFFICES ASSUME Bad # {} PROVE FALSE
  OBVIOUS
<1>1. \A s \in SUBSET S : Weighing(s, weight) /\ Sum(s, weight) \in Nat
  BY FS_Subset, SumNat DEF Weighing
<1>2. PICK s \in Bad : \A t \in Bad : t \subseteq s => t = s
  <2>1. IsFiniteSet(S) /\ Bad \in SUBSET SUBSET S
    BY DEF Weighing
  <2> HIDE DEF Bad
  <2> QED
    BY <2>1, MinimalPart
<1>3. s # T
  BY <1>1
<1>4. PICK x \in s : x \notin T
  BY <1>3
<1>5. s \ { x } \notin Bad /\ T \subseteq s \ { x } /\ s \ { x } \in SUBSET S
  BY <1>2, <1>4
<1>6. Sum(s, weight) = weight[x] + Sum(s \ { x }, weight)
  BY <1>1, SumTakes
<1>7. weight[x] \in Nat
  BY DEF Weighing
<1> QED
  BY <1>1, <1>5, <1>6, <1>7

-----------------------------------------------------------------------------
(* Tokens *)

Weight == [ i \in DOMAIN msgs |-> msgs[i].tokens ]

LEMMA TokensAreSums ==
  ASSUME NEW S \in SUBSET DOMAIN msgs
  PROVE  Tokens(S) = Sum(S, Weight)
<1> DEFINE Fold(f) == f = [ s \in SUBSET S |->
              IF s = {} THEN 0
              ELSE msgs[CHOOSE x \in s : TRUE].tokens + f[s \ { CHOOSE x \in s : TRUE }] ]
<1>1. Tokens(S) = (CHOOSE f : Fold(f))[S]
  BY DEF Tokens, MapThenSumSet, MapThenFoldSet
<1>2. ASSUME NEW f PROVE Fold(f) <=> Sums(f, S, Weight)
  <2>1. \A s \in SUBSET S : s # {} =>
          Weight[CHOOSE x \in s : TRUE] = msgs[CHOOSE x \in s : TRUE].tokens
    BY DEF Weight
  <2>2. [ s \in SUBSET S |->
            IF s = {} THEN 0
            ELSE msgs[CHOOSE x \in s : TRUE].tokens + f[s \ { CHOOSE x \in s : TRUE }] ]
        = [ s \in SUBSET S |->
            IF s = {} THEN 0
            ELSE Weight[CHOOSE x \in s : TRUE] + f[s \ { CHOOSE x \in s : TRUE }] ]
    BY <2>1
  <2> QED
    BY <2>2 DEF Sums
<1> HIDE DEF Fold
<1>3. (CHOOSE f : Fold(f)) = (CHOOSE f : Sums(f, S, Weight))
  BY <1>2, Zenon
<1> QED
  BY <1>1, <1>3 DEF Sum

-----------------------------------------------------------------------------
(* Recursion over a range of naturals *)

\* f holds the values that the steps 1..n make of a base, one after the other.
Iterates(f, n, V, base, step) ==
  f \in [ 0..n -> V ] /\ f[0] = base /\ \A i \in 1..n : f[i] = step[i][f[i - 1]]

Steps(step, n, V) == step \in [ 1..n -> [ V -> V ] ]

LEMMA Recursion ==
  ASSUME NEW n \in Nat, NEW V, NEW base \in V, NEW step, Steps(step, n, V)
  PROVE  \E f : Iterates(f, n, V, base, step)
<1> USE DEF Iterates, Steps
<1> DEFINE UpTo(m) == \E f \in [ 0..m -> V ] :
                        f[0] = base /\ \A i \in 1..m : f[i] = step[i][f[i - 1]]
           Bad == { m \in 0..n : ~ UpTo(m) }
<1>1. UpTo(0)
  <2>1. [ i \in 0..0 |-> base ] \in [ 0..0 -> V ] /\ [ i \in 0..0 |-> base ][0] = base
    OBVIOUS
  <2>2. 1..0 = {}
    OBVIOUS
  <2> QED
    BY <2>1, <2>2
<1>2. ASSUME NEW m \in 0..(n - 1), UpTo(m) PROVE UpTo(m + 1)
  <2>1. PICK f \in [ 0..m -> V ] : f[0] = base /\ \A i \in 1..m : f[i] = step[i][f[i - 1]]
    BY <1>2
  <2> DEFINE g == [ i \in 0..(m + 1) |-> IF i = m + 1 THEN step[m + 1][f[m]] ELSE f[i] ]
  <2>2. m \in Nat /\ m + 1 \in 1..n /\ m \in 0..m
    OBVIOUS
  <2>3. step[m + 1][f[m]] \in V
    BY <2>2
  <2>4. g \in [ 0..(m + 1) -> V ] /\ g[0] = base
    BY <2>1, <2>2, <2>3
  <2>5. ASSUME NEW i \in 1..(m + 1) PROVE g[i] = step[i][g[i - 1]]
    <3>1. CASE i = m + 1
      BY <2>2, <3>1
    <3>2. CASE i # m + 1
      <4>1. i \in 1..m /\ i \in 0..(m + 1) /\ i - 1 \in 0..(m + 1) /\ i - 1 # m + 1
        BY <2>2, <3>2
      <4> QED
        BY <2>1, <3>2, <4>1
    <3> QED
      BY <3>1, <3>2
  <2> HIDE DEF g
  <2> QED
    BY <2>4, <2>5
<1> HIDE DEF UpTo
<1>3. Bad = {}
  <2> SUFFICES ASSUME Bad # {} PROVE FALSE
    OBVIOUS
  <2>1. PICK m \in Bad : \A k \in Bad : m <= k
    <3>1. Bad \in SUBSET Nat
      OBVIOUS
    <3> HIDE DEF Bad
    <3> QED
      BY <3>1, LeastElement
  <2>2. m # 0 /\ m - 1 \in 0..(n - 1) /\ m - 1 \notin Bad
    BY <1>1, <2>1
  <2>3. UpTo((m - 1) + 1) /\ (m - 1) + 1 = m
    BY <1>2, <2>2
  <2> QED
    BY <2>3
<1>4. UpTo(n)
  BY <1>3
<1> QED
  BY <1>4 DEF UpTo

-----------------------------------------------------------------------------
(* The window *)

\* A conversation the builder can be given.
Talk == msgs \in Conversations \cup { <<>> }

LEMMA TalkIs ==
  ASSUME Talk
  PROVE  /\ msgs \in Seq(Message) /\ Len(msgs) \in Nat /\ DOMAIN msgs = 1..Len(msgs)
         /\ History \subseteq DOMAIN msgs /\ IsFiniteSet(History)
         /\ History # {} => Len(msgs) \in History
         /\ \A i \in DOMAIN msgs : msgs[i].tokens \in Nat \ { 0 }
<1>1. msgs \in Seq(Message)
  <2>1. <<>> \in Seq(Message)
    OBVIOUS
  <2> QED
    BY <2>1, ContextAssumption DEF Talk
<1>2. /\ Len(msgs) \in Nat /\ DOMAIN msgs = 1..Len(msgs)
      /\ \A i \in DOMAIN msgs : msgs[i] \in Message
  BY <1>1
<1>3. /\ History \subseteq 1..Len(msgs)
      /\ History # {} => Len(msgs) \in History
  BY <1>2 DEF History
<1>4. IsFiniteSet(1..Len(msgs))
  BY <1>2, FS_Interval
<1>5. IsFiniteSet(History)
  BY <1>3, <1>4, FS_Subset
<1> QED
  BY <1>1, <1>2, <1>3, <1>5 DEF Message

\* Tokens add up, and every message costs something.
LEMMA TokenFacts ==
  ASSUME Talk, NEW S \in SUBSET History
  PROVE  /\ IsFiniteSet(S) /\ Tokens(S) \in Nat
         /\ Tokens(S) = 0 => S = {}
         /\ \A T \in SUBSET S : Tokens(T) <= Tokens(S)
<1>1. S \subseteq DOMAIN msgs /\ IsFiniteSet(S)
  BY TalkIs, FS_Subset
<1>2. Weighing(S, Weight)
  BY <1>1, TalkIs DEF Weighing, Weight
<1>3. Tokens(S) = Sum(S, Weight) /\ \A T \in SUBSET S : Tokens(T) = Sum(T, Weight)
  BY <1>1, TokensAreSums
<1>4. Sum(S, Weight) \in Nat
  BY <1>2, SumNat
<1>5. ASSUME NEW i \in S PROVE Tokens(S) # 0
  <2>1. Sum(S, Weight) = Weight[i] + Sum(S \ { i }, Weight)
    BY <1>2, SumTakes
  <2>2. Weight[i] \in Nat \ { 0 }
    BY <1>1, TalkIs DEF Weight
  <2>3. Weighing(S \ { i }, Weight)
    BY <1>2, FS_Subset DEF Weighing
  <2>4. Sum(S \ { i }, Weight) \in Nat
    BY <2>3, SumNat
  <2> QED
    BY <1>3, <2>1, <2>2, <2>4
<1>6. \A T \in SUBSET S : Sum(T, Weight) <= Sum(S, Weight)
  BY <1>2, SumGrows
<1> QED
  BY <1>1, <1>3, <1>4, <1>5, <1>6

LEMMA OneLatestUser ==
  ASSUME Talk
  PROVE  LatestUser \subseteq History /\ \A i, j \in LatestUser : i = j
<1>1. History \subseteq Nat
  BY TalkIs
<1> QED
  BY <1>1 DEF LatestUser

\* The selection after looking at the messages from i on.
Picks(pick, budget) ==
  pick = [ i \in 1..(Len(msgs) + 1) |->
             IF i > Len(msgs) THEN Mandatory(budget)
             ELSE IF i \in History /\ Tokens(pick[i + 1] \cup { i }) <= budget
                  THEN pick[i + 1] \cup { i } ELSE pick[i + 1] ]

LEMMA PicksExist ==
  ASSUME Talk, NEW budget
  PROVE  \E pick : Picks(pick, budget)
<1> DEFINE n == Len(msgs)
           at(i) == (n + 1) - i
           step == [ i \in 1..n |-> [ W \in SUBSET History |->
                      IF at(i) \in History /\ Tokens(W \cup { at(i) }) <= budget
                      THEN W \cup { at(i) } ELSE W ] ]
<1>1. n \in Nat
  BY TalkIs
<1>2. LatestUser \in SUBSET History
  BY OneLatestUser
<1>3. step \in [ 1..n -> [ SUBSET History -> SUBSET History ] ]
  OBVIOUS
<1>4. PICK f \in [ 0..n -> SUBSET History ] :
        f[0] = LatestUser /\ \A i \in 1..n : f[i] = step[i][f[i - 1]]
  <2> DEFINE V == SUBSET History
  <2>1. Steps(step, n, V) /\ LatestUser \in V
    BY <1>2, <1>3 DEF Steps
  <2> HIDE DEF step, n, V
  <2>2. \E f : Iterates(f, n, V, LatestUser, step)
    BY <1>1, <2>1, Recursion
  <2> QED
    BY <2>2 DEF V, Iterates
<1> DEFINE pick == [ i \in 1..(n + 1) |-> f[at(i)] ]
<1>5. pick[n + 1] = Mandatory(budget)
  BY <1>1, <1>4 DEF Mandatory
<1>6. ASSUME NEW i \in 1..n
      PROVE  pick[i] = IF i \in History /\ Tokens(pick[i + 1] \cup { i }) <= budget
                       THEN pick[i + 1] \cup { i } ELSE pick[i + 1]
  <2>1. at(i) \in 1..n /\ at(i) - 1 \in 0..n /\ at(at(i)) = i /\ at(i + 1) = at(i) - 1
        /\ i \in 1..(n + 1) /\ i + 1 \in 1..(n + 1)
    BY <1>1
  <2>2. pick[i] = f[at(i)] /\ pick[i + 1] = f[at(i) - 1]
    BY <2>1
  <2>3. f[at(i)] = step[at(i)][f[at(i) - 1]]
    BY <1>4, <2>1
  <2>4. f[at(i) - 1] \in SUBSET History
    BY <2>1
  <2>5. step[at(i)][f[at(i) - 1]] =
          IF i \in History /\ Tokens(f[at(i) - 1] \cup { i }) <= budget
          THEN f[at(i) - 1] \cup { i } ELSE f[at(i) - 1]
    BY <2>1, <2>4
  <2> HIDE DEF pick, step, at, n
  <2> QED
    BY <2>2, <2>3, <2>5
<1> HIDE DEF at, step
<1>7. pick = [ i \in 1..(n + 1) |-> pick[i] ]
  OBVIOUS
<1>8. \A i \in 1..(n + 1) : i > n <=> i = n + 1
  BY <1>1
<1>9. \A i \in 1..(n + 1) : i # n + 1 => i \in 1..n
  BY <1>1
<1> HIDE DEF pick
<1>10. Picks(pick, budget)
  BY <1>5, <1>6, <1>7, <1>8, <1>9 DEF Picks, n
<1> QED
  BY <1>10

\* The selection is within the history and has the newest user message; it only
\* grows; it is within the budget or has nothing but that message; and what was
\* skipped would not have fitted.
Selection(pick, budget, i) ==
  /\ pick[i] \subseteq History /\ LatestUser \subseteq pick[i]
  /\ Tokens(pick[i]) <= budget \/ pick[i] \subseteq LatestUser
  /\ \A j \in i..Len(msgs) : j \in History /\ j \notin pick[i] =>
       ~ (Tokens(pick[i] \cup { j }) <= budget)

LEMMA SelectionHolds ==
  ASSUME Talk, NEW budget \in Nat, NEW pick, Picks(pick, budget)
  PROVE  \A i \in 1..(Len(msgs) + 1) : Selection(pick, budget, i)
<1> DEFINE n == Len(msgs)
           Bad == { k \in 0..n : ~ Selection(pick, budget, (n + 1) - k) }
<1>1. n \in Nat
  BY TalkIs
<1>2. LatestUser \in SUBSET History
  BY OneLatestUser
<1>3. Selection(pick, budget, n + 1)
  <2>1. pick[n + 1] = LatestUser
    BY <1>1 DEF Picks, Mandatory
  <2>2. (n + 1)..n = {}
    BY <1>1
  <2> QED
    BY <1>2, <2>1, <2>2 DEF Selection
<1>4. ASSUME NEW i \in 1..n, Selection(pick, budget, i + 1)
      PROVE  Selection(pick, budget, i)
  <2> DEFINE rest == pick[i + 1]
  <2>1. pick[i] = IF i \in History /\ Tokens(rest \cup { i }) <= budget
                  THEN rest \cup { i } ELSE rest
    <3>1. i \in 1..(Len(msgs) + 1) /\ ~ (i > Len(msgs))
      BY <1>1
    <3> QED
      BY <3>1 DEF Picks
  <2>2. /\ rest \subseteq History /\ LatestUser \subseteq rest
        /\ Tokens(rest) <= budget \/ rest \subseteq LatestUser
        /\ \A j \in (i + 1)..n : j \in History /\ j \notin rest =>
             ~ (Tokens(rest \cup { j }) <= budget)
    BY <1>4 DEF Selection
  <2> HIDE DEF rest
  <2>3. i..n = { i } \cup ((i + 1)..n)
    BY <1>1
  <2>4. CASE i \in History /\ Tokens(rest \cup { i }) <= budget
    <3>1. pick[i] = rest \cup { i } /\ rest \cup { i } \subseteq History
      BY <2>1, <2>2, <2>4
    <3>2. ASSUME NEW j \in (i + 1)..n, j \in History, j \notin rest \cup { i }
          PROVE  ~ (Tokens((rest \cup { i }) \cup { j }) <= budget)
      <4> DEFINE small == rest \cup { j }
                 large == (rest \cup { i }) \cup { j }
      <4>1. small \in SUBSET large /\ large \in SUBSET History
        BY <2>2, <2>4, <3>2
      <4> HIDE DEF small, large
      <4>2. Tokens(small) <= Tokens(large) /\ Tokens(small) \in Nat /\ Tokens(large) \in Nat
        BY <4>1, TokenFacts
      <4>3. ~ (Tokens(small) <= budget)
        BY <2>2, <3>2 DEF small
      <4>4. ~ (Tokens(large) <= budget)
        BY <4>2, <4>3
      <4> QED
        BY <4>4 DEF large
    <3> QED
      BY <2>2, <2>3, <2>4, <3>1, <3>2 DEF Selection, n
  <2>5. CASE ~ (i \in History /\ Tokens(rest \cup { i }) <= budget)
    <3>1. pick[i] = rest
      BY <2>1, <2>5
    <3> QED
      BY <2>2, <2>3, <2>5, <3>1 DEF Selection, n
  <2> QED
    BY <2>4, <2>5
<1>5. Bad = {}
  <2> SUFFICES ASSUME Bad # {} PROVE FALSE
    OBVIOUS
  <2>1. PICK k \in Bad : \A m \in Bad : k <= m
    <3>1. Bad \in SUBSET Nat
      OBVIOUS
    <3> HIDE DEF Bad
    <3> QED
      BY <3>1, LeastElement
  <2>2. k \in 0..n /\ ~ Selection(pick, budget, (n + 1) - k)
    OBVIOUS
  <2>3. k # 0
    BY <1>1, <1>3, <2>2
  <2>4. k - 1 \in 0..n /\ k - 1 \notin Bad
    BY <1>1, <2>1, <2>2, <2>3
  <2>5. (n + 1) - k \in 1..n /\ ((n + 1) - k) + 1 = (n + 1) - (k - 1)
    BY <1>1, <2>2, <2>3
  <2>6. Selection(pick, budget, (n + 1) - (k - 1))
    BY <2>4
  <2> HIDE DEF n, Bad
  <2> QED
    BY <1>4, <2>2, <2>5, <2>6
<1>6. ASSUME NEW i \in 1..(n + 1) PROVE Selection(pick, budget, i)
  <2>1. (n + 1) - i \in 0..n /\ (n + 1) - ((n + 1) - i) = i
    BY <1>1
  <2> QED
    BY <1>5, <2>1
<1> QED
  BY <1>6

LEMMA WindowIs ==
  ASSUME Talk, NEW budget \in Nat
  PROVE  /\ Window(budget) \subseteq History /\ LatestUser \subseteq Window(budget)
         /\ Tokens(Window(budget)) <= budget \/ Window(budget) \subseteq LatestUser
         /\ \A j \in History \ Window(budget) :
              ~ (Tokens(Window(budget) \cup { j }) <= budget)
<1> DEFINE pick == CHOOSE pick : Picks(pick, budget)
<1>1. Window(budget) = pick[1]
  BY DEF Window, Picks
<1>2. Picks(pick, budget)
  BY PicksExist
<1> HIDE DEF pick
<1>3. 1 \in 1..(Len(msgs) + 1) /\ History \subseteq 1..Len(msgs)
  BY TalkIs
<1>4. Selection(pick, budget, 1)
  BY <1>2, <1>3, SelectionHolds
<1> QED
  BY <1>1, <1>3, <1>4 DEF Selection

-----------------------------------------------------------------------------
(* The context *)

LEMMA Bounds ==
  /\ MaxContextTokens \in Nat /\ MaxMemoryRecords \in Nat /\ NoticeTokens \in Nat
  /\ HeaderTokens \in Nat /\ MaxWrites \in Nat
  BY ContextAssumption

LEMMA SystemTokensNat ==
  ASSUME Talk, NEW mem \in Seq(Records)
  PROVE  SystemTokens(mem) \in Nat
<1> DEFINE size == [ i \in DOMAIN mem |-> mem[i].size ]
           S == DOMAIN mem
           Fold(f) == f = [ s \in SUBSET S |->
              IF s = {} THEN 0
              ELSE mem[CHOOSE x \in s : TRUE].size + f[s \ { CHOOSE x \in s : TRUE }] ]
<1>1. MapThenSumSet(LAMBDA i : mem[i].size, S) = (CHOOSE f : Fold(f))[S]
  BY DEF MapThenSumSet, MapThenFoldSet
<1>2. ASSUME NEW f PROVE Fold(f) <=> Sums(f, S, size)
  <2>1. \A s \in SUBSET S : s # {} =>
          size[CHOOSE x \in s : TRUE] = mem[CHOOSE x \in s : TRUE].size
    OBVIOUS
  <2>2. [ s \in SUBSET S |->
            IF s = {} THEN 0
            ELSE mem[CHOOSE x \in s : TRUE].size + f[s \ { CHOOSE x \in s : TRUE }] ]
        = [ s \in SUBSET S |->
            IF s = {} THEN 0
            ELSE size[CHOOSE x \in s : TRUE] + f[s \ { CHOOSE x \in s : TRUE }] ]
    BY <2>1
  <2> HIDE DEF size
  <2> QED
    BY <2>2 DEF Sums
<1> HIDE DEF Fold
<1>3. (CHOOSE f : Fold(f)) = (CHOOSE f : Sums(f, S, size))
  BY <1>2, Zenon
<1>4. MapThenSumSet(LAMBDA i : mem[i].size, S) = Sum(S, size)
  BY <1>1, <1>3 DEF Sum
<1>5. Weighing(S, size)
  <2>1. S = 1..Len(mem) /\ Len(mem) \in Nat
    OBVIOUS
  <2>2. IsFiniteSet(S)
    BY <2>1, FS_Interval
  <2>3. \A i \in S : size[i] \in Nat
    BY MemoryAssumption
  <2> QED
    BY <2>2, <2>3 DEF Weighing
<1>6. Sum(S, size) \in Nat
  BY <1>5, SumNat
<1>7. HasSystem => msgs[1].tokens \in Nat
  BY TalkIs DEF HasSystem
<1> HIDE DEF S, size
<1>8. (IF mem = <<>> THEN 0 ELSE HeaderTokens + Sum(S, size)) \in Nat
  BY <1>6, Bounds
<1>9. (IF HasSystem THEN msgs[1].tokens ELSE 0) \in Nat
  BY <1>7
<1>10. SystemTokens(mem) = (IF HasSystem THEN msgs[1].tokens ELSE 0)
                           + (IF mem = <<>> THEN 0 ELSE HeaderTokens + Sum(S, size))
  BY <1>4 DEF SystemTokens, S
<1> QED
  BY <1>8, <1>9, <1>10

\* Of any memories and any conversation a context is made that keeps the latest
\* user message and something of the conversation, drops only what does not
\* fit, and exceeds the budget only with a single message.
LEMMA ContextIs ==
  ASSUME Talk, NEW mem \in Seq(Records), NEW c, c = Context(mem)
  PROVE  /\ c.system \in Nat /\ c.notice \in { 0, NoticeTokens } /\ c.kept \subseteq History
         /\ LatestUser \subseteq c.kept /\ (History # {} => c.kept # {})
         /\ c.system + c.notice + Tokens(c.kept) > MaxContextTokens =>
              Cardinality(c.kept) <= 1
         /\ \A i \in History \ c.kept :
              c.system + NoticeTokens + Tokens(c.kept \cup { i }) > MaxContextTokens
<1> DEFINE system    == SystemTokens(mem)
           available == Minus(MaxContextTokens, system)
           budget    == Minus(available, NoticeTokens)
           window    == Window(budget)
<1>1. system \in Nat /\ available \in Nat /\ budget \in Nat
      /\ MaxContextTokens \in Nat /\ NoticeTokens \in Nat
      /\ available = (IF MaxContextTokens > system THEN MaxContextTokens - system ELSE 0)
      /\ budget = (IF available > NoticeTokens THEN available - NoticeTokens ELSE 0)
  BY SystemTokensNat, Bounds DEF Minus
<1>2. Tokens(History) \in Nat /\ (Tokens(History) = 0 => History = {})
  BY TokenFacts
<1>3. Cardinality({}) = 0
  BY FS_EmptySet
<1>4. CASE Tokens(History) <= available
  <2>1. c = [ system |-> system, notice |-> 0, kept |-> History ]
    BY <1>4 DEF Context
  <2>2. c.system = system /\ c.notice = 0 /\ c.kept = History
    BY <2>1
  <2> HIDE DEF system, available, budget
  <2>3. system + 0 + Tokens(History) > MaxContextTokens => History = {}
    BY <1>1, <1>2, <1>4
  <2>4. Cardinality(c.kept) <= 1 \/ ~ (c.system + c.notice + Tokens(c.kept) > MaxContextTokens)
    <3>1. CASE History = {}
      <4>1. c.kept = {}
        BY <2>2, <3>1
      <4> QED
        BY <1>3, <4>1
    <3>2. CASE History # {}
      BY <2>2, <2>3, <3>2
    <3> QED
      BY <3>1, <3>2
  <2>5. LatestUser \subseteq c.kept
    BY <2>2, OneLatestUser
  <2>6. History \ c.kept = {} /\ c.kept \subseteq History
    BY <2>2
  <2>7. History # {} => c.kept # {}
    BY <2>2
  <2>8. c.notice \in { 0, NoticeTokens } /\ c.system \in Nat
    BY <1>1, <2>2
  <2> QED
    BY <2>4, <2>5, <2>6, <2>7, <2>8
<1>5. CASE ~ (Tokens(History) <= available)
  <2>1. c = [ system |-> system,
              notice |-> IF window # History THEN NoticeTokens ELSE 0,
              kept   |-> IF window = {} THEN { Len(msgs) } ELSE window ]
    BY <1>5 DEF Context, SelectionBudget
  <2>2. /\ c.system = system
        /\ c.notice = IF window # History THEN NoticeTokens ELSE 0
        /\ c.kept = IF window = {} THEN { Len(msgs) } ELSE window
    BY <2>1
  <2> HIDE DEF system, available
  <2>3. /\ window \subseteq History /\ LatestUser \subseteq window
        /\ Tokens(window) <= budget \/ window \subseteq LatestUser
        /\ \A j \in History \ window : ~ (Tokens(window \cup { j }) <= budget)
    BY <1>1, WindowIs
  <2> HIDE DEF budget, window
  <2>4. History # {}
    <3>1. IsFiniteSet({}) /\ Tokens({}) = 0
      <4>1. Tokens({}) = Sum({}, Weight)
        BY TokensAreSums
      <4> QED
        BY <4>1, SumEmpty, FS_EmptySet
    <3>2. 0 <= available
      BY <1>1 DEF available
    <3> QED
      BY <1>5, <3>1, <3>2
  <2>5. Len(msgs) \in History
    BY <2>4, TalkIs
  <2>6. c.kept \subseteq History /\ window \subseteq c.kept /\ c.kept # {}
    BY <2>2, <2>3, <2>5
  <2>7. ASSUME c.system + c.notice + Tokens(c.kept) > MaxContextTokens
        PROVE  Cardinality(c.kept) <= 1
    <3>1. CASE window = {}
      <4>1. c.kept = { Len(msgs) }
        BY <2>2, <3>1
      <4>2. Cardinality({ Len(msgs) }) = 1
        BY FS_Singleton
      <4> QED
        BY <4>1, <4>2
    <3>2. CASE window # {} /\ window \subseteq LatestUser
      <4>1. PICK i : window = { i }
        BY <3>2, OneLatestUser
      <4>2. Cardinality({ i }) = 1
        BY FS_Singleton
      <4> QED
        BY <2>2, <3>2, <4>1, <4>2
    <3>3. CASE window # {} /\ Tokens(window) <= budget
      <4>1. c.kept = window /\ c.notice <= NoticeTokens /\ c.notice \in Nat
        BY <1>1, <2>2, <3>3
      <4>2. Tokens(window) \in Nat /\ Tokens(window) # 0
        BY <2>3, <3>3, TokenFacts
      <4>3. system + c.notice + Tokens(window) <= MaxContextTokens
        BY <1>1, <3>3, <4>1, <4>2
      <4> QED
        BY <1>1, <2>2, <2>7, <4>1, <4>2, <4>3
    <3> QED
      BY <2>3, <3>1, <3>2, <3>3
  <2>8. ASSUME NEW i \in History \ c.kept
        PROVE  c.system + NoticeTokens + Tokens(c.kept \cup { i }) > MaxContextTokens
    <3> DEFINE small == window \cup { i }
               large == c.kept \cup { i }
    <3>1. ~ (Tokens(small) <= budget)
      BY <2>3, <2>6
    <3>2. small \in SUBSET large /\ large \in SUBSET History
      BY <2>6
    <3> HIDE DEF small, large
    <3>3. Tokens(small) <= Tokens(large) /\ Tokens(small) \in Nat /\ Tokens(large) \in Nat
      BY <3>2, TokenFacts
    <3>4. system + NoticeTokens + Tokens(large) > MaxContextTokens
      BY <1>1, <3>1, <3>3
    <3> QED
      BY <2>2, <3>4 DEF large
  <2>9. c.notice \in { 0, NoticeTokens } /\ c.system \in Nat
    BY <1>1, <2>2
  <2> QED
    BY <2>3, <2>6, <2>7, <2>8, <2>9
<1> QED
  BY <1>4, <1>5

-----------------------------------------------------------------------------
(* The memories *)

\* Where memories come from: the store, or what it held when they were read.
Stored  == { records[id] : id \in DOMAIN records }
Sources == IF disturbed THEN Records ELSE Stored

DistinctIds(list) == \A i, j \in DOMAIN list : list[i].id = list[j].id => i = j

Memories == { list \in Seq(Sources) : DistinctIds(list) }

LEMMA StoredIs ==
  ASSUME StoreInv
  PROVE  IsFiniteSet(Stored) /\ Stored \subseteq Sources /\ Sources \subseteq Records
<1> DEFINE stored == [ id \in DOMAIN records |-> records[id] ]
<1>1. IsFiniteSet(DOMAIN records) /\ \A id \in DOMAIN records : records[id] \in Records
  BY DEF StoreInv, RecordsById
<1>2. stored \in [ DOMAIN records -> Stored ]
      /\ \A r \in Stored : \E id \in DOMAIN records : stored[id] = r
  BY DEF Stored
<1> HIDE DEF stored
<1>3. stored \in Surjection(DOMAIN records, Stored)
  BY <1>2, Fun_IsSurj
<1>4. IsFiniteSet(Stored)
  BY <1>1, <1>3, FS_Surjection
<1> QED
  BY <1>1, <1>4 DEF Stored, Sources

LEMMA EmptyIsMemories == <<>> \in Memories
<1>1. <<>> \in Seq(Sources)
  OBVIOUS
<1> QED
  BY <1>1 DEF Memories, DistinctIds

LEMMA AppendKeeps ==
  ASSUME NEW list \in Memories, NEW r \in Sources, r.id \notin IdsOf(list)
  PROVE  Append(list, r) \in Memories
<1>1. list \in Seq(Sources) /\ DistinctIds(list)
  BY DEF Memories
<1> DEFINE n == Len(list)
           longer == Append(list, r)
<1>2. /\ n \in Nat /\ DOMAIN list = 1..n /\ DOMAIN longer = 1..(n + 1)
      /\ longer \in Seq(Sources) /\ longer[n + 1] = r
      /\ \A i \in 1..n : longer[i] = list[i]
  BY <1>1
<1>3. \A i \in 1..n : list[i].id # r.id
  BY <1>2 DEF IdsOf
<1> HIDE DEF longer, n
<1>4. ASSUME NEW i \in 1..(n + 1), NEW j \in 1..(n + 1), longer[i].id = longer[j].id
      PROVE  i = j
  <2>1. (i = n + 1 \/ i \in 1..n) /\ (j = n + 1 \/ j \in 1..n)
    BY <1>2
  <2>2. CASE i \in 1..n /\ j \in 1..n
    BY <1>1, <1>2, <1>4, <2>2 DEF DistinctIds
  <2>3. CASE i = n + 1 \/ j = n + 1
    BY <1>2, <1>3, <1>4, <2>1, <2>3
  <2> QED
    BY <2>1, <2>2, <2>3
<1>5. longer \in Memories
  BY <1>2, <1>4 DEF Memories, DistinctIds
<1> QED
  BY <1>5 DEF longer

LEMMA PutKeeps ==
  ASSUME found \in Memories, NEW r \in Sources
  PROVE  Put(r) \in Memories
<1>1. found \in Seq(Sources) /\ DistinctIds(found)
  BY DEF Memories
<1>2. CASE r.id \in FoundIds
  <2> DEFINE list == [ i \in DOMAIN found |-> IF found[i].id = r.id THEN r ELSE found[i] ]
  <2>1. DOMAIN found = 1..Len(found) /\ Len(found) \in Nat
    BY <1>1
  <2>2. list \in Seq(Sources) /\ DOMAIN list = DOMAIN found
    BY <1>1, <2>1
  <2>3. \A i \in DOMAIN list : list[i].id = found[i].id
    OBVIOUS
  <2>4. Put(r) = list
    BY <1>2 DEF Put
  <2> HIDE DEF list
  <2> QED
    BY <1>1, <2>2, <2>3, <2>4 DEF Memories, DistinctIds
<1>3. CASE r.id \notin FoundIds
  <2>1. Put(r) = Append(found, r)
    BY <1>3 DEF Put
  <2> QED
    BY <1>3, <2>1, AppendKeeps DEF FoundIds
<1> QED
  BY <1>2, <1>3

\* What search() returns is in the store.
LEMMA HitsAreStored ==
  ASSUME StoreInv, NEW limit \in Nat, NEW hits \in Search(limit)
  PROVE  hits \in Seq(Sources)
<1> DEFINE matches == { r \in Stored : ~ Expired(r) /\ r.rank < NoMatch }
           n == Cardinality(matches)
<1>1. matches \subseteq Stored /\ Stored \subseteq Sources /\ n \in Nat
  BY StoredIs, FS_Subset, FS_CardinalityType
<1>2. hits \in BestFirst(matches, limit)
  BY DEF Search, Stored
<1> HIDE DEF matches, n
<1>3. PICK q \in [ 1..n -> matches ] :
        hits = SubSeq(q, 1, IF Len(q) < limit THEN Len(q) ELSE limit)
  BY <1>2 DEF BestFirst, n
<1>4. Len(q) = n
  BY <1>1, <1>3
<1> DEFINE last == IF n < limit THEN n ELSE limit
<1>5. last \in Nat /\ last <= n /\ hits = SubSeq(q, 1, last)
  BY <1>1, <1>3, <1>4
<1> HIDE DEF last
<1>6. \A i \in 1..last : q[i] \in Sources
  BY <1>1, <1>3, <1>5
<1>7. 1 \in Int /\ last \in Int
  BY <1>5
<1>8. SubSeq(q, 1, last) \in Seq(Sources)
  BY <1>6, <1>7, SubSeqProperties
<1> QED
  BY <1>5, <1>8

\* The memories after looking at the first n hits.
Fills(fill, hits) ==
  fill = [ n \in 0..Len(hits) |->
             IF n = 0 THEN found
             ELSE IF hits[n].id \notin IdsOf(fill[n - 1]) /\ Len(fill[n - 1]) < MaxMemoryRecords
                  THEN Append(fill[n - 1], hits[n]) ELSE fill[n - 1] ]

LEMMA FillsExist ==
  ASSUME found \in Memories, NEW hits \in Seq(Sources)
  PROVE  \E fill : Fills(fill, hits)
<1> DEFINE n == Len(hits)
           step == [ i \in 1..n |-> [ list \in Memories |->
                       IF hits[i].id \notin IdsOf(list) /\ Len(list) < MaxMemoryRecords
                       THEN Append(list, hits[i]) ELSE list ] ]
<1>1. n \in Nat /\ \A i \in 1..n : hits[i] \in Sources
  OBVIOUS
<1>2. Steps(step, n, Memories)
  <2>1. ASSUME NEW i \in 1..n, NEW list \in Memories
        PROVE  (IF hits[i].id \notin IdsOf(list) /\ Len(list) < MaxMemoryRecords
                THEN Append(list, hits[i]) ELSE list) \in Memories
    BY <1>1, AppendKeeps
  <2> HIDE DEF n
  <2> QED
    BY <2>1 DEF Steps
<1> HIDE DEF n, step
<1>3. PICK f : Iterates(f, n, Memories, found, step)
  BY <1>1, <1>2, Recursion
<1>4. /\ f \in [ 0..n -> Memories ] /\ f[0] = found
      /\ \A i \in 1..n : f[i] = step[i][f[i - 1]]
  BY <1>3 DEF Iterates
<1>5. ASSUME NEW i \in 0..n
      PROVE  f[i] = IF i = 0 THEN found
                    ELSE IF hits[i].id \notin IdsOf(f[i - 1]) /\ Len(f[i - 1]) < MaxMemoryRecords
                         THEN Append(f[i - 1], hits[i]) ELSE f[i - 1]
  <2>1. CASE i = 0
    BY <1>4, <2>1
  <2>2. CASE i # 0
    <3>1. i \in 1..n /\ i - 1 \in 0..n
      BY <1>1, <2>2
    <3>2. f[i - 1] \in Memories /\ f[i] = step[i][f[i - 1]]
      BY <1>4, <3>1
    <3> QED
      BY <2>2, <3>1, <3>2 DEF step
  <2> QED
    BY <2>1, <2>2
<1>6. f = [ i \in 0..n |-> f[i] ]
  BY <1>4
<1>7. Fills(f, hits)
  BY <1>5, <1>6 DEF Fills, n
<1> QED
  BY <1>7

LEMMA RetrievedIs ==
  ASSUME found \in Memories, NEW hits \in Seq(Sources)
  PROVE  Retrieved(hits) \in Memories
<1> DEFINE n == Len(hits)
           fill == CHOOSE fill : Fills(fill, hits)
           Bad  == { k \in 0..n : fill[k] \notin Memories }
<1>1. n \in Nat /\ \A i \in 1..n : hits[i] \in Sources
  OBVIOUS
<1>2. Retrieved(hits) = IF UserMessages = {} THEN found ELSE fill[n]
  BY DEF Retrieved, Fills
<1>3. Fills(fill, hits)
  BY FillsExist
<1> HIDE DEF fill, n
<1>4. fill[0] = found
  BY <1>1, <1>3 DEF Fills, n
<1>5. ASSUME NEW k \in 1..n, fill[k - 1] \in Memories
      PROVE  fill[k] \in Memories
  <2>1. fill[k] = IF hits[k].id \notin IdsOf(fill[k - 1]) /\ Len(fill[k - 1]) < MaxMemoryRecords
                  THEN Append(fill[k - 1], hits[k]) ELSE fill[k - 1]
    <3>1. k \in 0..Len(hits) /\ k # 0
      BY <1>1 DEF n
    <3> QED
      BY <1>3, <3>1 DEF Fills
  <2> QED
    BY <1>1, <1>5, <2>1, AppendKeeps
<1>6. Bad = {}
  <2> SUFFICES ASSUME Bad # {} PROVE FALSE
    OBVIOUS
  <2>1. PICK k \in Bad : \A m \in Bad : k <= m
    <3>1. Bad \in SUBSET Nat
      BY <1>1
    <3> HIDE DEF Bad
    <3> QED
      BY <3>1, LeastElement
  <2>2. k \in 0..n /\ fill[k] \notin Memories
    OBVIOUS
  <2>3. k # 0
    BY <1>4, <2>2
  <2>4. k \in 1..n /\ k - 1 \in 0..n /\ k - 1 \notin Bad
    BY <1>1, <2>1, <2>2, <2>3
  <2>5. fill[k - 1] \in Memories
    BY <2>4
  <2> QED
    BY <1>5, <2>2, <2>4, <2>5
<1>7. fill[n] \in Memories
  BY <1>1, <1>6
<1> QED
  BY <1>2, <1>7

-----------------------------------------------------------------------------
(* The inductive invariant of the builder *)

\* What build() promises of a context c.  Weight and Sum stand for Tokens.
Promise(c) ==
  /\ c.system \in Nat /\ c.notice \in { 0, NoticeTokens } /\ c.kept \subseteq History
  /\ LatestUser \subseteq c.kept /\ (History # {} => c.kept # {})
  /\ c.system + c.notice + Sum(c.kept, Weight) > MaxContextTokens =>
       Cardinality(c.kept) <= 1
  /\ \A i \in History \ c.kept :
       c.system + NoticeTokens + Sum(c.kept \cup { i }, Weight) > MaxContextTokens

LEMMA PromiseKept ==
  ASSUME Talk, NEW mem \in Seq(Records)
  PROVE  Promise(Context(mem))
<1> DEFINE c == Context(mem)
<1>1. /\ c.system \in Nat /\ c.notice \in { 0, NoticeTokens } /\ c.kept \subseteq History
      /\ LatestUser \subseteq c.kept /\ (History # {} => c.kept # {})
      /\ c.system + c.notice + Tokens(c.kept) > MaxContextTokens => Cardinality(c.kept) <= 1
      /\ \A i \in History \ c.kept :
           c.system + NoticeTokens + Tokens(c.kept \cup { i }) > MaxContextTokens
  BY ContextIs
<1> HIDE DEF c
<1>2. Tokens(c.kept) = Sum(c.kept, Weight)
  BY <1>1, TalkIs, TokensAreSums
<1>3. \A i \in History \ c.kept : Tokens(c.kept \cup { i }) = Sum(c.kept \cup { i }, Weight)
  BY <1>1, TalkIs, TokensAreSums
<1>4. Promise(c)
  BY <1>1, <1>2, <1>3 DEF Promise
<1> QED
  BY <1>4 DEF c

\* While build() runs the memories found so far have distinct ids and come from
\* the store; when it has run the context is as promised.
Typed ==
  /\ pc \in { "idle", "refs", "built" } /\ writes \in 0..MaxWrites
  /\ Talk /\ refs \in Seq(Ids)

Finding == found \in Memories /\ (pc = "idle" => found = <<>>)

Building ==
  /\ pc # "built" => built = [ system |-> 0, notice |-> 0, kept |-> {} ]
  /\ pc = "built" => Promise(built)

BuilderInv == StoreInv /\ Typed /\ Finding /\ Building

LEMMA TypedStep ==
  ASSUME BuilderInv, [Next]_vars
  PROVE  Typed'
<1>1. Typed
  BY DEF BuilderInv
<1>2. CASE Build
  BY <1>1, <1>2, ContextAssumption DEF Build, Typed, Talk
<1>3. CASE LookUp
  <2>1. Tail(refs) \in Seq(Ids)
    BY <1>1, <1>3 DEF LookUp, Typed
  <2> QED
    BY <1>1, <1>3, <2>1 DEF LookUp, Typed, Talk
<1>4. CASE Compose
  BY <1>1, <1>4 DEF Compose, Typed, Talk
<1>5. CASE Others
  BY <1>1, <1>5, Bounds DEF Others, Typed, Talk
<1>6. CASE UNCHANGED vars
  BY <1>1, <1>6 DEF vars, Typed, Talk
<1> QED
  BY <1>2, <1>3, <1>4, <1>5, <1>6 DEF Next

\* A change of the store leaves the memories found what a store once held.
LEMMA FindingStep ==
  ASSUME BuilderInv, [Next]_vars
  PROVE  Finding'
<1>1. StoreInv /\ Typed /\ Finding
  BY DEF BuilderInv
<1>2. CASE Build
  <2>1. found' = <<>> /\ <<>> \in Memories'
    BY <1>1, <1>2, EmptyIsMemories DEF Build, Finding, Memories, Sources, Stored, DistinctIds
  <2> QED
    BY <1>2, <2>1 DEF Build, Finding
<1>3. CASE LookUp
  <2>1. Memories' = Memories
    BY <1>3 DEF LookUp, Memories, Sources, Stored, DistinctIds
  <2>2. found' \in Memories
    <3>1. CASE Get(Head(refs)) = NoRecord
      BY <1>1, <1>3, <3>1 DEF LookUp, Finding
    <3>2. CASE Get(Head(refs)) # NoRecord
      <4>1. Get(Head(refs)) \in Stored
        BY <1>1, <3>2, GetIs DEF Stored
      <4>2. Get(Head(refs)) \in Sources
        BY <1>1, <4>1, StoredIs
      <4> QED
        BY <1>1, <1>3, <3>2, <4>2, PutKeeps DEF LookUp, Finding
    <3> QED
      BY <3>1, <3>2
  <2> QED
    BY <1>3, <2>1, <2>2 DEF LookUp, Finding
<1>4. CASE Compose
  <2>1. Memories' = Memories
    BY <1>4 DEF Compose, Memories, Sources, Stored, DistinctIds
  <2>2. PICK hits \in Search(MaxMemoryRecords) : found' = Retrieved(hits)
    BY <1>4 DEF Compose
  <2>3. found' \in Memories
    BY <1>1, <2>2, HitsAreStored, RetrievedIs, Bounds DEF Finding
  <2> QED
    BY <1>4, <2>1, <2>3 DEF Compose, Finding
<1>5. CASE Others
  <2>1. found' = found /\ pc' = pc
    BY <1>5 DEF Others
  <2>2. CASE Tick /\ UNCHANGED disturbed
    <3>1. Memories' = Memories
      BY <2>2 DEF Tick, Memories, Sources, Stored, DistinctIds
    <3> QED
      BY <1>1, <2>1, <3>1 DEF Finding
  <2>3. CASE disturbed'
    <3>1. Sources \subseteq Records /\ Sources' = Records
      BY <1>1, <2>3, StoredIs DEF Sources
    <3>2. found \in Seq(Sources) /\ DistinctIds(found)
      BY <1>1 DEF Finding, Memories
    <3>3. found \in Seq(Records)
      BY <3>1, <3>2
    <3>4. found' \in Seq(Sources') /\ DistinctIds(found)'
      BY <2>1, <3>1, <3>2, <3>3 DEF DistinctIds
    <3>5. (found \in Memories)'
      BY <3>4 DEF Memories
    <3> QED
      BY <1>1, <2>1, <3>5 DEF Finding
  <2> QED
    BY <1>5, <2>2, <2>3 DEF Others
<1>6. CASE UNCHANGED vars
  <2>1. Memories' = Memories
    BY <1>6 DEF vars, Memories, Sources, Stored, DistinctIds
  <2> QED
    BY <1>1, <1>6, <2>1 DEF vars, Finding
<1> QED
  BY <1>2, <1>3, <1>4, <1>5, <1>6 DEF Next

LEMMA PromiseStays ==
  ASSUME UNCHANGED << msgs, built >>, Promise(built)
  PROVE  Promise(built)'
<1>1. Weight' = Weight /\ History' = History /\ LatestUser' = LatestUser
  BY DEF Weight, History, HasSystem, LatestUser, UserMessages
<1> QED
  BY <1>1 DEF Promise

LEMMA BuildingStep ==
  ASSUME BuilderInv, [Next]_vars
  PROVE  Building'
<1>1. StoreInv /\ Typed /\ Finding /\ Building
  BY DEF BuilderInv
<1>2. CASE Compose
  <2>1. PICK hits \in Search(MaxMemoryRecords) : built' = Context(Retrieved(hits))
    BY <1>2 DEF Compose
  <2>2. Retrieved(hits) \in Seq(Sources) /\ Sources \subseteq Records
    BY <1>1, HitsAreStored, RetrievedIs, StoredIs, Bounds DEF Finding, Memories
  <2>3. Retrieved(hits) \in Seq(Records)
    BY <2>2
  <2>4. Promise(built')
    BY <1>1, <2>1, <2>3, PromiseKept DEF Typed
  <2>5. Weight' = Weight /\ History' = History /\ LatestUser' = LatestUser
    BY <1>2 DEF Compose, Weight, History, HasSystem, LatestUser, UserMessages
  <2>6. Promise(built)'
    BY <2>4, <2>5 DEF Promise
  <2> QED
    BY <1>2, <2>6 DEF Compose, Building
<1>3. CASE Build
  BY <1>1, <1>3 DEF Build, Building
<1>4. CASE LookUp
  BY <1>1, <1>4 DEF LookUp, Building
<1>5. CASE Others
  BY <1>1, <1>5 DEF Others, Building
<1>6. CASE UNCHANGED vars
  <2>1. pc' = pc /\ built' = built /\ msgs' = msgs
    BY <1>6 DEF vars
  <2> QED
    BY <1>1, <2>1, PromiseStays DEF Building
<1> QED
  BY <1>2, <1>3, <1>4, <1>5, <1>6 DEF Next

LEMMA BuilderInvariant == Spec => []BuilderInv
<1>1. Init => BuilderInv
  <2> SUFFICES ASSUME Init PROVE BuilderInv
    OBVIOUS
  <2>1. Typed
    <3>1. <<>> \in Seq(Ids)
      OBVIOUS
    <3> QED
      BY <3>1, Bounds DEF Init, Typed, Talk
  <2>2. Finding /\ Building /\ StoreInv
    BY EmptyIsMemories, StoreInvInit DEF Init, Finding, Building
  <2> QED
    BY <2>1, <2>2 DEF BuilderInv
<1>2. BuilderInv /\ [Next]_vars => BuilderInv'
  <2> SUFFICES ASSUME BuilderInv, [Next]_vars PROVE BuilderInv'
    OBVIOUS
  <2>1. Change \/ Tick \/ UNCHANGED << records, index, now >>
    BY DEF Next, Build, LookUp, Compose, Others, vars
  <2>2. StoreInv'
    BY <2>1, StoreInvStep DEF BuilderInv
  <2> QED
    BY <2>2, TypedStep, FindingStep, BuildingStep DEF BuilderInv
<1> QED
  BY <1>1, <1>2, PTL DEF Spec

-----------------------------------------------------------------------------
(* What a context holds *)

\* Every variable stays in its domain, and a context holds only messages of the
\* conversation, whatever the conversation, the references and the store.
THEOREM BuilderTypes == Spec => []TypeOK
<1>1. ASSUME BuilderInv PROVE TypeOK
  <2>1. StoreInv /\ Typed /\ Finding /\ Building
    BY <1>1 DEF BuilderInv
  <2>2. /\ DOMAIN records \subseteq Ids
        /\ \A id \in DOMAIN records : records[id] \in Records /\ records[id].id = id
        /\ DOMAIN index \subseteq Slots /\ now \in 0..MaxTime
        /\ \A s \in DOMAIN index : index[s] \in Ids
    BY <2>1 DEF StoreInv, RecordsById, IndexLeadsBack
  <2>3. found \in Seq(Sources) /\ Sources \subseteq Records
    BY <2>1, StoredIs DEF Finding, Memories
  <2>4. found \in Seq(Records)
    BY <2>3
  <2>5. built.system \in Nat /\ built.notice \in { 0, NoticeTokens } /\ built.kept \subseteq History
    BY <2>1 DEF Building, Promise
  <2> QED
    BY <2>1, <2>2, <2>4, <2>5 DEF TypeOK, Typed, Talk
<1> QED
  BY <1>1, BuilderInvariant, PTL

\* However tight the budget, the context has the newest user message, and
\* something of the conversation.
THEOREM QuestionIsKept == Spec => []LatestUserKept
<1>1. BuilderInv => LatestUserKept
  BY DEF BuilderInv, Building, Promise, LatestUserKept
<1> QED
  BY <1>1, BuilderInvariant, PTL

LEMMA BuiltTokens ==
  ASSUME BuilderInv, pc = "built"
  PROVE  /\ Promise(built) /\ Tokens(built.kept) = Sum(built.kept, Weight)
         /\ \A i \in History : Tokens(built.kept \cup { i }) = Sum(built.kept \cup { i }, Weight)
<1>1. Promise(built) /\ built.kept \subseteq History /\ History \subseteq DOMAIN msgs
  BY TalkIs DEF BuilderInv, Typed, Building, Promise
<1> QED
  BY <1>1, TokensAreSums

\* A context exceeds the budget only with a single message.
THEOREM BudgetIsKept == Spec => []OverBudgetOnlyByMandatory
<1>1. BuilderInv => OverBudgetOnlyByMandatory
  BY BuiltTokens DEF Promise, OverBudgetOnlyByMandatory, Total
<1> QED
  BY <1>1, BuilderInvariant, PTL

\* A message is left out only if there was no room for it.
THEOREM WindowIsMaximal == Spec => []NoNeedlessDrop
<1>1. BuilderInv => NoNeedlessDrop
  BY BuiltTokens DEF Promise, NoNeedlessDrop
<1> QED
  BY <1>1, BuilderInvariant, PTL

LEMMA DistinctCount ==
  ASSUME NEW n \in Nat, NEW T, NEW f \in [ 1..n -> T ],
         \A i, j \in 1..n : f[i] = f[j] => i = j,
         \A t \in T : \E i \in 1..n : f[i] = t
  PROVE  Cardinality(T) = n
<1>1. f \in Injection(1..n, T) /\ f \in Surjection(1..n, T)
  BY Fun_IsInj, Fun_IsSurj
<1>2. ExistsBijection(1..n, T)
  BY <1>1 DEF ExistsBijection, Bijection
<1>3. IsFiniteSet(1..n) /\ Cardinality(1..n) = n
  BY FS_Interval
<1> QED
  BY <1>2, <1>3, FS_Bijection

\* The memories of a context have distinct ids, and distinct slots unless the
\* store changed under the look-ups.
THEOREM MemoriesAreFresh == Spec => []MemoriesFresh
<1>1. ASSUME BuilderInv PROVE MemoriesFresh
  <2> DEFINE n == Len(found)
             id == [ i \in 1..n |-> found[i].id ]
             slot == [ i \in 1..n |-> found[i].slot ]
             slots == { found[i].slot : i \in DOMAIN found }
  <2>1. StoreInv /\ found \in Seq(Sources) /\ DistinctIds(found)
    BY <1>1 DEF BuilderInv, Finding, Memories
  <2>2. n \in Nat /\ DOMAIN found = 1..n /\ \A i \in 1..n : found[i] \in Sources
    BY <2>1
  <2>3. Cardinality(FoundIds) = n
    <3>1. id \in [ 1..n -> FoundIds ] /\ \A t \in FoundIds : \E i \in 1..n : id[i] = t
      BY <2>2 DEF FoundIds, IdsOf
    <3>2. \A i, j \in 1..n : id[i] = id[j] => i = j
      BY <2>1, <2>2 DEF DistinctIds
    <3> HIDE DEF id, n
    <3> QED
      BY <2>2, <3>1, <3>2, DistinctCount
  <2>4. ASSUME ~ disturbed PROVE Cardinality(slots) = n
    <3>1. slot \in [ 1..n -> slots ] /\ \A t \in slots : \E i \in 1..n : slot[i] = t
      BY <2>2
    <3>2. ASSUME NEW i \in 1..n, NEW j \in 1..n, slot[i] = slot[j] PROVE i = j
      <4>1. found[i] \in Stored /\ found[j] \in Stored /\ found[i].slot = found[j].slot
        BY <2>2, <2>4, <3>2 DEF Sources
      <4>2. found[i].id = found[j].id
        BY <2>1, <4>1 DEF Stored, StoreInv, RecordsById, IndexLeadsBack
      <4> QED
        BY <2>1, <2>2, <4>2 DEF DistinctIds
    <3> HIDE DEF slot, slots, n
    <3> QED
      BY <2>2, <3>1, <3>2, DistinctCount
  <2> QED
    BY <2>3, <2>4 DEF MemoriesFresh
<1> QED
  BY <1>1, BuilderInvariant, PTL
=============================================================================
