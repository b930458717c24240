---------------------------- MODULE InMemoryStore ----------------------------
(***************************************************************************)
(* InMemoryMemoryStore of memory/store.py: the records by id, and an index *)
(* from slots to ids that write and delete keep beside them.  One lock     *)
(* makes every method a single step.                                       *)
(***************************************************************************)
EXTENDS MemoryRecords

VARIABLES
  records,  \* _records
  index,    \* _key_scope_index
  now       \* the wall clock

Store == INSTANCE MemoryStore
           WITH kept <- { records[id] : id \in DOMAIN records }

Expired(r) == IsExpired(r, now)

\* d.pop(x, None) and d[x] = v
Popped(d, x)    == [ y \in DOMAIN d \ {x} |-> d[y] ]
Assigned(d, x, v) == [ y \in DOMAIN d \cup {x} |-> IF y = x THEN v ELSE d[y] ]

-----------------------------------------------------------------------------
(* Queries *)

Get(id) ==
  IF id \in DOMAIN records /\ ~ Expired(records[id]) THEN records[id] ELSE NoRecord

Read(slot) ==
  IF slot \in DOMAIN index THEN Get(index[slot]) ELSE NoRecord

Count == Cardinality({ id \in DOMAIN records : ~ Expired(records[id]) })

\* The lists search() may return.
Search(limit) ==
  BestFirst({ r \in { records[id] : id \in DOMAIN records } :
                ~ Expired(r) /\ r.rank < NoMatch }, limit)

-----------------------------------------------------------------------------
(* Methods that change the store *)

\* What is left of the records once the holder of the slot of r is gone.
WithoutHolder(r) ==
  IF r.slot \in DOMAIN index /\ index[r.slot] # r.id
  THEN Popped(records, index[r.slot]) ELSE records

\* Seeded fault: the record is stored under the id its slot had.
WriteInPlace(r) ==
  LET id == IF r.slot \in DOMAIN index THEN index[r.slot] ELSE r.id
  IN records' = Assigned(records, id, r) /\ index' = Assigned(index, r.slot, id)

\* Seeded fault: the slot an id moves away from keeps its index entry.
WriteLeavingOldSlot(r) ==
  /\ records' = Assigned(WithoutHolder(r), r.id, r)
  /\ index' = Assigned(index, r.slot, r.id)

\* The holder of the slot goes, and the slot the id had before is freed.
Write(r) ==
  LET moves == r.id \in DOMAIN records /\ records[r.id].slot # r.slot
  IN /\ records' = Assigned(WithoutHolder(r), r.id, r)
     /\ index' = Assigned(IF moves THEN Popped(index, records[r.id].slot) ELSE index,
                          r.slot, r.id)

\* What delete() leaves of the index when it takes the ids in `gone` away.
IndexWithout(gone) ==
  [ s \in { t \in DOMAIN index :
              ~ \E id \in gone \cap DOMAIN records :
                  records[id].slot = t /\ index[t] = id } |-> index[s] ]

Delete(gone) ==
  /\ records' = [ id \in DOMAIN records \ gone |-> records[id] ]
  /\ index' = IndexWithout(gone)

\* Seeded fault: a record is dropped one tick before it expires.
ExpiredIdsEarly == { id \in DOMAIN records : records[id].expires <= now + 1 }

ExpiredIds == { id \in DOMAIN records : Expired(records[id]) }

CleanupExpired == Delete(ExpiredIds)

-----------------------------------------------------------------------------
StoreInit == records = << >> /\ index = << >> /\ now = 0

Change == /\ \/ \E r \in Records : Write(r)
             \/ \E id \in Ids : Delete({ id })
             \/ CleanupExpired
          /\ UNCHANGED now

Tick == now < MaxTime /\ now' = now + 1 /\ UNCHANGED << records, index >>

-----------------------------------------------------------------------------
(* Properties *)

\* read(), get() and count() tell one story (lines 60-77, 145-148): a live
\* record is found under its slot exactly when it is found under its id, so the
\* index never hides one, and there are as many as there are slots read.
ReadsAgree ==
  /\ \A id \in Ids : Get(id) # NoRecord => Read(Get(id).slot) = Get(id)
  /\ \A s \in Slots : Read(s) # NoRecord => Read(s).slot = s
  /\ Count = Cardinality({ s \in Slots : Read(s) # NoRecord })

\* Whatever ids and slots clients reuse, the store is the map the protocol
\* describes: a write replaces what shares its id or slot and nothing else,
\* delete and cleanup_expired take away only what they should.
StoreSpec == Store!Spec
=============================================================================
