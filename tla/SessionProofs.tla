---------------------------- MODULE SessionProofs ----------------------------
(***************************************************************************)
(* Proofs about Session and the SQLiteStore under it, for any number of    *)
(* processes, turns and records, with failing statements, crashes and a    *)
(* clock.  First the store: what its transactions hold and when.  Then the *)
(* turns that use it.                                                      *)
(***************************************************************************)
EXTENDS Session, FiniteSetTheorems, FunctionTheorems, SequenceTheorems, TLAPS

-----------------------------------------------------------------------------
(* The inductive invariant of the store *)

WriteOp   == [ kind : { "write" }, step : { "change", "insert", "commit" },
               record : Records ]
DeleteOp  == [ kind : { "delete" }, step : { "change", "commit" }, id : Ids ]
CleanupOp == [ kind : { "cleanup" }, step : { "count", "change", "commit" },
               at : 0..MaxTime ]
SaveOp    == [ kind : { "save" }, step : { "change", "commit" }, state : Seq(Turns) ]
Operation == WriteOp \cup DeleteOp \cup CleanupOp \cup SaveOp \cup { NoOp }

Txn == [ open : BOOLEAN, db : Database ]

Typed ==
  /\ disk \in Database /\ txn \in [ Procs -> Txn ] /\ op \in [ Procs -> Operation ]
  /\ dirty \in [ Procs -> BOOLEAN ] /\ now \in 0..MaxTime /\ ops \in 0..MaxOps

\* Finitely many rows, unique by id and by slot.
TableOK(rows) == IsFiniteSet(rows) /\ Distinct(rows)

Tables == TableOK(disk.rows) /\ \A p \in Procs : TableOK(txn[p].db.rows)

OneWriter == \A p, q \in Procs : txn[p].open /\ txn[q].open => p = q

\* A connection holds a transaction exactly while an operation is between its
\* first statement and its commit, unless one has failed.
Holding(p) == op[p].step \in { "insert", "commit" }

Holds ==
  \A p \in Procs : /\ Holding(p) => txn[p].open
                   /\ txn[p].open /\ ~ dirty[p] => Holding(p)

\* What the statements an operation has executed make of the rows.
Effect(o, rows) ==
  CASE o.kind = "write" /\ o.step = "insert" -> rows \ Replaced(o.record)
    [] o.kind = "write" /\ o.step = "commit" -> (rows \ Replaced(o.record)) \cup { o.record }
    [] o.kind = "delete"  -> { k \in rows : k.id # o.id }
    [] o.kind = "cleanup" -> { k \in rows : ~ IsoLeq(k, o.at) }
    [] o.kind = "save"    -> rows

\* A transaction in which nothing has failed is one operation of the protocol
\* applied to the file as it still is.
Whole ==
  \A p \in Procs : Holding(p) /\ ~ dirty[p] =>
    txn[p].db.rows = Effect(op[p], disk.rows)

RoomToInsert == \A p \in Procs : ~ (At(p, "write", "insert") /\ Conflict(p))

CleanupClock == \A p \in Procs : op[p].kind = "cleanup" => op[p].at <= now

StoreInv == /\ Typed /\ Tables /\ OneWriter /\ Holds /\ Whole /\ RoomToInsert
            /\ CleanupClock

-----------------------------------------------------------------------------
(* The inductive invariant of the sessions *)

Events == { "load", "save" } \X Turns

Turn == [ pc : { "idle", "running", "saving", "saved", "closing" },
          id : Turns \cup { 0 }, base : Seq(Turns) ]

SessionTyped ==
  /\ turn \in [ Procs -> Turn ]
  /\ \A p \in Procs : turn[p].pc # "idle" => turn[p].id \in Turns
  /\ log \in Seq(Events) /\ shown \subseteq Turns

Saved == { log[k][2] : k \in { j \in DOMAIN log : log[j][1] = "save" } }

\* A save is in progress exactly while a turn is saving.
Saving == \A p \in Procs : turn[p].pc = "saving" <=> op[p].kind = "save"

\* What an operation of a process belongs to, and what its transaction holds of
\* the session.
Tied(p) ==
  /\ turn[p].pc \in { "running", "saved", "closing" } => op[p] = NoOp
  /\ turn[p].pc = "saving" => op[p].state = Append(turn[p].base, turn[p].id)
  /\ turn[p].pc = "saving" /\ op[p].step = "commit" => txn[p].db.state = op[p].state
  /\ turn[p].pc = "running" \/ (turn[p].pc = "saving" /\ op[p].step = "change")
       => ~ txn[p].open
  /\ turn[p].pc = "idle" /\ txn[p].open => txn[p].db.state = disk.state

TurnAndOp == \A p \in Procs : Tied(p)

\* Turns are taken from the first on.
TakenInOrder == \A t \in Taken, u \in Turns : u < t => u \in Taken

\* Turns in the order they were taken, each saved.
IsHistory(q, saved) ==
  /\ \A i, j \in DOMAIN q : i < j => q[i] < q[j]
  /\ \A i \in DOMAIN q : q[i] \in saved

In(t, q) == \E i \in DOMAIN q : q[i] = t

\* A turn had loaded its State when t was saved, and was saved after that.
Lost(t, events) ==
  \E u \in Turns : \E i, j, k \in DOMAIN events :
    /\ i < j /\ j < k
    /\ events[i] = << "load", u >>
    /\ events[j] = << "save", t >>
    /\ events[k] = << "save", u >>

InTurn(p) == turn[p].pc \in { "running", "saving" }

\* A turn adds to a history of older turns, and of what was saved before it
\* loaded, that history misses only what had been lost already.
KeptAtLoad(id, base, events) ==
  \E i \in DOMAIN events :
    /\ events[i] = << "load", id >>
    /\ \A j \in 1..(i - 1) : events[j][1] = "save" =>
         In(events[j][2], base) \/ Lost(events[j][2], events)

Bases ==
  \A p \in Procs : InTurn(p) =>
    /\ IsHistory(turn[p].base, Saved)
    /\ turn[p].id \in Taken
    /\ \A i \in DOMAIN turn[p].base : turn[p].base[i] < turn[p].id
    /\ KeptAtLoad(turn[p].id, turn[p].base, log)

SavedKept == \A t \in Saved : In(t, disk.state) \/ Lost(t, log)

ShownSaved ==
  /\ shown \subseteq Saved
  /\ \A p \in Procs : turn[p].pc = "saved" => turn[p].id \in Saved

History == /\ TakenInOrder /\ Bases /\ IsHistory(disk.state, Saved)
           /\ SavedKept /\ ShownSaved

Ground == StoreInv /\ SessionTyped /\ Saving

IInv == Ground /\ TurnAndOp /\ History

-----------------------------------------------------------------------------
(* Operations, views and tables *)

LEMMA OperationKinds ==
  ASSUME NEW o \in Operation
  PROVE  /\ o.kind = "write"   => o \in WriteOp
         /\ o.kind = "delete"  => o \in DeleteOp
         /\ o.kind = "cleanup" => o \in CleanupOp
         /\ o.kind = "save"    => o \in SaveOp
         /\ o.kind = "none"    => o = NoOp
         /\ o.kind \in { "write", "delete", "cleanup", "save", "none" }
         /\ o.step \in { "none", "change", "insert", "count", "commit" }
  BY DEF Operation, WriteOp, DeleteOp, CleanupOp, SaveOp, NoOp

LEMMA EmptyOK == Empty \in Database /\ TableOK(Empty.rows)
<1>1. IsFiniteSet({})
  BY FS_EmptySet
<1>2. Empty.rows = {} /\ Empty.state = <<>>
  BY DEF Empty
<1>3. Empty \in Database
  BY DEF Empty, Database
<1> QED
  BY <1>1, <1>2, <1>3 DEF TableOK, Distinct

\* What a connection sees is a database in order.
LEMMA ViewOK ==
  ASSUME Typed, Tables, NEW p \in Procs
  PROVE  /\ View(p) \in Database /\ TableOK(View(p).rows)
         /\ View(p).rows \subseteq Records /\ View(p).state \in Seq(Turns)
<1>1. View(p) \in Database /\ TableOK(View(p).rows)
  BY DEF Typed, Tables, View, Txn
<1> QED
  BY <1>1 DEF Database, Row

LEMMA SmallerTable ==
  ASSUME NEW rows, TableOK(rows), NEW part \in SUBSET rows
  PROVE  TableOK(part)
  BY FS_Subset DEF TableOK, Distinct

LEMMA LargerTable ==
  ASSUME NEW rows, TableOK(rows), NEW r,
         \A k \in rows : k.id # r.id /\ k.slot # r.slot
  PROVE  TableOK(rows \cup { r })
  BY FS_AddElement DEF TableOK, Distinct

LEMMA DatabaseRows ==
  ASSUME NEW db \in Database, NEW rows \in SUBSET Records
  PROVE  /\ [db EXCEPT !.rows = rows] \in Database
         /\ [db EXCEPT !.rows = rows].rows = rows
         /\ [db EXCEPT !.rows = rows].state = db.state
  BY DEF Database, Row

LEMMA DatabaseState ==
  ASSUME NEW db \in Database, NEW q \in Seq(Turns)
  PROVE  /\ [db EXCEPT !.state = q] \in Database
         /\ [db EXCEPT !.state = q].rows = db.rows
         /\ [db EXCEPT !.state = q].state = q
  BY DEF Database

LEMMA NoTxnOK == NoTxn \in Txn /\ NoTxn.open = FALSE /\ NoTxn.db = Empty
  BY EmptyOK DEF NoTxn, Txn

LEMMA NoOpOK == NoOp \in Operation /\ NoOp.kind = "none" /\ NoOp.step = "none"
  BY DEF NoOp, Operation

\* Initially nothing is stored and nothing goes on.
LEMMA StoreInvInit == StoreInit => StoreInv
<1> SUFFICES ASSUME StoreInit PROVE StoreInv
  OBVIOUS
<1>1. Typed
  BY EmptyOK, NoTxnOK, NoOpOK, MemoryAssumption, StoreAssumption DEF StoreInit, Typed
<1>2. disk = Empty /\ now = 0
  BY DEF StoreInit
<1>3. \A p \in Procs : txn[p] = NoTxn /\ op[p] = NoOp
  BY DEF StoreInit
<1>4. Tables
  BY <1>2, <1>3, EmptyOK, NoTxnOK DEF Tables
<1>5. OneWriter
  BY <1>3, NoTxnOK DEF OneWriter
<1>6. Holds /\ Whole
  BY <1>3, NoTxnOK, NoOpOK DEF Holds, Holding, Whole
<1>7. RoomToInsert /\ CleanupClock
  BY <1>3, NoOpOK DEF RoomToInsert, At, CleanupClock
<1> QED
  BY <1>1, <1>4, <1>5, <1>6, <1>7 DEF StoreInv

-----------------------------------------------------------------------------
(* Statements *)

\* A transaction that nothing has failed in is open, if at all, between the
\* first statement and the commit: before that the connection sees the file.
LEMMA ViewIsDisk ==
  ASSUME Holds, NEW p \in Procs, ~ Holding(p), ~ dirty[p]
  PROVE  ~ txn[p].open /\ View(p) = disk
  BY DEF Holds, View

\* What a statement has to show of the view it leaves.
LEMMA ExecuteStep ==
  ASSUME StoreInv, NEW p \in Procs, NEW db \in Database,
         NEW step \in { "insert", "commit" }, Execute(p, db, step), TableOK(db.rows),
         [op[p] EXCEPT !.step = step] \in Operation,
         op[p].kind = "write" /\ step = "insert" =>
           \A k \in db.rows : k.id # op[p].record.id /\ k.slot # op[p].record.slot,
         ~ dirty[p] => db.rows = Effect([op[p] EXCEPT !.step = step], disk.rows)
  PROVE  StoreInv'
<1> DEFINE o == [op[p] EXCEPT !.step = step]
           t == [ open |-> TRUE, db |-> db ]
<1>1. /\ Typed /\ Tables /\ OneWriter /\ Holds /\ Whole /\ RoomToInsert /\ CleanupClock
  BY DEF StoreInv
<1>2. /\ disk' = disk /\ dirty' = dirty /\ now' = now /\ ops' = ops
      /\ txn' = [txn EXCEPT ![p] = t] /\ NobodyElse(p)
  BY DEF Execute, Frame
<1>3. op' = [op EXCEPT ![p] = o]
  BY DEF Execute
<1>4. o \in Operation /\ o.kind = op[p].kind /\ o.step = step
      /\ o.record = op[p].record /\ o.at = op[p].at
  <2>1. op[p] \in Operation
    BY <1>1 DEF Typed
  <2> QED
    BY <2>1 DEF Operation, WriteOp, DeleteOp, CleanupOp, SaveOp, NoOp
<1>5. t \in Txn /\ t.open = TRUE /\ t.db = db
  BY DEF Txn
<1> HIDE DEF o, t
<1>6. txn'[p] = t /\ op'[p] = o
  BY <1>1, <1>2, <1>3 DEF Typed
<1>7. \A q \in Procs \ { p } : txn'[q] = txn[q] /\ op'[q] = op[q] /\ ~ txn[q].open
  BY <1>1, <1>2, <1>3 DEF Typed, NobodyElse
<1>8. Typed'
  BY <1>1, <1>2, <1>3, <1>4, <1>5 DEF Typed
<1>9. Tables'
  BY <1>1, <1>2, <1>5, <1>6, <1>7 DEF Tables
<1>10. OneWriter'
  BY <1>7 DEF OneWriter
<1>11. Holds'
  BY <1>1, <1>2, <1>4, <1>5, <1>6, <1>7 DEF Holds, Holding
<1>12. Whole'
  <2>1. dirty'[p] = FALSE => (txn[p].db.rows)' = Effect(op[p], disk.rows)'
    BY <1>2, <1>5, <1>6 DEF o
  <2>2. \A q \in Procs \ { p } : ~ Holding(q)'
    BY <1>1, <1>7 DEF Holds, Holding
  <2> QED
    BY <2>1, <2>2, <1>1, <1>2 DEF Whole, Typed
<1>13. RoomToInsert'
  <2>1. ASSUME At(p, "write", "insert")' PROVE ~ Conflict(p)'
    <3>1. View(p)' = db
      BY <1>5, <1>6 DEF View
    <3> QED
      BY <2>1, <3>1, <1>4, <1>6 DEF At, Conflict
  <2>2. \A q \in Procs \ { p } : View(q)' = View(q)
    BY <1>2, <1>7 DEF View
  <2> QED
    BY <2>1, <2>2, <1>1, <1>7 DEF RoomToInsert, At, Conflict
<1>14. CleanupClock'
  BY <1>1, <1>2, <1>4, <1>6, <1>7 DEF CleanupClock
<1> QED
  BY <1>8, <1>9, <1>10, <1>11, <1>12, <1>13, <1>14 DEF StoreInv

LEMMA EffectOf ==
  ASSUME NEW rows, NEW o
  PROVE  /\ o.kind = "write" /\ o.step = "insert" =>
              Effect(o, rows) = rows \ Replaced(o.record)
         /\ o.kind = "write" /\ o.step = "commit" =>
              Effect(o, rows) = (rows \ Replaced(o.record)) \cup { o.record }
         /\ o.kind = "delete" => Effect(o, rows) = { k \in rows : k.id # o.id }
         /\ o.kind = "cleanup" => Effect(o, rows) = { k \in rows : ~ IsoLeq(k, o.at) }
         /\ o.kind = "save" => Effect(o, rows) = rows
  BY DEF Effect

LEMMA Advanced ==
  ASSUME NEW o \in Operation, NEW step
  PROVE  /\ o.kind = "write" /\ step \in { "insert", "commit" } =>
              [o EXCEPT !.step = step] \in Operation
         /\ o.kind \in { "delete", "cleanup", "save" } /\ step = "commit" =>
              [o EXCEPT !.step = step] \in Operation
         /\ o.kind = "cleanup" /\ step = "change" =>
              [o EXCEPT !.step = step] \in Operation
         /\ o.kind # "none" =>
              /\ [o EXCEPT !.step = step].kind = o.kind
              /\ [o EXCEPT !.step = step].step = step
              /\ o.kind = "write" => [o EXCEPT !.step = step].record = o.record
              /\ o.kind = "delete" => [o EXCEPT !.step = step].id = o.id
              /\ o.kind = "cleanup" => [o EXCEPT !.step = step].at = o.at
<1>1. CASE o \in WriteOp
  BY <1>1 DEF WriteOp, Operation
<1>2. CASE o \in DeleteOp
  BY <1>2 DEF DeleteOp, Operation
<1>3. CASE o \in CleanupOp
  BY <1>3 DEF CleanupOp, Operation
<1>4. CASE o \in SaveOp
  BY <1>4 DEF SaveOp, Operation
<1>5. CASE o = NoOp
  BY <1>5 DEF NoOp
<1> QED
  BY <1>1, <1>2, <1>3, <1>4, <1>5 DEF Operation

LEMMA WriteDeleteStep ==
  ASSUME StoreInv, NEW p \in Procs, WriteDelete(p)
  PROVE  StoreInv'
<1> DEFINE rows == View(p).rows \ Replaced(op[p].record)
           db   == [View(p) EXCEPT !.rows = rows]
           o    == [op[p] EXCEPT !.step = "insert"]
<1>1. /\ Typed /\ Tables /\ Holds
      /\ op[p] \in Operation /\ op[p].kind = "write" /\ op[p].step = "change"
      /\ Execute(p, db, "insert")
  BY DEF StoreInv, Typed, WriteDelete, At
<1>2. db \in Database /\ db.rows = rows /\ TableOK(rows)
  <2>1. rows \subseteq View(p).rows /\ View(p).rows \subseteq Records
        /\ View(p) \in Database /\ TableOK(View(p).rows)
    BY <1>1, ViewOK
  <2> HIDE DEF rows
  <2> QED
    BY <2>1, DatabaseRows, SmallerTable
<1>3. o \in Operation /\ o.kind = "write" /\ o.step = "insert" /\ o.record = op[p].record
  BY <1>1, Advanced
<1>4. \A k \in rows : k.id # op[p].record.id /\ k.slot # op[p].record.slot
  BY <1>1, ViewOK DEF Replaced
<1>5. ~ dirty[p] => rows = Effect(o, disk.rows)
  <2>1. ~ dirty[p] => View(p) = disk
    BY <1>1, ViewIsDisk DEF Holding
  <2> HIDE DEF o
  <2> QED
    BY <1>3, <2>1, EffectOf
<1> HIDE DEF rows, db
<1> QED
  BY <1>1, <1>2, <1>3, <1>4, <1>5, ExecuteStep

LEMMA WriteInsertStep ==
  ASSUME StoreInv, NEW p \in Procs, WriteInsert(p)
  PROVE  StoreInv'
<1> DEFINE rows == View(p).rows \cup { op[p].record }
           db   == [View(p) EXCEPT !.rows = rows]
           o    == [op[p] EXCEPT !.step = "commit"]
<1>1. /\ Typed /\ Tables /\ Holds /\ Whole
      /\ op[p] \in Operation /\ op[p].kind = "write" /\ op[p].step = "insert"
      /\ Execute(p, db, "commit") /\ ~ Conflict(p)
  BY DEF StoreInv, Typed, WriteInsert, At
<1>2. op[p].record \in Records
  BY <1>1, OperationKinds DEF WriteOp
<1>3. db \in Database /\ db.rows = rows /\ TableOK(rows)
  <2>1. TableOK(rows)
    BY <1>1, ViewOK, LargerTable DEF Conflict
  <2>2. rows \subseteq Records /\ View(p) \in Database
    BY <1>1, <1>2, ViewOK
  <2> HIDE DEF rows
  <2> QED
    BY <2>1, <2>2, DatabaseRows
<1>4. o \in Operation /\ o.kind = "write" /\ o.step = "commit" /\ o.record = op[p].record
  BY <1>1, Advanced
<1>5. ~ dirty[p] => rows = Effect(o, disk.rows)
  <2>1. View(p) = txn[p].db
    BY <1>1 DEF Holds, Holding, View
  <2>2. ~ dirty[p] => View(p).rows = disk.rows \ Replaced(op[p].record)
    BY <1>1, <2>1, EffectOf DEF Whole, Holding
  <2> HIDE DEF o
  <2> QED
    BY <1>4, <2>2, EffectOf
<1> HIDE DEF rows, db
<1> QED
  BY <1>1, <1>3, <1>4, <1>5, ExecuteStep

LEMMA DeleteRowStep ==
  ASSUME StoreInv, NEW p \in Procs, DeleteRow(p)
  PROVE  StoreInv'
<1> DEFINE rows == { k \in View(p).rows : k.id # op[p].id }
           db   == [View(p) EXCEPT !.rows = rows]
           o    == [op[p] EXCEPT !.step = "commit"]
<1>1. /\ Typed /\ Tables /\ Holds
      /\ op[p] \in Operation /\ op[p].kind = "delete" /\ op[p].step = "change"
      /\ Execute(p, db, "commit")
  BY DEF StoreInv, Typed, DeleteRow, At
<1>2. db \in Database /\ db.rows = rows /\ TableOK(rows)
  <2>1. rows \subseteq View(p).rows /\ View(p).rows \subseteq Records
        /\ View(p) \in Database /\ TableOK(View(p).rows)
    BY <1>1, ViewOK
  <2> HIDE DEF rows
  <2> QED
    BY <2>1, DatabaseRows, SmallerTable
<1>3. o \in Operation /\ o.kind = "delete" /\ o.step = "commit" /\ o.id = op[p].id
  BY <1>1, Advanced
<1>4. ~ dirty[p] => rows = Effect(o, disk.rows)
  <2>1. ~ dirty[p] => View(p) = disk
    BY <1>1, ViewIsDisk DEF Holding
  <2> HIDE DEF o
  <2> QED
    BY <1>3, <2>1, EffectOf
<1> HIDE DEF rows, db
<1> QED
  BY <1>1, <1>2, <1>3, <1>4, ExecuteStep

LEMMA DeleteExpiredStep ==
  ASSUME StoreInv, NEW p \in Procs, DeleteExpired(p)
  PROVE  StoreInv'
<1> DEFINE rows == Swept(p)
           db   == [View(p) EXCEPT !.rows = rows]
           o    == [op[p] EXCEPT !.step = "commit"]
<1>1. /\ Typed /\ Tables /\ Holds
      /\ op[p] \in Operation /\ op[p].kind = "cleanup" /\ op[p].step = "change"
      /\ Execute(p, db, "commit")
  BY DEF StoreInv, Typed, DeleteExpired, At
<1>2. db \in Database /\ db.rows = rows /\ TableOK(rows)
  <2>1. rows \subseteq View(p).rows /\ View(p).rows \subseteq Records
        /\ View(p) \in Database /\ TableOK(View(p).rows)
    BY <1>1, ViewOK DEF Swept
  <2> HIDE DEF rows
  <2> QED
    BY <2>1, DatabaseRows, SmallerTable
<1>3. o \in Operation /\ o.kind = "cleanup" /\ o.step = "commit" /\ o.at = op[p].at
  BY <1>1, Advanced
<1>4. ~ dirty[p] => rows = Effect(o, disk.rows)
  <2>1. ~ dirty[p] => View(p) = disk
    BY <1>1, ViewIsDisk DEF Holding
  <2> HIDE DEF o
  <2> QED
    BY <1>3, <2>1, EffectOf DEF Swept
<1> HIDE DEF rows, db
<1> QED
  BY <1>1, <1>2, <1>3, <1>4, ExecuteStep

LEMMA SaveStateStep ==
  ASSUME StoreInv, NEW p \in Procs, SaveState(p)
  PROVE  StoreInv'
<1> DEFINE db == [View(p) EXCEPT !.state = op[p].state]
           o  == [op[p] EXCEPT !.step = "commit"]
<1>1. /\ Typed /\ Tables /\ Holds
      /\ op[p] \in Operation /\ op[p].kind = "save" /\ op[p].step = "change"
      /\ Execute(p, db, "commit")
  BY DEF StoreInv, Typed, SaveState, At
<1>2. op[p].state \in Seq(Turns)
  BY <1>1, OperationKinds DEF SaveOp
<1>3. db \in Database /\ db.rows = View(p).rows /\ TableOK(db.rows)
  BY <1>1, <1>2, ViewOK, DatabaseState
<1>4. o \in Operation /\ o.kind = "save" /\ o.step = "commit"
  BY <1>1, Advanced
<1>5. ~ dirty[p] => db.rows = Effect(o, disk.rows)
  <2>1. ~ dirty[p] => View(p) = disk
    BY <1>1, ViewIsDisk DEF Holding
  <2> HIDE DEF o
  <2> QED
    BY <1>3, <1>4, <2>1, EffectOf
<1> HIDE DEF db
<1> QED
  BY <1>1, <1>3, <1>4, <1>5, ExecuteStep

\* Steps that leave every transaction as it is, whatever becomes of op[p].
LEMMA IdleStep ==
  ASSUME StoreInv, NEW p \in Procs, NEW o \in Operation,
         disk' = disk, txn' = txn, op' = [op EXCEPT ![p] = o],
         dirty' \in [ Procs -> BOOLEAN ], \A q \in Procs \ { p } : dirty'[q] = dirty[q],
         now' = now, ops' \in 0..MaxOps,
         o.step \notin { "insert", "commit" }, o.kind = "cleanup" => o.at <= now,
         txn[p].open => dirty'[p]
  PROVE  StoreInv'
<1>1. /\ Typed /\ Tables /\ OneWriter /\ Holds /\ Whole /\ RoomToInsert /\ CleanupClock
  BY DEF StoreInv
<1>2. op'[p] = o /\ \A q \in Procs \ { p } : op'[q] = op[q]
  BY <1>1 DEF Typed
<1>3. Typed'
  BY <1>1 DEF Typed
<1>4. Tables' /\ OneWriter'
  BY <1>1 DEF Tables, OneWriter
<1>5. Holds'
  BY <1>1, <1>2 DEF Holds, Holding
<1>6. Whole'
  BY <1>1, <1>2 DEF Whole, Holding
<1>7. RoomToInsert'
  <2>1. \A q \in Procs : View(q)' = View(q)
    BY DEF View
  <2> QED
    BY <2>1, <1>1, <1>2 DEF RoomToInsert, At, Conflict
<1>8. CleanupClock'
  BY <1>1, <1>2 DEF CleanupClock
<1> QED
  BY <1>3, <1>4, <1>5, <1>6, <1>7, <1>8 DEF StoreInv

LEMMA StartStep ==
  ASSUME StoreInv, NEW p \in Procs, NEW o \in Operation, Start(p, o),
         ops' \in 0..MaxOps, o.step \in { "change", "count" },
         o.kind = "cleanup" => o.at <= now
  PROVE  StoreInv'
<1>1. /\ disk' = disk /\ txn' = txn /\ op' = [op EXCEPT ![p] = o] /\ dirty' = dirty
      /\ now' = now
  BY DEF Start
<1>2. dirty \in [ Procs -> BOOLEAN ] /\ op[p] = NoOp
  BY OperationKinds DEF StoreInv, Typed, Start
<1>3. txn[p].open => dirty'[p]
  BY <1>1, <1>2, NoOpOK DEF StoreInv, Holds, Holding
<1> QED
  BY <1>1, <1>2, <1>3, IdleStep

LEMMA StartRecordOpStep ==
  ASSUME StoreInv, NEW p \in Procs, StartRecordOp(p)
  PROVE  StoreInv'
<1>1. ops \in 0..MaxOps /\ ops < MaxOps /\ ops' = ops + 1 /\ now \in 0..MaxTime
  BY DEF StoreInv, Typed, StartRecordOp
<1>2. ops' \in 0..MaxOps
  BY <1>1, StoreAssumption
<1>3. ASSUME NEW r \in Records,
             Start(p, [ kind |-> "write", step |-> "change", record |-> r ])
      PROVE  StoreInv'
  <2> DEFINE o == [ kind |-> "write", step |-> "change", record |-> r ]
  <2>1. o \in Operation /\ o.step = "change" /\ o.kind = "write"
    BY DEF Operation, WriteOp
  <2> HIDE DEF o
  <2>2. Start(p, o)
    BY <1>3 DEF o
  <2> QED
    BY <1>2, <2>1, <2>2, StartStep
<1>4. ASSUME NEW id \in Ids,
             Start(p, [ kind |-> "delete", step |-> "change", id |-> id ])
      PROVE  StoreInv'
  <2> DEFINE o == [ kind |-> "delete", step |-> "change", id |-> id ]
  <2>1. o \in Operation /\ o.step = "change" /\ o.kind = "delete"
    BY DEF Operation, DeleteOp
  <2> HIDE DEF o
  <2>2. Start(p, o)
    BY <1>4 DEF o
  <2> QED
    BY <1>2, <2>1, <2>2, StartStep
<1>5. ASSUME Start(p, [ kind |-> "cleanup", step |-> "count", at |-> now ])
      PROVE  StoreInv'
  <2> DEFINE o == [ kind |-> "cleanup", step |-> "count", at |-> now ]
  <2>1. o \in Operation /\ o.step = "count" /\ o.kind = "cleanup" /\ o.at <= now
    BY <1>1, MemoryAssumption DEF Operation, CleanupOp
  <2> HIDE DEF o
  <2>2. Start(p, o)
    BY <1>5 DEF o
  <2> QED
    BY <1>2, <2>1, <2>2, StartStep
<1> QED
  BY <1>3, <1>4, <1>5 DEF StartRecordOp

LEMMA CountExpiredStep ==
  ASSUME StoreInv, NEW p \in Procs, CountExpired(p)
  PROVE  StoreInv'
<1> DEFINE o == IF \E r \in View(p).rows : IsoLeq(r, op[p].at)
                THEN [op[p] EXCEPT !.step = "change"] ELSE NoOp
<1>1. /\ disk' = disk /\ txn' = txn /\ op' = [op EXCEPT ![p] = o] /\ dirty' = dirty
      /\ now' = now /\ ops' = ops
      /\ op[p] \in Operation /\ op[p].kind = "cleanup" /\ op[p].step = "count"
      /\ dirty \in [ Procs -> BOOLEAN ] /\ ops \in 0..MaxOps
      /\ Holds /\ CleanupClock
  BY DEF StoreInv, Typed, CountExpired, Frame, At
<1>2. o \in Operation /\ o.step \in { "change", "none" }
      /\ (o.kind = "cleanup" => o.at = op[p].at)
  BY <1>1, Advanced, NoOpOK
<1>3. txn[p].open => dirty'[p]
  BY <1>1 DEF Holds, Holding
<1>4. op[p].at <= now
  BY <1>1 DEF CleanupClock
<1> HIDE DEF o
<1> QED
  BY <1>1, <1>2, <1>3, <1>4, IdleStep

LEMMA FailStep ==
  ASSUME StoreInv, NEW p \in Procs, Fail(p)
  PROVE  StoreInv'
<1>1. /\ disk' = disk /\ txn' = txn /\ op' = [op EXCEPT ![p] = NoOp]
      /\ now' = now /\ ops' = ops /\ ops \in 0..MaxOps
      /\ dirty' = [dirty EXCEPT ![p] = TRUE] /\ dirty \in [ Procs -> BOOLEAN ]
  BY DEF StoreInv, Typed, Fail, Frame
<1>2. dirty' \in [ Procs -> BOOLEAN ] /\ dirty'[p] /\ \A q \in Procs \ { p } : dirty'[q] = dirty[q]
  BY <1>1
<1> QED
  BY <1>1, <1>2, NoOpOK, IdleStep

\* A transaction ends: its view becomes the file, or is gone.
LEMMA EndOfTransaction ==
  ASSUME StoreInv, NEW p \in Procs,
         txn' = [txn EXCEPT ![p] = NoTxn], op' = [op EXCEPT ![p] = NoOp],
         dirty' = [dirty EXCEPT ![p] = FALSE], now' = now, ops' = ops,
         \/ disk' = disk
         \/ txn[p].open /\ disk' = txn[p].db
  PROVE  StoreInv'
<1>1. /\ Typed /\ Tables /\ OneWriter /\ Holds /\ Whole /\ RoomToInsert /\ CleanupClock
  BY DEF StoreInv
<1>2. /\ op'[p] = NoOp /\ txn'[p] = NoTxn /\ dirty'[p] = FALSE
      /\ \A q \in Procs \ { p } : op'[q] = op[q] /\ txn'[q] = txn[q] /\ dirty'[q] = dirty[q]
  BY <1>1 DEF Typed
<1>3. disk' \in Database
  BY <1>1 DEF Typed, Txn
<1>4. Typed'
  BY <1>1, <1>3, NoTxnOK, NoOpOK DEF Typed
<1>5. Tables'
  BY <1>1, <1>2, EmptyOK, NoTxnOK DEF Tables
<1>6. OneWriter' /\ Holds'
  BY <1>1, <1>2, NoTxnOK, NoOpOK DEF OneWriter, Holds, Holding
<1>7. Whole'
  BY <1>1, <1>2, NoOpOK DEF Whole, Holds, Holding, OneWriter
<1>8. RoomToInsert'
  <2>1. SUFFICES ASSUME NEW q \in Procs, At(q, "write", "insert")', Conflict(q)'
                 PROVE  FALSE
    BY DEF RoomToInsert
  <2>2. q # p /\ op'[q] = op[q] /\ At(q, "write", "insert")
    BY <2>1, <1>2, NoOpOK DEF At
  <2>3. View(q)' = View(q)
    BY <2>2, <1>1, <1>2 DEF Holds, Holding, At, View
  <2> QED
    BY <2>1, <2>2, <2>3, <1>1 DEF RoomToInsert, Conflict
<1>9. CleanupClock'
  BY <1>1, <1>2, NoOpOK DEF CleanupClock
<1> QED
  BY <1>4, <1>5, <1>6, <1>7, <1>8, <1>9 DEF StoreInv

LEMMA CommitStep ==
  ASSUME StoreInv, NEW p \in Procs, Commit(p)
  PROVE  StoreInv'
<1>1. txn[p].open
  BY DEF StoreInv, Holds, Holding, Commit
<1> QED
  BY <1>1, EndOfTransaction DEF Commit, Frame

LEMMA CloseStep ==
  ASSUME StoreInv, NEW p \in Procs, Close(p)
  PROVE  StoreInv'
  BY EndOfTransaction DEF Close, Frame

LEMMA TickStep ==
  ASSUME StoreInv, Tick
  PROVE  StoreInv'
<1>1. /\ disk' = disk /\ txn' = txn /\ op' = op /\ dirty' = dirty /\ ops' = ops
      /\ now' = now + 1 /\ now < MaxTime
  BY DEF Tick
<1>2. /\ Typed /\ Tables /\ OneWriter /\ Holds /\ Whole /\ RoomToInsert /\ CleanupClock
  BY DEF StoreInv
<1>3. Typed'
  BY <1>1, <1>2, MemoryAssumption DEF Typed
<1>4. Tables' /\ OneWriter' /\ Holds' /\ Whole'
  BY <1>1, <1>2 DEF Tables, OneWriter, Holds, Whole, Holding
<1>5. RoomToInsert'
  BY <1>1, <1>2 DEF RoomToInsert, At, Conflict, View
<1>6. CleanupClock'
  <2>1. SUFFICES ASSUME NEW q \in Procs, op[q].kind = "cleanup" PROVE op[q].at <= now + 1
    BY <1>1 DEF CleanupClock
  <2>2. op[q].at <= now /\ op[q].at \in Nat /\ now \in Nat
    BY <2>1, <1>2, OperationKinds DEF CleanupClock, Typed, CleanupOp
  <2> QED
    BY <2>2
<1> QED
  BY <1>2, <1>3, <1>4, <1>5, <1>6 DEF StoreInv

LEMMA StutterStep ==
  ASSUME StoreInv, UNCHANGED storeVars
  PROVE  StoreInv'
<1>1. /\ disk' = disk /\ txn' = txn /\ op' = op /\ dirty' = dirty /\ ops' = ops
      /\ now' = now
  BY DEF storeVars
<1>2. Typed' <=> Typed
  BY <1>1 DEF Typed
<1>3. (Tables' <=> Tables) /\ (OneWriter' <=> OneWriter) /\ (CleanupClock' <=> CleanupClock)
  BY <1>1 DEF Tables, OneWriter, CleanupClock
<1>4. (Holds' <=> Holds) /\ (Whole' <=> Whole)
  BY <1>1 DEF Holds, Whole, Holding
<1>5. RoomToInsert' <=> RoomToInsert
  BY <1>1 DEF RoomToInsert, At, Conflict, View
<1> QED
  BY <1>2, <1>3, <1>4, <1>5 DEF StoreInv

-----------------------------------------------------------------------------
(* Steps of the sessions on the store *)

LEMMA NoTurnOK == NoTurn \in Turn /\ NoTurn.pc = "idle"
  BY DEF NoTurn, Turn

\* A turn goes on to its next step.
LEMMA TurnMoves ==
  ASSUME SessionTyped, NEW p \in Procs, turn[p].pc # "idle",
         NEW pc \in { "saving", "saved", "closing" },
         turn' = [turn EXCEPT ![p].pc = pc]
  PROVE  /\ turn' \in [ Procs -> Turn ]
         /\ \A q \in Procs : turn'[q].pc # "idle" => turn'[q].id \in Turns
         /\ turn'[p].pc = pc /\ turn'[p].id = turn[p].id /\ turn'[p].base = turn[p].base
         /\ turn[p].id \in Turns
         /\ \A q \in Procs \ { p } : turn'[q] = turn[q]
<1> DEFINE t == [turn[p] EXCEPT !.pc = pc]
<1>1. turn \in [ Procs -> Turn ] /\ turn[p] \in Turn /\ turn[p].id \in Turns
  BY DEF SessionTyped
<1>2. t \in Turn /\ t.pc = pc /\ t.id = turn[p].id /\ t.base = turn[p].base
  BY <1>1 DEF Turn
<1>3. turn' = [turn EXCEPT ![p] = t]
  BY <1>1
<1> HIDE DEF t
<1>4. turn'[p] = t /\ (\A q \in Procs \ { p } : turn'[q] = turn[q])
      /\ turn' \in [ Procs -> Turn ]
  BY <1>1, <1>2, <1>3
<1> QED
  BY <1>1, <1>2, <1>4 DEF SessionTyped

LEMMA LogGrows ==
  ASSUME SessionTyped, NEW kind \in { "load", "save" }, NEW t \in Turns,
         log' = Append(log, << kind, t >>)
  PROVE  /\ log' \in Seq(Events) /\ Len(log') = Len(log) + 1 /\ Len(log) \in Nat
         /\ log'[Len(log) + 1] = << kind, t >>
         /\ \A i \in DOMAIN log : i \in DOMAIN log' /\ log'[i] = log[i]
         /\ DOMAIN log = 1..Len(log) /\ DOMAIN log' = 1..(Len(log) + 1)
<1>1. log \in Seq(Events) /\ << kind, t >> \in Events
  BY DEF SessionTyped, Events
<1> QED
  BY <1>1

LEMMA LoadTyped ==
  ASSUME StoreInv, SessionTyped, NEW p \in Procs, Load(p)
  PROVE  SessionTyped'
<1>1. PICK t \in Turns \ Taken :
        /\ turn' = [turn EXCEPT ![p] =
                     [ pc |-> "running", id |-> t, base |-> LoadState(p) ]]
        /\ log' = Append(log, << "load", t >>)
  BY DEF Load
<1> DEFINE new == [ pc |-> "running", id |-> t, base |-> LoadState(p) ]
<1>2. new \in Turn /\ new.id \in Turns
  BY ViewOK DEF Turn, LoadState, StoreInv
<1> HIDE DEF new
<1>3. turn' \in [ Procs -> Turn ]
      /\ \A q \in Procs : turn'[q].pc # "idle" => turn'[q].id \in Turns
  BY <1>1, <1>2 DEF SessionTyped, new
<1>4. log' \in Seq(Events)
  BY <1>1, LogGrows
<1> QED
  BY <1>3, <1>4 DEF SessionTyped, Load

LEMMA RunReturnsTyped ==
  ASSUME SessionTyped, NEW p \in Procs, RunReturns(p)
  PROVE  SessionTyped'
<1>1. turn' = [turn EXCEPT ![p].pc = "saving"] /\ log' = log /\ shown' = shown
      /\ turn[p].pc # "idle"
  BY DEF RunReturns
<1>2. turn' \in [ Procs -> Turn ]
      /\ \A q \in Procs : turn'[q].pc # "idle" => turn'[q].id \in Turns
  BY <1>1, TurnMoves
<1> QED
  BY <1>1, <1>2 DEF SessionTyped

\* Only a turn that is saving has a save in progress.
LEMMA CommitTurnTyped ==
  ASSUME SessionTyped, NEW p \in Procs, CommitTurn(p),
         op[p].kind = "save" => turn[p].pc = "saving"
  PROVE  SessionTyped'
<1>1. CASE op[p].kind = "save"
  <2>1. turn' = [turn EXCEPT ![p].pc = "saved"] /\ shown' = shown /\ turn[p].pc # "idle"
        /\ log' = Append(log, << "save", turn[p].id >>)
    BY <1>1 DEF CommitTurn
  <2>2. turn' \in [ Procs -> Turn ] /\ turn[p].id \in Turns
        /\ \A q \in Procs : turn'[q].pc # "idle" => turn'[q].id \in Turns
    BY <2>1, TurnMoves
  <2>3. log' \in Seq(Events)
    BY <2>1, <2>2, LogGrows
  <2> QED
    BY <2>1, <2>2, <2>3 DEF SessionTyped
<1>2. CASE op[p].kind # "save"
  BY <1>2 DEF CommitTurn, SessionTyped
<1> QED
  BY <1>1, <1>2

LEMMA FailTurnTyped ==
  ASSUME SessionTyped, NEW p \in Procs, FailTurn(p)
  PROVE  SessionTyped'
<1>1. CASE turn[p].pc = "saving"
  <2>1. turn' = [turn EXCEPT ![p].pc = "closing"] /\ log' = log /\ shown' = shown
    BY <1>1 DEF FailTurn
  <2>2. turn' \in [ Procs -> Turn ]
        /\ \A q \in Procs : turn'[q].pc # "idle" => turn'[q].id \in Turns
    BY <1>1, <2>1, TurnMoves
  <2> QED
    BY <2>1, <2>2 DEF SessionTyped
<1>2. CASE turn[p].pc # "saving"
  BY <1>2 DEF FailTurn, SessionTyped
<1> QED
  BY <1>1, <1>2

LEMMA ShowTyped ==
  ASSUME SessionTyped, NEW p \in Procs, Show(p)
  PROVE  SessionTyped'
<1>1. turn' = [turn EXCEPT ![p].pc = "closing"] /\ log' = log
      /\ shown' = shown \cup { turn[p].id } /\ turn[p].pc # "idle"
  BY DEF Show
<1>2. turn' \in [ Procs -> Turn ] /\ turn[p].id \in Turns
      /\ \A q \in Procs : turn'[q].pc # "idle" => turn'[q].id \in Turns
  BY <1>1, TurnMoves
<1> QED
  BY <1>1, <1>2 DEF SessionTyped

LEMMA EndTyped ==
  ASSUME SessionTyped, NEW p \in Procs, End(p)
  PROVE  SessionTyped'
  BY NoTurnOK DEF SessionTyped, End

LEMMA SavingStep ==
  ASSUME StoreInv, SessionTyped, Saving, [Next]_vars
  PROVE  Saving'
<1>1. op \in [ Procs -> Operation ] /\ turn \in [ Procs -> Turn ]
  BY DEF StoreInv, Typed, SessionTyped
<1>2. ASSUME NEW p \in Procs, Load(p) PROVE Saving'
  BY <1>1, <1>2 DEF Load, storeVars, Saving
<1>3. ASSUME NEW p \in Procs, RunReturns(p) PROVE Saving'
  <2>1. turn[p].pc # "idle" /\ turn' = [turn EXCEPT ![p].pc = "saving"]
    BY <1>3 DEF RunReturns
  <2>2. turn'[p].pc = "saving" /\ \A q \in Procs \ { p } : turn'[q] = turn[q]
    BY <2>1, TurnMoves
  <2>3. op'[p].kind = "save" /\ \A q \in Procs \ { p } : op'[q] = op[q]
    BY <1>1, <1>3 DEF RunReturns, Start
  <2> QED
    BY <2>2, <2>3 DEF Saving
<1>4. ASSUME NEW p \in Procs, CommitTurn(p) PROVE Saving'
  <2>1. op'[p].kind = "none" /\ \A q \in Procs \ { p } : op'[q] = op[q]
    BY <1>1, <1>4, NoOpOK DEF CommitTurn, Commit
  <2>2. CASE op[p].kind = "save"
    <3>1. turn[p].pc # "idle" /\ turn' = [turn EXCEPT ![p].pc = "saved"]
      BY <1>4, <2>2 DEF CommitTurn, Saving
    <3>2. turn'[p].pc = "saved" /\ \A q \in Procs \ { p } : turn'[q] = turn[q]
      BY <3>1, TurnMoves
    <3> QED
      BY <2>1, <3>2 DEF Saving
  <2>3. CASE op[p].kind # "save"
    BY <1>4, <2>1, <2>3 DEF CommitTurn, Saving
  <2> QED
    BY <2>2, <2>3
<1>5. ASSUME NEW p \in Procs, FailTurn(p) PROVE Saving'
  <2>1. op'[p].kind = "none" /\ \A q \in Procs \ { p } : op'[q] = op[q]
    BY <1>1, <1>5, NoOpOK DEF FailTurn, Busy, InsertFails, CommitFails, Fail
  <2>2. CASE turn[p].pc = "saving"
    <3>1. turn[p].pc # "idle" /\ turn' = [turn EXCEPT ![p].pc = "closing"]
      BY <1>5, <2>2 DEF FailTurn
    <3>2. turn'[p].pc = "closing" /\ \A q \in Procs \ { p } : turn'[q] = turn[q]
      BY <3>1, TurnMoves
    <3> QED
      BY <2>1, <3>2 DEF Saving
  <2>3. CASE turn[p].pc # "saving"
    BY <1>5, <2>1, <2>3 DEF FailTurn, Saving
  <2> QED
    BY <2>2, <2>3
<1>6. ASSUME NEW p \in Procs, Show(p) PROVE Saving'
  <2>1. turn[p].pc = "saved" /\ turn' = [turn EXCEPT ![p].pc = "closing"]
    BY <1>6 DEF Show
  <2>2. turn'[p].pc = "closing" /\ \A q \in Procs \ { p } : turn'[q] = turn[q]
    BY <2>1, TurnMoves
  <2> QED
    BY <1>6, <2>1, <2>2 DEF Saving, Show, storeVars
<1>7. ASSUME NEW p \in Procs, End(p) PROVE Saving'
  BY <1>1, <1>7, NoOpOK, NoTurnOK DEF End, Close, Saving
<1>8. ASSUME NEW p \in Procs, turn[p].pc = "idle", StartRecordOp(p), turn' = turn
      PROVE  Saving'
  BY <1>1, <1>8 DEF StartRecordOp, Start, Saving
<1>9. ASSUME NEW p \in Procs, Statement(p), turn' = turn PROVE Saving'
  <2>1. ASSUME NEW step, op' = [op EXCEPT ![p].step = step], op[p].kind # "none"
        PROVE  Saving'
    BY <1>1, <1>9, <2>1, Advanced DEF Saving
  <2>2. CASE CountExpired(p)
    <3> DEFINE o == [op[p] EXCEPT !.step = "change"]
    <3>1. op[p].kind = "cleanup" /\ (op'[p] = o \/ op'[p] = NoOp)
          /\ \A q \in Procs \ { p } : op'[q] = op[q]
      BY <1>1, <2>2 DEF CountExpired, At
    <3>2. o.kind = "cleanup"
      BY <3>1, <1>1, Advanced
    <3> HIDE DEF o
    <3> QED
      BY <3>1, <3>2, <1>9, NoOpOK DEF Saving
  <2>3. CASE WriteDelete(p)
    BY <2>1, <2>3 DEF WriteDelete, At, Execute
  <2>4. CASE WriteInsert(p)
    BY <2>1, <2>4 DEF WriteInsert, At, Execute
  <2>5. CASE DeleteRow(p)
    BY <2>1, <2>5 DEF DeleteRow, At, Execute
  <2>6. CASE DeleteExpired(p)
    BY <2>1, <2>6 DEF DeleteExpired, At, Execute
  <2>7. CASE SaveState(p)
    BY <2>1, <2>7 DEF SaveState, At, Execute
  <2> QED
    BY <1>9, <2>2, <2>3, <2>4, <2>5, <2>6, <2>7 DEF Statement
<1>10. ASSUME Tick, turn' = turn PROVE Saving'
  BY <1>10 DEF Tick, Saving
<1>11. ASSUME UNCHANGED vars PROVE Saving'
  BY <1>11 DEF vars, storeVars, sessionVars, Saving
<1> QED
  BY <1>2, <1>3, <1>4, <1>5, <1>6, <1>7, <1>8, <1>9, <1>10, <1>11 DEF Next, sessionVars

-----------------------------------------------------------------------------
(* The store under the sessions *)

LEMMA GroundInit == Init => Ground
<1> SUFFICES ASSUME Init PROVE Ground
  OBVIOUS
<1>1. StoreInv
  BY StoreInvInit DEF Init
<1>2. \A p \in Procs : turn[p] = NoTurn /\ op[p] = NoOp
  BY DEF Init, StoreInit
<1>3. turn \in [ Procs -> Turn ] /\ log \in Seq(Events) /\ shown = {}
  BY NoTurnOK DEF Init
<1>4. SessionTyped
  BY <1>2, <1>3, NoTurnOK DEF SessionTyped
<1>5. Saving
  BY <1>2, NoTurnOK, NoOpOK DEF Saving
<1> QED
  BY <1>1, <1>4, <1>5 DEF Ground

LEMMA RunReturnsStore ==
  ASSUME Ground, NEW p \in Procs, RunReturns(p)
  PROVE  StoreInv'
<1> DEFINE o == [ kind |-> "save", step |-> "change",
                  state |-> Append(turn[p].base, turn[p].id) ]
<1>1. turn[p] \in Turn /\ turn[p].id \in Turns /\ ops \in 0..MaxOps
  BY DEF Ground, SessionTyped, StoreInv, Typed, RunReturns
<1>2. Append(turn[p].base, turn[p].id) \in Seq(Turns)
  BY <1>1 DEF Turn
<1>3. o \in Operation /\ o.step = "change" /\ o.kind = "save"
  BY <1>2 DEF Operation, SaveOp
<1>4. Start(p, o) /\ ops' = ops
  BY DEF RunReturns
<1> HIDE DEF o
<1> QED
  BY <1>1, <1>3, <1>4, StartStep DEF Ground

LEMMA GroundStep ==
  ASSUME Ground, [Next]_vars
  PROVE  Ground'
<1>1. StoreInv /\ SessionTyped /\ Saving
  BY DEF Ground
<1>2. Saving'
  BY <1>1, SavingStep
<1>3. ASSUME NEW p \in Procs, Load(p) PROVE StoreInv' /\ SessionTyped'
  BY <1>1, <1>3, LoadTyped, StutterStep DEF Load
<1>4. ASSUME NEW p \in Procs, RunReturns(p) PROVE StoreInv' /\ SessionTyped'
  BY <1>1, <1>4, RunReturnsTyped, RunReturnsStore
<1>5. ASSUME NEW p \in Procs, CommitTurn(p) PROVE StoreInv' /\ SessionTyped'
  BY <1>1, <1>5, CommitTurnTyped, CommitStep DEF CommitTurn, Saving
<1>6. ASSUME NEW p \in Procs, FailTurn(p) PROVE StoreInv' /\ SessionTyped'
  BY <1>1, <1>6, FailTurnTyped, FailStep DEF FailTurn, Busy, InsertFails, CommitFails
<1>7. ASSUME NEW p \in Procs, Show(p) PROVE StoreInv' /\ SessionTyped'
  BY <1>1, <1>7, ShowTyped, StutterStep DEF Show
<1>8. ASSUME NEW p \in Procs, End(p) PROVE StoreInv' /\ SessionTyped'
  BY <1>1, <1>8, EndTyped, CloseStep DEF End
<1>9. ASSUME UNCHANGED sessionVars PROVE SessionTyped'
  BY <1>1, <1>9 DEF SessionTyped, sessionVars
<1>10. ASSUME NEW p \in Procs, Statement(p) PROVE StoreInv'
  BY <1>1, <1>10, WriteDeleteStep, WriteInsertStep, DeleteRowStep, CountExpiredStep,
     DeleteExpiredStep, SaveStateStep DEF Statement
<1>11. ASSUME NEW p \in Procs, StartRecordOp(p) PROVE StoreInv'
  BY <1>1, <1>11, StartRecordOpStep
<1>12. ASSUME Tick PROVE StoreInv'
  BY <1>1, <1>12, TickStep
<1>13. ASSUME UNCHANGED vars PROVE StoreInv' /\ SessionTyped'
  BY <1>1, <1>9, <1>13, StutterStep DEF vars
<1>14. ASSUME NEW p \in Procs,
              \/ Load(p) \/ RunReturns(p) \/ CommitTurn(p) \/ FailTurn(p) \/ Show(p) \/ End(p)
              \/ turn[p].pc = "idle" /\ StartRecordOp(p) /\ UNCHANGED sessionVars
              \/ Statement(p) /\ UNCHANGED sessionVars
       PROVE  StoreInv' /\ SessionTyped'
  BY <1>3, <1>4, <1>5, <1>6, <1>7, <1>8, <1>9, <1>10, <1>11, <1>14
<1>15. StoreInv' /\ SessionTyped'
  BY <1>9, <1>12, <1>13, <1>14 DEF Next
<1> QED
  BY <1>2, <1>15 DEF Ground

LEMMA Grounded == Spec => []Ground
  BY GroundInit, GroundStep, PTL DEF Spec

\* The store is in order under any number of processes: every variable in its
\* domain, ids and slots unique in the file and in every open transaction, and
\* the INSERT of a write never meets its own unique index.
THEOREM StoreInOrder == Spec => []StoreTypeOK
<1>1. ASSUME Ground PROVE StoreTypeOK
  <2>1. /\ Typed /\ Tables /\ RoomToInsert
    BY <1>1 DEF Ground, StoreInv
  <2>2. \A p \in Procs : /\ txn[p].open \in BOOLEAN /\ txn[p].db \in Database
                         /\ op[p] \in Operation
    BY <2>1 DEF Typed, Txn
  <2>3. \A p \in Procs : /\ op[p].kind \in { "none", "write", "delete", "cleanup", "save" }
                         /\ op[p].step \in { "none", "change", "insert", "count", "commit" }
    BY <2>2, OperationKinds
  <2> QED
    BY <2>1, <2>2, <2>3 DEF Typed, Tables, TableOK, RoomToInsert, StoreTypeOK
<1> QED
  BY <1>1, Grounded, PTL

\* An operation that has returned leaves a transaction open only if one has
\* failed on its connection since the last commit.
THEOREM LocksAreReleased == Spec => []LockHeldOnlyAfterFailure
<1>1. ASSUME Ground PROVE LockHeldOnlyAfterFailure
  <2>1. SUFFICES ASSUME NEW p \in Procs, txn[p].open, op[p].kind = "none" PROVE dirty[p]
    BY DEF LockHeldOnlyAfterFailure
  <2>2. op[p] = NoOp
    BY <1>1, <2>1, OperationKinds DEF Ground, StoreInv, Typed
  <2> QED
    BY <1>1, <2>1, <2>2, NoOpOK DEF Ground, StoreInv, Holds, Holding
<1> QED
  BY <1>1, Grounded, PTL

-----------------------------------------------------------------------------
(* What the operations return and leave behind, when expires_at is in UTC *)

\* Every expires_at carries the offset +00:00: otherwise the comparison of
\* strings is not that of instants, and the facts below do not hold.
Utc == \A r \in Records : r.offset = 0

LEMMA StringsAreInstants ==
  ASSUME Utc, NEW r \in Records, NEW t \in 0..MaxTime
  PROVE  IsoLeq(r, t) <=> IsExpired(r, t)
  BY MemoryAssumption DEF Utc, IsoLeq, IsExpired

LEMMA UntouchedByFailure ==
  ASSUME StoreInv, NEW p \in Procs, op[p].step = "commit", ~ dirty[p]
  PROVE  /\ op[p] \in Operation /\ disk.rows \subseteq Records
         /\ op[p].kind # "none"
         /\ txn[p].db.rows = Effect(op[p], disk.rows)
<1>1. op[p] \in Operation /\ disk.rows \subseteq Records
  BY DEF StoreInv, Typed, Database, Row
<1>2. op[p].kind # "none"
  BY <1>1, OperationKinds, NoOpOK
<1> QED
  BY <1>1, <1>2 DEF StoreInv, Whole, Holding

\* A commit of an operation in which nothing has failed does to the file what
\* the protocol says of that operation.
LEMMA CommitIsOneOperation ==
  ASSUME Utc, StoreInv, NEW p \in Procs, Commit(p), ~ dirty[p]
  PROVE  Abstract!Next \/ UNCHANGED << disk.rows, now >>
<1>1. /\ op[p] \in Operation /\ disk.rows \subseteq Records
      /\ op[p].kind # "none" /\ op[p].step = "commit"
      /\ disk'.rows = Effect(op[p], disk.rows) /\ now' = now
      /\ now \in 0..MaxTime
  BY UntouchedByFailure DEF Commit, Frame, StoreInv, Typed
<1>2. CASE op[p].kind = "write"
  <2>1. op[p].record \in Records
    BY <1>1, <1>2, OperationKinds DEF WriteOp
  <2>2. disk'.rows = (disk.rows \ Replaced(op[p].record)) \cup { op[p].record }
    BY <1>1, <1>2, EffectOf
  <2>3. Abstract!Write(op[p].record)
    BY <1>1, <2>2 DEF Abstract!Write, Replaced
  <2> QED
    BY <1>1, <2>1, <2>3 DEF Abstract!Next
<1>3. CASE op[p].kind = "delete"
  <2>1. op[p].id \in Ids
    BY <1>1, <1>3, OperationKinds DEF DeleteOp
  <2>2. disk'.rows = { k \in disk.rows : k.id # op[p].id }
    BY <1>1, <1>3, EffectOf
  <2> QED
    BY <1>1, <2>1, <2>2 DEF Abstract!Next, Abstract!Delete
<1>4. CASE op[p].kind = "cleanup"
  <2>1. op[p].at \in 0..MaxTime /\ op[p].at <= now
    BY <1>1, <1>4, OperationKinds DEF CleanupOp, StoreInv, CleanupClock
  <2>2. disk'.rows = { k \in disk.rows : ~ IsoLeq(k, op[p].at) }
    BY <1>1, <1>4, EffectOf
  <2>3. disk'.rows = { k \in disk.rows : ~ IsExpired(k, op[p].at) }
    BY <1>1, <2>1, <2>2, StringsAreInstants
  <2>4. disk'.rows = { k \in disk.rows : ~ Abstract!IsExpired(k, op[p].at) }
    BY <2>3 DEF IsExpired, Abstract!IsExpired
  <2>5. op[p].at \in 0..now
    BY <1>1, <2>1, MemoryAssumption
  <2>6. Abstract!Cleanup
    BY <2>4, <2>5 DEF Abstract!Cleanup
  <2> QED
    BY <1>1, <2>6 DEF Abstract!Next
<1>5. CASE op[p].kind = "save"
  BY <1>1, <1>5, EffectOf
<1> QED
  BY <1>1, <1>2, <1>3, <1>4, <1>5, OperationKinds

LEMMA StatementKeepsFile ==
  ASSUME NEW p \in Procs, Statement(p) \/ StartRecordOp(p)
  PROVE  disk' = disk /\ now' = now
  BY DEF Statement, StartRecordOp, Start, WriteDelete, WriteInsert, DeleteRow, CountExpired,
         DeleteExpired, SaveState, Execute, Frame

\* The file changes as the protocol MemoryStore says, one whole operation at a
\* time, whatever the processes, crashes and clock do, unless an operation has
\* failed on the connection that commits.
THEOREM StoreImplementsProtocol ==
  ASSUME Utc
  PROVE  Spec => ActsAsStore
<1> DEFINE Act == \/ \E p \in Procs : dirty[p] /\ Commit(p)
                  \/ Abstract!Next
                  \/ UNCHANGED << disk.rows, now >>
<1>1. ASSUME Ground, [Next]_vars PROVE [Act]_storeVars
  <2>1. ASSUME NEW p \in Procs, CommitTurn(p) PROVE Act
    BY <1>1, <2>1, CommitIsOneOperation DEF CommitTurn, Ground
  <2>2. ASSUME disk' = disk, now' = now PROVE Act
    BY <2>2
  <2>3. ASSUME Tick PROVE Act
    BY <2>3 DEF Tick, Abstract!Next, Abstract!Tick
  <2>4. ASSUME NEW p \in Procs, Load(p) \/ Show(p) PROVE Act
    BY <2>2, <2>4 DEF Load, Show, storeVars
  <2>5. ASSUME NEW p \in Procs, RunReturns(p) \/ FailTurn(p) \/ End(p) PROVE Act
    BY <2>2, <2>5 DEF RunReturns, Start, FailTurn, Busy, InsertFails, CommitFails, Fail,
                      End, Close, Frame
  <2>6. ASSUME NEW p \in Procs, StartRecordOp(p) \/ Statement(p) PROVE Act
    BY <2>2, <2>6, StatementKeepsFile
  <2> HIDE DEF Act
  <2>7. CASE UNCHANGED vars
    BY <2>7 DEF vars
  <2>8. CASE Next
    BY <2>1, <2>3, <2>4, <2>5, <2>6, <2>8 DEF Next
  <2> QED
    BY <1>1, <2>7, <2>8
<1>2. Spec => [][Act]_storeVars
  <2> HIDE DEF Act
  <2> QED
    BY <1>1, Grounded, PTL DEF Spec
<1> QED
  BY <1>2 DEF ActsAsStore

\* When cleanup_expired() returns on a connection where nothing has failed, no
\* record that had expired when it began is left in the file.
THEOREM CleanupRemovesExpired ==
  ASSUME Utc
  PROVE  Spec => CleanupComplete
<1> DEFINE Act == \A p \in Procs :
                    /\ op[p].kind = "cleanup" /\ ~ dirty[p]
                    /\ \/ Commit(p)
                       \/ CountExpired(p) /\ op'[p].kind = "none"
                    => \A r \in disk'.rows : ~ IsExpired(r, op[p].at)
<1>1. ASSUME Ground PROVE Act
  <2>1. SUFFICES ASSUME NEW p \in Procs, op[p].kind = "cleanup", ~ dirty[p],
                        Commit(p) \/ (CountExpired(p) /\ op'[p].kind = "none")
                 PROVE  \A r \in disk'.rows : ~ IsExpired(r, op[p].at)
    OBVIOUS
  <2>2. /\ StoreInv /\ Holds /\ op \in [ Procs -> Operation ] /\ op[p] \in Operation
        /\ disk.rows \subseteq Records
    BY <1>1 DEF Ground, StoreInv, Typed, Database, Row
  <2>3. op[p].at \in 0..MaxTime
    BY <2>1, <2>2, OperationKinds DEF CleanupOp
  <2>4. CASE Commit(p)
    <3>1. op[p].step = "commit" /\ disk' = txn[p].db
      BY <2>4 DEF Commit
    <3>2. disk'.rows = { k \in disk.rows : ~ IsoLeq(k, op[p].at) }
      BY <2>1, <2>2, <3>1, UntouchedByFailure, EffectOf
    <3> QED
      BY <2>2, <2>3, <3>2, StringsAreInstants
  <2>5. CASE CountExpired(p) /\ op'[p].kind = "none"
    <3> DEFINE o == [op[p] EXCEPT !.step = "change"]
    <3>1. View(p) = disk
      BY <2>1, <2>2, <2>5, ViewIsDisk DEF CountExpired, At, Holding
    <3>2. o.kind = "cleanup"
      BY <2>1, <2>2, Advanced
    <3>3. op'[p] = (IF \E r \in View(p).rows : IsoLeq(r, op[p].at) THEN o ELSE NoOp)
          /\ disk' = disk
      BY <2>2, <2>5 DEF CountExpired
    <3> HIDE DEF o
    <3>4. \A r \in disk.rows : ~ IsoLeq(r, op[p].at)
      BY <2>5, <3>1, <3>2, <3>3
    <3> QED
      BY <2>2, <2>3, <3>3, <3>4, StringsAreInstants
  <2> QED
    BY <2>1, <2>4, <2>5
<1>2. Spec => [][Act]_storeVars
  <2> HIDE DEF Act
  <2> QED
    BY <1>1, Grounded, PTL DEF Spec
<1> QED
  BY <1>2 DEF CleanupComplete

\* What a list of best matches holds, when the limit cuts nothing off.
LEMMA AllOfTheBest ==
  ASSUME NEW matches, IsFiniteSet(matches), NEW limit \in Nat,
         Cardinality(matches) <= limit, NEW hits \in BestFirst(matches, limit)
  PROVE  { hits[i] : i \in DOMAIN hits } = matches
<1> DEFINE n == Cardinality(matches)
<1>1. n \in Nat
  BY FS_CardinalityType
<1>2. PICK q \in [ 1..n -> matches ] :
        /\ \A i, j \in DOMAIN q : i < j => q[i] # q[j]
        /\ hits = SubSeq(q, 1, IF Len(q) < limit THEN Len(q) ELSE limit)
  BY DEF BestFirst
<1> HIDE DEF n
<1>3. q \in Seq(matches) /\ Len(q) = n
  BY <1>1, <1>2
<1>4. hits = q
  <2>1. ~ (Len(q) < limit) => Len(q) = limit
    BY <1>1, <1>3 DEF n
  <2>2. hits = SubSeq(q, 1, Len(q))
    BY <1>2, <2>1
  <2> QED
    BY <1>3, <2>2, SubSeqFull
<1>5. q \in Injection(1..n, matches)
  <2>1. \A i, j \in 1..n : q[i] = q[j] => i = j
    BY <1>1, <1>2
  <2> QED
    BY <1>2, <2>1, Fun_IsInj
<1>6. Cardinality(1..n) = n
  BY <1>1, FS_Interval
<1>7. q \in Surjection(1..n, matches)
  BY <1>5, <1>6, FS_Injection DEF n
<1>8. DOMAIN q = 1..n /\ (\A i \in 1..n : q[i] \in matches)
      /\ \A r \in matches : \E i \in 1..n : q[i] = r
  BY <1>2, <1>7 DEF Surjection
<1>9. { q[i] : i \in 1..n } = matches
  BY <1>8
<1> QED
  BY <1>4, <1>8, <1>9

\* get() and read() give the one live record with the id, or in the slot.
LEMMA LiveFound ==
  ASSUME NEW rows \in SUBSET Records, NEW r \in rows, ~ IsExpired(r, now),
         \A k \in rows : k = r
  PROVE  LiveOrNone(rows) = r
  BY DEF LiveOrNone

LEMMA FoundLive ==
  ASSUME NEW rows \in SUBSET Records, LiveOrNone(rows) # NoRecord
  PROVE  LiveOrNone(rows) \in rows /\ ~ IsExpired(LiveOrNone(rows), now)
  BY DEF LiveOrNone

LEMMA GetAndRead ==
  ASSUME Typed, Tables, NEW p \in Procs
  PROVE  /\ \A r \in View(p).rows : ~ IsExpired(r, now) =>
              /\ r \in Records /\ r # NoRecord /\ Get(p, r.id) = r /\ Read(p, r.slot) = r
         /\ \A id \in Ids : Get(p, id) # NoRecord =>
              /\ Get(p, id) \in View(p).rows /\ Get(p, id).id = id
              /\ ~ IsExpired(Get(p, id), now)
         /\ \A s \in Slots : Read(p, s) # NoRecord =>
              /\ Read(p, s) \in View(p).rows /\ Read(p, s).slot = s
              /\ ~ IsExpired(Read(p, s), now)
<1> DEFINE rows == View(p).rows
<1>1. rows \subseteq Records /\ Distinct(rows)
  BY ViewOK DEF TableOK
<1> HIDE DEF rows
<1>2. ASSUME NEW r \in rows, ~ IsExpired(r, now)
      PROVE  /\ LiveOrNone({ k \in rows : k.id = r.id }) = r
             /\ LiveOrNone({ k \in rows : k.slot = r.slot }) = r
  <2>1. { k \in rows : k.id = r.id } \in SUBSET Records
        /\ r \in { k \in rows : k.id = r.id }
        /\ \A k \in { k \in rows : k.id = r.id } : k = r
    BY <1>1 DEF Distinct
  <2>2. { k \in rows : k.slot = r.slot } \in SUBSET Records
        /\ r \in { k \in rows : k.slot = r.slot }
        /\ \A k \in { k \in rows : k.slot = r.slot } : k = r
    BY <1>1 DEF Distinct
  <2>3. LiveOrNone({ k \in rows : k.id = r.id }) = r
    BY <1>2, <2>1, LiveFound
  <2>4. LiveOrNone({ k \in rows : k.slot = r.slot }) = r
    BY <1>2, <2>2, LiveFound
  <2> QED
    BY <2>3, <2>4
<1>3. \A r \in rows : ~ IsExpired(r, now) =>
        /\ r \in Records /\ r # NoRecord /\ Get(p, r.id) = r /\ Read(p, r.slot) = r
  BY <1>1, <1>2, MemoryAssumption DEF Get, Read, rows
<1>4. ASSUME NEW id \in Ids, Get(p, id) # NoRecord
      PROVE  Get(p, id) \in rows /\ Get(p, id).id = id /\ ~ IsExpired(Get(p, id), now)
  <2> DEFINE mine == { k \in rows : k.id = id }
  <2>1. mine \in SUBSET Records /\ Get(p, id) = LiveOrNone(mine)
    BY <1>1 DEF Get, rows
  <2>2. LiveOrNone(mine) \in mine /\ ~ IsExpired(LiveOrNone(mine), now)
    <3> HIDE DEF mine
    <3> QED
      BY <1>4, <2>1, FoundLive
  <2> QED
    BY <2>1, <2>2
<1>5. ASSUME NEW s \in Slots, Read(p, s) # NoRecord
      PROVE  Read(p, s) \in rows /\ Read(p, s).slot = s /\ ~ IsExpired(Read(p, s), now)
  <2> DEFINE mine == { k \in rows : k.slot = s }
  <2>1. mine \in SUBSET Records /\ Read(p, s) = LiveOrNone(mine)
    BY <1>1 DEF Read, rows
  <2>2. LiveOrNone(mine) \in mine /\ ~ IsExpired(LiveOrNone(mine), now)
    <3> HIDE DEF mine
    <3> QED
      BY <1>5, <2>1, FoundLive
  <2> QED
    BY <2>1, <2>2
<1> QED
  BY <1>3, <1>4, <1>5 DEF rows

\* At every instant get(), read(), search() and count() tell one story.
LEMMA OneStory == Utc /\ Ground => ReadsAgree
<1> SUFFICES ASSUME Utc, Ground, NEW p \in Procs
             PROVE  /\ \A id \in Ids : Get(p, id) # NoRecord =>
                         Read(p, Get(p, id).slot) = Get(p, id)
                    /\ \A hits \in Search(p, Cardinality(View(p).rows)) :
                         { hits[i] : i \in DOMAIN hits } =
                           { Get(p, id) : id \in { i \in Ids :
                               Get(p, i) # NoRecord /\ Get(p, i).rank < NoMatch } }
                    /\ Count(p) = Cardinality({ s \in Slots : Read(p, s) # NoRecord })
  BY DEF ReadsAgree
<1> DEFINE rows == View(p).rows
<1>1. /\ Typed /\ Tables /\ IsFiniteSet(rows) /\ Distinct(rows) /\ rows \subseteq Records
      /\ now \in 0..MaxTime
  BY ViewOK DEF Ground, StoreInv, TableOK, Typed
<1> HIDE DEF rows
<1>2. /\ \A r \in rows : ~ IsExpired(r, now) =>
           /\ r \in Records /\ r # NoRecord /\ Get(p, r.id) = r /\ Read(p, r.slot) = r
           /\ r.id \in Ids /\ r.slot \in Slots
      /\ \A id \in Ids : Get(p, id) # NoRecord =>
           Get(p, id) \in rows /\ Get(p, id).id = id /\ ~ IsExpired(Get(p, id), now)
      /\ \A s \in Slots : Read(p, s) # NoRecord =>
           Read(p, s) \in rows /\ Read(p, s).slot = s /\ ~ IsExpired(Read(p, s), now)
  BY <1>1, GetAndRead, MemoryAssumption DEF rows
<1>3. \A id \in Ids : Get(p, id) # NoRecord => Read(p, Get(p, id).slot) = Get(p, id)
  BY <1>2
<1>4. ASSUME NEW hits \in Search(p, Cardinality(rows))
      PROVE  { hits[i] : i \in DOMAIN hits } =
               { Get(p, id) : id \in { i \in Ids :
                   Get(p, i) # NoRecord /\ Get(p, i).rank < NoMatch } }
  <2> DEFINE matches == { r \in rows : ~ IsExpired(r, now) /\ r.rank < NoMatch }
  <2>1. hits \in BestFirst(matches, Cardinality(rows))
    BY <1>4 DEF Search, rows
  <2>2. matches = { Get(p, id) : id \in { i \in Ids :
                      Get(p, i) # NoRecord /\ Get(p, i).rank < NoMatch } }
    BY <1>2
  <2>3. matches \in SUBSET rows
    OBVIOUS
  <2> HIDE DEF matches
  <2>4. IsFiniteSet(matches) /\ Cardinality(matches) <= Cardinality(rows)
        /\ Cardinality(rows) \in Nat
    BY <1>1, <2>3, FS_Subset, FS_CardinalityType
  <2> QED
    BY <2>1, <2>2, <2>4, AllOfTheBest
<1>5. Count(p) = Cardinality({ s \in Slots : Read(p, s) # NoRecord })
  <2> DEFINE live  == { r \in rows : ~ IsExpired(r, now) }
             taken == { s \in Slots : Read(p, s) # NoRecord }
             slot  == [ r \in live |-> r.slot ]
  <2>1. Count(p) = Cardinality(live)
    <3>1. { r \in rows : ~ IsoLeq(r, now) } = live
      BY <1>1, StringsAreInstants
    <3> QED
      BY <3>1 DEF Count, rows
  <2>2. slot \in [ live -> taken ]
    BY <1>2
  <2>3. \A r, k \in live : slot[r] = slot[k] => r = k
    BY <1>1 DEF Distinct
  <2>4. \A s \in taken : \E r \in live : slot[r] = s
    <3>1. SUFFICES ASSUME NEW s \in taken PROVE \E r \in live : slot[r] = s
      OBVIOUS
    <3>2. Read(p, s) \in live /\ slot[Read(p, s)] = s
      BY <1>2, <3>1
    <3> QED
      BY <3>2
  <2>5. IsFiniteSet(live)
    BY <1>1, FS_Subset
  <2> HIDE DEF live, taken, slot
  <2>6. slot \in Injection(live, taken) /\ slot \in Surjection(live, taken)
    BY <2>2, <2>3, <2>4, Fun_IsInj, Fun_IsSurj
  <2>7. ExistsBijection(live, taken)
    BY <2>6 DEF ExistsBijection, Bijection
  <2>8. Cardinality(taken) = Cardinality(live)
    BY <2>5, <2>7, FS_Bijection
  <2> QED
    BY <2>1, <2>8 DEF taken
<1> QED
  BY <1>3, <1>4, <1>5 DEF rows

\* get(), read(), search() and count() tell one story at every instant, that of
\* an expiry included, whatever the other processes are doing.
THEOREM ReadsTellOneStory ==
  ASSUME Utc
  PROVE  Spec => []ReadsAgree
<1>1. Ground => ReadsAgree
  BY OneStory
<1> QED
  BY <1>1, Grounded, PTL

-----------------------------------------------------------------------------
(* Turns, operations and transactions *)

\* A step of one process leaves the turn, the operation and the transaction of
\* the others alone, and does not change the file under an open transaction.
LEMMA OthersUntouched ==
  ASSUME Ground, NEW p \in Procs,
         \/ Load(p) \/ RunReturns(p) \/ CommitTurn(p) \/ FailTurn(p) \/ Show(p) \/ End(p)
         \/ StartRecordOp(p) /\ UNCHANGED sessionVars
         \/ Statement(p) /\ UNCHANGED sessionVars,
         NEW q \in Procs \ { p }
  PROVE  /\ turn'[q] = turn[q] /\ op'[q] = op[q] /\ txn'[q] = txn[q]
         /\ disk' = disk \/ ~ txn[q].open
<1>1. /\ turn \in [ Procs -> Turn ] /\ op \in [ Procs -> Operation ]
      /\ txn \in [ Procs -> Txn ] /\ Holds /\ OneWriter
  BY DEF Ground, SessionTyped, StoreInv, Typed
<1>2. ASSUME Load(p) \/ Show(p)
      PROVE  turn'[q] = turn[q] /\ op' = op /\ txn' = txn /\ disk' = disk
  BY <1>1, <1>2 DEF Load, Show, storeVars
<1>3. ASSUME RunReturns(p)
      PROVE  turn'[q] = turn[q] /\ op'[q] = op[q] /\ txn' = txn /\ disk' = disk
  BY <1>1, <1>3 DEF RunReturns, Start
<1>4. ASSUME CommitTurn(p)
      PROVE  turn'[q] = turn[q] /\ op'[q] = op[q] /\ txn'[q] = txn[q] /\ ~ txn[q].open
  BY <1>1, <1>4 DEF CommitTurn, Commit, Holds, Holding, OneWriter
<1>5. ASSUME FailTurn(p)
      PROVE  turn'[q] = turn[q] /\ op'[q] = op[q] /\ txn' = txn /\ disk' = disk
  BY <1>1, <1>5 DEF FailTurn, Busy, InsertFails, CommitFails, Fail
<1>6. ASSUME End(p)
      PROVE  turn'[q] = turn[q] /\ op'[q] = op[q] /\ txn'[q] = txn[q] /\ disk' = disk
  BY <1>1, <1>6 DEF End, Close
<1>7. ASSUME StartRecordOp(p), turn' = turn
      PROVE  turn'[q] = turn[q] /\ op'[q] = op[q] /\ txn' = txn /\ disk' = disk
  BY <1>1, <1>7 DEF StartRecordOp, Start
<1>8. ASSUME Statement(p), turn' = turn
      PROVE  turn'[q] = turn[q] /\ op'[q] = op[q] /\ txn'[q] = txn[q] /\ disk' = disk
  <2>1. CASE CountExpired(p)
    BY <1>1, <1>8, <2>1 DEF CountExpired
  <2>2. ASSUME NEW db, NEW step, Execute(p, db, step)
        PROVE  op'[q] = op[q] /\ txn'[q] = txn[q] /\ disk' = disk
    BY <1>1, <2>2 DEF Execute
  <2> QED
    BY <1>8, <2>1, <2>2 DEF Statement, WriteDelete, WriteInsert, DeleteRow, DeleteExpired,
                            SaveState
<1> QED
  BY <1>2, <1>3, <1>4, <1>5, <1>6, <1>7, <1>8 DEF sessionVars

LEMMA StillTied ==
  ASSUME NEW q \in Procs, Tied(q), turn'[q] = turn[q], op'[q] = op[q],
         txn'[q] = txn[q], disk' = disk \/ ~ txn[q].open
  PROVE  Tied(q)'
  BY DEF Tied

\* A statement on records leaves the session in the view as it is.
LEMMA RecordStatement ==
  ASSUME Ground, TurnAndOp, NEW p \in Procs, Statement(p), turn' = turn,
         op[p].kind # "save"
  PROVE  Tied(p)'
<1>1. /\ Typed /\ Tables /\ txn \in [ Procs -> Txn ] /\ op \in [ Procs -> Operation ]
      /\ turn[p] \in Turn /\ Tied(p) /\ turn[p].pc # "saving"
      /\ View(p) \in Database
  BY ViewOK DEF Ground, SessionTyped, StoreInv, Typed, TurnAndOp, Saving
<1>2. op[p].kind # "none" /\ disk' = disk
  BY StatementKeepsFile DEF Statement, At, WriteDelete, WriteInsert, DeleteRow, CountExpired,
                            DeleteExpired, SaveState
<1>3. turn[p].pc = "idle"
  BY <1>1, <1>2, NoOpOK DEF Tied, Turn
<1>4. View(p).state = disk.state
  BY <1>1, <1>3 DEF Tied, View
<1>5. ASSUME NEW rows, NEW step, Execute(p, [View(p) EXCEPT !.rows = rows], step)
      PROVE  Tied(p)'
  <2> DEFINE db == [View(p) EXCEPT !.rows = rows]
  <2>1. db.state = View(p).state
    BY <1>1 DEF Database
  <2>2. txn'[p] = [ open |-> TRUE, db |-> db ]
    BY <1>1, <1>5 DEF Execute
  <2> HIDE DEF db
  <2>3. txn'[p].db.state = disk'.state
    BY <1>2, <1>4, <2>1, <2>2
  <2> QED
    BY <1>3, <2>3 DEF Tied
<1>6. CASE CountExpired(p)
  BY <1>1, <1>2, <1>3, <1>6 DEF CountExpired, Tied
<1>7. ~ SaveState(p)
  BY DEF SaveState, At
<1>8. CASE WriteDelete(p)
  BY <1>5, <1>8 DEF WriteDelete
<1>9. CASE WriteInsert(p)
  BY <1>5, <1>9 DEF WriteInsert
<1>10. CASE DeleteRow(p)
  BY <1>5, <1>10 DEF DeleteRow
<1>11. CASE DeleteExpired(p)
  BY <1>5, <1>11 DEF DeleteExpired
<1> QED
  BY <1>6, <1>7, <1>8, <1>9, <1>10, <1>11 DEF Statement

LEMMA SaveStatement ==
  ASSUME Ground, TurnAndOp, NEW p \in Procs, Statement(p), turn' = turn,
         op[p].kind = "save"
  PROVE  Tied(p)'
<1>1. /\ Typed /\ Tables /\ txn \in [ Procs -> Txn ] /\ op \in [ Procs -> Operation ]
      /\ op[p] \in SaveOp /\ Tied(p) /\ turn[p].pc = "saving" /\ View(p) \in Database
  BY ViewOK, OperationKinds DEF Ground, SessionTyped, StoreInv, Typed, TurnAndOp, Saving
<1>2. SaveState(p)
  BY DEF Statement, At, WriteDelete, WriteInsert, DeleteRow, CountExpired, DeleteExpired
<1> DEFINE db == [View(p) EXCEPT !.state = op[p].state]
           o  == [op[p] EXCEPT !.step = "commit"]
<1>3. db.state = op[p].state
  BY <1>1 DEF Database
<1>4. o.step = "commit" /\ o.state = op[p].state
  BY <1>1 DEF SaveOp
<1>5. txn'[p] = [ open |-> TRUE, db |-> db ] /\ op'[p] = o
  BY <1>1, <1>2 DEF SaveState, Execute
<1> HIDE DEF db, o
<1> QED
  BY <1>1, <1>3, <1>4, <1>5 DEF Tied

LEMMA TiedStep ==
  ASSUME Ground, TurnAndOp, [Next]_vars
  PROVE  TurnAndOp'
<1>1. /\ turn \in [ Procs -> Turn ] /\ op \in [ Procs -> Operation ]
      /\ txn \in [ Procs -> Txn ] /\ Holds /\ SessionTyped
  BY DEF Ground, SessionTyped, StoreInv, Typed
<1>2. ASSUME NEW p \in Procs, Load(p) PROVE Tied(p)'
  <2>1. ~ txn[p].open /\ op[p].kind = "none"
    BY <1>1, <1>2, OperationKinds, NoOpOK DEF Load, Holds, Holding
  <2>2. op[p] = NoOp
    BY <1>1, <2>1, OperationKinds
  <2>3. turn'[p].pc = "running" /\ op' = op /\ txn' = txn
    BY <1>1, <1>2 DEF Load, storeVars
  <2> QED
    BY <2>1, <2>2, <2>3 DEF Tied
<1>3. ASSUME NEW p \in Procs, RunReturns(p) PROVE Tied(p)'
  <2>1. turn'[p].pc = "saving" /\ turn'[p].id = turn[p].id /\ turn'[p].base = turn[p].base
    BY <1>1, <1>3, TurnMoves DEF RunReturns
  <2>2. op'[p] = [ kind |-> "save", step |-> "change",
                   state |-> Append(turn[p].base, turn[p].id) ] /\ txn' = txn
    BY <1>1, <1>3 DEF RunReturns, Start
  <2>3. ~ txn[p].open
    BY <1>3 DEF RunReturns, TurnAndOp, Tied
  <2> QED
    BY <2>1, <2>2, <2>3 DEF Tied
<1>4. ASSUME NEW p \in Procs, CommitTurn(p) PROVE Tied(p)'
  <2>1. op'[p] = NoOp /\ txn'[p] = NoTxn
    BY <1>1, <1>4 DEF CommitTurn, Commit
  <2>2. turn'[p].pc # "running" /\ turn'[p].pc # "saving"
    <3>1. CASE op[p].kind = "save"
      <4>1. turn[p].pc # "idle" /\ turn' = [turn EXCEPT ![p].pc = "saved"]
        BY <1>4, <3>1 DEF CommitTurn, Ground, Saving
      <4> QED
        BY <1>1, <4>1, TurnMoves
    <3>2. CASE op[p].kind # "save"
      BY <1>1, <1>4, <3>2, NoOpOK DEF CommitTurn, Commit, TurnAndOp, Tied, Ground, Saving
    <3> QED
      BY <3>1, <3>2
  <2> QED
    BY <2>1, <2>2, NoTxnOK DEF Tied
<1>5. ASSUME NEW p \in Procs, FailTurn(p) PROVE Tied(p)'
  <2>1. op'[p] = NoOp /\ txn' = txn /\ disk' = disk /\ op[p].step # "none"
    BY <1>1, <1>5 DEF FailTurn, Busy, InsertFails, CommitFails, Fail, At
  <2>2. op[p] # NoOp
    BY <2>1, NoOpOK
  <2>3. CASE turn[p].pc = "saving"
    <3>1. turn' = [turn EXCEPT ![p].pc = "closing"]
      BY <1>5, <2>3 DEF FailTurn
    <3>2. turn'[p].pc = "closing"
      BY <1>1, <2>3, <3>1, TurnMoves
    <3> QED
      BY <2>1, <3>2 DEF Tied
  <2>4. CASE turn[p].pc # "saving"
    <3>1. turn' = turn /\ Tied(p)
      BY <1>5, <2>4 DEF FailTurn, TurnAndOp
    <3>2. turn[p].pc # "running"
      BY <2>2, <3>1 DEF Tied
    <3> QED
      BY <2>1, <2>4, <3>1, <3>2 DEF Tied
  <2> QED
    BY <2>3, <2>4
<1>6. ASSUME NEW p \in Procs, Show(p) PROVE Tied(p)'
  <2>1. turn[p].pc = "saved" /\ turn' = [turn EXCEPT ![p].pc = "closing"] /\ op' = op
    BY <1>6 DEF Show, storeVars
  <2>2. turn'[p].pc = "closing" /\ op[p] = NoOp
    BY <1>1, <2>1, TurnMoves DEF TurnAndOp, Tied
  <2> QED
    BY <2>1, <2>2 DEF Tied
<1>7. ASSUME NEW p \in Procs, End(p) PROVE Tied(p)'
  <2>1. turn'[p] = NoTurn /\ txn'[p] = NoTxn
    BY <1>1, <1>7 DEF End, Close
  <2> QED
    BY <2>1, NoTurnOK, NoTxnOK DEF Tied
<1>8. ASSUME NEW p \in Procs, turn[p].pc = "idle", StartRecordOp(p), turn' = turn
      PROVE  Tied(p)'
  <2>1. txn' = txn /\ disk' = disk
    BY <1>8 DEF StartRecordOp, Start
  <2> QED
    BY <1>8, <2>1 DEF Tied, TurnAndOp
<1>9. ASSUME NEW p \in Procs, Statement(p), turn' = turn PROVE Tied(p)'
  BY <1>9, RecordStatement, SaveStatement
<1>10. ASSUME NEW p \in Procs,
              \/ Load(p) \/ RunReturns(p) \/ CommitTurn(p) \/ FailTurn(p) \/ Show(p) \/ End(p)
              \/ turn[p].pc = "idle" /\ StartRecordOp(p) /\ UNCHANGED sessionVars
              \/ Statement(p) /\ UNCHANGED sessionVars
       PROVE  TurnAndOp'
  <2>1. Tied(p)'
    BY <1>2, <1>3, <1>4, <1>5, <1>6, <1>7, <1>8, <1>9, <1>10 DEF sessionVars
  <2>2. \A q \in Procs \ { p } : Tied(q)'
    BY <1>10, OthersUntouched, StillTied DEF TurnAndOp
  <2> QED
    BY <2>1, <2>2 DEF TurnAndOp
<1>11. ASSUME turn' = turn, op' = op, txn' = txn, disk' = disk PROVE TurnAndOp'
  BY <1>11 DEF TurnAndOp, Tied
<1>12. CASE Tick /\ UNCHANGED sessionVars
  BY <1>11, <1>12 DEF Tick, sessionVars
<1>13. CASE UNCHANGED vars
  BY <1>11, <1>13 DEF vars, storeVars, sessionVars
<1> QED
  BY <1>10, <1>12, <1>13 DEF Next

-----------------------------------------------------------------------------
(* The history of the session *)

LEMMA SavedTaken ==
  ASSUME SessionTyped
  PROVE  Saved \subseteq Taken /\ Taken \subseteq Turns
  BY DEF SessionTyped, Saved, Taken, Events

\* What has happened stays so, whatever the log grows by.
LEMMA LogStays ==
  ASSUME SessionTyped, NEW kind \in { "load", "save" }, NEW t \in Turns,
         log' = Append(log, << kind, t >>)
  PROVE  /\ Taken' = Taken \cup { t }
         /\ kind = "load" => Saved' = Saved
         /\ kind = "save" => Saved' = Saved \cup { t }
         /\ \A u : Lost(u, log) => Lost(u, log')
         /\ \A id, base : KeptAtLoad(id, base, log) => KeptAtLoad(id, base, log')
<1> DEFINE n == Len(log)
<1>1. /\ n \in Nat /\ DOMAIN log = 1..n /\ DOMAIN log' = 1..(n + 1)
      /\ log'[n + 1] = << kind, t >> /\ \A i \in 1..n : log'[i] = log[i]
  BY LogGrows
<1> HIDE DEF n
<1>2. 1..(n + 1) = (1..n) \cup { n + 1 }
  BY <1>1
<1>3. \A i \in 1..n : log'[i][1] = log[i][1] /\ log'[i][2] = log[i][2]
  BY <1>1
<1>4. log'[n + 1][1] = kind /\ log'[n + 1][2] = t
  BY <1>1
<1>5. Taken' = Taken \cup { t }
  BY <1>1, <1>2, <1>3, <1>4 DEF Taken
<1>6. (kind = "load" => Saved' = Saved) /\ (kind = "save" => Saved' = Saved \cup { t })
  <2>1. ASSUME NEW u PROVE u \in Saved <=> \E k \in 1..n : log[k][1] = "save" /\ log[k][2] = u
    BY <1>1 DEF Saved
  <2>2. ASSUME NEW u
        PROVE  u \in Saved' <=> \E k \in 1..(n + 1) : log'[k][1] = "save" /\ log'[k][2] = u
    BY <1>1 DEF Saved
  <2>3. ASSUME NEW u PROVE u \in Saved' <=> u \in Saved \/ (kind = "save" /\ u = t)
    <3>1. (\E k \in 1..(n + 1) : log'[k][1] = "save" /\ log'[k][2] = u)
            <=> \/ \E k \in 1..n : log'[k][1] = "save" /\ log'[k][2] = u
                \/ log'[n + 1][1] = "save" /\ log'[n + 1][2] = u
      BY <1>2
    <3>2. (\E k \in 1..n : log'[k][1] = "save" /\ log'[k][2] = u)
            <=> \E k \in 1..n : log[k][1] = "save" /\ log[k][2] = u
      BY <1>3
    <3> QED
      BY <1>4, <2>1, <2>2, <3>1, <3>2
  <2> QED
    BY <2>3
<1>7. ASSUME NEW u, Lost(u, log) PROVE Lost(u, log')
  <2>1. PICK v \in Turns, i \in 1..n, j \in 1..n, k \in 1..n :
          /\ i < j /\ j < k
          /\ log[i] = << "load", v >>
          /\ log[j] = << "save", u >>
          /\ log[k] = << "save", v >>
    BY <1>1, <1>7 DEF Lost
  <2>2. i \in DOMAIN log' /\ j \in DOMAIN log' /\ k \in DOMAIN log'
        /\ log'[i] = << "load", v >> /\ log'[j] = << "save", u >> /\ log'[k] = << "save", v >>
    BY <1>1, <1>2, <2>1
  <2> QED
    BY <2>1, <2>2 DEF Lost
<1>8. ASSUME NEW id, NEW base, KeptAtLoad(id, base, log) PROVE KeptAtLoad(id, base, log')
  <2>1. PICK i \in 1..n :
          /\ log[i] = << "load", id >>
          /\ \A j \in 1..(i - 1) : log[j][1] = "save" =>
               In(log[j][2], base) \/ Lost(log[j][2], log)
    BY <1>1, <1>8 DEF KeptAtLoad
  <2>2. i \in DOMAIN log' /\ log'[i] = << "load", id >>
    BY <1>1, <1>2, <2>1
  <2>3. ASSUME NEW j \in 1..(i - 1), log'[j][1] = "save"
        PROVE  In(log'[j][2], base) \/ Lost(log'[j][2], log')
    <3>1. j \in 1..n /\ log'[j] = log[j]
      BY <1>1
    <3>2. In(log[j][2], base) \/ Lost(log[j][2], log)
      BY <2>1, <2>3, <3>1
    <3> QED
      BY <1>7, <3>1, <3>2
  <2> QED
    BY <2>2, <2>3 DEF KeptAtLoad
<1> QED
  BY <1>5, <1>6, <1>7, <1>8

\* Steps at which nothing is loaded, saved or lost.
LEMMA QuietStep ==
  ASSUME SessionTyped, History, log' = log, disk'.state = disk.state,
         \A p \in Procs : InTurn(p)' =>
           InTurn(p) /\ turn'[p].id = turn[p].id /\ turn'[p].base = turn[p].base,
         \A p \in Procs : turn'[p].pc = "saved" =>
           turn[p].pc = "saved" /\ turn'[p].id = turn[p].id,
         shown' \subseteq Saved
  PROVE  History'
<1>1. Taken' = Taken /\ Saved' = Saved
  BY DEF Taken, Saved
<1>2. TakenInOrder'
  BY <1>1 DEF History, TakenInOrder
<1>3. Bases'
  BY <1>1 DEF History, Bases
<1>4. IsHistory(disk.state, Saved)' /\ SavedKept'
  BY <1>1 DEF History, SavedKept
<1>5. ShownSaved'
  BY <1>1 DEF History, ShownSaved
<1> QED
  BY <1>2, <1>3, <1>4, <1>5 DEF History

LEMMA MoreSaved ==
  ASSUME NEW q, NEW saved, NEW more, saved \subseteq more, IsHistory(q, saved)
  PROVE  IsHistory(q, more)
  BY DEF IsHistory

\* Turns already going on, when the log grows.
LEMMA BasesStay ==
  ASSUME SessionTyped, Bases, NEW kind \in { "load", "save" }, NEW t \in Turns,
         log' = Append(log, << kind, t >>), NEW q \in Procs, turn'[q] = turn[q], InTurn(q)'
  PROVE  /\ IsHistory(turn'[q].base, Saved')
         /\ turn'[q].id \in Taken'
         /\ \A i \in DOMAIN turn'[q].base : turn'[q].base[i] < turn'[q].id
         /\ KeptAtLoad(turn'[q].id, turn'[q].base, log')
<1>1. /\ IsHistory(turn[q].base, Saved) /\ turn[q].id \in Taken
      /\ \A i \in DOMAIN turn[q].base : turn[q].base[i] < turn[q].id
      /\ KeptAtLoad(turn[q].id, turn[q].base, log)
  BY DEF Bases, InTurn
<1>2. Taken \subseteq Taken' /\ Saved \subseteq Saved'
      /\ KeptAtLoad(turn[q].id, turn[q].base, log')
  BY <1>1, LogStays
<1> QED
  BY <1>1, <1>2, MoreSaved

LEMMA LoadKeepsHistory ==
  ASSUME Ground, History, NEW p \in Procs, Load(p)
  PROVE  History'
<1>1. PICK t \in Turns \ Taken :
        /\ \A u \in Turns \ Taken : t <= u
        /\ turn' = [turn EXCEPT ![p] =
                     [ pc |-> "running", id |-> t, base |-> LoadState(p) ]]
        /\ log' = Append(log, << "load", t >>)
  BY DEF Load
<1>2. /\ SessionTyped /\ StoreInv /\ disk' = disk /\ shown' = shown
      /\ turn \in [ Procs -> Turn ] /\ log \in Seq(Events)
      /\ disk.state \in Seq(Turns)
  BY DEF Ground, Load, storeVars, SessionTyped, StoreInv, Typed, Database
<1>3. LoadState(p) = disk.state
  <2>1. op[p] = NoOp /\ ~ dirty[p]
    BY <1>2, OperationKinds DEF Load, StoreInv, Typed
  <2>2. ~ Holding(p)
    BY <2>1, NoOpOK DEF Holding
  <2> QED
    BY <1>2, <2>1, <2>2, ViewIsDisk DEF LoadState, StoreInv
<1>4. /\ Taken' = Taken \cup { t } /\ Saved' = Saved
      /\ \A u : Lost(u, log) => Lost(u, log')
  BY <1>1, <1>2, LogStays
<1>5. TakenInOrder'
  BY <1>1, <1>4, <1>2, SavedTaken, SessionAssumption DEF History, TakenInOrder
<1>6. Bases'
  <2>1. ASSUME NEW q \in Procs \ { p }, InTurn(q)'
        PROVE  /\ IsHistory(turn'[q].base, Saved')
               /\ turn'[q].id \in Taken'
               /\ \A i \in DOMAIN turn'[q].base : turn'[q].base[i] < turn'[q].id
               /\ KeptAtLoad(turn'[q].id, turn'[q].base, log')
    <3>1. turn'[q] = turn[q]
      BY <1>1, <1>2
    <3> QED
      BY <1>1, <1>2, <2>1, <3>1, BasesStay DEF History
  <2>2. turn'[p].id = t /\ turn'[p].base = disk.state
    BY <1>1, <1>2, <1>3
  <2>3. IsHistory(disk.state, Saved')
    BY <1>4 DEF History
  <2>4. ASSUME NEW i \in DOMAIN disk.state PROVE disk.state[i] < t
    <3>1. disk.state[i] \in Taken
      BY <1>2, SavedTaken DEF History, IsHistory
    <3>2. disk.state[i] \in Nat /\ t \in Nat /\ disk.state[i] # t /\ disk.state[i] \in Turns
      BY <1>1, <1>2, <3>1, SavedTaken, SessionAssumption
    <3>3. ~ (t < disk.state[i])
      BY <1>1, <3>1, <3>2 DEF History, TakenInOrder
    <3> QED
      BY <3>2, <3>3
  <2>5. KeptAtLoad(t, disk.state, log')
    <3> DEFINE n == Len(log)
    <3>1. n \in Nat /\ DOMAIN log = 1..n /\ DOMAIN log' = 1..(n + 1)
          /\ log'[n + 1] = << "load", t >> /\ \A i \in 1..n : log'[i] = log[i]
      BY <1>1, <1>2, LogGrows
    <3> HIDE DEF n
    <3>2. ASSUME NEW j \in 1..n, log'[j][1] = "save"
          PROVE  In(log'[j][2], disk.state) \/ Lost(log'[j][2], log')
      <4>1. log'[j] = log[j] /\ log[j][2] \in Saved
        BY <3>1, <3>2 DEF Saved
      <4> QED
        BY <1>4, <4>1 DEF History, SavedKept
    <3>3. (n + 1) \in DOMAIN log' /\ (n + 1) - 1 = n
      BY <3>1
    <3> QED
      BY <3>1, <3>2, <3>3 DEF KeptAtLoad
  <2> QED
    BY <1>4, <2>1, <2>2, <2>3, <2>4, <2>5 DEF Bases
<1>7. IsHistory(disk'.state, Saved')
  BY <1>2, <1>4 DEF History
<1>8. SavedKept'
  BY <1>2, <1>4 DEF History, SavedKept
<1>9. ShownSaved'
  <2>1. turn'[p].pc # "saved" /\ \A q \in Procs \ { p } : turn'[q] = turn[q]
    BY <1>1, <1>2
  <2> QED
    BY <1>2, <1>4, <2>1 DEF History, ShownSaved
<1> QED
  BY <1>5, <1>6, <1>7, <1>8, <1>9 DEF History

\* The State a turn saves is the one it loaded and the turn; what it did not
\* load was saved after it had loaded, and is lost now.
LEMMA SaveKeepsHistory ==
  ASSUME Ground, TurnAndOp, History, NEW p \in Procs, CommitTurn(p), op[p].kind = "save"
  PROVE  History'
<1> DEFINE t == turn[p].id
           base == turn[p].base
<1>1. /\ SessionTyped /\ turn[p].pc = "saving" /\ op[p].step = "commit"
      /\ turn' = [turn EXCEPT ![p].pc = "saved"] /\ shown' = shown
      /\ log' = Append(log, << "save", t >>) /\ disk' = txn[p].db
  BY DEF Ground, Saving, CommitTurn, Commit
<1>2. /\ t \in Turns /\ base \in Seq(Turns) /\ turn'[p].pc = "saved" /\ turn'[p].id = t
      /\ \A q \in Procs \ { p } : turn'[q] = turn[q]
  BY <1>1, TurnMoves DEF SessionTyped, Turn
<1>3. disk'.state = Append(base, t)
  BY <1>1 DEF TurnAndOp, Tied
<1>4. /\ IsHistory(base, Saved) /\ t \in Taken
      /\ \A i \in DOMAIN base : base[i] < t
      /\ KeptAtLoad(t, base, log)
  BY <1>1 DEF History, Bases, InTurn
<1> HIDE DEF t, base
<1>5. /\ Taken' = Taken \cup { t } /\ Saved' = Saved \cup { t }
      /\ \A u : Lost(u, log) => Lost(u, log')
  BY <1>1, <1>2, LogStays
<1> DEFINE m == Len(base)
           new == Append(base, t)
<1>6. /\ m \in Nat /\ DOMAIN base = 1..m /\ DOMAIN new = 1..(m + 1) /\ new[m + 1] = t
      /\ \A i \in 1..m : new[i] = base[i]
      /\ 1..(m + 1) = (1..m) \cup { m + 1 }
  BY <1>2
<1> HIDE DEF m, new
<1>7. TakenInOrder'
  BY <1>4, <1>5 DEF History, TakenInOrder
<1>8. Bases'
  <2>1. ASSUME NEW q \in Procs, InTurn(q)'
        PROVE  /\ IsHistory(turn'[q].base, Saved')
               /\ turn'[q].id \in Taken'
               /\ \A i \in DOMAIN turn'[q].base : turn'[q].base[i] < turn'[q].id
               /\ KeptAtLoad(turn'[q].id, turn'[q].base, log')
    <3>1. turn'[q] = turn[q]
      BY <1>2, <2>1 DEF InTurn
    <3> QED
      BY <1>1, <1>2, <2>1, <3>1, BasesStay DEF History
  <2> QED
    BY <2>1 DEF Bases
<1>9. IsHistory(disk'.state, Saved')
  <2>1. ASSUME NEW i \in 1..(m + 1), NEW j \in 1..(m + 1), i < j PROVE new[i] < new[j]
    BY <1>4, <1>6, <2>1 DEF IsHistory
  <2>2. \A i \in 1..(m + 1) : new[i] \in Saved'
    BY <1>4, <1>5, <1>6 DEF IsHistory
  <2>3. IsHistory(new, Saved')
    BY <1>6, <2>1, <2>2 DEF IsHistory
  <2> QED
    BY <1>3, <2>3 DEF new
<1>10. SavedKept'
  <2>1. disk'.state = new
    BY <1>3 DEF new
  <2>2. \A u : In(u, base) => In(u, new)
    BY <1>6 DEF In
  <2>3. In(t, new)
    BY <1>6 DEF In
  <2>4. ASSUME NEW u \in Saved PROVE In(u, new) \/ Lost(u, log')
    <3> DEFINE n == Len(log)
    <3>1. n \in Nat /\ DOMAIN log = 1..n /\ DOMAIN log' = 1..(n + 1)
          /\ log'[n + 1] = << "save", t >> /\ \A i \in 1..n : log'[i] = log[i]
      BY <1>1, <1>2, LogGrows
    <3> HIDE DEF n
    <3>2. PICK i \in 1..n :
            /\ log[i] = << "load", t >>
            /\ \A j \in 1..(i - 1) : log[j][1] = "save" =>
                 In(log[j][2], base) \/ Lost(log[j][2], log)
      BY <1>4, <3>1 DEF KeptAtLoad
    <3>3. PICK k \in 1..n : log[k][1] = "save" /\ log[k][2] = u
      BY <3>1 DEF Saved
    <3>4. log[k] = << "save", u >>
      <4>1. log[k] \in Events
        BY <1>1, <3>1 DEF SessionTyped
      <4> QED
        BY <3>3, <4>1 DEF Events
    <3>5. CASE k < i
      <4>1. k \in 1..(i - 1)
        BY <3>1, <3>5
      <4> QED
        BY <1>5, <2>2, <3>2, <3>3, <4>1
    <3>6. CASE ~ (k < i)
      <4>1. k # i
        BY <3>2, <3>3
      <4>2. i < k /\ k < n + 1
        BY <3>1, <3>6, <4>1
      <4>3. i \in DOMAIN log' /\ k \in DOMAIN log' /\ n + 1 \in DOMAIN log'
            /\ log'[i] = << "load", t >> /\ log'[k] = << "save", u >>
        BY <3>1, <3>2, <3>4
      <4>4. Lost(u, log')
        BY <1>2, <3>1, <4>2, <4>3 DEF Lost
      <4> QED
        BY <4>4
    <3> QED
      BY <3>5, <3>6
  <2> QED
    BY <1>5, <2>1, <2>3, <2>4 DEF SavedKept
<1>11. ShownSaved'
  BY <1>1, <1>2, <1>5 DEF History, ShownSaved
<1> QED
  BY <1>7, <1>8, <1>9, <1>10, <1>11 DEF History

LEMMA HistoryStep ==
  ASSUME Ground, TurnAndOp, History, [Next]_vars
  PROVE  History'
<1>1. /\ SessionTyped /\ turn \in [ Procs -> Turn ] /\ shown \subseteq Saved
      /\ \A p \in Procs : turn[p].pc = "saved" => turn[p].id \in Saved
  BY DEF Ground, SessionTyped, History, ShownSaved
<1>2. ASSUME disk' = disk, log' = log, turn' = turn, shown' = shown PROVE History'
  BY <1>1, <1>2, QuietStep DEF InTurn
\* The turn of one process goes on, or ends, and nothing is loaded or saved.
<1>3. ASSUME NEW p \in Procs, disk'.state = disk.state, log' = log, shown' \subseteq Saved,
             \A q \in Procs \ { p } : turn'[q] = turn[q], turn'[p].pc # "saved",
             turn'[p].pc \in { "running", "saving" } =>
               InTurn(p) /\ turn'[p].id = turn[p].id /\ turn'[p].base = turn[p].base
      PROVE  History'
  <2>1. ASSUME NEW q \in Procs, InTurn(q)'
        PROVE  InTurn(q) /\ turn'[q].id = turn[q].id /\ turn'[q].base = turn[q].base
    BY <1>3, <2>1 DEF InTurn
  <2>2. ASSUME NEW q \in Procs, turn'[q].pc = "saved"
        PROVE  turn[q].pc = "saved" /\ turn'[q].id = turn[q].id
    BY <1>3, <2>2
  <2> QED
    BY <1>1, <1>3, <2>1, <2>2, QuietStep
<1>4. ASSUME NEW p \in Procs, RunReturns(p) PROVE History'
  <2>1. turn' = [turn EXCEPT ![p].pc = "saving"] /\ turn[p].pc = "running"
        /\ disk' = disk /\ log' = log /\ shown' = shown
    BY <1>4 DEF RunReturns, Start
  <2>2. turn'[p].pc = "saving" /\ turn'[p].id = turn[p].id /\ turn'[p].base = turn[p].base
        /\ \A q \in Procs \ { p } : turn'[q] = turn[q]
    BY <1>1, <2>1, TurnMoves
  <2> QED
    BY <1>1, <1>3, <2>1, <2>2 DEF InTurn
<1>5. ASSUME NEW p \in Procs, CommitTurn(p) PROVE History'
  <2>1. CASE op[p].kind = "save"
    BY <1>5, <2>1, SaveKeepsHistory
  <2>2. CASE op[p].kind # "save"
    <3>1. turn' = turn /\ log' = log /\ shown' = shown /\ disk' = txn[p].db
          /\ op[p].step = "commit"
      BY <1>5, <2>2 DEF CommitTurn, Commit
    <3>2. txn[p].open /\ turn[p].pc = "idle"
      BY <1>1, <2>2, <3>1, NoOpOK
         DEF Ground, StoreInv, Holds, Holding, Saving, TurnAndOp, Tied, Turn
    <3>3. disk'.state = disk.state
      BY <3>1, <3>2 DEF TurnAndOp, Tied
    <3> QED
      BY <1>1, <1>3, <3>1, <3>2, <3>3
  <2> QED
    BY <2>1, <2>2
<1>6. ASSUME NEW p \in Procs, FailTurn(p) PROVE History'
  <2>1. disk' = disk /\ log' = log /\ shown' = shown
    BY <1>6 DEF FailTurn, Busy, InsertFails, CommitFails, Fail
  <2>2. CASE turn[p].pc = "saving"
    <3>1. turn' = [turn EXCEPT ![p].pc = "closing"]
      BY <1>6, <2>2 DEF FailTurn
    <3>2. turn'[p].pc = "closing" /\ \A q \in Procs \ { p } : turn'[q] = turn[q]
      BY <1>1, <2>2, <3>1, TurnMoves
    <3> QED
      BY <1>1, <1>3, <2>1, <3>2
  <2>3. CASE turn[p].pc # "saving"
    BY <1>2, <1>6, <2>1, <2>3 DEF FailTurn
  <2> QED
    BY <2>2, <2>3
<1>7. ASSUME NEW p \in Procs, Show(p) PROVE History'
  <2>1. turn' = [turn EXCEPT ![p].pc = "closing"] /\ turn[p].pc = "saved"
        /\ disk' = disk /\ log' = log /\ shown' = shown \cup { turn[p].id }
    BY <1>7 DEF Show, storeVars
  <2>2. turn'[p].pc = "closing" /\ \A q \in Procs \ { p } : turn'[q] = turn[q]
    BY <1>1, <2>1, TurnMoves
  <2> QED
    BY <1>1, <1>3, <2>1, <2>2
<1>8. ASSUME NEW p \in Procs, End(p) PROVE History'
  <2>1. turn'[p] = NoTurn /\ (\A q \in Procs \ { p } : turn'[q] = turn[q])
        /\ disk' = disk /\ log' = log /\ shown' = shown
    BY <1>1, <1>8 DEF End, Close
  <2> QED
    BY <1>1, <1>3, <2>1, NoTurnOK
<1>9. ASSUME NEW p \in Procs, StartRecordOp(p) \/ Statement(p), UNCHANGED sessionVars
      PROVE  History'
  BY <1>2, <1>9, StatementKeepsFile DEF sessionVars
<1>10. CASE Tick /\ UNCHANGED sessionVars
  BY <1>2, <1>10 DEF Tick, sessionVars
<1>11. CASE UNCHANGED vars
  BY <1>2, <1>11 DEF vars, storeVars, sessionVars
<1>12. ASSUME NEW p \in Procs, Load(p) PROVE History'
  BY <1>12, LoadKeepsHistory
<1> QED
  BY <1>4, <1>5, <1>6, <1>7, <1>8, <1>9, <1>10, <1>11, <1>12 DEF Next

LEMMA HistoryInit ==
  ASSUME Init
  PROVE  TurnAndOp /\ History
<1>1. /\ disk = Empty /\ log = <<>> /\ shown = {}
      /\ \A p \in Procs : turn[p] = NoTurn /\ op[p] = NoOp /\ txn[p] = NoTxn
  BY DEF Init, StoreInit
<1>2. disk.state = <<>>
  BY <1>1 DEF Empty
<1>3. Taken = {} /\ Saved = {}
  BY <1>1 DEF Taken, Saved
<1>4. TurnAndOp
  BY <1>1, NoTurnOK, NoTxnOK DEF TurnAndOp, Tied
<1>5. TakenInOrder /\ Bases /\ SavedKept /\ ShownSaved
  BY <1>1, <1>3, NoTurnOK DEF TakenInOrder, Bases, InTurn, SavedKept, ShownSaved
<1>6. IsHistory(disk.state, Saved)
  BY <1>2 DEF IsHistory
<1> QED
  BY <1>4, <1>5, <1>6 DEF History

LEMMA Invariant == Spec => []IInv
<1>1. Init => IInv
  BY GroundInit, HistoryInit DEF IInv
<1>2. IInv /\ [Next]_vars => IInv'
  BY GroundStep, TiedStep, HistoryStep DEF IInv
<1> QED
  BY <1>1, <1>2, PTL DEF Spec

\* A session in the file is a history: turns in the order they were loaded,
\* each once, none that was not saved.
THEOREM FileIsHistory == Spec => []SessionIsHistory
<1>1. ASSUME IInv PROVE SessionIsHistory
  <2>1. SessionTyped /\ IsHistory(disk.state, Saved)
    BY <1>1 DEF IInv, Ground, History
  <2>2. ASSUME NEW t \in Saved PROVE \E k \in DOMAIN log : log[k] = << "save", t >>
    <3>1. PICK k \in DOMAIN log : log[k][1] = "save" /\ log[k][2] = t
      BY DEF Saved
    <3>2. log[k] \in Events
      BY <2>1 DEF SessionTyped
    <3> QED
      BY <3>1, <3>2 DEF Events
  <2> QED
    BY <2>1, <2>2 DEF IsHistory, SessionIsHistory
<1> QED
  BY <1>1, Invariant, PTL

\* A turn whose answer the user has seen is in the session for good, through
\* crashes, failed commits and later turns; only a turn of another process that
\* had loaded the session before it was saved, and saves after it, wipes it out.
THEOREM ShownTurnsAreKept == Spec => []LostOnlyToOverlap
<1>1. ASSUME IInv PROVE LostOnlyToOverlap
  <2>1. SUFFICES ASSUME NEW t \in shown
                 PROVE  \/ \E i \in DOMAIN disk.state : disk.state[i] = t
                        \/ \E u \in Turns : Overlaps(u, t)
    BY DEF LostOnlyToOverlap
  <2>2. In(t, disk.state) \/ Lost(t, log)
    BY <1>1 DEF IInv, History, ShownSaved, SavedKept
  <2> QED
    BY <2>2 DEF In, Lost, Overlaps
<1> QED
  BY <1>1, Invariant, PTL
=============================================================================
