----------------------------- MODULE SQLiteStore -----------------------------
(***************************************************************************)
(* SQLiteMemoryStore of memory/sqlite.py: connections of several processes *)
(* to one database file.  The lock of the store object makes a connection  *)
(* do one operation at a time; between the statements of an operation the  *)
(* other connections go on, a statement may fail, and the process may die. *)
(*                                                                         *)
(* SQLite itself is modelled from how the code uses it: the first DELETE,  *)
(* INSERT or UPDATE opens a transaction, one connection at a time may have *)
(* changed something in one, a connection reads its own changes, and what  *)
(* is not committed is gone when the connection closes.  The code never    *)
(* rolls back.  Left out: the creation of the tables, idempotent.          *)
(***************************************************************************)
EXTENDS MemoryRecords

CONSTANTS
  Procs,   \* processes, one connection each
  Turns,   \* what a saved State is made of
  MaxOps   \* bound: operations on the records

ASSUME StoreAssumption == MaxOps \in Nat

VARIABLES
  disk,   \* the committed database: the rows of memory_records and the State
          \* of the session in states
  txn,    \* per connection: the open transaction's view, if `open`
  op,     \* per connection: the operation in progress, and its step
  dirty,  \* history: an operation has failed since the last commit
  now,    \* the wall clock
  ops     \* operations on the records so far

storeVars == << disk, txn, op, dirty, now, ops >>

Row      == Records
Database == [ rows : SUBSET Row, state : Seq(Turns) ]
Empty    == [ rows |-> {}, state |-> <<>> ]
NoTxn    == [ open |-> FALSE, db |-> Empty ]
NoOp     == [ kind |-> "none", step |-> "none" ]

View(p) == IF txn[p].open THEN txn[p].db ELSE disk

-----------------------------------------------------------------------------
(* Queries, on what the connection sees *)

\* Seeded fault: a record expires only after its time.
IsoLeqStrict(r, t) == r.expires # Never /\ r.expires + r.offset < t

\* expires_at <= now, compared as ISO strings: wall times of whatever zone,
\* and "+00:00" sorts before every other offset.
IsoLeq(r, t) ==
  /\ r.expires # Never
  /\ r.expires + r.offset < t \/ (r.expires = t /\ r.offset = 0)

LiveOrNone(rows) ==
  IF \E r \in rows : ~ IsExpired(r, now)
  THEN CHOOSE r \in rows : ~ IsExpired(r, now) ELSE NoRecord

Get(p, id)    == LiveOrNone({ r \in View(p).rows : r.id = id })
Read(p, slot) == LiveOrNone({ r \in View(p).rows : r.slot = slot })
Count(p)      == Cardinality({ r \in View(p).rows : ~ IsoLeq(r, now) })

\* The lists search() may return.
Search(p, limit) ==
  BestFirst({ r \in View(p).rows : ~ IsExpired(r, now) /\ r.rank < NoMatch }, limit)

-----------------------------------------------------------------------------
(* Statements *)

At(p, kind, step) == op[p].kind = kind /\ op[p].step = step

Frame == UNCHANGED << now, ops >>

NobodyElse(p) == \A q \in Procs \ {p} : ~ txn[q].open

\* A statement that leaves the connection's view `db`.
Execute(p, db, step) ==
  /\ NobodyElse(p)
  /\ txn' = [txn EXCEPT ![p] = [ open |-> TRUE, db |-> db ]]
  /\ op' = [op EXCEPT ![p].step = step]
  /\ Frame /\ UNCHANGED << disk, dirty >>

\* The operation raises; what it has done stays in the open transaction.
Fail(p) ==
  /\ op' = [op EXCEPT ![p] = NoOp]
  /\ dirty' = [dirty EXCEPT ![p] = TRUE]
  /\ Frame /\ UNCHANGED << disk, txn >>

\* Another connection kept its transaction longer than the busy timeout.
Busy(p) ==
  /\ op[p].step = "change"
  /\ ~ NobodyElse(p)
  /\ Fail(p)

Commit(p) ==
  /\ op[p].step = "commit"
  /\ disk' = txn[p].db
  /\ txn' = [txn EXCEPT ![p] = NoTxn]
  /\ op' = [op EXCEPT ![p] = NoOp]
  /\ dirty' = [dirty EXCEPT ![p] = FALSE]
  /\ Frame

\* A reader of the file, or the disk, refuses the commit.
CommitFails(p) == op[p].step = "commit" /\ Fail(p)

\* close(), or the end of the process, at any point.
Close(p) ==
  /\ txn' = [txn EXCEPT ![p] = NoTxn]
  /\ op' = [op EXCEPT ![p] = NoOp]
  /\ dirty' = [dirty EXCEPT ![p] = FALSE]
  /\ Frame /\ UNCHANGED disk

-----------------------------------------------------------------------------
(* Operations *)

Start(p, operation) ==
  /\ op[p].kind = "none"
  /\ op' = [op EXCEPT ![p] = operation]
  /\ UNCHANGED << disk, txn, dirty, now >>

StartRecordOp(p) ==
  /\ ops < MaxOps
  /\ ops' = ops + 1
  /\ \/ \E r \in Records :
          Start(p, [ kind |-> "write", step |-> "change", record |-> r ])
     \/ \E id \in Ids :
          Start(p, [ kind |-> "delete", step |-> "change", id |-> id ])
     \/ Start(p, [ kind |-> "cleanup", step |-> "count", at |-> now ])

\* Seeded fault: only the row with the id makes way.
ReplacedById(r) == { k \in Records : k.id = r.id }

Replaced(r) == { k \in Records : k.id = r.id \/ k.slot = r.slot }

\* Seeded fault: the connection commits every statement.
WriteDeleteAutocommit(p) ==
  /\ At(p, "write", "change") /\ NobodyElse(p)
  /\ disk' = [ View(p) EXCEPT !.rows = @ \ Replaced(op[p].record) ]
  /\ op' = [op EXCEPT ![p].step = "insert"]
  /\ Frame /\ UNCHANGED << txn, dirty >>

WriteDelete(p) ==
  /\ At(p, "write", "change")
  /\ Execute(p, [ View(p) EXCEPT !.rows = @ \ Replaced(op[p].record) ], "insert")

\* Primary key and unique index.
Conflict(p) ==
  \E k \in View(p).rows : k.id = op[p].record.id \/ k.slot = op[p].record.slot

WriteInsert(p) ==
  /\ At(p, "write", "insert") /\ ~ Conflict(p)
  /\ Execute(p, [ View(p) EXCEPT !.rows = @ \cup { op[p].record } ], "commit")

\* The content cannot be bound (a lone surrogate), the disk is full, ...
InsertFails(p) == At(p, "write", "insert") /\ Fail(p)

\* Seeded fault: delete returns without a commit.
DeleteRowUncommitted(p) ==
  /\ At(p, "delete", "change") /\ NobodyElse(p)
  /\ txn' = [txn EXCEPT ![p] = [ open |-> TRUE,
       db |-> [ View(p) EXCEPT !.rows = { k \in @ : k.id # op[p].id } ] ]]
  /\ op' = [op EXCEPT ![p] = NoOp]
  /\ Frame /\ UNCHANGED << disk, dirty >>

DeleteRow(p) ==
  /\ At(p, "delete", "change")
  /\ Execute(p, [ View(p) EXCEPT !.rows = { k \in @ : k.id # op[p].id } ], "commit")

\* cleanup_expired: nothing to remove, nothing to commit.
CountExpired(p) ==
  /\ At(p, "cleanup", "count")
  /\ op' = [op EXCEPT ![p] =
       IF \E r \in View(p).rows : IsoLeq(r, op[p].at)
       THEN [op[p] EXCEPT !.step = "change"] ELSE NoOp]
  /\ Frame /\ UNCHANGED << disk, txn, dirty >>

\* Seeded fault: count and deletion disagree on what expires right now.
SweptStrict(p) == { k \in View(p).rows : ~ IsoLeqStrict(k, op[p].at) }

Swept(p) == { k \in View(p).rows : ~ IsoLeq(k, op[p].at) }

DeleteExpired(p) ==
  /\ At(p, "cleanup", "change")
  /\ Execute(p, [ View(p) EXCEPT !.rows = Swept(p) ], "commit")

\* INSERT ... ON CONFLICT DO UPDATE
SaveState(p) ==
  /\ At(p, "save", "change")
  /\ Execute(p, [ View(p) EXCEPT !.state = op[p].state ], "commit")

Tick ==
  /\ now < MaxTime
  /\ now' = now + 1
  /\ UNCHANGED << disk, txn, op, dirty, ops >>

-----------------------------------------------------------------------------
StoreInit ==
  /\ disk = Empty
  /\ txn = [p \in Procs |-> NoTxn]
  /\ op = [p \in Procs |-> NoOp]
  /\ dirty = [p \in Procs |-> FALSE]
  /\ now = 0
  /\ ops = 0

\* Steps that neither end an operation of a session nor close a connection.
Statement(p) ==
  \/ WriteDelete(p) \/ WriteInsert(p) \/ DeleteRow(p)
  \/ CountExpired(p) \/ DeleteExpired(p) \/ SaveState(p)

-----------------------------------------------------------------------------
(* Properties *)

Distinct(rows) == \A r, k \in rows : r.id = k.id \/ r.slot = k.slot => r = k

\* Every variable in its domain, and ids and slots unique in the file and in
\* every open transaction; the INSERT of a write never meets its own unique
\* index (lines 84 and 89).
StoreTypeOK ==
  /\ disk \in Database /\ Distinct(disk.rows)
  /\ \A p \in Procs :
       /\ txn[p].open \in BOOLEAN /\ txn[p].db \in Database
       /\ Distinct(txn[p].db.rows)
       /\ op[p].kind \in { "none", "write", "delete", "cleanup", "save" }
       /\ op[p].step \in { "none", "change", "insert", "count", "commit" }
       /\ ~ (At(p, "write", "insert") /\ Conflict(p))
  /\ dirty \in [ Procs -> BOOLEAN ]
  /\ now \in 0..MaxTime /\ ops \in 0..MaxOps

\* read(), get(), search() and count() tell one story at every instant, that
\* of an expiry included, although count() compares strings (lines 121, 138,
\* 170, 241).
ReadsAgree ==
  \A p \in Procs :
    /\ \A id \in Ids : Get(p, id) # NoRecord => Read(p, Get(p, id).slot) = Get(p, id)
    /\ \A hits \in Search(p, Cardinality(View(p).rows)) :
         { hits[i] : i \in DOMAIN hits } =
           { Get(p, id) : id \in { i \in Ids : Get(p, i) # NoRecord
                                            /\ Get(p, i).rank < NoMatch } }
    /\ op[p].kind = "none" =>
         Count(p) = Cardinality({ s \in Slots : Read(p, s) # NoRecord })

\* An operation that has returned holds no transaction, and so no lock other
\* processes wait for; only an operation that raised leaves one open, until
\* the next commit or the end of the process (lines 103, 212, 231, 261).
LockHeldOnlyAfterFailure ==
  \A p \in Procs : txn[p].open /\ op[p].kind = "none" => dirty[p]

\* With several processes, crashes and an advancing clock the file changes
\* as the protocol of MemoryStore says, one whole operation at a time, unless
\* an operation has failed on the connection that commits: then half of a
\* write may come with the commit (lines 84-103).
Abstract == INSTANCE MemoryStore WITH kept <- disk.rows
ActsAsStore ==
  [][ \/ \E p \in Procs : dirty[p] /\ Commit(p)
      \/ Abstract!Next
      \/ UNCHANGED << disk.rows, now >> ]_storeVars

\* When cleanup_expired() returns on a connection where nothing has failed, no
\* record that had expired is left (line 215: "Delete expired records and return
\* the number of removed records").
CleanupComplete ==
  [][ \A p \in Procs :
        /\ op[p].kind = "cleanup" /\ ~ dirty[p]
        /\ \/ Commit(p)
           \/ CountExpired(p) /\ op'[p].kind = "none"
        => \A r \in disk'.rows : ~ IsExpired(r, op[p].at) ]_storeVars
=============================================================================
