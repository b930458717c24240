------------------------------- MODULE Session -------------------------------
(***************************************************************************)
(* The chat command of integrations/cli/app.py: processes that each take   *)
(* one turn of a session (_run_react_chat, _run_workflow_chat) over a      *)
(* SQLiteMemoryStore that library clients write records to as well.  A     *)
(* turn is three steps, load_state, run and save_state, and then its       *)
(* answer is shown.                                                        *)
(*                                                                         *)
(* A State is the sequence of the turns it contains.  The engine is what   *)
(* the caller sees of it: a final State with the turn, or an exception.    *)
(***************************************************************************)
EXTENDS SQLiteStore

ASSUME SessionAssumption == Turns \subseteq Nat

VARIABLES
  turn,    \* per process: where its turn is, the turn, and the State loaded
  log,     \* history: << "load" | "save", turn >> in the order they happened
  shown    \* history: turns whose answer the user has been shown

sessionVars == << turn, log, shown >>
vars        == << storeVars, sessionVars >>

NoTurn == [ pc |-> "idle", id |-> 0, base |-> <<>> ]

Taken == { log[i][2] : i \in DOMAIN log }

-----------------------------------------------------------------------------
\* Seeded fault: what another connection has not committed is read.
LoadUncommitted(p) ==
  IF \E q \in Procs : txn[q].open
  THEN txn[CHOOSE q \in Procs : txn[q].open].db.state ELSE disk.state

\* load_state; no row is a new State.
LoadState(p) == View(p).state

Load(p) ==
  /\ turn[p].pc = "idle" /\ op[p].kind = "none" /\ ~ dirty[p]
  /\ \E t \in Turns \ Taken :
       /\ \A u \in Turns \ Taken : t <= u
       /\ turn' = [turn EXCEPT ![p] =
                     [ pc |-> "running", id |-> t, base |-> LoadState(p) ]]
       /\ log' = Append(log, << "load", t >>)
  /\ UNCHANGED << storeVars, shown >>

\* The engine returns a State, FAILED or not; it is saved either way.
RunReturns(p) ==
  /\ turn[p].pc = "running"
  /\ Start(p, [ kind |-> "save", step |-> "change",
                state |-> Append(turn[p].base, turn[p].id) ])
  /\ turn' = [turn EXCEPT ![p].pc = "saving"]
  /\ UNCHANGED << ops, log, shown >>

\* The process goes on only when save_state has returned.
CommitTurn(p) ==
  /\ Commit(p)
  /\ IF op[p].kind = "save"
     THEN /\ turn' = [turn EXCEPT ![p].pc = "saved"]
          /\ log' = Append(log, << "save", turn[p].id >>)
     ELSE UNCHANGED << turn, log >>
  /\ UNCHANGED shown

\* An exception of save_state ends the turn; closing follows.
FailTurn(p) ==
  /\ Busy(p) \/ InsertFails(p) \/ CommitFails(p)
  /\ turn' = IF turn[p].pc = "saving" THEN [turn EXCEPT ![p].pc = "closing"] ELSE turn
  /\ UNCHANGED << log, shown >>

\* Seeded fault: the answer is shown before it is saved.
ShowEarly(p) ==
  /\ turn[p].pc \in { "saving", "saved" }
  /\ shown' = shown \cup { turn[p].id }
  /\ turn' = [turn EXCEPT ![p].pc = IF @ = "saved" THEN "closing" ELSE @]
  /\ UNCHANGED << storeVars, log >>

\* typer.echo of the assistant's message; a FAILED turn shows its error.
Show(p) ==
  /\ turn[p].pc = "saved"
  /\ shown' = shown \cup { turn[p].id }
  /\ turn' = [turn EXCEPT ![p].pc = "closing"]
  /\ UNCHANGED << storeVars, log >>

\* The process ends, by its own close() in `finally` (after the turn, or
\* because run() raised) or by a crash; the next chat opens a new connection.
End(p) ==
  /\ Close(p)
  /\ turn' = [turn EXCEPT ![p] = NoTurn]
  /\ UNCHANGED << log, shown >>

Init ==
  /\ StoreInit
  /\ turn = [p \in Procs |-> NoTurn]
  /\ log = <<>>
  /\ shown = {}

Next ==
  \/ \E p \in Procs :
       \/ Load(p) \/ RunReturns(p) \/ CommitTurn(p) \/ FailTurn(p) \/ Show(p) \/ End(p)
       \/ turn[p].pc = "idle" /\ StartRecordOp(p) /\ UNCHANGED sessionVars
       \/ Statement(p) /\ UNCHANGED sessionVars
  \/ Tick /\ UNCHANGED sessionVars

Spec == Init /\ [][Next]_vars

-----------------------------------------------------------------------------
(* Properties *)

\* Turn t had loaded its State when u was saved, and was saved after that.
Overlaps(t, u) ==
  \E i, j, k \in DOMAIN log :
    /\ i < j /\ j < k
    /\ log[i] = << "load", t >>
    /\ log[j] = << "save", u >>
    /\ log[k] = << "save", t >>

\* A turn whose answer the user has seen is in the session for good, through
\* crashes, failed commits and later turns; only a turn of another process
\* that overlaps it can wipe it out (lines 200-207 and 256-277).
LostOnlyToOverlap ==
  \A t \in shown :
    \/ \E i \in DOMAIN disk.state : disk.state[i] = t
    \/ \E u \in Turns : Overlaps(u, t)

\* A session in the file is a history: turns in the order they were loaded,
\* each once, none that was not saved.
SessionIsHistory ==
  /\ \A i, j \in DOMAIN disk.state : i < j => disk.state[i] < disk.state[j]
  /\ \A i \in DOMAIN disk.state :
       \E k \in DOMAIN log : log[k] = << "save", disk.state[i] >>
=============================================================================
