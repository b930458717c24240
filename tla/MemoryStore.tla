----------------------------- MODULE MemoryStore -----------------------------
(***************************************************************************)
(* What the protocol MemoryStore (memory/store.py) promises its clients:   *)
(* a set of records in which no two share an id or a slot, a slot being a  *)
(* (key, scope) pair; a write replaces what shares either with it, and     *)
(* nothing is removed unasked except what has expired.                     *)
(***************************************************************************)
EXTENDS MemoryRecords

VARIABLES kept, now

Init == kept = {} /\ now = 0

Write(r) == kept' = { k \in kept : k.id # r.id /\ k.slot # r.slot } \cup { r }

Delete(id) == kept' = { k \in kept : k.id # id }

\* What had expired when the cleanup looked at the clock.
Cleanup == \E t \in 0..now : kept' = { k \in kept : ~ IsExpired(k, t) }

Tick == now < MaxTime /\ now' = now + 1 /\ UNCHANGED kept

Next == \/ ( (\E r \in Records : Write(r)) \/ (\E id \in Ids : Delete(id)) \/ Cleanup )
             /\ UNCHANGED now
        \/ Tick

Spec == Init /\ [][Next]_<< kept, now >>
=============================================================================
