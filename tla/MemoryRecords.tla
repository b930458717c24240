---------------------------- MODULE MemoryRecords ----------------------------
(***************************************************************************)
(* MemoryRecord of memory/models.py.  A slot is a (key, scope) pair.       *)
(* Content and embedding are abstracted: a record shows how well it        *)
(* matches the query (rank, 0 best) and what it costs in a context (size). *)
(* expires is an instant; offset is the UTC offset expires_at carries.     *)
(***************************************************************************)
EXTENDS Naturals, FiniteSets, Sequences

CONSTANTS
  Ids, Slots,
  Records,  \* the records clients write
  Never,    \* expires_at is None; above every time
  NoMatch,  \* rank of a record the query does not match; above every rank
  NoRecord, \* None
  MaxTime   \* bound: the clock

ASSUME MemoryAssumption ==
  /\ Records \subseteq [ id : Ids, slot : Slots, created : Nat, expires : Nat,
                         offset : Nat, rank : 0..NoMatch, size : Nat \ {0} ]
  /\ MaxTime \in Nat /\ Never \in Nat /\ NoMatch \in Nat
  /\ MaxTime < Never
  /\ NoRecord \notin Records

\* MemoryRecord.is_expired
IsExpired(r, now) == r.expires <= now

-----------------------------------------------------------------------------
(* What search() of both stores makes of the records that match *)

\* Best rank first, then newest.
Before(r, s) ==
  \/ r.rank < s.rank
  \/ r.rank = s.rank /\ r.created > s.created

\* The first `limit` of them; the order of equals is left open.
BestFirst(matches, limit) ==
  LET sorted == { q \in [ 1..Cardinality(matches) -> matches ] :
                    \A i, j \in DOMAIN q :
                      i < j => q[i] # q[j] /\ ~ Before(q[j], q[i]) }
  IN { SubSeq(q, 1, IF Len(q) < limit THEN Len(q) ELSE limit) : q \in sorted }
=============================================================================
