-------------------------- MODULE MCContextBuilder --------------------------
(***************************************************************************)
(* Small instances of ContextBuilder for TLC.                              *)
(***************************************************************************)
EXTENDS ContextBuilder

CONSTANTS m1, m2, a, b

MCIds   == { m1, m2 }
MCSlots == { a, b }
\* Never is 9 and NoMatch is 9 in the configurations.
MCRecords ==
  { [ id |-> i, slot |-> s, created |-> IF i = m1 THEN 1 ELSE 2, expires |-> e, offset |-> 0,
      rank |-> IF s = a THEN 0 ELSE IF e = 9 THEN 3 ELSE 9,
      size |-> IF e = 9 THEN 1 ELSE 2 ] :
      i \in MCIds, s \in MCSlots, e \in { 1, 9 } }

MCMessage == [ role : { "system", "user", "other" }, tokens : { 1, 3 } ]
MCConversations ==
  { c \in UNION { [ 1..n -> MCMessage ] : n \in 0..3 } :
      \A i \in 2..Len(c) : c[i].role # "system" }
MCRefLists == { <<>>, << m1, m2, m1 >> }
=============================================================================
