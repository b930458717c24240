------------------------------ MODULE MCSession ------------------------------
(***************************************************************************)
(* Small instances of Session for TLC.                                     *)
(***************************************************************************)
EXTENDS Session

CONSTANTS m1, m2, a, b

MCIds   == { m1, m2 }
MCSlots == { a, b }
MCRecord(i, s, e, o) ==
  [ id |-> i, slot |-> s, created |-> 0, expires |-> e, offset |-> o, rank |-> 0,
    size |-> 1 ]
\* Never is 9 in the configurations.
MCRecords   == { MCRecord(m1, a, 1, 0), MCRecord(m1, b, 9, 0), MCRecord(m2, a, 9, 0) }
MCZoned     == { MCRecord(m1, a, 1, 1), MCRecord(m2, b, 9, 0) }
=============================================================================
