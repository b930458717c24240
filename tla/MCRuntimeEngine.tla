--------------------------- MODULE MCRuntimeEngine ---------------------------
(***************************************************************************)
(* Small instances of RuntimeEngine for TLC.                               *)
(***************************************************************************)
EXTENDS RuntimeEngine

CONSTANTS s1, echo, mail

\* Runs of different ids share no entry of any dictionary: one id is enough.
MCIds   == { s1 }
MCTools == { echo, mail }
MCRequireApprovalFor == { mail }
MCTimedCalls == { "plan", "tool" }
=============================================================================
