----------------------------- MODULE MCMcpStdio -----------------------------
(***************************************************************************)
(* Small instances of McpStdio for TLC.  The callers are the workers of a  *)
(* ParallelToolNode whose calls go to tools of one server.                 *)
(***************************************************************************)
EXTENDS McpStdio

CONSTANTS w1, w2

MCOneCaller  == { w1 }
MCTwoCallers == { w1, w2 }
=============================================================================
