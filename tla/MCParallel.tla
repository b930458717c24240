----------------------------- MODULE MCParallel -----------------------------
(***************************************************************************)
(* Small instances of Parallel for TLC: subnodes that change nothing,      *)
(* overwrite a key, add one, or return only what they add.                 *)
(***************************************************************************)
EXTENDS Parallel

CONSTANTS v0, v1, v2

MCContexts == { "x" :> v0,
                "x" :> v0 @@ ResultKey :> << "kept" >> @@ NamespaceKey :> (7 :> "kept") }

MCWorks == { "x" :> v0, "x" :> v1, "x" :> v0 @@ "y" :> v1, "y" :> v2 }

MCObservations == { "one", "two" }
=============================================================================
