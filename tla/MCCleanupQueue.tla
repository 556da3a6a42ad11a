---------------------------- MODULE MCCleanupQueue ----------------------------
(***************************************************************************)
(* CleanupQueue on small instances: the keys and the loops are model       *)
(* values.  No symmetry, because the run also checks liveness.             *)
(***************************************************************************)
EXTENDS CleanupQueue

=============================================================================
