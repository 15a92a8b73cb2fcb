---------------------------- MODULE MCWorkingTree ----------------------------
(* Who runs what, for TLC. *)
EXTENDS WorkingTree, TLC

CONSTANTS c1, c2

(* A bot that repairs the manifest, and a job that looks at the checkout.  *)
MCRuns == c1 :> {"generate"} @@ c2 :> {"check", "metadata", "snapshot"}
=============================================================================
