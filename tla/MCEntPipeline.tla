---------------------------- MODULE MCEntPipeline ----------------------------
(***************************************************************************)
(* Instances of EntPipeline for TLC: two schemas, one optional method.     *)
(***************************************************************************)
EXTENDS EntPipeline, TLC

CONSTANTS order, user, update

TheRank == (order :> 1) @@ (user :> 2)
=============================================================================
