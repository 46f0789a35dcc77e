---------------------------- MODULE MCRepoCache ----------------------------
(***************************************************************************)
(* Instances of RepoCache for TLC.  Two goroutines share a process, so     *)
(* that one may wait for the other; a third, where there is one, runs in   *)
(* another process.                                                        *)
(***************************************************************************)
EXTENDS RepoCache, TLC

CONSTANTS n1, n2, c1, c2, c3

HomeOfTwo   == (c1 :> n1) @@ (c2 :> n1)
HomeApart   == (c1 :> n1) @@ (c2 :> n2)
HomeOfThree == (c1 :> n1) @@ (c2 :> n1) @@ (c3 :> n2)
=============================================================================
