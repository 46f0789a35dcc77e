---------------------------- MODULE MCErrorChain ----------------------------
(***************************************************************************)
(* Instances of ErrorChain for TLC: English, Chinese and regional Chinese, *)
(* one code that both locale files translate and one that only zh.json     *)
(* does, so that the whole fallback chain of the bundle is used.           *)
(***************************************************************************)
EXTENDS ErrorChain, TLC

CONSTANTS en, zh, zhCN, missing, taken

TheBaseOf == (en :> en) @@ (zh :> zh) @@ (zhCN :> zh)
TheTable  == (en :> {missing}) @@ (zh :> {missing, taken}) @@ (zhCN :> {})

Symmetry == Permutations(Request) \cup Permutations(Object)
=============================================================================
