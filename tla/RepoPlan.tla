------------------------------ MODULE RepoPlan ------------------------------
(***************************************************************************)
(* The repo of a model made from its dao (rpc/generator/repo/gen.go): the  *)
(* methods whose implementation looks like a write are wrapped in one that *)
(* deletes cache keys, or in a TODO when their signature is not known.     *)
(* What a wrapped method deletes at run time is RepoCache; here it is      *)
(* asked which methods are wrapped, and for which keys.                    *)
(***************************************************************************)
EXTENDS Naturals, Sequences, SequencesExt

CONSTANT MaxParams   \* bound: parameters after ctx

ASSUME RepoPlanAssumption == MaxParams \in Nat

(* Parameters: *ent.M; []*ent.M; id; a slice of the type of the key that   *)
(* holds ids of rows, is named id, or holds other values; a type of        *)
(* another kind (map, interface{}), anything else.                         *)
Params == {"ent", "ents", "id", "ids", "idSlice", "codes", "odd", "other"}
MethodNames == {"Create", "CreateBatch", "Update", "Delete", "Another"}
Results == {"entity", "error", "other"}            \* (*ent.M, error), error
Bodies == {"query", "save", "saveX", "delegates"}  \* Save(ctx), SaveX(ctx), d.Other(..)
ParamLists == SeqOf(Params, MaxParams)
NoMethod == [name |-> ""]

VARIABLES
  method,    \* a method of the dao, besides GetByID
  getByID,   \* GetByID: "absent", "odd" (no read is seen in it), "reads"
  planned,   \* what becomes of the method: "no", "todo", "wrapped"
  written,   \* what the repo's method does: "nothing", "panics", the rows
             \* whose keys it deletes
  planStep

planVars == <<method, getByID, planned, written, planStep>>

PlanInit ==
  /\ method = NoMethod /\ getByID = "absent"
  /\ planned = "no" /\ written = "nothing"
  /\ planStep = "declare"

(* genDaoInterface, gen-dao-sql or the developer.                          *)
DeclareMethod ==
  /\ planStep = "declare"
  /\ \E n \in MethodNames, ps \in ParamLists, r \in Results, b \in Bodies, brace \in BOOLEAN :
       /\ brace => "odd" \in Range(ps)        \* a type with a brace: interface{}
       /\ r = "entity" => n # "Delete"
       /\ method' = [name |-> n, params |-> ps, results |-> r, body |-> b, brace |-> brace]
  /\ getByID' \in {"absent", "odd", "reads"}
  /\ planStep' = "plan"
  /\ UNCHANGED <<planned, written>>

(* extractFuncBody: from the first brace after the name.                   *)
BodySeen(m) == IF m.brace THEN "empty" ELSE m.body
(* daoBodyIsWriteOp: .Save( but no .SaveX(.                                *)
IsWriteOp(m) == BodySeen(m) = "save"

(* The type of the key is that of GetByID's id.                            *)
OfKeyType(p) == getByID # "absent" /\ p \in {"ids", "idSlice", "codes"}
(* matchKnownWriteShape                                                    *)
KnownShape(m) ==
  CASE m.name = "Create" -> m.results = "entity" /\ m.params = <<"ent">>
    [] m.name = "Update" ->
         m.results = "entity" /\ Len(m.params) \in {1, 2} /\ m.params[Len(m.params)] = "ent"
    [] m.name = "CreateBatch" -> m.results = "error" /\ m.params = <<"ents">>
    [] m.name = "Delete" ->
         /\ m.results = "error" /\ Len(m.params) = 1
         /\ \/ m.params[1] = "ent"
            \/ m.params[1] = "id" /\ getByID # "absent"
            \/ OfKeyType(m.params[1])
    [] OTHER -> FALSE

BuildPlanFromDao ==
  /\ planStep = "plan"
  /\ planned' = IF ~IsWriteOp(method) THEN "no"
                ELSE IF KnownShape(method) THEN "wrapped" ELSE "todo"
  /\ planStep' = "write"
  /\ UNCHANGED <<method, getByID, written>>

(* renderWriteImpl, writeIDExpr: the rows whose keys are deleted.          *)
DeletesFirst(m) == m.params[1]   \* wrong: the first parameter, whatever is returned
Deletes(m) ==
  IF m.name \in {"Create", "Update"} THEN "returned"
  ELSE IF m.params[1] \in {"ids", "codes"} THEN "ids" ELSE m.params[1]
WriteRepo ==
  /\ planStep = "write"
  /\ written' = CASE planned = "no" -> "nothing" [] planned = "todo" -> "panics"
                  [] OTHER -> Deletes(method)
  /\ planStep' = "done"
  /\ UNCHANGED <<method, getByID, planned>>

PlanNext == DeclareMethod \/ BuildPlanFromDao \/ WriteRepo

PlanSpec == PlanInit /\ [][PlanNext]_planVars
-----------------------------------------------------------------------------
PlanTypeOK ==
  /\ method = NoMethod \/ ( /\ method.name \in MethodNames /\ Range(method.params) \subseteq Params
                           /\ method.results \in Results /\ method.body \in Bodies )
  /\ getByID \in {"absent", "odd", "reads"}
  /\ planned \in {"no", "todo", "wrapped"}
  /\ written \in {"nothing", "panics", "returned", "ids"} \cup Params
  /\ planStep \in {"declare", "plan", "write", "done"}

(* The rows a dao method changes: the one it returns, else what its        *)
(* parameters name.                                                        *)
Changes(m) ==
  IF m.results = "entity" THEN "returned"
  ELSE IF Len(m.params) = 1 THEN (IF m.params[1] = "idSlice" THEN "ids" ELSE m.params[1])
  ELSE "found"
(* keyHelper is there when GetByID is seen to read; it takes one id; a     *)
(* type of another kind is written as the name of its syntax node.         *)
RepoCompiles ==
  planned = "no" \/ ( /\ "odd" \notin Range(method.params)
                      /\ planned = "wrapped" => getByID = "reads" /\ written # "idSlice" )
Missed(m) == m.brace \/ m.body \in {"saveX", "delegates"}

(* A repo that compiles forgets no write without a word.  A dao method     *)
(* that changes rows is in it, with the keys of those rows deleted or as a *)
(* TODO that panics, unless a brace in its signature hides its body, it    *)
(* writes by SaveX or through another method, or the slice it takes, of    *)
(* the type of the ids, holds something else.                              *)
WritesAccounted ==
  planStep = "done" /\ RepoCompiles /\ method.body # "query" =>
    \/ written = "panics" \/ written = Changes(method)
    \/ Missed(method) \/ method.params = <<"codes">>
=============================================================================
