------------------------------ MODULE SqlModel ------------------------------
(***************************************************************************)
(* A model generated by zctl model mysql with cache (model/sql/gen and     *)
(* model/sql/template/tpl).  The row is cached under its primary key; a    *)
(* unique key caches the primary key; a miss is cached too, for a short    *)
(* while.  Redis and the cached connection of go-zero are external.        *)
(***************************************************************************)
EXTENDS Naturals, FiniteSets

CONSTANTS
  Caller,        \* goroutines that call the model
  Primary,       \* values of the primary key
  Unique,        \* values of the unique key
  MaxModelCalls  \* bound: calls

VARIABLES
  table,         \* of the ddl: [unique, auto]
  rows,          \* of the database: Primary -> Unique, or Absent
  byPrimary,     \* cache: Primary -> Unique (the row), Absent (found missing), Cold
  byUnique,      \* cache: Unique -> Primary, Absent, Cold
  call,          \* what each caller is doing
  modelCalls,
  overlapped,    \* two calls have run at the same time, one of them a write
  unswept        \* primary keys of rows that were written, and not all their keys deleted

sqlModelVars == <<table, rows, byPrimary, byUnique, call, modelCalls, overlapped, unswept>>

Cold == [is |-> "cold"]
Absent == [is |-> "absent"]
Known(v) == [is |-> "known", value |-> v]
Idle == [step |-> "idle"]
Writes == {"insert", "update", "delete"}

SqlModelInit ==
  /\ table = [unique |-> TRUE, auto |-> TRUE]
  /\ rows = [p \in Primary |-> Absent]
  /\ byPrimary = [p \in Primary |-> Cold] /\ byUnique = [u \in Unique |-> Cold]
  /\ call = [c \in Caller |-> Idle]
  /\ modelCalls = 0 /\ overlapped = FALSE /\ unswept = {}

Holder(u) == {p \in Primary : rows[p] = Known(u)}
Then(c, next) == call' = [call EXCEPT ![c] = next]

(* The ddl decides before anything is called.                              *)
Declare(t) ==
  /\ modelCalls = 0 /\ table' = t
  /\ UNCHANGED <<rows, byPrimary, byUnique, call, modelCalls, overlapped, unswept>>

Begin(c, op, p, u) ==
  /\ call[c] = Idle /\ modelCalls < MaxModelCalls
  /\ op = "findUnique" => table.unique
  /\ modelCalls' = modelCalls + 1
  /\ Then(c, [step |-> IF op \in {"update", "delete"} /\ table.unique THEN "before" ELSE op,
              op |-> op, p |-> p, u |-> u, data |-> Absent])
  /\ overlapped' = (overlapped \/ \E d \in Caller \ {c} :
                       call[d] # Idle /\ {op, call[d].op} \cap Writes # {})
  /\ UNCHANGED <<table, rows, byPrimary, byUnique, unswept>>

(* FindOne, also at the head of Update and Delete when the table has a     *)
(* unique key: the keys to delete come from the row that is found.         *)
AfterFind(c, row) ==
  IF call[c].step # "before" \/ row = Absent THEN Idle
  ELSE [call[c] EXCEPT !.step = call[c].op, !.data = row]
FindHit(c) ==
  /\ call[c].step \in {"find", "before"} /\ byPrimary[call[c].p] # Cold
  /\ Then(c, AfterFind(c, byPrimary[call[c].p]))
  /\ UNCHANGED <<table, rows, byPrimary, byUnique, modelCalls, overlapped, unswept>>
FindMiss(c) ==
  /\ call[c].step \in {"find", "before"} /\ byPrimary[call[c].p] = Cold
  /\ Then(c, [call[c] EXCEPT !.step = IF @ = "find" THEN "fill" ELSE "fillBefore",
                             !.data = rows[call[c].p]])
  /\ UNCHANGED <<table, rows, byPrimary, byUnique, modelCalls, overlapped, unswept>>
Fill(c) ==
  /\ call[c].step \in {"fill", "fillBefore"}
  /\ byPrimary' = [byPrimary EXCEPT ![call[c].p] = call[c].data]
  /\ Then(c, IF call[c].step = "fill" \/ call[c].data = Absent THEN Idle
             ELSE [call[c] EXCEPT !.step = call[c].op])
  /\ UNCHANGED <<table, rows, byUnique, modelCalls, overlapped, unswept>>

(* FindOneBy<Unique>: a hit gives the primary key, and the row comes from  *)
(* under it whatever it holds; a miss fills both.                          *)
FindUniqueHit(c) ==
  /\ call[c].step = "findUnique" /\ byUnique[call[c].u] # Cold
  /\ Then(c, IF byUnique[call[c].u] = Absent THEN Idle
             ELSE [call[c] EXCEPT !.step = "find", !.p = byUnique[call[c].u].value])
  /\ UNCHANGED <<table, rows, byPrimary, byUnique, modelCalls, overlapped, unswept>>
FindUniqueMiss(c) ==
  /\ call[c].step = "findUnique" /\ byUnique[call[c].u] = Cold
  /\ Then(c, [call[c] EXCEPT !.step = "fillUnique",
                !.data = IF Holder(call[c].u) = {} THEN Absent
                         ELSE Known(CHOOSE p \in Holder(call[c].u) : TRUE)])
  /\ UNCHANGED <<table, rows, byPrimary, byUnique, modelCalls, overlapped, unswept>>
FillUnique(c) ==
  /\ call[c].step = "fillUnique"
  /\ byUnique' = [byUnique EXCEPT ![call[c].u] = call[c].data]
  /\ byPrimary' = IF call[c].data = Absent THEN byPrimary
                  ELSE [byPrimary EXCEPT ![call[c].data.value] = Known(call[c].u)]
  /\ Then(c, Idle)
  /\ UNCHANGED <<table, rows, modelCalls, overlapped, unswept>>

(* Insert, Update, Delete: the statement, then the keys.  A statement that *)
(* is refused ends the call; one that finds no row does not.               *)
Free(u, p) == ~table.unique \/ Holder(u) \subseteq {p}
Refused(c) ==
  CASE call[c].op = "insert" -> rows[call[c].p] # Absent \/ ~Free(call[c].u, call[c].p)
    [] call[c].op = "update" -> rows[call[c].p] # Absent /\ ~Free(call[c].u, call[c].p)
    [] OTHER -> FALSE
RowAfter(c) ==
  CASE call[c].op = "insert" -> Known(call[c].u)
    [] call[c].op = "update" /\ rows[call[c].p] # Absent -> Known(call[c].u)
    [] OTHER -> Absent
Exec(c) ==
  /\ call[c].step \in Writes
  /\ IF Refused(c) THEN rows' = rows /\ Then(c, Idle)
     ELSE /\ rows' = [rows EXCEPT ![call[c].p] = RowAfter(c)]
          /\ Then(c, [call[c] EXCEPT !.step = "clear"])
  /\ UNCHANGED <<table, byPrimary, byUnique, modelCalls, overlapped, unswept>>

(* The database took the statement and the caller gets an error: the call  *)
(* returns it, and deletes no key.                                         *)
ExecErrs(c) ==
  /\ call[c].step \in Writes /\ ~Refused(c)
  /\ rows' = [rows EXCEPT ![call[c].p] = RowAfter(c)]
  /\ Then(c, Idle) /\ unswept' = unswept \cup {call[c].p}
  /\ UNCHANGED <<table, byPrimary, byUnique, modelCalls, overlapped>>

(* Redis or the database fail before anything is written.                  *)
CallErrs(c) ==
  /\ call[c].step \notin {"idle", "clear"} /\ Then(c, Idle)
  /\ UNCHANGED <<table, rows, byPrimary, byUnique, modelCalls, overlapped, unswept>>

(* genInsert, genUpdate, genDelete: the keys.  Insert has those of its     *)
(* argument, whose id is not set when the database assigns it; Update and  *)
(* Delete those of the row that they found.                                *)
PrimaryKeys(c) == IF call[c].op = "insert" /\ table.auto THEN {} ELSE {call[c].p}
UniqueKeysOfArgument(c) == IF table.unique THEN {call[c].u} ELSE {}  \* wrong: of the new row
UniqueKeys(c) ==
  CASE ~table.unique -> {}
    [] call[c].op = "insert" -> {call[c].u}
    [] OTHER -> {call[c].data.value}
Deleted(P, U) ==
  /\ byPrimary' = [p \in Primary |-> IF p \in P THEN Cold ELSE byPrimary[p]]
  /\ byUnique' = [u \in Unique |-> IF u \in U THEN Cold ELSE byUnique[u]]
Clear(c) ==
  /\ call[c].step = "clear"
  /\ Deleted(PrimaryKeys(c), UniqueKeys(c)) /\ Then(c, Idle)
  /\ UNCHANGED <<table, rows, modelCalls, overlapped, unswept>>

(* Redis refuses some of the keys, which may lie on different nodes, or    *)
(* the process dies first.                                                 *)
ClearFails(c) ==
  /\ call[c].step = "clear"
  /\ \E P \in SUBSET PrimaryKeys(c), U \in SUBSET UniqueKeys(c) : Deleted(P, U)
  /\ Then(c, Idle) /\ unswept' = unswept \cup {call[c].p}
  /\ UNCHANGED <<table, rows, modelCalls, overlapped>>

SqlModelNext ==
  \/ \E t \in [unique : BOOLEAN, auto : BOOLEAN] : Declare(t)
  \/ \E c \in Caller :
       \/ \E op \in {"find", "findUnique"} \cup Writes, p \in Primary, u \in Unique :
            Begin(c, op, p, u)
       \/ FindHit(c) \/ FindMiss(c) \/ Fill(c)
       \/ FindUniqueHit(c) \/ FindUniqueMiss(c) \/ FillUnique(c)
       \/ Exec(c) \/ ExecErrs(c) \/ CallErrs(c) \/ Clear(c) \/ ClearFails(c)

SqlModelSpec == SqlModelInit /\ [][SqlModelNext]_sqlModelVars
-----------------------------------------------------------------------------
Entry(S) == {Absent} \cup {Known(v) : v \in S}
SqlModelTypeOK ==
  /\ table \in [unique : BOOLEAN, auto : BOOLEAN]
  /\ rows \in [Primary -> Entry(Unique)]
  /\ byPrimary \in [Primary -> {Cold} \cup Entry(Unique)]
  /\ byUnique \in [Unique -> {Cold} \cup Entry(Primary)]
  /\ \A c \in Caller :
       \/ call[c] = Idle
       \/ /\ call[c].step \in {"find", "findUnique", "before", "fill", "fillBefore",
                               "fillUnique", "clear"} \cup Writes
          /\ call[c].p \in Primary /\ call[c].u \in Unique
          /\ call[c].data \in Entry(Primary) \cup Entry(Unique)
  /\ modelCalls \in 0..MaxModelCalls /\ overlapped \in BOOLEAN /\ unswept \subseteq Primary

(* Calls that do not overlap leave no stale entry behind, but for those of *)
(* a row whose own keys were not deleted when it was written, which the    *)
(* later calls do not spread to another row: what is cached under a        *)
(* primary key is the row, and a unique value leads to the row that has    *)
(* it.  Only a missing row stays cached as missing: under the id that the  *)
(* database gave to it, and under the unique value that an update gave to  *)
(* it.                                                                     *)
StaleNeedsOverlap ==
  \/ overlapped \/ \E c \in Caller : call[c] # Idle
  \/ /\ \A p \in Primary \ unswept :
          byPrimary[p] \in {Cold, rows[p]} \/ (byPrimary[p] = Absent /\ table.auto)
     /\ \A u \in Unique :
          \/ byUnique[u] \in {Cold, Absent}
          \/ byUnique[u].value \in unswept
          \/ rows[byUnique[u].value] = Known(u)
=============================================================================
