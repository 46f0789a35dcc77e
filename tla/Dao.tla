-------------------------------- MODULE Dao --------------------------------
(***************************************************************************)
(* The writes of the generated dao of a model with soft delete and a       *)
(* unique column (genDaoOceanBaseImpl).  A statement is a step: between    *)
(* the two of UpdateBy<Unique> any statement of another goroutine may      *)
(* come.  A row that is there stays: a delete sets deleted_at.  What a     *)
(* method answers is left out.                                             *)
(***************************************************************************)
EXTENDS Naturals

CONSTANTS Worker,       \* goroutines
          Id,           \* ids of rows
          Key,          \* values of the unique column
          Val,          \* values of the other columns
          MaxDaoCalls   \* bound: calls of dao methods

ASSUME DaoAssumption == MaxDaoCalls \in Nat

VARIABLES
  rows,      \* rows[i]: the row of id i, or NoRow
  call,      \* call[w]: the update by key that w is in, or Idle
  deleted,   \* deleted[i]: the row i as it was when it was deleted
  overtaken, \* rows that were deleted between the two statements of an
             \* update by key, and written by it nevertheless
  made       \* number of calls

daoVars == <<rows, call, deleted, overtaken, made>>

NoRow == [key |-> "", val |-> "", live |-> FALSE]
NewRow(k, v) == [key |-> k, val |-> v, live |-> TRUE]
Idle == [id |-> ""]
Update(i, k, v) == [id |-> i, key |-> k, val |-> v]

DaoInit ==
  /\ rows = [i \in Id |-> NoRow]
  /\ call = [w \in Worker |-> Idle]
  /\ deleted = [i \in Id |-> NoRow]
  /\ overtaken = {}
  /\ made = 0

There(i) == rows[i] # NoRow
LiveOrNot(i) == There(i)   \* wrong: no soft-delete filter
(* DeletedAtIsNil                                                          *)
Live(i) == rows[i].live
WithKey(k) == {i \in Id : There(i) /\ rows[i].key = k}
Taken(i, k) == WithKey(k) \ {i} # {}
Changed(i, k, v) == [rows EXCEPT ![i].key = k, ![i].val = v]

Called(w) == call[w] = Idle /\ made < MaxDaoCalls /\ made' = made + 1
Answers(w) == call' = [call EXCEPT ![w] = Idle]

(* INSERT ... ON DUPLICATE KEY UPDATE deleted_at = NULL: a row with the    *)
(* key, deleted or not, keeps its contents.                                *)
Create(w, k, v) ==
  /\ Called(w)
  /\ \E i \in Id :
       IF WithKey(k) # {} THEN i \in WithKey(k) /\ rows' = [rows EXCEPT ![i].live = TRUE]
       ELSE ~There(i) /\ rows' = [rows EXCEPT ![i] = NewRow(k, v)]
  /\ Answers(w)
  /\ UNCHANGED <<deleted, overtaken>>

(* UPDATE ... WHERE id = ? AND deleted_at IS NULL; the unique column may   *)
(* refuse it.                                                              *)
UpdateByID(w, i, k, v) ==
  /\ Called(w)
  /\ rows' = IF Live(i) /\ ~Taken(i, k) THEN Changed(i, k, v) ELSE rows
  /\ Answers(w)
  /\ UNCHANGED <<deleted, overtaken>>

(* UpdateBy<Unique>: SELECT the live row with the key.                     *)
FindByKey(w, key, k, v) ==
  /\ Called(w)
  /\ \E i \in WithKey(key) :
       Live(i) /\ call' = [call EXCEPT ![w] = Update(i, k, v)]
  /\ UNCHANGED <<rows, deleted, overtaken>>

(* UPDATE ... WHERE id = ?, whatever became of the row since.              *)
UpdateOneID(w) ==
  /\ call[w] # Idle
  /\ LET i == call[w].id  k == call[w].key  v == call[w].val
     IN  /\ rows' = IF Taken(i, k) THEN rows ELSE Changed(i, k, v)
         /\ overtaken' = IF Live(i) \/ Taken(i, k) THEN overtaken ELSE overtaken \cup {i}
  /\ Answers(w)
  /\ UNCHANGED <<deleted, made>>

DeleteByID(w, i) ==
  /\ Called(w)
  /\ Live(i)
  /\ rows' = [rows EXCEPT ![i].live = FALSE]
  /\ deleted' = [deleted EXCEPT ![i] = rows'[i]]
  /\ overtaken' = overtaken \ {i}
  /\ Answers(w)

DaoNext ==
  \E w \in Worker :
    \/ \E k \in Key, v \in Val : Create(w, k, v)
    \/ \E i \in Id, k \in Key, v \in Val : UpdateByID(w, i, k, v)
    \/ \E key, k \in Key, v \in Val : FindByKey(w, key, k, v)
    \/ UpdateOneID(w)
    \/ \E i \in Id : DeleteByID(w, i)

DaoSpec == DaoInit /\ [][DaoNext]_daoVars
-----------------------------------------------------------------------------
DaoTypeOK ==
  /\ rows \in [Id -> [key : Key, val : Val, live : BOOLEAN] \cup {NoRow}]
  /\ call \in [Worker -> [id : Id, key : Key, val : Val] \cup {Idle}]
  /\ overtaken \subseteq Id /\ made \in 0 .. MaxDaoCalls

(* A row that is deleted keeps the contents it had, so that a Create of    *)
(* its key brings them back: but for an update that had found it by its    *)
(* key before the delete, nothing writes it.                               *)
DeletedKeepsContents ==
  \A i \in Id : There(i) /\ ~rows[i].live => rows[i] = deleted[i] \/ i \in overtaken
=============================================================================
