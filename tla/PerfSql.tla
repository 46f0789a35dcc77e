------------------------------- MODULE PerfSql -------------------------------
(***************************************************************************)
(* The SQL that zctl perf derives from the body of a dao method            *)
(* (deriveSQLWithSnippet, entTerminalToSQL), the SQL of an ent hook, and   *)
(* the full scans that it reports from them (RunSQLPerfFromLogicReview).   *)
(* The body is read as a whole: one statement is made of the first         *)
(* terminal and of the predicates, columns and limits of all of it.        *)
(***************************************************************************)
EXTENDS Naturals, Sequences, FiniteSets

CONSTANTS SqlColumn, MaxChains   \* bound: ent statements of one body

ASSUME PerfSqlAssumption == MaxChains \in Nat

(* A predicate is one field's, negated, an Or of two, or something that is *)
(* no call: a variable, preds...; it may use a suffix that is not known.   *)
Predicate ==
  [shape : {"field", "or"}, column : SqlColumn, negated : BOOLEAN, known : BOOLEAN]
  \cup {[shape |-> "opaque", column |-> "none", negated |-> FALSE, known |-> TRUE]}

(* A statement in ent: its builder, its predicates, the columns that it    *)
(* sets and clears, whether it has a limit, its last call, whether it      *)
(* stands in a branch that this call of the method does not take, and, of  *)
(* a hook, whether its function is called register... or resolve...        *)
EntChain == [root : {"query", "create", "update", "delete"}, where : SUBSET Predicate,
          sets : SUBSET SqlColumn, clears : BOOLEAN, limit : BOOLEAN,
          last : {"All", "First", "Only", "Count", "Save", "Exec", "FirstX"}, skipped : BOOLEAN,
          registers : BOOLEAN]
Terminal == {"All", "First", "Only", "Count", "Save", "Exec"}

VARIABLES
  method,  \* what the name of the method says: "Create", "Delete" or neither
  body,    \* its statements
  derived, \* the SQL of the report, NoSql where it has none
  hooked,  \* the SQL of the report if the body is an ent hook's
  warned   \* the full scan check: "warn", "info" or "none"

perfSqlVars == <<method, body, derived, hooked, warned>>

Sql(verb, where, sets, limit) == [verb |-> verb, where |-> where, sets |-> sets, limit |-> limit]
NoSql == Sql("none", {}, {}, "none")

(* extractEntPredicate: Not is read as what it negates; a suffix that is   *)
(* not known becomes part of the column.                                   *)
Read(p) ==
  IF p.shape = "opaque" THEN {}
  ELSE {[p EXCEPT !.negated = FALSE, !.known = TRUE,
                  !.column = IF p.known THEN @ ELSE "nameAndSuffix"]}
WhereOf(chains) == UNION {UNION {Read(p) : p \in chain.where} : chain \in chains}
SetsOf(chains) == UNION {chain.sets : chain \in chains}

(* astFindEntTerminal: the first call of the body with a terminal's name.  *)
WithTerminal == {i \in DOMAIN body : body[i].last \in Terminal}
FirstTerminal == body[CHOOSE i \in WithTerminal : \A j \in WithTerminal : i <= j].last

(* entTerminalToSQL.  The name of the method tells an INSERT from an       *)
(* UPDATE, and a soft delete from the columns that are set.                *)
WriteSql(terminal, chains) ==
  CASE method = "Create" -> Sql("INSERT", {}, SetsOf(chains), "none")
    [] method = "Delete" /\ terminal = "Exec" -> Sql("UPDATE", WhereOf(chains), {"deleted_at"}, "none")
    [] OTHER -> Sql("UPDATE", WhereOf(chains), SetsOf(chains), "none")
ToSql(terminal, chains) ==
  CASE terminal = "All" ->
         Sql("SELECT", WhereOf(chains), {}, IF \E c \in chains : c.limit THEN "n" ELSE "none")
    [] terminal \in {"First", "Only"} -> Sql("SELECT", WhereOf(chains), {}, "1")
    [] terminal = "Count" -> Sql("COUNT", WhereOf(chains), {}, "none")
    [] OTHER -> WriteSql(terminal, chains)

(* entChainInfoToSQL reads the one chain of a terminal; every write is an  *)
(* UPDATE, and one without columns, and each query but All and Count, has  *)
(* no SQL.                                                                 *)
HookSql(chain) ==
  CASE chain.last \in {"Save", "Exec"} /\ chain.sets # {} ->
         {Sql("UPDATE", WhereOf({chain}), chain.sets, "none")}
    [] chain.last = "All" -> {Sql("SELECT", WhereOf({chain}), {}, "none")}
    [] chain.last = "Count" -> {Sql("COUNT", WhereOf({chain}), {}, "none")}
    [] OTHER -> {}

(* Statements with a SELECT and no LIMIT: a warning without WHERE, a note  *)
(* with one.                                                               *)
ScanRisk(sql) ==
  IF sql.verb \notin {"SELECT", "COUNT"} \/ sql.limit # "none" THEN "none"
  ELSE IF sql.where = {} THEN "warn" ELSE "info"

PerfSqlInit ==
  /\ method \in {"Create", "Delete", "other"}
  /\ body = <<>> /\ derived = NoSql /\ hooked = {} /\ warned = "unread"

(* What ent lets a statement be.                                           *)
Compiles(c) ==
  CASE c.root = "query" -> c.last \notin {"Save", "Exec"} /\ c.sets = {} /\ ~c.clears
    [] c.root = "create" -> c.last \in {"Save", "Exec"} /\ c.where = {} /\ ~c.limit /\ ~c.clears
    [] c.root = "update" -> c.last \in {"Save", "Exec"} /\ ~c.limit
    [] OTHER -> c.last = "Exec" /\ c.sets = {} /\ ~c.limit /\ ~c.clears

(* Bound: the predicates of a statement, one of each kind.                 *)
PredicateKinds ==
  LET plain == {p \in Predicate : p.shape = "field" /\ p.known /\ ~p.negated}
  IN {p \in Predicate : \E q \in plain : Cardinality({k \in DOMAIN p : p[k] # q[k]}) <= 1}
     \cup {p \in Predicate : p.shape = "opaque"}

WriteChain ==
  /\ warned = "unread" /\ Len(body) < MaxChains
  /\ \E c \in [root : {"query", "create", "update", "delete"},
               where : {{}} \cup {{p} : p \in PredicateKinds}, sets : {{}} \cup {{x} : x \in SqlColumn},
               clears : BOOLEAN, limit : BOOLEAN,
               last : {"All", "First", "Only", "Count", "Save", "Exec", "FirstX"}, skipped : BOOLEAN,
               registers : BOOLEAN] :
       /\ Compiles(c)
       /\ c.skipped => c.root = "query" /\ c.where = {}   \* bound: only their full scans ask
       /\ c.registers => c.root = "update" /\ ~c.skipped   \* bound: only hooks ask
       /\ body' = Append(body, c)
  /\ UNCHANGED <<method, derived, hooked, warned>>

Chains == {body[i] : i \in DOMAIN body}
(* buildEntHookMap: every chain of the other functions of a hook's file.   *)
Hooked == UNION {HookSql(c) : c \in {d \in Chains : ~d.registers}}
Derive ==
  /\ warned = "unread" /\ body # <<>>
  /\ derived' = IF WithTerminal = {} THEN NoSql ELSE ToSql(FirstTerminal, Chains)
  /\ hooked' = Hooked
  /\ warned' = ScanRisk(derived')
  /\ UNCHANGED <<method, body>>

PerfSqlNext == WriteChain \/ Derive
PerfSqlSpec == PerfSqlInit /\ [][PerfSqlNext]_perfSqlVars
-----------------------------------------------------------------------------
PerfSqlTypeOK ==
  /\ method \in {"Create", "Delete", "other"}
  /\ body \in Seq(EntChain) /\ Len(body) <= MaxChains
  /\ warned \in {"unread", "none", "info", "warn"}

(* The statement that a chain of ent sends.                                *)
True(c) ==
  CASE c.root = "query" ->
         Sql(IF c.last = "Count" THEN "COUNT" ELSE "SELECT", c.where, {},
             IF c.last \in {"First", "FirstX"} THEN "1"
             ELSE IF c.last = "Only" THEN "2"
             ELSE IF c.limit THEN "n" ELSE "none")
    [] c.root = "create" -> Sql("INSERT", {}, c.sets, "none")
    [] c.root = "update" -> Sql("UPDATE", c.where, c.sets \cup (IF c.clears THEN {"cleared"} ELSE {}), "none")
    [] OTHER -> Sql("DELETE", c.where, {}, "none")

MisreadPredicate(c) == \E p \in c.where : p.shape = "opaque" \/ p.negated \/ ~p.known
(* The SQL of a method with one statement is what it sends, unless: it has *)
(* a predicate that is negated, unknown or no call; its last call is none  *)
(* of the terminals; its Only asks for two rows; it clears columns; its    *)
(* builder is not what its name says; or it deletes rows.                  *)
MisreadOne(c) ==
  \/ MisreadPredicate(c) \/ c.last \in {"FirstX", "Only"} \/ c.clears
  \/ c.root = "query" /\ c.last = "Count" /\ c.limit
  \/ c.root = "create" /\ method # "Create"
  \/ c.root = "update" /\ method = "Create"
  \/ c.root = "delete"
  \/ c.root = "update" /\ method = "Delete" /\ c.last = "Exec" /\ c.sets # {"deleted_at"}
SqlKnown ==
  warned # "unread" /\ Len(body) = 1 =>
    derived = True(body[1]) \/ MisreadOne(body[1])

(* A query of the whole table that runs is reported as one, unless another *)
(* statement of the body has a predicate, has a limit, or comes first; and *)
(* what is reported so is one, or is in a branch, or hides its predicate   *)
(* in a variable.                                                          *)
Scans(c) == c.root = "query" /\ c.where = {} /\ c.last \in {"All", "Count"} /\ (c.last = "All" => ~c.limit)
FullScansKnown ==
  warned # "unread" =>
    /\ \A i \in DOMAIN body :
         Scans(body[i]) /\ ~body[i].skipped /\ warned # "warn" =>
           \E j \in DOMAIN body \ {i} : body[j].where # {} \/ body[j].limit \/ j < i
    /\ warned = "warn" =>
         \E i \in DOMAIN body : \/ Scans(body[i])
                                \/ \E p \in body[i].where : p.shape = "opaque"

(* Of a hook, the writes that name columns are all there, as UPDATEs, but  *)
(* for those in a function that registers it or looks something up, also   *)
(* in a literal there.                                                     *)
HooksKnown ==
  warned # "unread" =>
    \A c \in Chains :
      ~c.registers /\ ~MisreadPredicate(c) /\ c.root = "update" /\ c.sets # {} /\ ~c.clears => True(c) \in hooked
=============================================================================
