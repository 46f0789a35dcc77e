------------------------------- MODULE DaoSql -------------------------------
(***************************************************************************)
(* zctl rpc dao --sql: a method of a dao made from an SQL statement        *)
(* (rpc/cli/dao.go).  The statement is taken apart by regular expressions; *)
(* its method goes to the end of the interface, then of the              *)
(* implementation, each unless the file has the name already, and the mock *)
(* is made anew from the interface.  What a step cannot do is printed, and *)
(* the next step follows; a kill may come between them.                    *)
(***************************************************************************)
EXTENDS Naturals, Sequences, FiniteSets, SequencesExt

CONSTANTS Column,       \* columns of the table
          PrimaryKey,   \* the one of DeleteByID and GetByID
          MaxTerms,     \* bound: terms and further clauses in the statements of all runs
          MaxSqlRuns,   \* bound: runs of the command
          MaxSqlFaults  \* bound: steps that fail and kills that leave a trace

ASSUME DaoSqlAssumption ==
  PrimaryKey \in Column /\ {MaxTerms, MaxSqlRuns, MaxSqlFaults} \subseteq Nat

(* A comparison with a placeholder, with a literal, with a column, IN (?), *)
(* IN of literals, IS NULL, (? IS NULL OR ...), NOT IN (?), NOT (... = ?); *)
(* its column that of the table, or of a joined one, by alias or by name.  *)
Shapes == {"cmp", "literal", "columns", "in", "inLiteral", "null", "optional", "notIn", "not"}
Term == [col : Column, shape : Shapes, of : {"table"}]
        \cup [col : Column, shape : {"cmp"}, of : {"joinAlias", "joinName"}]
(* SELECT, with LIMIT 1, with LIMIT ?, with LIMIT ? OFFSET ?, COUNT(..);   *)
(* UPDATE of few and of many columns; DELETE; INSERT.                      *)
Selects == {"list", "one", "some", "page", "count"}
WriteKinds == {"update", "updateMany", "delete", "insert"}
(* Rows as they are, DISTINCT, GROUP BY, GROUP BY .. HAVING.               *)
Forms == {"rows", "distinct", "grouped", "having"}
(* No join, JOIN .. ON two columns, or joined in another way.              *)
Joins == {"none", "on", "other"}
Statement ==
  {s \in [kind : Selects \cup WriteKinds, where : SeqOf(Term, MaxTerms), or : BOOLEAN,
          lines : BOOLEAN, limited : BOOLEAN, form : Forms, join : Joins] :
     /\ s.or => Len(s.where) > 1
     /\ s.lines => Len(s.where) > 1 /\ ~s.or  \* the second term in a second line
     /\ s.limited => s.kind \in WriteKinds       \* UPDATE or DELETE ... LIMIT n
     /\ s.form # "rows" => s.kind \in Selects
     /\ s.join # "none" => s.kind \in Selects \cup {"delete"}
     /\ s.join = "none" => \A i \in DOMAIN s.where : s.where[i].of = "table"
     /\ s.kind = "insert" => s.where = <<>> /\ ~s.limited}
Weight(s) == Len(s.where) + (IF s.limited THEN 1 ELSE 0) + (IF s.form = "rows" THEN 0 ELSE 1)
               + (IF s.join = "none" THEN 0 ELSE 1)
NoStatement == [name |-> <<>>, sql |-> [kind |-> "none"]]

VARIABLES
  made,     \* the method the run has made of its statement, or NoStatement
  todo,     \* what the run has still to write
  iface,    \* methods of the interface
  impl,     \* methods of the implementation
  mock,     \* names of the mock's methods
  broken,   \* files that a write left empty
  cut,      \* names that a run did not write to all its files
  spent     \* terms of the statements so far, and runs

sqlVars == <<made, todo, iface, impl, mock, broken, cut, spent>>

(* parseConditions: one expression after the other, each over the whole    *)
(* clause; the word before IN is taken for the column, the words between   *)
(* the conditions are not looked at.                                       *)
Order == <<{"optional"}, {"null"}, {"in", "inLiteral", "notIn"}, {"cmp", "not"}>>
Condition(s, i) ==
  LET t == s.where[i]
  IN  [term |-> i, of |-> t.of, optional |-> t.shape = "optional",
       col |-> IF t.shape = "notIn" THEN "NOT" ELSE t.col,
       op |-> CASE t.shape \in {"in", "inLiteral", "notIn"} -> "In" [] t.shape = "null" -> "IsNil"
                [] OTHER -> "EQ"]
Found(s, shapes) ==
  FlattenSeq([i \in DOMAIN s.where |-> IF s.where[i].shape \in shapes THEN <<Condition(s, i)>> ELSE <<>>])
ConditionsInReplaced(s) ==   \* wrong: what IN replaces takes the comparisons with it
  IF s.lines THEN <<>>
  ELSE FlattenSeq([k \in DOMAIN Order |->
                     IF k = 4 /\ Found(s, Order[3]) # <<>> THEN <<>> ELSE Found(s, Order[k])])
(* A dot does not match a line break: the clause is not found.             *)
Conditions(s) ==
  IF s.lines THEN <<>> ELSE FlattenSeq([k \in DOMAIN Order |-> Found(s, Order[k])])

(* extractJoins looks at a SELECT only; isJoinTableCondition at aliases.   *)
JoinsFound(s) == s.kind \in Selects /\ s.join = "on"
Joined(s, c) == JoinsFound(s) /\ c.of = "joinAlias"
Own(s) ==
  LET all == Conditions(s)
  IN  FlattenSeq([k \in DOMAIN all |-> IF Joined(s, all[k]) THEN <<>> ELSE <<all[k]>>])

(* generateMethodName                                                      *)
Prefix(s) ==
  CASE s.kind = "one" -> "GetBy" [] s.kind = "count" -> "CountBy"
    [] s.kind = "update" -> "UpdateXBy" [] s.kind = "updateMany" -> "UpdateBy"
    [] s.kind = "delete" -> "DeleteBy" [] s.kind = "insert" -> "Insert"
    [] OTHER -> IF s.form \in {"grouped", "having"} THEN "GroupBy" ELSE "FindBy"
Name(s) == <<Prefix(s), [k \in DOMAIN Own(s) |-> <<Own(s)[k].col, Own(s)[k].op>>]>>

(* buildMethodParams, determineReturnKind                                  *)
Signature(s) ==
  [params |-> [k \in DOMAIN SelectSeq(Own(s), LAMBDA c : c.op # "IsNil") |->
                 LET c == SelectSeq(Own(s), LAMBDA d : d.op # "IsNil")[k]
                 IN  <<c.col, c.op, c.optional>>],
   paged |-> s.kind = "page",
   returns |-> CASE s.kind \in {"list", "some", "page"} -> "list" [] s.kind = "one" -> "row"
                 [] OTHER -> "int"]

(* buildWherePredicates: what is rendered; the optional conditions and     *)
(* those of a joined table become comments, and so does a join.            *)
Predicates(s) == {c \in Range(Own(s)) : ~c.optional}
Marked(s) == JoinsFound(s) \/ Range(Conditions(s)) # Predicates(s)
PlaceholdersTwice(s) ==
  LET p == Signature(s).params
  IN  \E j, k \in DOMAIN p : j # k /\ p[j][1] = p[k][1] /\ p[j][2] = p[k][2]
(* The whole statement is put in a comment of one line; SetX() waits for   *)
(* its value.                                                              *)
MethodCompiles(s) ==
  /\ ~s.lines /\ s.kind \notin {"update", "updateMany", "insert"}
  /\ ~PlaceholdersTwice(s)
  /\ \A c \in Predicates(s) : c.col # "NOT"

Default(name, kind) ==
  [name |-> name, signature |-> [params |-> <<>>, paged |-> FALSE, returns |-> kind],
   sql |-> NoStatement.sql]
OfKey == <<<<PrimaryKey, "EQ">>>>
GeneratedMethods == {Default(<<"GetBy", OfKey>>, "row"), Default(<<"DeleteBy", OfKey>>, "error")}
Method(s) == [name |-> Name(s), signature |-> Signature(s), sql |-> s]
(* What the statements of at most n terms become.                          *)
Methods == [n \in 0 .. MaxTerms |-> {Method(s) : s \in {t \in Statement : Weight(t) <= n}}]
Names(file) == {m.name : m \in file}

SqlInit ==
  /\ made = NoStatement /\ todo = {}
  /\ iface = GeneratedMethods /\ impl = GeneratedMethods /\ mock = Names(GeneratedMethods)
  /\ broken = {} /\ cut = {} /\ spent = [terms |-> 0, runs |-> 0]

(* parseSQL accepts it.  After the first run only names that are there     *)
(* (bound: others do not meet what was written).                           *)
DaoFromSQL(method) ==
  /\ made = NoStatement /\ spent.runs < MaxSqlRuns
  /\ spent.runs = 0 \/ method.name \in Names(iface) \cup Names(impl)
  /\ made' = method
  /\ todo' = {"interface", "impl", "mock"}
  /\ spent' = [terms |-> spent.terms + Weight(method.sql), runs |-> spent.runs + 1]
  /\ UNCHANGED <<iface, impl, mock, broken, cut>>

BareUpdate == <<"UpdateBy", <<>>>>
HasName(file, method) == method.name \in Names(file)

(* An empty file has no interface to append to.  (The imports of what is   *)
(* appended are not modelled.)                                             *)
AppendToInterface ==
  /\ "interface" \in todo
  /\ iface' = IF HasName(iface, made) \/ "interface" \in broken THEN iface ELSE iface \cup {made}
  /\ todo' = todo \ {"interface"}
  /\ UNCHANGED <<made, impl, mock, broken, cut, spent>>

(* strings.Contains(old, "Update("): every implementation of a model with  *)
(* soft delete calls d.cli.Update().  Appended to an empty file it makes   *)
(* no implementation.                                                      *)
AppendToImpl ==
  /\ "interface" \notin todo /\ "impl" \in todo
  /\ impl' = IF HasName(impl, made) \/ made.name = BareUpdate \/ "impl" \in broken THEN impl
             ELSE impl \cup {made}
  /\ todo' = todo \ {"impl"}
  /\ UNCHANGED <<made, iface, mock, broken, cut, spent>>

MayFail == Cardinality(cut) + Cardinality(broken) < MaxSqlFaults

(* A file is not there, or cannot be read or opened, or has no interface;  *)
(* or its write fails and leaves it empty.  An error is printed, and the   *)
(* next file has its turn.                                                 *)
NotRead ==
  /\ MayFail /\ todo \cap {"interface", "impl"} # {}
  /\ todo' = todo \ {IF "interface" \in todo THEN "interface" ELSE "impl"}
  /\ cut' = cut \cup {made.name}
  /\ UNCHANGED <<made, iface, impl, mock, broken, spent>>
InterfaceLost ==
  /\ MayFail /\ "interface" \in todo /\ ~HasName(iface, made)
  /\ iface' = {} /\ broken' = broken \cup {"interface"}
  /\ todo' = todo \ {"interface"}
  /\ UNCHANGED <<made, impl, mock, cut, spent>>
ImplLost ==
  /\ MayFail /\ "interface" \notin todo /\ "impl" \in todo
  /\ ~(HasName(impl, made) \/ made.name = BareUpdate)
  /\ impl' = {} /\ broken' = broken \cup {"impl"}
  /\ todo' = todo \ {"impl"}
  /\ UNCHANGED <<made, iface, mock, cut, spent>>

(* The mock stays as it is when the interface cannot be parsed.            *)
RegenerateMock ==
  /\ todo = {"mock"}
  /\ mock' = IF "interface" \in broken THEN mock ELSE Names(iface)
  /\ made' = NoStatement /\ todo' = {}
  /\ UNCHANGED <<iface, impl, broken, cut, spent>>
MockLost ==
  /\ MayFail /\ todo = {"mock"}
  /\ mock' \in {mock, {}} /\ cut' = cut \cup {made.name}
  /\ made' = NoStatement /\ todo' = {}
  /\ UNCHANGED <<iface, impl, broken, spent>>

KillSql ==
  /\ MayFail /\ todo # {}
  /\ cut' = IF "interface" \in todo THEN cut ELSE cut \cup {made.name}
  /\ made' = NoStatement /\ todo' = {}
  /\ UNCHANGED <<iface, impl, mock, broken, spent>>

SqlNext ==
  \/ \E method \in Methods[MaxTerms - spent.terms] : DaoFromSQL(method)
  \/ AppendToInterface \/ AppendToImpl \/ NotRead \/ InterfaceLost \/ ImplLost
  \/ RegenerateMock \/ MockLost \/ KillSql

SqlSpec == SqlInit /\ [][SqlNext]_sqlVars
-----------------------------------------------------------------------------
SqlTypeOK ==
  /\ (made = NoStatement \/ made.sql \in Statement) /\ todo \subseteq {"interface", "impl", "mock"}
  /\ broken \subseteq {"interface", "impl"}
  /\ \A m \in iface \cup impl : m.sql \in Statement \cup {NoStatement.sql}
  /\ spent.terms \in 0 .. MaxTerms /\ spent.runs \in 0 .. MaxSqlRuns

(* Rows, as what the terms say of them; a predicate on the table's own     *)
(* column says nothing of a joined table's of the same name.               *)
Row(s) == [DOMAIN s.where -> BOOLEAN]
Truth(s, i, row) == IF s.where[i].shape \in {"not", "notIn"} THEN ~row[i] ELSE row[i]
OfSql(s) ==
  [rows |-> {row \in Row(s) : IF s.or THEN \E i \in DOMAIN s.where : Truth(s, i, row)
                              ELSE \A i \in DOMAIN s.where : Truth(s, i, row)},
   some |-> s.limited \/ s.kind \in {"one", "some", "page"},
   asked |-> {i \in DOMAIN s.where : s.where[i].shape \in {"cmp", "in", "optional", "notIn", "not"}},
   form |-> <<s.form, s.join>>]
OfMethod(s) ==
  [rows |-> {row \in Row(s) : \A c \in Predicates(s) : c.of = "table" => row[c.term]},
   some |-> s.kind \in {"one", "page"},
   asked |-> {c.term : c \in {d \in Predicates(s) : d.op # "IsNil"}},
   form |-> <<"rows", "none">>]

(* A method that compiles as it is generated, with no TODO or comment in   *)
(* it, finds, changes or deletes the rows of its statement, and takes the  *)
(* value of each placeholder, except where the statement has OR, DISTINCT, *)
(* GROUP BY, a comparison with a literal or a column, literals in IN, NOT, *)
(* a LIMIT the generator does not read, or a join it does not read, that   *)
(* of a DELETE or one other than JOIN .. ON: these, and no others, go      *)
(* wrong without a word.                                                   *)
KnownMisread(s) ==
  \/ s.or \/ s.limited \/ s.kind = "some" \/ s.form # "rows" \/ s.join # "none"
  \/ \E i \in DOMAIN s.where : s.where[i].shape \in {"literal", "columns", "inLiteral", "not"}
OnlyKnownMisread ==
  \A m \in impl : m.sql # NoStatement.sql /\ MethodCompiles(m.sql) /\ ~Marked(m.sql) =>
    (OfMethod(m.sql) # OfSql(m.sql) <=> KnownMisread(m.sql))

(* Between runs the implementation has every method of the interface, with *)
(* its signature, and the mock is that of the interface: whatever          *)
(* statements share a name, only the bare name Update, a file left empty,  *)
(* and names that a run did not write to all its files, since it was       *)
(* killed or could not read one, set the files apart.                      *)
MethodsAgree ==
  todo = {} =>
    /\ \A m \in iface : m.name \in cut \/ m.name = BareUpdate \/ "impl" \in broken
                          \/ \E n \in impl : n.name = m.name /\ n.signature = m.signature
    /\ \A n \in iface, m \in iface : n.name = m.name => n = m
    /\ mock = Names(iface) \/ cut # {} \/ "interface" \in broken

(* What the command leaves is the method that the statement asked for, in  *)
(* each of its files: see the two above.                                   *)
MethodsFollowSql == OnlyKnownMisread /\ MethodsAgree
=============================================================================
