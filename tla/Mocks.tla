--------------------------------- MODULE Mocks ---------------------------------
(***************************************************************************)
(* The testify mocks that zctl writes for a dao interface: genDaoMock when *)
(* the ent command runs, regenerateMock when the dao command has added a   *)
(* method, each with a copy of the same code, and writeRepoMock for the    *)
(* methods that the repo takes from the dao.  What they write must compile *)
(* against the interface as developers left it, and must return what a     *)
(* test has told it to.                                                    *)
(***************************************************************************)
EXTENDS Naturals, Sequences, SequencesExt, FiniteSets, FiniteSetsExt

CONSTANTS Param,     \* a parameter next to ctx: [name, type]; its name is that of no Go type
          Results,   \* the results of a method: a sequence of types
          MaxMethods \* bound: methods of the interface, next to WithTx

(* A type is a prefix and a base: a basic type, a type of the dao package, *)
(* or one of ent, pkg/model or time.  "dao" is a local type once qualified.*)
Type == [prefix : {"", "*", "[]", "map"}, base : {"error", "basic", "local", "dao", "ent", "model", "time"}]
Plain(base) == [prefix |-> "", base |-> base]
Error == Plain("error")
Packages == {"dao", "ent", "model", "time"}

(* varNameForIndex: a variable for each result that is no error.           *)
VarNames == <<"v", "n", "n2", "n3">>   \* bound: no fifth one
OfInterface == {t \in Type : t.base # "dao"}
ASSUME MocksAssumption ==
  /\ MaxMethods \in Nat
  /\ Param \subseteq [name : STRING, type : OfInterface]
  /\ Results \subseteq {results \in Seq(OfInterface) : Len(results) <= Len(VarNames)}

Signature == [ctx : BOOLEAN, param : Param, results : Results]

VARIABLES
  iface,    \* the methods of <Model>Dao, in their order
  embeds,   \* it embeds an interface, whose methods its file does not show
  readable, \* the file parses
  mock,     \* the mock on disk: who wrote it, and its methods
  answer    \* the last call in a test: what was told and what came back

mocksVars == <<iface, embeds, readable, mock, answer>>

NoAnswer == [by |-> "none", results |-> <<>>, told |-> <<>>, got |-> <<>>]

(* qualifyTypeToken: after "*", "[]" or "[]*", and after nothing else.     *)
Qualified(t) == IF t.base = "local" /\ t.prefix # "map" THEN [t EXCEPT !.base = "dao"] ELSE t

(* zeroValForType: what is no pointer, slice or basic type has nil.        *)
Zero(t) == IF t.prefix = "" /\ t.base = "basic" THEN "0" ELSE "nil"

(* buildReturnStmt: an assertion for each result that is no error, with a  *)
(* return of zeros should it fail, and a return of all at the end; all     *)
(* errors there are the first.                                             *)
Values(results) == {i \in DOMAIN results : results[i] # Error}
Errors(results) == DOMAIN results \ Values(results)
FirstError(results) == IF Errors(results) = {} THEN 0 ELSE Min(Errors(results))
VarName(results, i) == VarNames[1 + Cardinality({j \in Values(results) : j < i})]
FallBack(results) ==
  [j \in DOMAIN results |-> IF j = FirstError(results) THEN "args.Error" ELSE Zero(results[j])]

Emitted(sig) ==
  [ctx |-> sig.ctx, results |-> [i \in DOMAIN sig.results |-> Qualified(sig.results[i])],
   param |-> [sig.param EXCEPT !.type = Qualified(@)], checked |-> TRUE]

(* defaultCRUDMethods: assertions without a check.                         *)
CrudMethod ==
  [ctx |-> TRUE, param |-> [name |-> "data", type |-> [prefix |-> "*", base |-> "ent"]],
   results |-> <<[prefix |-> "*", base |-> "ent"], Error>>, checked |-> FALSE]

MocksInit ==
  /\ iface = <<>> /\ embeds \in BOOLEAN /\ readable = TRUE
  /\ mock = [by |-> "none", methods |-> <<>>]
  /\ answer = NoAnswer

(* A method of the interface is the developer's, or the dao command's.     *)
Declare ==
  /\ Len(iface) < MaxMethods /\ mock.by = "none"   \* bound: no method after a mock
  /\ \E sig \in Signature : iface' = Append(iface, sig)
  /\ answer' = NoAnswer
  /\ UNCHANGED <<embeds, readable, mock>>

Break ==
  /\ readable' = ~readable
  /\ answer' = NoAnswer
  /\ UNCHANGED <<iface, embeds, mock>>

GenDaoMock ==
  /\ mock' = [by |-> "ent",
              methods |-> IF readable THEN [i \in DOMAIN iface |-> Emitted(iface[i])] ELSE <<CrudMethod>>]
  /\ answer' = NoAnswer
  /\ UNCHANGED <<iface, embeds, readable>>

RegenerateMock ==
  /\ readable
  /\ mock' = [by |-> "dao", methods |-> [i \in DOMAIN iface |-> Emitted(iface[i])]]
  /\ answer' = NoAnswer
  /\ UNCHANGED <<iface, embeds, readable>>

(* What a method of the mock returns when a test has told it to return     *)
(* values and untyped nils.                                                *)
FromDaoMock(m, told) ==
  LET nils == {i \in Values(m.results) : told[i] = "nil"}
  IN IF m.checked
     THEN [j \in DOMAIN m.results |->
             IF j \in Errors(m.results) /\ (nils = {} \/ j = FirstError(m.results))
             THEN told[FirstError(m.results)]
             ELSE IF nils # {} THEN "nil" ELSE told[j]]
     ELSE IF nils # {} THEN <<"panic">> ELSE told

(* renderMockForReturnTypes: a pointer and an error are read with care.    *)
FromRepoMock(m, told) ==
  IF /\ \E i \in Values(m.results) : told[i] = "nil"
     /\ ~(Len(m.results) = 2 /\ m.results[2] = Error /\ m.results[1].prefix = "*")
  THEN <<"panic">> ELSE told

CallMock ==
  /\ answer = NoAnswer /\ Len(iface) = 1   \* bound: one method, one call between changes
  /\ \E i \in DOMAIN mock.methods :
       LET m == mock.methods[i] IN
         \E told \in [DOMAIN m.results -> {"value", "nil"}] :
           \/ answer' = [by |-> "dao", results |-> m.results, told |-> told, got |-> FromDaoMock(m, told)]
           \/ /\ m.ctx
              /\ answer' = [by |-> "repo", results |-> m.results, told |-> told, got |-> FromRepoMock(m, told)]
  /\ UNCHANGED <<iface, embeds, readable, mock>>

(* The dao's mock of WithTx is written apart: told nil, it returns itself. *)
(* The dao command's copy takes it for a method like any other.            *)
CallWithTx ==
  /\ mock.by # "none"
  /\ answer' = [by |-> mock.by, results |-> <<Plain("dao")>>, told |-> <<"nil">>,
                got |-> IF mock.by = "ent" THEN <<"the mock">> ELSE <<"nil">>]
  /\ UNCHANGED <<iface, embeds, readable, mock>>

MocksNext ==
  \/ Declare \/ Break \/ GenDaoMock \/ RegenerateMock \/ CallMock \/ CallWithTx
-----------------------------------------------------------------------------
MocksTypeOK ==
  /\ Len(iface) <= MaxMethods /\ iface \in Seq(Signature)
  /\ embeds \in BOOLEAN /\ readable \in BOOLEAN
  /\ mock.by \in {"none", "ent", "dao"} /\ answer.by \in {"none", "ent", "dao", "repo"}

(* The Go compiler on the mock: its imports, all of them used; nil where   *)
(* it may stand; names that are declared once and used.                    *)
Imports == {"context", "ent", "dao"} \cup IF mock.by = "ent" THEN {"model"} ELSE {}
TypesOf(m) == Range(m.results) \cup {m.param.type}
Named(m) == {t.base : t \in TypesOf(m)} \ {"error", "basic"}
Used ==
  {"ent", "dao"} \cup UNION {Named(m) \cup (IF m.ctx THEN {"context"} ELSE {}) : m \in Range(mock.methods)}
TakesNil(t) == t.prefix # "" \/ t.base = "error"
Hides(name, t) == name = t.base /\ name \in Packages   \* a parameter, the package of a result
BodyCompiles(m) ==
  /\ m.results # <<>>                                           \* args is used
  /\ m.param.name \notin {"args", "m", "_"}
  /\ \A i \in Values(m.results) :
       /\ m.param.name # "ok"                                    \* no type here is bool
       /\ ~Hides(m.param.name, m.results[i])
       /\ m.param.name # VarName(m.results, i) \/ (m.param.name = "v" /\ m.param.type = m.results[i])
       /\ \A j \in DOMAIN m.results :
            FallBack(m.results)[j] = "nil" => TakesNil(m.results[j])
MockCompiles ==
  /\ Used = Imports
  /\ \A m \in Range(mock.methods) : m.checked => BodyCompiles(m)
  /\ ~embeds

(* "Code generated by zctl": the mock of an interface that parsed compiles *)
(* and implements it, unless the interface embeds another; a method has no *)
(* results, or has a struct among them; its parameter has the name of a    *)
(* variable of the mock, or of the package of a result; it takes a map of  *)
(* a type of the dao's own; or its imports are other than those of List:   *)
(* context and, from the ent command only, pkg/model.                      *)
Unfit(sig) ==
  \/ sig.results = <<>>
  \/ sig.param.name \in {"args", "m", "_"}
  \/ sig.param.name = "ok" /\ Values(sig.results) # {}
  \/ \E k \in 2 .. Len(VarNames) : sig.param.name = VarNames[k] /\ Cardinality(Values(sig.results)) >= k
  \/ sig.param.name = "v" /\ \E i \in Values(sig.results) : \A j \in Values(sig.results) : i <= j
                                /\ sig.param.type # sig.results[i]
  \/ \E t \in Range(sig.results) : Hides(sig.param.name, Qualified(t))
  \/ \E t \in Range(sig.results) : t.prefix = "" /\ t.base \notin {"error", "basic"}
Says(sig, base) == \E t \in Range(sig.results) \cup {sig.param.type} : t.base = base
MocksFit ==
  mock.by # "none" /\ mock.methods # <<CrudMethod>> =>
    ( MockCompiles <=>
        /\ ~embeds
        /\ \A i \in DOMAIN iface : ~Unfit(iface[i]) /\ ~Says(iface[i], "time")
        /\ \A i \in DOMAIN iface : \A t \in Range(iface[i].results) \cup {iface[i].param.type} :
             t # [prefix |-> "map", base |-> "local"]
        /\ \E i \in DOMAIN iface : iface[i].ctx
        /\ mock.by = "ent" <=> \E i \in DOMAIN iface : Says(iface[i], "model") )

(* A mock returns what it was told to return, but for an untyped nil: of a *)
(* dao's mock every other result comes back as its zero, and a repo's or a *)
(* fallback's panics unless it is a pointer with an error; a second error  *)
(* comes back as the first; and told nil for WithTx, the mock of the dao   *)
(* command returns nil.                                                    *)
MocksAnswer ==
  LET nils == {i \in Values(answer.results) : answer.told[i] = "nil"}
  IN \/ answer.got = answer.told
     \/ nils # {} /\ (Cardinality(Values(answer.results)) > 1 \/ answer.got \in {<<"panic">>, <<"the mock">>})
     \/ Cardinality(Errors(answer.results)) > 1
MocksKnown == MocksFit /\ MocksAnswer
=============================================================================
