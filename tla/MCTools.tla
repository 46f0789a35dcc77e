------------------------------- MODULE MCTools -------------------------------
(***************************************************************************)
(* What zctl perf says of a project, and the code that zctl writes for     *)
(* clients, mocks, services and enums, and the document of an API: parts   *)
(* that share no state.  One runs, the others stay where they start.       *)
(***************************************************************************)
EXTENDS PerfScan, Mocks, ApiClients, RpcCode, Enums, ProtoDoc

CONSTANT Parts   \* the parts that may run

VARIABLE part

vars == <<part, perfScanVars, loopVars, perfSqlVars, redisVars, mocksVars, clientVars, namesVars,
          rpcCodeVars, enumsVars, protoDocVars>>

(* Issues of lint with a leaf and without one, an error and warnings.      *)
Issue(linter, panics, error, word) == [linter |-> linter, panics |-> panics, error |-> error, word |-> word]
TheIssues ==
  {Issue("nilerr", FALSE, TRUE, ""), Issue("gosec", FALSE, FALSE, "rand"), Issue("staticcheck", TRUE, FALSE, ""),
   Issue("staticcheck", FALSE, FALSE, ""), Issue("revive", FALSE, FALSE, "")}

(* Methods of a dao, with two implementations, without a terminal, with a  *)
(* name that is no verb; of something else; and a helper.                  *)
Callee(name, kind, terminal, executes, impls) ==
  [name |-> name, kind |-> kind, terminal |-> terminal, executes |-> executes, impls |-> impls]
TheMethods ==
  {Callee("List", "dao", TRUE, TRUE, 2), Callee("Get", "dao", TRUE, TRUE, 1), Callee("Find", "dao", FALSE, TRUE, 1),
   Callee("Sum", "dao", TRUE, TRUE, 1), Callee("Get", "other", FALSE, FALSE, 1),
   Callee("help", "helper", FALSE, FALSE, 1), Callee("All", "ent", TRUE, TRUE, 1)}

(* Parameters and results whose types need an import, a qualifier or a nil,*)
(* and names that the mock uses itself.                                    *)
Typed(prefix, base) == [prefix |-> prefix, base |-> base]
TheParams ==
  {[name |-> "x", type |-> Typed("*", "local")], [name |-> "x", type |-> Typed("map", "local")],
   [name |-> "x", type |-> Typed("*", "model")], [name |-> "args", type |-> Typed("", "basic")],
   [name |-> "n", type |-> Typed("", "basic")], [name |-> "ent", type |-> Typed("*", "ent")]}
TheResults ==
  {<<>>, <<Typed("*", "ent"), Error>>, <<Typed("[]", "ent"), Typed("", "basic"), Error>>,
   <<Typed("", "ent"), Error>>, <<Error, Error>>}

Field(var, tag, name, type) == [var |-> var, tag |-> tag, name |-> name, type |-> type, embedded |-> FALSE, pointer |-> FALSE]
TheFields ==
  {Field("a", "json", "same", "string"), Field("a", "json", "other", "objects"), Field("a", "form", "same", "bool"),
   Field("a", "form", "is", "bool"), Field("b", "form", "other", "string"), Field("b", "json", "same", "any"),
   Field("b", "json", "same", "uint"), Field("b", "path", "same", "string"), Field("b", "header", "same", "string"),
   [Field("c", "form", "same", "string") EXCEPT !.embedded = TRUE],
   [Field("c", "json", "same", "string") EXCEPT !.embedded = TRUE, !.pointer = TRUE]}

(* Services with a plain name, an acronym and a small letter; every kind   *)
(* of type, unary and streamed; names with one file, or that differ in     *)
(* case; packages with one name, in two groups and of the server's own     *)
(* imports.                                                                *)
TheServices == {<<"A", "s">>, <<"A", "A">>, <<"a", "s">>}
At(group, model) == [group |-> group, model |-> model]
RpcOf(name, req, resp, sends, receives, place) ==
  [name |-> name, req |-> req, resp |-> resp, sends |-> sends, receives |-> receives, place |-> place]
TheRpcs ==
  LET As(req, resp, sends, receives) == RpcOf(<<"A", "s">>, req, resp, sends, receives, Nowhere)
  IN UNION {{As(t, "own", FALSE, FALSE), As("own", t, FALSE, FALSE), As(t, t, FALSE, FALSE),
             As(t, t, TRUE, FALSE), As(t, "own", FALSE, TRUE)} : t \in TypeRef}
     \cup {RpcOf(name, "own", "own", FALSE, FALSE, place) :
             name \in {<<"A", "a">>, <<"A", "_", "a">>, <<"A", "A">>},
             place \in {Nowhere, At("g", "user"), At("h", "user"), At("h", "pb"), At("g", "context")}}
     \cup {RpcOf(<<"A", "a", "A">>, "own", "own", FALSE, FALSE, Nowhere),
           RpcOf(<<"a", "a", "a">>, "own", "own", FALSE, FALSE, At("g", "user"))}
     \cup {RpcOf(<<"A", "a">>, "foreign", "own", FALSE, FALSE, At("g", model)) : model \in {"common", "logic", "emptypb"}}

(* Enums of one and of two words, in two styles, one of them named like a  *)
(* function of another; values with and without the name of their enum,    *)
(* too great and too small for int8, and that spell another enum.          *)
Numbered(words, number) == [words |-> words, number |-> number]
TheEnumNames ==
  {[words |-> <<"order">>, style |-> "camel"], [words |-> <<"order", "status">>, style |-> "camel"],
   [words |-> <<"parse", "order">>, style |-> "camel"],
   [words |-> <<"order", "status">>, style |-> "acronym"]}
TheEnumValues ==
  {Numbered(<<"paid">>, 1), Numbered(<<"order", "status", "paid">>, 0), Numbered(<<"status">>, 200), Numbered(<<"values">>, 2),
   Numbered(<<"lost">>, 0), Numbered(<<"old">>, 0 - 200)}

(* Fields of each kind of type, with a rule on their line or below it, one *)
(* of them not the rule that the field be given; and with messages, one of *)
(* them inside the other.                                                  *)
DocFieldOf(name, type, label, validated, demanded) ==
  [name |-> name, type |-> type, label |-> label, validated |-> validated, demanded |-> demanded]
TheDocFields ==
  {DocFieldOf("x", <<"string">>, "optional", "line", TRUE), DocFieldOf("x", <<"bytes">>, "optional", "below", TRUE),
   DocFieldOf("x", <<"sint32">>, "", "none", FALSE), DocFieldOf("x", <<"enum">>, "repeated", "none", FALSE),
   DocFieldOf("x", <<"string">>, "repeated", "line", FALSE),
   DocFieldOf("f", <<"A">>, "repeated", "none", FALSE), DocFieldOf("f", <<"B">>, "", "line", FALSE),
   DocFieldOf("f", <<"B", "A">>, "optional", "line", TRUE)}

(* The parts with more than one initial state have one of them when they   *)
(* do not run.                                                             *)
Init ==
  /\ part \in Parts
  /\ PerfScanInit
  /\ part # "scan" => problems = {} /\ lintable = {}
  /\ LoopsInit
  /\ PerfSqlInit
  /\ part # "sql" => method = "other"
  /\ RedisInit
  /\ MocksInit
  /\ part # "mocks" => embeds = FALSE
  /\ ClientsInit
  /\ part # "clients" => lang = "java" /\ api.method = "get" /\ api.fields = {} /\ ~api.response
  /\ NamesInit
  /\ RpcCodeInit
  /\ part # "rpc" => service = <<"A", "s">> /\ message = service /\ ~multiple
  /\ EnumsInit /\ ProtoDocInit

(* What the part that runs does.                                           *)
ScanStep ==
  /\ part = "scan" /\ PerfScanNext
  /\ UNCHANGED <<part, loopVars, perfSqlVars, redisVars, mocksVars, clientVars, namesVars, rpcCodeVars,
                enumsVars, protoDocVars>>
LoopsStep ==
  /\ part = "loops" /\ LoopsNext
  /\ UNCHANGED <<part, perfScanVars, perfSqlVars, redisVars, mocksVars, clientVars, namesVars, rpcCodeVars,
                enumsVars, protoDocVars>>
SqlStep ==
  /\ part = "sql" /\ PerfSqlNext
  /\ UNCHANGED <<part, perfScanVars, loopVars, redisVars, mocksVars, clientVars, namesVars, rpcCodeVars,
                enumsVars, protoDocVars>>
RedisStep ==
  /\ part = "redis" /\ RedisNext
  /\ UNCHANGED <<part, perfScanVars, loopVars, perfSqlVars, mocksVars, clientVars, namesVars, rpcCodeVars,
                enumsVars, protoDocVars>>
MocksStep ==
  /\ part = "mocks" /\ MocksNext
  /\ UNCHANGED <<part, perfScanVars, loopVars, perfSqlVars, redisVars, clientVars, namesVars, rpcCodeVars,
                enumsVars, protoDocVars>>
ClientsStep ==
  /\ part = "clients" /\ ClientsNext
  /\ UNCHANGED <<part, perfScanVars, loopVars, perfSqlVars, redisVars, mocksVars, namesVars, rpcCodeVars,
                enumsVars, protoDocVars>>
NamesStep ==
  /\ part = "names" /\ NamesNext
  /\ UNCHANGED <<part, perfScanVars, loopVars, perfSqlVars, redisVars, mocksVars, clientVars, rpcCodeVars,
                enumsVars, protoDocVars>>
RpcStep ==
  /\ part = "rpc" /\ RpcCodeNext
  /\ UNCHANGED <<part, perfScanVars, loopVars, perfSqlVars, redisVars, mocksVars, clientVars, namesVars,
                enumsVars, protoDocVars>>
EnumsStep ==
  /\ part = "enums" /\ EnumsNext
  /\ UNCHANGED <<part, perfScanVars, loopVars, perfSqlVars, redisVars, mocksVars, clientVars, namesVars, rpcCodeVars,
                protoDocVars>>
DocStep ==
  /\ part = "doc" /\ ProtoDocNext
  /\ UNCHANGED <<part, perfScanVars, loopVars, perfSqlVars, redisVars, mocksVars, clientVars, namesVars, rpcCodeVars,
                enumsVars>>

Next ==
  \/ ScanStep \/ LoopsStep \/ SqlStep \/ RedisStep
  \/ MocksStep \/ ClientsStep \/ NamesStep \/ RpcStep \/ EnumsStep \/ DocStep

Spec == Init /\ [][Next]_vars

(* Each part keeps its types.                                              *)
ToolsTypeOK ==
  /\ PerfScanTypeOK /\ LoopsTypeOK /\ PerfSqlTypeOK /\ RedisTypeOK
  /\ MocksTypeOK /\ ClientsTypeOK /\ NamesTypeOK /\ RpcCodeTypeOK
  /\ EnumsTypeOK /\ ProtoDocTypeOK

(* Code that zctl writes against the interfaces of developers and the code *)
(* of protoc compiles with them, mocks answer what a test says, and enums  *)
(* and API documents have what the proto has, but in the cases that are    *)
(* named: see MocksKnown, NamesKnown, CodeKnown, EnumsKnown and DocKnown.  *)
GeneratedFits == MocksKnown /\ NamesKnown /\ CodeKnown /\ EnumsKnown /\ DocKnown
=============================================================================
