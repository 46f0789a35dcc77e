------------------------------ MODULE PerfRedis ------------------------------
(***************************************************************************)
(* The key and the TTL that zctl perf shows for a redis call: tables of    *)
(* constants, key functions and TTL functions, by bare name, filled file   *)
(* by file (buildRedisKeyCache); the arguments of a call, read from the    *)
(* text of its function (extractRedisArgs); and the two put together       *)
(* (resolveKeyHint, resolveTTLHint).                                       *)
(***************************************************************************)
EXTENDS Naturals, Sequences, FiniteSets

CONSTANTS MaxDecls, MaxLines   \* bounds: declarations, lines of the function

ASSUME RedisAssumption == {MaxDecls, MaxLines} \subseteq Nat

(* Names of constants and of a function, and which of them is part of      *)
(* which: strings.Contains.                                                *)
ConstName == {"TTL", "SessionTTL"}
TtlFunc == "sessionTTL"
HasPart(text, const) == const = "TTL" \/ text = const

Decl ==
  [kind : {"const"}, name : ConstName, value : {1, 2}]
  \cup [kind : {"key"}, prefix : {"a", "b"}, params : {1, 2}]
  \cup [kind : {"ttl"}, uses : ConstName]

(* A line of the function: k := <expression>, or a redis call with its     *)
(* key, its TTL, and its form: with a context first, or without.           *)
KeyExpr == {<<"literal", "x">>, <<"keyFunction", "x">>, <<"variable", "k">>}
TtlExpr == ({"name"} \X ConstName) \cup {<<"selector", "TTL">>, <<"call", TtlFunc>>}
Line ==
  [do : {"assign"}, expr : {<<"literal", "x">>, <<"literal", "y">>, <<"keyFunction", "x">>}]
  \cup [do : {"call"}, method : {"setex", "expire"}, key : KeyExpr, ttl : TtlExpr, ctx : BOOLEAN]

VARIABLES
  decls,    \* what the files declare, in the order they are scanned
  consts,   \* ttlConstCache: values per name
  keyFuncs, \* keyFuncCache: the template of the one key function, or none
  ttlFuncs, \* ttlFuncCache: the value of the TTL function, or none
  lines,    \* the function with the redis calls
  hints     \* per call: the key, and the TTLs that it may show

redisVars == <<decls, consts, keyFuncs, ttlFuncs, lines, hints>>

Nothing == [prefix |-> "none", params |-> 0]
Unresolved == 0

RedisInit ==
  /\ decls = <<>> /\ consts = [n \in ConstName |-> 0] /\ keyFuncs = Nothing /\ ttlFuncs = 0
  /\ lines = <<>> /\ hints = <<>>

(* A name that is declared again takes the place of the first; a TTL       *)
(* function sees the constants that came before it.                        *)
Evaluated(d) == IF d.kind = "const" THEN [consts EXCEPT ![d.name] = d.value] ELSE consts
Template(d) == IF d.kind = "key" THEN [prefix |-> d.prefix, params |-> d.params] ELSE keyFuncs
DefaultInt(d) == IF d.kind = "ttl" /\ consts[d.uses] # 0 THEN consts[d.uses] ELSE ttlFuncs
ScanDecl ==
  /\ lines = <<>> /\ hints = <<>> /\ Len(decls) < MaxDecls
  /\ \E d \in Decl :
       /\ decls' = Append(decls, d)
       /\ consts' = Evaluated(d) /\ keyFuncs' = Template(d) /\ ttlFuncs' = DefaultInt(d)
  /\ UNCHANGED <<lines, hints>>

WriteLine ==
  /\ hints = <<>> /\ Len(lines) < MaxLines
  /\ \E l \in Line :
       /\ l.do = "call" /\ l.key[1] = "variable" => \E i \in DOMAIN lines : lines[i].do = "assign"
       /\ l.do = "call" /\ ~l.ctx => l.ttl = <<"name", "TTL">>   \* bound: it is not read
       /\ lines' = Append(lines, l)
  /\ UNCHANGED <<decls, consts, keyFuncs, ttlFuncs, hints>>

Calls == {i \in DOMAIN lines : lines[i].do = "call"}
Assigns == {i \in DOMAIN lines : lines[i].do = "assign"}
Earliest(S) == CHOOSE i \in S : \A j \in S : i <= j

(* extractRedisArgs reads the first call of that method, and the arguments *)
(* as if there were a context: without one, setex shows its value and      *)
(* expire its seconds as the key.                                          *)
ReadCall(i) == lines[Earliest({j \in Calls : lines[j].method = lines[i].method})]
KeyArg(call) == IF call.ctx THEN call.key ELSE <<"value", "none">>

(* resolveRedisKeyExpr: the first := of a variable, wherever it is.        *)
Resolved(expr) == IF expr[1] = "variable" THEN lines[Earliest(Assigns)].expr ELSE expr
(* resolveKeyHint: all arguments go to the first parameter.                *)
KeyHint(expr) ==
  IF expr[1] = "keyFunction" /\ keyFuncs # Nothing
  THEN <<keyFuncs.prefix, keyFuncs.params, expr[2]>> ELSE expr

(* resolveTTLHint: a selector is written in snake case, which no constant  *)
(* is; a name is in braces, so that constants are looked for within it, in *)
(* the order of a map; then the TTL function.                              *)
TtlHints(expr) ==
  LET within == {consts[c] : c \in {n \in ConstName : consts[n] # 0 /\ HasPart(expr[2], n)}}
  IN CASE expr[1] = "selector" -> {Unresolved}
       [] expr[1] # "selector" /\ within # {} -> within
       [] expr[1] = "call" /\ within = {} -> {ttlFuncs}
       [] OTHER -> {Unresolved}

ShowCalls ==
  /\ Calls # {} /\ hints = <<>>
  /\ hints' = [i \in Calls |-> [key |-> KeyHint(Resolved(KeyArg(ReadCall(i)))),
                                ttls |-> IF ReadCall(i).ctx THEN TtlHints(ReadCall(i).ttl) ELSE {Unresolved}]]
  /\ UNCHANGED <<decls, consts, keyFuncs, ttlFuncs, lines>>

RedisNext == ScanDecl \/ WriteLine \/ ShowCalls
RedisSpec == RedisInit /\ [][RedisNext]_redisVars
-----------------------------------------------------------------------------
RedisTypeOK ==
  /\ decls \in Seq(Decl) /\ Len(decls) <= MaxDecls /\ Len(lines) <= MaxLines
  /\ consts \in [ConstName -> 0 .. 2] /\ ttlFuncs \in 0 .. 2
  /\ hints = <<>> \/ DOMAIN hints = Calls

(* What a call really uses: its variable's last value.                     *)
Declared(kind) == {i \in DOMAIN decls : decls[i].kind = kind}
TrueExpr(i) ==
  LET before == {j \in Assigns : j < i}
  IN IF lines[i].key[1] = "variable"
     THEN lines[CHOOSE j \in before : \A k \in before : k <= j].expr ELSE lines[i].key

(* A call shows its own key, unless the function has another call of that  *)
(* method, assigns the variable twice, or calls without a context; or the  *)
(* key function has namesakes.                                             *)
KeyMisread(i) ==
  \/ \E j \in Calls \ {i} : lines[j].method = lines[i].method
  \/ Cardinality(Assigns) > 1
  \/ ~lines[i].ctx
  \/ Cardinality(Declared("key")) > 1
KeysKnown ==
  \A i \in DOMAIN hints :
    KeyMisread(i) \/
      hints[i].key = IF TrueExpr(i)[1] = "keyFunction" /\ Declared("key") # {}
                     THEN LET d == decls[Earliest(Declared("key"))]
                          IN <<d.prefix, d.params, TrueExpr(i)[2]>>
                     ELSE TrueExpr(i)

(* A TTL that is shown as a number is the call's, unless the call is not   *)
(* the one that is read, a constant has namesakes, or the name of another  *)
(* constant is part of the call's: then any of them may show, at random.   *)
TtlMisread(i) ==
  \/ \E j \in Calls \ {i} : lines[j].method = lines[i].method
  \/ \E n \in ConstName : Cardinality({d \in Declared("const") : decls[d].name = n}) > 1
  \/ Cardinality(Declared("ttl")) > 1
  \/ \E n \in ConstName : HasPart(lines[i].ttl[2], n) /\ n # lines[i].ttl[2]
                          /\ \E d \in Declared("const") : decls[d].name = n
Value(n) == {decls[d].value : d \in {e \in Declared("const") : decls[e].name = n}}
TrueTtl(i) ==
  IF lines[i].ttl[1] = "call" THEN UNION {Value(decls[d].uses) : d \in Declared("ttl")}
  ELSE Value(lines[i].ttl[2])
TtlsKnown ==
  \A i \in DOMAIN hints : TtlMisread(i) \/ hints[i].ttls \subseteq TrueTtl(i) \cup {Unresolved}
=============================================================================
