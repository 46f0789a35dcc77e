--------------------------- MODULE ApiFormatTrees ---------------------------
(***************************************************************************)
(* Statements for ApiFormat, one for each form that prints its comments in *)
(* a way of its own, with the words that begin a line in a file as it is   *)
(* usually written.                                                        *)
(***************************************************************************)
EXTENDS Sequences

base(t) == [kind |-> "base", base |-> t]
slice(e) == [kind |-> "slice", lbrack |-> "[", rbrack |-> "]", elem |-> e]
array(e) == [kind |-> "array", lbrack |-> "[", length |-> "2", rbrack |-> "]", elem |-> e]
pointer(e) == [kind |-> "pointer", star |-> "*", elem |-> e]
mapOf(k, v) ==
  [kind |-> "map", map |-> "map", lbrack |-> "map[", key |-> k, rbrack |-> "map]", value |-> v]
struct(es) == [kind |-> "struct", lbrace |-> "{", elems |-> es, rbrace |-> "}"]
field(names, commas, d, tag) == [names |-> names, commas |-> commas, data |-> d, tag |-> tag]

expr(name, assign, d) == [name |-> name, assign |-> assign, data |-> d]
type(d) == [kind |-> "type", word |-> "type", expr |-> expr("A", <<>>, d)]
alias(d) == [kind |-> "type", word |-> "type", expr |-> expr("A", <<"=">>, d)]
typeGroup(es) == [kind |-> "types", word |-> "type", lparen |-> "(", exprs |-> es, rparen |-> ")"]

literal(word, value) == [kind |-> "literal", word |-> word, value |-> value, words |-> <<word, value>>]
imports(vs) == [kind |-> "imports", word |-> "import", lparen |-> "(", values |-> vs, rparen |-> ")"]
kv(k, v) == [key |-> k, colon |-> k \o ":", value |-> v]
group(kind, word, kvs) ==
  [kind |-> kind, word |-> word, lparen |-> word \o "(", values |-> kvs, rparen |-> word \o ")"]

(* p names the parentheses.                                                *)
body(p, brackets, star, t) ==
  [lparen |-> p \o "(", brackets |-> brackets, star |-> star, type |-> t, rparen |-> p \o ")"]
route(request, returns, response, semicolon) ==
  [method |-> "get", path |-> "path", request |-> request, returns |-> returns,
   response |-> response, semicolon |-> semicolon]
item(doc, r) == [atDoc |-> doc, atHandler |-> <<"@handler", "h">>, route |-> r]
service(at, items) ==
  [kind |-> "service", atServer |-> at, service |-> "service", name |-> "s", lbrace |-> "{",
   items |-> items, rbrace |-> "}"]

AsUsual(t, lines) == [tree |-> t, lines |-> lines]
TheTrees ==
  {AsUsual([kind |-> "syntax", words |-> <<"syntax", "=", "v1">>], {}),
   AsUsual(literal("import", "a"), {}),
   AsUsual(literal("import", "zero"), {}),
   AsUsual(imports(<<"a", "zero">>), {"a", "zero", ")"}),
   AsUsual(group("info", "info", <<kv("k", "v"), kv("l", "w")>>), {"k", "l", "info)"}),
   AsUsual(type(base("b")), {}),
   AsUsual(alias(base("b")), {}),
   AsUsual(type(slice(pointer(base("b")))), {}),
   AsUsual(type(mapOf(base("k"), array(base("v")))), {}),
   AsUsual(type(mapOf(pointer(base("k")), base("v"))), {}),
   AsUsual(type(mapOf(array(base("k")), base("v"))), {}),
   AsUsual(type(struct(<<>>)), {}),
   AsUsual(type(struct(<<field(<<"a">>, <<>>, base("b"), <<>>), field(<<>>, <<>>, base("e"), <<>>)>>)),
           {"a", "e", "}"}),
   AsUsual(type(struct(<<field(<<"a", "c">>, <<",">>, slice(base("b")), <<"tag">>)>>)), {"a", "}"}),
   AsUsual(typeGroup(<<expr("A", <<>>, base("b")), expr("B", <<>>, struct(<<>>))>>), {"A", "B", ")"}),
   AsUsual(service(<<>>, <<>>), {}),
   AsUsual(service(<<group("group", "@server", <<kv("k", "v")>>)>>,
                   <<item(<<>>, route(<<>>, <<>>, <<>>, <<>>))>>),
           {"k", "@server)", "service", "@handler", "get", "}"}),
   AsUsual(service(<<>>, <<item(<<literal("@doc", "d")>>,
                                route(<<body("q", <<>>, <<>>, <<"Q">>)>>, <<"returns">>,
                                      <<body("p", <<"[", "]">>, <<"*">>, <<"P">>)>>, <<";">>))>>),
           {"@doc", "@handler", "get", "}"}),
   AsUsual(service(<<>>, <<item(<<>>, route(<<body("q", <<>>, <<>>, <<>>)>>, <<"returns">>,
                                            <<body("p", <<>>, <<>>, <<>>)>>, <<>>))>>),
           {"@handler", "get", "}"})}
=============================================================================
