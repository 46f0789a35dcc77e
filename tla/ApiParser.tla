----------------------------- MODULE ApiParser -----------------------------
(***************************************************************************)
(* The recursive descent parser of .api files (pkg/parser/api/parser).     *)
(* It reads tokens two at a time, cur and peek, from a scanner that may    *)
(* hand out anything.  The call stack of the parse functions is the        *)
(* sequence todo of what they still have to do; a function is the sequence *)
(* it starts with.  The text of a token is kept where the parser looks at  *)
(* it.  One comment may stand anywhere in the file, to see where it ends   *)
(* up in the syntax tree.                                                  *)
(***************************************************************************)
EXTENDS Integers, Sequences

CONSTANTS MaxOpen,      \* bound: brackets open at once, for model checking
          MaxIdle       \* steps without a token that make a loop

(* No function needs more than 18 steps to come to a token.                *)
ASSUME ParserAssumption == MaxOpen \in Nat /\ MaxIdle \in Nat /\ MaxIdle > 18

(* Identifiers: words the parser asks for by their text, and "id".  Four   *)
(* of them, "func" for the others, are keywords of Go.                     *)
GoKeyword == {"type", "import", "map", "func"}
Ident == {"id", "syntax", "info", "service", "returns", "any", "get", "api"} \cup GoKeyword
Opening == {"(", "[", "{"}
Closing == {")", "]", "}"}
Closes(c) == CASE c = ")" -> "(" [] c = "]" -> "[" [] c = "}" -> "{"
Punct == {"-", "*", "/", "=", ",", ".", ";", ":", "..."}
Other == {"int", "duration", "string", "raw", "interface{}", "illegal", "eof",
          "@doc", "@handler", "@server"}
Token == Ident \cup Opening \cup Closing \cup Punct \cup Other
ErrorToken == "error"   \* what NextToken hands out together with an error

(* Tokens that may be a part of a path, of a service name or of a value of *)
(* @server, or a comma, a semicolon, or a "}" in place of @handler.        *)
Textual == {"/", ":", "-", ".", ",", ";", "}", "int", "duration", "string"} \cup Ident

(* The observed comment: not read yet; in headCommentGroup; a head or a    *)
(* leading comment of cur; in the tree; or lost with the node of a token,  *)
(* one of those above or another.                                          *)
Note == {"ahead", "pending", "head", "leading", "kept", "lost", "gone"}

VARIABLES
  cur,      \* curTok
  peek,     \* peekTok
  todo,     \* what is left of the parse functions under way
  errors,   \* some error was added to p.errors
  outcome,  \* "parsing", or what Parse did: "ast", "nil", "panic"
  folded,   \* the tree does not get the node of cur
  note,     \* where the observed comment is
  open,     \* the brackets read that have no partner
  slip,     \* some item took a "}" for its @handler, or has no route
  idle      \* steps since the last token

tokenVars == <<cur, peek, folded, note, open>>
parserVars == <<cur, peek, todo, errors, outcome, folded, note, open, slip, idle>>

(* Entries of todo.  Advance: advanceIfPeekTokenIs or a nextToken that     *)
(* follows such a test; the node goes into the tree.  Fold: the same of a  *)
(* token whose text goes into a node made up later.  Drop: the same of a   *)
(* token the tree has no place for.  Look: notExpectPeekToken.             *)
Advance(T) == <<"advance", T>>
Fold(T)    == <<"fold", T>>
Drop(T)    == <<"drop", T>>
Look(T)    == <<"look", T>>
Do(f)      == <<"do", f>>
NotKeyword == <<"check", "keyword">>      \* curTokenIsKeyword
NoComment  == <<"check", "comment">>      \* notExpectPeekTokenGotComment
MakeNode   == <<"node", "path">>          \* a node for folded tokens
Skip       == <<"skip", ";">>             \* nextToken, its result not looked at
-----------------------------------------------------------------------------
(* Statements.                                                             *)

ParseSyntaxStmt == <<Advance({"="}), Advance({"string"})>>

ParseKVExpression ==
  <<Advance(Ident), Advance({":"}), Advance({"string", "raw"} \cup Ident)>>

(* A loop reads entries until it sees the closing bracket.                 *)
Until(close, entry, f) ==
  IF peek = close THEN <<>> ELSE entry \o <<Do(f)>>

KVs == Until(")", ParseKVExpression \o <<Look({")"} \cup Ident)>>, "kvs")

ParseInfoStmt == <<Advance({"("}), Do("kvs"), Advance({")"})>>

Imports == Until(")", <<Advance({"string"}), Look({")", "string"})>>, "imports")

ParseImportStmt ==
  IF peek = "(" THEN <<Advance({"("}), Do("imports"), Advance({")"})>>
  ELSE <<Look({"(", "string"}), Advance({"string"})>>
-----------------------------------------------------------------------------
(* Services.                                                               *)

HttpMethods == {"get"}
ItemEnd == {"@doc", "@handler", "}"}
PathEnd == ItemEnd \cup {"(", "returns", ";"}

ServiceRest ==
  <<Fold(Ident), Do("serviceName"), MakeNode, Advance({"{"}), Do("items"), Advance({"}"})>>

ParseAtServerStmt == <<Advance({"("}), Do("serverKVs"), Advance({")"})>>

ParseService ==
  IF cur = "@server" THEN ParseAtServerStmt \o <<Advance({"service"})>> \o ServiceRest
  ELSE ServiceRest

ParseServiceNameExpr == IF peek = "-" THEN <<Fold({"-"}), Fold({"api"})>> ELSE <<>>

ParseServiceItemsStmt == Until("}", <<Do("item"), Do("afterItem")>>, "items")
AfterItem == IF peek = "}" THEN <<>> ELSE <<Look(ItemEnd)>>

ParseAtDocStmt ==
  IF peek = "(" THEN <<Advance({"("}), Do("kvs"), Advance({")"})>>
  ELSE <<Look({"(", "string"}), Advance({"string"})>>

ParseServiceItemStmt ==
  (IF peek = "@doc" THEN <<Advance({"@doc"}), Do("atDoc")>> ELSE <<>>)
    \o <<Advance({"@handler", "}"}), Do("handler")>>

(* An item that ends here has neither handler nor route.                   *)
HandlerAndRoute ==
  IF peek = "}" THEN <<>> ELSE <<Advance(Ident), Do("route")>>

ParseRouteStmt ==
  <<Advance(HttpMethods), Do("path"), MakeNode, Do("afterPath")>>

(* A path of no token at all makes values[0] panic.                        *)
ParsePathExpr == IF peek \in PathEnd THEN <<Do("panic")>> ELSE <<Do("pathRest")>>

PathRest ==
  IF peek \in PathEnd THEN <<>> ELSE <<Fold({"/"}), Do("segment")>>
Segment ==
  IF peek \in PathEnd THEN <<>>
  ELSE <<NoComment, Look({":", "int"} \cup Ident)>>
         \o (IF peek = ":" THEN <<Fold({":"})>> ELSE <<>>)
         \o <<Fold({"int"} \cup Ident), Do("pathItem"),
              Look({"/"} \cup PathEnd), Do("pathRest")>>

ParsePathItemStuck ==   \* wrong: the part of the path is not read
  IF peek \in PathEnd \cup {"/", "eof"} THEN <<>> ELSE <<Do("pathItem")>>
ParsePathItem ==
  CASE peek \in PathEnd \cup {"/", "eof"} -> <<>>
    [] peek \in {"-", "."} -> <<Fold({"-", "."}), Fold(Ident), Do("pathItem")>>
    [] OTHER -> <<Fold(Ident), Do("pathItem")>>

AfterPath ==
  CASE peek \in ItemEnd -> <<>>
    [] peek = ";" -> <<Skip>>
    [] peek = "(" -> <<Do("body"), Do("returns")>>
    [] OTHER -> <<Look({"returns", "("}), Do("returns")>>
Returns ==
  <<Look(ItemEnd \cup {"returns", ";"})>>
    \o (IF peek = "returns" THEN <<Advance({"returns"}), Do("body")>> ELSE <<>>)
    \o <<Do("semicolon")>>
Semicolon == IF peek = ";" THEN <<Skip>> ELSE <<>>

ParseBodyStmt == <<Advance({"("}), Do("bodyRest")>>
BodyRest ==
  IF peek = ")" THEN <<Advance({")"})>> ELSE <<Do("bodyExpr"), Advance({")"})>>

BodyElem ==
  IF peek = "*" THEN <<Advance({"*"}), Advance(Ident)>>
  ELSE <<Advance({"*"} \cup Ident)>>
ParseBodyExpr ==
  IF peek = "[" THEN <<Advance({"["}), Advance({"]"}), Do("bodyElem")>>
  ELSE BodyElem
-----------------------------------------------------------------------------
(* @server ( key: value ... ): a value is a path, a list, a name with      *)
(* dashes, or a literal, and becomes one node.                             *)

ServerKVs == Until(")", <<Do("serverKV"), Look({")"} \cup Ident)>>, "serverKVs")

ParseAtServerKVExpression ==
  <<Advance({")"} \cup Ident), Advance({":"}),
    Look({"/", "duration", "int", "string"} \cup Ident), Do("serverValue"), MakeNode>>

ServerValue ==
  CASE peek = "/" -> <<Do("slashes")>>
    [] peek \in {"duration", "int", "string"} -> <<Fold({peek})>>
    [] OTHER -> <<Fold(Ident), Do("joined")>>
Joined ==
  CASE peek = "," -> <<Do("commas")>>
    [] peek = "-" -> <<Do("dashes")>>
    [] OTHER -> <<Do("slashes")>>
Commas == IF peek = "," THEN <<Fold({","}), Fold(Ident), Do("commas")>> ELSE <<>>
Dashes == IF peek = "-" THEN <<Fold({"-"}), Fold(Ident), Do("dashes")>> ELSE <<>>
OneDash == IF peek = "-" THEN <<Fold({"-"}), Fold(Ident)>> ELSE <<>>
Slashes ==
  IF peek = "/" THEN <<Fold({"/"}), Fold(Ident), Do("oneDash"), Do("slashes")>> ELSE <<>>
-----------------------------------------------------------------------------
(* Types.                                                                  *)

ParseTypeStmt ==
  CASE peek = "(" -> <<Advance({"("}), Look({")"} \cup Ident), Do("typeList"), Advance({")"})>>
    [] peek \in Ident -> <<Do("typeExpr")>>
    [] OTHER -> <<Look({"("} \cup Ident)>>

ParseTypeExprList ==
  IF peek \in {")", "eof"} THEN <<>>
  ELSE <<Do("typeExpr"), Look({")"} \cup Ident), Do("typeList")>>

ParseTypeExpr == <<Advance(Ident), NotKeyword, Do("assign"), Do("dataType")>>
Assign == IF peek = "=" THEN <<Advance({"="})>> ELSE <<>>

ParseDataType ==
  CASE peek = "any" -> <<Advance({"any"})>>
    [] peek = "{" ->
         <<Advance({"{"}), Look({"*", "}"} \cup Ident), Do("elems"), Advance({"}"})>>
    [] peek = "map" ->
         <<Advance({"map"}), Advance({"["}), Do("dataType"), Advance({"]"}), Do("dataType")>>
    [] peek \in Ident \ {"any", "map"} -> <<Advance(Ident), NotKeyword>>
    [] peek = "[" -> <<Advance({"["}), Do("length")>>
    [] peek = "interface{}" -> <<Advance({"interface{}"})>>
    [] peek = "*" ->
         <<Advance({"*"}), Look({"[", "interface{}", "*"} \cup Ident), Do("dataType")>>
    [] OTHER -> <<Look({"[", "interface{}", "*", "{"} \cup Ident)>>

(* parseSliceDataType, parseArrayDataType                                  *)
Length ==
  (IF peek \in {"int", "..."} THEN <<Advance({"int", "..."})>> ELSE <<>>)
    \o <<Advance({"]"}), Do("dataType")>>

ParseElemExprList ==
  IF peek \in {"}", "eof"} THEN <<>>
  ELSE <<Look({"*", "}"} \cup Ident), Do("elem"), Look({"*", "}"} \cup Ident), Do("elems")>>

ParseElemExpr ==
  <<Advance({"*"} \cup Ident), NotKeyword, Do("elemRest"),
    Look({"raw", "*", "}"} \cup Ident), Do("tag")>>
(* An embedded type is told from a named member by what follows on its     *)
(* line: breaks says that peek is on a later line.                         *)
ElemRest(breaks) ==
  CASE cur = "*" -> <<Advance(Ident)>>
    [] cur # "*" /\ (breaks \/ peek = "raw") -> <<>>
    [] OTHER -> <<Look({",", "[", "interface{}", "*", "{"} \cup Ident),
                  Do("names"), Do("dataType")>>
Names ==
  IF peek = "," THEN <<Drop({","}), Advance(Ident), NotKeyword, Do("names")>> ELSE <<>>
Tag == IF peek = "raw" THEN <<Advance({"raw"})>> ELSE <<>>
-----------------------------------------------------------------------------
(* What the function f does when it is called.                             *)
Body(f, breaks) ==
  CASE f = "kvs" -> KVs
    [] f = "imports" -> Imports
    [] f = "serviceName" -> ParseServiceNameExpr
    [] f = "items" -> ParseServiceItemsStmt
    [] f = "item" -> ParseServiceItemStmt
    [] f = "afterItem" -> AfterItem
    [] f = "atDoc" -> ParseAtDocStmt
    [] f = "handler" -> HandlerAndRoute
    [] f = "route" -> ParseRouteStmt
    [] f = "path" -> ParsePathExpr
    [] f = "pathRest" -> PathRest
    [] f = "segment" -> Segment
    [] f = "pathItem" -> ParsePathItem
    [] f = "afterPath" -> AfterPath
    [] f = "returns" -> Returns
    [] f = "semicolon" -> Semicolon
    [] f = "body" -> ParseBodyStmt
    [] f = "bodyRest" -> BodyRest
    [] f = "bodyExpr" -> ParseBodyExpr
    [] f = "bodyElem" -> BodyElem
    [] f = "serverKVs" -> ServerKVs
    [] f = "serverKV" -> ParseAtServerKVExpression
    [] f = "serverValue" -> ServerValue
    [] f = "joined" -> Joined
    [] f = "commas" -> Commas
    [] f = "dashes" -> Dashes
    [] f = "oneDash" -> OneDash
    [] f = "slashes" -> Slashes
    [] f = "typeList" -> ParseTypeExprList
    [] f = "typeExpr" -> ParseTypeExpr
    [] f = "assign" -> Assign
    [] f = "dataType" -> ParseDataType
    [] f = "length" -> Length
    [] f = "elems" -> ParseElemExprList
    [] f = "elem" -> ParseElemExpr
    [] f = "elemRest" -> ElemRest(breaks)
    [] f = "names" -> Names
    [] f = "tag" -> Tag

ParserInit ==
  /\ cur = "" /\ peek = ""
  /\ todo = <<<<"init", 2>>>>
  /\ errors = FALSE
  /\ outcome = "parsing"
  /\ folded = FALSE
  /\ note = "ahead"
  /\ open = <<>>
  /\ slip = FALSE
  /\ idle = 0
-----------------------------------------------------------------------------
(* nextToken.  The comments before the new peek are leading comments of    *)
(* the new cur if they are on its line, and wait for the next token if not.*)

(* What becomes of the comment when cur is left behind and peek moves up.  *)
NoteLeft ==
  CASE note \in {"head", "leading"} /\ ~folded -> "kept"
    [] note \in {"head", "leading"} /\ folded -> IF cur \in Textual THEN "lost" ELSE "gone"
    [] note = "pending" -> IF peek = "eof" THEN "kept" ELSE "head"
    [] OTHER -> note

NoteRead == IF NoteLeft # "ahead" THEN {NoteLeft}
            ELSE {"ahead", "pending"} \cup (IF peek = "" THEN {} ELSE {"leading"})

(* The brackets that are without a partner once t is read.                 *)
Opened(t) ==
  CASE t \notin Opening \cup Closing \/ slip -> open
    [] ~slip /\ t \in Closing /\ open # <<>> /\ open[Len(open)] = Closes(t) ->
         SubSeq(open, 1, Len(open) - 1)
    [] OTHER -> Append(open, t)

(* The tokens the scanner may come up with.                                *)
Scanned == IF Len(Opened(peek)) < MaxOpen THEN Token ELSE Token \ {"[", "{", "map"}

AtEof == peek = "eof" /\ UNCHANGED <<peek, errors>> /\ note' = NoteLeft

NextToken(fold) ==
  /\ cur' = peek
  /\ folded' = fold
  /\ open' = Opened(peek)
  /\ IF peek = "eof" THEN AtEof
     ELSE /\ note' \in NoteRead
          /\ \/ peek' \in Scanned /\ UNCHANGED errors
             \/ peek' = ErrorToken /\ errors' = TRUE
  /\ idle' = IF peek = "eof" THEN idle + 1 ELSE 0
-----------------------------------------------------------------------------
(* One step of the function on top of the call stack.                      *)

Op == Head(todo)[1]
Arg == Head(todo)[2]
Rest == Tail(todo)
Parsing == outcome = "parsing" /\ todo # <<>> /\ idle < MaxIdle

Goes(next) == todo' = next /\ UNCHANGED outcome
Idles == idle' = idle + 1 /\ UNCHANGED tokenVars
(* Every caller returns nil when the function it called does.              *)
Fails == outcome' = "nil" /\ todo' = <<>>

(* init                                                                    *)
Start ==
  /\ Parsing /\ Op = "init"
  /\ NextToken(FALSE)
  /\ IF peek' = ErrorToken THEN Fails
     ELSE Goes(<<IF Arg = 2 THEN <<"init", 1>> ELSE <<"top", 0>>>>)
  /\ UNCHANGED slip

(* Parse: the next statement, or the end.                                  *)
Statement ==
  CASE cur = "syntax" -> ParseSyntaxStmt
    [] cur = "info" -> ParseInfoStmt
    [] cur \in {"service", "@server"} -> ParseService
    [] cur = "type" -> ParseTypeStmt
    [] cur = "import" -> ParseImportStmt
    [] OTHER -> <<Do("unexpected")>>

Parse ==
  /\ Parsing /\ Op = "top"
  /\ IF cur = "eof" THEN outcome' = "ast" /\ todo' = <<>>
     ELSE Goes(Statement \o <<<<"next", 0>>>>)
  /\ open' = <<>>
  /\ slip' = FALSE
  /\ idle' = idle + 1
  /\ UNCHANGED <<cur, peek, folded, note, errors>>

NextStatement ==
  /\ Parsing /\ Op = "next"
  /\ NextToken(FALSE)
  /\ IF peek' = ErrorToken THEN Fails ELSE Goes(<<<<"top", 0>>>>)
  /\ UNCHANGED slip

Call ==
  /\ Parsing /\ Op = "do" /\ Arg \notin {"panic", "unexpected"}
  /\ \E breaks \in IF Arg = "elemRest" /\ peek # "eof" THEN BOOLEAN ELSE {FALSE} :
       Goes(Body(Arg, breaks) \o Rest)
  /\ slip' = (slip \/ (Arg = "handler" /\ "}" \in {cur, peek}))
  /\ folded' = (folded \/ (Arg = "handler" /\ cur = "}" /\ peek = "}"))
  /\ idle' = idle + 1
  /\ UNCHANGED <<cur, peek, note, open, errors>>

Panic ==
  /\ Parsing /\ Op = "do" /\ Arg = "panic"
  /\ outcome' = "panic" /\ todo' = <<>>
  /\ Idles
  /\ UNCHANGED <<errors, slip>>

(* advanceIfPeekTokenIs                                                    *)
Take ==
  /\ Parsing /\ Op \in {"advance", "fold", "drop"} /\ peek \in Arg
  /\ NextToken(Op # "advance")
  /\ IF peek' = ErrorToken THEN Fails ELSE Goes(Rest)
  /\ UNCHANGED slip

SkipSemicolon ==
  /\ Parsing /\ Op = "skip"
  /\ NextToken(TRUE)
  /\ Goes(Rest)
  /\ UNCHANGED slip

Pass ==
  /\ Parsing
  /\ \/ Op = "look" /\ peek \in Arg
     \/ Head(todo) = NotKeyword /\ cur \notin GoKeyword
     \/ Head(todo) = NoComment /\ note # "leading"
  /\ Goes(Rest)
  /\ Idles
  /\ UNCHANGED <<errors, slip>>

(* A node made of folded tokens takes the leading comments of the last.    *)
FoldTokens ==
  /\ Parsing /\ Op = "node"
  /\ note' = IF note = "leading" THEN "kept" ELSE note
  /\ Goes(Rest)
  /\ idle' = idle + 1
  /\ UNCHANGED <<cur, peek, folded, open, errors, slip>>

SyntaxError ==
  /\ Parsing
  /\ \/ Op \in {"advance", "fold", "drop", "look"} /\ peek \notin Arg
     \/ Head(todo) = NotKeyword /\ cur \in GoKeyword
     \/ Head(todo) = NoComment /\ note = "leading"
     \/ Op = "do" /\ Arg = "unexpected"
  /\ errors' = TRUE
  /\ Fails
  /\ Idles
  /\ UNCHANGED slip

ParserNext ==
  \/ Start \/ Parse \/ NextStatement \/ Call \/ Panic
  \/ Take \/ SkipSemicolon \/ Pass \/ FoldTokens \/ SyntaxError

ParserSpec == ParserInit /\ [][ParserNext]_parserVars
-----------------------------------------------------------------------------
Accepted == outcome = "ast" /\ ~errors

ParserTypeOK ==
  /\ {cur, peek} \subseteq Token \cup {"", ErrorToken}
  /\ errors \in BOOLEAN /\ folded \in BOOLEAN /\ slip \in BOOLEAN
  /\ outcome \in {"parsing", "ast", "nil", "panic"}
  /\ note \in Note
  /\ open \in Seq(Opening \cup Closing)
  /\ idle \in 0 .. MaxIdle

(* A comment of an accepted file is in its tree, except beside a token     *)
(* whose node the tree does not get: a part of a path, of a service name   *)
(* or of a value of @server, a comma between names, a semicolon, or a "}"  *)
(* in place of @handler.                                                   *)
CommentsKept ==
  Accepted => note \in {"ahead", "kept", "lost"}

(* A statement ends: no loop of the parser goes round without reading a    *)
(* token, and every bracket that it opened is closed by its like.  The     *)
(* exception is an item that takes a "}" for its @handler.                 *)
StatementsEnd ==
  /\ idle < MaxIdle
  /\ todo # <<>> /\ Op = "next" => open = <<>> \/ slip

(* The parser ends, and what it accepts is whole: see the two above.       *)
ParserSound == CommentsKept /\ StatementsEnd
=============================================================================
