----------------------------- MODULE ApiFormat -----------------------------
(***************************************************************************)
(* zctl api format: a statement is read with its comments and printed from *)
(* its syntax tree (pkg/parser/api/ast), twice.  Only what stands on which *)
(* line counts of the layout.  Text is a sequence of items: tokens,        *)
(* comments and ends of lines.  A tree has the tokens of a statement at    *)
(* its leaves, by their names.                                             *)
(***************************************************************************)
EXTENDS Integers, SequencesExt

CONSTANTS Trees,      \* statements, as syntax trees
          MaxMarks    \* bound: comments and ends of lines put into one

VARIABLES
  tree,     \* the statement
  source,   \* its text, as it is on disk
  layout,   \* what the parser noted for each token: its line and comments
  printed,  \* what the first format made of the text
  marks,    \* the comments in the text: the token before, and the kind
  formats   \* "edit", "parsed", "printed", "reparsed", "reprinted"

formatVars == <<tree, source, layout, printed, marks, formats>>

(* Items.  A comment has a number; pad is what a document comment, or a    *)
(* string, has of spaces at the ends of the lines within it, and is        *)
(* negative when it is on one line.                                        *)
Item(k, id, pad) == [k |-> k, id |-> id, pad |-> pad]
NewLine == Item("newline", 0, 0)
Word(t) == Item("token", t, -1)
IsComment(i) == i.k \in {"line", "doc"}
Zero == "zero"   \* a value that is ""
----------------------------------------------------------------------------
(* The tokens of a tree in their order.  Commas and semicolons have no     *)
(* place in the tree.                                                      *)
Optional(s, Tokens(_)) == IF s = <<>> THEN <<>> ELSE Tokens(s[1])
All(s, Tokens(_)) == FlattenSeq([i \in DOMAIN s |-> Tokens(s[i])])
One(t) == <<t>>

RECURSIVE DataTokens(_)
ElemTokens(e) ==
  FlattenSeq([i \in DOMAIN e.names |->
                IF i = 1 THEN <<e.names[1]>> ELSE <<e.commas[i - 1], e.names[i]>>])
  \o DataTokens(e.data) \o e.tag
DataTokens(d) ==
  CASE d.kind = "base" -> <<d.base>>
    [] d.kind = "slice" -> <<d.lbrack, d.rbrack>> \o DataTokens(d.elem)
    [] d.kind = "array" -> <<d.lbrack, d.length, d.rbrack>> \o DataTokens(d.elem)
    [] d.kind = "pointer" -> <<d.star>> \o DataTokens(d.elem)
    [] d.kind = "map" -> <<d.map, d.lbrack>> \o DataTokens(d.key) \o <<d.rbrack>> \o DataTokens(d.value)
    [] d.kind = "struct" -> <<d.lbrace>> \o All(d.elems, ElemTokens) \o <<d.rbrace>>
TypeTokens(e) == <<e.name>> \o e.assign \o DataTokens(e.data)
KVTokens(kv) == <<kv.key, kv.colon, kv.value>>
GroupTokens(g) == <<g.word, g.lparen>> \o All(g.values, KVTokens) \o <<g.rparen>>
DocTokens(a) == IF a.kind = "literal" THEN <<a.word, a.value>> ELSE GroupTokens(a)
BodyTokens(b) == <<b.lparen>> \o b.brackets \o b.star \o b.type \o <<b.rparen>>
RouteTokens(r) ==
  <<r.method, r.path>> \o Optional(r.request, BodyTokens) \o r.returns
    \o Optional(r.response, BodyTokens) \o r.semicolon
ServiceItemTokens(i) == Optional(i.atDoc, DocTokens) \o i.atHandler \o RouteTokens(i.route)
StatementTokens(t) ==
  CASE t.kind \in {"literal", "syntax"} -> t.words
    [] t.kind = "imports" -> <<t.word, t.lparen>> \o t.values \o <<t.rparen>>
    [] t.kind = "info" -> GroupTokens(t)
    [] t.kind = "type" -> <<t.word>> \o TypeTokens(t.expr)
    [] t.kind = "types" -> <<t.word, t.lparen>> \o All(t.exprs, TypeTokens) \o <<t.rparen>>
    [] t.kind = "service" -> Optional(t.atServer, GroupTokens) \o <<t.service, t.name, t.lbrace>>
                               \o All(t.items, ServiceItemTokens) \o <<t.rbrace>>
----------------------------------------------------------------------------
(* Parser.nextToken: the line of every token, the comments before it on    *)
(* other lines than the token before (head), those behind it on its own    *)
(* (leading), and those behind the last token (rest).  A token behind a    *)
(* line comment is not read.                                               *)
Unread == [line |-> 0, head |-> <<>>, leading |-> <<>>, pad |-> -1, swallowed |-> TRUE]

ReadItem(r, i) ==
  CASE i.k = "newline" -> [r EXCEPT !.line = @ + 1, !.open = FALSE]
    [] i.k # "newline" /\ r.open -> r
    [] i.k = "token" /\ ~r.open ->
         [r EXCEPT !.cur = i.id, !.pending = <<>>, !.read = Append(@, i.id),
                   !.line = IF i.pad >= 0 THEN @ + 1 ELSE @,
                   !.nodes[i.id] = [line |-> r.line, head |-> r.pending, leading |-> <<>>,
                                    pad |-> i.pad, swallowed |-> FALSE]]
    [] OTHER ->
         LET c == [k |-> i.k, id |-> i.id, pad |-> i.pad, line |-> r.line]
             here == r.read # <<>> /\ r.nodes[r.cur].line = r.line
         IN [r EXCEPT !.open = (i.k = "line"),
                      !.line = IF i.k = "doc" /\ i.pad >= 0 THEN @ + 1 ELSE @,
                      !.nodes[r.cur].leading = IF here THEN Append(@, c) ELSE @,
                      !.pending = IF here THEN @ ELSE Append(@, c)]

NextTokens(text) ==
  LET tokens == Range(StatementTokens(tree))
  IN FoldLeft(ReadItem,
              [line |-> 1, cur |-> StatementTokens(tree)[1], read |-> <<>>, pending |-> <<>>,
               open |-> FALSE, nodes |-> [t \in tokens |-> Unread]],
              text)
----------------------------------------------------------------------------
(* A TokenNode.  Its head and leading flags stand for comments of a node   *)
(* that was made into it; nothing is an empty comment that has a line.     *)
Token(t) == [text |-> <<Item("token", t, layout.nodes[t].pad)>>, line |-> layout.nodes[t].line,
             head |-> layout.nodes[t].head, leading |-> layout.nodes[t].leading,
             hadHead |-> FALSE, hadLeading |-> FALSE]
Nothing(line) == [k |-> "nothing", id |-> 0, pad |-> -1, line |-> line]

IgnoreHeadIf(b, n) == [n EXCEPT !.head = IF b THEN <<>> ELSE @]
IgnoreLeadingIf(b, n) == [n EXCEPT !.leading = IF b THEN <<>> ELSE @]
NoHeadOf(t) == IgnoreHeadIf(TRUE, Token(t))
NoLeadingOf(t) == IgnoreLeadingIf(TRUE, Token(t))
BareToken(t) == IgnoreLeadingIf(TRUE, NoHeadOf(t))

FirstLine(n) == IF n.head = <<>> THEN n.line ELSE n.head[1].line
LastLine(n) == IF n.leading = <<>> THEN n.line ELSE Last(n.leading).line

(* Any node, as Writer.write sees it: its text, whether it has comments at *)
(* its ends, and the lines where it begins and ends.                       *)
Node(text, head, leading, begins, ends) ==
  [text |-> text, head |-> head, leading |-> leading, begins |-> begins, ends |-> ends]

(* TokenNode.Format and its like                                           *)
Comment(c) == Item(c.k, c.id, c.pad)
Visible(cs) == SelectSeq(cs, LAMBDA c : c.k # "nothing")
FormatToken(n) ==
  FlattenSeq([i \in DOMAIN n.head |-> <<Comment(n.head[i]), NewLine>>])
  \o n.text \o [i \in DOMAIN Visible(n.leading) |-> Comment(Visible(n.leading)[i])]
AsNode(n) ==
  Node(FormatToken(n), n.head # <<>> \/ n.hadHead, n.leading # <<>> \/ n.hadLeading,
       FirstLine(n), LastLine(n))

(* transferNilInfixNode: several in one, with the text of each, the head   *)
(* comments of the first and the leading ones of the last.                 *)
Fused(ns) ==
  [text |-> FlattenSeq([i \in DOMAIN ns |-> ns[i].text]), line |-> FirstLine(ns[1]),
   head |-> ns[1].head, leading |-> Last(ns).leading, hadHead |-> FALSE, hadLeading |-> FALSE]
(* transfer2TokenNode: the text is the whole node, comments included.      *)
AsToken(n) ==
  [text |-> n.text, line |-> n.begins, head |-> <<>>, leading |-> <<Nothing(n.ends)>>,
   hadHead |-> n.head, hadLeading |-> n.leading]

(* Writer.write.  In auto mode, and next to a comment, a node that began   *)
(* on a new line does so again.  What is written loses a space behind      *)
(* every end of a line, also in the document comments and strings of it.   *)
Blank(n) == \A i \in DOMAIN n.text : n.text[i].k = "newline"
Squeezed(text) ==
  [i \in DOMAIN text |-> IF text[i].pad > 0 THEN [text[i] EXCEPT !.pad = @ - 1] ELSE text[i]]
Breaks(ns, i, auto) ==
  /\ auto \/ ns[i].head \/ (i > 1 /\ ns[i - 1].leading)
  /\ i > 1 /\ ns[i].begins > ns[i - 1].ends
Write(ns, auto) ==
  Squeezed(FlattenSeq([i \in DOMAIN ns |->
             (IF Breaks(ns, i, auto) THEN <<NewLine>> ELSE <<>>)
             \o (IF Blank(ns[i]) THEN <<>> ELSE ns[i].text)]))
SameLine(ns) == Write(ns, FALSE)
Auto(ns) == Write(ns, TRUE)
----------------------------------------------------------------------------
(* DataType.Format.  Where a type is a part of another, the comments of    *)
(* its first token may be cut off, for good: head and lead say which are   *)
(* not.  Only an array that is the key of a map is a child.                *)
RECURSIVE ContainsStruct(_)
ContainsStruct(d) ==
  \/ d.kind = "struct"
  \/ d.kind \in {"slice", "array", "pointer"} /\ ContainsStruct(d.elem)
  \/ d.kind = "map" /\ (ContainsStruct(d.key) \/ ContainsStruct(d.value))

FirstTokenOf(d) ==
  CASE d.kind = "base" -> d.base
    [] d.kind \in {"slice", "array"} -> d.lbrack
    [] d.kind = "pointer" -> d.star
    [] d.kind = "map" -> d.map
    [] d.kind = "struct" -> d.lbrace

RECURSIVE Data(_, _, _, _)

SliceData(d, first) ==
  LET elem == Data(d.elem, TRUE, FALSE, FALSE)
  IN Node(Auto(<<AsNode(Fused(<<IgnoreLeadingIf(TRUE, first), NoHeadOf(d.rbrack),
                                 AsToken(elem)>>))>>),
          first.head # <<>>, elem.leading, FirstLine(first), elem.ends)
ArrayData(d, first, child) ==
  LET elem == Data(d.elem, TRUE, child, FALSE)
  IN Node(Auto(<<AsNode(Fused(<<IgnoreLeadingIf(TRUE, first), NoLeadingOf(d.length),
                                 NoHeadOf(d.rbrack), AsToken(elem)>>))>>),
          first.head # <<>>, elem.leading, FirstLine(first), elem.ends)
PointerData(d, first) ==
  LET elem == Data(d.elem, TRUE, FALSE, FALSE)
  IN Node(Auto(<<AsNode(Fused(<<IgnoreLeadingIf(TRUE, first), AsToken(elem)>>))>>),
          first.head # <<>>, elem.leading, FirstLine(first), elem.ends)
MapData(d, first, child) ==
  LET key == Data(d.key, TRUE, TRUE, TRUE)
      value == Data(d.value, TRUE, child, FALSE)
  IN Node(Auto(<<AsNode(Fused(<<IgnoreLeadingIf(TRUE, first), NoLeadingOf(d.lbrack),
                                 AsToken(key), BareToken(d.rbrack), AsToken(value)>>))>>),
          first.head # <<>>, value.leading, FirstLine(first), value.ends)

(* The names of a field, with ", " between them.                           *)
NamesOfField(e) ==
  LET n == Len(e.names)
      name(i) == IF i = 1 THEN NoLeadingOf(e.names[1])
                 ELSE IF i < n THEN BareToken(e.names[i]) ELSE NoHeadOf(e.names[i])
      comma(i) == [name(i) EXCEPT !.text = <<Word(e.commas[i - 1])>> \o @]
  IN Fused([i \in 1..n |-> IF i = 1 THEN name(i) ELSE comma(i)])
FormatField(e) ==
  LET data == Data(e.data, FALSE, FALSE, FALSE)
  IN SameLine((IF e.names = <<>> THEN <<>> ELSE <<AsNode(NamesOfField(e))>>)
              \o <<IF ContainsStruct(e.data) THEN AsNode(AsToken(data)) ELSE data>>
              \o [i \in DOMAIN e.tag |-> AsNode(Token(e.tag[i]))])
StructData(d, first) ==
  LET fields == FlattenSeq([i \in DOMAIN d.elems |-> FormatField(d.elems[i]) \o <<NewLine>>])
      text == IF d.elems = <<>>
              THEN SameLine(<<AsNode(Fused(<<IgnoreLeadingIf(TRUE, first), NoHeadOf(d.rbrace)>>))>>)
              ELSE FormatToken(first) \o <<NewLine>> \o fields \o FormatToken(Token(d.rbrace))
  IN Node(text, first.head # <<>>, layout.nodes[d.rbrace].leading # <<>>,
          FirstLine(first), LastLine(Token(d.rbrace)))

Data(d, noHead, noLeading, child) ==
  LET first == IgnoreLeadingIf(noLeading, IgnoreHeadIf(noHead, Token(FirstTokenOf(d))))
  IN CASE d.kind = "base" -> AsNode(first)
       [] d.kind = "slice" -> SliceData(d, first)
       [] d.kind = "array" -> ArrayData(d, first, child)
       [] d.kind = "pointer" -> PointerData(d, first)
       [] d.kind = "map" -> MapData(d, first, child)
       [] d.kind = "struct" -> StructData(d, first)
----------------------------------------------------------------------------
(* Statements.  A group without a value that says something is left out.   *)
FormatType(e) ==
  LET data == Data(e.data, FALSE, FALSE, FALSE)
  IN Node(SameLine(<<AsNode(Token(e.name))>> \o [i \in DOMAIN e.assign |-> AsNode(Token(e.assign[i]))]
                   \o <<AsNode(AsToken(data))>>),
          Token(e.name).head # <<>>, data.leading, FirstLine(Token(e.name)), data.ends)
FormatTypes(t) ==
  IF t.exprs = <<>> THEN <<>>
  ELSE SameLine(<<AsNode(Token(t.word)), AsNode(Token(t.lparen))>>) \o <<NewLine>>
       \o FlattenSeq([i \in DOMAIN t.exprs |-> Auto(<<FormatType(t.exprs[i])>>) \o <<NewLine>>])
       \o FormatToken(Token(t.rparen))

Opened(t, auto) == Write(<<AsNode(NoLeadingOf(t.word)), AsNode(Token(t.lparen))>>, auto) \o <<NewLine>>
Closed(t) == Auto(<<AsNode(Token(t.rparen))>>)
(* The value of an @server has no comments before it.                      *)
FormatKV(kv, server) ==
  SameLine(<<AsNode(IgnoreLeadingIf(TRUE, Fused(<<Token(kv.key), Token(kv.colon)>>))),
             AsNode(IgnoreHeadIf(server, Token(kv.value)))>>) \o <<NewLine>>
FormatGroup(t, auto) ==
  IF \A i \in DOMAIN t.values : t.values[i].value = Zero THEN <<>>
  ELSE Opened(t, auto) \o FlattenSeq([i \in DOMAIN t.values |-> FormatKV(t.values[i], t.word = "@server")])
       \o Closed(t)
FormatImports(t) ==
  IF \A i \in DOMAIN t.values : t.values[i] = Zero THEN <<>>
  ELSE Opened(t, FALSE)
       \o FlattenSeq([i \in DOMAIN t.values |-> SameLine(<<AsNode(Token(t.values[i]))>>) \o <<NewLine>>])
       \o Closed(t)
(* A keyword and a value; the value of @doc and @handler without the       *)
(* comments before it.                                                     *)
FormatLiteral(word, value) ==
  IF value.text = <<Word(Zero)>> THEN <<>> ELSE SameLine(<<AsNode(NoLeadingOf(word)), AsNode(value)>>)
FormatSyntax(t) ==
  SameLine(<<AsNode(NoLeadingOf(t.words[1])), AsNode(NoLeadingOf(t.words[2])), AsNode(Token(t.words[3]))>>)

(* BodyStmt, RouteStmt: a body without a type is left out, with "returns"  *)
(* before it.  The path has no comments unless it is the last.             *)
FormatBodyExpr(b) ==
  LET words == b.brackets \o b.star
  IN Node(Write([i \in DOMAIN words |-> AsNode(BareToken(words[i]))] \o <<AsNode(Token(b.type[1]))>>,
                words = <<>>),
          Token((words \o b.type)[1]).head # <<>>, Token(b.type[1]).leading # <<>>,
          FirstLine(Token((words \o b.type)[1])), LastLine(Token(b.type[1])))
FormatBody(b, rparen) ==
  Node(IF b.type = <<>> THEN <<>>
       ELSE SameLine(<<AsNode(Token(b.lparen)), FormatBodyExpr(b), AsNode(rparen)>>),
       Token(b.lparen).head # <<>>, rparen.leading # <<>>, FirstLine(Token(b.lparen)), LastLine(rparen))
PathNode(t) ==
  LET n == Token(t)
  IN Node(<<Word(t)>>, n.head # <<>>, n.leading # <<>>, FirstLine(n), LastLine(n))
FormatRoute(r) ==
  LET replies == r.response # <<>>
      request(rparen(_)) == [i \in DOMAIN r.request |-> FormatBody(r.request[i], rparen(r.request[i].rparen))]
      returns == IF replies /\ r.response[1].type # <<>>
                 THEN <<AsNode(Token(r.returns[1])),
                        FormatBody(r.response[1], NoHeadOf(r.response[1].rparen))>>
                 ELSE <<>>
      rest == IF replies THEN <<PathNode(r.path)>> \o request(Token) \o returns
              ELSE IF r.request # <<>> THEN <<PathNode(r.path)>> \o request(NoHeadOf)
              ELSE <<AsNode(NoHeadOf(r.path))>>
  IN SameLine(<<AsNode(NoLeadingOf(r.method))>> \o rest)

FormatDoc(a) ==
  IF a.kind = "literal" THEN FormatLiteral(a.word, NoHeadOf(a.value)) ELSE FormatGroup(a, FALSE)
FormatItem(i) ==
  (IF i.atDoc = <<>> THEN <<>> ELSE FormatDoc(i.atDoc[1]) \o <<NewLine>>)
  \o FormatLiteral(i.atHandler[1], NoHeadOf(i.atHandler[2])) \o <<NewLine>>
  \o Squeezed(FormatRoute(i.route)) \o <<NewLine>>
FormatService(t) ==
  LET server == IF t.atServer = <<>> THEN <<>> ELSE FormatGroup(t.atServer[1], FALSE)
  IN (IF server = <<>> THEN <<>> ELSE server \o <<NewLine>>)
     \o SameLine(<<AsNode(Token(t.service)), AsNode(Token(t.name)), AsNode(Token(t.lbrace))>>)
     \o (IF t.items = <<>> THEN <<>> ELSE <<NewLine>>)
     \o FlattenSeq([i \in DOMAIN t.items |->
           Squeezed(FormatItem(t.items[i])) \o (IF i < Len(t.items) THEN <<NewLine>> ELSE <<>>)])
     \o Auto(<<AsNode(Token(t.rbrace))>>)

FormatStatement(t) ==
  CASE t.kind = "literal" -> FormatLiteral(t.words[1], Token(t.words[2]))
    [] t.kind = "syntax" -> FormatSyntax(t)
    [] t.kind = "imports" -> FormatImports(t)
    [] t.kind = "info" -> FormatGroup(t, TRUE)
    [] t.kind = "type" -> SameLine(<<AsNode(Token(t.word)), FormatType(t.expr)>>)
    [] t.kind = "types" -> FormatTypes(t)
    [] t.kind = "service" -> FormatService(t)

(* AST.Format: the statement, and what comments there are behind it, which *)
(* are statements of their own.                                            *)
Formatted ==
  LET text == FormatStatement(tree)
  IN (IF text = <<>> THEN <<>> ELSE Squeezed(text) \o <<NewLine>>)
     \o FlattenSeq([i \in DOMAIN layout.pending |->
           Squeezed(<<Comment(layout.pending[i])>>) \o <<NewLine>>])
----------------------------------------------------------------------------
(* Every field of the structs of a tree.                                   *)
RECURSIVE FieldsOf(_)
FieldsOf(d) ==
  CASE d.kind = "base" -> {}
    [] d.kind \in {"slice", "array", "pointer"} -> FieldsOf(d.elem)
    [] d.kind = "map" -> FieldsOf(d.key) \cup FieldsOf(d.value)
    [] d.kind = "struct" -> Range(d.elems) \cup UNION {FieldsOf(e.data) : e \in Range(d.elems)}
FieldsIn ==
  CASE tree.kind = "type" -> FieldsOf(tree.expr.data)
    [] tree.kind = "types" -> UNION {FieldsOf(e.data) : e \in Range(tree.exprs)}
    [] OTHER -> {}
(* parseElemExpr: the token behind the first word of a field is on its     *)
(* line, unless the field is an embedded type without a tag.               *)
FieldsRead(r) ==
  \A e \in FieldsIn :
    LET words == ElemTokens(e)
        i == CHOOSE i \in DOMAIN r.read : r.read[i] = words[1]
    IN words[1] \in Range(r.read) /\ i < Len(r.read) =>
         (Len(words) > 1 <=> r.nodes[r.read[i + 1]].line = r.nodes[words[1]].line)

(* The statement without what Format leaves out.                           *)
Without(t) ==
  LET full(b) == b.type # <<>>
      emptied(r) == [r EXCEPT !.request = SelectSeq(@, full), !.response = SelectSeq(@, full),
                              !.returns = IF r.response # <<>> /\ full(r.response[1]) THEN @ ELSE <<>>,
                              !.semicolon = <<>>]
      said(g) == IF g.kind = "literal" THEN g.value # Zero
                 ELSE \E i \in DOMAIN g.values : g.values[i].value # Zero
  IN IF t.kind # "service" THEN t
     ELSE [t EXCEPT !.atServer = SelectSeq(@, said),
                    !.items = [i \in DOMAIN @ |-> [@[i] EXCEPT !.atDoc = SelectSeq(@, said),
                                                               !.route = emptied(@)]]]
----------------------------------------------------------------------------
(* The file: a statement, its lines, and what somebody puts between its    *)
(* words as long as it stays the same statement.                           *)
LaidOut(t, starts) ==
  FlattenSeq([i \in DOMAIN t |-> IF t[i] \in starts THEN <<NewLine, Word(t[i])>> ELSE <<Word(t[i])>>])

LinesOf(t) == (CHOOSE u \in Trees : u.tree = t).lines

FormatInit ==
  /\ tree \in {t.tree : t \in Trees}
  /\ source = LaidOut(StatementTokens(tree), LinesOf(tree))
  /\ layout = NextTokens(source)
  /\ printed = <<>> /\ marks = <<>> /\ formats = "edit"

MarkItems(kind, n) ==
  CASE kind = "newline" -> <<NewLine>>
    [] kind = "line" -> <<Item("line", n, -1), NewLine>>
    [] kind = "own" -> <<NewLine, Item("line", n, -1), NewLine>>
    [] kind = "doc" -> <<Item("doc", n, -1)>>
    [] kind = "long" -> <<Item("doc", n, 2)>>
MarkKinds == {"newline", "line", "own", "doc", "long"}

(* As long as it is read as the same statement.                            *)
Reads(text) ==
  LET r == NextTokens(text) IN r.read = StatementTokens(tree) /\ FieldsRead(r)

(* A string may go on to a second line: in the values of info, @server and *)
(* @doc, and in a tag.                                                     *)
StringsIn ==
  LET values(g) == IF g.kind = "literal" THEN {g.value} ELSE {kv.value : kv \in Range(g.values)}
  IN CASE tree.kind = "info" -> values(tree)
       [] tree.kind \in {"type", "types"} -> UNION {Range(e.tag) : e \in FieldsIn}
       [] tree.kind = "service" ->
            UNION {values(g) : g \in Range(tree.atServer)
                                        \cup UNION {Range(i.atDoc) : i \in Range(tree.items)}}
       [] OTHER -> {}
IsString(i) == i.k = "token" /\ i.id \in StringsIn
Stretch ==
  /\ formats = "edit" /\ marks = <<>>
  /\ \A i \in DOMAIN source : IsString(source[i]) => source[i].pad < 0
  /\ \E i \in DOMAIN source, pad \in {0, 2} :
       /\ IsString(source[i])
       /\ source' = [source EXCEPT ![i].pad = pad] /\ Reads(source')
  /\ UNCHANGED <<tree, layout, printed, marks, formats>>

Mark ==
  /\ formats = "edit" /\ Len(marks) < MaxMarks
  /\ \E i \in 0..Len(source), kind \in MarkKinds :
       /\ i > 0 => source[i].k = "token"
       /\ LET text == SubSeq(source, 1, i) \o MarkItems(kind, Len(marks) + 1)
                        \o SubSeq(source, i + 1, Len(source))
          IN /\ Reads(text) /\ source' = text
             /\ marks' = Append(marks, [after |-> IF i = 0 THEN "top" ELSE source[i].id, kind |-> kind])
  /\ UNCHANGED <<tree, layout, printed, formats>>

ReadFile ==
  /\ formats \in {"edit", "printed"} /\ source # <<>>
  /\ formats' = IF formats = "edit" THEN "parsed" ELSE "reparsed"
  /\ tree' = IF formats = "edit" THEN tree ELSE Without(tree)
  /\ layout' = NextTokens(source)
  /\ UNCHANGED <<source, printed, marks>>

PrintFile ==
  /\ formats \in {"parsed", "reparsed"}
  /\ formats' = IF formats = "parsed" THEN "printed" ELSE "reprinted"
  /\ source' = Formatted
  /\ printed' = IF formats = "parsed" THEN Formatted ELSE printed
  /\ UNCHANGED <<tree, layout, marks>>

FormatNext == Mark \/ Stretch \/ ReadFile \/ PrintFile

FormatSpec == FormatInit /\ [][FormatNext]_formatVars
----------------------------------------------------------------------------
Words(text) == SelectSeq(text, LAMBDA i : i.k = "token")

(* The words where zctl loses the end of a line comment: in a key of a map *)
(* that is no name, and at the brace of a service without routes.          *)
RECURSIVE KeysOf(_)
KeysOf(d) ==
  CASE d.kind = "base" -> {}
    [] d.kind \in {"slice", "array", "pointer"} -> KeysOf(d.elem)
    [] d.kind = "map" -> {d.key} \cup KeysOf(d.key) \cup KeysOf(d.value)
    [] d.kind = "struct" -> UNION {KeysOf(e.data) : e \in Range(d.elems)}
LineLost ==
  CASE tree.kind = "type" -> UNION {Range(DataTokens(d)) : d \in {k \in KeysOf(tree.expr.data) : k.kind # "base"}}
    [] tree.kind = "service" /\ tree.items = <<>> -> {tree.lbrace}
    [] OTHER -> {}

(* A statement of nothing but an empty value: zctl drops it.               *)
SaysNothing ==
  CASE tree.kind = "literal" -> tree.words[2] = Zero
    [] tree.kind = "imports" -> Range(tree.values) = {Zero}
    [] OTHER -> FALSE

FormatTypeOK ==
  /\ formats \in {"edit", "parsed", "printed", "reparsed", "reprinted"}
  /\ Len(marks) <= MaxMarks
  /\ Range(StatementTokens(tree)) \subseteq DOMAIN layout.nodes

(* A file that zctl has formatted reads as the statement it was before:    *)
(* no word is behind a line comment, none is on a line where the parser    *)
(* takes it for something else, and none has another text, but for a       *)
(* string over several lines with blanks at the ends of them.              *)
FormatReads ==
  formats = "printed" /\ ~SaysNothing /\ (\A i \in DOMAIN marks : marks[i].after \notin LineLost) =>
    LET r == NextTokens(source)
    IN /\ r.read = StatementTokens(Without(tree)) /\ FieldsRead(r)
       /\ \A w \in Range(r.read) : r.nodes[w].pad = layout.nodes[w].pad \/ layout.nodes[w].pad > 0

(* A comment on a line of its own above a line of the file, and one at the *)
(* end of a line, is still there when the file is formatted, unless the    *)
(* words it stands at are left out.                                        *)
FormatKeeps ==
  LET words == StatementTokens(tree)
      place(w) == CHOOSE i \in DOMAIN words : words[i] = w
      begins(i) == i = 1 \/ (i <= Len(words) /\ words[i] \in LinesOf(tree))
      above(m) == m.after = "top" \/ begins(place(m.after) + 1)
      behind(m) == m.after # "top" /\ m.after \in Range(StatementTokens(Without(tree)))
                   /\ (place(m.after) = Len(words) \/ begins(place(m.after) + 1))
  IN formats = "printed" /\ ~SaysNothing =>
       \A n \in DOMAIN marks :
         (marks[n].kind = "own" /\ above(marks[n])) \/ (marks[n].kind = "line" /\ behind(marks[n]))
           => \E i \in DOMAIN source : IsComment(source[i]) /\ source[i].id = n

(* Where every comment survives the first time, the second time changes    *)
(* nothing: no line break comes or goes, and no word moves to another line *)
(* (a document comment over several lines does move, and a string with     *)
(* blanks left at the ends of its lines loses more of them).               *)
FormatIdempotent ==
  /\ formats = "reprinted"
  /\ \A n \in DOMAIN marks : marks[n].kind # "long" /\ marks[n].after \notin LineLost
  /\ \A n \in DOMAIN marks : marks[n].kind # "newline" =>
       \E i \in DOMAIN printed : IsComment(printed[i]) /\ printed[i].id = n
  /\ \A i \in DOMAIN printed : printed[i].k = "token" => printed[i].pad <= 0
  => source = printed

=============================================================================
