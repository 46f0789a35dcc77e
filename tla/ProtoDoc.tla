------------------------------ MODULE ProtoDoc ------------------------------
(***************************************************************************)
(* zctl rpc proto-doc: the API document of a service, from the JSON that   *)
(* protoc-gen-doc writes of its proto and from the lines of the proto,     *)
(* which alone have the validation rules.  The table of a request has a    *)
(* row for each of its fields and, below the row of a field that is a      *)
(* message, rows for the fields of that message.                           *)
(* A message is named by the names of the messages around it and its own.  *)
(***************************************************************************)
EXTENDS Integers, Sequences, SequencesExt, FiniteSets

CONSTANTS DocName,    \* names of messages
          DocField,   \* [name, type, label, validated, demanded]: a rule on the "line" of the field, "below"
                      \* it, or "none"; and whether the rule is that the field be given
          MaxDocLines \* bound: lines of the proto

(* The words of types, and "enum" for any enum; taken to name no message.  *)
Scalars == {"string", "bytes", "sint32", "enum"}

ASSUME ProtoDocAssumption ==
  /\ MaxDocLines \in Nat /\ DocName \subseteq STRING \ Scalars
  /\ DocField \subseteq [name : STRING, type : (Seq(DocName) \ {<<>>}) \cup {<<t>> : t \in Scalars},
                         label : {"", "optional", "repeated"}, validated : {"line", "below", "none"},
                         demanded : BOOLEAN]
  /\ \A f \in DocField : f.demanded => f.validated # "none"

(* A line of the proto: "empty" is message A {}, which ends where it began.*)
DocLine ==
  [is : {"message", "empty"}, name : DocName] \cup [is : {"field"}, field : DocField] \cup [is : {"close"}]

VARIABLES
  docLines,  \* the proto
  protoSeen, \* the proto is where the command runs
  msgMap,    \* per short name, the message that the map of messages has
  request,   \* the message whose table is written
  docTodo,   \* fields without a row yet
  docRows,   \* the rows
  docStep    \* "edit", "rows", "done"
protoDocVars == <<docLines, protoSeen, msgMap, request, docTodo, docRows, docStep>>

(* What protoc makes of the proto: each message and its fields in order.   *)
DocParse(p, l) ==
  CASE l.is = "field" -> [p EXCEPT !.fields[p.at] = Append(@, l.field)]
    [] l.is = "close" -> [p EXCEPT !.at = Front(p.at)]
    [] OTHER ->
         LET m == Append(p.at, l.name)
         IN [at |-> IF l.is = "message" THEN m ELSE p.at,
             fields |-> [x \in DOMAIN p.fields \cup {m} |-> IF x = m THEN <<>> ELSE p.fields[x]]]
Parsed == FoldLeft(DocParse, [at |-> <<>>, fields |-> <<>>], docLines)
Messages == DOMAIN Parsed.fields
FieldsOf(m) == Range(Parsed.fields[m])

(* buildValidateMap: the last message that began is the current one, until *)
(* its braces are even; rules are kept by the short name of the message,   *)
(* and any buf.validate is one.  A proto that is not found has none.       *)
ValidateLine(p, l) ==
  IF l.is \in {"message", "empty"} THEN [p EXCEPT !.current = <<l.name>>]
  ELSE IF p.current = <<>> THEN p
  ELSE IF l.is = "close" THEN [p EXCEPT !.current = <<>>]
  ELSE IF l.field.validated = "line" THEN [p EXCEPT !.keys = @ \cup {<<p.current[1], l.field.name>>}]
  ELSE p
BuildValidateMap ==
  IF protoSeen THEN FoldLeft(ValidateLine, [current |-> <<>>, keys |-> {}], docLines).keys ELSE {}

DocRequired(f, msg) ==
  <<msg, f.name>> \in BuildValidateMap \/ f.label \notin {"optional", "repeated"}

(* lookupMsg: by the short name first, which is always in the map.         *)
LookupMsg(f) == IF Last(f.type) \in DOMAIN msgMap THEN {msgMap[Last(f.type)]} ELSE {}

DocMapType(f) ==
  [list |-> f.label = "repeated",
   base |-> CASE Last(f.type) \in {"string", "bytes"} -> Last(f.type)
              [] Last(f.type) = "enum" -> "int32"
              [] OTHER -> "object"]
DocScalarExample(t) ==
  CASE t = "string" -> "text" [] t \in {"sint32", "enum"} -> "number" [] OTHER -> "braces"
DocExampleValue(f) ==
  [list |-> f.label = "repeated",
   value |-> IF LookupMsg(f) # {} THEN "braces" ELSE DocScalarExample(Last(f.type))]

RowsOf(prefix, m) ==
  LET fields == Parsed.fields[m]
  IN [i \in DOMAIN fields |-> [path |-> Append(prefix, fields[i].name), field |-> fields[i], msg |-> Last(m)]]
-----------------------------------------------------------------------------
ProtoDocInit ==
  /\ docLines = <<>> /\ protoSeen = TRUE /\ msgMap = <<>> /\ request = <<>>
  /\ docTodo = <<>> /\ docRows = <<>> /\ docStep = "edit"

(* The developer writes what protoc takes.                                 *)
WriteDocLine ==
  /\ docStep = "edit" /\ Len(docLines) + Len(Parsed.at) < MaxDocLines   \* bound
  /\ \E l \in DocLine :
       /\ l.is # "close" /\ (l.is = "field" => Parsed.at # <<>>)
       /\ l.is \in {"message", "empty"} => Append(Parsed.at, l.name) \notin Messages
       /\ l.is = "field" => \A f \in FieldsOf(Parsed.at) : f.name # l.field.name
       /\ docLines' = Append(docLines, l)
  /\ UNCHANGED <<protoSeen, msgMap, request, docTodo, docRows, docStep>>
CloseDocLine ==
  /\ docStep = "edit" /\ Parsed.at # <<>>
  /\ docLines' = Append(docLines, [is |-> "close"])
  /\ UNCHANGED <<protoSeen, msgMap, request, docTodo, docRows, docStep>>

(* ProtoDoc: of the messages with one short name the map has that which    *)
(* the JSON has last.  The request, too, is looked up by its short name.   *)
(* The proto is looked for where the command runs, not where the JSON is.  *)
StartDoc ==
  /\ docStep = "edit" /\ Parsed.at = <<>>
  /\ \A m \in Messages : \A f \in FieldsOf(m) : f.type \in Messages \/ Last(f.type) \in Scalars
  /\ \E map \in [{Last(m) : m \in Messages} -> Messages], r \in Messages :
       /\ \A n \in DOMAIN map : Last(map[n]) = n
       /\ msgMap' = map /\ request' = r
       /\ docTodo' = RowsOf(<<>>, map[Last(r)])
  /\ protoSeen' \in BOOLEAN
  /\ docStep' = "rows" /\ UNCHANGED <<docLines, docRows>>

(* writeFieldRow: the fields of a message have their rows next.            *)
WriteFieldRow ==
  /\ docStep = "rows" /\ docTodo # <<>>
  /\ LET todo == Head(docTodo)
     IN /\ Len(todo.path) <= Cardinality(Messages)   \* bound: no further into messages that have themselves
        /\ docRows' = Append(docRows, [path |-> todo.path, type |-> DocMapType(todo.field),
                                       example |-> DocExampleValue(todo.field),
                                       required |-> DocRequired(todo.field, todo.msg)])
        /\ docTodo' = (IF LookupMsg(todo.field) = {} THEN <<>>
                        ELSE RowsOf(todo.path, msgMap[Last(todo.field.type)])) \o Tail(docTodo)
  /\ UNCHANGED <<docLines, protoSeen, msgMap, request, docStep>>

WriteDoc ==
  /\ docStep = "rows" /\ docTodo = <<>>
  /\ docStep' = "done" /\ UNCHANGED <<docLines, protoSeen, msgMap, request, docTodo, docRows>>

ProtoDocNext == WriteDocLine \/ CloseDocLine \/ StartDoc \/ WriteFieldRow \/ WriteDoc
-----------------------------------------------------------------------------
ProtoDocTypeOK ==
  /\ Range(docLines) \subseteq DocLine /\ docStep \in {"edit", "rows", "done"} /\ protoSeen \in BOOLEAN
  /\ docStep # "edit" =>
       /\ request \in Messages /\ Range(msgMap) \subseteq Messages
       /\ \A i \in DOMAIN docTodo : docTodo[i].field \in DocField /\ docTodo[i].msg \in DocName

(* Two messages of one short name: the document takes one for the other.   *)
Namesakes == \E m, n \in Messages : m # n /\ Last(m) = Last(n)

(* The path of a row, in the proto: its field and the message of the field.*)
Follow(at, name) ==
  LET found == IF at.type \in Messages THEN {f \in FieldsOf(at.type) : f.name = name} ELSE {}
  IN IF found = {} THEN [msg |-> <<>>, type |-> <<>>]
     ELSE LET f == CHOOSE f \in found : TRUE IN [msg |-> at.type, type |-> f.type, field |-> f]
FieldAt(path) == FoldLeft(Follow, [msg |-> <<>>, type |-> request], path)
FieldNames == UNION {{f.name : f \in FieldsOf(m)} : m \in Messages}
TruePaths ==
  {p \in UNION {[1 .. k -> FieldNames] : k \in 1 .. Cardinality(Messages)} : FieldAt(p).msg # <<>>}

(* The rows come to an end: a path longer than there are messages is that  *)
(* of a message that, by the types of its fields, has itself as a part,    *)
(* which protoc allows; or of one with a namesake, which looks as if it    *)
(* did.  Of such a proto the command never ends.                           *)
PartsHaveNoCycle ==
  \E rank \in [Messages -> 1 .. Cardinality(Messages)] :
    \A m \in Messages : \A f \in FieldsOf(m) : f.type \in Messages => rank[f.type] < rank[m]
DocEnds ==
  (\E i \in DOMAIN docTodo : Len(docTodo[i].path) > Cardinality(Messages)) => Namesakes \/ ~PartsHaveNoCycle

(* A document that is done has one row for each field of the request and   *)
(* of the messages in it, and for nothing else.                            *)
DocComplete ==
  docStep = "done" =>
    \/ Namesakes
    \/ /\ {docRows[i].path : i \in DOMAIN docRows} = TruePaths
       /\ IsInjective([i \in DOMAIN docRows |-> docRows[i].path])

(* A row says "optional" of a field that may be left out, by its label and *)
(* as no rule demands it, and of no other - but for these: a rule that a   *)
(* field be given is missed if it is below the line of the field, if the   *)
(* field stands behind a message inside its own, and if the proto was not  *)
(* found; any other rule on its line, such as max_items, is taken for that *)
(* one; and a message may have a namesake.                                 *)
LineOf(m, f) ==
  CHOOSE i \in DOMAIN docLines :
    LET before == FoldLeft(DocParse, [at |-> <<>>, fields |-> <<>>], SubSeq(docLines, 1, i - 1))
    IN before.at = m /\ docLines[i].is = "field" /\ docLines[i].field = f
BehindInner(m, f) ==
  \E i \in 1 .. LineOf(m, f) :
    /\ docLines[i].is \in {"message", "empty"}
    /\ IsStrictPrefix(m, Append(FoldLeft(DocParse, [at |-> <<>>, fields |-> <<>>], SubSeq(docLines, 1, i - 1)).at,
                                docLines[i].name))
DocSaysRequired ==
  \A i \in DOMAIN docRows :
    LET row == docRows[i]
        true == FieldAt(row.path)
    IN \/ Namesakes
       \/ row.required = (true.field.demanded \/ true.field.label \notin {"optional", "repeated"})
       \/ /\ true.field.demanded /\ ~row.required
          /\ true.field.validated = "below" \/ BehindInner(true.msg, true.field) \/ ~protoSeen
       \/ row.required /\ true.field.validated = "line" /\ ~true.field.demanded

(* The example of a field is an object, or a list of them, where the table *)
(* says so - and for bytes; not for the integers that the table leaves out.*)
DocExamplesFit ==
  \A i \in DOMAIN docRows :
    LET row == docRows[i]
        type == Last(FieldAt(row.path).type)
    IN \/ Namesakes
       \/ row.type.list = row.example.list /\ ((row.type.base = "object") <=> (row.example.value = "braces"))
       \/ type \in {"bytes", "sint32"}
DocKnown == DocEnds /\ DocComplete /\ DocSaysRequired /\ DocExamplesFit
=============================================================================
