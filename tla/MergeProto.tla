----------------------------- MODULE MergeProto -----------------------------
(***************************************************************************)
(* MergeDescProtos: the desc protos are cut line by line into definitions, *)
(* which go to the merged file as they are, and rpcs, which go into its    *)
(* one service.  The code sees a line only through a few patterns and its  *)
(* count of braces; within says where in the proto the line really is.     *)
(* The files that come in are valid protos, formatted in whatever way.     *)
(***************************************************************************)
EXTENDS Integers, Sequences, FiniteSets

CONSTANTS MaxNested,  \* bound: nesting of blocks
          MaxBraces,  \* bound: braces counted, up or down
          MaxOddities \* bound: kinds of oddity in one file

ASSUME MergeAssumption == MaxNested \in Nat /\ MaxBraces \in Nat /\ MaxOddities \in Nat

VARIABLES
  within,         \* the blocks that are open, outermost first
  inService, braceDepth, rpcBraceDepth,
  messageBraces,  \* braces opened less closed in messageLines of this file
  rpcBraces,      \* the same for rpcLines
  lost,           \* what this file lost: "definition", "rpc"
  moved,          \* what went to the wrong part: "service", "rpc"
  oddities        \* what this file has that a line-based reader may miss

mergeVars == <<within, inService, braceDepth, rpcBraceDepth, messageBraces,
               rpcBraces, lost, moved, oddities>>

(* A line: the pattern it matches first, its braces, what it holds, the    *)
(* blocks that are open after it, and what is odd about it.                *)
Line(pattern, opens, closes, of, enters, odd) ==
  [pattern |-> pattern, opens |-> opens, closes |-> closes, of |-> {of},
   enters |-> enters, odd |-> odd]

Innermost(w) == IF w = <<>> THEN "file" ELSE w[Len(w)]
Leave(w) == SubSeq(w, 1, Len(w) - 1)
Nest(w, block) == Append(w, block)
Replace(w, block) == Append(Leave(w), block)

(* A line within a block comment may look like anything.                   *)
Comments(w) ==
  {Line("comment", 0, 0, "comment", w, {}),
   Line("other", 0, 0, "comment", w, {})} \cup
  {Line(p, 0, 0, "comment", w, {"codeInText"}) : p \in {"header", "import", "service", "rpc"}} \cup
  {Line(p, n, 1 - n, "comment", w, {"codeInText"}) : p \in {"comment", "other"}, n \in {0, 1}}

FileLines(w) ==
  {Line("header", 0, 0, "header", w, {}),
   Line("import", 0, 0, "import", w, {}),
   Line("other", 1, 0, "definition", Nest(w, "message"), {}),
   Line("other", 1, 1, "definition", w, {}),
   Line("service", 1, 0, "service", Nest(w, "service"), {}),
   Line("service", 1, 1, "service", w, {"oneLineService"}),
   Line("service", 1, 1, "rpc", w, {"oneLineService"}),
   Line("other", 0, 0, "service", Nest(w, "serviceName"), {"splitService"})}

(* A field whose type starts with "package" or "syntax" matches headerSkip,*)
(* and a brace in a string counts like any other.                          *)
MessageLines(w) ==
  {Line("other", 0, 0, "definition", w, {}),
   Line("header", 0, 0, "definition", w, {"headerLikeField"}),
   Line("other", 1, 0, "definition", w, {"codeInText"}),
   Line("other", 1, 0, "definition", Nest(w, "message"), {}),
   Line("other", 0, 1, "definition", Leave(w), {})}

ServiceLines(w) ==
  {Line("rpc", 0, 0, "rpc", w, {}),
   Line("rpc", 1, 1, "rpc", w, {}),
   Line("rpc", 1, 0, "rpc", Nest(w, "rpc"), {"rpcBlock"}),
   Line("rpc", 0, 0, "rpc", Nest(w, "rpcName"), {"splitRpc"}),
   Line("other", 0, 0, "option", w, {"serviceOption"}),
   Line("other", 1, 0, "option", Nest(w, "setting"), {"serviceOption"}),
   Line("other", 0, 1, "service", Leave(w), {})}

BlockLines(w, of, block) ==
  {Line("other", 0, 0, of, w, {}),
   Line("header", 0, 0, of, w, {"headerLikeField"}),
   Line("other", 1, 0, of, Nest(w, block), {}),
   Line("other", 0, 1, of, Leave(w), {})}

(* What may come next where the blocks w are open.                         *)
Pieces(w) ==
  CASE Innermost(w) = "file" -> FileLines(w) \cup Comments(w)
    [] Innermost(w) = "message" -> MessageLines(w) \cup Comments(w)
    [] Innermost(w) = "service" -> ServiceLines(w) \cup Comments(w)
    [] Innermost(w) = "serviceName" ->
         {Line("other", 1, 0, "service", Replace(w, "service"), {})}
    [] Innermost(w) = "rpcName" ->
         {Line("other", 0, 0, "rpc", Leave(w), {}),
          Line("other", 1, 0, "rpc", Replace(w, "rpc"), {"rpcBlock"})}
    [] Innermost(w) = "setting" -> BlockLines(w, "option", "setting") \cup Comments(w)
    [] OTHER -> BlockLines(w, "rpc", "option") \cup Comments(w)

(* Two of these on one line, which matches the pattern of the first.  None *)
(* can follow a line comment, and a brace behind the name of a service is  *)
(* a service as any other.                                                 *)
Join(a, b) ==
  [pattern |-> a.pattern, opens |-> a.opens + b.opens, closes |-> a.closes + b.closes,
   of |-> a.of \cup b.of, enters |-> b.enters, odd |-> a.odd \cup b.odd \cup {"sharedLine"}]

Leads(a) == a.pattern # "comment" /\ Innermost(a.enters) # "serviceName"

Lines ==
  Pieces(within) \cup
  UNION {{Join(a, b) : b \in Pieces(a.enters)} : a \in {l \in Pieces(within) : Leads(l)}}

MergeInit ==
  /\ within = <<>>
  /\ inService = FALSE /\ braceDepth = 0 /\ rpcBraceDepth = 0
  /\ messageBraces = 0 /\ rpcBraces = 0
  /\ lost = {} /\ moved = {} /\ oddities = {}
-----------------------------------------------------------------------------
Net(l) == l.opens - l.closes

(* What happens to the text of a line.                                     *)
Content == {"import", "definition", "rpc", "option"}
Kept(l) == messageBraces' = messageBraces + Net(l) /\ UNCHANGED <<rpcBraces, lost>>
KeptAsRpc(l) == rpcBraces' = rpcBraces + Net(l) /\ UNCHANGED <<messageBraces, lost>>
Dropped(l) ==
  /\ lost' = lost \cup (l.of \cap Content)
  /\ UNCHANGED <<messageBraces, rpcBraces>>

(* headerSkip                                                              *)
SkipHeader(l) ==
  /\ l.pattern = "header"
  /\ Dropped(l)
  /\ UNCHANGED <<inService, braceDepth, rpcBraceDepth, moved>>

(* importRe: the whole line goes to the imports.                           *)
CollectImport(l) ==
  /\ l.pattern = "import"
  /\ moved' = moved \cup (l.of \ {"import"})
  /\ UNCHANGED <<inService, braceDepth, rpcBraceDepth, messageBraces, rpcBraces, lost>>

OpenService(l) ==
  /\ l.pattern = "service"
  /\ inService' = TRUE
  /\ braceDepth' = Net(l)
  /\ Dropped(l)
  /\ UNCHANGED <<rpcBraceDepth, moved>>

(* Inside the block of an rpc every line is kept.                          *)
KeepRpcBlock(l) ==
  /\ l.pattern \notin {"header", "import", "service"}
  /\ inService /\ rpcBraceDepth > 0
  /\ rpcBraceDepth' = IF rpcBraceDepth + Net(l) <= 0 THEN 0 ELSE rpcBraceDepth + Net(l)
  /\ KeptAsRpc(l)
  /\ UNCHANGED <<inService, braceDepth, moved>>

BlockOf(l) == IF l.pattern = "rpc" /\ Net(l) > 0 THEN Net(l) ELSE 0

(* Elsewhere in a service: rpcs and comments are kept, and the service     *)
(* ends when the braces say so.  An rpc within a block comment comes to    *)
(* life, for the line that opens the comment is not kept.                  *)
ReadService(l) ==
  /\ l.pattern \notin {"header", "import", "service"}
  /\ inService /\ rpcBraceDepth = 0
  /\ braceDepth' = braceDepth + Net(l)
  /\ inService' = (braceDepth' > 0)
  /\ rpcBraceDepth' = IF braceDepth' > 0 THEN BlockOf(l) ELSE 0
  /\ IF braceDepth' > 0 /\ l.pattern \in {"rpc", "comment"}
     THEN KeptAsRpc(l) /\ moved' = moved \cup {c \in l.of : l.pattern = "rpc" /\ c = "comment"}
     ELSE Dropped(l) /\ UNCHANGED moved

(* Outside of services: a definition, or so the code thinks.               *)
KeepDefinition(l) ==
  /\ l.pattern \notin {"header", "import", "service"}
  /\ ~inService
  /\ Kept(l)
  /\ moved' = moved \cup (l.of \cap {"rpc", "option", "service"})
  /\ UNCHANGED <<inService, braceDepth, rpcBraceDepth>>

(* What makes the code miscount or misread whatever comes: two things on   *)
(* one line, or text in a comment or a string that looks like code.        *)
Misread == oddities \cap {"codeInText", "sharedLine"} # {}

(* Bounded: as all of a misread file may be lost, it has no other oddity.  *)
ReadLine ==
  /\ \E l \in Lines :
       /\ within' = l.enters
       /\ oddities' = oddities \cup l.odd
       /\ \/ SkipHeader(l) \/ CollectImport(l) \/ OpenService(l)
          \/ KeepRpcBlock(l) \/ ReadService(l) \/ KeepDefinition(l)
  /\ Len(within') <= MaxNested
  /\ Cardinality(oddities') <= IF Misread' THEN 1 ELSE MaxOddities
  /\ {braceDepth', messageBraces', rpcBraces'} \subseteq -MaxBraces .. MaxBraces

\* wrong: inService is declared outside of the loop over files
ResetNot == UNCHANGED inService /\ braceDepth' = 0 /\ rpcBraceDepth' = 0
(* The end of a file: the next one starts anew.                            *)
Reset == inService' = FALSE /\ braceDepth' = 0 /\ rpcBraceDepth' = 0

NextFile ==
  /\ within = <<>>
  /\ Reset
  /\ messageBraces' = 0 /\ rpcBraces' = 0
  /\ lost' = {} /\ moved' = {} /\ oddities' = {}
  /\ UNCHANGED within

MergeNext == ReadLine \/ NextFile

MergeSpec == MergeInit /\ [][MergeNext]_mergeVars
-----------------------------------------------------------------------------
MergeTypeOK ==
  /\ within \in Seq({"message", "service", "serviceName", "setting", "rpc", "rpcName",
                     "option"})
  /\ inService \in BOOLEAN
  /\ {braceDepth, rpcBraceDepth, messageBraces, rpcBraces} \subseteq Int

(* What can cost a file a definition, an rpc or an option of the service,  *)
(* or put something where it does not belong: besides these, a block of an *)
(* rpc, a service on one line, an rpc or a service whose head is on two    *)
(* lines, an option of the service, a field that looks like a header.      *)
(* Nothing that an earlier file holds can.  Both parts of the merged file  *)
(* have braces that balance, even where definitions are lost, unless lines *)
(* are misread.                                                            *)
LossHasACause ==
  /\ lost \cap {"definition", "import"} # {} =>
       Misread \/ oddities \cap {"rpcBlock", "oneLineService", "headerLikeField"} # {}
  /\ "rpc" \in lost =>
       Misread \/ oddities \cap {"splitRpc", "oneLineService", "headerLikeField"} # {}
  /\ "option" \in lost => Misread \/ "serviceOption" \in oddities
  /\ moved # {} => Misread \/ "splitService" \in oddities
  /\ within = <<>> /\ {messageBraces, rpcBraces} # {0} => Misread
=============================================================================
