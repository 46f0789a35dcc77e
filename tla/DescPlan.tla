------------------------------ MODULE DescPlan ------------------------------
(***************************************************************************)
(* What zctl rpc ent adds to desc/ for a new schema                        *)
(* (rpc/generator/ent/gen.go): a line scanner finds the rpcs and messages  *)
(* that are there, and the rpcs that are missing are written with the      *)
(* messages they miss.  When a schema is skipped as a whole is in          *)
(* EntPipeline.                                                            *)
(***************************************************************************)
EXTENDS Naturals, Sequences, SequencesExt, Functions

CONSTANTS
  DescOp,       \* operations whose rpcs and messages the files may hold
  DescLines     \* bound: what the existing files have of rpcs, fields and braces

Operations == {"Create", "Get", "GetBy", "Update", "UpdateBy", "Delete", "List"}

ASSUME DescPlanAssumption == DescOp \subseteq Operations /\ DescLines \in Nat

(* buildFullProtoEntries: an rpc has the name of its operation.            *)
Info == <<"Info", "">>
Deps(op) ==
  {<<"Req", op>>}
  \cup (IF op \in {"Create", "List"} THEN {<<"Resp", op>>} ELSE {})
  \cup (IF op = "Delete" THEN {} ELSE {Info})
Messages == (UNION {Deps(op) : op \in DescOp}) \cup {<<"Req", "Extra">>}
(* Fields of a message: those of the schema; one more; one more that the   *)
(* scanner does not see (a map, a type of a package).                      *)
Fields == {"schema", "extra", "unseen"}
(* messageFieldsEqual                                                      *)
Same(body) == body \ {"unseen"} = {"schema"}

VARIABLES
  open,       \* what is open here: services, messages, other blocks
  rpcs,       \* rpcs of the project's service
  defined,    \* messages at top level, with their fields
  frames,     \* the scanner's stack
  blind,      \* the scanner's copy of the text ends here
  lineLeft,   \* the scanner has left the line that this is on
  seenRpcs, seenMessages,
  oddities,   \* what the lines had that the scanner does not expect
  descLines,
  added,      \* what is written: [rpcs, messages]
  descStep

descVars == <<open, rpcs, defined, frames, blind, lineLeft, seenRpcs, seenMessages, oddities,
              descLines, added, descStep>>

NoFrame == [kind |-> "none", name |-> "", body |-> {}]
Frame(kind, name) == [kind |-> kind, name |-> name, body |-> {}]
Innermost(stack) == IF stack = <<>> THEN NoFrame ELSE stack[Len(stack)]
WithField(stack, f) == [stack EXCEPT ![Len(stack)].body = @ \cup {f}]
WithMessage(messages, frame) ==
  IF frame.name \in DOMAIN messages THEN messages
  ELSE [m \in DOMAIN messages \cup {frame.name} |->
          IF m = frame.name THEN frame.body ELSE messages[m]]

DescInit ==
  /\ open = <<>> /\ rpcs = {} /\ defined = [m \in {} |-> {}]
  /\ frames = <<>> /\ blind = FALSE /\ lineLeft = FALSE
  /\ seenRpcs = {} /\ seenMessages = [m \in {} |-> {}]
  /\ oddities = {} /\ descLines = 0
  /\ added = [rpcs |-> {}, messages |-> {}] /\ descStep = "scan"

(* parseProtoFile: a new line is trimmed and read from its start; on a     *)
(* line that has begun the scanner goes on char by char, until a field, an *)
(* rpc, or a blank or any other text in a message makes it leave the line. *)
(* An opening brace is on the line of its name.                            *)
Places ==
  {"new", "spaced"} \cup (IF ~lineLeft /\ Innermost(frames).kind = "message" THEN {"tight"} ELSE {})
Reached(place) ==
  /\ ~blind
  /\ \/ place = "new"
     \/ ~lineLeft /\ (place = "tight" \/ Innermost(frames).kind # "message")
FieldReached(place) == ~blind /\ (place = "new" \/ ~lineLeft)
NotedUnless(reached, what) == IF blind \/ reached THEN oddities ELSE oddities \cup {what}

FileGrows ==
  /\ descStep = "scan" /\ descLines < DescLines
  /\ descLines' = descLines + 1
  /\ UNCHANGED <<blind, added, descStep>>
(* Whatever is not known in a message ends the reading of its line.        *)
Passed(reached) == lineLeft' = (~blind /\ (~reached \/ Innermost(frames).kind = "message"))

OpenService(s, place) ==
  /\ FileGrows /\ open = <<>>
  /\ open' = Append(open, Frame("service", s))
  /\ frames' = IF Reached(place) /\ frames = <<>> THEN Append(frames, Frame("service", s))
               ELSE frames
  /\ Passed(Reached(place))
  /\ oddities' = NotedUnless(Reached(place), "sharedLine")
  /\ UNCHANGED <<rpcs, defined, seenRpcs, seenMessages>>

(* An rpc ends with a semicolon, or opens a block of options.  The scanner *)
(* takes it for one of the service that it has opened and not closed.      *)
CurrentService == IF frames # <<>> /\ frames[1].kind = "service" THEN frames[1].name ELSE ""
RpcLine(r, block, place) ==
  /\ FileGrows /\ Innermost(open).kind = "service"
  /\ Innermost(open).name = "own" => r \notin rpcs
  /\ rpcs' = IF Innermost(open).name = "own" THEN rpcs \cup {r} ELSE rpcs
  /\ seenRpcs' = IF Reached(place) /\ CurrentService = "own" THEN seenRpcs \cup {r} ELSE seenRpcs
  /\ open' = IF block THEN Append(open, Frame("block", "rpc")) ELSE open
  /\ lineLeft' = (~blind /\ (~Reached(place) \/ frames # <<>>))
  /\ oddities' = NotedUnless(Reached(place), "sharedLine")
  /\ UNCHANGED <<defined, frames, seenMessages>>

OpenMessage(m, place) ==
  /\ FileGrows /\ Innermost(open).kind \in {"none", "message"}
  /\ open = <<>> => m \notin DOMAIN defined
  /\ Len(open) < 2
  /\ open' = Append(open, Frame("message", m))
  /\ frames' = IF Reached(place) THEN Append(frames, Frame("message", m)) ELSE frames
  /\ lineLeft' = (~blind /\ ~Reached(place))
  /\ oddities' = NotedUnless(Reached(place), "sharedLine")
  /\ UNCHANGED <<rpcs, defined, seenRpcs, seenMessages>>

(* parseProtoFieldLine: one field of a line.                               *)
FieldLine(f, place) ==
  /\ FileGrows /\ Innermost(open).kind = "message" /\ f \notin Innermost(open).body
  /\ open' = WithField(open, f)
  /\ frames' = IF FieldReached(place) /\ Innermost(frames).kind = "message" /\ f # "unseen"
               THEN WithField(frames, f) ELSE frames
  /\ Passed(FieldReached(place))
  /\ oddities' = NotedUnless(FieldReached(place), "sharedField")
  /\ UNCHANGED <<rpcs, defined, seenRpcs, seenMessages>>

(* An enum or a oneof: its opening brace is not seen.                      *)
OpenBlock(place) ==
  /\ FileGrows /\ Innermost(open).kind = "message"
  /\ open' = Append(open, Frame("block", "enum"))
  /\ Passed(Reached(place))
  /\ oddities' = oddities \cup {"block"}
  /\ UNCHANGED <<rpcs, defined, frames, seenRpcs, seenMessages>>

(* pop: a message is kept when nothing is open around it.                  *)
Popped(reached) ==
  IF ~reached \/ frames = <<>> THEN UNCHANGED <<frames, seenMessages>>
  ELSE /\ frames' = Front(frames)
       /\ seenMessages' = IF Len(frames) = 1 /\ Last(frames).kind = "message"
                          THEN WithMessage(seenMessages, Last(frames)) ELSE seenMessages

(* The closing brace of a block is read as that of what is around it, if   *)
(* the scanner has not left its line.                                      *)
CloseBrace(place) ==
  /\ FileGrows /\ open # <<>>
  /\ open' = Front(open)
  /\ defined' = IF Len(open) = 1 /\ Last(open).kind = "message"
                THEN WithMessage(defined, Last(open)) ELSE defined
  /\ Popped(Reached(place))
  /\ lineLeft' = (~blind /\ ~Reached(place))
  /\ oddities' = IF Last(open).kind # "block" THEN NotedUnless(Reached(place), "sharedLine")
                 ELSE IF Last(open).name = "rpc" /\ Reached(place) THEN oddities \cup {"rpcBlock"}
                 ELSE oddities
  /\ UNCHANGED <<rpcs, seenRpcs>>

(* stripBlockComments: two slashes before it do not hide a comment that    *)
(* opens; when none closes the rest of the file is cut off.                *)
CommentOpens ==
  /\ descStep = "scan" /\ descLines < DescLines /\ ~blind
  /\ descLines' = descLines + 1
  /\ blind' = TRUE /\ lineLeft' = FALSE /\ frames' = <<>>
  /\ oddities' = oddities \cup {"comment"}
  /\ UNCHANGED <<open, rpcs, defined, seenRpcs, seenMessages, added, descStep>>

(* addSchema, commit: rpcs that the service does not have, unless one of   *)
(* their messages is there with other fields; with the messages that are   *)
(* not there.                                                              *)
KeptAll(full) == {r \in full : r \notin seenRpcs}  \* wrong: fields are not compared
Kept(full) ==
  {r \in full :
     /\ r \notin seenRpcs
     /\ \A m \in Deps(r) \cap DOMAIN seenMessages : Same(seenMessages[m])}
AddSchema ==
  /\ descStep = "scan" /\ open = <<>>
  /\ \E full \in SUBSET Operations :
       /\ {"Create", "Get", "Update", "List"} \subseteq full
       /\ "GetBy" \in full <=> "UpdateBy" \in full
       /\ added' = [rpcs |-> Kept(full),
                    messages |-> (UNION {Deps(r) : r \in Kept(full)}) \ DOMAIN seenMessages]
  /\ descStep' = "done"
  /\ UNCHANGED <<open, rpcs, defined, frames, blind, lineLeft, seenRpcs, seenMessages, oddities,
                 descLines>>

DescNext ==
  \/ \E place \in Places :
       \/ \E s \in {"own", "other"} : OpenService(s, place)
       \/ \E r \in DescOp, block \in BOOLEAN : RpcLine(r, block, place)
       \/ \E m \in Messages : OpenMessage(m, place)
       \/ \E f \in Fields : FieldLine(f, place)
       \/ OpenBlock(place) \/ CloseBrace(place)
  \/ CommentOpens
  \/ AddSchema

DescSpec == DescInit /\ [][DescNext]_descVars
-----------------------------------------------------------------------------
DescTypeOK ==
  /\ rpcs \subseteq DescOp /\ seenRpcs \subseteq DescOp
  /\ DOMAIN defined \subseteq Messages /\ DOMAIN seenMessages \subseteq Messages
  /\ Len(frames) <= descLines /\ Len(open) <= 3
  /\ blind \in BOOLEAN /\ lineLeft \in BOOLEAN /\ descLines \in 0..DescLines
  /\ oddities \subseteq {"rpcBlock", "block", "comment", "sharedLine", "sharedField"}
  /\ added.rpcs \subseteq Operations
  /\ descStep \in {"scan", "done"}

(* What is added fits what was there: no rpc of the service and no message *)
(* is defined twice, and every rpc finds its messages with the schema's    *)
(* fields.  An rpc is doubled only when an rpc before it had a block of    *)
(* options over several lines, since the block's brace ends the service    *)
(* for the scanner; a message is missing or another only when a oneof or   *)
(* an enum ended it early, or a field stood behind another on its line;    *)
(* and anything can be doubled or missed behind a comment that opens, or   *)
(* when the scanner had left a line before a brace, a message or an rpc    *)
(* on it: a message in one line, or a brace behind the last field.         *)
AddsWhatIsMissing ==
  descStep = "done" =>
    /\ rpcs \cap added.rpcs # {} => oddities \cap {"rpcBlock", "comment", "sharedLine"} # {}
    /\ DOMAIN defined \cap added.messages # {} => oddities \cap {"comment", "sharedLine"} # {}
    /\ \/ oddities \cap {"block", "sharedField", "sharedLine"} # {}
       \/ \A r \in added.rpcs : \A m \in Deps(r) :
            m \in added.messages \/ (m \in DOMAIN defined /\ Same(defined[m]))
=============================================================================
