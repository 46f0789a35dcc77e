------------------------------- MODULE RpcCode -------------------------------
(***************************************************************************)
(* The Go code that zctl rpc writes for the service of the root proto next *)
(* to protoc's: a logic file per rpc (GenLogicFiles, genLogicGroup), the   *)
(* server (GenServer), the client (GenCall) and main (GenMain).  Each of   *)
(* them spells types, imports packages and names services on its own; all  *)
(* must compile together.                                                  *)
(***************************************************************************)
EXTENDS RpcNames

CONSTANTS ServiceName, \* names of the service and of messages, as RpcNames spells them
          Rpc,         \* what an rpc may be
          MaxRpcs      \* bound: rpcs of the service

(* How a request or response type is written: a message of the root proto; *)
(* one of an imported file of its proto package, by its simple name; of    *)
(* another proto package and the same go_package; of another go_package,   *)
(* common; google.protobuf.Empty; a well-known type that the table has     *)
(* not; and a dotted name whose first part is no package of an import: a   *)
(* nested message, one of a package a.b, one qualified by the own package. *)
TypeRef == {"own", "sibling", "same", "foreign", "empty", "unknown", "dotted"}

(* sends, receives: the client has a stream of requests, of responses.     *)
(* place: the group and model of desc/ that have the rpc, or its root.     *)
Nowhere == [group |-> "", model |-> ""]
ASSUME RpcCodeAssumption ==
  /\ MaxRpcs \in Nat
  /\ \A w \in ServiceName : w \in Seq(Letters) /\ Legal(w)
  /\ Rpc \subseteq [name : Seq(STRING), req : TypeRef, resp : TypeRef, sends : BOOLEAN,
                    receives : BOOLEAN, place : [group : STRING, model : STRING]]
  /\ \A r \in Rpc : r.place = Nowhere \/ (r.place.group # "" /\ r.place.model # "")

VARIABLES
  service,  \* its name
  message,  \* the name of the own messages' type
  multiple, \* --multiple: a directory per service, and desc/ is not read
  rpcs,     \* as they are declared
  built     \* per generated file: whether it compiles

rpcCodeVars == <<service, message, multiple, rpcs, built>>

NotBuilt == [logic |-> <<>>, server |-> FALSE, client |-> FALSE, main |-> FALSE]

RpcCodeInit ==
  /\ service \in ServiceName /\ message \in ServiceName /\ multiple \in BOOLEAN
  /\ rpcs = <<>> /\ built = NotBuilt

Unary(r) == ~r.sends /\ ~r.receives
\* of its two types, those that the code of an rpc mentions
Mentioned(r) == (IF r.sends THEN {} ELSE {r.req}) \cup (IF Unary(r) THEN {r.resp} ELSE {})

(* resolveRPCTypeRef: the import that a type needs besides the own pb, and *)
(* whether the type is spelled as protoc does.                             *)
ImportPath(t) == CASE t = "foreign" -> {"common"} [] t = "empty" -> {"emptypb"} [] OTHER -> {}
Spelt(t) == t \notin {"unknown", "dotted"}
PackageOf(t) == IF ImportPath(t) # {} THEN ImportPath(t) ELSE IF t = "unknown" THEN {} ELSE {"pb"}

(* addLogicImports: a stream's type is in pb.                              *)
LogicImports(r) ==
  IF ~Unary(r) THEN {"pb"}
  ELSE ImportPath(r.req) \cup ImportPath(r.resp)
       \cup IF ImportPath(r.req) = {} \/ ImportPath(r.resp) = {} THEN {"pb"} ELSE {}
LogicUses(r) == (UNION {PackageOf(t) : t \in Mentioned(r)}) \cup (IF Unary(r) THEN {} ELSE {"pb"})
LogicCompiles(r) ==
  /\ LogicImports(r) = LogicUses(r)
  /\ "dotted" \notin Mentioned(r)
  /\ Unary(r) => r.resp # "unknown"   \* &interface{}{}

(* GenLogicFiles: an rpc without a place takes that of the rpc with its    *)
(* name in lower case.                                                     *)
Lenders(r) == {s \in Range(rpcs) : s.name = [i \in DOMAIN r.name |-> Lowered(r.name[i])]}
LogicPlace(r) ==
  IF r.place # Nowhere \/ Lenders(r) = {} THEN r.place ELSE (CHOOSE s \in Lenders(r) : TRUE).place
Borrows(r) == ~multiple /\ LogicPlace(r) # r.place

(* The file of an rpc: the first that has it keeps it.                     *)
LogicFile(r) == <<IF multiple THEN Nowhere ELSE LogicPlace(r), FileSnake(r.name)>>
First(i) == \A j \in DOMAIN rpcs : LogicFile(rpcs[j]) = LogicFile(rpcs[i]) => i <= j
Kept(i) == rpcs[CHOOSE j \in DOMAIN rpcs : LogicFile(rpcs[j]) = LogicFile(rpcs[i]) /\ First(j)]
HasLogic(i) ==
  ToCamel(Kept(i).name) = ToCamel(rpcs[i].name) /\ CamelCase(Kept(i).name) = CamelCase(rpcs[i].name)

(* genServerInCompatibility: logic packages by the model, with the group   *)
(* in front where two groups have one of that name; each rpc's own.        *)
Places == {rpcs[i].place : i \in DOMAIN rpcs}
\* wrong: the model alone names the package
AliasOfModel(p) == IF p = Nowhere THEN <<"", "logic">> ELSE <<"", p.model>>
Alias(p) ==
  IF p = Nowhere THEN <<"", "logic">>
  ELSE IF \E q \in Places \ {p} : q.model = p.model THEN <<p.group, p.model>> ELSE <<"", p.model>>
\* one name for two packages, of logic or of others
Ambiguous(others) ==
  ~multiple /\ \/ \E p \in Places : Alias(p) \in {""} \X others
               \/ \E p, q \in Places : p # q /\ Alias(p) = Alias(q)

Extra == UNION {ImportPath(rpcs[i].req) \cup ImportPath(rpcs[i].resp) : i \in DOMAIN rpcs}
ExtraUsed == UNION {ImportPath(t) : t \in UNION {Mentioned(rpcs[i]) : i \in DOMAIN rpcs}}
SameIdent == ServiceGoIdent(service) = CamelCase(service)
ServerCompiles ==
  /\ SameIdent
  /\ ~Ambiguous({"svc", "pb"} \cup Extra \cup (IF \E i \in DOMAIN rpcs : Unary(rpcs[i]) THEN {"context"} ELSE {}))
  /\ Extra = ExtraUsed
  /\ \A i \in DOMAIN rpcs : HasLogic(i) /\ "dotted" \notin Mentioned(rpcs[i])
  /\ \A i \in DOMAIN rpcs : ~Borrows(rpcs[i])

(* resolveCallTypeRef: own messages, and those of the same go_package with *)
(* a dotted name, have an alias in the client; --multiple writes those of  *)
(* the messages that are used.                                             *)
AllTypes == UNION {{rpcs[i].req, rpcs[i].resp} : i \in DOMAIN rpcs}
MessageAlias == IF multiple => "own" \in AllTypes THEN {CamelCase(message)} ELSE {}
ClientName ==
  IF ServiceGoIdent(service) = message THEN <<"zrpc", "client">> ELSE ServiceGoIdent(service)
ClientCompiles ==
  /\ SameIdent
  /\ Extra = ExtraUsed
  /\ ClientName \notin MessageAlias
  /\ \A i \in DOMAIN rpcs : Mentioned(rpcs[i]) \cap {"sibling", "unknown", "dotted"} = {}

(* The server must be what protoc's Register function takes.               *)
MainCompiles == SameIdent /\ \A i \in DOMAIN rpcs : \A t \in Mentioned(rpcs[i]) : Spelt(t)

DeclareRpc ==
  /\ Len(rpcs) < MaxRpcs /\ built = NotBuilt
  /\ \E r \in Rpc :
       /\ \A i \in DOMAIN rpcs : CamelCase(rpcs[i].name) # CamelCase(r.name)   \* or protoc fails
       /\ rpcs' = Append(rpcs, r)
  /\ UNCHANGED <<service, message, multiple, built>>

GenerateCode ==
  /\ rpcs # <<>> /\ built = NotBuilt
  /\ built' = [logic |-> [i \in DOMAIN rpcs |-> First(i) => LogicCompiles(rpcs[i])],
               server |-> ServerCompiles, client |-> ClientCompiles, main |-> MainCompiles]
  /\ UNCHANGED <<service, message, multiple, rpcs>>

RpcCodeNext == DeclareRpc \/ GenerateCode
-----------------------------------------------------------------------------
RpcCodeTypeOK ==
  /\ service \in ServiceName /\ multiple \in BOOLEAN
  /\ Range(rpcs) \subseteq Rpc /\ Len(rpcs) <= MaxRpcs
  /\ {built.server, built.client, built.main} \subseteq BOOLEAN

(* What the code cannot say: a type that is not spelled as protoc spells   *)
(* it; the request of a stream of responses, when it is of another         *)
(* go_package (its logic lacks the import); a foreign type that streams    *)
(* make needless (the import stands in server and client); the name of a   *)
(* service that is not plain; two rpcs whose names give one file; an rpc   *)
(* whose logic is put where one with its name in lower case is; a model    *)
(* of desc/ with the name of a package that the server imports, unless two *)
(* groups have such a model; the simple name of a message of an imported   *)
(* file, in the client; and a message with the service's name that is      *)
(* spelled otherwise.  All else compiles.                                  *)
Wrong(r) == \E t \in Mentioned(r) : ~Spelt(t)
Needless(types) == \E t \in types : ImportPath(t) # {} /\ \A i \in DOMAIN rpcs : t \notin Mentioned(rpcs[i])
OneFile == \E i, j \in DOMAIN rpcs : i # j /\ LogicFile(rpcs[i]) = LogicFile(rpcs[j])
Shadowing ==
  \E p \in Places \ {Nowhere} :
    /\ \A q \in Places : q.model = p.model => q = p
    /\ \/ p.model \in {"svc", "pb"}
       \/ p.model = "common" /\ "foreign" \in AllTypes
       \/ p.model = "emptypb" /\ "empty" \in AllTypes
       \/ p.model = "context" /\ \E i \in DOMAIN rpcs : Unary(rpcs[i])
       \/ p.model = "logic" /\ Nowhere \in Places
LogicKnown ==
  \A i \in DOMAIN built.logic :
    ~Wrong(rpcs[i]) /\ First(i) =>
      (built.logic[i] <=> ~(rpcs[i].receives /\ ~rpcs[i].sends /\ rpcs[i].req \in {"foreign", "empty"}))
AnyWrong == \E i \in DOMAIN rpcs : Wrong(rpcs[i])
ServerFits ==
  /\ \A i \in DOMAIN rpcs : ~Borrows(rpcs[i])
  /\ PlainName(service) /\ ~OneFile /\ ~Needless(AllTypes) /\ (multiple \/ ~Shadowing)
ClientFits ==
  /\ PlainName(service) /\ ~Needless(AllTypes)
  /\ \A i \in DOMAIN rpcs : "sibling" \notin Mentioned(rpcs[i])
  /\ CamelCase(message) = ServiceGoIdent(service) =>
       message = ServiceGoIdent(service) \/ (multiple /\ "own" \notin AllTypes)
CodeKnown ==
  /\ LogicKnown
  /\ built # NotBuilt /\ ~AnyWrong =>
       /\ built.server <=> ServerFits
       /\ built.client <=> ClientFits
       /\ built.main <=> PlainName(service)
  /\ built.main => ~AnyWrong
=============================================================================
