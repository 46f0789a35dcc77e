------------------------------ MODULE ApiClients ------------------------------
(***************************************************************************)
(* The clients that zctl api writes for one route of an api: TypeScript,   *)
(* Dart, Kotlin, Java, and the description that zctl api swagger writes.   *)
(* Each puts every field of the request somewhere; the handler that zctl   *)
(* api go writes reads it (httpx.Parse) where its tag says.  Files that    *)
(* are there already are kept, some of them, when the api changes.         *)
(***************************************************************************)
EXTENDS Naturals, Sequences, FiniteSets

CONSTANTS ApiField,         \* [var, tag, name, type, embedded, pointer]
          MaxClientChanges  \* bound: changes of the api

(* name: the tag's spelling is that of the Go name, is that of a name with *)
(* "is" in front, or is another.  embedded: a field of an embedded struct, *)
(* pointer: that is embedded by a pointer.                                 *)
ASSUME ClientsAssumption ==
  /\ MaxClientChanges \in Nat
  /\ \A f \in ApiField :
       /\ f.tag \in {"json", "form", "path", "header"} /\ f.name \in {"same", "is", "other"}
       /\ f.type \in {"string", "bool", "uint", "any", "strings", "objects"}
       /\ f.embedded \in BOOLEAN /\ f.pointer \in BOOLEAN

Language == {"typescript", "dart", "kotlin", "java", "swagger"}
WithBody == {"post", "put", "patch", "delete"}   \* methods whose requests carry a body
HttpMethod == WithBody \cup {"get", "head"}

(* A request type of at most two fields; none is no request type at all.   *)
RequestType == {fs \in SUBSET ApiField : Cardinality(fs) <= 2 /\ \A f, g \in fs : f.var = g.var => f = g}
ApiRoute == [method : HttpMethod, fields : RequestType, response : BOOLEAN]

VARIABLES
  lang,    \* the language of the client
  api,     \* the route as the api file has it
  changes, \* how often it was changed
  disk,    \* what the client's directory has
  sent     \* the last request that a user of the client sent

clientVars == <<lang, api, changes, disk, sent>>

None == [method |-> "none", fields |-> {}, response |-> FALSE]

(* of: the route of the last run.  packet: the route when the Java packet  *)
(* was written.  types: the request of the classes that were written.      *)
(* tokens, wire: which mode the kept files of Dart have.  whole: the last  *)
(* run ended well.                                                         *)
NoFiles == [of |-> None, packet |-> None, types |-> {}, tokens |-> "none", wire |-> "none", whole |-> FALSE]
NotSent == [by |-> "none", served |-> FALSE, told |-> FALSE]

ClientsInit ==
  /\ lang \in Language /\ api \in ApiRoute
  /\ lang # "swagger" => \A f \in api.fields : ~f.pointer   \* bound
  /\ changes = 0 /\ disk = NoFiles /\ sent = NotSent

(* GetTagMembers, GetBodyMembers, GetFormMembers: an embedded struct is a  *)
(* member for every tag, and for the body, but not for a form.             *)
Own(fs, tag)      == {f \in fs : f.tag = tag /\ ~f.embedded}
Embeds(fs)        == \E f \in fs : f.embedded
BodyMembers(fs)   == Own(fs, "json") \cup {f \in fs : f.embedded}
HasTag(fs, tag)   == Own(fs, tag) # {} \/ Embeds(fs)
FormOrBody(fs)    == {f \in fs : f.tag \in {"json", "form"}}

(* Where a field goes, and under which name.                               *)
Put(fs, place) == {[var |-> f.var, place |-> place, key |-> "tag"] : f \in fs}

-----------------------------------------------------------------------------
(* TypeScript: a function whose arguments follow the url in the call of    *)
(* webapi, which takes a request and a configuration of fetch.             *)
HasParams(fs) == fs # BodyMembers(fs)
Arguments(fs) ==
  (IF HasParams(fs) THEN <<"params">> ELSE <<>>)
  \o (IF BodyMembers(fs) # {} THEN <<"req">> ELSE <<>>)
  \o (IF HasTag(fs, "header") THEN <<"headers">> ELSE <<>>)
(* The interfaces of params and headers come together, for the fields that *)
(* are no members of the body; a path field of an embedded struct is named *)
(* in the url and is no argument.                                          *)
TsCompiles(r) ==
  /\ r.method # "head"
  /\ Len(Arguments(r.fields)) \in 1..2
  /\ HasTag(r.fields, "header") => HasParams(r.fields)
  /\ \A f \in r.fields : f.tag = "path" => ~f.embedded

Holds(fs, argument) ==
  CASE argument = "params"  -> Own(fs, "form")
    [] argument = "req"     -> {f \in fs : f.tag = "json"}
    [] argument = "headers" -> {f \in fs : f.tag = "header"}

(* request.ts: the first argument is the body, and fetch refuses one of a  *)
(* get; the second is spread over the options of fetch.                    *)
TsSends(r) ==
  [goes   |-> TsCompiles(r) /\ r.method \in WithBody,
   method |-> r.method,
   puts   |-> Put(Own(r.fields, "path"), "path")
              \cup IF Arguments(r.fields) = <<>> THEN {}
                   ELSE Put(Holds(r.fields, Arguments(r.fields)[1]), "body")]
-----------------------------------------------------------------------------
(* Dart: get without the request, post for every other method; toJson has  *)
(* every member, and leaves a list of objects to jsonEncode as a lazy one. *)
DartCompiles(d) ==
  /\ d.whole /\ d.tokens = "v2" /\ d.wire = "v2"
  /\ \A f \in d.of.fields : f.type # "any"
  /\ d.of.method = "get" \/ d.of.fields # {}

DartSends(d) ==
  LET r == d.of
  IN [goes   |-> DartCompiles(d) /\ (r.method = "get" \/ \A f \in r.fields : f.type # "objects"),
      method |-> IF r.method = "get" THEN "get" ELSE "post",
      puts   |-> Put(Own(r.fields, "path"), "path")
                 \cup IF r.method = "get" THEN {} ELSE Put(r.fields, "body")]
-----------------------------------------------------------------------------
(* Kotlin: properties are named after the Go fields, and Gson writes them  *)
(* under these names; the path goes out as it stands in the api.           *)
KotlinCompiles(r) == ~Embeds(r.fields) /\ \A f \in r.fields : f.type \notin {"any", "uint"}

\* wrong: the names are those of the tags
GsonNamesByTag(fs) == [f \in fs |-> "tag"]
GsonNames(fs) == [f \in fs |-> IF f.name = "other" THEN "goName" ELSE "tag"]

KotlinSends(r) ==
  [goes   |-> KotlinCompiles(r) /\ r.method # "patch",   \* HttpURLConnection knows no PATCH
   method |-> r.method,
   puts   |-> {[var |-> f.var, place |-> "path", key |-> "pattern"] : f \in Own(r.fields, "path")}
              \cup IF r.method \in {"post", "put"}
                   THEN {[var |-> f.var, place |-> "body", key |-> GsonNames(r.fields)[f]] : f \in r.fields}
                   ELSE {}]
-----------------------------------------------------------------------------
(* Java: the packet asks the component for every form field by the name of *)
(* its tag, and the component's getters have the Go names.                 *)
JavaGenerates(fs) == \A f \in FormOrBody(fs) : f.type \notin {"strings", "objects"}
HasRequestBody(fs) == BodyMembers(fs) \cup Own(fs, "form") # {}
HasGetter(fs, f) ==
  \E g \in FormOrBody(fs) :
    g.var = f.var /\ f.name # "other" /\ g.name # "other" /\ (g.type = "bool") = (f.type = "bool")
JavaCompiles(d) ==
  /\ d.packet.method # "none"
  /\ HasRequestBody(d.packet.fields) =>
       d.types # {} /\ \A f \in Own(d.packet.fields, "form") : HasGetter(d.types, f)
FormKey(f) == IF f.name = "is" /\ f.type = "bool" THEN "cut" ELSE "tag"
JavaSends(d) ==
  LET p == d.packet
  IN [goes   |-> JavaCompiles(d),
      method |-> p.method,
      puts   |-> Put({f \in p.fields : f.tag = "path"}, "path")
                 \cup {[var |-> f.var, place |-> "query", key |-> FormKey(f)] : f \in Own(p.fields, "form")}
                 \cup IF HasRequestBody(p.fields) /\ p.method \in WithBody
                      THEN Put(FormOrBody(d.types), "body") ELSE {}]
-----------------------------------------------------------------------------
(* Swagger: what a reader of the description sends, the parameters that it *)
(* calls required.  expandMembers has nothing for an embedded pointer.     *)
FormPlace(method) == IF method = "get" THEN "query" ELSE "form"
Required(f) == f.tag # "header"
Expanded(fs) == {f \in fs : ~f.pointer}
SwaggerSends(r) ==
  LET json == \E f \in Expanded(r.fields) : f.tag = "json"   \* consumes application/json
      Documented(tag) == {f \in Expanded(r.fields) : f.tag = tag /\ Required(f)}
  IN [goes   |-> TRUE,
      method |-> r.method,
      puts   |-> Put(Documented("path"), "path")
                 \cup Put(Documented("header"), "header")
                 \cup (IF r.method = "get" \/ ~json THEN Put(Documented("form"), FormPlace(r.method)) ELSE {})
                 \cup (IF r.method \in WithBody THEN Put(Documented("json"), "body") ELSE {})]
-----------------------------------------------------------------------------
(* The runs.  Only Dart and Java keep files that matter.                   *)
Written(d, r, ok) == [d EXCEPT !.of = r, !.types = r.fields, !.whole = ok]
Rewrite ==
  /\ lang \in {"typescript", "kotlin", "swagger"}
  /\ disk' = Written(disk, api, TRUE)
  /\ UNCHANGED <<lang, api, changes, sent>>

(* tokens.dart, data, api.dart, api, kv.dart, in this order: an embedded   *)
(* struct has no property name, so data is not finished; the template of   *)
(* the legacy api names a function that the table of functions has not.    *)
KeptMode(mode, run) == IF mode = "none" THEN run ELSE mode
DartCommand ==
  \E run \in {"v2", "legacy"} :
    /\ lang = "dart"
    /\ disk' = [Written(disk, api, run = "v2" /\ ~Embeds(api.fields)) EXCEPT
                  !.tokens = KeptMode(@, run),
                  !.wire = IF Embeds(api.fields) THEN @ ELSE KeptMode(@, run)]
    /\ UNCHANGED <<lang, api, changes, sent>>

(* A packet that is there is left alone; the component is removed and then *)
(* written, or left alone when the request has nothing for it.             *)
JavaCommand ==
  /\ lang = "java"
  /\ disk' = [disk EXCEPT
       !.of = api, !.whole = JavaGenerates(api.fields),
       !.packet = IF @ = None THEN api ELSE @,
       !.types = IF FormOrBody(api.fields) = {} /\ ~Embeds(api.fields) THEN @
                 ELSE IF JavaGenerates(api.fields) THEN api.fields ELSE {}]
  /\ UNCHANGED <<lang, api, changes, sent>>

(* The handler of zctl api go, by httpx.Parse.                             *)
ReadAt(method, tag) ==
  CASE tag = "json"   -> {"body"}
    [] tag = "form"   -> {"query"} \cup IF method \in {"post", "put", "patch"} THEN {"form"} ELSE {}
    [] tag = "path"   -> {"path"}
    [] tag = "header" -> {"header"}
PathVars(fs) == {f.var : f \in {g \in fs : g.tag = "path"}}
Served(r, from, request) ==
  /\ request.goes /\ request.method = r.method
  /\ PathVars(from.fields) = PathVars(r.fields)
  /\ \A f \in r.fields : \E p \in request.puts :
       p.var = f.var /\ p.key = "tag" /\ p.place \in ReadAt(r.method, f.tag)

(* How the caller learns that all went well: json() of an empty answer     *)
(* fails; Dart asks the answer for a code, which httpx.OkJson gives none;  *)
(* Kotlin calls onOk for a route with a response only.                     *)
Tells(r) ==
  CASE lang \in {"typescript", "kotlin"} -> r.response
    [] lang = "dart"                     -> FALSE
    [] OTHER                             -> TRUE

Send ==
  /\ disk.of = api /\ disk.whole
  /\ LET request == CASE lang = "typescript" -> TsSends(disk.of)
                      [] lang = "dart"       -> DartSends(disk)
                      [] lang = "kotlin"     -> KotlinSends(disk.of)
                      [] lang = "java"       -> JavaSends(disk)
                      [] lang = "swagger"    -> SwaggerSends(disk.of)
         from == IF lang = "java" THEN disk.packet ELSE disk.of
         ok == Served(api, from, request)
     IN sent' = [by |-> lang, served |-> ok, told |-> ok /\ Tells(from)]
  /\ UNCHANGED <<lang, api, changes, disk>>

(* The developer changes the route: its method, or a field.                *)
ChangeApi ==
  /\ changes < MaxClientChanges
  /\ disk.of = api
  /\ lang \in {"dart", "java"}   \* bound: those that keep files
  /\ \/ \E m \in HttpMethod : api' = [api EXCEPT !.method = m]
     \/ \E fs \in RequestType : fs # {} /\ (\A f \in fs : ~f.pointer) /\ api' = [api EXCEPT !.fields = fs]
  /\ changes' = changes + 1 /\ sent' = NotSent
  /\ UNCHANGED <<lang, disk>>

ClientsNext == Rewrite \/ DartCommand \/ JavaCommand \/ Send \/ ChangeApi
ClientsSpec == ClientsInit /\ [][ClientsNext]_clientVars
-----------------------------------------------------------------------------
ClientsTypeOK ==
  /\ lang \in Language /\ api \in ApiRoute /\ changes \in 0..MaxClientChanges
  /\ disk.types \subseteq ApiField /\ disk.whole \in BOOLEAN
  /\ {disk.tokens, disk.wire} \subseteq {"none", "v2", "legacy"}
  /\ sent.by \in Language \cup {"none"}

(* The requests that the server understands, as far as each client goes.   *)
Tags == {f.tag : f \in api.fields}
Types == {f.type : f \in api.fields}
TypeScriptServes == api.method \in WithBody /\ ~Embeds(api.fields) /\ (Tags = {"json"} \/ Tags = {"path"})
DartServes ==
  /\ disk.tokens = "v2" /\ disk.wire = "v2" /\ "any" \notin Types
  /\ \/ api.method = "get" /\ Tags \subseteq {"path"}
     \/ api.method = "post" /\ Tags # {} /\ Tags \subseteq {"json", "path"} /\ "objects" \notin Types
KotlinServes ==
  /\ ~Embeds(api.fields) /\ Types \cap {"any", "uint"} = {}
  /\ \/ Tags = {} /\ api.method # "patch"
     \/ api.method \in {"post", "put"} /\ Tags = {"json"} /\ \A f \in api.fields : f.name # "other"
JavaServes ==
  /\ "header" \notin Tags
  /\ "json" \in Tags => api.method \in WithBody
  /\ \A f \in api.fields : f.tag = "form" =>
       ~f.embedded /\ f.name # "other" /\ ~(f.name = "is" /\ f.type = "bool")
SwaggerServes ==
  /\ "header" \notin Tags /\ \A f \in api.fields : ~f.pointer
  /\ "json" \in Tags => api.method \in WithBody
  /\ "form" \in Tags => api.method = "get" \/ (api.method \in {"post", "put", "patch"} /\ "json" \notin Tags)

(* A request sent by a client that was just generated arrives as the api   *)
(* declares it, each field where the handler looks for it, if and only if  *)
(* the client's language can serve such a route; a Java packet that is     *)
(* older than the api serves at most what it serves unchanged.  And the    *)
(* caller is told of success but by Dart, and without a response by        *)
(* TypeScript and Kotlin.                                                  *)
ClientsServe ==
  sent.by # "none" /\ disk.of = api =>
    CASE lang = "typescript" -> sent.served <=> TypeScriptServes
      [] lang = "dart"       -> sent.served <=> DartServes
      [] lang = "kotlin"     -> sent.served <=> KotlinServes
      [] lang = "swagger"    -> sent.served <=> SwaggerServes
      [] lang = "java" /\ disk.packet = api -> sent.served <=> JavaServes
      [] OTHER -> sent.served =>
           /\ disk.packet.method = api.method
           /\ {f.var : f \in Own(api.fields, "form")} \subseteq {f.var : f \in Own(disk.packet.fields, "form")}
ClientsTell ==
  sent.told => sent.served /\ lang # "dart" /\ (lang \in {"java", "swagger"} \/ api.response)
ClientsKnown == ClientsServe /\ ClientsTell
=============================================================================
