---------------------------- MODULE ApiGoProject ----------------------------
(***************************************************************************)
(* zctl api go (api/gogen): a project made from an api file and made again *)
(* when the file has changed.  Types and routes are removed and written    *)
(* anew; all the other files are left alone when they exist.  A file is    *)
(* created empty and written in a second step, and a run that ends in      *)
(* between leaves it empty.  The service keeps its name.                   *)
(***************************************************************************)
EXTENDS Naturals, FiniteSets, SequencesExt

CONSTANTS
  Route,        \* handlers of the api file
  Type,         \* types that bodies name
  Servers,      \* what an @server block has: sets of "middleware" and "jwt"
  MaxApiEdits,  \* bound: edits of the api file, and deletions of Go files
  MaxApiKills   \* bound: runs that end between two steps

ASSUME ApiGoAssumption ==
  /\ {} \in Servers /\ Servers \subseteq SUBSET {"middleware", "jwt"}
  /\ MaxApiEdits \in Nat /\ MaxApiKills \in Nat

Groups == {"default", "g"}
Paths == Groups \X Route        \* of a handler and its logic
TypeFiles == Groups             \* types.go, g.go
NoBody == "none"
RouteBodies == {NoBody} \cup Type
Missing == [is |-> "absent"]
Empty == [is |-> "empty"]
Written(c) == [is |-> "written", content |-> c]
Steps == <<"etc", "config", "main", "svc", "types", "routes", "handlers", "logic", "middleware">>
Undefined == [group |-> "default", request |-> NoBody, response |-> NoBody, server |-> {},
              defined |-> FALSE]

VARIABLES
  api,        \* a route: [group, request, response, server, defined]
  etcYaml, mainGo,
  configGo,   \* config.go: whether it has the field that the jwt names
  svc,        \* the service context: whether it has the middleware
  typeGo,     \* files of types: the types in each
  routesGo,   \* routes.go: [paths, guarded, secured]
  handlerGo, logicGo,   \* by path: the bodies of the route
  middlewareGo,
  run,        \* [step, grouped]: where the run is, and --type-group
  causes,     \* what was done that a run does not make up for
  apiEdits, apiKills

apiGoVars == <<api, etcYaml, configGo, mainGo, svc, typeGo, routesGo, handlerGo, logicGo,
               middlewareGo, run, causes, apiEdits, apiKills>>
startFiles == <<etcYaml, configGo, mainGo>>
files == <<startFiles, svc, typeGo, routesGo, handlerGo, logicGo, middlewareGo>>

Ended == [step |-> "ended", grouped |-> FALSE]

ApiGoInit ==
  /\ api = [r \in Route |-> Undefined]
  /\ etcYaml = Missing /\ configGo = Missing /\ mainGo = Missing
  /\ svc = Missing /\ routesGo = Missing /\ middlewareGo = Missing
  /\ typeGo = [f \in TypeFiles |-> Missing]
  /\ handlerGo = [p \in Paths |-> Missing] /\ logicGo = [p \in Paths |-> Missing]
  /\ run = Ended /\ causes = {} /\ apiEdits = 0 /\ apiKills = 0

Defined == {r \in Route : api[r].defined}
Path(r) == <<api[r].group, r>>
Guarded == \E r \in Defined : "middleware" \in api[r].server
Secured == \E r \in Defined : "jwt" \in api[r].server
Used(r) == {api[r].request, api[r].response} \ {NoBody}
UsedIn(t) == {api[r].group : r \in {q \in Defined : t \in Used(q)}}
Named == UNION {Used(r) : r \in Defined}

(* genTypesWithGroup: with the group that uses it alone, else types.go.    *)
FileOf(t) == IF run.grouped /\ UsedIn(t) = {"g"} THEN "g" ELSE "default"

(* genFile after MaybeCreateFile: a file that exists is left alone.        *)
GeneratedFile(file, c) == IF file = Missing THEN Written(c) ELSE file

At(step) == run.step = step
NextStep(step) == run' = [run EXCEPT !.step = step]

StartRun(grouped) ==
  /\ At("ended") \/ At("killed") \/ At("done")
  /\ run' = [step |-> "etc", grouped |-> grouped]
  /\ UNCHANGED <<api, files, causes, apiEdits, apiKills>>

projectFiles == <<svc, typeGo, routesGo, handlerGo, logicGo, middlewareGo>>
GenEtc ==
  /\ At("etc")
  /\ etcYaml' = GeneratedFile(etcYaml, "text")
  /\ NextStep("config")
  /\ UNCHANGED <<api, configGo, mainGo, projectFiles, causes, apiEdits, apiKills>>
(* The config has a field for each jwt of the api file, when it is made.   *)
GenConfig ==
  /\ At("config")
  /\ configGo' = GeneratedFile(configGo, Secured)
  /\ causes' = IF configGo # Missing /\ configGo # Empty /\ Secured /\ ~configGo.content
               THEN causes \cup {"jwtAdded"} ELSE causes
  /\ NextStep("main")
  /\ UNCHANGED <<api, etcYaml, mainGo, projectFiles, apiEdits, apiKills>>
GenMain ==
  /\ At("main")
  /\ mainGo' = GeneratedFile(mainGo, "text")
  /\ NextStep("svc")
  /\ UNCHANGED <<api, etcYaml, configGo, projectFiles, causes, apiEdits, apiKills>>

GenServiceContext ==
  /\ At("svc")
  /\ svc' = GeneratedFile(svc, Guarded)
  /\ causes' = IF svc # Missing /\ svc # Empty /\ Guarded /\ ~svc.content
               THEN causes \cup {"middlewareAdded"} ELSE causes
  /\ NextStep("types")
  /\ UNCHANGED <<api, startFiles, typeGo, routesGo, handlerGo, logicGo, middlewareGo, apiEdits, apiKills>>

(* writeTypes: without types there is nothing to write, or to remove.      *)
TypesOfSharing(f) ==   \* wrong: a type that groups share goes to the file of each
  {t \in Named : FileOf(t) = f \/ (run.grouped /\ f \in UsedIn(t))}
TypesOf(f) == {t \in Named : FileOf(t) = f}
DeclaredIn(f) == IF typeGo[f] \in {Missing, Empty} THEN {} ELSE typeGo[f].content
NotRewritten == {f \in TypeFiles : TypesOf(f) = {} /\ typeGo[f] # Missing}
(* What else declares types when the file is left as it is.                *)
DeclaredBeside(f) == Named \cup UNION {DeclaredIn(g) : g \in NotRewritten \ {f}}
GenTypes ==
  /\ At("types")
  /\ typeGo' = [f \in TypeFiles |-> IF TypesOf(f) = {} THEN typeGo[f] ELSE Written(TypesOf(f))]
  /\ causes' = IF \E f \in NotRewritten :
                    typeGo[f] = Empty \/ DeclaredIn(f) \cap DeclaredBeside(f) # {}
               THEN causes \cup {"typesMoved"} ELSE causes
  /\ NextStep("routes")
  /\ UNCHANGED <<api, startFiles, svc, routesGo, handlerGo, logicGo, middlewareGo, apiEdits, apiKills>>

GenRoutes ==
  /\ At("routes")
  /\ routesGo' = Written([paths |-> {Path(r) : r \in Defined}, guarded |-> Guarded,
                          secured |-> Secured])
  /\ NextStep("handlers")
  /\ UNCHANGED <<api, startFiles, svc, typeGo, handlerGo, logicGo, middlewareGo, causes, apiEdits,
                 apiKills>>

BodiesOf(r) == [request |-> api[r].request, response |-> api[r].response]
Completed(tree) ==
  [p \in Paths |-> IF p[2] \in Defined /\ Path(p[2]) = p THEN GeneratedFile(tree[p], BodiesOf(p[2]))
                   ELSE tree[p]]
GenHandlers ==
  /\ At("handlers")
  /\ handlerGo' = Completed(handlerGo)
  /\ NextStep("logic")
  /\ UNCHANGED <<api, startFiles, svc, typeGo, routesGo, logicGo, middlewareGo, causes, apiEdits,
                 apiKills>>
GenLogic ==
  /\ At("logic")
  /\ logicGo' = Completed(logicGo)
  /\ NextStep("middleware")
  /\ UNCHANGED <<api, startFiles, svc, typeGo, routesGo, handlerGo, middlewareGo, causes, apiEdits,
                 apiKills>>
GenMiddleware ==
  /\ At("middleware")
  /\ middlewareGo' = IF Guarded THEN GeneratedFile(middlewareGo, "code") ELSE middlewareGo
  /\ NextStep("done")
  /\ UNCHANGED <<api, startFiles, svc, typeGo, routesGo, handlerGo, logicGo, causes, apiEdits,
                 apiKills>>

(* The process ends, or logx.Must ends it: some files of a step have been  *)
(* written, and one more may have been removed or created.                 *)
TornFiles == {f \in TypeFiles : TypesOf(f) # {}}
TornTypes ==
  \E done \in SUBSET TornFiles, torn \in SUBSET TornFiles, left \in {Missing, Empty} :
    /\ Cardinality(torn) <= 1
    /\ typeGo' = [f \in TypeFiles |-> IF f \in torn THEN left
                                      ELSE IF f \in done THEN Written(TypesOf(f)) ELSE typeGo[f]]
TornTrees(tree) ==
  {[p \in Paths |-> IF tree[p] # Missing \/ p \notin {Path(r) : r \in Defined} THEN tree[p]
                    ELSE IF p[2] \in torn THEN Empty
                    ELSE IF p[2] \in done THEN Written(BodiesOf(p[2])) ELSE Missing] :
     done \in SUBSET Defined, torn \in {t \in SUBSET Defined : Cardinality(t) <= 1}}
TornFile(file) == {file, IF file = Missing THEN Empty ELSE file}
Killed ==
  /\ run.step \in ToSet(Steps) /\ apiKills < MaxApiKills
  /\ apiKills' = apiKills + 1
  /\ IF At("etc") THEN etcYaml' \in TornFile(etcYaml) ELSE UNCHANGED etcYaml
  /\ IF At("config") THEN configGo' \in TornFile(configGo) ELSE UNCHANGED configGo
  /\ IF At("main") THEN mainGo' \in TornFile(mainGo) ELSE UNCHANGED mainGo
  /\ IF At("svc") THEN svc' \in TornFile(svc) ELSE UNCHANGED svc
  /\ IF At("types") THEN TornTypes ELSE UNCHANGED typeGo
  /\ IF At("routes") THEN routesGo' \in {routesGo, Missing, Empty} ELSE UNCHANGED routesGo
  /\ IF At("handlers") THEN handlerGo' \in TornTrees(handlerGo) ELSE UNCHANGED handlerGo
  /\ IF At("logic") THEN logicGo' \in TornTrees(logicGo) ELSE UNCHANGED logicGo
  /\ IF At("middleware") /\ Guarded THEN middlewareGo' \in TornFile(middlewareGo)
     ELSE UNCHANGED middlewareGo
  /\ NextStep("killed")
  /\ causes' = IF \/ Empty \in {etcYaml', configGo', mainGo', svc', middlewareGo'}
                  \/ \E p \in Paths : Empty \in {handlerGo'[p], logicGo'[p]}
               THEN causes \cup {"torn"} ELSE causes
  /\ UNCHANGED <<api, apiEdits>>

(* The developer adds a route, changes or removes one, or deletes files.   *)
BetweenRuns == (At("ended") \/ At("done") \/ At("killed")) /\ apiEdits < MaxApiEdits
AddRoute(r, group, request, response, server) ==
  /\ BetweenRuns /\ ~api[r].defined
  /\ api' = [api EXCEPT ![r] = [group |-> group, request |-> request, response |-> response,
                                server |-> server, defined |-> TRUE]]
  /\ apiEdits' = apiEdits + 1 /\ run' = Ended
  /\ UNCHANGED <<files, causes, apiKills>>
ChangeRoute(r, request) ==
  /\ BetweenRuns /\ api[r].defined /\ request # api[r].request
  /\ api' = [api EXCEPT ![r].request = request]
  /\ causes' = IF handlerGo[Path(r)] = Missing /\ logicGo[Path(r)] = Missing THEN causes
               ELSE causes \cup {"routeChanged"}
  /\ apiEdits' = apiEdits + 1 /\ run' = Ended
  /\ UNCHANGED <<files, apiKills>>
DeleteGenerated(p) ==
  /\ BetweenRuns /\ handlerGo[p] # Missing /\ logicGo[p] # Missing
  /\ handlerGo' = [handlerGo EXCEPT ![p] = Missing] /\ logicGo' = [logicGo EXCEPT ![p] = Missing]
  /\ apiEdits' = apiEdits + 1 /\ run' = Ended
  /\ UNCHANGED <<api, startFiles, svc, typeGo, routesGo, middlewareGo, causes, apiKills>>

ApiGoNext ==
  \/ \E grouped \in BOOLEAN : StartRun(grouped)
  \/ GenEtc \/ GenConfig \/ GenMain
  \/ GenServiceContext \/ GenTypes \/ GenRoutes \/ GenHandlers \/ GenLogic \/ GenMiddleware
  \/ Killed
  \/ BetweenRuns /\ \E r \in Route, q \in RouteBodies :
       \/ ChangeRoute(r, q)
       \/ \E g \in Groups, p \in RouteBodies, s \in Servers : AddRoute(r, g, q, p, s)
  \/ \E p \in Paths : DeleteGenerated(p)

ApiGoSpec == ApiGoInit /\ [][ApiGoNext]_apiGoVars
-----------------------------------------------------------------------------
File(S) == {Missing, Empty} \cup {Written(c) : c \in S}
ApiGoTypeOK ==
  /\ etcYaml \in File({"text"}) /\ configGo \in File(BOOLEAN) /\ mainGo \in File({"text"})
  /\ svc \in File(BOOLEAN) /\ middlewareGo \in File({"code"})
  /\ typeGo \in [TypeFiles -> File(SUBSET Type)]
  /\ handlerGo \in [Paths -> File([request : RouteBodies, response : RouteBodies])]
  /\ logicGo \in [Paths -> File([request : RouteBodies, response : RouteBodies])]
  /\ causes \subseteq {"middlewareAdded", "jwtAdded", "typesMoved", "torn", "routeChanged"}
  /\ apiEdits \in 0..MaxApiEdits /\ apiKills \in 0..MaxApiKills

(* The Go compiler takes the project: what routes.go names is there, every *)
(* handler calls its logic as it is declared, their types are declared,    *)
(* once, and no file is empty.  There is a configuration to start from.    *)
Fits(p) ==
  \/ handlerGo[p] = Missing /\ logicGo[p] = Missing
  \/ /\ handlerGo[p] = logicGo[p]
     /\ handlerGo[p] # Empty
     /\ {handlerGo[p].content.request, handlerGo[p].content.response} \ {NoBody}
          \subseteq UNION {DeclaredIn(f) : f \in TypeFiles}
ProjectCompiles ==
  /\ {etcYaml, configGo, mainGo} \cap {Missing, Empty} = {}
  /\ svc # Empty /\ routesGo # Empty /\ middlewareGo # Empty
  /\ \A f \in TypeFiles : typeGo[f] # Empty
  /\ \A p \in Paths : Fits(p)
  /\ \A p \in routesGo.content.paths : handlerGo[p] # Missing
  /\ routesGo.content.secured => configGo.content
  /\ routesGo.content.guarded => svc.content /\ middlewareGo # Missing
  /\ DeclaredIn("default") \cap DeclaredIn("g") = {}

(* A run that ends leaves a project that compiles, whatever runs were      *)
(* interrupted before it, whatever routes were added and whichever handler *)
(* was deleted together with its logic, unless a run was stopped between   *)
(* the creation of a file and its write (no later run writes it), a route  *)
(* that has its files was changed, the first middleware came after the     *)
(* service context, the first jwt after the config, or types moved out of  *)
(* a file that is not written any more (also when the run that moved them  *)
(* was stopped between the two files, and no route names a type since).    *)
AddingKeepsCompiling == At("done") /\ causes = {} => ProjectCompiles
=============================================================================
