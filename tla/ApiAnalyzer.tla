---------------------------- MODULE ApiAnalyzer -----------------------------
(***************************************************************************)
(* From the statements of an api file and its imports, already merged, to  *)
(* the spec that every generator reads (pkg/parser/api/parser: SelfCheck   *)
(* in api.go, analyzer.go).  The checks run one after another over all the *)
(* statements; a file they accept is generated from without more checks.   *)
(***************************************************************************)
EXTENDS Naturals, Sequences, SequencesExt

CONSTANTS
  TypeName,        \* names of types; some are never declared
  BodyType,        \* those that bodies of routes name
  ServiceName,     \* of a service block
  AtServer,        \* @server blocks: [prefix, group, sse]
  RoutePath,       \* sequences of path segments
  Handler,
  MaxDeclarations, \* bound: types and services of the file and its imports
  MaxServices      \* bound: services among them

ASSUME ApiAnalyzerAssumption ==
  /\ \A s \in AtServer : s.prefix \in Seq(STRING) /\ s.sse \in BOOLEAN
  /\ RoutePath \subseteq Seq(STRING)
  /\ BodyType \subseteq TypeName /\ TypeName \cap {"base", "none"} = {}
  /\ MaxDeclarations \in Nat /\ MaxServices \in Nat

VARIABLES
  types,       \* declared types: [name, refers, place], refers: by a field
  services,    \* service blocks, of one route or none: [service, at, route, place]
  spec,        \* what the analyzer made: [types, groups, service]
  verdict      \* "writing", "checked", "refused", "accepted"

analyzerVars == <<types, services, spec, verdict>>

Base == "base"      \* string, int, ..
Unset == "none"
NoRoute == <<>>
(* A route: [path, handler, request, response, list]; the request may be a *)
(* slice.  A place stands for what the scanner keeps of it: line, column   *)
(* and the last element of the name of the file, so that two declarations  *)
(* of files of one name in two directories may be at one place.  Only      *)
(* whether two places are equal is looked at: they are numbered as they    *)
(* come up.  Handler and route are where their block is.                   *)
Bodied == BodyType \cup {Unset}

AnalyzerInit ==
  /\ types = <<>> /\ services = <<>>
  /\ spec = [types |-> <<>>, groups |-> <<>>, service |-> Unset]
  /\ verdict = "writing"

(* The order of the declarations does not matter to what follows.          *)
DeclareType ==
  /\ verdict = "writing" /\ services = <<>> /\ Len(types) < MaxDeclarations
  /\ \E n \in TypeName, refers \in TypeName \cup {Base}, place \in 1 .. Len(types) + 1 :
       types' = Append(types, [name |-> n, refers |-> refers, place |-> place])
  /\ UNCHANGED <<services, spec, verdict>>
Routes ==
  {r \in [path : RoutePath, handler : Handler, request : Bodied, response : Bodied,
          list : BOOLEAN] : r.list => r.request # Unset}
DeclareService ==
  /\ verdict = "writing"
  /\ Len(services) < MaxServices /\ Len(types) + Len(services) < MaxDeclarations
  /\ \E s \in ServiceName, at \in AtServer, route \in {NoRoute} \cup {<<r>> : r \in Routes},
        place \in 1 .. Len(services) + 1 :
       services' = Append(services, [service |-> s, at |-> at, route |-> route, place |-> place])
  /\ UNCHANGED <<types, spec, verdict>>

(* filterBuilder.check: no two statements have the same text, unless they  *)
(* are at the same place, as one statement that is met twice would be.     *)
Distinct(texts, made) ==
  \A i, j \in DOMAIN texts : i < j => texts[i] # texts[j] \/ made[i].place = made[j].place
(* The blocks with a route.                                                *)
Routed == {i \in DOMAIN services : services[i].route # NoRoute}

(* checkTypeStmt                                                           *)
TypesOnce == Distinct([i \in DOMAIN types |-> types[i].name], types)
(* checkServiceStmt: a handler in its group, a route as it is written,     *)
(* with its bodies, after the prefix.  The names of the services are       *)
(* looked up under themselves, so that they never differ.                  *)
HandlersOncePerService ==  \* wrong: a group may be in several services
  Distinct([i \in Routed |->
              <<services[i].service, services[i].at, services[i].route[1].handler>>], services)
HandlersOnce ==
  Distinct([i \in Routed |-> <<services[i].at.group, services[i].route[1].handler>>],
           services)
RoutesOnce ==
  Distinct([i \in Routed |->
              LET r == services[i].route[1]
              IN <<services[i].at.prefix, r.path, r.request, r.response, r.list>>],
           services)
(* checkTypeDeclareContext: types that fields refer to.  Bodies of routes  *)
(* are looked up later.                                                    *)
Declared(n) == n \in {Base, Unset} \/ \E i \in DOMAIN types : types[i].name = n
FieldsResolve == \A i \in DOMAIN types : Declared(types[i].refers)

SelfCheck ==
  /\ verdict = "writing"
  /\ verdict' = IF TypesOnce /\ HandlersOnce /\ RoutesOnce /\ FieldsResolve
                THEN "checked" ELSE "refused"
  /\ UNCHANGED <<types, services, spec>>

(* fillTypes: a field that is a struct gets the struct, as it is before    *)
(* its own fields get theirs.                                              *)
Filled(t) ==
  [name |-> t.name,
   member |-> IF t.refers = Base THEN <<>>
              ELSE <<CHOOSE d \in ToSet(types) : d.name = t.refers>>]
(* fillService: bodies are declared, a request is no slice, a stream has a *)
(* response, and the blocks that have routes have one name.                *)
RouteFills(s) ==
  LET r == s.route[1]
  IN /\ Declared(r.request) /\ Declared(r.response)
     /\ ~r.list
     /\ s.at.sse => r.response # Unset
OneName == \A i, j \in Routed : services[i].service = services[j].service

Convert2Spec ==
  /\ verdict = "checked"
  /\ IF OneName /\ \A i \in Routed : RouteFills(services[i])
     THEN /\ verdict' = "accepted"
          /\ spec' = [types |-> [i \in DOMAIN types |-> Filled(types[i])],
                      groups |-> [i \in DOMAIN services |->
                                    [at |-> services[i].at, route |-> services[i].route]],
                      service |-> IF Routed = {} THEN Unset
                                  ELSE (CHOOSE s \in ToSet(services) : s.route # NoRoute).service]
     ELSE verdict' = "refused" /\ UNCHANGED spec
  /\ UNCHANGED <<types, services>>

AnalyzerNext == DeclareType \/ DeclareService \/ SelfCheck \/ Convert2Spec

AnalyzerSpec == AnalyzerInit /\ [][AnalyzerNext]_analyzerVars
-----------------------------------------------------------------------------
AnalyzerTypeOK ==
  /\ \A i \in DOMAIN types : types[i].name \in TypeName
  /\ \A i \in DOMAIN services : services[i].service \in ServiceName
  /\ Len(types) + Len(services) <= MaxDeclarations
  /\ verdict \in {"writing", "checked", "refused", "accepted"}

FullPath(s) == s.at.prefix \o s.route[1].path

(* Two declarations at one place of files that have one name: the second   *)
(* is not told from the first.                                             *)
Overlaid(made, i, j) == made[i].place = made[j].place

(* Every generator may rely on what the checks accept.  Whatever a field   *)
(* or a body names is declared, once; the handlers of a group have names   *)
(* of their own (they become files of one directory); there is one         *)
(* service; and two routes serve one path only when their bodies differ or *)
(* the path is cut differently between prefix and route, which the text    *)
(* of a route does not show.  Only declarations that are at one line and   *)
(* column of two files of the same name in different directories may be    *)
(* repeated: the second is taken for the first met again, and everything   *)
(* is generated twice.                                                     *)
SpecWellFormed ==
  verdict = "accepted" =>
    /\ \A i, j \in DOMAIN spec.types :
         spec.types[i].name = spec.types[j].name => i = j \/ Overlaid(types, i, j)
    /\ \A i \in DOMAIN types : types[i].refers # Base =>
         \E j \in DOMAIN spec.types : spec.types[j].name = types[i].refers
    /\ \A i, j \in Routed : i # j =>
         /\ services[i].service = services[j].service
         /\ services[i].at.group = services[j].at.group =>
              \/ services[i].route[1].handler # services[j].route[1].handler
              \/ Overlaid(services, i, j)
         /\ FullPath(services[i]) = FullPath(services[j]) =>
              \/ Overlaid(services, i, j)
              \/ services[i].at.prefix # services[j].at.prefix
              \/ services[i].route[1].request # services[j].route[1].request
              \/ services[i].route[1].response # services[j].route[1].response
    /\ \A i \in Routed :
         {services[i].route[1].request, services[i].route[1].response} \ {Base, Unset}
           \subseteq {types[j].name : j \in DOMAIN types}
=============================================================================
