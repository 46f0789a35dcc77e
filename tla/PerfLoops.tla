------------------------------ MODULE PerfLoops ------------------------------
(***************************************************************************)
(* Where zctl perf says that storage is called in a loop, and how often.   *)
(* The N+1 check (collectCandidates, traceWithCallGraph) takes each call   *)
(* in the body of a loop for a candidate and its method's name for what it *)
(* calls.  The logic review counts the calls that the walk of the call     *)
(* graph records (see CallGraphWalk), each once, as static or as looped by *)
(* the lines of the loops of its file (LoopIndex).                         *)
(***************************************************************************)
EXTENDS Naturals, Sequences, FiniteSets

CONSTANTS Method,   \* what the calls may call, see the assumption
          MaxSites  \* bound: calls of the program

ASSUME LoopsAssumption ==
  /\ MaxSites \in Nat
  /\ \A m \in Method : /\ m.kind \in {"dao", "helper", "ent", "other"} /\ m.impls \in {1, 2}
                       /\ m.terminal \in BOOLEAN /\ m.executes \in BOOLEAN

VARIABLES
  sites,    \* the calls of the program, in the order they were written
  findings, \* how often the N+1 check confirms each call: by the call graph,
            \* and by names alone when no call graph could be built
  review    \* the counts of the logic review: static and looped

loopVars == <<sites, findings, review>>

(* A call: the function it is in (the other one is not called by the Logic *)
(* method), the loops whose bodies it is in, whether it is in the header   *)
(* of one more loop or in a function literal, how its receiver is written, *)
(* and whether it is an argument of append.  A literal is called on the    *)
(* spot, also by go or defer, or it is handed to a function of the project *)
(* that calls it, or to a library's.  Those handed have one signature.     *)
Literals == {"inline", "handed", "library"}
Site == [in : {"Logic", "helper", "other"}, nest : 0 .. 2, place : {"body", "range", "cond"} \cup Literals,
         recv : {"dotted", "trivial"}, appended : BOOLEAN, method : Method]

(* "Get", "List", ...: isIOVerb.  Only All, First, Save and the like are   *)
(* terminals: a dao method that ends in another one has none.              *)
IOVerb == {"Get", "List", "Find", "Count", "Create", "Update", "Delete"}
DaoImpls(name) == {m \in Method : m.kind = "dao" /\ m.name = name /\ name \in IOVerb}

(* skipTrivialCall: names of the standard library's packages, and every    *)
(* receiver of one letter.                                                 *)
Trivial(s) == s.recv = "trivial"
\* wrong: what is not in a loop is a candidate as well
TimesAnyway(s) == IF Trivial(s) \/ (s.appended /\ s.nest > 0) THEN 0 ELSE s.nest + 1
(* Each loop around a call has it as a candidate of its own.               *)
Times(s) == IF Trivial(s) \/ s.appended THEN 0 ELSE s.nest
(* traceWithCallGraph: any dao implementation of that name with a terminal *)
(* in its body confirms the candidate, whatever its receiver is.           *)
Confirmed(s) == \E m \in DaoImpls(s.method.name) : m.terminal
(* resolveCandidate, without a call graph: the methods of the name in      *)
(* internal/dao/impl, verbs or not; the interface of the receiver, which   *)
(* it looks up, does not narrow them (findImplementors).                   *)
ConfirmedByName(s) == \E m \in Method : m.kind = "dao" /\ m.name = s.method.name /\ m.terminal
Findings(held) == [i \in DOMAIN sites |-> IF sites[i] \in held THEN Times(sites[i]) ELSE 0]

(* The lines of a loop go from its keyword to its closing brace.           *)
\* wrong: the innermost loop only, by its first line
InLoopOnce(s) == s.nest > 1
InLoop(s) == s.nest > 0 \/ s.place \in {"range", "cond"}

(* The review counts the dao calls of the functions that bfsIO comes to,   *)
(* each for every implementation of the interface that it goes through.    *)
(* It does not enter a library, and takes the call of a function value for *)
(* a call of each literal of that signature, wherever it is written.       *)
CallsHelper(i) == sites[i].method.kind = "helper"
HelperCalled ==
  \E i \in DOMAIN sites : sites[i].in = "Logic" /\ CallsHelper(i) /\ sites[i].place # "library"
Dynamic ==
  \E i \in DOMAIN sites :
    /\ sites[i].place = "handed"
    /\ sites[i].in = "Logic" \/ (sites[i].in = "helper" /\ HelperCalled)
Enters(i) == Dynamic /\ sites[i].place \in {"handed", "library"}
HelperReached == HelperCalled \/ \E i \in DOMAIN sites : CallsHelper(i) /\ Enters(i)
ReachedFrom(i) ==
  \/ Enters(i)
  \/ sites[i].place # "library" /\ (sites[i].in = "Logic" \/ (sites[i].in = "helper" /\ HelperReached))
IsDao(i) == sites[i].method.kind = "dao" /\ sites[i].method.name \in IOVerb
Counted(i) == IsDao(i) /\ ReachedFrom(i)
Nodes(I) == Cardinality({n \in I \X {1, 2} : n[2] <= sites[n[1]].method.impls})

Reviewed ==
  LET counted == {i \in DOMAIN sites : Counted(i)}
      looped == {i \in counted : InLoop(sites[i])}
  IN [static |-> Nodes(counted \ looped), looped |-> Nodes(looped)]

NoFindings == [graph |-> <<>>, names |-> <<>>]
LoopsInit == sites = <<>> /\ findings = NoFindings /\ review = <<>>

WriteCall ==
  /\ Len(sites) < MaxSites /\ review = <<>>
  /\ \E s \in Site :
       /\ s.place \in {"range"} \cup Literals => s.nest < 2
       /\ s.appended => s.nest > 0 /\ s.place = "body"
       /\ s.appended \/ Trivial(s) => s.nest < 2 /\ s.place = "body"   \* bound: of those, few forms
       /\ s.in = "helper" => s.method.kind # "helper"
       /\ s.in = "other" => s.place = "handed" /\ s.method.kind = "dao" /\ s.nest = 0
       /\ sites' = Append(sites, s)
  /\ UNCHANGED <<findings, review>>

(* RunN1, then RunLogicReview.                                             *)
Check ==
  /\ sites # <<>> /\ review = <<>>
  /\ LET written == {sites[i] : i \in DOMAIN sites}
     IN findings' = [graph |-> Findings({s \in written : Confirmed(s)}),
                     names |-> Findings({s \in written : ConfirmedByName(s)})]
  /\ review' = Reviewed
  /\ UNCHANGED sites

LoopsNext == WriteCall \/ Check
LoopsSpec == LoopsInit /\ [][LoopsNext]_loopVars
-----------------------------------------------------------------------------
LoopsTypeOK ==
  /\ sites \in Seq(Site) /\ Len(sites) <= MaxSites
  /\ findings = NoFindings \/ findings \in [{"graph", "names"} -> [DOMAIN sites -> 0 .. 2]]

(* What a call does when it runs: a statement for each pass of the loops.  *)
Repeats(s) == s.nest > 0 \/ s.place = "cond"
Runs(m) == m.executes

(* A statement of a loop that the N+1 check does not confirm is one of     *)
(* these; "these can never wrap a DB call" is not true of one letter.  And *)
(* a project without a call graph has the same findings, with those of the *)
(* methods that are no verbs.                                              *)
MissedByAll(s) ==
  \/ Trivial(s)                             \* d.GetByID(ctx, id) in a dao method
  \/ s.appended                             \* append(out, dao.Get(ctx, id))
  \/ s.place = "cond" /\ s.nest = 0         \* for dao.Count(ctx) > 0 {
  \/ s.method.kind = "ent"                  \* a terminal in the loop itself
  \/ ~ ConfirmedByName(s)                   \* no terminal of those it knows
MissedByGraph(s) == s.method.name \notin IOVerb
FalseBecause(s) ==
  \/ s.method.kind # "dao"                  \* a method of the same name
  \/ ~Runs(s.method)                        \* another implementation, or a terminal's name
  \/ s.place \in {"range"} \cup Literals
NPlus1Known ==
  findings # NoFindings =>
    \A i \in DOMAIN sites :
      LET s == sites[i] IN
        /\ Repeats(s) /\ Runs(s.method) /\ findings.names[i] = 0 => MissedByAll(s)
        /\ findings.names[i] > 0 /\ ~(Repeats(s) /\ Runs(s.method)) => FalseBecause(s)
        /\ findings.graph[i] = IF MissedByGraph(s) THEN 0 ELSE findings.names[i]

(* The logic review is right about the dao calls that a Logic method and   *)
(* its helpers make, but for these: each implementation of an interface    *)
(* counts, a helper counts once and its calls as static, however often and *)
(* from whatever loop it is called, the lines of a loop hold more than     *)
(* what it repeats, what is in a literal handed to a library counts only   *)
(* when another literal is handed to a function of the project, and then   *)
(* the literals of all other functions count as well.                      *)
HelperCalls == {i \in DOMAIN sites : sites[i].in = "Logic" /\ CallsHelper(i)}
Led(i) == sites[i].in = "Logic" \/ (sites[i].in = "helper" /\ HelperCalls # {})
Counts == {i \in DOMAIN sites : IsDao(i) /\ Led(i)}
HandedOn(place) == \E i \in DOMAIN sites : Led(i) /\ sites[i].place = place
CountedWrong ==
  \/ \E i \in Counts : sites[i].method.impls > 1
  \/ Cardinality(HelperCalls) > 1 /\ \E i \in Counts : sites[i].in = "helper"
  \/ HandedOn("library")
  \/ HandedOn("handed") /\ \E i \in DOMAIN sites : sites[i].place \in {"handed", "library"} /\ ~Led(i)
LoopedWrong ==
  \/ CountedWrong
  \/ \E i \in Counts : sites[i].place \in {"range"} \cup Literals
  \/ \E i \in HelperCalls : Repeats(sites[i])
CountsKnown ==
  review # <<>> =>
    /\ ~CountedWrong => review.static + review.looped = Cardinality(Counts)
    /\ ~LoopedWrong =>
         review.looped = Cardinality({i \in Counts :
           Repeats(sites[i]) \/ (sites[i].in = "helper" /\ \E j \in HelperCalls : Repeats(sites[j]))})
=============================================================================
