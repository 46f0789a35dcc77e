----------------------------- MODULE EntPipeline -----------------------------
(***************************************************************************)
(* `zctl rpc ent` on a project that lives on: runs over one schema or all, *)
(* with or without --overwrite, that finish, fail or are killed, and a     *)
(* developer who changes schemas, daos and protos in between.  A run       *)
(*   A  writes seven Go files for each schema,                             *)
(*      patches ServiceContext,                                            *)
(*   B  writes the desc protos of the schemas that are new, after a        *)
(*      snapshot that a failure rolls back to,                             *)
(*      and writes the error codes and the locale files (Bizcode).         *)
(* A step writes one file.  What a Go file says is the set of optional dao *)
(* methods (UpdateBy<Unique>, ones written by hand) it declares or calls.  *)
(***************************************************************************)
EXTENDS Bizcode, Sequences

CONSTANTS Method,       \* dao methods beyond those that every model has
          MaxEvents,    \* bound: edits and interruptions, for model checking
          Faults        \* which of FaultKinds may happen

(* io: a file cannot be written.  kill: the run is killed.                 *)
FaultKinds == {"io", "kill"}

Missing == {"missing"}
TornGo  == {Torn}       \* a Go file that ends early
Kinds   == <<"dao", "impl", "daoMock", "hook", "repo", "repoImpl", "repoMock">>
Kind    == {Kinds[i] : i \in DOMAIN Kinds}

ASSUME PipelineAssumption ==
  /\ {"missing", Torn} \cap Method = {}
  /\ MaxEvents \in Nat
  /\ Cardinality(Model) + MaxEvents <= MaxSegment
  /\ Faults \subseteq FaultKinds

VARIABLES
  want,      \* want[m]: what m's ent schema asks for, Missing if there is none
  file,      \* file[m][k]: what m's Go file of kind k says
  desc,      \* desc[m]: who wrote desc/<group>/<m>.proto
  wired,     \* the models with a whole dao that ServiceContext constructs
  pc,        \* the phase of the run
  todo,      \* phase A: the schemas left
  next,      \* the Kinds of the current schema from here on are left
  overwrite, \* --overwrite
  done,      \* the schemas phase A is through with
  fresh,     \* those of them that had no dao before
  before,    \* the tracker's snapshot of desc/
  plan,      \* descPlan: the protos to write
  writing,   \* the one of them that commit found missing and is about to write
  result,    \* what the last run reported, until the developer goes on
  events,    \* edits of the developer and interruptions so far
  history    \* what the developer and interrupted runs did to the project

runVars  == <<pc, todo, next, overwrite, done, fresh, before, plan, writing, result>>
diskVars == <<file, desc, wired>>
vars     == <<want, diskVars, runVars, events, history, bizVars>>

Whole(text) == text \notin {Missing, TornGo}

(* cut: a run over these ended before their protos were due.  touched:     *)
(* their daos are written by hand.  noproto: the developer deleted their   *)
(* proto.  undone: a rollback removed the developer's proto.  dropped:     *)
(* they lost their segment.  late: the developer wrote their proto after   *)
(* commit had looked for it.                                               *)
History == [cut : SUBSET Model, touched : SUBSET Model, noproto : SUBSET Model,
            undone : SUBSET Model, dropped : SUBSET Model, late : SUBSET Model]

PC == {"idle", "dao", "infra", "snapshot", "plan", "commit", "i18n"}

Declared == {m \in Model : want[m] # Missing}

Init ==
  /\ want \in [Model -> {Missing, {}}]
  /\ Declared # {}
  /\ file = [m \in Model |-> [k \in Kind |-> Missing]]
  /\ desc = [m \in Model |-> "none"]
  /\ wired = {}
  /\ pc = "idle"
  /\ todo = {}
  /\ next = 1
  /\ overwrite = FALSE
  /\ done = {}
  /\ fresh = {}
  /\ before = {}
  /\ plan = {}
  /\ writing = {}
  /\ result = "none"
  /\ events = 0
  /\ history = [cut |-> {}, touched |-> {}, noproto |-> {},
                undone |-> {}, dropped |-> {}, late |-> {}]
  /\ BizInit
-----------------------------------------------------------------------------
(* A run ends: what it planned is forgotten, and what it was about unless  *)
(* it reports success.                                                     *)
End(how) ==
  /\ pc' = "idle"
  /\ result' = how
  /\ done' = IF how = "ok" THEN done ELSE {}
  /\ overwrite' = (how = "ok" /\ overwrite)
  /\ todo' = {}
  /\ next' = 1
  /\ fresh' = {}
  /\ before' = {}
  /\ plan' = {}
  /\ writing' = {}

Event == events < MaxEvents /\ events' = events + 1

(* Phase A takes the schemas in their order.                               *)
Current == CHOOSE m \in todo : \A n \in todo : Rank[m] <= Rank[n]

(* It ends with the protos of its new schemas not written.                 *)
CutShort ==
  /\ Event
  /\ End("error")
  /\ history' = [history EXCEPT
       !.cut = @ \cup fresh \cup {m \in todo : m = Current},
       !.undone = @ \cup {m \in Model : desc[m] = "user" /\ desc'[m] = "none"}]
  /\ UNCHANGED want

Stops == Faults # {}
Killed == "kill" \in Faults

(* --model all or --model m.  entc refuses a project with no schema.       *)
Start(schemas, o) ==
  /\ pc = "idle"
  /\ pc' = "dao"
  /\ todo' = schemas
  /\ overwrite' = o
  /\ done' = {}
  /\ result' = "none"
  /\ UNCHANGED <<want, diskVars, next, fresh, before, plan, writing, events, history,
                 bizVars>>
-----------------------------------------------------------------------------
(* Phase A, generateSchemaPhaseA.                                          *)

(* buildPlanFromDao: the dao methods whose implementation writes, as the   *)
(* two dao files on disk have them.                                        *)
RepoMethods(m) == IF Whole(file[m]["impl"]) THEN file[m]["dao"] \cap file[m]["impl"] ELSE {}

(* A dao interface that cannot be parsed has the methods every dao has.    *)
MockMethods(m) == IF Whole(file[m]["dao"]) THEN file[m]["dao"] ELSE {}

Rendered(m, k) ==
  CASE k \in {"dao", "impl"} -> want[m]
    [] k = "daoMock" -> MockMethods(m)
    [] k = "hook" -> {}
    [] OTHER -> RepoMethods(m)

(* Mocks are always written, hooks never twice.                            *)
KeepsEvenSo(m, k) ==           \* wrong: --overwrite makes no difference
  file[m][k] # Missing /\ k \notin {"daoMock", "repoMock"}
Keeps(m, k) ==
  /\ file[m][k] # Missing
  /\ k = "hook" \/ (~overwrite /\ k \notin {"daoMock", "repoMock"})

(* GenRepoForSchema stops at a dao interface it cannot parse.              *)
Rejected(m, k) == k = "repo" /\ file[m]["dao"] = TornGo

WriteGo ==
  /\ pc = "dao"
  /\ LET m == Current
         k == Kinds[next]
     IN /\ ~Rejected(m, k)
        /\ file' = [file EXCEPT ![m][k] = IF Keeps(m, k) THEN @ ELSE Rendered(m, k)]
        /\ fresh' = fresh \cup {n \in {m} : k = "dao" /\ file[n][k] = Missing}
        /\ IF next < Len(Kinds)
           THEN next' = next + 1 /\ UNCHANGED <<todo, done, pc>>
           ELSE /\ next' = 1
                /\ todo' = todo \ {m}
                /\ done' = done \cup {m}
                /\ pc' = IF todo = {m} THEN "infra" ELSE "dao"
  /\ UNCHANGED <<want, desc, wired, overwrite, before, plan, writing,
                 result, events, history, bizVars>>

(* The file cannot be read or written, or the run is killed at it.         *)
StopGo ==
  /\ pc = "dao"
  /\ LET m == Current
         k == Kinds[next]
     IN \/ (Stops \/ Rejected(m, k)) /\ UNCHANGED file
        \/ /\ Stops
           /\ ~Keeps(m, k) /\ ~Rejected(m, k)
           /\ file' = [file EXCEPT ![m][k] = TornGo]
  /\ UNCHANGED <<desc, wired, bizVars>>
  /\ CutShort

(* EnsureEntInfra: ServiceContext constructs every dao whose interface is  *)
(* declared, and its repo.  Whether a torn dao is among them depends on    *)
(* where it ends; it is left out, for nothing is claimed of it.  A         *)
(* ServiceContext that lost its sentinels is left alone.  An error is a    *)
(* warning.                                                                *)
WithSchema == Declared         \* wrong: constructs what is not there yet
WithInterface == {m \in Model : Whole(file[m]["dao"])}

EnsureEntInfra ==
  /\ pc = "infra"
  /\ pc' = "snapshot"
  /\ \/ /\ wired' = IF wired = TornGo THEN wired ELSE WithInterface
        /\ UNCHANGED <<result, events>>
     \/ /\ "io" \in Faults
        /\ Event
        /\ wired' \in {wired, TornGo}
        /\ result' = "warned"
  /\ UNCHANGED <<want, file, desc, todo, next, overwrite, done, fresh, before,
                 plan, writing, history, bizVars>>

StopInfra ==
  /\ Killed
  /\ pc = "infra"
  /\ wired' \in {wired, TornGo}
  /\ UNCHANGED <<file, desc, bizVars>>
  /\ CutShort
-----------------------------------------------------------------------------
(* Phase B: fileTracker and descPlan.                                      *)

Snapshot ==
  /\ pc = "snapshot"
  /\ pc' = "plan"
  /\ before' = {m \in Model : desc[m] # "none"}
  /\ UNCHANGED <<want, diskVars, todo, next, overwrite, done, fresh, plan,
                 writing, result, events, history, bizVars>>

(* addSchema: a schema whose dao was there, or whose proto is, is left out.*)
ToWriteSeen ==                 \* wrong: looks for the dao after phase A
  {m \in fresh : file[m]["dao"] = Missing}
ToWrite == {m \in fresh : desc[m] = "none"}

Plan ==
  /\ pc = "plan"
  /\ pc' = "commit"
  /\ plan' = ToWrite
  /\ UNCHANGED <<want, diskVars, todo, next, overwrite, done, fresh, before,
                 writing, result, events, history, bizVars>>

(* desc/ cannot be read, or the run is killed.                             *)
StopPlan ==
  /\ pc \in {"snapshot", "plan"}
  /\ Killed \/ ("io" \in Faults /\ pc = "plan")
  /\ UNCHANGED <<diskVars, bizVars>>
  /\ CutShort

(* commit goes through the plan in any order.  It looks once more whether  *)
(* the proto is there, for the developer may have written it meanwhile,    *)
(* and then renders and writes it, over one that appeared since it looked, *)
(* the developer's or that of another run.                                 *)
FoundNever(m) == FALSE         \* wrong: does not look again
Found(m) == desc[m] # "none"

Look(m) ==
  /\ pc = "commit"
  /\ m \in plan
  /\ writing = {}
  /\ IF Found(m) THEN plan' = plan \ {m} /\ UNCHANGED writing
                 ELSE writing' = {m} /\ UNCHANGED plan
  /\ UNCHANGED <<want, diskVars, pc, todo, next, overwrite, done, fresh,
                 before, result, events, history, bizVars>>

Commit(m) ==
  /\ m \in writing
  /\ desc' = [desc EXCEPT ![m] = "gen"]
  /\ plan' = plan \ {m}
  /\ writing' = {}
  /\ UNCHANGED <<want, file, wired, pc, todo, next, overwrite, done, fresh,
                 before, result, events, history, bizVars>>

(* rollback removes every proto that the snapshot does not have.           *)
RolledBack == [m \in Model |-> IF m \in before THEN desc[m] ELSE "none"]

FailCommit(m) ==
  /\ "io" \in Faults
  /\ m \in writing
  /\ desc' = RolledBack
  /\ CutShort
  /\ UNCHANGED <<file, wired, bizVars>>

StopCommit(m) ==
  /\ Killed
  /\ pc = "commit"
  /\ m \in plan
  /\ \/ UNCHANGED desc
     \/ m \in writing /\ desc' = [desc EXCEPT ![m] = Torn]
  /\ CutShort
  /\ UNCHANGED <<file, wired, bizVars>>
-----------------------------------------------------------------------------
(* The error codes, of all the schemas whatever --model says.              *)

Dropping ==
  history' = [history EXCEPT !.dropped =
    @ \cup {m \in Model : codes[m] # NoSegment /\ codes'[m] = NoSegment}]

GenDaoErrcodeAll ==
  /\ pc = "commit" /\ plan = {}
  /\ pc' = "i18n"
  /\ WriteCodes(Declared)
  /\ Dropping
  /\ UNCHANGED <<want, diskVars, todo, next, overwrite, done, fresh, before,
                 plan, writing, result, events>>

(* An error is a warning, and the locale files are left alone.             *)
StopCodes ==
  /\ Stops /\ Event
  /\ pc = "commit" /\ plan = {}
  /\ TearCodes(Declared) \/ UNCHANGED bizVars
  /\ Dropping
  /\ \/ "io" \in Faults /\ End("warned")
     \/ Killed /\ End("error")
  /\ UNCHANGED <<want, diskVars>>

AppendI18n ==
  /\ pc = "i18n"
  /\ \/ MergeI18n /\ UNCHANGED events
     \/ Stops /\ StopI18n /\ Event
  /\ End(IF result = "warned" THEN "warned" ELSE "ok")
  /\ UNCHANGED <<want, diskVars, history>>
-----------------------------------------------------------------------------
(* The developer, between runs; protos also while one is on its way.       *)
Edits ==
  /\ Event
  /\ IF pc = "idle" THEN End("none") ELSE UNCHANGED runVars
  /\ UNCHANGED wired

EditSchema(m, W) ==
  /\ pc = "idle"
  /\ want[m] # W
  /\ want' = [want EXCEPT ![m] = W]
  /\ Edits
  /\ UNCHANGED <<file, desc, history, bizVars>>

EditDao(m, W) ==
  /\ pc = "idle"
  /\ Whole(file[m]["dao"]) /\ Whole(file[m]["impl"])
  /\ file' = [file EXCEPT ![m]["dao"] = W, ![m]["impl"] = W]
  /\ history' = [history EXCEPT !.touched = @ \cup {m}]
  /\ Edits
  /\ UNCHANGED <<want, desc, bizVars>>

(* The Go files of a model are deleted, to have them generated anew.       *)
DeleteGo(m) ==
  /\ pc = "idle"
  /\ \E k \in Kind : file[m][k] # Missing
  /\ file' = [file EXCEPT ![m] = [k \in Kind |-> Missing]]
  /\ history' = [history EXCEPT !.cut = @ \ {m}, !.touched = @ \ {m},
                                !.noproto = @ \ {m}, !.undone = @ \ {m}]
  /\ Edits
  /\ UNCHANGED <<want, desc, bizVars>>

WriteProto(m) ==
  /\ desc[m] # "user"
  /\ desc' = [desc EXCEPT ![m] = "user"]
  /\ history' = [history EXCEPT !.noproto = @ \ {m}, !.undone = @ \ {m},
                                !.late = @ \cup (writing \cap {m})]
  /\ Edits
  /\ UNCHANGED <<want, file, bizVars>>

DeleteProto(m) ==
  /\ pc = "idle"
  /\ desc[m] # "none"
  /\ desc' = [desc EXCEPT ![m] = "none"]
  /\ history' = [history EXCEPT !.noproto = @ \cup {m}]
  /\ Edits
  /\ UNCHANGED <<want, file, bizVars>>

WriteMessage(m) ==
  /\ pc = "idle"
  /\ Translate(m)
  /\ UNCHANGED <<want, diskVars, runVars, events, history>>
-----------------------------------------------------------------------------
Run ==
  \/ \E o \in BOOLEAN :
       \/ Declared # {} /\ Start(Declared, o)
       \/ \E m \in Declared : Start({m}, o)
  \/ WriteGo \/ StopGo \/ EnsureEntInfra \/ StopInfra
  \/ Snapshot \/ Plan \/ StopPlan
  \/ \E m \in Model : Look(m) \/ Commit(m) \/ FailCommit(m) \/ StopCommit(m)
  \/ GenDaoErrcodeAll \/ StopCodes \/ AppendI18n

Develop ==
  \E m \in Model :
    \/ \E W \in {Missing} \cup SUBSET Method : EditSchema(m, W)
    \/ \E W \in SUBSET Method : EditDao(m, W)
    \/ DeleteGo(m) \/ WriteProto(m) \/ DeleteProto(m) \/ WriteMessage(m)

Next == Run \/ Develop

Spec == Init /\ [][Next]_vars
-----------------------------------------------------------------------------
Text == {Missing, TornGo} \cup SUBSET Method

TypeOK ==
  /\ want \in [Model -> {Missing} \cup SUBSET Method]
  /\ file \in [Model -> [Kind -> Text]]
  /\ desc \in [Model -> {"none", "gen", "user", Torn}]
  /\ wired \in {TornGo} \cup SUBSET Model
  /\ pc \in PC
  /\ next \in DOMAIN Kinds
  /\ overwrite \in BOOLEAN
  /\ {todo, done, fresh, before, plan, writing} \subseteq SUBSET Model
  /\ result \in {"none", "ok", "warned", "error"}
  /\ events \in 0 .. MaxEvents
  /\ history \in History
  /\ BizTypeOK

(* The Go files of m are there and fit each other: implementations have    *)
(* the methods of their interfaces, so have mocks, the repo calls methods  *)
(* that the dao has, and the error codes it uses are defined.              *)
Compiles(m) ==
  /\ \A k \in Kind : Whole(file[m][k])
  /\ file[m]["dao"] \subseteq file[m]["impl"] \cap file[m]["daoMock"]
  /\ file[m]["repo"] \subseteq file[m]["repoImpl"] \cap file[m]["repoMock"]
  /\ file[m]["repoImpl"] \subseteq file[m]["dao"]
  /\ codes[m] # NoSegment

(* "so that the dao stage's products compile" (GenEntLogic, EntInfra):     *)
(* after a run that reported success every model of ServiceContext that    *)
(* still has a schema compiles, the ones the run was not about included,   *)
(* unless an earlier run stopped in the middle of it or its dao was edited *)
(* by hand.                                                                *)
WiredCompiles ==
  result = "ok" =>
    \A m \in wired \cap Declared : Compiles(m) \/ m \in history.cut \cup history.touched

(* --overwrite repairs whatever earlier runs and hands did to the files of *)
(* a model, hooks excepted, which no run writes twice.                     *)
OverwriteRepairs ==
  result = "ok" /\ overwrite =>
    \A m \in done : Compiles(m) \/ (file[m]["hook"] = TornGo /\ m \in history.cut)

(* After a run that reported success a schema lacks its proto only if a    *)
(* run over it was cut short, the developer deleted it, or a rollback took *)
(* the developer's for one of its own.                                     *)
ProtoOnlyLostToCut ==
  result = "ok" =>
    \A m \in done :
      desc[m] = "none" => m \in history.cut \cup history.noproto \cup history.undone

(* "Only files really written in this run go into the fileTracker; a       *)
(* rollback is clean and touches no proto of the user's" (descPlan).       *)
UserProtosSurvive == history.undone = {}

(* No run writes over a proto of the developer, not even one that appeared *)
(* while it was on its way, unless it appeared after commit had looked for *)
(* it; and a rollback removes none that was there when phase B began.      *)
RunsKeepProtos ==
  [][\A m \in Model :
       /\ desc[m] = "user" =>
            desc'[m] \in {"user", "none"} \/ m \in writing \cap history.late
       /\ m \in before => desc'[m] \in {desc[m], "user"}]_vars

(* Two models never share a segment, whatever runs were cut short, and a   *)
(* code shows the message that was written for it: of another model only   *)
(* if the model it was written for lost its segment in between.            *)
MessagesFollowCodes ==
  /\ \A m, n \in Model : codes[m] = codes[n] /\ codes[m] # NoSegment => m = n
  /\ \A s \in Segment : \A m, n \in Model :
       locale[s] = m /\ codes[n] = s /\ m # n => m \in history.dropped
=============================================================================
