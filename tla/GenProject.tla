----------------------------- MODULE GenProject -----------------------------
(***************************************************************************)
(* make gen-rpc, or zctl rpc merge-proto followed by zctl rpc protoc: the  *)
(* desc protos are merged into the root proto, protoc makes the pb package *)
(* of it, and Generate writes the files of the project one by one          *)
(* (single-service layout).  Any write may fail, the process may be killed *)
(* at any time, and the developer edits desc/ between runs and during      *)
(* them, and deletes logic.  A file that a kill cuts short is there: the   *)
(* next run takes it for done.                                             *)
(***************************************************************************)
EXTENDS Naturals, FiniteSets

CONSTANTS Rpc,         \* names of rpcs
          Group,       \* a directory and proto under desc/: group/model
          Lowered,     \* Lowered[r]: the rpc with the name of r in lower case, or r
          MaxEdits,    \* bound: edits of the developer
          MaxFaults    \* bound: failed writes and kills

Base == "base"    \* a proto right under desc/, a logic file right under logic/
None == "none"

ASSUME GenAssumption ==
  /\ MaxEdits \in Nat /\ MaxFaults \in Nat
  /\ {Base, None} \cap Group = {}
  /\ Lowered \in [Rpc -> Rpc]

Place == Group \cup {Base}

VARIABLES
  desc,    \* desc[r]: the proto that declares r
  root,    \* the rpcs of the root proto
  pb,      \* the rpcs of the pb package
  logic,   \* the logic files: <<r, p>>
  server,  \* server[r]: the logic package the server calls for r
  client,  \* the rpcs of the client package
  once,    \* other files that are written when they are not there: steps of
           \* Generate, and groups, for the files of the group's module
  step,    \* what the run does next
  parsed,  \* the rpcs the run read from the root proto
  unwritten, \* the rpcs GenLogicFiles has yet to come to
  wants,   \* the run was asked for a client
  disturbed, \* desc/ was edited during the run
  skipped, \* the run went on without its client
  edits, faults

genVars == <<desc, root, pb, logic, server, client, once, step, parsed,
             unwritten, wants, disturbed, skipped, edits, faults>>
disk == <<desc, root, pb, logic, server, client, once>>
run == <<parsed, unwritten, wants, skipped>>

GenInit ==
  /\ desc \in [Rpc -> Place \cup {None}]
  /\ root = {} /\ pb = {} /\ client = {} /\ logic = {} /\ once = {}
  /\ server = [r \in Rpc |-> None]
  /\ step = "idle"
  /\ parsed = {} /\ unwritten = {}
  /\ wants = FALSE /\ disturbed = FALSE /\ skipped = FALSE
  /\ edits = 0 /\ faults = 0

HomeAnywhere(r) == desc[r]   \* wrong: no default for an rpc without a group
(* BuildRpcGroupMap and its default: where the logic of r belongs, as      *)
(* desc/ is now.                                                           *)
Home(r) == IF desc[r] \in Group THEN desc[r] ELSE Base
(* GenLogicFiles puts it there too, but for an rpc without a group it      *)
(* takes that of the rpc with its name in lower case.                      *)
Borrows(r) == desc[r] \notin Group /\ desc[Lowered[r]] \in Group
LogicHome(r) == IF Borrows(r) THEN desc[Lowered[r]] ELSE Home(r)
-----------------------------------------------------------------------------
At(s) == step = s /\ UNCHANGED <<edits, disturbed>>
Then(s) == step' = s /\ UNCHANGED faults
Fault == faults < MaxFaults /\ faults' = faults + 1 /\ step' = "failed"

MergeProtos ==
  /\ step \in {"idle", "failed", "done"}
  /\ root' = {r \in Rpc : desc[r] # None}
  /\ step' = "start"
  /\ wants' \in BOOLEAN
  /\ disturbed' = FALSE /\ skipped' = FALSE
  /\ parsed' = {} /\ unwritten' = {}
  /\ UNCHANGED <<desc, pb, logic, server, client, once, edits, faults>>

(* Parse: a proto without a service is refused.                            *)
ParseRoot ==
  /\ At("start")
  /\ parsed' = root
  /\ Then(IF root = {} THEN "failed" ELSE "pb")
  /\ UNCHANGED <<disk, unwritten, wants, skipped>>

GenPb ==
  /\ At("pb")
  /\ pb' = parsed
  /\ Then("config")
  /\ UNCHANGED <<desc, root, logic, server, client, once, run>>

(* A file that is written when it is not there.                            *)
WriteOnce(file, next) ==
  /\ At(file)
  /\ once' = once \cup {file}
  /\ Then(next)
  /\ UNCHANGED <<desc, root, pb, logic, server, client, parsed, wants, skipped>>

GenConfig == WriteOnce("config", "svc") /\ UNCHANGED unwritten
GenSvc == WriteOnce("svc", "logic") /\ unwritten' = parsed
GenMain == WriteOnce("main", IF wants THEN "client" ELSE "scaffold") /\ UNCHANGED unwritten
GenScaffold == WriteOnce("scaffold", "modules") /\ UNCHANGED unwritten

(* The files of each directory under desc/; a write that fails goes by     *)
(* unseen.                                                                 *)
GenModuleFiles ==
  /\ At("modules")
  /\ LET dirs == {desc[r] : r \in Rpc} \cap Group
     IN  \/ once' = once \cup dirs /\ UNCHANGED faults
         \/ \E lost \in dirs \ once :
              once' = once \cup (dirs \ {lost}) /\ faults < MaxFaults /\ faults' = faults + 1
  /\ step' = "done"
  /\ UNCHANGED <<desc, root, pb, logic, server, client, run>>

(* One rpc of GenLogicFiles: a file that is there stays as it is.          *)
GenLogic ==
  /\ At("logic")
  /\ IF unwritten = {} THEN Then("server") /\ UNCHANGED <<unwritten, logic>>
     ELSE \E r \in unwritten :
            /\ unwritten' = unwritten \ {r}
            /\ logic' = logic \cup {<<r, LogicHome(r)>>}
            /\ Then("logic")
  /\ UNCHANGED <<desc, root, pb, server, client, once, parsed, wants, skipped>>

GenServerOnce ==   \* wrong: the server is not overwritten
  /\ At("server")
  /\ server' = [r \in Rpc |-> IF r \in parsed /\ server[r] = None THEN Home(r) ELSE server[r]]
  /\ Then("main")
  /\ UNCHANGED <<desc, root, pb, logic, client, once, run>>

(* The server is written anew, and looks through desc/ for itself.         *)
GenServer ==
  /\ At("server")
  /\ server' = [r \in Rpc |-> IF r \in parsed THEN Home(r) ELSE None]
  /\ Then("main")
  /\ UNCHANGED <<desc, root, pb, logic, client, once, run>>

(* Generate drops the error of GenCall.                                    *)
GenCall ==
  /\ At("client")
  /\ \/ client' = parsed /\ Then("scaffold") /\ UNCHANGED skipped
     \/ skipped' = TRUE /\ faults < MaxFaults /\ faults' = faults + 1
        /\ step' = "scaffold" /\ UNCHANGED client
  /\ UNCHANGED <<desc, root, pb, logic, server, once, parsed, unwritten, wants>>

Running == step \notin {"idle", "failed", "done"}

(* A step fails and Generate returns its error, or the process is killed.  *)
(* protoc may have done its work; a file may be there that was not.        *)
Fail ==
  /\ Running
  /\ Fault
  /\ pb' \in IF step = "pb" THEN {pb, parsed} ELSE {pb}
  /\ once' \in {once, once \cup ({step} \cap {"config", "svc", "main", "scaffold"})}
  /\ logic' \in {logic} \cup (IF step = "logic"
                             THEN {logic \cup {<<r, LogicHome(r)>>} : r \in unwritten} ELSE {})
  /\ UNCHANGED <<desc, root, server, client, run, edits, disturbed>>
-----------------------------------------------------------------------------
(* The developer.                                                          *)
Edit == edits < MaxEdits /\ edits' = edits + 1

EditDesc ==
  /\ Edit
  /\ \E r \in Rpc, p \in Place \cup {None} : desc' = [desc EXCEPT ![r] = p]
  /\ disturbed' = (disturbed \/ Running)
  /\ step' = IF Running THEN step ELSE "idle"
  /\ UNCHANGED <<root, pb, logic, server, client, once, run, faults>>

DeleteLogic ==
  /\ Edit /\ ~Running
  /\ \E f \in logic : logic' = logic \ {f}
  /\ step' = "idle"
  /\ UNCHANGED <<desc, root, pb, server, client, once, run, disturbed, faults>>

GenNext ==
  \/ MergeProtos \/ ParseRoot \/ GenPb \/ GenConfig \/ GenSvc \/ GenLogic \/ GenServer
  \/ GenMain \/ GenCall \/ GenScaffold \/ GenModuleFiles \/ Fail
  \/ EditDesc \/ DeleteLogic

GenSpec == GenInit /\ [][GenNext]_genVars
-----------------------------------------------------------------------------
GenTypeOK ==
  /\ desc \in [Rpc -> Place \cup {None}] /\ server \in [Rpc -> Place \cup {None}]
  /\ root \cup pb \cup client \cup parsed \cup unwritten \subseteq Rpc
  /\ logic \subseteq Rpc \X Place
  /\ edits \in 0 .. MaxEdits /\ faults \in 0 .. MaxFaults

(* After a run that says it succeeded, the server has a method for each    *)
(* rpc of the pb package and no other, and each calls logic that is there, *)
(* whatever earlier runs failed over; unless desc/ was edited meanwhile,   *)
(* since GenLogic and GenServer each look at it; and unless an rpc without *)
(* a group has the name of one in a group but for case: its logic is put   *)
(* into that group, where the server does not look.  The client, where it  *)
(* was asked for, is that of the pb package, or the error of GenCall was   *)
(* dropped.                                                                *)
ServerFindsLogic ==
  step = "done" =>
    /\ ~disturbed => /\ pb = root /\ \A r \in Rpc : r \in pb <=> server[r] # None
                     /\ \A r \in pb : Borrows(r) \/ <<r, server[r]>> \in logic
    /\ wants /\ client # pb => skipped
=============================================================================
