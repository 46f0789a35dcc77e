----------------------------- MODULE MCCommands -----------------------------
(***************************************************************************)
(* Parts of zctl, and of what it generates, that share no state.  A        *)
(* process runs one of them: the initial state says which, and the others  *)
(* stay where they start.                                                  *)
(***************************************************************************)
EXTENDS ApiParser, ApiImports, CallGraphWalk, MergeProto, ProtoImports, GenProject, Dao,
        Migrate

CONSTANT Parts   \* the parts that may run

VARIABLE part

vars == <<part, parserVars, importVars, walkVars, mergeVars, protoVars, genVars, daoVars,
          migrateVars>>

(* The parts with more than one initial state have the emptiest of them    *)
(* when they do not run.                                                   *)
Init ==
  /\ part \in Parts
  /\ ParserInit
  /\ ImportsInit
  /\ part = "imports" \/ (imports[Root] = {} /\ syntax[Root] = CHOOSE s \in Syntax : TRUE)
  /\ WalkInit
  /\ part = "walk" \/ calls[LogicEntry] = {}
  /\ MergeInit
  /\ ProtoInit
  /\ part = "protos" \/ (names[Source] = {} /\ \A n \in DOMAIN lookup : lookup[n] = NotFound)
  /\ GenInit
  /\ part = "project" \/ \A r \in Rpc : desc[r] = None
  /\ DaoInit
  /\ MigrateInit
  /\ part = "migrate" \/ \A f \in GoFile : files[f] = Untouched

(* What the part that runs does.                                           *)
ParserStep ==
  /\ part = "parser" /\ ParserNext
  /\ UNCHANGED <<part, importVars, walkVars, mergeVars, protoVars, genVars, daoVars, migrateVars>>
ImportsStep ==
  /\ part = "imports" /\ ImportsNext
  /\ UNCHANGED <<part, parserVars, walkVars, mergeVars, protoVars, genVars, daoVars, migrateVars>>
WalkStep ==
  /\ part = "walk" /\ WalkNext
  /\ UNCHANGED <<part, parserVars, importVars, mergeVars, protoVars, genVars, daoVars, migrateVars>>
MergeStep ==
  /\ part = "merge" /\ MergeNext
  /\ UNCHANGED <<part, parserVars, importVars, walkVars, protoVars, genVars, daoVars, migrateVars>>
ProtosStep ==
  /\ part = "protos" /\ ProtoNext
  /\ UNCHANGED <<part, parserVars, importVars, walkVars, mergeVars, genVars, daoVars, migrateVars>>
ProjectStep ==
  /\ part = "project" /\ GenNext
  /\ UNCHANGED <<part, parserVars, importVars, walkVars, mergeVars, protoVars, daoVars, migrateVars>>
DaoCallsStep ==
  /\ part = "dao" /\ DaoNext
  /\ UNCHANGED <<part, parserVars, importVars, walkVars, mergeVars, protoVars, genVars, migrateVars>>
MigrateStep ==
  /\ part = "migrate" /\ MigrateNext
  /\ UNCHANGED <<part, parserVars, importVars, walkVars, mergeVars, protoVars, genVars, daoVars>>

Next ==
  \/ ParserStep \/ ImportsStep \/ WalkStep \/ MergeStep
  \/ ProtosStep \/ ProjectStep \/ DaoCallsStep \/ MigrateStep

Spec == Init /\ [][Next]_vars

(* Each part keeps its types.                                              *)
TypesOK ==
  /\ ParserTypeOK /\ ImportsTypeOK /\ WalkTypeOK /\ MergeTypeOK /\ ProtoTypeOK
  /\ GenTypeOK /\ DaoTypeOK /\ MigrateTypeOK

(* One rpc has a name in lower case, which those of all others are but for *)
(* case.                                                                   *)
TheLowered == [r \in Rpc |-> CHOOSE low \in Rpc : TRUE]
=============================================================================
