---------------------------- MODULE MCGenerators ----------------------------
(***************************************************************************)
(* More parts of zctl, and of what it generates, that share no state: one  *)
(* of them runs and the others stay where they start.                      *)
(***************************************************************************)
EXTENDS ApiScanner, ApiAnalyzer, ApiGoProject, ApiFormat, ApiFormatTrees,
        DescPlan, RepoPlan, DaoSql, SqlModel

CONSTANT Parts   \* the parts that may run

VARIABLE part

vars == <<part, scannerVars, analyzerVars, apiGoVars, formatVars, descVars, planVars, sqlVars,
          sqlModelVars>>

(* Blocks with a prefix, with a group, with sse; paths that two prefixes   *)
(* may cut differently.                                                    *)
TheAt == {[prefix |-> <<>>, group |-> "", sse |-> FALSE],
          [prefix |-> <<"a">>, group |-> "g", sse |-> FALSE],
          [prefix |-> <<"a">>, group |-> "", sse |-> TRUE]}
ThePaths == {<<"a", "b">>, <<"b">>}
TheServers == {{}, {"middleware"}, {"jwt"}}
Symmetry == Permutations(Route)

Init ==
  /\ part \in Parts
  /\ ScannerInit /\ AnalyzerInit /\ ApiGoInit /\ FormatInit
  /\ DescInit /\ PlanInit /\ SqlInit /\ SqlModelInit
  /\ part # "format" => tree = (CHOOSE t \in Trees : TRUE).tree

(* What the part that runs does.                                           *)
ScannerStep ==
  /\ part = "scanner" /\ ScannerNext
  /\ UNCHANGED <<part, analyzerVars, apiGoVars, formatVars, descVars, planVars, sqlVars, sqlModelVars>>
AnalyzerStep ==
  /\ part = "analyzer" /\ AnalyzerNext
  /\ UNCHANGED <<part, scannerVars, apiGoVars, formatVars, descVars, planVars, sqlVars, sqlModelVars>>
ApiGoStep ==
  /\ part = "apigo" /\ ApiGoNext
  /\ UNCHANGED <<part, scannerVars, analyzerVars, formatVars, descVars, planVars, sqlVars, sqlModelVars>>
FormatStep ==
  /\ part = "format" /\ FormatNext
  /\ UNCHANGED <<part, scannerVars, analyzerVars, apiGoVars, descVars, planVars, sqlVars, sqlModelVars>>
DescStep ==
  /\ part = "desc" /\ DescNext
  /\ UNCHANGED <<part, scannerVars, analyzerVars, apiGoVars, formatVars, planVars, sqlVars, sqlModelVars>>
PlanStep ==
  /\ part = "plan" /\ PlanNext
  /\ UNCHANGED <<part, scannerVars, analyzerVars, apiGoVars, formatVars, descVars, sqlVars, sqlModelVars>>
SqlStep ==
  /\ part = "daosql" /\ SqlNext
  /\ UNCHANGED <<part, scannerVars, analyzerVars, apiGoVars, formatVars, descVars, planVars, sqlModelVars>>
SqlModelStep ==
  /\ part = "model" /\ SqlModelNext
  /\ UNCHANGED <<part, scannerVars, analyzerVars, apiGoVars, formatVars, descVars, planVars, sqlVars>>

Next ==
  \/ ScannerStep \/ AnalyzerStep \/ ApiGoStep \/ FormatStep
  \/ DescStep \/ PlanStep \/ SqlStep \/ SqlModelStep

Spec == Init /\ [][Next]_vars

(* Each part keeps its types.                                              *)
PartsTypeOK ==
  /\ ScannerTypeOK /\ AnalyzerTypeOK /\ ApiGoTypeOK /\ FormatTypeOK
  /\ DescTypeOK /\ PlanTypeOK /\ SqlTypeOK /\ SqlModelTypeOK
=============================================================================
