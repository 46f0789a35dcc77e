----------------------------- MODULE ApiImports -----------------------------
(***************************************************************************)
(* How an .api file takes in the files it imports (parseImportedAPI,       *)
(* parseReverse, mergeAPI, importstack): depth first, the imports of a     *)
(* file in the order in which Go ranges over a map, each file read once,   *)
(* an import of a file that is still under way refused as a cycle.         *)
(* A file is the path the code computes for it.  What it says is settled   *)
(* when it is read.                                                        *)
(***************************************************************************)
EXTENDS Naturals, Sequences, FiniteSets

CONSTANTS File,        \* paths of .api files
          Root,        \* the file that was asked for
          Syntax,      \* values of a syntax statement
          MaxImports   \* bound: import statements, for model checking

ASSUME ImportsAssumption == Root \in File /\ MaxImports \in Nat

VARIABLES
  imports,    \* imports[f]: what file f imports, {} until it is read
  syntax,     \* syntax[f]: the first statement of f, or the default
  frames,     \* the files under way, the root first: ImportStack
  importSet,  \* the imports that were taken up
  result      \* "running", or how SelfCheck ends: "ok", "cycle", "error"

importVars == <<imports, syntax, frames, importSet, result>>

(* A file under way: the imports not looked at yet, the APIs in list, and  *)
(* how often the statements of each file are in those.                     *)
Frame == [file : File, left : SUBSET File, list : SUBSET File, holds : [File -> Nat]]

Top == frames[Len(frames)]
Under == SubSeq(frames, 1, Len(frames) - 1)
OnStackOfImporter(f) == Top.file = f   \* wrong: only the file itself
OnStack(f) == \E i \in DOMAIN frames : frames[i].file = f

(* convert2API: the API of a file that was parsed and says so.             *)
NewAPI(f, I) == [file |-> f, left |-> I, list |-> {}, holds |-> [g \in File |-> 0]]

Imported == {e \in File \X File : e[2] \in imports[e[1]]}

ImportsInit ==
  /\ \E I \in SUBSET File :
       /\ Cardinality(I) <= MaxImports
       /\ imports = [f \in File |-> IF f = Root THEN I ELSE {}]
       /\ frames = <<NewAPI(Root, I)>>
  /\ syntax \in {[f \in File |-> s] : s \in Syntax}
  /\ importSet = {}
  /\ result = "running"

(* The import f of the top file is dealt with.                             *)
LookedAt(f) == [Top EXCEPT !.left = @ \ {f}]

(* ImportStack.Push comes first: a file on the stack is a cycle, even the  *)
(* root, which is not in importSet.                                        *)
RefuseCycle(f) ==
  /\ OnStack(f)
  /\ result' = "cycle"
  /\ UNCHANGED <<imports, syntax, frames, importSet>>

SkipKnown(f) ==
  /\ ~OnStack(f)
  /\ f \in importSet
  /\ frames' = Append(Under, LookedAt(f))
  /\ UNCHANGED <<imports, syntax, importSet, result>>

Enter(f) ==
  /\ ~OnStack(f)
  /\ f \notin importSet
  /\ importSet' = importSet \cup {f}
  /\ \/ \E I \in SUBSET File : \E s \in Syntax :
          /\ Cardinality(Imported) + Cardinality(I) <= MaxImports
          /\ imports' = [imports EXCEPT ![f] = I]
          /\ syntax' = [syntax EXCEPT ![f] = s]
          /\ frames' = Append(Append(Under, LookedAt(f)), NewAPI(f, I))
          /\ UNCHANGED result
     \/ result' = "error" /\ UNCHANGED <<imports, syntax, frames>>

Import ==
  /\ result = "running"
  /\ \E f \in Top.left : RefuseCycle(f) \/ SkipKnown(f) \/ Enter(f)

\* wrong: compared only by the root
MergesAtRoot == Len(frames) > 1 \/ \A f \in Top.list : syntax[f] = syntax[Top.file]
(* mergeAPI wants one syntax value.                                        *)
Merges == \A f \in Top.list : syntax[f] = syntax[Top.file]

WithMergedShallow(g) ==   \* wrong: what the file merged is forgotten
  [g EXCEPT !.list = @ \cup {Top.file},
            !.holds = [f \in File |-> @[f] + IF f = Top.file THEN 1 ELSE 0]]
(* What a file brings to the one that imports it.                          *)
WithMerged(g) ==
  [g EXCEPT !.list = @ \cup {Top.file},
            !.holds = [f \in File |-> @[f] + Top.holds[f] + IF f = Top.file THEN 1 ELSE 0]]

(* parseReverse returns: the file is popped and goes to the list of the    *)
(* one that imports it.  SelfCheck of the root may find fault with what    *)
(* all of them declare.                                                    *)
Return ==
  /\ result = "running"
  /\ Top.left = {}
  /\ IF Merges /\ Len(frames) > 1
     THEN /\ frames' = Append(SubSeq(frames, 1, Len(frames) - 2),
                              WithMerged(frames[Len(frames) - 1]))
          /\ UNCHANGED result
     ELSE /\ result' \in IF Merges THEN {"ok", "error"} ELSE {"error"}
          /\ UNCHANGED frames
  /\ UNCHANGED <<imports, syntax, importSet>>

ImportsNext == Import \/ Return

ImportsSpec == ImportsInit /\ [][ImportsNext]_importVars
-----------------------------------------------------------------------------
ImportsTypeOK ==
  /\ imports \in [File -> SUBSET File]
  /\ syntax \in [File -> Syntax]
  /\ frames \in Seq(Frame) /\ frames # <<>>
  /\ importSet \subseteq File
  /\ result \in {"running", "ok", "cycle", "error"}

(* There are files each of which imports one of them.                      *)
HasCycle ==
  \E S \in SUBSET File : S # {} /\ \A f \in S : imports[f] \cap S # {}

(* "import cycle not allowed": every cycle among the files that are read   *)
(* is refused, in whatever order the imports come, and nothing else is     *)
(* called a cycle: a file that two others import is none.                  *)
CyclesRefused ==
  /\ result = "ok" => ~HasCycle
  /\ result = "cycle" => HasCycle

Closed(S) == Root \in S /\ \A f \in S : imports[f] \subseteq S

(* An API that is put together has the statements of each file it imports  *)
(* directly or through others exactly once, and of no other file.          *)
EachFileOnce ==
  result = "ok" =>
    \A f \in File \ {Root} :
      Top.holds[f] = IF \A S \in SUBSET File : Closed(S) => f \in S THEN 1 ELSE 0

(* All files in an API have the syntax of the root, those too that were    *)
(* never compared with it.                                                 *)
OneSyntax ==
  result = "ok" => \A f \in importSet : syntax[f] = syntax[Root]
=============================================================================
