------------------------------ MODULE ToolsProofs -----------------------------
(***************************************************************************)
(* Proofs about parts of zctl that MCTools runs: PerfScan, for any number  *)
(* of scans, problems, lint issues and tools that do not do their work;    *)
(* the findings of a report (PerfLoops, PerfSql, PerfRedis), for any       *)
(* number of calls, statements and declarations; the clients written for a *)
(* route of an api file, ApiClients, for any fields; the mocks of a dao,   *)
(* Mocks, for any interface; and the types of all that MCTools runs.       *)
(***************************************************************************)
EXTENDS MCTools, RpcProofs, FiniteSetTheorems

-----------------------------------------------------------------------------
(* Scans.  The k-th checker has ended when at is greater than k.           *)
CheckerNames == {"fmt", "vet", "lint", "vuln", "escape", "n1", "review", "test"}

(* A checker that did its work has failed what it answers for.             *)
FailsOn(c, found) == result[c].why = "ran" /\ found => result[c].level = "FAIL"

(* lint.json is of no scan, of one that was killed, or of this one.        *)
LintFileKnown == \/ lintJson.of = 0 \/ lintJson.of \in killed
                 \/ lintJson.of = scan /\ at > 3

(* golangci-lint that did its work has written the file of this scan, with *)
(* the issues there are, or with the errors of typecheck.                  *)
LintTold ==
  /\ result["lint"].why = "ran" =>
       /\ result["lint"].of = scan /\ lintJson.of = scan
       /\ result["lint"].level = LintLevel(lintJson.issues)
       /\ "uncompilable" \notin problems => lintJson.issues = lintable
       /\ "uncompilable" \in problems => lintJson.issues \in {{Typecheck}, {Typecheck} \cup lintable}
  /\ \/ result["lint"].of \in {0, scan}
     \/ result["lint"].why = "crashed" /\ result["lint"].of \in killed

TestTold ==
  /\ result["test"].of \in {0, scan} \/ result["test"].why = "crashed"
  /\ result["test"].why = "ran" => coverPage = scan

ScansInv ==
  /\ at # 0 => scan > 0
  /\ scan \in Nat /\ at \in 0 .. 9 /\ DOMAIN result = CheckerNames
  /\ LintFileKnown
  /\ at > 1 => FailsOn("fmt", "unformatted" \in problems)
  /\ at > 2 => FailsOn("vet", problems \cap {"vet", "uncompilable"} # {})
  /\ at > 3 => LintTold
  /\ at > 4 => FailsOn("vuln", "vulnerable" \in problems)
  /\ at > 6 => FailsOn("n1", "nplus1" \in problems)
  /\ at > 8 => TestTold

LEMMA CheckersAre ==
  /\ DOMAIN Checkers = 1 .. 8 /\ Len(Checkers) = 8
  /\ {Checkers[i] : i \in DOMAIN Checkers} = CheckerNames
<1>1. DOMAIN Checkers = 1 .. 8 /\ Len(Checkers) = 8
    BY DEF Checkers
<1>2. \A c : c \in {Checkers[i] : i \in 1 .. 8} <=> c \in CheckerNames
    BY DEF Checkers, CheckerNames
<1> QED BY <1>1, <1>2

LEMMA Positions ==
  ASSUME NEW i \in 1 .. 8
  PROVE  /\ Checkers[i] = "fmt" => i = 1
         /\ Checkers[i] = "vet" => i = 2
         /\ Checkers[i] = "lint" => i = 3
         /\ Checkers[i] = "vuln" => i = 4
         /\ Checkers[i] = "escape" => i = 5
         /\ Checkers[i] = "n1" => i = 6
         /\ Checkers[i] = "review" => i = 7
         /\ Checkers[i] = "test" => i = 8
BY i \in {1, 2, 3, 4, 5, 6, 7, 8} DEF Checkers

(* One checker ends and leaves the entries of the others alone.            *)
LEMMA EndsOne ==
  ASSUME ScansInv, NEW c, NEW entry, result' = [result EXCEPT ![c] = entry]
  PROVE  /\ DOMAIN result' = CheckerNames
         /\ c \in CheckerNames => result'[c] = entry
         /\ \A d \in CheckerNames \ {c} : result'[d] = result[d]
BY DEF ScansInv

LEMMA ScansInit == PerfScanInit => ScansInv
BY CheckersAre DEF PerfScanInit, ScansInv, NoFile, LintFileKnown

LEMMA FmtKeeps == ScansInv /\ Fmt => ScansInv'
<1> SUFFICES ASSUME ScansInv, Fmt PROVE ScansInv'
    OBVIOUS
<1>1. PICK level, why :
        /\ Ends("fmt", level, scan, why)
        /\ why = "ran" => level = IF "unformatted" \in problems THEN "FAIL" ELSE "PASS"
    BY DEF Fmt
<1>2. /\ at = 1 /\ at' = 2 /\ scan' = scan /\ killed' = killed /\ problems' = problems
      /\ lintJson' = lintJson
      /\ result' = [result EXCEPT !["fmt"] = [level |-> level, of |-> scan, why |-> why]]
    BY <1>1, CheckersAre, Positions DEF Ends, Fmt, projectVars, reportVars, fileVars
<1> QED BY <1>1, <1>2, EndsOne DEF CheckerNames, ScansInv, LintFileKnown, FailsOn

LEMMA VetKeeps == ScansInv /\ Vet => ScansInv'
<1> SUFFICES ASSUME ScansInv, Vet PROVE ScansInv'
    OBVIOUS
<1>1. PICK level, why :
        /\ Ends("vet", level, scan, why)
        /\ why = "ran" /\ problems \cap {"vet", "uncompilable"} # {} => level = "FAIL"
    BY DEF Vet, VetLevel, VetFinds
<1>2. /\ at = 2 /\ at' = 3 /\ scan' = scan /\ killed' = killed /\ problems' = problems
      /\ lintJson' = lintJson
      /\ result' = [result EXCEPT !["vet"] = [level |-> level, of |-> scan, why |-> why]]
    BY <1>1, CheckersAre, Positions DEF Ends, Vet, projectVars, reportVars, fileVars
<1> QED BY <1>1, <1>2, EndsOne DEF CheckerNames, ScansInv, LintFileKnown, FailsOn

(* The four ways of golangci-lint to end.                                  *)
LEMMA LintKeeps == ScansInv /\ Lint => ScansInv'
<1> SUFFICES ASSUME ScansInv, Lint PROVE ScansInv'
    OBVIOUS
<1>1. PICK level, of, why : Ends("lint", level, of, why)
    BY DEF Lint, LintRuns, LintStops, LintNoise, LintMissing
<1>2. /\ at = 3 /\ at' = 4 /\ scan' = scan /\ killed' = killed
      /\ problems' = problems /\ lintable' = lintable
      /\ result' = [result EXCEPT !["lint"] = [level |-> level, of |-> of, why |-> why]]
    BY <1>1, CheckersAre, Positions DEF Ends, projectVars, reportVars
<1>3. LintFileKnown' /\ LintTold'
    <2> USE DEF Ends, CheckerNames
    <2>1. CASE LintRuns
        <3>1. PICK issues \in IF "uncompilable" \in problems THEN {{Typecheck}, {Typecheck} \cup lintable}
                              ELSE {lintable} :
                /\ lintJson' = [of |-> scan, issues |-> issues]
                /\ Ends("lint", LintLevel(issues), scan, "ran")
            BY <2>1 DEF LintRuns
        <3> HIDE DEF Ends
        <3>2. result'["lint"] = [level |-> LintLevel(issues), of |-> scan, why |-> "ran"]
            BY <3>1, EndsOne DEF Ends
        <3>3. lintJson'.issues = issues /\ lintJson'.of = scan
            BY <3>1
        <3>4. LintLevel(lintJson'.issues) = LintLevel(issues)
            BY <3>3
        <3> QED BY <1>2, <3>1, <3>2, <3>3, <3>4 DEF LintFileKnown, LintTold
    <2>2. CASE LintStops
        <3>1. result'["lint"].of = lintJson.of /\ result'["lint"].why = "crashed" /\ lintJson' = lintJson
            BY <2>2, EndsOne DEF LintStops, fileVars
        <3> QED BY <1>2, <3>1 DEF ScansInv, LintFileKnown, LintTold
    <2>3. CASE LintNoise
        <3>1. result'["lint"].of = scan /\ result'["lint"].why = "crashed" /\ lintJson'.of = scan
            BY <2>3, EndsOne DEF LintNoise
        <3> QED BY <1>2, <3>1 DEF LintFileKnown, LintTold
    <2>4. CASE LintMissing
        <3>1. result'["lint"].of = scan /\ result'["lint"].why = "missing" /\ lintJson' = lintJson
            BY <2>4, EndsOne DEF LintMissing, fileVars
        <3> QED BY <1>2, <3>1 DEF ScansInv, LintFileKnown, LintTold
    <2> QED BY <2>1, <2>2, <2>3, <2>4 DEF Lint
<1> QED BY <1>2, <1>3, EndsOne DEF CheckerNames, ScansInv, FailsOn

LEMMA VulnKeeps == ScansInv /\ Vuln => ScansInv'
<1> SUFFICES ASSUME ScansInv, Vuln PROVE ScansInv'
    OBVIOUS
<1>1. PICK level, why :
        /\ Ends("vuln", level, scan, why)
        /\ why = "ran" /\ "vulnerable" \in problems => level = "FAIL"
    BY DEF Vuln
<1>2. /\ at = 4 /\ at' = 5 /\ scan' = scan /\ killed' = killed
      /\ problems' = problems /\ lintable' = lintable /\ lintJson' = lintJson
      /\ result' = [result EXCEPT !["vuln"] = [level |-> level, of |-> scan, why |-> why]]
    BY <1>1, CheckersAre, Positions DEF Ends, Vuln, projectVars, reportVars, fileVars
<1>3. LintFileKnown' /\ LintTold'
    BY <1>2, EndsOne DEF CheckerNames, ScansInv, LintFileKnown, LintTold
<1> QED BY <1>1, <1>2, <1>3, EndsOne DEF CheckerNames, ScansInv, FailsOn

(* What the checkers behind govulncheck leave as it is.                    *)
LaterInv ==
  /\ scan \in Nat /\ at \in 0 .. 9 /\ DOMAIN result = CheckerNames
  /\ LintFileKnown /\ LintTold
  /\ FailsOn("fmt", "unformatted" \in problems)
  /\ FailsOn("vet", problems \cap {"vet", "uncompilable"} # {})
  /\ FailsOn("vuln", "vulnerable" \in problems)

LEMMA LaterKeeps ==
  ASSUME ScansInv, at > 4, at < 9, at' = at + 1, DOMAIN result' = CheckerNames,
         result'["fmt"] = result["fmt"], result'["vet"] = result["vet"],
         result'["lint"] = result["lint"], result'["vuln"] = result["vuln"],
         scan' = scan, killed' = killed, problems' = problems, lintable' = lintable,
         lintJson' = lintJson
  PROVE  LaterInv'
<1>1. LintFileKnown' /\ LintTold'
    BY DEF ScansInv, LintFileKnown, LintTold
<1> QED BY <1>1 DEF ScansInv, LaterInv, FailsOn

LEMMA EscapeKeeps == ScansInv /\ Escape => ScansInv'
<1> SUFFICES ASSUME ScansInv, Escape PROVE ScansInv'
    OBVIOUS
<1>1. PICK level : Ends("escape", level, scan, "ran") /\ lintJson' = lintJson
    BY DEF Escape, fileVars
<1>2. /\ at = 5 /\ at' = 6 /\ scan' = scan /\ killed' = killed
      /\ problems' = problems /\ lintable' = lintable /\ lintJson' = lintJson
      /\ result' = [result EXCEPT !["escape"] = [level |-> level, of |-> scan, why |-> "ran"]]
    BY <1>1, CheckersAre, Positions DEF Ends, projectVars, reportVars
<1>3. LaterInv'
    <2>1. /\ DOMAIN result' = CheckerNames
          /\ \A d \in {"fmt", "vet", "lint", "vuln"} : result'[d] = result[d]
        BY <1>2, EndsOne DEF CheckerNames
    <2> QED BY <1>2, <2>1, LaterKeeps
<1> QED BY <1>2, <1>3, EndsOne DEF ScansInv, LaterInv, FailsOn, CheckerNames

LEMMA NPlus1Keeps == ScansInv /\ NPlus1 => ScansInv'
<1> SUFFICES ASSUME ScansInv, NPlus1 PROVE ScansInv'
    OBVIOUS
<1>1. PICK level, why :
        /\ Ends("n1", level, scan, why)
        /\ why = "ran" /\ "nplus1" \in problems => level = "FAIL"
    BY DEF NPlus1
<1>2. /\ at = 6 /\ at' = 7 /\ scan' = scan /\ killed' = killed
      /\ problems' = problems /\ lintable' = lintable /\ lintJson' = lintJson
      /\ result' = [result EXCEPT !["n1"] = [level |-> level, of |-> scan, why |-> why]]
    BY <1>1, CheckersAre, Positions DEF Ends, NPlus1, projectVars, reportVars, fileVars
<1>3. FailsOn("n1", "nplus1" \in problems)'
    BY <1>1, <1>2, EndsOne DEF FailsOn, CheckerNames
<1>4. LaterInv'
    <2>1. /\ DOMAIN result' = CheckerNames
          /\ \A d \in {"fmt", "vet", "lint", "vuln"} : result'[d] = result[d]
        BY <1>2, EndsOne DEF CheckerNames
    <2> QED BY <1>2, <2>1, LaterKeeps
<1> QED BY <1>2, <1>3, <1>4, EndsOne DEF ScansInv, LaterInv, FailsOn, CheckerNames

LEMMA ReviewKeeps == ScansInv /\ Review => ScansInv'
<1> SUFFICES ASSUME ScansInv, Review PROVE ScansInv'
    OBVIOUS
<1>1. PICK level, why : Ends("review", level, scan, why)
    BY DEF Review
<1>2. /\ at = 7 /\ at' = 8 /\ scan' = scan /\ killed' = killed
      /\ problems' = problems /\ lintable' = lintable /\ lintJson' = lintJson
      /\ result' = [result EXCEPT !["review"] = [level |-> level, of |-> scan, why |-> why]]
    BY <1>1, CheckersAre, Positions DEF Ends, Review, projectVars, reportVars, fileVars
<1>3. LaterInv'
    <2>1. /\ DOMAIN result' = CheckerNames
          /\ \A d \in {"fmt", "vet", "lint", "vuln"} : result'[d] = result[d]
        BY <1>2, EndsOne DEF CheckerNames
    <2> QED BY <1>2, <2>1, LaterKeeps
<1> QED BY <1>2, <1>3, EndsOne DEF ScansInv, LaterInv, FailsOn, CheckerNames

LEMMA TestKeeps == ScansInv /\ Test => ScansInv'
<1> SUFFICES ASSUME ScansInv, Test PROVE ScansInv'
    OBVIOUS
<1>1. PICK level, of, why :
        Ends("test", level, of, why) /\ (of = scan \/ why = "crashed") /\ (why = "ran" => coverPage' = scan)
    BY DEF Test, TestRuns, TestStops
<1>2. /\ at = 8 /\ at' = 9 /\ scan' = scan /\ killed' = killed
      /\ problems' = problems /\ lintable' = lintable /\ lintJson' = lintJson
      /\ result' = [result EXCEPT !["test"] = [level |-> level, of |-> of, why |-> why]]
    BY <1>1, CheckersAre, Positions DEF Ends, Test, TestRuns, TestStops, projectVars, reportVars, fileVars
<1>3. TestTold'
    BY <1>1, <1>2, EndsOne DEF TestTold, CheckerNames
<1>4. LaterInv'
    <2>1. /\ DOMAIN result' = CheckerNames
          /\ \A d \in {"fmt", "vet", "lint", "vuln"} : result'[d] = result[d]
        BY <1>2, EndsOne DEF CheckerNames
    <2> QED BY <1>2, <2>1, LaterKeeps
<1> QED BY <1>2, <1>3, <1>4, EndsOne DEF ScansInv, LaterInv, FailsOn, CheckerNames

(* Between the checkers.                                                   *)
LEMMA OthersKeep ==
  ScansInv /\ (Edit \/ BeginScan \/ WriteReport \/ Kill \/ UNCHANGED perfScanVars) => ScansInv'
<1> SUFFICES ASSUME ScansInv PROVE Edit \/ BeginScan \/ WriteReport \/ Kill \/ UNCHANGED perfScanVars => ScansInv'
    OBVIOUS
<1>1. ASSUME Edit PROVE ScansInv'
    BY <1>1 DEF Edit, ScansInv, LintFileKnown, fileVars, reportVars
<1>2. ASSUME BeginScan PROVE ScansInv'
    BY <1>2 DEF BeginScan, ScansInv, LintFileKnown, fileVars, projectVars
<1>3. ASSUME WriteReport PROVE ScansInv'
    BY <1>3 DEF WriteReport, Moved, NoFile, ScansInv, LintFileKnown
<1>4. ASSUME Kill PROVE ScansInv'
    BY <1>4 DEF Kill, ScansInv, LintFileKnown, fileVars, projectVars
<1>5. ASSUME UNCHANGED perfScanVars PROVE ScansInv'
    BY <1>5 DEF perfScanVars, ScansInv, LintFileKnown, LintTold, TestTold, FailsOn
<1> QED BY <1>1, <1>2, <1>3, <1>4, <1>5

LEMMA ScansStep == ScansInv /\ [PerfScanNext]_perfScanVars => ScansInv'
BY FmtKeeps, VetKeeps, LintKeeps, VulnKeeps, EscapeKeeps, NPlus1Keeps, ReviewKeeps, TestKeeps, OthersKeep
   DEF PerfScanNext

(* What a report rests on: every checker has ended.                        *)
LEMMA AllEnded ==
  ASSUME ScansInv, WriteReport
  PROVE  /\ FailsOn("fmt", "unformatted" \in problems) /\ FailsOn("vuln", "vulnerable" \in problems)
         /\ FailsOn("vet", problems \cap {"vet", "uncompilable"} # {})
         /\ FailsOn("n1", "nplus1" \in problems)
         /\ LintTold /\ TestTold
BY CheckersAre DEF WriteReport, ScansInv

(* A clean bill: none of the critical checkers has failed.                 *)
LEMMA CleanIsLookedAt ==
  ASSUME ScansInv, WriteReport, exit' = 0
  PROVE  /\ \A p \in DOMAIN Answers \cap problems : result[Answers[p]].why # "ran"
         /\ "uncompilable" \in problems =>
              result["vet"].why # "ran" /\ (result["lint"].why # "ran" \/ lintable # {})
         /\ (\E i \in lintable : i.error) => \/ result["lint"].why # "ran"
                                             \/ "uncompilable" \in problems
<1>1. \A c \in Critical : result[c].level # "FAIL"
    BY DEF WriteReport
<1>2. /\ result["fmt"].level # "FAIL" /\ result["vet"].level # "FAIL" /\ result["lint"].level # "FAIL"
      /\ result["vuln"].level # "FAIL" /\ result["n1"].level # "FAIL"
    BY <1>1 DEF Critical
<1>3. ASSUME NEW p \in DOMAIN Answers \cap problems PROVE result[Answers[p]].why # "ran"
    <2>1. \/ p = "unformatted" /\ Answers[p] = "fmt"
          \/ p = "vet" /\ Answers[p] = "vet"
          \/ p = "vulnerable" /\ Answers[p] = "vuln"
          \/ p = "nplus1" /\ Answers[p] = "n1"
        BY DEF Answers
    <2> QED BY <1>2, <2>1, AllEnded DEF FailsOn
<1>4. ASSUME "uncompilable" \in problems, result["lint"].why = "ran", lintable = {} PROVE FALSE
    <2>1. lintJson.issues = {Typecheck}
        BY <1>4, AllEnded DEF LintTold
    <2>2. BuildFailed(lintJson.issues)
        BY <2>1 DEF BuildFailed, Typecheck
    <2>3. LintLevel(lintJson.issues) = "FAIL"
        BY <2>1, <2>2 DEF LintLevel
    <2> QED BY <1>2, <1>4, <2>3, AllEnded DEF LintTold
<1>5. ASSUME NEW i \in lintable, i.error, result["lint"].why = "ran", "uncompilable" \notin problems PROVE FALSE
    <2>1. lintJson.issues = lintable
        BY <1>5, AllEnded DEF LintTold
    <2>2. LintLevel(lintJson.issues) = "FAIL"
        BY <1>5, <2>1 DEF LintLevel
    <2> QED BY <1>2, <1>5, <2>2, AllEnded DEF LintTold
<1>6. "uncompilable" \in problems => result["vet"].why # "ran"
    BY <1>2, AllEnded DEF FailsOn
<1> QED BY <1>3, <1>4, <1>5, <1>6

LEMMA ReportIsOfThisScan ==
  ASSUME ScansInv, WriteReport
  PROVE  /\ report'.of # scan => "report" \in unwritten'
         /\ result["lint"].of \notin {0, scan} =>
              result["lint"].why = "crashed" /\ result["lint"].of \in killed
         /\ lintPage' # scan => result["lint"].why # "ran" \/ "page" \in unwritten'
         /\ result["test"].of \notin {0, scan} => result["test"].why = "crashed"
         /\ coverPage' # scan => result["test"].why # "ran"
<1>1. report'.of # scan => "report" \in unwritten'
    BY DEF WriteReport
<1>2. ASSUME result["lint"].why = "ran", "page" \notin unwritten' PROVE lintPage' = scan
    <2>1. lintJson.of = scan /\ scan \in Nat
        BY <1>2, AllEnded DEF LintTold, ScansInv
    <2>3. lintJson.of # 0 => lintPage' = lintJson.of
        BY <1>2 DEF WriteReport
    <2>4. scan # 0
        BY <2>1, CheckersAre DEF WriteReport, ScansInv
    <2> QED
        BY <2>1, <2>3, <2>4
<1>3. coverPage' = coverPage
    BY DEF WriteReport, coverVars
<1> QED
    BY <1>1, <1>2, <1>3, AllEnded DEF LintTold, TestTold

(* Each tab shows its linters, but for what Leafless names.                *)
LEMMA NoLeafIsLeafless ==
  ASSUME NEW i, Leaf(i) = {}
  PROVE  Leafless(i)
<1> SUFFICES ASSUME ~Leafless(i) PROVE FALSE
    OBVIOUS
<1>1. i.linter = "staticcheck" => i.panics
    BY DEF Leafless
<1>2. linterToTab(i.linter) # "none" /\ i.linter # "paralleltest"
    BY DEF Leafless
<1>3. /\ CriticalLeaf(i) = {} /\ BugLeaf(i) = {} /\ PerformanceLeaf(i) = {} /\ SecurityLeaf(i) = {}
      /\ ComplexityLeaf(i) = {} /\ StyleLeaf(i) = {} /\ TestingLeaf(i) = {}
    BY DEF Leaf
<1>4. Tab(i) \notin {"panic", "errdrop", "leak", "concurrency", "defect", "perf-code", "code-security", "trojan",
                     "complexity"}
    BY <1>3 DEF CriticalLeaf, BugLeaf, PerformanceLeaf, SecurityLeaf, ComplexityLeaf
<1>5. i.linter # "staticcheck"
    BY <1>1, <1>4 DEF Tab
<1>6. Tab(i) = linterToTab(i.linter)
    BY <1>2, <1>5 DEF Tab, TabOfLinter
<1>7. \/ Tab(i) = "style" /\ i.linter \in {"mnd", "goconst", "lll", "misspell", "godox"}
      \/ Tab(i) = "testing" /\ i.linter = "testifylint"
    BY <1>2, <1>4, <1>5, <1>6 DEF linterToTab
<1>8. <<Tab(i), i.linter>> \in StyleLeaf(i) \cup TestingLeaf(i)
    BY <1>7 DEF StyleLeaf, TestingLeaf
<1> QED BY <1>3, <1>8

LEMMA IssuesAreShown ==
  ASSUME WriteReport, result["lint"].why = "ran", ~BuildFailed(lintJson.issues), NEW i \in lintJson.issues
  PROVE  (Leaf(i) \subseteq report'.tabs \/ "report" \in unwritten') /\ (Leaf(i) = {} => Leafless(i))
<1>1. "report" \notin unwritten' => report'.tabs = UNION {Leaf(j) : j \in lintJson.issues}
    BY DEF WriteReport, Shown
<1> QED BY <1>1, NoLeafIsLeafless

THEOREM ScansAlwaysInv == PerfScanSpec => []ScansInv
BY ScansInit, ScansStep, PTL DEF PerfScanSpec

(* What a perf report says: a clean bill is about everything that a        *)
(* checker looked at; the file, the findings and the pages are those of    *)
(* this scan, but after a kill, for a tool that is missing or crashed, and *)
(* for what the file system does not take; every issue of golangci-lint    *)
(* shows in a tab, but for the linters that have none.                     *)
THEOREM ReportsAreTruthful == PerfScanSpec => ScanTruthful
<1> DEFINE Clean == WriteReport /\ exit' = 0 =>
             /\ \A p \in DOMAIN Answers \cap problems : result[Answers[p]].why # "ran"
             /\ "uncompilable" \in problems =>
                  result["vet"].why # "ran" /\ (result["lint"].why # "ran" \/ lintable # {})
             /\ (\E i \in lintable : i.error) => \/ result["lint"].why # "ran"
                                                 \/ "uncompilable" \in problems
<1> DEFINE OfThis == WriteReport =>
             /\ report'.of # scan => "report" \in unwritten'
             /\ result["lint"].of \notin {0, scan} =>
                  result["lint"].why = "crashed" /\ result["lint"].of \in killed
             /\ lintPage' # scan => result["lint"].why # "ran" \/ "page" \in unwritten'
             /\ result["test"].of \notin {0, scan} => result["test"].why = "crashed"
             /\ coverPage' # scan => result["test"].why # "ran"
<1> DEFINE HaveTabs == WriteReport /\ result["lint"].why = "ran" /\ ~BuildFailed(lintJson.issues) =>
             \A i \in lintJson.issues :
               (Leaf(i) \subseteq report'.tabs \/ "report" \in unwritten') /\ (Leaf(i) = {} => Leafless(i))
<1>1. ScansInv => Clean
    BY CleanIsLookedAt
<1>2. ScansInv => OfThis
    BY ReportIsOfThisScan
<1>3. HaveTabs
    BY IssuesAreShown
<1>4. PerfScanSpec => [][Clean]_perfScanVars
    BY <1>1, ScansAlwaysInv, PTL
<1>5. PerfScanSpec => [][OfThis]_perfScanVars
    BY <1>2, ScansAlwaysInv, PTL
<1>6. PerfScanSpec => [][HaveTabs]_perfScanVars
    BY <1>3, PTL
<1> QED BY <1>4, <1>5, <1>6 DEF ScanTruthful, CleanBill, ReportsThisScan, IssuesHaveTabs

-----------------------------------------------------------------------------
(* PerfLoops: after the check, the findings and the counts are those of    *)
(* the calls that are written.                                             *)
InCode == {sites[i] : i \in DOMAIN sites}
Found == [graph |-> Findings({s \in InCode : Confirmed(s)}),
          names |-> Findings({s \in InCode : ConfirmedByName(s)})]
LoopsInv ==
  /\ sites \in Seq(Site)
  /\ review = <<>> => findings = NoFindings
  /\ review # <<>> => findings = Found /\ review = Reviewed

LEMMA LoopsInitInv == LoopsInit => LoopsInv
BY DEF LoopsInit, LoopsInv

LEMMA ReviewedIsSome == Reviewed # <<>>
<1>1. DOMAIN Reviewed = {"static", "looped"}
    BY DEF Reviewed
<1>2. DOMAIN <<>> = {}
    OBVIOUS
<1> QED BY <1>1, <1>2

LEMMA LoopsStepInv == LoopsInv /\ [LoopsNext]_loopVars => LoopsInv'
<1> SUFFICES ASSUME LoopsInv, [LoopsNext]_loopVars PROVE LoopsInv'
    OBVIOUS
<1>1. CASE WriteCall
  <2>1. /\ review = <<>> /\ review' = review /\ findings' = findings
        /\ \E s \in Site : sites' = Append(sites, s)
      BY <1>1 DEF WriteCall
  <2>2. sites' \in Seq(Site)
      BY <2>1 DEF LoopsInv
  <2> QED BY <2>1, <2>2 DEF LoopsInv, NoFindings
<1>2. CASE Check
  <2>1. sites' = sites /\ findings' = Found /\ review' = Reviewed
      BY <1>2 DEF Check, Found, InCode
  <2>2. Found' = Found /\ Reviewed' = Reviewed
      BY <2>1 DEF Found, InCode, Findings, Times, Trivial, Confirmed, ConfirmedByName, DaoImpls, Reviewed, Nodes,
         InLoop, Counted, IsDao, ReachedFrom, HelperReached, Enters, Dynamic, HelperCalled, CallsHelper
  <2> QED BY <2>1, <2>2, ReviewedIsSome DEF LoopsInv
<1>3. CASE UNCHANGED loopVars
  <2>1. sites' = sites /\ findings' = findings /\ review' = review
      BY <1>3 DEF loopVars
  <2>2. Found' = Found /\ Reviewed' = Reviewed
      BY <2>1 DEF Found, InCode, Findings, Times, Trivial, Confirmed, ConfirmedByName, DaoImpls, Reviewed, Nodes,
         InLoop, Counted, IsDao, ReachedFrom, HelperReached, Enters, Dynamic, HelperCalled, CallsHelper
  <2> QED BY <2>1, <2>2 DEF LoopsInv, NoFindings
<1> QED BY <1>1, <1>2, <1>3 DEF LoopsNext

THEOREM LoopsAlwaysInv == LoopsSpec => []LoopsInv
BY LoopsInitInv, LoopsStepInv, PTL DEF LoopsSpec

LEMMA FoundIsKnown == LoopsInv => NPlus1Known
<1> SUFFICES ASSUME LoopsInv, findings # NoFindings, NEW i \in DOMAIN sites
             PROVE  LET s == sites[i] IN
                      /\ Repeats(s) /\ Runs(s.method) /\ findings.names[i] = 0 => MissedByAll(s)
                      /\ findings.names[i] > 0 /\ ~(Repeats(s) /\ Runs(s.method)) => FalseBecause(s)
                      /\ findings.graph[i] = IF MissedByGraph(s) THEN 0 ELSE findings.names[i]
    BY DEF NPlus1Known
<1> DEFINE s == sites[i]
<1>1. findings = Found
    BY DEF LoopsInv
<1>2. s \in Site /\ s \in InCode
    BY DEF LoopsInv, InCode
<1>3. /\ findings.names[i] = IF ConfirmedByName(s) THEN Times(s) ELSE 0
      /\ findings.graph[i] = IF Confirmed(s) THEN Times(s) ELSE 0
    BY <1>1, <1>2 DEF Found, Findings
<1>4. Confirmed(s) <=> ConfirmedByName(s) /\ ~MissedByGraph(s)
    BY DEF Confirmed, ConfirmedByName, DaoImpls, MissedByGraph
<1>5. s.nest \in 0 .. 2
    BY <1>2 DEF Site
<1>6. Times(s) = 0 => Trivial(s) \/ s.appended \/ s.nest = 0
    BY DEF Times
<1>7. Times(s) > 0 => s.nest > 0
    BY DEF Times
<1>8. Repeats(s) /\ Runs(s.method) /\ findings.names[i] = 0 => MissedByAll(s)
    BY <1>3, <1>5, <1>6 DEF Repeats, MissedByAll
<1>9. findings.names[i] > 0 /\ ~(Repeats(s) /\ Runs(s.method)) => FalseBecause(s)
    BY <1>3, <1>7 DEF Repeats, FalseBecause
<1>10. findings.graph[i] = IF MissedByGraph(s) THEN 0 ELSE findings.names[i]
    BY <1>3, <1>4
<1> HIDE DEF s
<1> QED BY <1>8, <1>9, <1>10 DEF s

(* A call of a method with one implementation has one node.                *)
LEMMA OneNodeEach ==
  ASSUME NEW I, IsFiniteSet(I), \A i \in I : sites[i].method.impls = 1
  PROVE  Nodes(I) = Cardinality(I)
<1>1. {n \in I \X {1, 2} : n[2] <= sites[n[1]].method.impls} = I \X {1}
    OBVIOUS
<1>2. IsFiniteSet({1}) /\ Cardinality({1}) = 1
    BY FS_Singleton
<1>3. Cardinality(I \X {1}) = Cardinality(I) * 1 /\ Cardinality(I) \in Nat
    BY <1>2, FS_Product, FS_CardinalityType
<1>4. Nodes(I) = Cardinality(I \X {1})
    BY ONLY <1>1 DEF Nodes
<1> QED BY <1>3, <1>4

(* Without the cases that are named, the walk comes to what runs.          *)
LEMMA ReachedIsLed ==
  ASSUME ~CountedWrong, NEW i \in DOMAIN sites
  PROVE  ReachedFrom(i) <=> Led(i)
<1>1. \A j \in DOMAIN sites : Led(j) => sites[j].place # "library"
    BY DEF CountedWrong, HandedOn
<1>2. HelperCalled <=> HelperCalls # {}
    BY <1>1 DEF HelperCalled, HelperCalls, Led
<1>3. \A j \in DOMAIN sites : Enters(j) => Led(j)
  <2> SUFFICES ASSUME NEW j \in DOMAIN sites, Enters(j) PROVE Led(j)
      OBVIOUS
  <2>1. HandedOn("handed") /\ sites[j].place \in {"handed", "library"}
      BY <1>2 DEF Enters, Dynamic, HandedOn, Led
  <2> QED BY <2>1 DEF CountedWrong
<1>4. HelperReached <=> HelperCalls # {}
    BY <1>2, <1>3 DEF HelperReached, HelperCalls, Led
<1> QED BY <1>1, <1>3, <1>4 DEF ReachedFrom, Led

LEMMA CountedIsKnown == LoopsInv => CountsKnown
<1> SUFFICES ASSUME LoopsInv, review # <<>>, ~CountedWrong
             PROVE  /\ review.static + review.looped = Cardinality(Counts)
                    /\ ~LoopedWrong =>
                         review.looped = Cardinality({i \in Counts :
                           Repeats(sites[i]) \/ (sites[i].in = "helper" /\ \E j \in HelperCalls : Repeats(sites[j]))})
    BY DEF CountsKnown, LoopedWrong
<1> DEFINE looped == {i \in Counts : InLoop(sites[i])}
           static == Counts \ looped
<1>1. review.static = Nodes(static) /\ review.looped = Nodes(looped)
  <2>1. {i \in DOMAIN sites : Counted(i)} = Counts
      BY ReachedIsLed DEF Counted, Counts
  <2> DEFINE counted == {i \in DOMAIN sites : Counted(i)}
             inLoop == {i \in counted : InLoop(sites[i])}
  <2>2. Reviewed = [static |-> Nodes(counted \ inLoop), looped |-> Nodes(inLoop)]
      BY DEF Reviewed
  <2>3. counted = Counts /\ inLoop = looped
      BY <2>1
  <2> HIDE DEF counted, inLoop
  <2>4. Reviewed.static = Nodes(Counts \ looped) /\ Reviewed.looped = Nodes(looped)
      BY ONLY <2>2, <2>3
  <2> QED BY <2>4 DEF LoopsInv
<1>2. DOMAIN sites = 1 .. Len(sites) /\ Len(sites) \in Nat
    BY DEF LoopsInv
<1>3. \A i \in Counts : i \in DOMAIN sites /\ sites[i] \in Site
    BY DEF LoopsInv, Counts
<1>4. \A i \in Counts : sites[i].method \in Method
    BY <1>3 DEF Site
<1>5. \A i \in Counts : sites[i].method.impls = 1
    BY <1>4, LoopsAssumption DEF CountedWrong
<1>6. IsFiniteSet(Counts)
  <2>1. Counts \in SUBSET (1 .. Len(sites)) /\ Len(sites) \in Int
      BY <1>2 DEF Counts
  <2>2. IsFiniteSet(1 .. Len(sites))
      BY <2>1, FS_Interval
  <2> QED BY <2>1, <2>2, FS_Subset
<1>7. looped \in SUBSET Counts /\ static \in SUBSET Counts
    OBVIOUS
<1>8. IsFiniteSet(looped) /\ IsFiniteSet(static)
    BY <1>6, <1>7, FS_Subset
<1>9. Nodes(looped) = Cardinality(looped) /\ Nodes(static) = Cardinality(static)
    BY <1>5, <1>8, OneNodeEach
<1>10. static \cup looped = Counts /\ static \cap looped = {}
    OBVIOUS
<1>11. Cardinality(Counts) = Cardinality(static) + Cardinality(looped)
  <2>1. Cardinality(static \cup looped) = Cardinality(static) + Cardinality(looped) - Cardinality(static \cap looped)
      BY <1>8, FS_Union
  <2>2. Cardinality({}) = 0
      BY FS_EmptySet
  <2>3. Cardinality(static) \in Nat /\ Cardinality(looped) \in Nat
      BY <1>8, FS_CardinalityType
  <2> HIDE DEF looped, static
  <2>4. Cardinality(Counts) = Cardinality(static) + Cardinality(looped) - 0
      BY <1>10, <2>1, <2>2
  <2> QED BY <2>3, <2>4
<1>12. ASSUME ~LoopedWrong
       PROVE  looped = {i \in Counts :
                Repeats(sites[i]) \/ (sites[i].in = "helper" /\ \E j \in HelperCalls : Repeats(sites[j]))}
    BY <1>12 DEF LoopedWrong, InLoop, Repeats
<1> QED BY <1>1, <1>9, <1>11, <1>12

-----------------------------------------------------------------------------
(* PerfSql: the statements are some that ent has, and the report is what   *)
(* Derive made of them.                                                    *)
Inferred == IF WithTerminal = {} THEN NoSql ELSE ToSql(FirstTerminal, Chains)
SqlInv ==
  /\ body \in Seq(EntChain) /\ \A i \in DOMAIN body : Compiles(body[i])
  /\ method \in {"Create", "Delete", "other"}
  /\ warned # "unread" => derived = Inferred /\ hooked = Hooked /\ warned = ScanRisk(derived)

LEMMA SqlInitInv == PerfSqlInit => SqlInv
BY DEF PerfSqlInit, SqlInv

LEMMA RiskIsRead == \A sql : ScanRisk(sql) \in {"none", "info", "warn"}
BY DEF ScanRisk

LEMMA WrittenChain ==
  ASSUME WriteChain
  PROVE  /\ warned = "unread" /\ UNCHANGED <<method, derived, hooked, warned>>
         /\ \E c \in EntChain : Compiles(c) /\ body' = Append(body, c)
<1>1. PICK c \in [root : {"query", "create", "update", "delete"},
               where : {{}} \cup {{p} : p \in PredicateKinds}, sets : {{}} \cup {{x} : x \in SqlColumn},
               clears : BOOLEAN, limit : BOOLEAN,
               last : {"All", "First", "Only", "Count", "Save", "Exec", "FirstX"}, skipped : BOOLEAN,
               registers : BOOLEAN] :
             Compiles(c) /\ body' = Append(body, c)
    BY DEF WriteChain
<1>2. PredicateKinds \subseteq Predicate
    BY DEF PredicateKinds
<1>3. {{}} \cup {{p} : p \in PredicateKinds} \subseteq SUBSET Predicate
    BY <1>2
<1>4. {{}} \cup {{x} : x \in SqlColumn} \subseteq SUBSET SqlColumn
    OBVIOUS
<1>5. c \in EntChain
    BY <1>3, <1>4 DEF EntChain
<1> QED BY <1>1, <1>5 DEF WriteChain

LEMMA SqlStepInv == SqlInv /\ [PerfSqlNext]_perfSqlVars => SqlInv'
<1> SUFFICES ASSUME SqlInv, [PerfSqlNext]_perfSqlVars PROVE SqlInv'
    OBVIOUS
<1>1. CASE WriteChain
  <2>1. PICK c \in EntChain : Compiles(c) /\ body' = Append(body, c)
      BY <1>1, WrittenChain
  <2>2. body' \in Seq(EntChain)
      BY <2>1 DEF SqlInv
  <2>3. \A i \in DOMAIN body' : Compiles(body'[i])
      BY <2>1 DEF SqlInv
  <2>4. warned' = "unread" /\ method' = method
      BY <1>1, WrittenChain
  <2> QED BY <2>2, <2>3, <2>4 DEF SqlInv
<1>2. CASE Derive
  <2>1. body' = body /\ method' = method
      BY <1>2 DEF Derive
  <2>2. derived' = Inferred /\ hooked' = Hooked /\ warned' = ScanRisk(derived')
      BY <1>2 DEF Derive, Inferred
  <2>3. Inferred' = Inferred /\ Hooked' = Hooked /\ ScanRisk(derived)' = ScanRisk(derived')
      BY <2>1 DEF Inferred, Hooked, WithTerminal, FirstTerminal, ToSql, WriteSql, Chains, ScanRisk
  <2> QED BY <2>1, <2>2, <2>3 DEF SqlInv
<1>3. CASE UNCHANGED perfSqlVars
  <2>1. body' = body /\ method' = method /\ derived' = derived /\ hooked' = hooked /\ warned' = warned
      BY <1>3 DEF perfSqlVars
  <2>2. Inferred' = Inferred /\ Hooked' = Hooked /\ ScanRisk(derived)' = ScanRisk(derived)
      BY <2>1 DEF Inferred, Hooked, WithTerminal, FirstTerminal, ToSql, WriteSql, Chains, ScanRisk
  <2> QED BY <2>1, <2>2 DEF SqlInv
<1> QED BY <1>1, <1>2, <1>3 DEF PerfSqlNext

THEOREM SqlAlwaysInv == PerfSqlSpec => []SqlInv
BY SqlInitInv, SqlStepInv, PTL DEF PerfSqlSpec

(* A predicate that is known and not negated is read as it is.             *)
LEMMA ReadAsItIs ==
  ASSUME NEW p \in Predicate, p.shape # "opaque", ~p.negated, p.known
  PROVE  Read(p) = {p}
<1>1. p \in [shape : {"field", "or"}, column : SqlColumn, negated : BOOLEAN, known : BOOLEAN]
    BY DEF Predicate
<1>2. p.negated = FALSE /\ p.known = TRUE
    BY <1>1
<1>3. [p EXCEPT !.negated = FALSE, !.known = TRUE, !.column = p.column] = p
    BY <1>1, <1>2
<1> QED BY <1>3 DEF Read

LEMMA WhereAsItIs ==
  ASSUME NEW c \in EntChain, ~MisreadPredicate(c)
  PROVE  WhereOf({c}) = c.where
<1>1. \A p \in c.where : p \in Predicate
    BY DEF EntChain
<1>2. \A p \in c.where : Read(p) = {p}
    BY <1>1, ReadAsItIs DEF MisreadPredicate
<1>3. WhereOf({c}) = UNION {Read(p) : p \in c.where}
    BY DEF WhereOf
<1> QED BY <1>2, <1>3

(* astFindEntTerminal: the last call of the first chain that has one.      *)
LEMMA FirstIsFirst ==
  ASSUME SqlInv, WithTerminal # {}
  PROVE  \E i \in WithTerminal : FirstTerminal = body[i].last /\ \A j \in WithTerminal : i <= j
<1> DEFINE least == CHOOSE i \in WithTerminal : \A j \in WithTerminal : i <= j
<1>1. DOMAIN body = 1 .. Len(body) /\ Len(body) \in Nat
    BY DEF SqlInv
<1>2. WithTerminal \subseteq Nat
    BY <1>1 DEF WithTerminal
<1>3. \E i \in WithTerminal : \A j \in WithTerminal : i <= j
    BY <1>2, LeastFacts
<1>4. least \in WithTerminal /\ \A j \in WithTerminal : least <= j
    BY <1>3
<1>5. FirstTerminal = body[least].last
    BY DEF FirstTerminal
<1> QED BY <1>4, <1>5

(* What a statement without a misread predicate is read as.                *)
LEMMA OneStatement ==
  ASSUME SqlInv, Len(body) = 1, ~MisreadOne(body[1])
  PROVE  Inferred = True(body[1])
<1> DEFINE c == body[1]
<1>1. c \in EntChain /\ Compiles(c) /\ DOMAIN body = {1}
  <2>1. DOMAIN body = 1 .. 1
      BY DEF SqlInv
  <2> QED BY <2>1 DEF SqlInv
<1>2. /\ ~MisreadPredicate(c) /\ c.last \notin {"FirstX", "Only"} /\ ~c.clears /\ c.root # "delete"
      /\ ~(c.root = "query" /\ c.last = "Count" /\ c.limit)
      /\ ~(c.root = "create" /\ method # "Create")
      /\ ~(c.root = "update" /\ method = "Create")
      /\ ~(c.root = "update" /\ method = "Delete" /\ c.last = "Exec" /\ c.sets # {"deleted_at"})
    BY DEF MisreadOne
<1>3. /\ c.root \in {"query", "create", "update", "delete"} /\ c.limit \in BOOLEAN
      /\ c.last \in {"All", "First", "Only", "Count", "Save", "Exec", "FirstX"}
    BY <1>1 DEF EntChain
<1>4. Chains = {c}
    BY <1>1 DEF Chains
<1>5. WhereOf(Chains) = c.where
    BY <1>1, <1>2, <1>4, WhereAsItIs
<1>6. SetsOf(Chains) = c.sets
    BY <1>4 DEF SetsOf
<1>7. WithTerminal = {1}
    BY <1>1, <1>2, <1>3 DEF WithTerminal, Terminal
<1>8. FirstTerminal = c.last
    BY <1>7, FirstIsFirst
<1>9. Inferred = ToSql(c.last, Chains)
    BY <1>7, <1>8 DEF Inferred
<1>10. (\E d \in Chains : d.limit) <=> c.limit
    BY <1>4
<1> HIDE DEF c
<1>11. CASE c.root = "query"
  <2>1. c.last \in {"All", "First", "Count"}
      BY <1>1, <1>2, <1>3, <1>11 DEF Compiles
  <2>2. CASE c.last = "All"
    <3>1. ToSql(c.last, Chains) = Sql("SELECT", c.where, {}, IF c.limit THEN "n" ELSE "none")
        BY <1>5, <1>10, <2>2 DEF ToSql
    <3>2. True(c) = Sql("SELECT", c.where, {}, IF c.limit THEN "n" ELSE "none")
        BY <1>11, <2>2 DEF True
    <3> QED BY <1>9, <3>1, <3>2 DEF c
  <2>3. CASE c.last = "First"
    <3>1. ToSql(c.last, Chains) = Sql("SELECT", c.where, {}, "1")
        BY <1>5, <2>3 DEF ToSql
    <3>2. True(c) = Sql("SELECT", c.where, {}, "1")
        BY <1>11, <2>3 DEF True
    <3> QED BY <1>9, <3>1, <3>2 DEF c
  <2>4. CASE c.last = "Count"
    <3>1. ToSql(c.last, Chains) = Sql("COUNT", c.where, {}, "none")
        BY <1>5, <2>4 DEF ToSql
    <3>2. True(c) = Sql("COUNT", c.where, {}, "none")
        BY <1>2, <1>11, <2>4 DEF True
    <3> QED BY <1>9, <3>1, <3>2 DEF c
  <2> QED BY <2>1, <2>2, <2>3, <2>4
<1>12. CASE c.root = "create"
  <2>1. c.last \in {"Save", "Exec"} /\ method = "Create"
      BY <1>1, <1>2, <1>12 DEF Compiles
  <2>2. ToSql(c.last, Chains) = WriteSql(c.last, Chains)
      BY <2>1 DEF ToSql
  <2>3. WriteSql(c.last, Chains) = Sql("INSERT", {}, c.sets, "none")
      BY <1>6, <2>1 DEF WriteSql
  <2>4. True(c) = Sql("INSERT", {}, c.sets, "none")
      BY <1>12 DEF True
  <2> QED BY <1>9, <2>2, <2>3, <2>4 DEF c
<1>13. CASE c.root = "update"
  <2>1. c.last \in {"Save", "Exec"} /\ method # "Create"
      BY <1>1, <1>2, <1>13 DEF Compiles
  <2>2. ToSql(c.last, Chains) = WriteSql(c.last, Chains)
      BY <2>1 DEF ToSql
  <2>3. WriteSql(c.last, Chains) = Sql("UPDATE", c.where, c.sets, "none")
      BY <1>2, <1>5, <1>6, <1>13, <2>1 DEF WriteSql
  <2>4. True(c) = Sql("UPDATE", c.where, c.sets, "none")
      BY <1>2, <1>13 DEF True
  <2> QED BY <1>9, <2>2, <2>3, <2>4 DEF c
<1> QED BY <1>2, <1>3, <1>11, <1>12, <1>13

LEMMA SqlIsKnown == SqlInv => SqlKnown
BY OneStatement DEF SqlInv, SqlKnown

(* The terminal of the body is that of its first chain that has one.       *)
LEMMA InferredFrom ==
  ASSUME SqlInv, WithTerminal # {}
  PROVE  Inferred = ToSql(FirstTerminal, Chains) /\ FirstTerminal \in Terminal
<1>1. PICK i \in WithTerminal : FirstTerminal = body[i].last
    BY FirstIsFirst
<1> QED BY <1>1 DEF Inferred, WithTerminal

LEMMA ChainAt == ASSUME SqlInv, NEW i \in DOMAIN body
                 PROVE  body[i] \in EntChain /\ Compiles(body[i]) /\ body[i] \in Chains /\ i \in Nat
BY DEF SqlInv, Chains

(* A scan of the whole table is one when it comes first and no other chain *)
(* has a predicate or a limit.                                             *)
LEMMA ScanIsReported ==
  ASSUME SqlInv, warned # "unread", NEW i \in DOMAIN body, Scans(body[i]),
         \A j \in DOMAIN body \ {i} : body[j].where = {} /\ ~body[j].limit /\ ~(j < i)
  PROVE  warned = "warn"
<1>1. body[i].where = {} /\ body[i].last \in {"All", "Count"} /\ (body[i].last = "All" => ~body[i].limit)
    BY DEF Scans
<1>2. i \in WithTerminal
    BY <1>1 DEF WithTerminal, Terminal
<1>3. PICK k \in WithTerminal : FirstTerminal = body[k].last /\ \A j \in WithTerminal : k <= j
    BY <1>2, FirstIsFirst
<1>4. k = i
  <2>1. k <= i /\ k \in DOMAIN body
      BY <1>2, <1>3 DEF WithTerminal
  <2>2. k \in Nat /\ i \in Nat
      BY <2>1, ChainAt
  <2> QED BY <2>1, <2>2
<1>5. WhereOf(Chains) = {}
  <2>1. \A c \in Chains : c.where = {}
      BY <1>1 DEF Chains
  <2> QED BY <2>1 DEF WhereOf
<1>6. derived = ToSql(FirstTerminal, Chains) /\ warned = ScanRisk(derived)
    BY <1>2, InferredFrom DEF SqlInv
<1>7. CASE body[i].last = "All"
  <2>1. ~ \E c \in Chains : c.limit
      BY <1>1, <1>7 DEF Chains
  <2>2. derived = Sql("SELECT", {}, {}, "none")
      BY <1>3, <1>4, <1>5, <1>6, <1>7, <2>1 DEF ToSql
  <2>3. derived.verb = "SELECT" /\ derived.where = {} /\ derived.limit = "none"
      BY <2>2 DEF Sql
  <2> QED BY <1>6, <2>3 DEF ScanRisk
<1>8. CASE body[i].last = "Count"
  <2>1. derived = Sql("COUNT", {}, {}, "none")
      BY <1>3, <1>4, <1>5, <1>6, <1>8 DEF ToSql
  <2>2. derived.verb = "COUNT" /\ derived.where = {} /\ derived.limit = "none"
      BY <2>1 DEF Sql
  <2> QED BY <1>6, <2>2 DEF ScanRisk
<1> QED BY <1>1, <1>7, <1>8

(* Only an All or a Count is reported, one whose chains have no predicate  *)
(* that can be read, and an All none with a limit.                         *)
LEMMA ReportedIsScan ==
  ASSUME SqlInv, warned = "warn"
  PROVE  /\ WithTerminal # {} /\ FirstTerminal \in {"All", "Count"}
         /\ WhereOf(Chains) = {}
         /\ FirstTerminal = "All" => \A c \in Chains : ~c.limit
<1>1. derived = Inferred /\ ScanRisk(derived) = "warn"
    BY DEF SqlInv
<1>2. derived.verb \in {"SELECT", "COUNT"} /\ derived.limit = "none" /\ derived.where = {}
    BY <1>1 DEF ScanRisk
<1>3. WithTerminal # {}
    BY <1>1, <1>2 DEF Inferred, NoSql, Sql
<1>4. derived = ToSql(FirstTerminal, Chains) /\ FirstTerminal \in Terminal
    BY <1>1, <1>3, InferredFrom
<1>5. FirstTerminal \notin {"First", "Only"}
  <2>1. ASSUME FirstTerminal \in {"First", "Only"} PROVE derived = Sql("SELECT", WhereOf(Chains), {}, "1")
      BY <1>4, <2>1 DEF ToSql
  <2>2. ASSUME FirstTerminal \in {"First", "Only"} PROVE FALSE
      BY <1>2, <2>1, <2>2 DEF Sql
  <2> QED BY <2>2
<1>6. FirstTerminal \notin {"Save", "Exec"}
  <2>1. ASSUME FirstTerminal \in {"Save", "Exec"} PROVE derived = WriteSql(FirstTerminal, Chains)
      BY <1>4, <2>1 DEF ToSql
  <2>2. WriteSql(FirstTerminal, Chains).verb \in {"INSERT", "UPDATE"}
      BY DEF WriteSql, Sql
  <2> QED BY <1>2, <2>1, <2>2
<1>7. FirstTerminal \in {"All", "Count"}
    BY <1>4, <1>5, <1>6 DEF Terminal
<1>8. CASE FirstTerminal = "All"
  <2>1. derived = Sql("SELECT", WhereOf(Chains), {}, IF \E c \in Chains : c.limit THEN "n" ELSE "none")
      BY <1>4, <1>8 DEF ToSql
  <2> QED BY <1>2, <1>3, <1>7, <2>1 DEF Sql
<1>9. CASE FirstTerminal = "Count"
  <2>1. derived = Sql("COUNT", WhereOf(Chains), {}, "none")
      BY <1>4, <1>9 DEF ToSql
  <2> QED BY <1>2, <1>3, <1>7, <1>9, <2>1 DEF Sql
<1> QED BY <1>7, <1>8, <1>9

LEMMA ReadNothing ==
  ASSUME SqlInv, WhereOf(Chains) = {}, NEW c \in Chains, NEW p \in c.where
  PROVE  p.shape = "opaque"
<1>1. Read(p) = {}
    BY DEF WhereOf
<1> QED BY <1>1 DEF Read

LEMMA ScansAreKnown == SqlInv => FullScansKnown
<1> SUFFICES ASSUME SqlInv, warned # "unread" PROVE FullScansKnown
    BY DEF FullScansKnown
<1>1. ASSUME NEW i \in DOMAIN body, Scans(body[i]), warned # "warn"
      PROVE  \E j \in DOMAIN body \ {i} : body[j].where # {} \/ body[j].limit \/ j < i
    BY <1>1, ScanIsReported
<1>2. ASSUME warned = "warn"
      PROVE  \E i \in DOMAIN body : Scans(body[i]) \/ \E p \in body[i].where : p.shape = "opaque"
  <2>1. PICK i \in WithTerminal : FirstTerminal = body[i].last
      BY <1>2, ReportedIsScan, FirstIsFirst
  <2>2. i \in DOMAIN body /\ body[i] \in Chains
      BY <2>1 DEF WithTerminal, Chains
  <2>3. /\ body[i].last \in {"All", "Count"} /\ (body[i].last = "All" => ~body[i].limit)
        /\ \A p \in body[i].where : p.shape = "opaque"
      BY <1>2, <2>1, <2>2, ReportedIsScan, ReadNothing
  <2>4. body[i].root = "query"
      BY <2>2, <2>3, ChainAt DEF Compiles, EntChain
  <2> QED BY <2>2, <2>3, <2>4 DEF Scans
<1> QED BY <1>1, <1>2 DEF FullScansKnown

(* An update of a hook that sets columns is one of its statements.         *)
LEMMA HooksAreKnown == SqlInv => HooksKnown
<1> SUFFICES ASSUME SqlInv, warned # "unread", NEW c \in Chains,
                    ~c.registers, ~MisreadPredicate(c), c.root = "update", c.sets # {}, ~c.clears
             PROVE  True(c) \in hooked
    BY DEF HooksKnown
<1>1. c \in EntChain /\ Compiles(c)
    BY ChainAt DEF Chains
<1>2. c.last \in {"Save", "Exec"}
    BY <1>1 DEF Compiles
<1>3. HookSql(c) = {Sql("UPDATE", c.where, c.sets, "none")}
    BY <1>1, <1>2, WhereAsItIs DEF HookSql
<1>4. True(c) = Sql("UPDATE", c.where, c.sets, "none")
    BY DEF True
<1>5. hooked = UNION {HookSql(d) : d \in {e \in Chains : ~e.registers}}
    BY DEF SqlInv, Hooked
<1> QED BY <1>3, <1>4, <1>5

(* A finite set with at most one member.                                   *)
LEMMA AtMostOne ==
  ASSUME NEW S, IsFiniteSet(S), ~(Cardinality(S) > 1), NEW a \in S, NEW b \in S
  PROVE  a = b
<1> SUFFICES ASSUME a # b PROVE FALSE
    OBVIOUS
<1>1. IsFiniteSet({a}) /\ Cardinality({a}) = 1
    BY FS_Singleton
<1>2. IsFiniteSet({a} \cup {b}) /\ Cardinality({a} \cup {b}) = Cardinality({a}) + 1
    BY <1>1, FS_AddElement
<1>3. {a} \cup {b} \in SUBSET S
    OBVIOUS
<1>4. Cardinality({a} \cup {b}) <= Cardinality(S) /\ Cardinality(S) \in Nat
    BY <1>3, FS_Subset, FS_CardinalityType
<1> QED BY <1>1, <1>2, <1>4
-----------------------------------------------------------------------------
(* PerfRedis: the tables hold what some declaration says, a variable is    *)
(* assigned before it is used, and the hints are those of the calls.       *)
ShownCalls == [i \in Calls |-> [key |-> KeyHint(Resolved(KeyArg(ReadCall(i)))),
                           ttls |-> IF ReadCall(i).ctx THEN TtlHints(ReadCall(i).ttl) ELSE {Unresolved}]]
TtlSource == ttlFuncs # 0 => \E d \in Declared("ttl") : ttlFuncs \in Value(decls[d].uses)
TablesInv ==
  /\ decls \in Seq(Decl)
  /\ consts \in [ConstName -> 0 .. 2]
  /\ \A n \in ConstName : consts[n] # 0 => consts[n] \in Value(n)
  /\ IF Declared("key") = {} THEN keyFuncs = Nothing
     ELSE \E d \in Declared("key") : keyFuncs = [prefix |-> decls[d].prefix, params |-> decls[d].params]
  /\ TtlSource
CallsInv ==
  /\ lines \in Seq(Line)
  /\ \A i \in Calls : lines[i].key[1] = "variable" => \E j \in Assigns : j < i
  /\ hints # <<>> => hints = ShownCalls
RedisInv == TablesInv /\ CallsInv

LEMMA RedisInitInv == RedisInit => RedisInv
<1> SUFFICES ASSUME RedisInit PROVE RedisInv
    OBVIOUS
<1>1. DOMAIN decls = {} /\ DOMAIN lines = {} /\ decls \in Seq(Decl) /\ lines \in Seq(Line)
    BY DEF RedisInit
<1>2. Declared("key") = {} /\ Calls = {}
    BY <1>1 DEF Declared, Calls
<1>3. consts \in [ConstName -> 0 .. 2] /\ \A n \in ConstName : consts[n] = 0
    BY DEF RedisInit
<1>4. TablesInv
    BY <1>1, <1>2, <1>3 DEF RedisInit, TablesInv, TtlSource
<1>5. CallsInv
    BY <1>1, <1>2 DEF RedisInit, CallsInv
<1> QED BY <1>4, <1>5 DEF RedisInv

(* A declaration more: those of before stay where they are.                *)
LEMMA DeclaredMore ==
  ASSUME TablesInv, NEW d \in Decl, decls' = Append(decls, d)
  PROVE  /\ decls' \in Seq(Decl)
         /\ \A i \in DOMAIN decls : i \in DOMAIN decls' /\ decls'[i] = decls[i]
         /\ DOMAIN decls' = DOMAIN decls \cup {Len(decls) + 1}
         /\ decls'[Len(decls) + 1] = d
BY DEF TablesInv

LEMMA ValuesGrow ==
  ASSUME TablesInv, NEW d \in Decl, decls' = Append(decls, d), NEW n \in ConstName
  PROVE  /\ Value(n) \subseteq Value(n)'
         /\ (d.kind = "const" /\ d.name = n) => d.value \in Value(n)'
<1>1. /\ \A i \in DOMAIN decls : i \in DOMAIN decls' /\ decls'[i] = decls[i]
      /\ Len(decls) + 1 \in DOMAIN decls' /\ decls'[Len(decls) + 1] = d
    BY DeclaredMore
<1> DEFINE new == Len(decls) + 1
<1> HIDE DEF new
<1>2. new \in DOMAIN decls' /\ decls'[new] = d
    BY <1>1 DEF new
<1>3. \A i \in Declared("const") : i \in Declared("const")' /\ decls'[i] = decls[i]
    BY <1>1 DEF Declared
<1>4. d.kind = "const" => new \in Declared("const")'
    BY <1>2 DEF Declared
<1>5. Value(n) \subseteq Value(n)'
    BY <1>3 DEF Value
<1>6. d.kind = "const" /\ d.name = n => d.value \in Value(n)'
    BY <1>2, <1>4 DEF Value
<1> QED BY <1>5, <1>6

LEMMA DeclTypes == \A d \in Decl : /\ d.kind \in {"const", "key", "ttl"}
                                   /\ d.kind = "const" => d.name \in ConstName /\ d.value \in {1, 2}
                                   /\ d.kind = "key" => d.prefix \in {"a", "b"} /\ d.params \in {1, 2}
                                   /\ d.kind = "ttl" => d.uses \in ConstName
BY DEF Decl

LEMMA ScannedTables ==
  ASSUME TablesInv, NEW d \in Decl, decls' = Append(decls, d),
         consts' = Evaluated(d), keyFuncs' = Template(d), ttlFuncs' = DefaultInt(d)
  PROVE  TablesInv'
<1> DEFINE new == Len(decls) + 1
<1>1. /\ decls' \in Seq(Decl)
      /\ \A i \in DOMAIN decls : i \in DOMAIN decls' /\ decls'[i] = decls[i]
      /\ DOMAIN decls' = DOMAIN decls \cup {new} /\ decls'[new] = d
    BY DeclaredMore
<1> HIDE DEF new
<1>2. consts' \in [ConstName -> 0 .. 2]
    BY DeclTypes DEF TablesInv, Evaluated
<1>3. ASSUME NEW n \in ConstName, consts'[n] # 0 PROVE consts'[n] \in Value(n)'
  <2>1. CASE d.kind = "const" /\ d.name = n
    <3>1. consts'[n] = d.value
        BY <2>1, DeclTypes DEF TablesInv, Evaluated
    <3> QED BY <2>1, <3>1, ValuesGrow
  <2>2. CASE ~(d.kind = "const" /\ d.name = n)
    <3>1. consts'[n] = consts[n]
        BY <2>2, DeclTypes DEF TablesInv, Evaluated
    <3> QED BY <1>3, <3>1, ValuesGrow DEF TablesInv
  <2> QED BY <2>1, <2>2
<1>4. \A kind : Declared(kind)' = Declared(kind) \cup (IF d.kind = kind THEN {new} ELSE {})
    BY <1>1 DEF Declared
<1>5. IF Declared("key")' = {} THEN keyFuncs' = Nothing
      ELSE \E k \in Declared("key")' : keyFuncs' = [prefix |-> decls'[k].prefix, params |-> decls'[k].params]
  <2>1. CASE d.kind = "key"
    <3>1. new \in Declared("key")'
        BY <1>4, <2>1
    <3>2. keyFuncs' = [prefix |-> decls'[new].prefix, params |-> decls'[new].params]
        BY <1>1, <2>1 DEF Template
    <3> QED BY <3>1, <3>2
  <2>2. CASE d.kind # "key"
    <3>1. Declared("key")' = Declared("key") /\ keyFuncs' = keyFuncs
        BY <1>4, <2>2 DEF Template
    <3>2. \A k \in Declared("key") : decls'[k] = decls[k]
        BY <1>1 DEF Declared
    <3> QED BY <3>1, <3>2 DEF TablesInv
  <2> QED BY <2>1, <2>2
<1>6. TtlSource'
  <2> SUFFICES ASSUME ttlFuncs' # 0
               PROVE  \E k \in Declared("ttl")' : \E n \in ConstName : n = decls'[k].uses /\ ttlFuncs' \in Value(n)'
      BY DEF TtlSource, Value
  <2>1. CASE d.kind = "ttl" /\ consts[d.uses] # 0
    <3>1. new \in Declared("ttl")' /\ decls'[new].uses = d.uses
        BY <1>1, <1>4, <2>1
    <3>2. d.uses \in ConstName /\ ttlFuncs' = consts[d.uses]
        BY <2>1, DeclTypes DEF DefaultInt
    <3>3. ttlFuncs' \in Value(d.uses)
        BY <2>1, <3>2 DEF TablesInv
    <3>4. ttlFuncs' \in Value(d.uses)'
        BY <3>2, <3>3, ValuesGrow
    <3> QED BY <3>1, <3>2, <3>4
  <2>2. CASE ~(d.kind = "ttl" /\ consts[d.uses] # 0)
    <3>1. ttlFuncs' = ttlFuncs
        BY <2>2 DEF DefaultInt
    <3>2. PICK k \in Declared("ttl") : ttlFuncs \in Value(decls[k].uses)
        BY <3>1 DEF TablesInv, TtlSource
    <3>3. k \in Declared("ttl")' /\ decls'[k] = decls[k] /\ decls[k].uses \in ConstName
      <4>1. k \in DOMAIN decls /\ decls[k] \in Decl /\ decls[k].kind = "ttl"
          BY <3>2 DEF Declared, TablesInv
      <4> QED BY <1>1, <1>4, <3>2, <4>1, DeclTypes
    <3>4. ttlFuncs' \in Value(decls[k].uses)'
        BY <3>1, <3>2, <3>3, ValuesGrow
    <3> QED BY <3>3, <3>4
  <2> QED BY <2>1, <2>2
<1> QED BY <1>1, <1>2, <1>3, <1>5, <1>6 DEF TablesInv

LEMMA LineTypes == \A l \in Line : l.do = "call" => l.ttl \in TtlExpr /\ l.ctx \in BOOLEAN
BY DEF Line

LEMMA WrittenLine ==
  ASSUME CallsInv, WriteLine
  PROVE  CallsInv'
<1>1. PICK l \in Line :
        /\ l.do = "call" /\ l.key[1] = "variable" => \E i \in DOMAIN lines : lines[i].do = "assign"
        /\ lines' = Append(lines, l)
    BY DEF WriteLine
<1> DEFINE new == Len(lines) + 1
<1>2. /\ lines' \in Seq(Line)
      /\ \A i \in DOMAIN lines : i \in DOMAIN lines' /\ lines'[i] = lines[i] /\ i < new
      /\ DOMAIN lines' = DOMAIN lines \cup {new} /\ lines'[new] = l
    BY <1>1 DEF CallsInv
<1> HIDE DEF new
<1>3. \A j \in Assigns : j \in Assigns' /\ j < new
    BY <1>2 DEF Assigns
<1>4. ASSUME NEW i \in Calls', lines'[i].key[1] = "variable" PROVE \E j \in Assigns' : j < i
  <2>1. CASE i = new
      BY <1>1, <1>2, <1>3, <1>4, <2>1 DEF Calls, Assigns
  <2>2. CASE i \in DOMAIN lines
    <3>1. i \in Calls /\ lines[i].key[1] = "variable"
        BY <1>2, <1>4, <2>2 DEF Calls
    <3> QED BY <1>3, <3>1 DEF CallsInv
  <2> QED BY <1>2, <2>1, <2>2 DEF Calls
<1>5. hints' = <<>>
    BY DEF WriteLine
<1> QED BY <1>2, <1>4, <1>5 DEF CallsInv

LEMMA HintsStay ==
  ASSUME UNCHANGED <<consts, keyFuncs, ttlFuncs, lines>>
  PROVE  ShownCalls' = ShownCalls /\ Calls' = Calls /\ Assigns' = Assigns
<1>1. Calls' = Calls /\ Assigns' = Assigns
    BY DEF Calls, Assigns
<1>2. \A i : ReadCall(i)' = ReadCall(i)
    BY <1>1 DEF ReadCall
<1>3. \A i : KeyHint(Resolved(KeyArg(ReadCall(i))))' = KeyHint(Resolved(KeyArg(ReadCall(i))))
    BY <1>1, <1>2 DEF KeyHint, Resolved, KeyArg
<1>4. \A i : TtlHints(ReadCall(i).ttl)' = TtlHints(ReadCall(i).ttl)
    BY <1>2 DEF TtlHints
<1> QED BY <1>1, <1>2, <1>3, <1>4 DEF ShownCalls

LEMMA RedisStepInv == RedisInv /\ [RedisNext]_redisVars => RedisInv'
<1> SUFFICES ASSUME RedisInv, [RedisNext]_redisVars PROVE RedisInv'
    OBVIOUS
<1>1. CASE ScanDecl
  <2>1. PICK d \in Decl : /\ decls' = Append(decls, d) /\ consts' = Evaluated(d)
                          /\ keyFuncs' = Template(d) /\ ttlFuncs' = DefaultInt(d)
      BY <1>1 DEF ScanDecl
  <2>2. TablesInv'
      BY <2>1, ScannedTables DEF RedisInv
  <2>3. lines' = lines /\ hints' = <<>>
      BY <1>1 DEF ScanDecl
  <2>4. CallsInv'
      BY <2>3 DEF RedisInv, CallsInv, Calls, Assigns
  <2> QED BY <2>2, <2>4 DEF RedisInv
<1>2. CASE WriteLine
  <2>1. UNCHANGED <<decls, consts, keyFuncs, ttlFuncs>>
      BY <1>2 DEF WriteLine
  <2>2. TablesInv'
      BY <2>1 DEF RedisInv, TablesInv, TtlSource, Declared, Value
  <2> QED BY <1>2, <2>2, WrittenLine DEF RedisInv
<1>3. CASE ShowCalls
  <2>1. UNCHANGED <<decls, consts, keyFuncs, ttlFuncs, lines>> /\ hints' = ShownCalls
      BY <1>3 DEF ShowCalls, ShownCalls
  <2>2. TablesInv'
      BY <2>1 DEF RedisInv, TablesInv, TtlSource, Declared, Value
  <2>3. ShownCalls' = ShownCalls /\ Calls' = Calls /\ Assigns' = Assigns
      BY <2>1, HintsStay
  <2>4. CallsInv'
      BY <2>1, <2>3 DEF RedisInv, CallsInv
  <2> QED BY <2>2, <2>4 DEF RedisInv
<1>4. CASE UNCHANGED redisVars
  <2>1. UNCHANGED <<decls, consts, keyFuncs, ttlFuncs, lines, hints>>
      BY <1>4 DEF redisVars
  <2>2. TablesInv'
      BY <2>1 DEF RedisInv, TablesInv, TtlSource, Declared, Value
  <2>3. ShownCalls' = ShownCalls /\ Calls' = Calls /\ Assigns' = Assigns
      BY <2>1, HintsStay
  <2>4. CallsInv'
      BY <2>1, <2>3 DEF RedisInv, CallsInv
  <2> QED BY <2>2, <2>4 DEF RedisInv
<1> QED BY <1>1, <1>2, <1>3, <1>4 DEF RedisNext

THEOREM RedisAlwaysInv == RedisSpec => []RedisInv
BY RedisInitInv, RedisStepInv, PTL DEF RedisSpec

(* A call that is the only one of its method is the one that is read.      *)
LEMMA OwnCall ==
  ASSUME CallsInv, NEW i \in Calls, ~ \E j \in Calls \ {i} : lines[j].method = lines[i].method
  PROVE  ReadCall(i) = lines[i]
<1>1. {j \in Calls : lines[j].method = lines[i].method} = {i}
    OBVIOUS
<1>2. i \in Nat
    BY DEF CallsInv, Calls
<1>3. Earliest({i}) = i
    BY <1>2 DEF Earliest
<1> QED BY <1>1, <1>3 DEF ReadCall

LEMMA HintOf ==
  ASSUME CallsInv, NEW i \in DOMAIN hints
  PROVE  /\ i \in Calls
         /\ hints[i].key = KeyHint(Resolved(KeyArg(ReadCall(i))))
         /\ hints[i].ttls = IF ReadCall(i).ctx THEN TtlHints(ReadCall(i).ttl) ELSE {Unresolved}
<1>1. hints # <<>>
    OBVIOUS
<1>2. hints = ShownCalls
    BY <1>1 DEF CallsInv
<1> QED BY <1>2 DEF ShownCalls

LEMMA TtlsAreKnown == RedisInv => TtlsKnown
<1> SUFFICES ASSUME RedisInv, NEW i \in DOMAIN hints, ~TtlMisread(i)
             PROVE  hints[i].ttls \subseteq TrueTtl(i) \cup {Unresolved}
    BY DEF TtlsKnown
<1> DEFINE expr == lines[i].ttl
           within == {consts[c] : c \in {n \in ConstName : consts[n] # 0 /\ HasPart(expr[2], n)}}
<1>1. i \in Calls /\ ReadCall(i) = lines[i]
    BY HintOf, OwnCall DEF RedisInv, TtlMisread
<1>2. CASE ~lines[i].ctx
    BY <1>1, <1>2, HintOf DEF RedisInv
<1>3. CASE lines[i].ctx
  <2>1. hints[i].ttls = TtlHints(expr)
      BY <1>1, <1>3, HintOf DEF RedisInv
  <2>2. lines[i] \in Line /\ lines[i].do = "call"
      BY <1>1 DEF RedisInv, CallsInv, Calls
  <2>3. expr \in TtlExpr
      BY <2>2, LineTypes
  <2>4. ASSUME NEW n \in ConstName, consts[n] # 0, HasPart(expr[2], n)
        PROVE  n = expr[2] /\ consts[n] \in Value(n)
    <3>1. consts[n] \in Value(n)
        BY <2>4 DEF RedisInv, TablesInv
    <3>2. \E d \in Declared("const") : decls[d].name = n
        BY <3>1 DEF Value
    <3> QED BY <2>4, <3>1, <3>2 DEF TtlMisread
  <2>5. within \subseteq Value(expr[2])
      BY <2>4
  <2>6. CASE expr[1] = "selector"
    <3>1. TtlHints(expr) = {Unresolved}
        BY <2>6 DEF TtlHints
    <3> QED BY <2>1, <3>1
  <2>7. CASE expr[1] = "name"
    <3>1. TtlHints(expr) \subseteq within \cup {Unresolved}
        BY <2>7 DEF TtlHints
    <3>2. TrueTtl(i) = Value(expr[2])
        BY <2>7 DEF TrueTtl
    <3> HIDE DEF within, expr
    <3> QED BY <2>1, <2>5, <3>1, <3>2
  <2>8. CASE expr[1] = "call"
    <3>1. expr[2] = TtlFunc
        BY <2>3, <2>8 DEF TtlExpr
    <3>2. TtlFunc \notin ConstName
        BY DEF TtlFunc, ConstName
    <3>3. within = {}
        BY <2>4, <3>1, <3>2
    <3>4. TtlHints(expr) = {ttlFuncs}
        BY <2>8, <3>3 DEF TtlHints
    <3>5. ttlFuncs = 0 \/ ttlFuncs \in TrueTtl(i)
        BY <2>8 DEF RedisInv, TablesInv, TtlSource, TrueTtl
    <3> QED BY <2>1, <3>4, <3>5 DEF Unresolved
  <2>9. expr[1] \in {"name", "selector", "call"}
      BY <2>3 DEF TtlExpr
  <2> QED BY <2>6, <2>7, <2>8, <2>9
<1>4. lines[i].ctx \in BOOLEAN
    BY <1>1, LineTypes DEF RedisInv, CallsInv, Calls
<1> QED BY <1>2, <1>3, <1>4

LEMMA OneKeyFunction ==
  ASSUME TablesInv, ~(Cardinality(Declared("key")) > 1), Declared("key") # {}
  PROVE  LET d == decls[Earliest(Declared("key"))]
         IN keyFuncs = [prefix |-> d.prefix, params |-> d.params] /\ keyFuncs # Nothing
<1>1. PICK k \in Declared("key") : keyFuncs = [prefix |-> decls[k].prefix, params |-> decls[k].params]
    BY DEF TablesInv
<1>2. DOMAIN decls = 1 .. Len(decls) /\ Len(decls) \in Nat
    BY DEF TablesInv
<1>3. IsFiniteSet(Declared("key"))
  <2>1. IsFiniteSet(1 .. Len(decls))
      BY <1>2, FS_Interval
  <2>2. Declared("key") \in SUBSET (1 .. Len(decls))
      BY <1>2 DEF Declared
  <2> QED BY <2>1, <2>2, FS_Subset
<1>4. Declared("key") = {k}
    BY <1>3, AtMostOne
<1>5. Earliest({k}) = k
    BY <1>2 DEF Earliest, Declared
<1>6. decls[k] \in Decl /\ decls[k].kind = "key"
    BY DEF Declared, TablesInv
<1>7. decls[k].prefix \in {"a", "b"}
    BY <1>6, DeclTypes
<1>8. keyFuncs # Nothing
    BY <1>1, <1>7 DEF Nothing
<1> QED BY <1>1, <1>4, <1>5, <1>8

LEMMA OneVariable ==
  ASSUME CallsInv, ~(Cardinality(Assigns) > 1), NEW i \in Calls
  PROVE  Resolved(lines[i].key) = TrueExpr(i)
<1>1. CASE lines[i].key[1] = "variable"
  <2>1. PICK j \in Assigns : j < i
      BY <1>1 DEF CallsInv
  <2>2. DOMAIN lines = 1 .. Len(lines) /\ Len(lines) \in Nat
      BY DEF CallsInv
  <2>3. IsFiniteSet(Assigns)
    <3>1. IsFiniteSet(1 .. Len(lines))
        BY <2>2, FS_Interval
    <3>2. Assigns \in SUBSET (1 .. Len(lines))
        BY <2>2 DEF Assigns
    <3> QED BY <3>1, <3>2, FS_Subset
  <2>4. Assigns = {j}
      BY <2>3, AtMostOne
  <2>5. j \in Nat
      BY <2>2 DEF Assigns
  <2>6. Earliest(Assigns) = j
      BY <2>4, <2>5 DEF Earliest
  <2>7. {l \in Assigns : l < i} = {j}
      BY <2>1, <2>4
  <2>8. (CHOOSE l \in {j} : \A k \in {j} : k <= l) = j
      BY <2>5
  <2>9. TrueExpr(i) = lines[j].expr
      BY <1>1, <2>7, <2>8 DEF TrueExpr
  <2>10. Resolved(lines[i].key) = lines[j].expr
      BY <1>1, <2>6 DEF Resolved
  <2> QED BY <2>9, <2>10
<1>2. CASE lines[i].key[1] # "variable"
    BY <1>2 DEF Resolved, TrueExpr
<1> QED BY <1>1, <1>2

LEMMA KeysAreKnown == RedisInv => KeysKnown
<1> SUFFICES ASSUME RedisInv, NEW i \in DOMAIN hints, ~KeyMisread(i)
             PROVE  hints[i].key = IF TrueExpr(i)[1] = "keyFunction" /\ Declared("key") # {}
                                   THEN LET d == decls[Earliest(Declared("key"))]
                                        IN <<d.prefix, d.params, TrueExpr(i)[2]>>
                                   ELSE TrueExpr(i)
    BY DEF KeysKnown
<1>1. i \in Calls /\ ReadCall(i) = lines[i]
    BY HintOf, OwnCall DEF RedisInv, KeyMisread
<1>2. KeyArg(lines[i]) = lines[i].key
    BY DEF KeyMisread, KeyArg
<1>3. Resolved(lines[i].key) = TrueExpr(i)
    BY <1>1, OneVariable DEF RedisInv, KeyMisread
<1>4. hints[i].key = KeyHint(TrueExpr(i))
    BY <1>1, <1>2, <1>3, HintOf DEF RedisInv
<1>5. CASE Declared("key") = {}
  <2>1. keyFuncs = Nothing
      BY <1>5 DEF RedisInv, TablesInv
  <2> QED BY <1>4, <1>5, <2>1 DEF KeyHint
<1>6. CASE Declared("key") # {}
  <2> DEFINE d == decls[Earliest(Declared("key"))]
  <2>1. keyFuncs = [prefix |-> d.prefix, params |-> d.params] /\ keyFuncs # Nothing
      BY <1>6, OneKeyFunction DEF RedisInv, KeyMisread
  <2>2. keyFuncs.prefix = d.prefix /\ keyFuncs.params = d.params
      BY <2>1
  <2> HIDE DEF d
  <2>3. hints[i].key = IF TrueExpr(i)[1] = "keyFunction" THEN <<d.prefix, d.params, TrueExpr(i)[2]>> ELSE TrueExpr(i)
      BY <1>4, <2>1, <2>2 DEF KeyHint
  <2> QED BY <1>6, <2>3 DEF d
<1> QED BY <1>5, <1>6

-----------------------------------------------------------------------------
(* What a perf report says of a project, whatever the calls, statements,   *)
(* hooks, declarations and lines: the N+1 findings, the counts of the      *)
(* logic review, the SQL, the full scans, the hooks' updates, the keys and *)
(* the TTLs are those of the code, but in the cases that are named.        *)
THEOREM FindingsAlwaysKnown == FindingsSpec => []FindingsKnown
<1>1. LoopsInv /\ SqlInv /\ RedisInv => FindingsKnown
    BY FoundIsKnown, CountedIsKnown, SqlIsKnown, ScansAreKnown, HooksAreKnown, KeysAreKnown, TtlsAreKnown
       DEF FindingsKnown
<1> QED BY <1>1, LoopsAlwaysInv, SqlAlwaysInv, RedisAlwaysInv, PTL DEF FindingsSpec

-----------------------------------------------------------------------------
(* ApiClients, for every set of fields and any number of changes.          *)

Fields(fs) == fs \subseteq ApiField /\ \A f, g \in fs : f.var = g.var => f = g
Route(r) == Fields(r.fields) /\ r.method \in HttpMethod /\ r.response \in BOOLEAN

(* The server finds the field f, whose tag it looks for, among the puts.   *)
FoundAmong(f, verb, puts) ==
  \E p \in puts : p.var = f.var /\ p.key = "tag" /\ p.place \in ReadAt(verb, f.tag)

(* What is put somewhere under the names of tags is found there only.      *)
LEMMA FoundPut ==
  ASSUME NEW fs, Fields(fs), NEW S \in SUBSET fs, NEW f \in fs, NEW verb, NEW place
  PROVE  FoundAmong(f, verb, Put(S, place)) <=> f \in S /\ place \in ReadAt(verb, f.tag)
<1> DEFINE Placed(g) == [var |-> g.var, place |-> place, key |-> "tag"]
<1>1. \A p : p \in Put(S, place) <=> \E g \in S : p = Placed(g)
    BY DEF Put
<1>2. \A g : Placed(g).var = g.var /\ Placed(g).place = place /\ Placed(g).key = "tag"
    OBVIOUS
<1>3. \A g \in S : g.var = f.var => g = f
    BY DEF Fields
<1> HIDE DEF Placed
<1> QED BY <1>1, <1>2, <1>3 DEF FoundAmong

LEMMA FoundIn ==
  ASSUME NEW f, NEW verb, NEW P, NEW Q
  PROVE  FoundAmong(f, verb, P \cup Q) <=> FoundAmong(f, verb, P) \/ FoundAmong(f, verb, Q)
BY DEF FoundAmong

LEMMA NothingFound == ASSUME NEW f, NEW verb PROVE ~FoundAmong(f, verb, {})
BY DEF FoundAmong

LEMMA Looks ==
  ASSUME NEW verb, NEW f \in ApiField
  PROVE  /\ f.tag \in {"json", "form", "path", "header"}
         /\ f.embedded \in BOOLEAN
         /\ f.tag = "json" => ReadAt(verb, f.tag) = {"body"}
         /\ f.tag = "form" => ReadAt(verb, f.tag) =
              {"query"} \cup IF verb \in {"post", "put", "patch"} THEN {"form"} ELSE {}
         /\ f.tag = "path" => ReadAt(verb, f.tag) = {"path"}
         /\ f.tag = "header" => ReadAt(verb, f.tag) = {"header"}
BY ClientsAssumption DEF ReadAt

(* The same by place.                                                      *)
LEMMA LookedFor ==
  ASSUME NEW verb, NEW f \in ApiField
  PROVE  /\ "path" \in ReadAt(verb, f.tag) <=> f.tag = "path"
         /\ "body" \in ReadAt(verb, f.tag) <=> f.tag = "json"
         /\ "header" \in ReadAt(verb, f.tag) <=> f.tag = "header"
         /\ "query" \in ReadAt(verb, f.tag) <=> f.tag = "form"
         /\ "form" \in ReadAt(verb, f.tag) <=> f.tag = "form" /\ verb \in {"post", "put", "patch"}
         /\ "pattern" \notin ReadAt(verb, f.tag)
<1>1. CASE f.tag = "json"
    <2>1. ReadAt(verb, f.tag) = {"body"}
        BY <1>1, Looks
    <2> QED BY <1>1, <2>1
<1>2. CASE f.tag = "path"
    <2>1. ReadAt(verb, f.tag) = {"path"}
        BY <1>2, Looks
    <2> QED BY <1>2, <2>1
<1>3. CASE f.tag = "header"
    <2>1. ReadAt(verb, f.tag) = {"header"}
        BY <1>3, Looks
    <2> QED BY <1>3, <2>1
<1>4. CASE f.tag = "form"
    <2>1. ReadAt(verb, f.tag) = {"query"} \cup IF verb \in {"post", "put", "patch"} THEN {"form"} ELSE {}
        BY <1>4, Looks
    <2> QED BY <1>4, <2>1
<1> QED BY <1>1, <1>2, <1>3, <1>4, Looks

LEMMA ServedIs ==
  ASSUME NEW r, NEW wire
  PROVE  Served(r, r, wire) <=>
           /\ wire.goes /\ wire.method = r.method
           /\ \A f \in r.fields : FoundAmong(f, r.method, wire.puts)
BY DEF Served, FoundAmong

LEMMA ThreeParts ==
  ASSUME NEW W, NEW a \in Seq(W), NEW b \in Seq(W), NEW c \in Seq(W),
         Len(a) \in {0, 1}, Len(b) \in {0, 1}, Len(c) \in {0, 1}
  PROVE  /\ Len((a \o b) \o c) = Len(a) + Len(b) + Len(c)
         /\ Len(a) = 1 => ((a \o b) \o c)[1] = a[1]
         /\ Len(a) = 0 /\ Len(b) = 1 => ((a \o b) \o c)[1] = b[1]
<1> DEFINE d == a \o b
<1>0. d \in Seq(W)
    BY ConcatProperties
<1>1. /\ Len(d) = Len(a) + Len(b)
      /\ \A i \in 1 .. Len(a) + Len(b) : d[i] = IF i <= Len(a) THEN a[i] ELSE b[i - Len(a)]
    BY ConcatProperties
<1> HIDE DEF d
<1>2. /\ Len(d \o c) = Len(d) + Len(c)
      /\ \A i \in 1 .. Len(d) + Len(c) : (d \o c)[i] = IF i <= Len(d) THEN d[i] ELSE c[i - Len(d)]
    BY <1>0, ConcatProperties
<1>3. Len(a) = 1 => d[1] = a[1] /\ (d \o c)[1] = d[1]
    BY <1>1, <1>2
<1>4. Len(a) = 0 /\ Len(b) = 1 => d[1] = b[1] /\ (d \o c)[1] = d[1]
    BY <1>1, <1>2
<1> QED BY <1>1, <1>2, <1>3, <1>4 DEF d

(* The arguments of the function in TypeScript.                            *)
LEMMA ArgumentsAre ==
  ASSUME NEW fs
  PROVE  /\ HasParams(fs) => Len(Arguments(fs)) > 0 /\ Arguments(fs)[1] = "params"
         /\ ~HasParams(fs) /\ BodyMembers(fs) # {} => Len(Arguments(fs)) > 0 /\ Arguments(fs)[1] = "req"
         /\ ~HasParams(fs) /\ BodyMembers(fs) # {} /\ ~HasTag(fs, "header") => Len(Arguments(fs)) = 1
         /\ HasParams(fs) /\ BodyMembers(fs) = {} /\ ~HasTag(fs, "header") => Len(Arguments(fs)) = 1
         /\ ~HasParams(fs) /\ BodyMembers(fs) = {} /\ ~HasTag(fs, "header") => Len(Arguments(fs)) = 0
<1> DEFINE Word == {"params", "req", "headers"}
           A == IF HasParams(fs) THEN <<"params">> ELSE <<>>
           B == IF BodyMembers(fs) # {} THEN <<"req">> ELSE <<>>
           C == IF HasTag(fs, "header") THEN <<"headers">> ELSE <<>>
<1>1. /\ A \in Seq(Word) /\ B \in Seq(Word) /\ C \in Seq(Word)
      /\ IF HasParams(fs) THEN Len(A) = 1 /\ A[1] = "params" ELSE Len(A) = 0
      /\ IF BodyMembers(fs) # {} THEN Len(B) = 1 /\ B[1] = "req" ELSE Len(B) = 0
      /\ IF HasTag(fs, "header") THEN Len(C) = 1 ELSE Len(C) = 0
    <2>1. \A w \in Word : <<w>> \in Seq(Word) /\ Len(<<w>>) = 1 /\ <<w>>[1] = w
        OBVIOUS
    <2>2. <<>> \in Seq(Word) /\ Len(<<>>) = 0
        OBVIOUS
    <2>3. (A = <<"params">> /\ HasParams(fs)) \/ (A = <<>> /\ ~HasParams(fs))
        OBVIOUS
    <2>4. (B = <<"req">> /\ BodyMembers(fs) # {}) \/ (B = <<>> /\ BodyMembers(fs) = {})
        OBVIOUS
    <2>5. (C = <<"headers">> /\ HasTag(fs, "header")) \/ (C = <<>> /\ ~HasTag(fs, "header"))
        OBVIOUS
    <2>6. "params" \in Word /\ "req" \in Word /\ "headers" \in Word
        OBVIOUS
    <2> HIDE DEF A, B, C, Word
    <2> QED BY <2>1, <2>2, <2>3, <2>4, <2>5, <2>6
<1>2. Arguments(fs) = (A \o B) \o C
    BY DEF Arguments
<1> HIDE DEF A, B, C, Word
<1>3. /\ Len(Arguments(fs)) = Len(A) + Len(B) + Len(C)
      /\ Len(A) = 1 => Arguments(fs)[1] = A[1]
      /\ Len(A) = 0 /\ Len(B) = 1 => Arguments(fs)[1] = B[1]
    BY <1>1, <1>2, ThreeParts
<1>4. ASSUME HasParams(fs) PROVE Len(A) = 1 /\ A[1] = "params"
    BY <1>1, <1>4
<1>5. ASSUME ~HasParams(fs) PROVE Len(A) = 0
    BY <1>1, <1>5
<1>6. ASSUME BodyMembers(fs) # {} PROVE Len(B) = 1 /\ B[1] = "req"
    BY <1>1, <1>6
<1>7. ASSUME BodyMembers(fs) = {} PROVE Len(B) = 0
    BY <1>1, <1>7
<1>8. ASSUME ~HasTag(fs, "header") PROVE Len(C) = 0
    BY <1>1, <1>8
<1>9. Len(B) \in {0, 1} /\ Len(C) \in {0, 1}
    BY <1>1
<1>10. ASSUME HasParams(fs) PROVE Len(Arguments(fs)) > 0 /\ Arguments(fs)[1] = "params"
    BY <1>3, <1>4, <1>9, <1>10
<1>11. ASSUME ~HasParams(fs), BodyMembers(fs) # {} PROVE Len(Arguments(fs)) > 0 /\ Arguments(fs)[1] = "req"
    BY <1>3, <1>5, <1>6, <1>9, <1>11
<1>12. ASSUME ~HasTag(fs, "header") PROVE Len(Arguments(fs)) = Len(A) + Len(B) + 0
    BY <1>3, <1>8, <1>12
<1>13. ASSUME ~HasTag(fs, "header"), ~HasParams(fs), BodyMembers(fs) # {} PROVE Len(Arguments(fs)) = 1
    <2>1. Len(Arguments(fs)) = Len(A) + Len(B) + 0
        BY <1>12, <1>13
    <2>2. Len(A) + Len(B) = 1
        BY <1>5, <1>6, <1>13
    <2> QED BY <2>1, <2>2
<1>14. ASSUME ~HasTag(fs, "header"), HasParams(fs), BodyMembers(fs) = {} PROVE Len(Arguments(fs)) = 1
    <2>1. Len(Arguments(fs)) = Len(A) + Len(B) + 0
        BY <1>12, <1>14
    <2>2. Len(A) + Len(B) = 1
        BY <1>4, <1>7, <1>14
    <2> QED BY <2>1, <2>2
<1>15. ASSUME ~HasTag(fs, "header"), ~HasParams(fs), BodyMembers(fs) = {} PROVE Len(Arguments(fs)) = 0
    <2>1. Len(Arguments(fs)) = Len(A) + Len(B) + 0
        BY <1>12, <1>15
    <2>2. Len(A) + Len(B) = 0
        BY <1>5, <1>7, <1>15
    <2> QED BY <2>1, <2>2
<1> QED BY <1>10, <1>11, <1>13, <1>14, <1>15

(* What the clients of each language send is served exactly as listed.     *)
LEMMA TypeScriptServed ==
  ASSUME Route(api)
  PROVE  Served(api, api, TsSends(api)) <=> TypeScriptServes
<1> DEFINE fs == api.fields
           m == api.method
           args == Arguments(fs)
           puts == TsSends(api).puts
<1>1. Fields(fs) /\ \A f \in fs : f \in ApiField
    BY DEF Route, Fields
<1>2. /\ TsSends(api).goes = (TsCompiles(api) /\ m \in WithBody) /\ TsSends(api).method = m
      /\ puts = Put(Own(fs, "path"), "path")
                \cup IF args = <<>> THEN {} ELSE Put(Holds(fs, args[1]), "body")
    BY DEF TsSends
<1>3. Served(api, api, TsSends(api)) <=>
        /\ TsCompiles(api) /\ m \in WithBody
        /\ \A f \in fs : FoundAmong(f, m, puts)
    BY <1>2, ServedIs
<1>4. TsCompiles(api) <=>
        /\ m # "head" /\ Len(args) \in 1 .. 2
        /\ HasTag(fs, "header") => HasParams(fs)
        /\ \A f \in fs : f.tag = "path" => ~f.embedded
    BY DEF TsCompiles
<1>5. ASSUME NEW f \in fs
      PROVE  /\ FoundAmong(f, m, Put(Own(fs, "path"), "path")) <=> f.tag = "path" /\ ~f.embedded
             /\ FoundAmong(f, m, Put(Own(fs, "form"), "body")) <=> FALSE
             /\ FoundAmong(f, m, Put({g \in fs : g.tag = "json"}, "body")) <=> f.tag = "json"
    <2>1. /\ Own(fs, "path") \in SUBSET fs /\ Own(fs, "form") \in SUBSET fs
          /\ {g \in fs : g.tag = "json"} \in SUBSET fs
        BY DEF Own
    <2>2. /\ FoundAmong(f, m, Put(Own(fs, "path"), "path")) <=> f \in Own(fs, "path") /\ "path" \in ReadAt(m, f.tag)
          /\ FoundAmong(f, m, Put(Own(fs, "form"), "body")) <=> f \in Own(fs, "form") /\ "body" \in ReadAt(m, f.tag)
          /\ FoundAmong(f, m, Put({g \in fs : g.tag = "json"}, "body")) <=>
               f \in {g \in fs : g.tag = "json"} /\ "body" \in ReadAt(m, f.tag)
        BY <1>1, <1>5, <2>1, FoundPut
    <2>3. /\ f \in Own(fs, "path") <=> f.tag = "path" /\ ~f.embedded
          /\ f \in Own(fs, "form") <=> f.tag = "form" /\ ~f.embedded
          /\ f \in {g \in fs : g.tag = "json"} <=> f.tag = "json"
        BY <1>5 DEF Own
    <2>4. /\ "path" \in ReadAt(m, f.tag) <=> f.tag = "path"
          /\ "body" \in ReadAt(m, f.tag) <=> f.tag = "json"
        <3>1. f \in ApiField
            BY <1>1, <1>5
        <3> QED BY <3>1, LookedFor
    <2> QED BY <2>2, <2>3, <2>4
<1> HIDE DEF puts, args
<1>6. CASE HasParams(fs)
    <2>1. Len(args) > 0 /\ args[1] = "params"
        BY <1>6, ArgumentsAre DEF args
    <2>2. args # <<>>
        BY <2>1
    <2>3. puts = Put(Own(fs, "path"), "path") \cup Put(Own(fs, "form"), "body")
        BY <1>2, <2>1, <2>2 DEF Holds
    <2>4. \A f \in fs : FoundAmong(f, m, puts) <=> f.tag = "path" /\ ~f.embedded
        BY <1>5, <2>3, FoundIn
    <2>5. \E f \in fs : TRUE
        BY <1>6 DEF HasParams, BodyMembers, Own
    <2>6. ASSUME TypeScriptServes PROVE Served(api, api, TsSends(api))
        <3>1. \A f \in fs : ~f.embedded
            BY <2>6 DEF TypeScriptServes, Embeds
        <3>2. Tags # {"json"}
            <4> SUFFICES ASSUME Tags = {"json"} PROVE FALSE
                OBVIOUS
            <4>1. \A f \in fs : f.tag = "json"
                BY DEF Tags
            <4>2. fs = BodyMembers(fs)
                BY <3>1, <4>1 DEF BodyMembers, Own
            <4> QED BY <1>6, <4>2 DEF HasParams
        <3>3. \A f \in fs : f.tag = "path"
            BY <2>6, <3>2 DEF TypeScriptServes, Tags
        <3>4. BodyMembers(fs) = {} /\ ~HasTag(fs, "header")
            BY <3>1, <3>3 DEF BodyMembers, HasTag, Own, Embeds
        <3>5. Len(args) = 1
            BY <1>6, <3>4, ArgumentsAre DEF args
        <3>6. m \in WithBody /\ m # "head"
            BY <2>6 DEF TypeScriptServes, WithBody
        <3>7. Len(args) \in 1 .. 2
            BY <3>5
        <3> QED BY <1>3, <1>4, <1>6, <2>4, <3>1, <3>3, <3>6, <3>7
    <2>7. ASSUME Served(api, api, TsSends(api)) PROVE TypeScriptServes
        <3>1. m \in WithBody /\ \A f \in fs : f.tag = "path" /\ ~f.embedded
            BY <1>3, <2>4, <2>7
        <3>2. Tags = {"path"} /\ ~Embeds(fs)
            BY <2>5, <3>1 DEF Tags, Embeds
        <3> QED BY <3>1, <3>2 DEF TypeScriptServes
    <2> QED BY <2>6, <2>7
<1>7. CASE ~HasParams(fs)
    <2>1. fs = BodyMembers(fs)
        BY <1>7 DEF HasParams
    <2>2. \A f \in fs : f.embedded \/ f.tag = "json"
        BY <2>1 DEF BodyMembers, Own
    <2>3. ASSUME fs # {} PROVE \A f \in fs : FoundAmong(f, m, puts) <=> f.tag = "json" \/ (f.tag = "path" /\ ~f.embedded)
        <3>1. Len(args) > 0 /\ args[1] = "req"
            BY <1>7, <2>1, <2>3, ArgumentsAre DEF args
        <3>2. args # <<>>
            BY <3>1
        <3>3. puts = Put(Own(fs, "path"), "path") \cup Put({f \in fs : f.tag = "json"}, "body")
            BY <1>2, <3>1, <3>2 DEF Holds
        <3> QED BY <1>5, <3>3, FoundIn
    <2>4. ASSUME TypeScriptServes PROVE Served(api, api, TsSends(api))
        <3>1. \A f \in fs : f.tag = "json" /\ ~f.embedded
            BY <2>2, <2>4 DEF TypeScriptServes, Embeds, Tags
        <3>2. fs # {} /\ ~HasTag(fs, "header")
            BY <2>4, <3>1 DEF TypeScriptServes, Tags, HasTag, Own, Embeds
        <3>3. Len(args) = 1
            BY <1>7, <2>1, <3>2, ArgumentsAre DEF args
        <3>4. Len(args) \in 1 .. 2
            BY <3>3
        <3>5. m \in WithBody /\ m # "head"
            BY <2>4 DEF TypeScriptServes, WithBody
        <3> QED BY <1>3, <1>4, <2>3, <3>1, <3>2, <3>4, <3>5
    <2>5. ASSUME Served(api, api, TsSends(api)) PROVE TypeScriptServes
        <3>1. m \in WithBody /\ ~HasTag(fs, "header") /\ Len(args) \in 1 .. 2
            BY <1>3, <1>4, <1>7, <2>5
        <3>2. fs # {}
            <4> SUFFICES ASSUME fs = {} PROVE FALSE
                OBVIOUS
            <4>1. Len(args) = 0
                BY <1>7, <2>1, <3>1, ArgumentsAre DEF args
            <4> QED BY <3>1, <4>1
        <3>3. \A f \in fs : ~f.embedded
            BY <3>1 DEF HasTag, Embeds
        <3>4. Tags = {"json"} /\ ~Embeds(fs)
            BY <2>2, <3>2, <3>3 DEF Tags, Embeds
        <3> QED BY <3>1, <3>4 DEF TypeScriptServes
    <2> QED BY <2>4, <2>5
<1> QED BY <1>6, <1>7

LEMMA DartServed ==
  ASSUME Route(api), disk.of = api, disk.whole, ~Embeds(api.fields)
  PROVE  Served(api, api, DartSends(disk)) <=> DartServes
<1> DEFINE fs == api.fields
           m == api.method
           puts == DartSends(disk).puts
<1>1. Fields(fs) /\ \A f \in fs : f \in ApiField
    BY DEF Route, Fields
<1>2. /\ DartSends(disk).goes = (DartCompiles(disk) /\ (m = "get" \/ \A f \in fs : f.type # "objects"))
      /\ DartSends(disk).method = IF m = "get" THEN "get" ELSE "post"
      /\ puts = Put(Own(fs, "path"), "path") \cup IF m = "get" THEN {} ELSE Put(fs, "body")
    BY DEF DartSends
<1>3. Served(api, api, DartSends(disk)) <=>
        /\ DartCompiles(disk) /\ (m = "get" \/ \A f \in fs : f.type # "objects")
        /\ m \in {"get", "post"}
        /\ \A f \in fs : FoundAmong(f, m, puts)
    <2>1. DartSends(disk).method = m <=> m \in {"get", "post"}
        BY <1>2
    <2> QED BY <1>2, <2>1, ServedIs
<1>4. DartCompiles(disk) <=>
        /\ disk.tokens = "v2" /\ disk.wire = "v2"
        /\ \A f \in fs : f.type # "any"
        /\ m = "get" \/ fs # {}
    BY DEF DartCompiles
<1>5. ASSUME NEW f \in fs
      PROVE  /\ FoundAmong(f, m, Put(Own(fs, "path"), "path")) <=> f.tag = "path"
             /\ FoundAmong(f, m, Put(fs, "body")) <=> f.tag = "json"
    <2>1. Own(fs, "path") \in SUBSET fs /\ fs \in SUBSET fs /\ f \in ApiField
        BY <1>1, <1>5 DEF Own
    <2>2. /\ FoundAmong(f, m, Put(Own(fs, "path"), "path")) <=> f \in Own(fs, "path") /\ "path" \in ReadAt(m, f.tag)
          /\ FoundAmong(f, m, Put(fs, "body")) <=> f \in fs /\ "body" \in ReadAt(m, f.tag)
        BY <1>1, <1>5, <2>1, FoundPut
    <2>3. f \in Own(fs, "path") <=> f.tag = "path"
        BY <1>5 DEF Own, Embeds
    <2>4. /\ "path" \in ReadAt(m, f.tag) <=> f.tag = "path"
          /\ "body" \in ReadAt(m, f.tag) <=> f.tag = "json"
        BY <2>1, LookedFor
    <2> QED BY <1>5, <2>2, <2>3, <2>4
<1> HIDE DEF puts
<1>6. CASE m = "get"
    <2>1. puts = Put(Own(fs, "path"), "path")
        BY <1>2, <1>6
    <2>2. \A f \in fs : FoundAmong(f, m, puts) <=> f.tag = "path"
        BY <1>5, <2>1
    <2>3. Served(api, api, DartSends(disk)) <=>
            /\ disk.tokens = "v2" /\ disk.wire = "v2"
            /\ \A f \in fs : f.type # "any"
            /\ \A f \in fs : f.tag = "path"
        BY <1>3, <1>4, <1>6, <2>2
    <2> QED BY <1>6, <2>3 DEF DartServes, Tags, Types
<1>7. CASE m = "post"
    <2>1. puts = Put(Own(fs, "path"), "path") \cup Put(fs, "body")
        BY <1>2, <1>7
    <2>2. \A f \in fs : FoundAmong(f, m, puts) <=> f.tag \in {"path", "json"}
        BY <1>5, <2>1, FoundIn
    <2>3. Served(api, api, DartSends(disk)) <=>
            /\ disk.tokens = "v2" /\ disk.wire = "v2" /\ fs # {}
            /\ \A f \in fs : f.type # "any"
            /\ \A f \in fs : f.type # "objects"
            /\ \A f \in fs : f.tag \in {"path", "json"}
        BY <1>3, <1>4, <1>7, <2>2
    <2> QED BY <1>7, <2>3 DEF DartServes, Tags, Types
<1>8. CASE m \notin {"get", "post"}
    BY <1>3, <1>8 DEF DartServes
<1> QED BY <1>6, <1>7, <1>8

(* What is put somewhere under names of a table.                           *)
PutAs(fs, place, key) == {[var |-> g.var, place |-> place, key |-> key[g]] : g \in fs}

LEMMA FoundNamed ==
  ASSUME NEW fs, Fields(fs), NEW S \in SUBSET fs, NEW f \in fs, NEW verb, NEW place, NEW key
  PROVE  FoundAmong(f, verb, PutAs(S, place, key))
           <=> f \in S /\ key[f] = "tag" /\ place \in ReadAt(verb, f.tag)
<1> DEFINE Placed(g) == [var |-> g.var, place |-> place, key |-> key[g]]
           P == {Placed(g) : g \in S}
<1>1. \A p : p \in P <=> \E g \in S : p = Placed(g)
    OBVIOUS
<1>2. \A g : Placed(g).var = g.var /\ Placed(g).place = place /\ Placed(g).key = key[g]
    OBVIOUS
<1>3. \A g \in S : g.var = f.var => g = f
    BY DEF Fields
<1>4. FoundAmong(f, verb, P) <=> f \in S /\ key[f] = "tag" /\ place \in ReadAt(verb, f.tag)
    <2> HIDE DEF Placed, P
    <2> QED BY <1>1, <1>2, <1>3 DEF FoundAmong
<1> QED BY <1>4 DEF PutAs

LEMMA KotlinServed ==
  ASSUME Route(api)
  PROVE  Served(api, api, KotlinSends(api)) <=> KotlinServes
<1> DEFINE fs == api.fields
           m == api.method
           paths == {[var |-> f.var, place |-> "path", key |-> "pattern"] : f \in Own(fs, "path")}
           bodies == {[var |-> f.var, place |-> "body", key |-> GsonNames(fs)[f]] : f \in fs}
           puts == KotlinSends(api).puts
<1>1. Fields(fs) /\ \A f \in fs : f \in ApiField
    BY DEF Route, Fields
<1>2. /\ KotlinSends(api).goes = (KotlinCompiles(api) /\ m # "patch") /\ KotlinSends(api).method = m
      /\ puts = paths \cup IF m \in {"post", "put"} THEN bodies ELSE {}
    BY DEF KotlinSends
<1>3. Served(api, api, KotlinSends(api)) <=>
        /\ KotlinCompiles(api) /\ m # "patch"
        /\ \A f \in fs : FoundAmong(f, m, puts)
    BY <1>2, ServedIs
<1>4. KotlinCompiles(api) <=> ~Embeds(fs) /\ Types \cap {"any", "uint"} = {}
    BY DEF KotlinCompiles, Types
<1>5. ASSUME NEW f \in fs PROVE ~FoundAmong(f, m, paths)
    BY DEF FoundAmong
<1>6. ASSUME NEW f \in fs PROVE FoundAmong(f, m, bodies) <=> f.name # "other" /\ f.tag = "json"
    <2>1. fs \in SUBSET fs /\ f \in ApiField
        BY <1>1, <1>6
    <2>2. FoundAmong(f, m, bodies) <=> f \in fs /\ GsonNames(fs)[f] = "tag" /\ "body" \in ReadAt(m, f.tag)
        <3>1. bodies = PutAs(fs, "body", GsonNames(fs))
            BY DEF PutAs
        <3>2. FoundAmong(f, m, PutAs(fs, "body", GsonNames(fs)))
                <=> f \in fs /\ GsonNames(fs)[f] = "tag" /\ "body" \in ReadAt(m, f.tag)
            BY <1>1, <1>6, <2>1, FoundNamed
        <3> QED BY <3>1, <3>2
    <2>3. GsonNames(fs)[f] = "tag" <=> f.name # "other"
        BY <1>6 DEF GsonNames
    <2>4. "body" \in ReadAt(m, f.tag) <=> f.tag = "json"
        BY <2>1, LookedFor
    <2> QED BY <1>6, <2>2, <2>3, <2>4
<1> HIDE DEF puts, paths, bodies
<1>7. CASE m \in {"post", "put"}
    <2>1. puts = paths \cup bodies
        BY <1>2, <1>7
    <2>2. \A f \in fs : FoundAmong(f, m, puts) <=> f.name # "other" /\ f.tag = "json"
        BY <1>5, <1>6, <2>1, FoundIn
    <2>3. Served(api, api, KotlinSends(api)) <=>
            /\ ~Embeds(fs) /\ Types \cap {"any", "uint"} = {}
            /\ \A f \in fs : f.name # "other" /\ f.tag = "json"
        BY <1>3, <1>4, <1>7, <2>2
    <2>4. Tags = {} <=> fs = {}
        BY DEF Tags
    <2>5. (\A f \in fs : f.tag = "json") <=> Tags = {} \/ Tags = {"json"}
        BY DEF Tags
    <2> QED BY <1>7, <2>3, <2>4, <2>5 DEF KotlinServes
<1>8. CASE m \notin {"post", "put"}
    <2>1. puts = paths
        BY <1>2, <1>8
    <2>2. Served(api, api, KotlinSends(api)) <=>
            /\ ~Embeds(fs) /\ Types \cap {"any", "uint"} = {} /\ m # "patch"
            /\ fs = {}
        BY <1>3, <1>4, <1>5, <2>1
    <2>3. Tags = {} <=> fs = {}
        BY DEF Tags
    <2> QED BY <1>8, <2>2, <2>3 DEF KotlinServes
<1> QED BY <1>7, <1>8

LEMMA SwaggerServedWhole ==
  ASSUME Route(api), \A f \in api.fields : ~f.pointer
  PROVE  Served(api, api, SwaggerSends(api)) <=> SwaggerServes
<1> DEFINE fs == api.fields
           m == api.method
           json == \E f \in fs : f.tag = "json"
           Documented(tag) == {f \in fs : f.tag = tag /\ Required(f)}
           forms == IF m = "get" \/ ~json THEN Put(Documented("form"), FormPlace(m)) ELSE {}
           bodies == IF m \in WithBody THEN Put(Documented("json"), "body") ELSE {}
           puts == SwaggerSends(api).puts
<1>1. Fields(fs) /\ \A f \in fs : f \in ApiField
    BY DEF Route, Fields
<1>2. /\ SwaggerSends(api).goes = TRUE /\ SwaggerSends(api).method = m
      /\ puts = ((Put(Documented("path"), "path") \cup Put(Documented("header"), "header")) \cup forms) \cup bodies
  <2>1. Expanded(fs) = fs
      BY DEF Expanded
  <2> QED BY <2>1 DEF SwaggerSends
<1>3. Served(api, api, SwaggerSends(api)) <=> \A f \in fs : FoundAmong(f, m, puts)
    BY <1>2, ServedIs
<1>4. ASSUME NEW f \in fs
      PROVE  /\ FoundAmong(f, m, Put(Documented("path"), "path")) <=> f.tag = "path"
             /\ ~FoundAmong(f, m, Put(Documented("header"), "header"))
             /\ FoundAmong(f, m, forms) <=> f.tag = "form" /\ (m = "get" \/ (~json /\ m \in {"post", "put", "patch"}))
             /\ FoundAmong(f, m, bodies) <=> f.tag = "json" /\ m \in WithBody
    <2>1. /\ f \in ApiField
          /\ \A tag : Documented(tag) \in SUBSET fs
          /\ \A tag : f \in Documented(tag) <=> f.tag = tag /\ f.tag # "header"
        BY <1>1, <1>4 DEF Required
    <2> HIDE DEF Documented
    <2>2. \A place, tag : FoundAmong(f, m, Put(Documented(tag), place)) <=> f \in Documented(tag) /\ place \in ReadAt(m, f.tag)
        BY <1>1, <1>4, <2>1, FoundPut
    <2>3. /\ FoundAmong(f, m, Put(Documented("path"), "path")) <=> f.tag = "path"
          /\ ~FoundAmong(f, m, Put(Documented("header"), "header"))
          /\ FoundAmong(f, m, Put(Documented("json"), "body")) <=> f.tag = "json"
        BY <2>1, <2>2, LookedFor
    <2>4. CASE m = "get"
        <3>1. forms = Put(Documented("form"), "query")
            BY <2>4 DEF FormPlace
        <3>2. FoundAmong(f, m, forms) <=> f.tag = "form"
            <4>1. FoundAmong(f, m, Put(Documented("form"), "query")) <=> f.tag = "form" /\ "query" \in ReadAt(m, f.tag)
                BY <2>1, <2>2
            <4>2. "query" \in ReadAt(m, f.tag) <=> f.tag = "form"
                BY <2>1, LookedFor
            <4> HIDE DEF forms
            <4> QED BY <3>1, <4>1, <4>2
        <3>3. m \notin WithBody /\ bodies = {}
            BY <2>4 DEF WithBody
        <3>4. ~FoundAmong(f, m, bodies)
            BY <3>3, NothingFound
        <3> QED BY <2>3, <2>4, <3>2, <3>3, <3>4
    <2>5. CASE m # "get"
        <3>1. FormPlace(m) = "form"
            BY <2>5 DEF FormPlace
        <3>2. FoundAmong(f, m, forms) <=> f.tag = "form" /\ ~json /\ m \in {"post", "put", "patch"}
            <4>1. CASE json
                BY <2>5, <4>1, NothingFound
            <4>2. CASE ~json
                <5>1. forms = Put(Documented("form"), "form")
                    BY <3>1, <4>2
                <5>2. FoundAmong(f, m, forms) <=> f.tag = "form" /\ "form" \in ReadAt(m, f.tag)
                    BY <2>1, <2>2, <5>1
                <5>3. "form" \in ReadAt(m, f.tag) <=> f.tag = "form" /\ m \in {"post", "put", "patch"}
                    BY <2>1, LookedFor
                <5> QED BY <4>2, <5>2, <5>3
            <4> QED BY <4>1, <4>2
        <3>3. FoundAmong(f, m, bodies) <=> f.tag = "json" /\ m \in WithBody
            BY <2>3, NothingFound
        <3> QED BY <2>3, <2>5, <3>2, <3>3
    <2> QED BY <2>4, <2>5
<1> HIDE DEF puts, forms, bodies, Documented
<1>5. \A f \in fs : FoundAmong(f, m, puts) <=>
        \/ f.tag = "path"
        \/ f.tag = "form" /\ (m = "get" \/ (~json /\ m \in {"post", "put", "patch"}))
        \/ f.tag = "json" /\ m \in WithBody
    <2> SUFFICES ASSUME NEW f \in fs
                 PROVE  FoundAmong(f, m, puts) <=>
                          \/ f.tag = "path"
                          \/ f.tag = "form" /\ (m = "get" \/ (~json /\ m \in {"post", "put", "patch"}))
                          \/ f.tag = "json" /\ m \in WithBody
        OBVIOUS
    <2> HIDE DEF json
    <2>1. FoundAmong(f, m, puts) <=>
            \/ FoundAmong(f, m, Put(Documented("path"), "path")) \/ FoundAmong(f, m, Put(Documented("header"), "header"))
            \/ FoundAmong(f, m, forms) \/ FoundAmong(f, m, bodies)
        BY <1>2 DEF FoundAmong
    <2> QED BY <1>4, <2>1
<1>6. \A f \in fs : f.tag \in {"json", "form", "path", "header"}
    BY <1>1, Looks
<1>7. json <=> "json" \in Tags
    BY DEF Tags
<1>8. ASSUME SwaggerServes PROVE \A f \in fs : FoundAmong(f, m, puts)
    <2> SUFFICES ASSUME NEW f \in fs PROVE FoundAmong(f, m, puts)
        OBVIOUS
    <2>1. f.tag \in Tags
        BY DEF Tags
    <2> QED BY <1>5, <1>6, <1>7, <1>8, <2>1 DEF SwaggerServes
<1>9. ASSUME \A f \in fs : FoundAmong(f, m, puts) PROVE SwaggerServes
    <2>1. ASSUME NEW f \in fs
          PROVE  \/ f.tag = "path"
                 \/ f.tag = "form" /\ (m = "get" \/ (~json /\ m \in {"post", "put", "patch"}))
                 \/ f.tag = "json" /\ m \in WithBody
        BY <1>5, <1>9, <2>1
    <2>2. \A tag \in Tags : \E f \in fs : f.tag = tag
        BY DEF Tags
    <2> HIDE DEF json
    <2>3. "header" \notin Tags
        BY <2>1, <2>2
    <2>4. "json" \in Tags => m \in WithBody
        BY <2>1, <2>2
    <2>5. "form" \in Tags => m = "get" \/ (m \in {"post", "put", "patch"} /\ ~json)
        BY <2>1, <2>2
    <2> QED BY <1>7, <2>3, <2>4, <2>5 DEF SwaggerServes
<1> QED BY <1>3, <1>8, <1>9

(* A field of an embedded pointer is not described, and nothing else has   *)
(* its name.                                                               *)
LEMMA SwaggerServed ==
  ASSUME Route(api)
  PROVE  Served(api, api, SwaggerSends(api)) <=> SwaggerServes
<1> DEFINE fs == api.fields
           m == api.method
           json == \E f \in Expanded(fs) : f.tag = "json"
           Documented(tag) == {f \in Expanded(fs) : f.tag = tag /\ Required(f)}
           forms == IF m = "get" \/ ~json THEN Put(Documented("form"), FormPlace(m)) ELSE {}
           bodies == IF m \in WithBody THEN Put(Documented("json"), "body") ELSE {}
           puts == SwaggerSends(api).puts
<1>1. CASE \A f \in fs : ~f.pointer
    BY <1>1, SwaggerServedWhole
<1>2. ASSUME NEW f \in fs, f.pointer PROVE ~Served(api, api, SwaggerSends(api)) /\ ~SwaggerServes
  <2>1. Fields(fs)
      BY DEF Route, Fields
  <2>2. \A tag, place : ~FoundAmong(f, m, Put(Documented(tag), place))
    <3>1. \A tag : Documented(tag) \in SUBSET fs /\ f \notin Documented(tag)
        BY <1>2 DEF Expanded
    <3> HIDE DEF Documented
    <3> QED BY <2>1, <3>1, FoundPut
  <2>3. puts = ((Put(Documented("path"), "path") \cup Put(Documented("header"), "header")) \cup forms) \cup bodies
      BY DEF SwaggerSends
  <2> HIDE DEF Documented, json
  <2>4. ~FoundAmong(f, m, forms) /\ ~FoundAmong(f, m, bodies)
      BY <2>2, NothingFound
  <2> HIDE DEF forms, bodies, puts
  <2>5. ~FoundAmong(f, m, puts)
      BY <2>2, <2>3, <2>4 DEF FoundAmong
  <2> QED BY <2>5, <1>2, ServedIs DEF puts, SwaggerServes
<1> QED BY <1>1, <1>2

LEMMA JavaServed ==
  ASSUME Route(api), disk.packet = api,
         disk.types = api.fields \/ (FormOrBody(api.fields) = {} /\ ~Embeds(api.fields))
  PROVE  Served(api, api, JavaSends(disk)) <=> JavaServes
<1> DEFINE fs == api.fields
           m == api.method
           forms == {[var |-> f.var, place |-> "query", key |-> FormKey(f)] : f \in Own(fs, "form")}
           bodies == IF HasRequestBody(fs) /\ m \in WithBody THEN Put(FormOrBody(disk.types), "body") ELSE {}
           paths == Put({f \in fs : f.tag = "path"}, "path")
           puts == JavaSends(disk).puts
<1>1. Fields(fs) /\ (\A f \in fs : f \in ApiField) /\ m \in HttpMethod /\ m # "none"
    BY DEF Route, Fields, HttpMethod, WithBody
<1>2. /\ JavaSends(disk).goes = JavaCompiles(disk) /\ JavaSends(disk).method = m
      /\ puts = (paths \cup forms) \cup bodies
    BY DEF JavaSends
<1>3. Served(api, api, JavaSends(disk)) <=> JavaCompiles(disk) /\ \A f \in fs : FoundAmong(f, m, puts)
    BY <1>2, ServedIs
<1>4. HasRequestBody(fs) => disk.types = fs /\ fs # {}
    BY DEF HasRequestBody, BodyMembers, Own, FormOrBody, Embeds
<1>5. ASSUME NEW f \in fs
      PROVE  /\ FoundAmong(f, m, paths) <=> f.tag = "path"
             /\ FoundAmong(f, m, forms) <=> f.tag = "form" /\ ~f.embedded /\ ~(f.name = "is" /\ f.type = "bool")
             /\ FoundAmong(f, m, bodies) <=> f.tag = "json" /\ m \in WithBody
    <2>1. f \in ApiField /\ {g \in fs : g.tag = "path"} \in SUBSET fs /\ Own(fs, "form") \in SUBSET fs
        BY <1>1, <1>5 DEF Own
    <2>2. FoundAmong(f, m, paths) <=> f.tag = "path"
        <3>1. FoundAmong(f, m, paths) <=> f \in {g \in fs : g.tag = "path"} /\ "path" \in ReadAt(m, f.tag)
            BY <1>1, <1>5, <2>1, FoundPut
        <3> QED BY <1>5, <2>1, <3>1, LookedFor
    <2>3. FoundAmong(f, m, forms) <=> f.tag = "form" /\ ~f.embedded /\ ~(f.name = "is" /\ f.type = "bool")
        <3> DEFINE K == [g \in fs |-> FormKey(g)]
        <3>1. forms = PutAs(Own(fs, "form"), "query", K)
            BY DEF PutAs, Own
        <3>2. FoundAmong(f, m, PutAs(Own(fs, "form"), "query", K))
                <=> f \in Own(fs, "form") /\ K[f] = "tag" /\ "query" \in ReadAt(m, f.tag)
            BY <1>1, <1>5, <2>1, FoundNamed
        <3>3. K[f] = "tag" <=> ~(f.name = "is" /\ f.type = "bool")
            BY <1>5 DEF FormKey
        <3>4. "query" \in ReadAt(m, f.tag) <=> f.tag = "form"
            BY <2>1, LookedFor
        <3>5. f \in Own(fs, "form") <=> f.tag = "form" /\ ~f.embedded
            BY <1>5 DEF Own
        <3> HIDE DEF forms, K
        <3> QED BY <3>1, <3>2, <3>3, <3>4, <3>5
    <2>4. FoundAmong(f, m, bodies) <=> f.tag = "json" /\ m \in WithBody
        <3>1. CASE HasRequestBody(fs) /\ m \in WithBody
            <4>1. bodies = Put(FormOrBody(fs), "body") /\ FormOrBody(fs) \in SUBSET fs
                BY <1>4, <3>1 DEF FormOrBody
            <4>2. FoundAmong(f, m, Put(FormOrBody(fs), "body")) <=> f \in FormOrBody(fs) /\ "body" \in ReadAt(m, f.tag)
                BY <1>1, <1>5, <4>1, FoundPut
            <4>3. f \in FormOrBody(fs) <=> f.tag \in {"json", "form"}
                BY <1>5 DEF FormOrBody
            <4>4. "body" \in ReadAt(m, f.tag) <=> f.tag = "json"
                BY <2>1, LookedFor
            <4> HIDE DEF bodies
            <4> QED BY <3>1, <4>1, <4>2, <4>3, <4>4
        <3>2. CASE ~HasRequestBody(fs) \/ m \notin WithBody
            <4>1. ~FoundAmong(f, m, bodies)
                BY <3>2, NothingFound
            <4>2. f.tag = "json" => HasRequestBody(fs)
                BY <1>5 DEF HasRequestBody, BodyMembers, Own
            <4> HIDE DEF bodies
            <4> QED BY <3>2, <4>1, <4>2
        <3> QED BY <3>1, <3>2
    <2> QED BY <2>2, <2>3, <2>4
<1> HIDE DEF puts, forms, bodies, paths
<1>6. \A f \in fs : FoundAmong(f, m, puts) <=>
        \/ f.tag = "path"
        \/ f.tag = "form" /\ ~f.embedded /\ ~(f.name = "is" /\ f.type = "bool")
        \/ f.tag = "json" /\ m \in WithBody
    <2> SUFFICES ASSUME NEW f \in fs
                 PROVE  FoundAmong(f, m, puts) <=>
                          \/ f.tag = "path"
                          \/ f.tag = "form" /\ ~f.embedded /\ ~(f.name = "is" /\ f.type = "bool")
                          \/ f.tag = "json" /\ m \in WithBody
        OBVIOUS
    <2>1. FoundAmong(f, m, puts) <=> FoundAmong(f, m, paths) \/ FoundAmong(f, m, forms) \/ FoundAmong(f, m, bodies)
        BY <1>2 DEF FoundAmong
    <2> QED BY <1>5, <2>1
<1>7. \A f \in fs : f.tag \in {"json", "form", "path", "header"}
    BY <1>1, Looks
<1>8. JavaCompiles(disk) <=> \A f \in fs : f.tag = "form" /\ ~f.embedded => f.name # "other"
    <2>1. \A f \in Own(fs, "form") : HasGetter(fs, f) <=> f.name # "other"
        <3> SUFFICES ASSUME NEW f \in Own(fs, "form") PROVE HasGetter(fs, f) <=> f.name # "other"
            OBVIOUS
        <3>1. f \in FormOrBody(fs)
            BY DEF FormOrBody, Own
        <3> QED BY <3>1 DEF HasGetter
    <2>2. JavaCompiles(disk) <=> (HasRequestBody(fs) => \A f \in Own(fs, "form") : HasGetter(fs, f))
        BY <1>1, <1>4 DEF JavaCompiles
    <2>3. Own(fs, "form") # {} => HasRequestBody(fs)
        BY DEF HasRequestBody
    <2>4. \A f : f \in Own(fs, "form") <=> f \in fs /\ f.tag = "form" /\ ~f.embedded
        BY DEF Own
    <2>5. JavaCompiles(disk) <=> \A f \in Own(fs, "form") : f.name # "other"
        BY <2>1, <2>2, <2>3
    <2> QED BY <2>4, <2>5
<1>9. JavaServes <=>
        /\ \A f \in fs : f.tag # "header"
        /\ \A f \in fs : f.tag = "json" => m \in WithBody
        /\ \A f \in fs : f.tag = "form" => ~f.embedded /\ f.name # "other" /\ ~(f.name = "is" /\ f.type = "bool")
    BY DEF JavaServes, Tags
<1> QED BY <1>3, <1>6, <1>7, <1>8, <1>9

(* An older packet.                                                        *)
LEMMA JavaOlder ==
  ASSUME Route(api), Served(api, disk.packet, JavaSends(disk))
  PROVE  /\ disk.packet.method = api.method
         /\ {f.var : f \in Own(api.fields, "form")} \subseteq {f.var : f \in Own(disk.packet.fields, "form")}
<1> DEFINE m == api.method
           olds == disk.packet.fields
           forms == {[var |-> f.var, place |-> "query", key |-> FormKey(f)] : f \in Own(olds, "form")}
           bodies == IF HasRequestBody(olds) /\ disk.packet.method \in WithBody
                     THEN Put(FormOrBody(disk.types), "body") ELSE {}
           paths == Put({f \in olds : f.tag = "path"}, "path")
           puts == JavaSends(disk).puts
<1>1. /\ JavaSends(disk).method = disk.packet.method
      /\ puts = (paths \cup forms) \cup bodies
    BY DEF JavaSends
<1>2. (\A p \in paths : p.place = "path") /\ \A p \in bodies : p.place = "body"
    BY DEF Put
<1>3. \A p \in forms : \E g \in Own(olds, "form") : p.var = g.var
    OBVIOUS
<1>4. JavaSends(disk).method = m /\ \A f \in api.fields : FoundAmong(f, m, puts)
    BY DEF Served, FoundAmong
<1> HIDE DEF puts, forms, bodies, paths
<1>5. ASSUME NEW f \in Own(api.fields, "form") PROVE \E g \in Own(olds, "form") : f.var = g.var
    <2>1. f \in api.fields /\ f \in ApiField /\ f.tag = "form"
        BY <1>5 DEF Own, Route, Fields
    <2>2. PICK p \in puts : p.var = f.var /\ p.place \in ReadAt(m, f.tag)
        BY <1>4, <2>1 DEF FoundAmong
    <2>3. p.place # "path" /\ p.place # "body"
        BY <2>1, <2>2, LookedFor
    <2>4. p \in forms
        BY <1>1, <1>2, <2>2, <2>3
    <2> QED BY <1>3, <2>2, <2>4
<1> QED BY <1>1, <1>4, <1>5

(* The files of a run that ended well, and what was there when the user of *)
(* the client sent a wire: only the file of the packet and the kept     *)
(* files of Dart stay as they are.                                         *)
Routes0 == ApiRoute \cup {None}
DiskTypeOK ==
  disk \in [of : Routes0, packet : Routes0, types : SUBSET ApiField, tokens : {"none", "v2", "legacy"},
            wire : {"none", "v2", "legacy"}, whole : BOOLEAN]
WholeFits ==
  disk.whole =>
    /\ lang = "dart" => ~Embeds(disk.of.fields) /\ disk.tokens # "none" /\ disk.wire # "none"
    /\ lang = "java" =>
         /\ disk.packet # None
         /\ disk.types = disk.of.fields \/ (FormOrBody(disk.of.fields) = {} /\ ~Embeds(disk.of.fields))
SentFits ==
  sent.by # "none" =>
    /\ disk.of = api
    /\ lang = "dart" => disk.tokens # "none" /\ disk.wire # "none"
    /\ lang = "java" => disk.packet # None
ClientsInv == ClientsTypeOK /\ DiskTypeOK /\ WholeFits /\ SentFits /\ ClientsKnown

LEMMA RouteTyped ==
  ASSUME api \in ApiRoute
  PROVE  Route(api) /\ api # None /\ api \in Routes0 /\ api.fields \subseteq ApiField
<1>1. api.method \in HttpMethod /\ api.response \in BOOLEAN /\ api.fields \in RequestType
    BY DEF ApiRoute
<1>2. Fields(api.fields)
    BY <1>1 DEF RequestType, Fields
<1>3. api.method # None.method
    BY <1>1 DEF None, HttpMethod, WithBody
<1> QED BY <1>1, <1>2, <1>3 DEF Route, Routes0, Fields

LEMMA ClientsInitInv == ClientsInit => ClientsInv
<1> SUFFICES ASSUME ClientsInit PROVE ClientsInv
    OBVIOUS
<1>1. /\ lang \in Language /\ api \in ApiRoute /\ changes = 0
      /\ disk = NoFiles /\ sent = NotSent
    BY DEF ClientsInit
<1>2. /\ NoFiles.types = {} /\ NoFiles.whole = FALSE /\ NoFiles.tokens = "none" /\ NoFiles.wire = "none"
      /\ NotSent.by = "none" /\ NotSent.told = FALSE
    BY DEF NoFiles, NotSent
<1>3. ClientsTypeOK
    <2>1. 0 \in 0 .. MaxClientChanges
        BY ClientsAssumption
    <2> QED BY <1>1, <1>2, <2>1 DEF ClientsTypeOK
<1>4. DiskTypeOK
    BY <1>1 DEF DiskTypeOK, NoFiles, Routes0
<1> QED BY <1>1, <1>2, <1>3, <1>4 DEF ClientsInv, WholeFits, SentFits, ClientsKnown, ClientsServe, ClientsTell

(* A wire was sent: the invariant says what became of it.               *)
LEMMA SendStep == ClientsInv /\ Send => ClientsInv'
<1> SUFFICES ASSUME ClientsInv, Send PROVE ClientsInv'
    OBVIOUS
<1> DEFINE wire == CASE lang = "typescript" -> TsSends(disk.of)
                        [] lang = "dart"       -> DartSends(disk)
                        [] lang = "kotlin"     -> KotlinSends(disk.of)
                        [] lang = "java"       -> JavaSends(disk)
                        [] lang = "swagger"    -> SwaggerSends(disk.of)
           from == IF lang = "java" THEN disk.packet ELSE disk.of
           ok == Served(api, from, wire)
<1>1. /\ disk.of = api /\ disk.whole
      /\ sent' = [by |-> lang, served |-> ok, told |-> ok /\ Tells(from)]
      /\ lang' = lang /\ api' = api /\ changes' = changes /\ disk' = disk
    BY DEF Send
<1>2. /\ lang \in Language /\ api \in ApiRoute /\ Route(api)
      /\ lang # "none" /\ ClientsTypeOK /\ DiskTypeOK /\ WholeFits
    BY RouteTyped DEF ClientsInv, ClientsTypeOK, Language
<1>3. /\ sent'.by = lang
      /\ sent'.served <=> ok
      /\ sent'.told <=> ok /\ Tells(from)
    <2> HIDE DEF ok, from
    <2> QED BY <1>1
<1>4. /\ lang = "typescript" => (ok <=> TypeScriptServes)
      /\ lang = "dart" => (ok <=> DartServes)
      /\ lang = "kotlin" => (ok <=> KotlinServes)
      /\ lang = "swagger" => (ok <=> SwaggerServes)
      /\ lang = "java" /\ disk.packet = api => (ok <=> JavaServes)
      /\ lang = "java" /\ ok =>
           /\ disk.packet.method = api.method
           /\ {f.var : f \in Own(api.fields, "form")} \subseteq {f.var : f \in Own(disk.packet.fields, "form")}
    <2>1. CASE lang = "typescript"
        <3>1. wire = TsSends(api) /\ from = api
            BY <1>1, <2>1
        <3>2. ok <=> TypeScriptServes
            BY <1>2, <3>1, TypeScriptServed
        <3> QED BY <2>1, <3>2
    <2>2. CASE lang = "dart"
        <3>1. wire = DartSends(disk) /\ from = api
            BY <1>1, <2>2
        <3>2. ~Embeds(api.fields)
            BY <1>1, <1>2, <2>2 DEF WholeFits
        <3>3. ok <=> DartServes
            BY <1>1, <1>2, <3>1, <3>2, DartServed
        <3> QED BY <2>2, <3>3
    <2>3. CASE lang = "kotlin"
        <3>1. wire = KotlinSends(api) /\ from = api
            BY <1>1, <2>3
        <3>2. ok <=> KotlinServes
            BY <1>2, <3>1, KotlinServed
        <3> QED BY <2>3, <3>2
    <2>4. CASE lang = "swagger"
        <3>1. wire = SwaggerSends(api) /\ from = api
            BY <1>1, <2>4
        <3>2. ok <=> SwaggerServes
            BY <1>2, <3>1, SwaggerServed
        <3> QED BY <2>4, <3>2
    <2>5. CASE lang = "java"
        <3>1. wire = JavaSends(disk) /\ from = disk.packet
            BY <2>5
        <3>2. disk.types = api.fields \/ (FormOrBody(api.fields) = {} /\ ~Embeds(api.fields))
            BY <1>1, <1>2, <2>5 DEF WholeFits
        <3>3. disk.packet = api => (ok <=> JavaServes)
            BY <1>2, <3>1, <3>2, JavaServed
        <3>4. ok =>
                /\ disk.packet.method = api.method
                /\ {f.var : f \in Own(api.fields, "form")} \subseteq {f.var : f \in Own(disk.packet.fields, "form")}
            BY <1>2, <3>1, JavaOlder
        <3> HIDE DEF ok
        <3> QED BY <2>5, <3>3, <3>4
    <2> HIDE DEF ok
    <2> QED BY <1>2, <2>1, <2>2, <2>3, <2>4, <2>5 DEF Language
<1>5. Tells(from) <=> (lang \in {"java", "swagger"} \/ (lang # "dart" /\ api.response))
    <2>1. CASE lang = "java"
        BY <2>1 DEF Tells
    <2>2. CASE lang # "java"
        <3>1. from = api
            BY <1>1, <2>2
        <3>2. api.response \in BOOLEAN
            BY <1>2 DEF Route
        <3> HIDE DEF from
        <3> QED BY <1>2, <2>2, <3>1, <3>2 DEF Tells, Language
    <2> QED BY <2>1, <2>2
<1> HIDE DEF ok, from
<1>6. /\ (TypeScriptServes' <=> TypeScriptServes) /\ (DartServes' <=> DartServes)
      /\ (KotlinServes' <=> KotlinServes) /\ (SwaggerServes' <=> SwaggerServes) /\ (JavaServes' <=> JavaServes)
    BY <1>1 DEF TypeScriptServes, DartServes, KotlinServes, SwaggerServes, JavaServes, Tags, Types
<1>7. ClientsServe'
    BY <1>1, <1>2, <1>3, <1>4, <1>6 DEF ClientsServe, Language
<1>8. ClientsTell'
    BY <1>1, <1>2, <1>3, <1>5 DEF ClientsTell, Language
<1>9. ClientsTypeOK' /\ DiskTypeOK' /\ WholeFits'
    BY <1>1, <1>2, <1>3 DEF ClientsTypeOK, DiskTypeOK, WholeFits
<1>10. SentFits'
    BY <1>1, <1>2 DEF SentFits, WholeFits
<1> QED BY <1>7, <1>8, <1>9, <1>10 DEF ClientsInv, ClientsKnown

LEMMA ClientsKept == ClientsInv /\ [ClientsNext]_clientVars => ClientsInv'
<1> SUFFICES ASSUME ClientsInv, [ClientsNext]_clientVars PROVE ClientsInv'
    OBVIOUS
<1>1. /\ lang \in Language /\ api \in ApiRoute /\ api # None /\ api \in Routes0 /\ api.fields \subseteq ApiField
      /\ ClientsTypeOK /\ DiskTypeOK /\ WholeFits /\ SentFits /\ ClientsServe /\ ClientsTell
    BY RouteTyped DEF ClientsInv, ClientsTypeOK, ClientsKnown
<1>2. CASE Rewrite
    <2>1. /\ lang \in {"typescript", "kotlin", "swagger"}
          /\ disk' = Written(disk, api, TRUE)
          /\ lang' = lang /\ api' = api /\ changes' = changes /\ sent' = sent
        BY <1>2 DEF Rewrite
    <2>2. /\ DiskTypeOK' /\ disk'.of = api /\ disk'.types = api.fields /\ disk'.whole = TRUE
          /\ disk'.tokens = disk.tokens /\ disk'.wire = disk.wire
        BY <1>1, <2>1 DEF DiskTypeOK, Written
    <2>3. ClientsTypeOK'
        BY <1>1, <2>1, <2>2 DEF ClientsTypeOK, DiskTypeOK
    <2>4. WholeFits' /\ SentFits'
        BY <1>1, <2>1, <2>2 DEF WholeFits, SentFits
    <2>5. /\ (TypeScriptServes' <=> TypeScriptServes) /\ (KotlinServes' <=> KotlinServes)
          /\ (SwaggerServes' <=> SwaggerServes)
        BY <2>1 DEF TypeScriptServes, KotlinServes, SwaggerServes, Tags, Types
    <2>6. ClientsServe' /\ ClientsTell'
        BY <1>1, <2>1, <2>2, <2>5 DEF ClientsServe, ClientsTell, SentFits
    <2> QED BY <2>2, <2>3, <2>4, <2>6 DEF ClientsInv, ClientsKnown
<1>3. CASE DartCommand
    <2>1. PICK run \in {"v2", "legacy"} :
            /\ lang = "dart"
            /\ disk' = [Written(disk, api, run = "v2" /\ ~Embeds(api.fields)) EXCEPT
                          !.tokens = KeptMode(@, run),
                          !.wire = IF Embeds(api.fields) THEN @ ELSE KeptMode(@, run)]
            /\ lang' = lang /\ api' = api /\ changes' = changes /\ sent' = sent
        BY <1>3 DEF DartCommand
    <2>2. Embeds(api.fields) \in BOOLEAN
        BY DEF Embeds
    <2>3. /\ disk'.of = api /\ disk'.packet = disk.packet /\ disk'.types = api.fields
          /\ disk'.whole <=> run = "v2" /\ ~Embeds(api.fields)
          /\ disk'.tokens = KeptMode(disk.tokens, run)
          /\ disk'.wire = IF Embeds(api.fields) THEN disk.wire ELSE KeptMode(disk.wire, run)
        BY <1>1, <2>1 DEF DiskTypeOK, Written
    <2>4. KeptMode(disk.tokens, run) \in {"v2", "legacy"} /\ KeptMode(disk.wire, run) \in {"v2", "legacy"}
        BY <1>1 DEF DiskTypeOK, KeptMode
    <2>5. /\ disk.tokens # "none" => KeptMode(disk.tokens, run) = disk.tokens
          /\ disk.wire # "none" => KeptMode(disk.wire, run) = disk.wire
        BY DEF KeptMode
    <2>6. DiskTypeOK'
        BY <1>1, <2>1, <2>2, <2>4 DEF DiskTypeOK, Written
    <2>7. ClientsTypeOK'
        BY <1>1, <2>1, <2>6 DEF ClientsTypeOK, DiskTypeOK
    <2>8. WholeFits' /\ SentFits'
        BY <1>1, <2>1, <2>3, <2>4, <2>5 DEF WholeFits, SentFits
    <2>9. sent.by # "none" => disk'.tokens = disk.tokens /\ disk'.wire = disk.wire /\ disk.of = api
        BY <1>1, <2>1, <2>3, <2>5 DEF SentFits
    <2>10. sent.by # "none" => (DartServes' <=> DartServes)
        BY <2>1, <2>9 DEF DartServes, Tags, Types
    <2>11. ClientsServe' /\ ClientsTell'
        BY <1>1, <2>1, <2>3, <2>9, <2>10 DEF ClientsServe, ClientsTell
    <2> QED BY <2>6, <2>7, <2>8, <2>11 DEF ClientsInv, ClientsKnown
<1>4. CASE JavaCommand
    <2> DEFINE nothing == FormOrBody(api.fields) = {} /\ ~Embeds(api.fields)
               classes == IF nothing THEN disk.types ELSE IF JavaGenerates(api.fields) THEN api.fields ELSE {}
               packet == IF disk.packet = None THEN api ELSE disk.packet
    <2>1. /\ lang = "java"
          /\ disk' = [disk EXCEPT !.of = api, !.whole = JavaGenerates(api.fields), !.packet = packet, !.types = classes]
          /\ lang' = lang /\ api' = api /\ changes' = changes /\ sent' = sent
        BY <1>4 DEF JavaCommand
    <2>2. JavaGenerates(api.fields) \in BOOLEAN
        BY DEF JavaGenerates
    <2>3. classes \in SUBSET ApiField /\ packet \in Routes0 /\ packet # None
        BY <1>1 DEF DiskTypeOK
    <2>4. JavaGenerates(api.fields) => classes = api.fields \/ nothing
        OBVIOUS
    <2>5. disk.packet # None => packet = disk.packet
        OBVIOUS
    <2> HIDE DEF classes, packet, nothing
    <2>6. /\ DiskTypeOK' /\ disk'.of = api /\ disk'.packet = packet /\ disk'.types = classes
          /\ disk'.whole = JavaGenerates(api.fields)
        BY <1>1, <2>1, <2>2, <2>3 DEF DiskTypeOK
    <2>7. ClientsTypeOK'
        BY <1>1, <2>1, <2>6 DEF ClientsTypeOK, DiskTypeOK
    <2>8. WholeFits' /\ SentFits'
        BY <1>1, <2>1, <2>3, <2>4, <2>6 DEF WholeFits, SentFits, nothing
    <2>9. sent.by # "none" => disk'.packet = disk.packet /\ disk.of = api
        BY <1>1, <2>1, <2>5, <2>6 DEF SentFits
    <2>10. JavaServes' <=> JavaServes
        BY <2>1 DEF JavaServes, Tags
    <2>11. ClientsServe' /\ ClientsTell'
        BY <1>1, <2>1, <2>9, <2>10 DEF ClientsServe, ClientsTell
    <2> QED BY <2>6, <2>7, <2>8, <2>11 DEF ClientsInv, ClientsKnown
<1>5. CASE Send
    BY <1>5, SendStep
<1>6. CASE ChangeApi
    <2>1. /\ changes < MaxClientChanges /\ changes' = changes + 1 /\ sent' = NotSent
          /\ lang' = lang /\ disk' = disk
        BY <1>6 DEF ChangeApi
    <2>2. api' \in ApiRoute
        <3>1. CASE \E m \in HttpMethod : api' = [api EXCEPT !.method = m]
            BY <1>1, <3>1 DEF ApiRoute
        <3>2. CASE \E fs \in RequestType : fs # {} /\ api' = [api EXCEPT !.fields = fs]
            BY <1>1, <3>2 DEF ApiRoute
        <3> QED BY <1>6, <3>1, <3>2 DEF ChangeApi
    <2>3. sent'.by = "none" /\ sent'.told = FALSE
        BY <2>1 DEF NotSent
    <2>4. changes' \in 0 .. MaxClientChanges
        BY <1>1, <2>1, ClientsAssumption DEF ClientsTypeOK
    <2>5. ClientsTypeOK'
        BY <1>1, <2>1, <2>2, <2>3, <2>4 DEF ClientsTypeOK
    <2>6. DiskTypeOK' /\ WholeFits' /\ SentFits'
        BY <1>1, <2>1, <2>3 DEF DiskTypeOK, WholeFits, SentFits
    <2>7. ClientsServe' /\ ClientsTell'
        BY <2>3 DEF ClientsServe, ClientsTell
    <2> QED BY <2>5, <2>6, <2>7 DEF ClientsInv, ClientsKnown
<1>7. CASE UNCHANGED clientVars
    <2>1. lang' = lang /\ api' = api /\ changes' = changes /\ disk' = disk /\ sent' = sent
        BY <1>7 DEF clientVars
    <2>2. /\ (TypeScriptServes' <=> TypeScriptServes) /\ (DartServes' <=> DartServes)
          /\ (KotlinServes' <=> KotlinServes) /\ (SwaggerServes' <=> SwaggerServes) /\ (JavaServes' <=> JavaServes)
        BY <2>1 DEF TypeScriptServes, DartServes, KotlinServes, SwaggerServes, JavaServes, Tags, Types
    <2>3. ClientsServe' /\ ClientsTell'
        BY <1>1, <2>1, <2>2 DEF ClientsServe, ClientsTell
    <2> QED BY <1>1, <2>1, <2>3 DEF ClientsInv, ClientsKnown, ClientsTypeOK, DiskTypeOK, WholeFits, SentFits
<1> QED BY <1>2, <1>3, <1>4, <1>5, <1>6, <1>7 DEF ClientsNext

(* For any fields of requests and any number of changes of the api: what a *)
(* client of each language sends is served exactly in the cases listed in  *)
(* the specification, and its caller learns of success as listed (tsgen,   *)
(* dartgen, ktgen, javagen, swagger).                                      *)
THEOREM ClientsAreKnown == ClientsSpec => [](ClientsTypeOK /\ ClientsKnown)
<1>1. ClientsInv => ClientsTypeOK /\ ClientsKnown
    BY DEF ClientsInv
<1> QED
    BY <1>1, ClientsInitInv, ClientsKept, PTL DEF ClientsSpec

-----------------------------------------------------------------------------
(* Mocks, for every interface, its parameters and results.                 *)


(* How many elements of a set of naturals are smaller: each number below   *)
(* that of the elements is that of one of them.                            *)
Smaller(S, i) == {j \in S : j < i}

LEMMA SmallerFacts ==
  ASSUME NEW n \in Nat, NEW S, S \subseteq 1 .. n
  PROVE  /\ IsFiniteSet(S) /\ Cardinality(S) \in 0 .. n
         /\ \A i \in S : /\ Cardinality(Smaller(S, i)) \in Nat
                         /\ Cardinality(Smaller(S, i)) < Cardinality(S)
<1>1. IsFiniteSet(1 .. n) /\ Cardinality(1 .. n) = n
    BY FS_Interval
<1>2. IsFiniteSet(S) /\ Cardinality(S) \in Nat /\ Cardinality(S) <= n
    BY <1>1, FS_Subset, FS_CardinalityType
<1>3. ASSUME NEW i \in S
      PROVE  Cardinality(Smaller(S, i)) \in Nat /\ Cardinality(Smaller(S, i)) < Cardinality(S)
    <2>1. Smaller(S, i) \subseteq S /\ i \notin Smaller(S, i)
        BY DEF Smaller
    <2>2. IsFiniteSet(Smaller(S, i)) /\ Cardinality(Smaller(S, i)) \in Nat
        BY <1>2, <2>1, FS_Subset, FS_CardinalityType
    <2>3. Cardinality(Smaller(S, i)) <= Cardinality(S)
          /\ (Cardinality(S) = Cardinality(Smaller(S, i)) => S = Smaller(S, i))
        BY <1>2, <2>1, FS_Subset
    <2> QED
        BY <1>2, <2>1, <2>2, <2>3
<1> QED
    BY <1>2, <1>3

LEMMA GreatestFacts ==
  ASSUME NEW n \in Nat, NEW S, S \subseteq 1 .. n, S # {}
  PROVE  \E x \in S : \A y \in S : y <= x
<1> DEFINE T == {n - y : y \in S}
<1>0. \A y \in S : y \in Nat /\ y <= n /\ n - y \in Nat
    OBVIOUS
<1>1. T \subseteq Nat /\ T # {}
    BY <1>0
<1>2. PICK t \in T : \A u \in T : t <= u
    BY <1>1, LeastFacts
<1>3. PICK x \in S : t = n - x
    OBVIOUS
<1>4. \A y \in S : n - x <= n - y
    BY <1>2, <1>3
<1> QED
    BY <1>0, <1>4

LEMMA RankReached ==
  ASSUME NEW n \in Nat, NEW S, S \subseteq 1 .. n, NEW k \in Nat, k < Cardinality(S)
  PROVE  \E i \in S : Cardinality(Smaller(S, i)) = k
<1> DEFINE R == {i \in S : k <= Cardinality(Smaller(S, i))}
<1>0. \A y \in S : y \in Nat
    OBVIOUS
<1>1. IsFiniteSet(S) /\ Cardinality(S) \in Nat /\ \A i \in S : Cardinality(Smaller(S, i)) \in Nat
    <2>1. Cardinality(S) \in 0 .. n
        BY SmallerFacts
    <2>2. IsFiniteSet(S) /\ \A i \in S : Cardinality(Smaller(S, i)) \in Nat
        BY SmallerFacts
    <2> QED
        BY <2>1, <2>2
<1>2. ASSUME NEW T, T \subseteq S, T # {}
      PROVE  \E x \in T : T = Smaller(T, x) \cup {x} /\ x \notin Smaller(T, x)
    <2>1. PICK x \in T : \A y \in T : y <= x
        BY <1>2, GreatestFacts
    <2>2. \A y \in T : y \in Nat
        BY <1>0, <1>2
    <2> QED
        BY <2>1, <2>2 DEF Smaller
<1>3. ASSUME NEW T, T \subseteq S, NEW x \in T, T = Smaller(T, x) \cup {x}
      PROVE  Cardinality(T) = Cardinality(Smaller(T, x)) + 1
    <2>0. IsFiniteSet(T)
        BY <1>1, <1>3, FS_Subset
    <2>1. Smaller(T, x) = T \ {x}
        BY <1>0, <1>3 DEF Smaller
    <2>2. Cardinality(T \ {x}) = Cardinality(T) - 1 /\ Cardinality(T) \in Nat
        BY <2>0, FS_RemoveElement, FS_CardinalityType
    <2> QED
        BY <2>1, <2>2
<1>4. R # {}
    <2>1. S # {}
        BY FS_EmptySet
    <2>2. PICK x \in S : S = Smaller(S, x) \cup {x}
        BY <2>1, <1>2
    <2>3. Cardinality(S) = Cardinality(Smaller(S, x)) + 1
        BY <2>2, <1>3
    <2> QED
        BY <2>3, <1>1
<1>5. PICK i \in R : \A j \in R : i <= j
    <2>1. R \subseteq Nat
        BY <1>0
    <2> QED
        BY <2>1, <1>4, LeastFacts
<1>6. ASSUME Cardinality(Smaller(S, i)) # k PROVE FALSE
    <2>1. Smaller(S, i) \subseteq S
        BY DEF Smaller
    <2>2. Smaller(S, i) # {}
        BY <1>6, <1>1, FS_EmptySet
    <2>3. PICK x \in Smaller(S, i) : Smaller(S, i) = Smaller(Smaller(S, i), x) \cup {x}
        BY <2>1, <2>2, <1>2
    <2>4. Cardinality(Smaller(S, i)) = Cardinality(Smaller(Smaller(S, i), x)) + 1
        BY <2>1, <2>3, <1>3
    <2>5. Smaller(Smaller(S, i), x) = Smaller(S, x) /\ x \in S /\ x < i
        <3>1. x \in S /\ x < i /\ i \in S
            BY <2>3 DEF Smaller
        <3>2. \A y \in S : y < x => y < i
            BY <3>1, <1>0
        <3> QED
            BY <3>1, <3>2 DEF Smaller
    <2>6. x \in R
        BY <2>4, <2>5, <1>1, <1>6
    <2> QED
        BY <2>5, <2>6, <1>5
<1> QED
    BY <1>5, <1>6

LEMMA TwoMembers ==
  ASSUME NEW n \in Nat, NEW S, S \subseteq 1 .. n, NEW i \in S, NEW j \in S, i < j
  PROVE  Cardinality(S) > 1
<1>1. i \in Smaller(S, j)
    BY DEF Smaller
<1>2. IsFiniteSet(Smaller(S, j))
    BY SmallerFacts, FS_Subset DEF Smaller
<1>3. Cardinality(Smaller(S, j)) # 0
    BY <1>1, <1>2, FS_EmptySet
<1>4. Cardinality(S) \in 0 .. n
    BY SmallerFacts
<1>5. Cardinality(Smaller(S, j)) \in Nat /\ Cardinality(Smaller(S, j)) < Cardinality(S)
    BY SmallerFacts
<1> QED
    BY <1>3, <1>4, <1>5

LEMMA QualifiedFacts ==
  ASSUME NEW t \in OfInterface
  PROVE  /\ t \in Type /\ Qualified(t) \in Type
         /\ Qualified(t).prefix = t.prefix
         /\ Qualified(t).base = IF t.base = "local" /\ t.prefix # "map" THEN "dao" ELSE t.base
         /\ t.base # "dao"
         /\ t = [prefix |-> t.prefix, base |-> t.base]
         /\ Qualified(t) = [prefix |-> Qualified(t).prefix, base |-> Qualified(t).base]
BY DEF OfInterface, Type, Qualified

LEMMA QualifiedApart ==
  ASSUME NEW t \in OfInterface, NEW u \in OfInterface
  PROVE  /\ Qualified(t) = Qualified(u) <=> t = u
         /\ Qualified(t) = Error <=> t = Error
         /\ t = Error <=> t.prefix = "" /\ t.base = "error"
         /\ t = [prefix |-> "map", base |-> "local"] <=> Qualified(t).base = "local"
<1>1. Qualified(t) = Qualified(u) => t.prefix = u.prefix /\ t.base = u.base
    BY QualifiedFacts
<1>2. Qualified(t) = Qualified(u) <=> t = u
    BY <1>1, QualifiedFacts
<1>3. Error.prefix = "" /\ Error.base = "error" /\ Error = [prefix |-> "", base |-> "error"]
    BY DEF Error, Plain
<1>4. t = Error <=> t.prefix = "" /\ t.base = "error"
    BY <1>3, QualifiedFacts
<1>5. Qualified(t) = Error <=> Qualified(t).prefix = "" /\ Qualified(t).base = "error"
    BY <1>3, QualifiedFacts
<1>6. Qualified(t) = Error <=> t = Error
    BY <1>4, <1>5, QualifiedFacts
<1>7. t = [prefix |-> "map", base |-> "local"] <=> t.prefix = "map" /\ t.base = "local"
    BY QualifiedFacts
<1> QED
    BY <1>2, <1>4, <1>6, <1>7, QualifiedFacts

LEMMA EmittedFacts ==
  ASSUME NEW sig \in Signature
  PROVE  \E n \in 0 .. 4 :
           /\ DOMAIN sig.results = 1 .. n /\ \A i \in 1 .. n : sig.results[i] \in OfInterface
           /\ sig.results = <<>> <=> n = 0
           /\ DOMAIN Emitted(sig).results = 1 .. n
           /\ \A i \in 1 .. n : Emitted(sig).results[i] = Qualified(sig.results[i])
           /\ Values(sig.results) \subseteq 1 .. n /\ Values(Emitted(sig).results) = Values(sig.results)
           /\ Errors(Emitted(sig).results) = Errors(sig.results) /\ Errors(sig.results) \subseteq 1 .. n
           /\ Emitted(sig).results = <<>> <=> n = 0
           /\ sig.param.name \in STRING /\ sig.param.type \in OfInterface /\ sig.ctx \in BOOLEAN
           /\ Emitted(sig).param.name = sig.param.name /\ Emitted(sig).param.type = Qualified(sig.param.type)
           /\ Emitted(sig).ctx = sig.ctx /\ Emitted(sig).checked
<1>1. sig.results \in Seq(OfInterface) /\ Len(sig.results) <= 4
    BY MocksAssumption DEF Signature, VarNames
<1>2. PICK n \in 0 .. 4 : n = Len(sig.results)
    <2>1. Len(sig.results) \in Nat
        BY <1>1, LenProperties
    <2>2. \A x \in Nat : x <= 4 => x \in 0 .. 4
        OBVIOUS
    <2>3. Len(sig.results) \in 0 .. 4
        BY <1>1, <2>1, <2>2, Zenon
    <2> QED
        BY <2>3
<1>3. DOMAIN sig.results = 1 .. n /\ \A i \in 1 .. n : sig.results[i] \in OfInterface
    BY <1>1, <1>2, LenProperties, ElementOfSeq
<1>4. sig.results = <<>> <=> n = 0
    BY <1>1, <1>2, EmptySeq
<1>5. Emitted(sig).results = [i \in 1 .. n |-> Qualified(sig.results[i])]
    BY <1>3 DEF Emitted
<1>6. DOMAIN Emitted(sig).results = 1 .. n
      /\ \A i \in 1 .. n : Emitted(sig).results[i] = Qualified(sig.results[i])
    BY <1>5
<1>7. Values(sig.results) \subseteq 1 .. n /\ Values(Emitted(sig).results) = Values(sig.results)
    <2>1. \A i \in 1 .. n : Emitted(sig).results[i] = Error <=> sig.results[i] = Error
        <3>1. \A i \in 1 .. n : Qualified(sig.results[i]) = Error <=> sig.results[i] = Error
            BY <1>3, QualifiedApart
        <3> QED
            BY <1>6, <3>1
    <2> QED
        BY <1>3, <1>6, <2>1 DEF Values
<1>8. Errors(Emitted(sig).results) = Errors(sig.results) /\ Errors(sig.results) \subseteq 1 .. n
    BY <1>3, <1>6, <1>7 DEF Errors
<1>9. Emitted(sig).results = <<>> <=> n = 0
    <2>1. n = 0 => Emitted(sig).results = <<>>
        BY <1>5
    <2>2. Emitted(sig).results = <<>> => n = 0
        BY <1>6
    <2> QED
        BY <2>1, <2>2
<1>10. sig.param \in [name : STRING, type : OfInterface] /\ sig.ctx \in BOOLEAN
    BY MocksAssumption DEF Signature
<1>11. Emitted(sig).param.name = sig.param.name /\ Emitted(sig).param.type = Qualified(sig.param.type)
       /\ Emitted(sig).ctx = sig.ctx /\ Emitted(sig).checked
    BY <1>10 DEF Emitted
<1> QED
    BY <1>3, <1>4, <1>6, <1>7, <1>8, <1>9, <1>10, <1>11

LEMMA FirstErrorFacts ==
  ASSUME NEW n \in Nat, NEW results, DOMAIN results = 1 .. n
  PROVE  FirstError(results) \in Errors(results) \/ (Errors(results) = {} /\ FirstError(results) = 0)
<1>1. Errors(results) \subseteq Nat
    BY DEF Errors
<1>2. CASE Errors(results) # {}
    <2>1. \E x \in Errors(results) : \A y \in Errors(results) : x <= y
        BY <1>1, <1>2, LeastFacts
    <2>2. Min(Errors(results)) \in Errors(results)
        BY <2>1 DEF Min
    <2> QED
        BY <1>2, <2>2 DEF FirstError
<1> QED
    BY <1>2 DEF FirstError

(* The body of a method compiles if its signature is not among the unfit.  *)
LEMMA BodyFits ==
  ASSUME NEW sig \in Signature
  PROVE  BodyCompiles(Emitted(sig)) <=> ~Unfit(sig)
<1> DEFINE m == Emitted(sig)
           V == Values(sig.results)
<1>1. PICK n \in 0 .. 4 :
           /\ DOMAIN sig.results = 1 .. n /\ \A i \in 1 .. n : sig.results[i] \in OfInterface
           /\ sig.results = <<>> <=> n = 0
           /\ DOMAIN m.results = 1 .. n
           /\ \A i \in 1 .. n : m.results[i] = Qualified(sig.results[i])
           /\ V \subseteq 1 .. n /\ Values(m.results) = V
           /\ Errors(m.results) = Errors(sig.results) /\ Errors(sig.results) \subseteq 1 .. n
           /\ m.results = <<>> <=> n = 0
           /\ sig.param.name \in STRING /\ sig.param.type \in OfInterface /\ sig.ctx \in BOOLEAN
           /\ m.param.name = sig.param.name /\ m.param.type = Qualified(sig.param.type)
           /\ m.ctx = sig.ctx /\ m.checked
    BY EmittedFacts
<1> HIDE DEF m, V
<1> DEFINE name == sig.param.name
           Clean == \A i \in V : name # "ok" /\ ~Hides(name, m.results[i])
           Apart == \A i \in V : name # VarName(m.results, i) \/ (name = "v" /\ m.param.type = m.results[i])
           Nils == \A i \in V, j \in 1 .. n : FallBack(m.results)[j] = "nil" => TakesNil(m.results[j])
<1>2. BodyCompiles(m) <=> n # 0 /\ name \notin {"args", "m", "_"} /\ Clean /\ Apart /\ Nils
    BY <1>1 DEF BodyCompiles
<1>3. Clean <=> /\ ~(name = "ok" /\ V # {})
                /\ ~\E t \in Range(sig.results) : Hides(name, Qualified(t))
    <2>1. Range(sig.results) = {sig.results[i] : i \in 1 .. n}
        BY <1>1 DEF Range
    <2>2. ASSUME NEW i \in 1 .. n, Hides(name, Qualified(sig.results[i])) PROVE i \in V
        <3>1. Qualified(sig.results[i]).base \in Packages
            BY <2>2 DEF Hides
        <3>2. sig.results[i] # Error
            BY <3>1, <1>1, QualifiedApart, QualifiedFacts DEF Packages
        <3> QED
            BY <3>2, <1>1 DEF V, Values
    <2> QED
        BY <1>1, <2>1, <2>2
<1>4. Nils <=> ~\E t \in Range(sig.results) : t.prefix = "" /\ t.base \notin {"error", "basic"}
    <2>1. Range(sig.results) = {sig.results[i] : i \in 1 .. n}
        BY <1>1 DEF Range
    <2>2. FirstError(m.results) \in Errors(m.results) \/ FirstError(m.results) = 0
        BY <1>1, FirstErrorFacts
    <2>3. \A j \in 1 .. n : /\ j \in Errors(m.results) <=> j \notin V
                            /\ j \in V <=> sig.results[j] # Error
        BY <1>1 DEF Errors, V, Values
    <2>4. ASSUME NEW j \in 1 .. n
          PROVE  (FallBack(m.results)[j] = "nil" /\ ~TakesNil(m.results[j]))
                   <=> sig.results[j].prefix = "" /\ sig.results[j].base \notin {"error", "basic"}
        <3> DEFINE t == sig.results[j]
        <3>1. t \in OfInterface /\ m.results[j] = Qualified(t)
            BY <1>1
        <3>2. TakesNil(m.results[j]) <=> t.prefix # "" \/ t.base = "error"
            BY <3>1, QualifiedFacts DEF TakesNil
        <3>3. FallBack(m.results)[j] = IF j = FirstError(m.results) THEN "args.Error" ELSE Zero(m.results[j])
            BY <1>1 DEF FallBack
        <3>4. Zero(m.results[j]) = "nil" <=> ~(t.prefix = "" /\ t.base = "basic")
            BY <3>1, QualifiedFacts DEF Zero
        <3>5. j = FirstError(m.results) => t = Error
            BY <2>2, <2>3
        <3>6. t = Error => t.base = "error"
            BY <3>1, QualifiedApart
        <3> QED
            BY <3>2, <3>3, <3>4, <3>5, <3>6
    <2>5. ASSUME NEW j \in 1 .. n, sig.results[j].prefix = "", sig.results[j].base \notin {"error", "basic"}
          PROVE  j \in V
        BY <2>5, <2>3, <1>1, QualifiedApart
    <2> QED
        BY <2>1, <2>4, <2>5
<1>5. Apart <=> /\ ~\E k \in 2 .. 4 : name = VarNames[k] /\ Cardinality(V) >= k
                /\ ~(name = "v" /\ \E i \in V : (\A j \in V : i <= j) /\ sig.param.type # sig.results[i])
    <2>0. \A i \in V : VarName(m.results, i) = VarNames[1 + Cardinality(Smaller(V, i))]
        BY <1>1 DEF VarName, Smaller
    <2>1. n \in Nat /\ V \subseteq 1 .. n /\ Cardinality(V) \in 0 .. n /\ Cardinality(V) \in 0 .. 4
        <3>1. n \in Nat /\ n <= 4 /\ V \subseteq 1 .. n
            BY <1>1
        <3>2. Cardinality(V) \in 0 .. n
            BY <3>1, SmallerFacts
        <3> QED
            BY <3>1, <3>2
    <2>2. \A i \in V : Cardinality(Smaller(V, i)) \in 0 .. 3 /\ Cardinality(Smaller(V, i)) < Cardinality(V)
        <3>1. \A i \in V : Cardinality(Smaller(V, i)) \in Nat /\ Cardinality(Smaller(V, i)) < Cardinality(V)
            BY <2>1, SmallerFacts
        <3> QED
            BY <2>1, <3>1
    <2>3. VarNames[1] = "v" /\ VarNames[2] = "n" /\ VarNames[3] = "n2" /\ VarNames[4] = "n3"
        BY DEF VarNames
    <2>4. ASSUME NEW k \in 0 .. 3, k < Cardinality(V) PROVE \E i \in V : Cardinality(Smaller(V, i)) = k
        <3>1. k \in Nat
            OBVIOUS
        <3> QED
            BY <2>1, <2>4, <3>1, RankReached, Zenon
    <2>5. \A i \in V : Cardinality(Smaller(V, i)) = 0 <=> \A j \in V : i <= j
        <3>1. SUFFICES ASSUME NEW i \in V
                       PROVE  Cardinality(Smaller(V, i)) = 0 <=> \A j \in V : i <= j
            OBVIOUS
        <3>2. IsFiniteSet(Smaller(V, i))
            <4>1. IsFiniteSet(V) /\ Smaller(V, i) \subseteq V
                BY <2>1, SmallerFacts DEF Smaller
            <4> QED
                BY <4>1, FS_Subset
        <3>3. Cardinality(Smaller(V, i)) = 0 <=> Smaller(V, i) = {}
            BY <3>2, FS_EmptySet
        <3>4. \A j \in V : j \in Nat
            BY <2>1
        <3> QED
            BY <3>3, <3>4 DEF Smaller
    <2>6. ASSUME NEW i \in V PROVE m.param.type = m.results[i] <=> sig.param.type = sig.results[i]
        <3>1. sig.results[i] \in OfInterface /\ m.results[i] = Qualified(sig.results[i])
            BY <1>1
        <3>2. sig.param.type \in OfInterface /\ m.param.type = Qualified(sig.param.type)
            BY <1>1
        <3> DEFINE t == sig.param.type
                   u == sig.results[i]
        <3>3. t \in OfInterface /\ u \in OfInterface
            BY <3>1, <3>2
        <3> HIDE DEF t, u
        <3>4. Qualified(t) = Qualified(u) <=> t = u
            BY <3>3, QualifiedApart
        <3> QED
            BY <3>1, <3>2, <3>4 DEF t, u
    <2>7. ASSUME NEW i \in V
          PROVE  (name # VarName(m.results, i) \/ (name = "v" /\ m.param.type = m.results[i])) <=>
                   /\ ~(name = "v" /\ Cardinality(Smaller(V, i)) = 0 /\ sig.param.type # sig.results[i])
                   /\ ~\E k \in 2 .. 4 : name = VarNames[k] /\ Cardinality(Smaller(V, i)) = k - 1
        BY <2>0, <2>2, <2>3, <2>6
    <2>8. (\E k \in 2 .. 4 : name = VarNames[k] /\ Cardinality(V) >= k) <=>
            \E i \in V : \E k \in 2 .. 4 : name = VarNames[k] /\ Cardinality(Smaller(V, i)) = k - 1
        <3>1. ASSUME NEW k \in 2 .. 4, Cardinality(V) >= k
              PROVE  \E i \in V : Cardinality(Smaller(V, i)) = k - 1
            <4>1. k - 1 \in 0 .. 3 /\ k - 1 < Cardinality(V)
                BY <3>1, <2>1
            <4> QED
                BY <4>1, <2>4
        <3>2. ASSUME NEW i \in V, NEW k \in 2 .. 4, Cardinality(Smaller(V, i)) = k - 1
              PROVE  Cardinality(V) >= k
            BY <3>2, <2>1, <2>2
        <3> QED
            BY <3>1, <3>2
    <2> QED
        BY <2>5, <2>7, <2>8
<1>6. Unfit(sig) <=> \/ n = 0 \/ name \in {"args", "m", "_"}
                     \/ (name = "ok" /\ V # {})
                     \/ (\E k \in 2 .. 4 : name = VarNames[k] /\ Cardinality(V) >= k)
                     \/ (name = "v" /\ \E i \in V : (\A j \in V : i <= j) /\ sig.param.type # sig.results[i])
                     \/ (\E t \in Range(sig.results) : Hides(name, Qualified(t)))
                     \/ (\E t \in Range(sig.results) : t.prefix = "" /\ t.base \notin {"error", "basic"})
    <2>1. Len(VarNames) = 4
        BY DEF VarNames
    <2> QED
        BY <1>1, <2>1, Zenon DEF Unfit, V
<1> HIDE DEF Clean, Apart, Nils
<1>7. BodyCompiles(m) <=> ~Unfit(sig)
    BY <1>2, <1>3, <1>4, <1>5, <1>6
<1> QED
    BY <1>7 DEF m

MethodsOfMock == [i \in DOMAIN iface |-> Emitted(iface[i])]

(* The packages that a method names.                                       *)
LEMMA NamedFacts ==
  ASSUME NEW sig \in Signature
  PROVE  /\ Named(Emitted(sig)) \subseteq {"local"} \cup Packages
         /\ \A base \in {"model", "time"} : base \in Named(Emitted(sig)) <=> Says(sig, base)
         /\ "local" \in Named(Emitted(sig)) <=>
              \E t \in Range(sig.results) \cup {sig.param.type} : t = [prefix |-> "map", base |-> "local"]
<1> DEFINE m == Emitted(sig)
           T == Range(sig.results) \cup {sig.param.type}
<1>1. TypesOf(m) = {Qualified(t) : t \in T} /\ T \subseteq OfInterface
    <2>1. PICK n \in 0 .. 4 :
               /\ DOMAIN sig.results = 1 .. n /\ \A i \in 1 .. n : sig.results[i] \in OfInterface
               /\ DOMAIN m.results = 1 .. n
               /\ \A i \in 1 .. n : m.results[i] = Qualified(sig.results[i])
               /\ sig.param.type \in OfInterface
               /\ m.param.type = Qualified(sig.param.type)
        BY EmittedFacts
    <2> HIDE DEF m
    <2>2. Range(sig.results) = {sig.results[i] : i \in 1 .. n}
        BY <2>1 DEF Range
    <2>3. Range(m.results) = {m.results[i] : i \in 1 .. n}
        BY <2>1 DEF Range
    <2> QED
        BY <2>1, <2>2, <2>3 DEF TypesOf
<1>2. Named(m) = {Qualified(t).base : t \in T} \ {"error", "basic"}
    BY <1>1 DEF Named
<1> HIDE DEF m, T
<1>3. \A t \in T : /\ Qualified(t).base \in {"error", "basic", "local", "dao", "ent", "model", "time"}
                   /\ Qualified(t).base \in {"model", "time"} \/ t.base \in {"model", "time"} => Qualified(t).base = t.base
    BY <1>1, QualifiedFacts DEF Type
<1>4. \A t \in T : t = [prefix |-> "map", base |-> "local"] <=> Qualified(t).base = "local"
    BY <1>1, QualifiedApart
<1>5. \A base : Says(sig, base) <=> \E t \in T : t.base = base
    BY DEF Says, T
<1>6. Named(m) \subseteq {"local"} \cup Packages
    BY <1>2, <1>3 DEF Packages
<1>7. ASSUME NEW base \in {"model", "time"}
      PROVE  base \in Named(m) <=> Says(sig, base)
    BY <1>2, <1>3, <1>5
<1>8. "local" \in Named(m) <=> \E t \in T : t = [prefix |-> "map", base |-> "local"]
    BY <1>2, <1>4
<1> QED
    BY <1>6, <1>7, <1>8 DEF m, T

LEMMA MockFits ==
  ASSUME iface \in Seq(Signature), mock.by \in {"ent", "dao"}, mock.methods = MethodsOfMock
  PROVE  MockCompiles <=>
           /\ ~embeds
           /\ \A i \in DOMAIN iface : ~Unfit(iface[i]) /\ ~Says(iface[i], "time")
           /\ \A i \in DOMAIN iface : \A t \in Range(iface[i].results) \cup {iface[i].param.type} :
                t # [prefix |-> "map", base |-> "local"]
           /\ \E i \in DOMAIN iface : iface[i].ctx
           /\ mock.by = "ent" <=> \E i \in DOMAIN iface : Says(iface[i], "model")
<1> DEFINE D == DOMAIN iface
           N(i) == Named(Emitted(iface[i]))
<1>1. \A i \in D : iface[i] \in Signature
    BY LenProperties, ElementOfSeq
<1>2. Range(mock.methods) = {Emitted(iface[i]) : i \in D}
    BY DEF Range, MethodsOfMock
<1>3. \A i \in D : Emitted(iface[i]).ctx = iface[i].ctx /\ Emitted(iface[i]).checked
    BY DEF Emitted
<1>4. (\A m \in Range(mock.methods) : m.checked => BodyCompiles(m)) <=> \A i \in D : ~Unfit(iface[i])
    BY <1>1, <1>2, <1>3, BodyFits
<1>5. Used = {"ent", "dao"} \cup UNION {N(i) \cup (IF iface[i].ctx THEN {"context"} ELSE {}) : i \in D}
    BY <1>2, <1>3 DEF Used
<1> HIDE DEF N
<1>6. \A i \in D : N(i) \subseteq {"local", "dao", "ent", "model", "time"}
    BY <1>1, NamedFacts DEF N, Packages
<1>7. \A x : x \in Used <=> \/ x \in {"ent", "dao"} \/ \E i \in D : x \in N(i)
                            \/ x = "context" /\ \E i \in D : iface[i].ctx
    BY <1>5
<1>8. Used \subseteq {"context", "local", "dao", "ent", "model", "time"}
    BY <1>6, <1>7
<1>9. Imports = {"context", "ent", "dao"} \cup (IF mock.by = "ent" THEN {"model"} ELSE {})
    BY DEF Imports
<1>10. Used = Imports <=> /\ "context" \in Used /\ "time" \notin Used /\ "local" \notin Used
                          /\ "model" \in Used <=> mock.by = "ent"
    <2>1. "ent" \in Used /\ "dao" \in Used
        BY <1>7
    <2> QED
        BY <2>1, <1>8, <1>9
<1>11. /\ "context" \in Used <=> \E i \in D : iface[i].ctx
       /\ "time" \in Used <=> \E i \in D : "time" \in N(i)
       /\ "model" \in Used <=> \E i \in D : "model" \in N(i)
       /\ "local" \in Used <=> \E i \in D : "local" \in N(i)
    BY <1>6, <1>7
<1>12. \A i \in D : /\ "time" \in N(i) <=> Says(iface[i], "time")
                    /\ "model" \in N(i) <=> Says(iface[i], "model")
                    /\ "local" \in N(i) <=>
                         \E t \in Range(iface[i].results) \cup {iface[i].param.type} : t = [prefix |-> "map", base |-> "local"]
    BY <1>1, NamedFacts DEF N
<1> QED
    BY <1>4, <1>10, <1>11, <1>12 DEF MockCompiles

(* What a mock answers.                                                    *)
Answered(results, told, got) ==
  LET nils == {i \in Values(results) : told[i] = "nil"}
  IN \/ got = told
     \/ nils # {} /\ (Cardinality(Values(results)) > 1 \/ got \in {<<"panic">>, <<"the mock">>})
     \/ Cardinality(Errors(results)) > 1

LEMMA DaoMockAnswers ==
  ASSUME NEW n \in Nat, NEW m, DOMAIN m.results = 1 .. n, NEW told \in [DOMAIN m.results -> {"value", "nil"}]
  PROVE  Answered(m.results, told, FromDaoMock(m, told))
<1> DEFINE V == Values(m.results)
           E == Errors(m.results)
           nils == {i \in V : told[i] = "nil"}
           got == FromDaoMock(m, told)
<1>1. V \subseteq 1 .. n /\ E \subseteq 1 .. n /\ E = (1 .. n) \ V
    BY DEF Values, Errors
<1>2. CASE ~m.checked
    <2>1. got = IF nils # {} THEN <<"panic">> ELSE told
        BY <1>2 DEF FromDaoMock
    <2> QED
        BY <2>1 DEF Answered
<1>3. CASE m.checked
    <2>1. got = [j \in 1 .. n |->
                   IF j \in E /\ (nils = {} \/ j = FirstError(m.results)) THEN told[FirstError(m.results)]
                   ELSE IF nils # {} THEN "nil" ELSE told[j]]
        BY <1>3 DEF FromDaoMock
    <2>2. SUFFICES ASSUME ~(nils # {} /\ Cardinality(V) > 1), ~(Cardinality(E) > 1)
                   PROVE  got = told
        BY DEF Answered
    <2>a. ASSUME NEW S, S \subseteq 1 .. n, ~(Cardinality(S) > 1), NEW i \in S, NEW j \in S
          PROVE  i = j
        <3>1. ~(i < j)
            BY <2>a, TwoMembers
        <3>2. ~(j < i)
            BY <2>a, TwoMembers
        <3>3. QED
            BY <2>a, <3>1, <3>2
    <2>3. \A i, j \in E : i = j
        <3> HIDE DEF E, V, got, nils
        <3> QED
            BY <1>1, <2>2, <2>a
    <2>4. nils # {} => \A i, j \in V : i = j
        <3> HIDE DEF E, V, got, nils
        <3> QED
            BY <1>1, <2>2, <2>a
    <2>5. \A j \in E : j = FirstError(m.results)
        BY <2>3, FirstErrorFacts
    <2>6. \A j \in V : nils # {} => told[j] = "nil"
        BY <2>4
    <2> HIDE DEF got, V, E, nils
    <2>7. ASSUME NEW j \in 1 .. n PROVE got[j] = told[j]
        <3>1. got[j] = IF j \in E /\ (nils = {} \/ j = FirstError(m.results)) THEN told[FirstError(m.results)]
                   ELSE IF nils # {} THEN "nil" ELSE told[j]
            BY <2>1, Zenon
        <3>2. CASE j \in E
            <4>1. j = FirstError(m.results)
                BY <3>2, <2>5
            <4>2. got[j] = told[FirstError(m.results)]
                BY <3>1, <3>2, <4>1, Zenon
            <4> QED
                BY <4>1, <4>2
        <3>3. CASE j \notin E /\ nils # {}
            <4>1. told[j] = "nil"
                BY <3>3, <1>1, <2>6
            <4> QED
                BY <3>1, <3>3, <4>1
        <3>4. CASE j \notin E /\ nils = {}
            BY <3>1, <3>4
        <3> QED
            BY <3>2, <3>3, <3>4
    <2>8. got = [j \in 1 .. n |-> got[j]] /\ told = [j \in 1 .. n |-> told[j]]
        BY <2>1
    <2> QED
        BY <2>7, <2>8
<1> QED
    BY <1>2, <1>3

MocksInv ==
  /\ MocksTypeOK
  /\ DOMAIN mock = {"by", "methods"}
  /\ mock.by = "none" => mock.methods = <<>>
  /\ mock.by # "none" => mock.methods \in {MethodsOfMock, <<CrudMethod>>}
  /\ Answered(answer.results, answer.told, answer.got)

LEMMA MocksInitially == ASSUME MocksInit PROVE MocksInv
<1>1. answer.got = answer.told /\ answer.by = "none"
    BY DEF MocksInit, NoAnswer
<1>2. MocksTypeOK
    BY <1>1, MocksAssumption DEF MocksInit, MocksTypeOK
<1> QED
    BY <1>1, <1>2 DEF MocksInit, MocksInv, Answered

LEMMA MethodResults ==
  ASSUME MocksInv, NEW i \in DOMAIN mock.methods
  PROVE  \E n \in Nat : DOMAIN mock.methods[i].results = 1 .. n
<1>1. CASE mock.methods = MethodsOfMock
    <2>1. i \in DOMAIN iface /\ mock.methods[i] = Emitted(iface[i])
        BY <1>1 DEF MethodsOfMock
    <2>2. iface[i] \in Signature
        BY <2>1, LenProperties, ElementOfSeq DEF MocksInv, MocksTypeOK
    <2>3. PICK n \in 0 .. 4 : DOMAIN Emitted(iface[i]).results = 1 .. n
        BY <2>2, EmittedFacts
    <2>4. n \in Nat
        OBVIOUS
    <2> QED
        BY <2>1, <2>3, <2>4
<1>2. CASE mock.methods = <<CrudMethod>>
    <2>1. mock.methods[i] = CrudMethod
        BY <1>2
    <2>2. DOMAIN CrudMethod.results = 1 .. 2
        BY DEF CrudMethod
    <2> QED
        BY <2>1, <2>2
<1>3. CASE mock.by = "none"
    BY <1>3 DEF MocksInv
<1> QED
    BY <1>1, <1>2, <1>3 DEF MocksInv

LEMMA MocksKept == ASSUME MocksInv, [MocksNext]_mocksVars PROVE MocksInv'
<1>0. Answered(NoAnswer.results, NoAnswer.told, NoAnswer.got) /\ NoAnswer.by = "none"
    BY DEF Answered, NoAnswer
<1> USE DEF MocksInv
<1>1. CASE Declare
    <2>1. PICK sig \in Signature : iface' = Append(iface, sig)
        BY <1>1 DEF Declare
    <2>2. Len(iface) < MaxMethods /\ mock.by = "none" /\ answer' = NoAnswer /\ UNCHANGED <<embeds, readable, mock>>
        BY <1>1 DEF Declare
    <2>3. iface' \in Seq(Signature) /\ Len(iface') = Len(iface) + 1 /\ Len(iface) \in Nat
        BY <2>1, AppendProperties, LenProperties DEF MocksTypeOK
    <2>4. MocksTypeOK'
        BY <2>2, <2>3, <1>0, MocksAssumption DEF MocksTypeOK
    <2> QED
        BY <1>0, <2>2, <2>4
<1>2. CASE Break
    BY <1>0, <1>2 DEF Break, MocksTypeOK, MethodsOfMock
<1>3. CASE GenDaoMock
    BY <1>0, <1>3 DEF GenDaoMock, MocksTypeOK, MethodsOfMock
<1>4. CASE RegenerateMock
    BY <1>0, <1>4 DEF RegenerateMock, MocksTypeOK, MethodsOfMock
<1>5. CASE CallMock
    <2>1. PICK i \in DOMAIN mock.methods :
            \E told \in [DOMAIN mock.methods[i].results -> {"value", "nil"}] :
              LET m == mock.methods[i] IN
              \/ answer' = [by |-> "dao", results |-> m.results, told |-> told, got |-> FromDaoMock(m, told)]
              \/ answer' = [by |-> "repo", results |-> m.results, told |-> told, got |-> FromRepoMock(m, told)]
        BY <1>5 DEF CallMock
    <2> DEFINE m == mock.methods[i]
    <2>2. PICK told \in [DOMAIN m.results -> {"value", "nil"}] :
              \/ answer' = [by |-> "dao", results |-> m.results, told |-> told, got |-> FromDaoMock(m, told)]
              \/ answer' = [by |-> "repo", results |-> m.results, told |-> told, got |-> FromRepoMock(m, told)]
        BY <2>1
    <2>3. PICK n \in Nat : DOMAIN m.results = 1 .. n
        BY MethodResults
    <2> HIDE DEF m
    <2>4. Answered(m.results, told, FromDaoMock(m, told))
        BY <2>3, DaoMockAnswers
    <2>5. Answered(m.results, told, FromRepoMock(m, told))
        BY DEF Answered, FromRepoMock
    <2>6. UNCHANGED <<iface, embeds, readable, mock>>
        BY <1>5 DEF CallMock
    <2>7. answer'.by \in {"dao", "repo"} /\ Answered(answer'.results, answer'.told, answer'.got)
        BY <2>2, <2>4, <2>5
    <2> QED
        BY <2>6, <2>7 DEF MocksTypeOK, MethodsOfMock
<1>6. CASE CallWithTx
    <2>1. /\ mock.by # "none" /\ UNCHANGED <<iface, embeds, readable, mock>>
          /\ answer' = [by |-> mock.by, results |-> <<Plain("dao")>>, told |-> <<"nil">>,
                        got |-> IF mock.by = "ent" THEN <<"the mock">> ELSE <<"nil">>]
        BY <1>6 DEF CallWithTx
    <2>2. Values(<<Plain("dao")>>) = {1}
        <3>1. Plain("dao") # Error
            BY DEF Plain, Error
        <3>2. DOMAIN <<Plain("dao")>> = 1 .. 1 /\ <<Plain("dao")>>[1] = Plain("dao")
            OBVIOUS
        <3> QED
            BY <3>1, <3>2 DEF Values
    <2>3. Answered(answer'.results, answer'.told, answer'.got)
        <3>1. answer'.results = <<Plain("dao")>> /\ answer'.told = <<"nil">>
            BY <2>1
        <3>2. {i \in Values(answer'.results) : answer'.told[i] = "nil"} # {}
            BY <3>1, <2>2
        <3>3. answer'.got = <<"the mock">> \/ answer'.got = answer'.told
            BY <2>1, <3>1
        <3> QED
            BY <3>2, <3>3 DEF Answered
    <2>4. answer'.by = mock.by
        BY <2>1
    <2> QED
        BY <2>1, <2>3, <2>4 DEF MocksTypeOK, MethodsOfMock
<1>7. CASE UNCHANGED mocksVars
    BY <1>7 DEF mocksVars, MocksTypeOK, MethodsOfMock
<1> QED
    BY <1>1, <1>2, <1>3, <1>4, <1>5, <1>6, <1>7 DEF MocksNext

LEMMA MocksSettled == MocksInv => MocksKnown
<1> SUFFICES ASSUME MocksInv PROVE MocksKnown
    OBVIOUS
<1>1. MocksAnswer
    BY DEF MocksInv, Answered, MocksAnswer
<1>2. MocksFit
    <2> SUFFICES ASSUME mock.by # "none", mock.methods # <<CrudMethod>> PROVE MocksFit
        BY DEF MocksFit
    <2>1. iface \in Seq(Signature) /\ mock.by \in {"ent", "dao"} /\ mock.methods = MethodsOfMock
        BY DEF MocksInv, MocksTypeOK
    <2> QED
        BY <2>1, MockFits, Zenon DEF MocksFit
<1> QED
    BY <1>1, <1>2 DEF MocksKnown

(* What zctl mocks for a dao compiles, and answers what a test told it, in *)
(* all but the cases that are named: for every interface, with any number  *)
(* of methods, parameters and results.                                     *)
THEOREM MocksAlwaysKnown == MocksInit /\ [][MocksNext]_mocksVars => []MocksKnown
<1>1. MocksInit => MocksInv
    BY MocksInitially
<1>2. MocksInv /\ [MocksNext]_mocksVars => MocksInv'
    BY MocksKept
<1> QED
    BY <1>1, <1>2, MocksSettled, PTL

-----------------------------------------------------------------------------
(* The types of what MCTools puts together.                                *)
ScanTyped == PerfScanTypeOK /\ (at # 0 => scan > 0)

LEMMA LevelsOfLint == ASSUME NEW issues PROVE LintLevel(issues) \in Levels
BY DEF LintLevel, Levels

LEMMA CheckerEndsTyped ==
  ASSUME ScanTyped, NEW c, NEW level \in Levels, NEW of, NEW why, Ends(c, level, of, why),
         {profile', coverPage', lintJson'.of, lintPage'} \subseteq 0 .. scan
  PROVE  ScanTyped'
<1>1. /\ at \in 1 .. 8 /\ at' = at + 1 /\ scan' = scan /\ problems' = problems /\ lintable' = lintable
      /\ exit' = exit /\ killed' = killed /\ report' = report
      /\ result' = [result EXCEPT ![c] = [level |-> level, of |-> of, why |-> why]]
    BY CheckersAre DEF Ends, projectVars, reportVars
<1>2. \A d \in DOMAIN result' : result'[d] = NotRun \/ result'[d].level \in Levels
    BY <1>1 DEF ScanTyped, PerfScanTypeOK
<1>3. at' \in 0 .. Len(Checkers) + 1 /\ scan > 0
    BY <1>1, CheckersAre DEF ScanTyped
<1> QED
    BY <1>1, <1>2, <1>3 DEF ScanTyped, PerfScanTypeOK

LEMMA ScanInitTyped == PerfScanInit => ScanTyped
BY CheckersAre, ScanAssumption DEF PerfScanInit, ScanTyped, PerfScanTypeOK, NoFile

LEMMA ScanStepTyped == ScanTyped /\ [PerfScanNext]_perfScanVars => ScanTyped'
<1> SUFFICES ASSUME ScanTyped, [PerfScanNext]_perfScanVars
             PROVE  ScanTyped'
    OBVIOUS
<1>1. /\ scan \in Nat /\ {profile, coverPage, lintJson.of, lintPage, report.of} \subseteq 0 .. scan /\ at \in 0 .. 9 /\ MaxScans \in Nat
      /\ scan \in 0 .. scan
    BY CheckersAre, ScanAssumption DEF ScanTyped, PerfScanTypeOK
<1>2. fileVars' = fileVars => {profile', coverPage', lintJson'.of, lintPage'} \subseteq 0 .. scan
    BY <1>1 DEF fileVars, coverVars
<1>3. CASE Edit
    BY <1>3, ScanAssumption DEF Edit, ScanTyped, PerfScanTypeOK, fileVars, coverVars, reportVars
<1>4. CASE BeginScan
    <2>1. scan' \in 0 .. MaxScans /\ scan' > 0 /\ at' \in 0 .. Len(Checkers) + 1
        BY <1>1, <1>4, CheckersAre DEF BeginScan
    <2>2. killed' \subseteq 1 .. scan' /\ {profile', coverPage', lintJson'.of, lintPage', report'.of} \subseteq 0 .. scan'
        BY <1>1, <1>4 DEF BeginScan, fileVars, coverVars, ScanTyped, PerfScanTypeOK
    <2> QED
        BY <1>4, <2>1, <2>2 DEF BeginScan, ScanTyped, PerfScanTypeOK, projectVars
<1>5. CASE Fmt
    BY <1>2, <1>5, CheckerEndsTyped DEF Fmt, Levels
<1>6. CASE Vet
    BY <1>2, <1>6, CheckerEndsTyped DEF Vet, VetLevel, Levels
<1>7. CASE Lint
    <2>1. CASE LintRuns
        <3>1. {profile', coverPage', lintJson'.of, lintPage'} \subseteq 0 .. scan
            BY <1>1, <2>1 DEF LintRuns, coverVars
        <3> QED
            BY <2>1, <3>1, CheckerEndsTyped, LevelsOfLint DEF LintRuns
    <2>2. CASE LintStops
        BY <1>2, <2>2, CheckerEndsTyped, LevelsOfLint DEF LintStops
    <2>3. CASE LintNoise
        <3>1. {profile', coverPage', lintJson'.of, lintPage'} \subseteq 0 .. scan
            BY <1>1, <2>3 DEF LintNoise, coverVars
        <3> QED
            BY <2>3, <3>1, CheckerEndsTyped, LevelsOfLint DEF LintNoise
    <2>4. CASE LintMissing
        BY <1>2, <2>4, CheckerEndsTyped DEF LintMissing, Levels
    <2> QED
        BY <1>7, <2>1, <2>2, <2>3, <2>4 DEF Lint
<1>8. CASE Vuln
    BY <1>2, <1>8, CheckerEndsTyped DEF Vuln, Levels
<1>9. CASE Escape
    BY <1>2, <1>9, CheckerEndsTyped DEF Escape, Levels
<1>10. CASE NPlus1
    BY <1>2, <1>10, CheckerEndsTyped DEF NPlus1, Levels
<1>11. CASE Review
    BY <1>2, <1>11, CheckerEndsTyped DEF Review, Levels
<1>12. CASE Test
    <2>1. CASE TestRuns
        <3>1. {profile', coverPage', lintJson'.of, lintPage'} \subseteq 0 .. scan
            BY <1>1, <2>1 DEF TestRuns
        <3> QED
            BY <2>1, <3>1, CheckerEndsTyped DEF TestRuns, Levels
    <2>2. CASE TestStops
        <3>1. {profile', coverPage', lintJson'.of, lintPage'} \subseteq 0 .. scan
            BY <1>1, <2>2 DEF TestStops
        <3> QED
            BY <2>2, <3>1, CheckerEndsTyped DEF TestStops, Levels
    <2> QED
        BY <1>12, <2>1, <2>2 DEF Test
<1>13. CASE WriteReport
    <2>1. lintJson'.of \in 0 .. scan' /\ exit' \in {0, 1} /\ at' \in 0 .. Len(Checkers) + 1 /\ at' = 0
        BY <1>1, <1>13, CheckersAre DEF WriteReport, Moved, NoFile
    <2>2. {profile', coverPage', lintPage', report'.of} \subseteq 0 .. scan'
        BY <1>1, <1>13 DEF WriteReport, coverVars
    <2>3. scan' = scan /\ result' = result /\ killed' = killed
        BY <1>13 DEF WriteReport
    <2> QED
        BY <1>13, <2>1, <2>2, <2>3 DEF WriteReport, ScanTyped, PerfScanTypeOK, projectVars
<1>14. CASE Kill
    <2>1. scan \in 1 .. scan /\ at' = 0 /\ at' \in 0 .. Len(Checkers) + 1
        BY <1>1, <1>14, CheckersAre DEF Kill, ScanTyped
    <2> QED
        BY <1>14, <2>1 DEF Kill, ScanTyped, PerfScanTypeOK, projectVars, fileVars, coverVars
<1>15. CASE UNCHANGED perfScanVars
    BY <1>15 DEF perfScanVars, ScanTyped, PerfScanTypeOK
<1> QED
    BY <1>3, <1>4, <1>5, <1>6, <1>7, <1>8, <1>9, <1>10, <1>11, <1>12, <1>13, <1>14, <1>15 DEF PerfScanNext

LoopsTyped == LoopsInv /\ LoopsTypeOK

LEMMA LoopsInitTyped == LoopsInit => LoopsTyped
<1> SUFFICES ASSUME LoopsInit PROVE LoopsTyped
    OBVIOUS
<1>1. MaxSites \in Nat
    BY LoopsAssumption
<1>2. LoopsTypeOK
    BY <1>1 DEF LoopsInit, LoopsTypeOK
<1> QED
    BY <1>2, LoopsInitInv DEF LoopsTyped

LEMMA FindingsCount ==
  ASSUME sites \in Seq(Site), NEW held
  PROVE  Findings(held) \in [DOMAIN sites -> 0 .. 2]
<1> SUFFICES ASSUME NEW i \in DOMAIN sites
             PROVE  (IF sites[i] \in held THEN Times(sites[i]) ELSE 0) \in 0 .. 2
    BY DEF Findings
<1>1. sites[i] \in Site
    OBVIOUS
<1>2. sites[i].nest \in 0 .. 2
    BY <1>1 DEF Site
<1> QED
    BY <1>2 DEF Times

LEMMA LoopsStepTyped == LoopsTyped /\ [LoopsNext]_loopVars => LoopsTyped'
<1> SUFFICES ASSUME LoopsTyped, [LoopsNext]_loopVars
             PROVE  LoopsTyped'
    OBVIOUS
<1>1. LoopsInv' /\ MaxSites \in Nat /\ sites \in Seq(Site)
    BY LoopsStepInv, LoopsAssumption DEF LoopsTyped, LoopsTypeOK
<1>2. CASE WriteCall
    <2>1. PICK s \in Site : sites' = Append(sites, s)
        BY <1>2 DEF WriteCall
    <2>2. findings' = NoFindings /\ Len(sites) < MaxSites
        BY <1>2 DEF WriteCall, LoopsTyped, LoopsInv
    <2>3. sites' \in Seq(Site) /\ Len(sites') = Len(sites) + 1
        BY <1>1, <2>1
    <2> QED
        BY <1>1, <2>2, <2>3 DEF LoopsTyped, LoopsTypeOK
<1>3. CASE Check
    <2>1. PICK held, named : findings' = [graph |-> Findings(held), names |-> Findings(named)] /\ sites' = sites
        BY <1>3 DEF Check
    <2>2. Findings(held) \in [DOMAIN sites -> 0 .. 2] /\ Findings(named) \in [DOMAIN sites -> 0 .. 2]
        BY <1>1, FindingsCount
    <2>3. findings' \in [{"graph", "names"} -> [DOMAIN sites' -> 0 .. 2]]
        BY <2>1, <2>2
    <2> QED
        BY <1>1, <2>1, <2>3 DEF LoopsTyped, LoopsTypeOK
<1>4. CASE UNCHANGED loopVars
    BY <1>1, <1>4 DEF loopVars, LoopsTyped, LoopsTypeOK
<1> QED
    BY <1>2, <1>3, <1>4 DEF LoopsNext

SqlTyped == SqlInv /\ PerfSqlTypeOK

LEMMA SqlInitTyped == PerfSqlInit => SqlTyped
<1> SUFFICES ASSUME PerfSqlInit PROVE SqlTyped
    OBVIOUS
<1>1. PerfSqlTypeOK
    BY PerfSqlAssumption DEF PerfSqlInit, PerfSqlTypeOK
<1> QED
    BY <1>1, SqlInitInv DEF SqlTyped

LEMMA SqlStepTyped == SqlTyped /\ [PerfSqlNext]_perfSqlVars => SqlTyped'
<1> SUFFICES ASSUME SqlTyped, [PerfSqlNext]_perfSqlVars
             PROVE  SqlTyped'
    OBVIOUS
<1>1. SqlInv' /\ MaxChains \in Nat /\ body \in Seq(EntChain)
    BY SqlStepInv, PerfSqlAssumption DEF SqlTyped, PerfSqlTypeOK
<1>2. CASE WriteChain
    <2>1. PICK c \in EntChain : body' = Append(body, c)
        BY <1>2, WrittenChain
    <2>2. Len(body) < MaxChains /\ UNCHANGED <<method, warned>>
        BY <1>2 DEF WriteChain
    <2>3. body' \in Seq(EntChain) /\ Len(body') = Len(body) + 1
        BY <1>1, <2>1
    <2> QED
        BY <1>1, <2>2, <2>3 DEF SqlTyped, PerfSqlTypeOK
<1>3. CASE Derive
    BY <1>1, <1>3, RiskIsRead DEF Derive, SqlTyped, PerfSqlTypeOK
<1>4. CASE UNCHANGED perfSqlVars
    BY <1>1, <1>4 DEF perfSqlVars, SqlTyped, PerfSqlTypeOK
<1> QED
    BY <1>2, <1>3, <1>4 DEF PerfSqlNext

RedisTyped == RedisInv /\ RedisTypeOK

LEMMA RedisInitTyped == RedisInit => RedisTyped
<1> SUFFICES ASSUME RedisInit PROVE RedisTyped
    OBVIOUS
<1>1. MaxDecls \in Nat /\ MaxLines \in Nat
    BY RedisAssumption
<1>2. decls \in Seq(Decl) /\ Len(decls) <= MaxDecls /\ Len(lines) <= MaxLines
    BY <1>1 DEF RedisInit
<1>3. consts \in [ConstName -> 0 .. 2] /\ ttlFuncs \in 0 .. 2 /\ hints = <<>>
    BY DEF RedisInit
<1> QED
    BY <1>2, <1>3, RedisInitInv DEF RedisTyped, RedisTypeOK

LEMMA RedisStepTyped == RedisTyped /\ [RedisNext]_redisVars => RedisTyped'
<1> SUFFICES ASSUME RedisTyped, [RedisNext]_redisVars
             PROVE  RedisTyped'
    OBVIOUS
<1>1. RedisInv' /\ MaxDecls \in Nat /\ MaxLines \in Nat /\ decls \in Seq(Decl) /\ lines \in Seq(Line)
    BY RedisStepInv, RedisAssumption DEF RedisTyped, RedisTypeOK, RedisInv, CallsInv
<1>2. CASE ScanDecl
    <2>1. PICK d \in Decl : /\ decls' = Append(decls, d)
                            /\ consts' = Evaluated(d) /\ ttlFuncs' = DefaultInt(d)
        BY <1>2 DEF ScanDecl
    <2>2. d.kind = "const" => d.name \in ConstName /\ d.value \in {1, 2}
        BY DEF Decl
    <2>3. consts' \in [ConstName -> 0 .. 2]
        BY <2>1, <2>2 DEF Evaluated, RedisTyped, RedisTypeOK
    <2>4. d.kind = "ttl" => d.uses \in ConstName
        BY DEF Decl
    <2>5. ttlFuncs' \in 0 .. 2
        BY <2>1, <2>4 DEF DefaultInt, RedisTyped, RedisTypeOK
    <2>6. decls' \in Seq(Decl) /\ Len(decls') <= MaxDecls
        BY <1>1, <1>2, <2>1 DEF ScanDecl
    <2>7. lines' = lines /\ hints' = hints /\ Calls' = Calls
        BY <1>2 DEF ScanDecl, Calls
    <2> QED
        BY <1>1, <2>3, <2>5, <2>6, <2>7 DEF RedisTyped, RedisTypeOK
<1>3. CASE WriteLine
    <2>1. PICK l \in Line : lines' = Append(lines, l)
        BY <1>3 DEF WriteLine
    <2>2. Len(lines') <= MaxLines
        BY <1>1, <1>3, <2>1 DEF WriteLine
    <2> QED
        BY <1>1, <1>3, <2>2 DEF WriteLine, RedisTyped, RedisTypeOK
<1>4. CASE ShowCalls
    <2>1. DOMAIN hints' = Calls /\ Calls' = Calls
        BY <1>4 DEF ShowCalls, Calls
    <2> QED
        BY <1>1, <1>4, <2>1 DEF ShowCalls, RedisTyped, RedisTypeOK
<1>5. CASE UNCHANGED redisVars
    <2>1. Calls' = Calls
        BY <1>5 DEF redisVars, Calls
    <2> QED
        BY <1>1, <1>5, <2>1 DEF redisVars, RedisTyped, RedisTypeOK
<1> QED
    BY <1>2, <1>3, <1>4, <1>5 DEF RedisNext

-----------------------------------------------------------------------------
(* Enums: what the reader of protos holds, and the files.                  *)
Declarable == STRING \cup {"values", "parse", OpenBrace}
ValueRead == [name : Seq(STRING) \ {<<>>}, number : {0} \cup {v.number : v \in EnumValue}]
ValuesRead == Seq(ValueRead)
EnumRead == [enum : NameRead, values : ValuesRead]
Parsing == [open : BOOLEAN, depth : Int, enum : NameRead \cup {<<>>}, values : ValuesRead, enums : Seq(EnumRead)]
EnumParse ==
  {p \in Parsing : p.open => p.enum \in NameRead}
EnumDisk == {files \in UNION {[W -> EnumRead] : W \in SUBSET Seq(Declarable)} :
               \A w \in DOMAIN files : files[w].enum.words = w}

LEMMA NamesRead ==
  ASSUME NEW e \in NameRead
  PROVE  e.words \in Seq(Declarable) /\ e.words # <<>>
<1>1. ASSUME NEW x \in EnumName PROVE x.words \in Seq(Declarable) /\ x.words # <<>>
    <2>1. x.words \in Seq(STRING) /\ x.words # <<>> /\ STRING \subseteq Declarable
        BY EnumsAssumption DEF Declarable
    <2> QED
        BY <2>1, WiderSeq
<1>2. ASSUME NEW x \in EnumName, e = WithBrace(x) PROVE e.words \in Seq(Declarable) /\ e.words # <<>>
    <2>1. x \in [words : Seq(STRING) \ {<<>>}, style : STRING]
        BY EnumsAssumption
    <2>2. e.words = Append(x.words, OpenBrace)
        BY <1>2, <2>1 DEF WithBrace
    <2>3. ASSUME NEW S, NEW w \in Seq(S), NEW b \in S PROVE Append(w, b) \in Seq(S) /\ Append(w, b) # <<>>
        <3>1. Append(w, b) \in Seq(S) /\ Len(Append(w, b)) = Len(w) + 1 /\ Len(w) \in Nat
            OBVIOUS
        <3> QED
            BY <3>1
    <2>4. OpenBrace \in Declarable
        BY DEF Declarable
    <2> QED
        BY <1>1, <2>2, <2>3, <2>4
<1> QED
    BY <1>1, <1>2 DEF NameRead

LEMMA ValueNameTyped ==
  ASSUME NEW e \in NameRead, NEW v \in EnumValue
  PROVE  ValueName(e, v) \in ValueRead
<1>1. e.words \in Seq(Declarable) /\ v.words \in Seq(STRING) /\ v.words \in Seq(Declarable) /\ v.words # <<>>
    <2>1. v.words \in Seq(STRING) /\ v.words # <<>> /\ STRING \subseteq Declarable
        BY EnumsAssumption DEF Declarable
    <2> QED
        BY <2>1, WiderSeq, NamesRead
<1>2. ASSUME IsStrictPrefix(e.words, v.words)
      PROVE  SubSeq(v.words, Len(e.words) + 1, Len(v.words)) \in Seq(STRING) \ {<<>>}
    <2>1. Len(e.words) \in Nat /\ Len(v.words) \in Nat /\ Len(e.words) < Len(v.words)
        <3>1. e.words # v.words /\ Len(e.words) <= Len(v.words) /\ SubSeq(e.words, 1, Len(e.words)) = SubSeq(v.words, 1, Len(e.words))
            BY <1>1, <1>2 DEF IsStrictPrefix, IsPrefix
        <3>2. e.words = SubSeq(e.words, 1, Len(e.words)) /\ v.words = SubSeq(v.words, 1, Len(v.words))
            BY <1>1
        <3> QED
            BY <1>1, <3>1, <3>2
    <2> DEFINE rest == SubSeq(v.words, Len(e.words) + 1, Len(v.words))
    <2>2. rest \in Seq(STRING) /\ Len(rest) = Len(v.words) - Len(e.words)
        <3> DEFINE m == Len(e.words) + 1
                   n == Len(v.words)
        <3>2. m \in 1 .. n /\ n \in 1 .. Len(v.words) /\ n - m + 1 = Len(v.words) - Len(e.words)
            BY <2>1
        <3> HIDE DEF m, n
        <3>3. SubSeq(v.words, m, n) \in Seq(STRING) /\ Len(SubSeq(v.words, m, n)) = n - m + 1
            BY <1>1, <3>2
        <3> QED
            BY <3>2, <3>3 DEF m, n
    <2>3. Len(rest) # 0
        BY <2>1, <2>2
    <2> HIDE DEF rest
    <2>4. rest # <<>>
        BY <2>3
    <2> QED
        BY <2>2, <2>4 DEF rest
<1>3. v.number \in {0} \cup {x.number : x \in EnumValue}
    OBVIOUS
<1> QED
    BY <1>1, <1>2, <1>3 DEF ValueName, ValueRead

LEMMA SearchingTyped == Searching \in EnumParse
BY DEF Searching, EnumParse, Parsing, ValuesRead

LEMMA EnumsChanged ==
  ASSUME NEW p \in Parsing, NEW x \in Seq(EnumRead)
  PROVE  /\ [p EXCEPT !.enums = x] \in Parsing /\ [p EXCEPT !.enums = x].enums = x
         /\ [p EXCEPT !.enums = x].open = p.open
BY DEF Parsing

LEMMA ParseMoved ==
  ASSUME NEW p \in Parsing, NEW k \in Int, NEW x \in ValuesRead
  PROVE  /\ [p EXCEPT !.depth = k, !.values = x] \in Parsing
         /\ [p EXCEPT !.depth = k, !.values = x].enum = p.enum
         /\ [p EXCEPT !.depth = k, !.values = x].open = p.open
BY DEF Parsing

LEMMA ClosedTyped ==
  ASSUME NEW p \in EnumParse, p.enum \in NameRead
  PROVE  Closed(p) \in EnumParse /\ Closed(p).enums \in Seq(EnumRead)
<1>1. [enum |-> p.enum, values |-> p.values] \in EnumRead /\ p.enums \in Seq(EnumRead)
    BY DEF EnumParse, Parsing, EnumRead
<1>2. Append(p.enums, [enum |-> p.enum, values |-> p.values]) \in Seq(EnumRead)
    BY <1>1
<1>3. ASSUME NEW es \in Seq(EnumRead)
      PROVE  [Searching EXCEPT !.enums = es] \in EnumParse /\ [Searching EXCEPT !.enums = es].enums = es
    <2>1. Searching \in Parsing /\ Searching.open = FALSE
        BY SearchingTyped DEF EnumParse, Searching
    <2> QED
        BY <2>1, EnumsChanged DEF EnumParse
<1> QED
    BY <1>1, <1>2, <1>3 DEF Closed

LEMMA BracesTypedEnums == \A l \in EnumLine : Braces(l) \in Int
BY DEF Braces

LEMMA ReadTyped ==
  ASSUME NEW p \in EnumParse, NEW l \in EnumLine
  PROVE  ReadEnumLine(p, l) \in EnumParse
<1>1. CASE ~p.open
    <2>1. Heads(l) => l.enum \in NameRead
        BY DEF Heads, EnumLine, NameRead
    <2> QED
        BY <1>1, <2>1, BracesTypedEnums DEF ReadEnumLine, EnumParse, Parsing
<1>2. CASE p.open
    <2> DEFINE more == IF p.depth = 1 /\ l.is = "value" THEN Append(p.values, ValueName(p.enum, l.value)) ELSE p.values
               q == [p EXCEPT !.depth = @ + Braces(l), !.values = more]
    <2>1. p.enum \in NameRead /\ p.values \in ValuesRead
        BY <1>2 DEF EnumParse, Parsing
    <2>2. l.is = "value" => l.value \in EnumValue
        BY DEF EnumLine
    <2>3. more \in ValuesRead
        <3>1. CASE p.depth = 1 /\ l.is = "value"
            <4>1. ValueName(p.enum, l.value) \in ValueRead
                BY <2>1, <2>2, <3>1, ValueNameTyped
            <4> QED
                BY <2>1, <3>1, <4>1 DEF ValuesRead
        <3>2. CASE ~(p.depth = 1 /\ l.is = "value")
            BY <2>1, <3>2
        <3> QED
            BY <3>1, <3>2
    <2> HIDE DEF more
    <2>4. q \in EnumParse /\ q.enum \in NameRead
        <3>1. p \in Parsing /\ p.depth + Braces(l) \in Int
            BY BracesTypedEnums DEF EnumParse, Parsing
        <3>2. PICK k \in Int : k = p.depth + Braces(l)
            BY <3>1
        <3>3. q = [p EXCEPT !.depth = k, !.values = more]
            BY <3>2
        <3>4. [p EXCEPT !.depth = k, !.values = more] \in Parsing
              /\ [p EXCEPT !.depth = k, !.values = more].enum = p.enum
              /\ [p EXCEPT !.depth = k, !.values = more].open = p.open
            BY <2>3, <3>1, <3>2, ParseMoved, Zenon
        <3>5. q \in Parsing /\ q.enum = p.enum /\ q.open = p.open
            BY <3>3, <3>4, Zenon
        <3> HIDE DEF q
        <3> QED
            BY <2>1, <3>1, <3>5 DEF EnumParse
    <2>5. ReadEnumLine(p, l) = IF q.depth <= 0 THEN Closed(q) ELSE q
        BY <1>2 DEF ReadEnumLine, more
    <2> HIDE DEF q
    <2> QED
        BY <2>4, <2>5, ClosedTyped
<1> QED
    BY <1>1, <1>2

LEMMA ReadFold ==
  ASSUME NEW read \in Seq(EnumLine)
  PROVE  \E f \in [0 .. Len(read) -> EnumParse] :
           /\ f[0] = Searching /\ f[Len(read)] = FoldLeft(ReadEnumLine, Searching, read)
           /\ \A k \in 1 .. Len(read) : f[k] = ReadEnumLine(f[k-1], read[k])
<1> DEFINE D == DOMAIN read
           Fits(it) == it = [I \in SUBSET D |-> IF I = {} THEN Searching
                                                ELSE ReadEnumLine(it[I \ {Max(I)}], read[Max(I)])]
           it == CHOOSE it : Fits(it)
           step == [x \in EnumParse \X EnumLine |-> ReadEnumLine(x[1], x[2])]
<1>0. read \in Seq(EnumLine) /\ Len(read) \in Nat /\ D = 1 .. Len(read) /\ read \in [1 .. Len(read) -> EnumLine]
    OBVIOUS
<1>1. FoldLeft(ReadEnumLine, Searching, read) = it[D]
    BY Zenon DEF FoldLeft, MapThenFoldSet
<1>2. step \in [EnumParse \X EnumLine -> EnumParse] /\ Searching \in EnumParse
    BY ReadTyped, SearchingTyped
<1>3. \A x \in EnumParse, l \in EnumLine : step[<<x, l>>] = ReadEnumLine(x, l)
    OBVIOUS
<1> HIDE DEF step
<1>4. Fits(it)
    <2>1. PICK fold : FoldsOver(fold, EnumParse, Searching, step, Len(read), read)
        BY <1>0, <1>2, FoldExists, Zenon
    <2>2. Fits(fold)
        BY <1>0, <1>3, <2>1, MaxOf DEF FoldsOver
    <2> QED
        BY <2>2, Zenon
<1> HIDE DEF it
<1>5. it[{}] = Searching
    BY <1>4
<1>6. ASSUME NEW I \in SUBSET D, I # {}, it[I \ {Max(I)}] \in EnumParse
      PROVE  it[I] = step[<<it[I \ {Max(I)}], read[Max(I)]>>]
    <2>1. read[Max(I)] \in EnumLine
        BY <1>0, <1>6, MaxOf
    <2> QED
        BY <1>3, <1>4, <1>6, <2>1
<1>7. PICK f : FoldsAlong(f, EnumParse, Searching, step, read, it[D])
    <2>1. StepsWithin(it, EnumParse, Searching, step, read)
        BY <1>5, <1>6 DEF StepsWithin
    <2>2. \E f : FoldsAlong(f, EnumParse, Searching, step, read, it[DOMAIN read])
        BY <1>0, <1>2, <2>1, FoldPlaces, Zenon
    <2> QED
        BY <2>2
<1>8. ASSUME NEW k \in 1 .. Len(read) PROVE f[k] = ReadEnumLine(f[k-1], read[k])
    <2>1. f[k-1] \in EnumParse /\ read[k] \in EnumLine
        BY <1>0, <1>7 DEF FoldsAlong
    <2> QED
        BY <1>3, <1>7, <2>1 DEF FoldsAlong
<1> QED
    BY <1>1, <1>7, <1>8 DEF FoldsAlong

LEMMA EnumsParsed ==
  ASSUME NEW read \in Seq(EnumLine)
  PROVE  ParseProtoEnums(read) \in Seq(EnumRead)
<1> DEFINE p == FoldLeft(ReadEnumLine, Searching, read)
<1>1. p \in EnumParse
    <2>1. Len(read) \in 0 .. Len(read)
        BY Len(read) \in Nat
    <2>2. PICK f \in [0 .. Len(read) -> EnumParse] : f[Len(read)] = p
        BY ReadFold
    <2> HIDE DEF p
    <2> QED
        BY <2>1, <2>2
<1>2. p.open => Closed(p).enums \in Seq(EnumRead)
    <2> HIDE DEF p
    <2> QED
        BY <1>1, ClosedTyped DEF EnumParse
<1>3. p.enums \in Seq(EnumRead)
    <2> HIDE DEF p
    <2> QED
        BY <1>1 DEF EnumParse, Parsing
<1> QED
    BY <1>2, <1>3 DEF ParseProtoEnums

LEMMA GenTyped ==
  ASSUME NEW files \in EnumDisk, NEW e \in EnumRead
  PROVE  GenEnumFile(files, e) \in EnumDisk
<1>1. PICK W \in SUBSET Seq(Declarable) : files \in [W -> EnumRead]
    BY DEF EnumDisk
<1>2. e.enum.words \in Seq(Declarable)
    BY NamesRead DEF EnumRead
<1>3. GenEnumFile(files, e) \in [W \cup {e.enum.words} -> EnumRead]
    BY <1>1 DEF GenEnumFile
<1>4. W \cup {e.enum.words} \in SUBSET Seq(Declarable)
    BY <1>2
<1>5. \A w \in DOMAIN GenEnumFile(files, e) : GenEnumFile(files, e)[w].enum.words = w
    BY <1>1 DEF GenEnumFile, EnumDisk
<1> QED
    BY <1>3, <1>4, <1>5 DEF EnumDisk

LEMMA GenFold ==
  ASSUME NEW files \in EnumDisk, NEW es \in Seq(EnumRead)
  PROVE  \E f \in [0 .. Len(es) -> EnumDisk] :
           /\ f[0] = files /\ f[Len(es)] = FoldLeft(GenEnumFile, files, es)
           /\ \A k \in 1 .. Len(es) : f[k] = GenEnumFile(f[k-1], es[k])
<1> DEFINE D == DOMAIN es
           Fits(it) == it = [I \in SUBSET D |-> IF I = {} THEN files
                                                ELSE GenEnumFile(it[I \ {Max(I)}], es[Max(I)])]
           it == CHOOSE it : Fits(it)
           step == [x \in EnumDisk \X EnumRead |-> GenEnumFile(x[1], x[2])]
<1>0. es \in Seq(EnumRead) /\ Len(es) \in Nat /\ D = 1 .. Len(es) /\ es \in [1 .. Len(es) -> EnumRead]
    OBVIOUS
<1>1. FoldLeft(GenEnumFile, files, es) = it[D]
    BY Zenon DEF FoldLeft, MapThenFoldSet
<1>2. step \in [EnumDisk \X EnumRead -> EnumDisk] /\ files \in EnumDisk
    BY GenTyped
<1>3. \A x \in EnumDisk, l \in EnumRead : step[<<x, l>>] = GenEnumFile(x, l)
    OBVIOUS
<1> HIDE DEF step
<1>4. Fits(it)
    <2>1. PICK fold : FoldsOver(fold, EnumDisk, files, step, Len(es), es)
        BY <1>0, <1>2, FoldExists, Zenon
    <2>2. Fits(fold)
        BY <1>0, <1>3, <2>1, MaxOf DEF FoldsOver
    <2> QED
        BY <2>2, Zenon
<1> HIDE DEF it
<1>5. it[{}] = files
    BY <1>4
<1>6. ASSUME NEW I \in SUBSET D, I # {}, it[I \ {Max(I)}] \in EnumDisk
      PROVE  it[I] = step[<<it[I \ {Max(I)}], es[Max(I)]>>]
    <2>1. es[Max(I)] \in EnumRead
        BY <1>0, <1>6, MaxOf
    <2> QED
        BY <1>3, <1>4, <1>6, <2>1
<1>7. PICK f : FoldsAlong(f, EnumDisk, files, step, es, it[D])
    <2>1. StepsWithin(it, EnumDisk, files, step, es)
        BY <1>5, <1>6 DEF StepsWithin
    <2>2. \E f : FoldsAlong(f, EnumDisk, files, step, es, it[DOMAIN es])
        BY <1>0, <1>2, <2>1, FoldPlaces, Zenon
    <2> QED
        BY <2>2
<1>8. ASSUME NEW k \in 1 .. Len(es) PROVE f[k] = GenEnumFile(f[k-1], es[k])
    <2>1. f[k-1] \in EnumDisk /\ es[k] \in EnumRead
        BY <1>0, <1>7 DEF FoldsAlong
    <2> QED
        BY <1>3, <1>7, <2>1 DEF FoldsAlong
<1> QED
    BY <1>1, <1>7, <1>8 DEF FoldsAlong


EnumsTyped ==
  /\ EnumsTypeOK
  /\ protoLines \in Seq(EnumLine) /\ enumFiles \in EnumDisk

LEMMA EnumsInitTyped == EnumsInit => EnumsTyped
<1> SUFFICES ASSUME EnumsInit PROVE EnumsTyped
    OBVIOUS
<1>1. enumFiles \in [{} -> EnumRead] /\ DOMAIN enumFiles = {} /\ Range(protoLines) = {} /\ Len(protoLines) = 0
    BY DEF EnumsInit, Range
<1>2. {} \in SUBSET Seq(Declarable)
    OBVIOUS
<1>3. enumFiles \in EnumDisk
    BY <1>1, <1>2 DEF EnumDisk
<1> QED
    BY <1>1, <1>3, EnumsAssumption DEF EnumsInit, EnumsTyped, EnumsTypeOK

LEMMA DiskTyped ==
  ASSUME NEW files \in EnumDisk
  PROVE  \A w \in DOMAIN files : files[w].enum \in NameRead /\ files[w].enum.words = w
<1>1. PICK W \in SUBSET Seq(Declarable) : files \in [W -> EnumRead]
    BY DEF EnumDisk
<1> QED
    BY <1>1 DEF EnumDisk, EnumRead

LEMMA EnumsStepTyped == EnumsTyped /\ [EnumsNext]_enumsVars => EnumsTyped'
<1> SUFFICES ASSUME EnumsTyped, [EnumsNext]_enumsVars
             PROVE  EnumsTyped'
    OBVIOUS
<1>1. protoLines \in Seq(EnumLine) /\ enumFiles \in EnumDisk /\ MaxEnumLines \in Nat
    BY EnumsAssumption DEF EnumsTyped
<1>2. ASSUME protoLines' \in Seq(EnumLine), Len(protoLines') <= MaxEnumLines, enumFiles' \in EnumDisk,
             enumsFrom' \in {"none", "proto", "list"}
      PROVE  EnumsTyped'
    <2>1. Range(protoLines') \subseteq EnumLine
        BY <1>2 DEF Range
    <2>2. \A w \in DOMAIN enumFiles' : enumFiles'[w].enum \in NameRead /\ enumFiles'[w].enum.words = w
        BY <1>2, DiskTyped
    <2> QED
        BY <1>2, <2>1, <2>2 DEF EnumsTyped, EnumsTypeOK
<1>3. CASE WriteProtoLine
    <2>1. PICK l \in EnumLine : protoLines' = Append(protoLines, l)
        BY <1>3 DEF WriteProtoLine
    <2>2. Len(protoLines) < MaxEnumLines /\ enumFiles' = enumFiles /\ enumsFrom' = "none"
        BY <1>3 DEF WriteProtoLine
    <2>3. protoLines' \in Seq(EnumLine) /\ Len(protoLines') = Len(protoLines) + 1 /\ Len(protoLines) \in Nat
        BY <1>1, <2>1
    <2> QED
        BY <1>1, <1>2, <2>2, <2>3
<1>4. CASE DropProto
    BY <1>1, <1>2, <1>4 DEF DropProto
<1>5. CASE GenEnumsFromProto
    <2>1. ParseProtoEnums(protoLines) \in Seq(EnumRead)
        BY <1>1, EnumsParsed
    <2>3. ASSUME NEW es \in Seq(EnumRead), NEW disk_ \in EnumDisk
          PROVE  FoldLeft(GenEnumFile, disk_, es) \in EnumDisk
        <3>1. PICK f \in [0 .. Len(es) -> EnumDisk] : f[Len(es)] = FoldLeft(GenEnumFile, disk_, es)
            BY GenFold
        <3>2. Len(es) \in 0 .. Len(es)
            OBVIOUS
        <3> QED
            BY <3>1, <3>2
    <2> QED
        BY <1>1, <1>2, <1>5, <2>1, <2>3 DEF GenEnumsFromProto, EnumsTyped, EnumsTypeOK
<1>6. CASE EnumGen
    <2>1. PICK enum \in EnumName, v \in EnumValue :
            enumFiles' = GenEnumFile(enumFiles, [enum |-> enum, values |-> <<[name |-> v.words, number |-> 0]>>])
        BY <1>6 DEF EnumGen
    <2>2. [name |-> v.words, number |-> 0] \in ValueRead
        BY EnumsAssumption DEF ValueRead
    <2>3. <<[name |-> v.words, number |-> 0]>> \in ValuesRead
        BY <2>2 DEF ValuesRead
    <2>4. enumFiles' \in EnumDisk
        BY <1>1, <2>1, <2>3, GenTyped DEF EnumRead, NameRead
    <2> QED
        BY <1>1, <1>2, <1>6, <2>4 DEF EnumGen, EnumsTyped, EnumsTypeOK
<1>7. CASE UNCHANGED enumsVars
    BY <1>1, <1>2, <1>7 DEF enumsVars, EnumsTyped, EnumsTypeOK
<1> QED
    BY <1>3, <1>4, <1>5, <1>6, <1>7 DEF EnumsNext

(* How deep the braces are behind each line of a proto.                    *)
LEMMA DeeperTyped == 0 \in Int /\ \A d \in Int, l \in EnumLine : Deeper(d, l) \in Int
BY BracesTypedEnums DEF Deeper

DepthSteps == [x \in Int \X EnumLine |-> Deeper(x[1], x[2])]

LEMMA DepthFolds ==
  ASSUME NEW read \in Seq(EnumLine)
  PROVE  FoldedTo(Int, EnumLine, 0, DepthSteps, read, FoldLeft(Deeper, 0, read))
<1> DEFINE D == DOMAIN read
           Fits(it) == it = [I \in SUBSET D |-> IF I = {} THEN 0
                                                ELSE Deeper(it[I \ {Max(I)}], read[Max(I)])]
           it == CHOOSE it : Fits(it)
<1>0. Len(read) \in Nat /\ D = 1 .. Len(read) /\ read \in [1 .. Len(read) -> EnumLine]
    OBVIOUS
<1>1. FoldLeft(Deeper, 0, read) = it[D]
    BY Zenon DEF FoldLeft, MapThenFoldSet
<1>2. DepthSteps \in [Int \X EnumLine -> Int] /\ 0 \in Int
    BY DeeperTyped, DeeperTyped DEF DepthSteps
<1>3. \A x \in Int, l \in EnumLine : DepthSteps[<<x, l>>] = Deeper(x, l)
    BY DEF DepthSteps
<1>4. Fits(it)
    <2>1. PICK fold : FoldsOver(fold, Int, 0, DepthSteps, Len(read), read)
        BY <1>0, <1>2, FoldExists, Zenon
    <2>2. Fits(fold)
        BY <1>0, <1>3, <2>1, MaxOf DEF FoldsOver
    <2> QED
        BY <2>2, Zenon
<1> HIDE DEF it
<1>5. it[{}] = 0
    BY <1>4
<1>6. ASSUME NEW I \in SUBSET D, I # {}, it[I \ {Max(I)}] \in Int
      PROVE  it[I] = DepthSteps[<<it[I \ {Max(I)}], read[Max(I)]>>]
    <2>1. read[Max(I)] \in EnumLine
        BY <1>0, <1>6, MaxOf
    <2> QED
        BY <1>3, <1>4, <1>6, <2>1
<1>7. StepsWithin(it, Int, 0, DepthSteps, read)
    BY <1>5, <1>6 DEF StepsWithin
<1> QED
    BY <1>1, <1>2, <1>7 DEF FoldedTo

LEMMA DepthAppend ==
  ASSUME NEW read \in Seq(EnumLine), NEW l \in EnumLine
  PROVE  /\ FoldLeft(Deeper, 0, read) \in Int
         /\ FoldLeft(Deeper, 0, Append(read, l)) = Deeper(FoldLeft(Deeper, 0, read), l)
<1> DEFINE y == FoldLeft(Deeper, 0, read)
           z == FoldLeft(Deeper, 0, Append(read, l))
<1>1. FoldedTo(Int, EnumLine, 0, DepthSteps, read, y)
    BY DepthFolds
<1>2. FoldedTo(Int, EnumLine, 0, DepthSteps, Append(read, l), z)
    BY Append(read, l) \in Seq(EnumLine), DepthFolds
<1> HIDE DEF y, z
<1>3. y \in Int /\ z = Onward(DepthSteps, y, l)
    BY <1>1, <1>2, FoldsAppend
<1>4. \A x \in Int : Onward(DepthSteps, x, l) = Deeper(x, l)
    BY DEF DepthSteps, Onward
<1> QED
    BY <1>3, <1>4 DEF y, z

LEMMA DepthNone ==
  FoldLeft(Deeper, 0, <<>>) = 0
<1>1. <<>> \in Seq(EnumLine) /\ DOMAIN <<>> = {}
    OBVIOUS
<1>2. PICK c : StepsWithin(c, Int, 0, DepthSteps, <<>>) /\ c[{}] = FoldLeft(Deeper, 0, <<>>)
    BY <1>1, DepthFolds, Zenon DEF FoldedTo
<1> QED
    BY <1>2 DEF StepsWithin

LEMMA RawTyped ==
  /\ <<>> \in Seq(EnumValue)
  /\ \A vs \in Seq(EnumValue), l \in EnumLine : WithValue(vs, l) \in Seq(EnumValue)
<1>1. \A l \in EnumLine : l.is = "value" => l.value \in EnumValue
    BY DEF EnumLine
<1> QED
    BY <1>1 DEF WithValue

RawSteps == [x \in Seq(EnumValue) \X EnumLine |-> WithValue(x[1], x[2])]

LEMMA RawFolds ==
  ASSUME NEW read \in Seq(EnumLine)
  PROVE  FoldedTo(Seq(EnumValue), EnumLine, <<>>, RawSteps, read, FoldLeft(WithValue, <<>>, read))
<1> DEFINE D == DOMAIN read
           Fits(it) == it = [I \in SUBSET D |-> IF I = {} THEN <<>>
                                                ELSE WithValue(it[I \ {Max(I)}], read[Max(I)])]
           it == CHOOSE it : Fits(it)
<1>0. Len(read) \in Nat /\ D = 1 .. Len(read) /\ read \in [1 .. Len(read) -> EnumLine]
    OBVIOUS
<1>1. FoldLeft(WithValue, <<>>, read) = it[D]
    BY Zenon DEF FoldLeft, MapThenFoldSet
<1>2. RawSteps \in [Seq(EnumValue) \X EnumLine -> Seq(EnumValue)] /\ <<>> \in Seq(EnumValue)
    BY RawTyped, RawTyped DEF RawSteps
<1>3. \A x \in Seq(EnumValue), l \in EnumLine : RawSteps[<<x, l>>] = WithValue(x, l)
    BY DEF RawSteps
<1>4. Fits(it)
    <2>1. PICK fold : FoldsOver(fold, Seq(EnumValue), <<>>, RawSteps, Len(read), read)
        BY <1>0, <1>2, FoldExists, Zenon
    <2>2. Fits(fold)
        BY <1>0, <1>3, <2>1, MaxOf DEF FoldsOver
    <2> QED
        BY <2>2, Zenon
<1> HIDE DEF it
<1>5. it[{}] = <<>>
    BY <1>4
<1>6. ASSUME NEW I \in SUBSET D, I # {}, it[I \ {Max(I)}] \in Seq(EnumValue)
      PROVE  it[I] = RawSteps[<<it[I \ {Max(I)}], read[Max(I)]>>]
    <2>1. read[Max(I)] \in EnumLine
        BY <1>0, <1>6, MaxOf
    <2> QED
        BY <1>3, <1>4, <1>6, <2>1
<1>7. StepsWithin(it, Seq(EnumValue), <<>>, RawSteps, read)
    BY <1>5, <1>6 DEF StepsWithin
<1> QED
    BY <1>1, <1>2, <1>7 DEF FoldedTo

LEMMA RawAppend ==
  ASSUME NEW read \in Seq(EnumLine), NEW l \in EnumLine
  PROVE  /\ FoldLeft(WithValue, <<>>, read) \in Seq(EnumValue)
         /\ FoldLeft(WithValue, <<>>, Append(read, l)) = WithValue(FoldLeft(WithValue, <<>>, read), l)
<1> DEFINE y == FoldLeft(WithValue, <<>>, read)
           z == FoldLeft(WithValue, <<>>, Append(read, l))
<1>1. FoldedTo(Seq(EnumValue), EnumLine, <<>>, RawSteps, read, y)
    BY RawFolds
<1>2. FoldedTo(Seq(EnumValue), EnumLine, <<>>, RawSteps, Append(read, l), z)
    BY Append(read, l) \in Seq(EnumLine), RawFolds
<1> HIDE DEF y, z
<1>3. y \in Seq(EnumValue) /\ z = Onward(RawSteps, y, l)
    BY <1>1, <1>2, FoldsAppend
<1>4. \A x \in Seq(EnumValue) : Onward(RawSteps, x, l) = WithValue(x, l)
    BY DEF RawSteps, Onward
<1> QED
    BY <1>3, <1>4 DEF y, z

LEMMA RawNone ==
  FoldLeft(WithValue, <<>>, <<>>) = <<>>
<1>1. <<>> \in Seq(EnumLine) /\ DOMAIN <<>> = {}
    OBVIOUS
<1>2. PICK c : StepsWithin(c, Seq(EnumValue), <<>>, RawSteps, <<>>) /\ c[{}] = FoldLeft(WithValue, <<>>, <<>>)
    BY <1>1, RawFolds, Zenon DEF FoldedTo
<1> QED
    BY <1>2 DEF StepsWithin

(* What WriteProtoLine lets the developer write.                           *)
Formed(proto) ==
  \A n \in 1 .. Len(proto) :
    /\ StartsEnum(proto[n]) \/ proto[n].is = "brace" <=> Depth(SubSeq(proto, 1, n - 1)) = 0
    /\ proto[n].is \in {"value", "values", "option", "last"} => Depth(SubSeq(proto, 1, n - 1)) = 1
DepthAt(proto, n) == Depth(SubSeq(proto, 1, n))

LEMMA DepthsGrow ==
  ASSUME NEW proto \in Seq(EnumLine)
  PROVE  /\ DepthAt(proto, 0) = 0 /\ DepthAt(proto, Len(proto)) = Depth(proto)
         /\ \A n \in 1 .. Len(proto) : DepthAt(proto, n) = DepthAt(proto, n - 1) + Braces(proto[n])
<1>0. Len(proto) \in Nat /\ SubSeq(proto, 1, 0) = <<>> /\ SubSeq(proto, 1, Len(proto)) = proto
    OBVIOUS
<1>1. DepthAt(proto, 0) = 0
    BY <1>0, DepthNone, Zenon DEF DepthAt, Depth
<1>2. ASSUME NEW n \in 1 .. Len(proto)
      PROVE  DepthAt(proto, n) = DepthAt(proto, n - 1) + Braces(proto[n])
    <2> DEFINE m == n - 1
    <2>1. m \in Nat /\ m < Len(proto) /\ 0 \in 0 .. m /\ m + 1 = n /\ 0 + 1 = 1
        BY <1>0
    <2> HIDE DEF m
    <2>2. /\ SubSeq(proto, 1, m) \in Seq(EnumLine)
          /\ SubSeq(proto, 1, m + 1) = Append(SubSeq(proto, 1, m), proto[m + 1])
        <3>1. /\ SubSeq(proto, 0 + 1, m) \in Seq(EnumLine)
              /\ SubSeq(proto, 0 + 1, m + 1) = Append(SubSeq(proto, 0 + 1, m), proto[m + 1])
            BY <2>1, SliceGrows
        <3> QED
            BY <2>1, <3>1
    <2>3. proto[m + 1] \in EnumLine
        BY <2>1
    <2>4. DepthAt(proto, n) = Deeper(DepthAt(proto, m), proto[n])
        BY <2>1, <2>2, <2>3, DepthAppend, Zenon DEF DepthAt, Depth
    <2> QED
        BY <2>4 DEF Deeper, m
<1> QED
    BY <1>0, <1>1, <1>2, Zenon DEF DepthAt

LEMMA BracesAre ==
  ASSUME NEW l \in EnumLine
  PROVE  /\ Heads(l) => Braces(l) \in {0, 1} /\ (l.is \in {"head", "valued"} => Braces(l) = 1) /\ (Braces(l) = 0 => l.is = "whole")
         /\ StartsEnum(l) => Braces(l) \in {0, 1}
         /\ l.is \in {"value", "values"} => Braces(l) = 0
         /\ (l.is \in {"option", "brace"} => Braces(l) = 1) /\ (l.is \in {"close", "last"} => Braces(l) = 0 - 1)
         /\ StartsEnum(l) \/ l.is \in {"value", "values", "option", "brace", "close", "last"}
         /\ (StartsEnum(l) \/ l.is = "brace") /\ ~Heads(l) => l.is \in {"bare", "brace"}
BY DEF EnumLine, Braces, Heads, StartsEnum

LEMMA FormedDepths ==
  ASSUME NEW proto \in Seq(EnumLine), Formed(proto)
  PROVE  \A n \in 0 .. Len(proto) : DepthAt(proto, n) \in {0, 1, 2}
<1> DEFINE Q == {n \in 0 .. Len(proto) : DepthAt(proto, n) \in {0, 1, 2}}
<1>1. Len(proto) \in Nat /\ 0 \in 0 .. Len(proto)
    OBVIOUS
<1>2. 0 \in Q
    BY <1>1, DepthsGrow
<1>3. ASSUME NEW n \in 1 .. Len(proto), n - 1 \in Q PROVE n \in Q
    <2>1. /\ DepthAt(proto, n) = DepthAt(proto, n - 1) + Braces(proto[n])
          /\ DepthAt(proto, n - 1) \in {0, 1, 2}
        BY <1>3, DepthsGrow
    <2>2. proto[n] \in EnumLine
        OBVIOUS
    <2>3. /\ StartsEnum(proto[n]) \/ proto[n].is = "brace" <=> DepthAt(proto, n - 1) = 0
          /\ proto[n].is \in {"value", "values", "option", "last"} => DepthAt(proto, n - 1) = 1
        BY Zenon DEF Formed, DepthAt
    <2>4. DepthAt(proto, n) \in {0, 1, 2}
        BY <2>1, <2>2, <2>3, BracesAre
    <2> QED
        BY <1>1, <2>4
<1> HIDE DEF Q
<1>4. 0 .. Len(proto) \subseteq Q
    BY <1>1, <1>2, <1>3, UpTo
<1> QED
    BY <1>4 DEF Q

(* The values that the enum on line h has up to line n.                    *)
NamedAs(enum, values) == [k \in DOMAIN values |-> ValueName(enum, values[k])]
ValuesUpTo(proto, h, n) == NamedAs(proto[h].enum, FoldLeft(WithValue, <<>>, SubSeq(proto, h + 1, n)))

LEMMA NamedGrows ==
  ASSUME NEW enum \in NameRead, NEW vs \in Seq(EnumValue), NEW v \in EnumValue
  PROVE  /\ NamedAs(enum, vs) \in ValuesRead
         /\ NamedAs(enum, Append(vs, v)) = Append(NamedAs(enum, vs), ValueName(enum, v))
<1>1. \A x \in EnumValue : ValueName(enum, x) \in ValueRead
    BY ValueNameTyped
<1> DEFINE ws == Append(vs, v)
           a == NamedAs(enum, vs)
           b == NamedAs(enum, ws)
           c == Append(a, ValueName(enum, v))
<1>2. ws \in Seq(EnumValue) /\ Len(ws) = Len(vs) + 1 /\ ws[Len(vs) + 1] = v /\ \A k \in 1 .. Len(vs) : ws[k] = vs[k]
    OBVIOUS
<1>3. a \in Seq(ValueRead) /\ Len(a) = Len(vs) /\ \A k \in 1 .. Len(vs) : a[k] = ValueName(enum, vs[k])
    BY <1>1 DEF NamedAs
<1> HIDE DEF ws
<1>4. b \in Seq(ValueRead) /\ Len(b) = Len(ws) /\ \A k \in 1 .. Len(ws) : b[k] = ValueName(enum, ws[k])
    BY <1>1, <1>2 DEF NamedAs
<1> HIDE DEF a, b
<1>5. /\ c \in Seq(ValueRead) /\ Len(c) = Len(vs) + 1 /\ c[Len(vs) + 1] = ValueName(enum, v)
      /\ \A k \in 1 .. Len(vs) : c[k] = a[k]
    BY <1>1, <1>3
<1> HIDE DEF c
<1>6. \A k \in 1 .. Len(b) : b[k] = c[k]
    BY <1>2, <1>3, <1>4, <1>5
<1>7. b = c
    BY <1>2, <1>4, <1>5, <1>6, SeqEqual
<1> QED
    BY <1>3, <1>7 DEF a, b, c, ws, ValuesRead

LEMMA ValuesBehind ==
  ASSUME NEW proto \in Seq(EnumLine), NEW h \in 1 .. Len(proto), Heads(proto[h])
  PROVE  /\ proto[h].enum \in NameRead
         /\ ValuesUpTo(proto, h, h) = <<>>
         /\ \A n \in h .. Len(proto) - 1 :
              /\ ValuesUpTo(proto, h, n) \in ValuesRead
              /\ proto[n + 1].is # "value" => ValuesUpTo(proto, h, n + 1) = ValuesUpTo(proto, h, n)
              /\ proto[n + 1].is = "value" =>
                   ValuesUpTo(proto, h, n + 1) = Append(ValuesUpTo(proto, h, n), ValueName(proto[h].enum, proto[n + 1].value))
<1>0. proto[h].enum \in NameRead
    <2>1. proto[h] \in EnumLine
        OBVIOUS
    <2> QED
        BY <2>1 DEF Heads, EnumLine, NameRead
<1>1. ValuesUpTo(proto, h, h) = <<>>
    <2>1. SubSeq(proto, h + 1, h) = <<>>
        BY NoSlice
    <2>2. FoldLeft(WithValue, <<>>, SubSeq(proto, h + 1, h)) = <<>>
        BY <2>1, RawNone, Zenon
    <2>3. NamedAs(proto[h].enum, <<>>) = <<>>
        BY DEF NamedAs
    <2> QED
        BY <2>2, <2>3, Zenon DEF ValuesUpTo
<1>2. ASSUME NEW n \in h .. Len(proto) - 1
      PROVE  /\ ValuesUpTo(proto, h, n) \in ValuesRead
             /\ proto[n + 1].is # "value" => ValuesUpTo(proto, h, n + 1) = ValuesUpTo(proto, h, n)
             /\ proto[n + 1].is = "value" =>
                  ValuesUpTo(proto, h, n + 1) = Append(ValuesUpTo(proto, h, n), ValueName(proto[h].enum, proto[n + 1].value))
    <2> DEFINE read == SubSeq(proto, h + 1, n)
               l == proto[n + 1]
               vs == FoldLeft(WithValue, <<>>, read)
               ws == FoldLeft(WithValue, <<>>, SubSeq(proto, h + 1, n + 1))
    <2>1. read \in Seq(EnumLine) /\ SubSeq(proto, h + 1, n + 1) = Append(read, l) /\ l \in EnumLine
        <3>1. n \in Nat /\ n < Len(proto) /\ h \in 0 .. n /\ proto[n + 1] \in EnumLine
            OBVIOUS
        <3> QED
            BY <3>1, SliceGrows
    <2> HIDE DEF read, l
    <2>2. vs \in Seq(EnumValue) /\ ws = WithValue(vs, l)
        BY <2>1, RawAppend, Zenon
    <2>3. l.is = "value" => l.value \in EnumValue
        BY <2>1 DEF EnumLine
    <2>4. ValuesUpTo(proto, h, n) = NamedAs(proto[h].enum, vs) /\ ValuesUpTo(proto, h, n + 1) = NamedAs(proto[h].enum, ws)
        BY Zenon DEF ValuesUpTo, read
    <2> HIDE DEF vs, ws
    <2>5. NamedAs(proto[h].enum, vs) \in ValuesRead
        BY <1>0, <2>2, ValueNameTyped DEF NamedAs, ValuesRead
    <2>6. ASSUME l.is = "value"
          PROVE  NamedAs(proto[h].enum, ws) = Append(NamedAs(proto[h].enum, vs), ValueName(proto[h].enum, l.value))
        BY <1>0, <2>2, <2>3, <2>6, NamedGrows, Zenon DEF WithValue
    <2>7. l.is # "value" => ws = vs
        BY <2>2 DEF WithValue
    <2> QED
        BY <2>4, <2>5, <2>6, <2>7, Zenon DEF l
<1> QED
    BY <1>0, <1>1, <1>2

(* One line of a proto changes what the reader holds in three ways.        *)
ValuesWith(p, l) == IF p.depth = 1 /\ l.is = "value" THEN Append(p.values, ValueName(p.enum, l.value)) ELSE p.values
EnumOpened(p, l, q) ==
  ~p.open /\ q.open /\ q.depth = Braces(l) /\ q.enum = l.enum /\ q.values = p.values /\ q.enums = p.enums
EnumKept(p, l, q) ==
  /\ p.open /\ q.open /\ q.depth = p.depth + Braces(l) /\ q.enum = p.enum /\ q.enums = p.enums
  /\ q.values = ValuesWith(p, l)
EnumShut(p, l, q) ==
  /\ p.open /\ ~q.open /\ q.values = <<>>
  /\ q.enums = IF ValuesWith(p, l) = <<>> THEN p.enums
               ELSE Append(p.enums, [enum |-> p.enum, values |-> ValuesWith(p, l)])

LEMMA ClosedIs ==
  ASSUME NEW p
  PROVE  /\ Closed(p).open = FALSE /\ Closed(p).values = <<>>
         /\ Closed(p).enums = IF p.values = <<>> THEN p.enums
                              ELSE Append(p.enums, [enum |-> p.enum, values |-> p.values])
<1> DEFINE es == IF p.values = <<>> THEN p.enums ELSE Append(p.enums, [enum |-> p.enum, values |-> p.values])
<1>1. Closed(p) = [Searching EXCEPT !.enums = es]
    BY Zenon DEF Closed
<1> HIDE DEF es
<1>2. Closed(p).open = FALSE /\ Closed(p).values = <<>> /\ Closed(p).enums = es
    BY <1>1 DEF Searching
<1> QED
    BY <1>2 DEF es

LEMMA ReadChanges ==
  ASSUME NEW p \in EnumParse, NEW l \in EnumLine, NEW q, q = ReadEnumLine(p, l)
  PROVE  /\ ~p.open /\ Heads(l) => EnumOpened(p, l, q)
         /\ ~p.open /\ ~Heads(l) => q = p
         /\ p.open /\ p.depth + Braces(l) > 0 => EnumKept(p, l, q)
         /\ p.open /\ p.depth + Braces(l) <= 0 => EnumShut(p, l, q)
<1>0. p.depth \in Int /\ Braces(l) \in Int /\ p \in Parsing
    BY BracesTypedEnums DEF EnumParse, Parsing
<1>3. ASSUME ~p.open, ~Heads(l) PROVE q = p
    BY <1>3 DEF ReadEnumLine
<1>1. ASSUME ~p.open, Heads(l) PROVE EnumOpened(p, l, q)
    BY <1>0, <1>1 DEF ReadEnumLine, EnumOpened, Parsing
<1>2. ASSUME p.open
      PROVE  /\ p.depth + Braces(l) > 0 => EnumKept(p, l, q)
             /\ p.depth + Braces(l) <= 0 => EnumShut(p, l, q)
    <2> DEFINE d == p.depth + Braces(l)
               vs == ValuesWith(p, l)
               r == [p EXCEPT !.depth = d, !.values = vs]
    <2>1. q = IF r.depth <= 0 THEN Closed(r) ELSE r
        BY <1>2, Zenon DEF ReadEnumLine, ValuesWith
    <2> HIDE DEF d, vs
    <2>2. r.depth = d /\ r.values = vs /\ r.enum = p.enum /\ r.enums = p.enums /\ r.open = p.open
        BY <1>0 DEF Parsing
    <2> HIDE DEF r
    <2>3. ASSUME d > 0 PROVE EnumKept(p, l, q)
        <3>1. q = r
            BY <1>0, <2>1, <2>2, <2>3 DEF d
        <3> QED
            BY <1>2, <2>2, <3>1 DEF EnumKept, d, vs
    <2>4. ASSUME d <= 0 PROVE EnumShut(p, l, q)
        <3>1. q = Closed(r)
            BY <2>1, <2>2, <2>4
        <3>2. ~q.open /\ q.values = <<>> /\ q.enums = IF vs = <<>> THEN p.enums ELSE Append(p.enums, [enum |-> p.enum, values |-> vs])
            <4>1. /\ Closed(r).open = FALSE /\ Closed(r).values = <<>>
                  /\ Closed(r).enums = IF r.values = <<>> THEN r.enums
                                       ELSE Append(r.enums, [enum |-> r.enum, values |-> r.values])
                BY ClosedIs
            <4> QED
                BY <2>2, <3>1, <4>1, Zenon
        <3> QED
            BY <1>2, <3>2 DEF EnumShut, vs
    <2> QED
        BY <2>3, <2>4 DEF d
<1> QED
    BY <1>1, <1>2, <1>3

(* Where an enum is, and what the reader holds at a line.                  *)
Within(proto, h, n) == \A k \in h .. n : DepthAt(proto, k) # 0
EndsAt(proto, h, j) == j > h /\ Within(proto, h, j - 1) /\ DepthAt(proto, j) = 0
Apart(proto, h) == proto[h].is = "head" /\ (h > 1 => proto[h - 1].is # "whole")
EnumHolds(proto, n, p) ==
  /\ p.open => p.depth = DepthAt(proto, n)
  /\ ~p.open => p.values = <<>>
  /\ p.open /\ DepthAt(proto, n) = 0 => n > 0 /\ proto[n].is = "whole"

LEMMA HoldsNext ==
  ASSUME NEW proto \in Seq(EnumLine), Formed(proto), NEW n \in 1 .. Len(proto),
         NEW p \in EnumParse, EnumHolds(proto, n - 1, p), NEW q, q = ReadEnumLine(p, proto[n])
  PROVE  /\ EnumHolds(proto, n, q)
         /\ \/ EnumOpened(p, proto[n], q) /\ Heads(proto[n])
            \/ EnumKept(p, proto[n], q) /\ DepthAt(proto, n) # 0
            \/ EnumShut(p, proto[n], q) /\ DepthAt(proto, n) = 0 /\ ValuesWith(p, proto[n]) = p.values
            \/ ~p.open /\ ~Heads(proto[n]) /\ q = p
         /\ p.open /\ proto[n].is = "value" => p.depth = 1
         /\ p.open => ~Apart(proto, n)
<1> DEFINE l == proto[n]
           c == DepthAt(proto, n - 1)
           d == DepthAt(proto, n)
<1>1. l \in EnumLine /\ Len(proto) \in Nat /\ n - 1 \in 0 .. Len(proto) /\ n \in 0 .. Len(proto) /\ n > 0
    OBVIOUS
<1>2. /\ d = c + Braces(l) /\ c \in {0, 1, 2} /\ d \in {0, 1, 2}
    BY <1>1, DepthsGrow, FormedDepths
<1>3. /\ StartsEnum(l) \/ l.is = "brace" <=> c = 0
      /\ l.is \in {"value", "values", "option", "last"} => c = 1
      /\ Heads(l) => StartsEnum(l)
    BY Zenon DEF Formed, DepthAt, StartsEnum
<1>4. /\ p.open => p.depth = c
      /\ ~p.open => p.values = <<>>
      /\ p.open /\ c = 0 => n - 1 > 0 /\ proto[n - 1].is = "whole"
    BY DEF EnumHolds
<1>5. p.open => ~Apart(proto, n)
    <2>1. Apart(proto, n) => Heads(l) /\ (n > 1 => proto[n - 1].is # "whole")
        BY DEF Apart, Heads
    <2> QED
        BY <1>1, <1>3, <1>4, <2>1
<1> HIDE DEF l, c, d
<1>6. /\ ~p.open /\ Heads(l) => EnumOpened(p, l, q)
      /\ ~p.open /\ ~Heads(l) => q = p
      /\ p.open /\ p.depth + Braces(l) > 0 => EnumKept(p, l, q)
      /\ p.open /\ p.depth + Braces(l) <= 0 => EnumShut(p, l, q)
    BY <1>1, ReadChanges DEF l
<1>7. \/ EnumOpened(p, l, q) /\ Heads(l)
      \/ EnumKept(p, l, q) /\ d # 0
      \/ EnumShut(p, l, q) /\ d = 0
      \/ ~p.open /\ ~Heads(l) /\ q = p
    BY <1>2, <1>3, <1>4, <1>6
<1>8. d = 0 /\ p.open => ValuesWith(p, l) = p.values
    <2>1. l.is = "value" => Braces(l) = 0
        BY <1>1, BracesAre
    <2> QED
        BY <1>2, <1>3, <1>4, <2>1 DEF ValuesWith
<1>9. /\ q.open => q.depth = d
      /\ ~q.open => q.values = <<>>
      /\ q.open /\ d = 0 => l.is = "whole"
    <2>1. CASE EnumOpened(p, l, q) /\ Heads(l)
        <3>1. q.open /\ q.depth = Braces(l) /\ c = 0
            BY <1>3, <2>1 DEF EnumOpened
        <3>2. Braces(l) = 0 => l.is = "whole"
            BY <1>1, <2>1, BracesAre
        <3> QED
            BY <1>1, <1>2, <3>1, <3>2, BracesTypedEnums
    <2>2. CASE EnumKept(p, l, q) /\ d # 0
        BY <1>2, <1>4, <2>2 DEF EnumKept
    <2>3. CASE EnumShut(p, l, q) /\ d = 0
        BY <2>3 DEF EnumShut
    <2>4. CASE ~p.open /\ ~Heads(l) /\ q = p
        BY <1>4, <2>4
    <2> QED
        BY <1>7, <2>1, <2>2, <2>3, <2>4
<1>10. p.open /\ l.is = "value" => p.depth = 1
    BY <1>3, <1>4
<1> QED
    BY <1>1, <1>5, <1>7, <1>8, <1>9, <1>10 DEF EnumHolds, EnumShut, l, c, d

(* What is read comes from a head; and an enum that does not follow one on *)
(* a line of its own is read as it stands.                                 *)
ReadsFrom(proto, n, enum, values) ==
  \E h \in 1 .. n :
    /\ Heads(proto[h]) /\ enum = proto[h].enum
    /\ Apart(proto, h) => Within(proto, h, n) /\ values = ValuesUpTo(proto, h, n)
CameFrom(proto, n, x) ==
  \E h \in 1 .. n :
    /\ Heads(proto[h]) /\ x.enum = proto[h].enum
    /\ Apart(proto, h) => \E j \in 1 .. n : EndsAt(proto, h, j) /\ x.values = ValuesUpTo(proto, h, j - 1)
Reads(proto, n, i, p) ==
  Within(proto, i, n) => p.open /\ p.enum = proto[i].enum /\ p.values = ValuesUpTo(proto, i, n)
HasRead(proto, i, j, p) ==
  EndsAt(proto, i, j) /\ ValuesUpTo(proto, i, j - 1) # <<>> =>
    \E x \in Range(p.enums) : x.enum = proto[i].enum /\ x.values = ValuesUpTo(proto, i, j - 1)
Follows(proto, n, p) ==
  /\ EnumHolds(proto, n, p)
  /\ p.open => ReadsFrom(proto, n, p.enum, p.values)
  /\ \A x \in Range(p.enums) : CameFrom(proto, n, x)
  /\ \A i \in 1 .. n : Apart(proto, i) => Reads(proto, n, i, p) /\ \A j \in 1 .. n : HasRead(proto, i, j, p)

LEMMA FollowsSearching ==
  ASSUME NEW proto \in Seq(EnumLine)
  PROVE  Follows(proto, 0, Searching)
<1>1. Searching.open = FALSE /\ Searching.values = <<>> /\ Range(Searching.enums) = {} /\ 1 .. 0 = {}
    BY DEF Searching, Range
<1> QED
    BY <1>1, DepthsGrow DEF Follows, EnumHolds

LEMMA WithinGrows ==
  ASSUME NEW proto, NEW n \in Nat, n > 0, NEW h \in 1 .. n - 1
  PROVE  Within(proto, h, n) <=> Within(proto, h, n - 1) /\ DepthAt(proto, n) # 0
<1>1. \A k : k \in h .. n <=> k \in h .. n - 1 \/ k = n
    OBVIOUS
<1> QED
    BY <1>1, Zenon DEF Within

(* The values that the reader has for a head are those behind it.          *)
LEMMA ValuesFollow ==
  ASSUME NEW proto \in Seq(EnumLine), NEW n \in 1 .. Len(proto), NEW h \in 1 .. n - 1, Heads(proto[h]),
         NEW p, p.enum = proto[h].enum, p.values = ValuesUpTo(proto, h, n - 1),
         p.open /\ proto[n].is = "value" => p.depth = 1, p.open
  PROVE  ValuesWith(p, proto[n]) = ValuesUpTo(proto, h, n)
<1> DEFINE m == n - 1
<1>1. m \in h .. Len(proto) - 1 /\ h \in 1 .. Len(proto) /\ m + 1 = n
    OBVIOUS
<1>2. /\ proto[m + 1].is # "value" => ValuesUpTo(proto, h, m + 1) = ValuesUpTo(proto, h, m)
      /\ proto[m + 1].is = "value" =>
           ValuesUpTo(proto, h, m + 1) = Append(ValuesUpTo(proto, h, m), ValueName(proto[h].enum, proto[m + 1].value))
    <2> HIDE DEF m
    <2> QED
        BY <1>1, ValuesBehind
<1>3. p.values = ValuesUpTo(proto, h, m)
    OBVIOUS
<1> HIDE DEF m
<1>4. CASE proto[n].is = "value"
    BY <1>1, <1>2, <1>3, <1>4, Zenon DEF ValuesWith
<1>5. CASE proto[n].is # "value"
    BY <1>1, <1>2, <1>3, <1>5, Zenon DEF ValuesWith
<1> QED
    BY <1>4, <1>5

LEMMA FollowsNext ==
  ASSUME NEW proto \in Seq(EnumLine), Formed(proto), NEW n \in 1 .. Len(proto),
         NEW p \in EnumParse, Follows(proto, n - 1, p), NEW q, q = ReadEnumLine(p, proto[n])
  PROVE  Follows(proto, n, q)
<1> DEFINE l == proto[n]
           Steps == \/ EnumOpened(p, l, q) /\ Heads(l)
                    \/ EnumKept(p, l, q) /\ DepthAt(proto, n) # 0
                    \/ EnumShut(p, l, q) /\ DepthAt(proto, n) = 0 /\ ValuesWith(p, l) = p.values
                    \/ ~p.open /\ ~Heads(l) /\ q = p
<1>0. n \in Nat /\ n > 0 /\ n - 1 \in Nat /\ Len(proto) \in Nat /\ p.enums \in Seq(EnumRead)
    BY DEF EnumParse, Parsing
<1>1. /\ EnumHolds(proto, n, q) /\ Steps /\ (p.open => ~Apart(proto, n))
      /\ p.open /\ l.is = "value" => p.depth = 1
    BY HoldsNext DEF Follows
<1>2. /\ p.open => ReadsFrom(proto, n - 1, p.enum, p.values)
      /\ \A x \in Range(p.enums) : CameFrom(proto, n - 1, x)
      /\ \A i \in 1 .. n - 1 : Apart(proto, i) => Reads(proto, n - 1, i, p) /\ \A j \in 1 .. n - 1 : HasRead(proto, i, j, p)
    BY DEF Follows
<1> HIDE DEF l, Steps
<1>3. \A i : i \in 1 .. n <=> i \in 1 .. n - 1 \/ i = n
    BY <1>0
<1>4. Range(q.enums) = Range(p.enums) \/ Range(q.enums) = Range(p.enums) \cup {[enum |-> p.enum, values |-> p.values]}
    BY <1>0, <1>1, AppendRange DEF Steps, EnumOpened, EnumKept, EnumShut
<1>5. q.open => ReadsFrom(proto, n, q.enum, q.values)
    <2>1. CASE EnumOpened(p, l, q) /\ Heads(l)
        <3>1. q.enum = proto[n].enum /\ q.values = <<>> /\ ~p.open
            BY <2>1 DEF EnumOpened, Follows, EnumHolds, l
        <3>2. ValuesUpTo(proto, n, n) = <<>>
            BY <2>1, ValuesBehind DEF l
        <3>3. Apart(proto, n) => Within(proto, n, n)
            <4>1. Apart(proto, n) => Braces(l) = 1
                BY <2>1, BracesAre DEF Apart, l
            <4>2. q.depth = Braces(l) /\ q.open
                BY <2>1 DEF EnumOpened
            <4>3. DepthAt(proto, n) = q.depth
                BY <1>1, <4>2 DEF EnumHolds
            <4>4. n .. n = {n}
                BY <1>0
            <4> QED
                BY <4>1, <4>2, <4>3, <4>4 DEF Within
        <3> QED
            BY <1>3, <2>1, <3>1, <3>2, <3>3, Zenon DEF ReadsFrom, l
    <2>2. CASE EnumKept(p, l, q) /\ DepthAt(proto, n) # 0
        <3>1. PICK h \in 1 .. n - 1 :
                /\ Heads(proto[h]) /\ p.enum = proto[h].enum
                /\ Apart(proto, h) => Within(proto, h, n - 1) /\ p.values = ValuesUpTo(proto, h, n - 1)
            BY <1>2, <2>2 DEF EnumKept, ReadsFrom
        <3>2. Apart(proto, h) => Within(proto, h, n)
            BY <1>0, <2>2, <3>1, WithinGrows
        <3>3. Apart(proto, h) => q.values = ValuesUpTo(proto, h, n)
            BY <1>1, <2>2, <3>1, ValuesFollow DEF EnumKept, l
        <3>4. q.enum = proto[h].enum
            BY <2>2, <3>1 DEF EnumKept
        <3> QED
            BY <1>3, <3>1, <3>2, <3>3, <3>4, Zenon DEF ReadsFrom
    <2>3. CASE ~p.open /\ ~Heads(l) /\ q = p
        BY <2>3
    <2> QED
        BY <1>1, <2>1, <2>2, <2>3 DEF EnumShut, Steps
<1>6. ASSUME NEW x \in Range(q.enums) PROVE CameFrom(proto, n, x)
    <2>1. CASE x \in Range(p.enums)
        <3>1. CameFrom(proto, n - 1, x)
            BY <1>2, <2>1
        <3> QED
            BY <1>3, <3>1, Zenon DEF CameFrom
    <2>2. CASE x \notin Range(p.enums)
        <3>1. EnumShut(p, l, q) /\ DepthAt(proto, n) = 0 /\ x = [enum |-> p.enum, values |-> p.values]
            BY <1>1, <1>4, <2>2 DEF Steps, EnumOpened, EnumKept
        <3>2. PICK h \in 1 .. n - 1 :
                /\ Heads(proto[h]) /\ p.enum = proto[h].enum
                /\ Apart(proto, h) => Within(proto, h, n - 1) /\ p.values = ValuesUpTo(proto, h, n - 1)
            BY <1>2, <3>1 DEF EnumShut, ReadsFrom
        <3>3. n > h /\ n \in 1 .. n /\ h \in 1 .. n
            BY <1>0
        <3>4. Apart(proto, h) => EndsAt(proto, h, n) /\ x.values = ValuesUpTo(proto, h, n - 1)
            BY <3>1, <3>2, <3>3 DEF EndsAt
        <3>5. x.enum = proto[h].enum
            BY <3>1, <3>2
        <3> QED
            BY <3>2, <3>3, <3>4, <3>5, Zenon DEF CameFrom
    <2> QED
        BY <2>1, <2>2
<1>7. ASSUME NEW i \in 1 .. n, Apart(proto, i)
      PROVE  Reads(proto, n, i, q) /\ \A j \in 1 .. n : HasRead(proto, i, j, q)
    <2>1. CASE i = n
        <3>1. EnumOpened(p, l, q) /\ Heads(l)
            <4>1. Heads(l)
                BY <1>7, <2>1, Zenon DEF Apart, Heads, l
            <4> QED
                BY <1>1, <1>7, <2>1, <4>1 DEF Steps, EnumKept, EnumShut
        <3>2. q.open /\ q.enum = proto[i].enum /\ q.values = <<>>
            BY <2>1, <3>1 DEF EnumOpened, Follows, EnumHolds, l
        <3>3. ValuesUpTo(proto, i, n) = <<>>
            BY <2>1, <3>1, ValuesBehind DEF l
        <3>4. \A j \in 1 .. n : ~(j > i)
            BY <1>0, <2>1
        <3> QED
            BY <3>2, <3>3, <3>4 DEF Reads, HasRead, EndsAt
    <2>2. CASE i # n
        <3>1. i \in 1 .. n - 1 /\ Reads(proto, n - 1, i, p) /\ \A j \in 1 .. n - 1 : HasRead(proto, i, j, p)
            BY <1>2, <1>3, <1>7, <2>2, Zenon
        <3>2. Heads(proto[i])
            BY <1>7 DEF Apart, Heads
        <3>3. Range(p.enums) \subseteq Range(q.enums)
            BY <1>4
        <3>4. Reads(proto, n, i, q)
            <4>1. SUFFICES ASSUME Within(proto, i, n)
                           PROVE  q.open /\ q.enum = proto[i].enum /\ q.values = ValuesUpTo(proto, i, n)
                BY Zenon DEF Reads
            <4>2. Within(proto, i, n - 1) /\ DepthAt(proto, n) # 0
                BY <1>0, <3>1, <4>1, WithinGrows
            <4>3. p.open /\ p.enum = proto[i].enum /\ p.values = ValuesUpTo(proto, i, n - 1)
                BY <3>1, <4>2, Zenon DEF Reads
            <4>4. EnumKept(p, l, q)
                BY <1>1, <4>2, <4>3 DEF Steps, EnumOpened
            <4>5. ValuesWith(p, l) = ValuesUpTo(proto, i, n)
                BY <1>1, <3>1, <3>2, <4>3, ValuesFollow DEF l
            <4> QED
                BY <4>3, <4>4, <4>5 DEF EnumKept
        <3>5. ASSUME NEW j \in 1 .. n PROVE HasRead(proto, i, j, q)
            <4>1. CASE j \in 1 .. n - 1
                BY <3>1, <3>3, <4>1, Zenon DEF HasRead
            <4>2. CASE j = n
                <5>1. SUFFICES ASSUME EndsAt(proto, i, n), ValuesUpTo(proto, i, n - 1) # <<>>
                               PROVE  \E x \in Range(q.enums) : x.enum = proto[i].enum /\ x.values = ValuesUpTo(proto, i, n - 1)
                    BY <4>2, Zenon DEF HasRead
                <5>2. Within(proto, i, n - 1) /\ DepthAt(proto, n) = 0
                    BY <5>1, Zenon DEF EndsAt
                <5>3. p.open /\ p.enum = proto[i].enum /\ p.values = ValuesUpTo(proto, i, n - 1)
                    BY <3>1, <5>2, Zenon DEF Reads
                <5>4. EnumShut(p, l, q) /\ ValuesWith(p, l) = p.values
                    BY <1>1, <5>2, <5>3 DEF Steps, EnumOpened
                <5> DEFINE x == [enum |-> p.enum, values |-> p.values]
                <5>5. q.enums = Append(p.enums, x)
                    BY <5>1, <5>3, <5>4 DEF EnumShut
                <5>6. x \in Range(q.enums)
                    BY <1>0, <5>5, AppendRange
                <5> QED
                    BY <5>3, <5>6
            <4> QED
                BY <1>3, <4>1, <4>2
        <3> QED
            BY <3>4, <3>5
    <2> QED
        BY <2>1, <2>2
<1> QED
    BY <1>1, <1>5, <1>6, <1>7, Zenon DEF Follows

(* All enums that a proto with even braces gives.                          *)
LEMMA ParseKnown ==
  ASSUME NEW proto \in Seq(EnumLine), Formed(proto), Depth(proto) = 0,
         NEW es, es = ParseProtoEnums(proto)
  PROVE  /\ es \in Seq(EnumRead)
         /\ \A x \in Range(es) : CameFrom(proto, Len(proto), x)
         /\ \A i, j \in 1 .. Len(proto) : Apart(proto, i) /\ EndsAt(proto, i, j) /\ ValuesUpTo(proto, i, j - 1) # <<>> =>
              \E x \in Range(es) : x.enum = proto[i].enum /\ x.values = ValuesUpTo(proto, i, j - 1)
<1> DEFINE n == Len(proto)
<1>0. n \in Nat /\ proto \in Seq(EnumLine)
    OBVIOUS
<1>1. PICK f \in [0 .. n -> EnumParse] :
        /\ f[0] = Searching /\ f[n] = FoldLeft(ReadEnumLine, Searching, proto)
        /\ \A k \in 1 .. n : f[k] = ReadEnumLine(f[k-1], proto[k])
    BY ReadFold
<1> DEFINE p == f[n]
<1>2. p \in EnumParse /\ Follows(proto, n, p)
    <2> DEFINE Q == {k \in 0 .. n : Follows(proto, k, f[k])}
    <2>1. 0 \in Q
        BY <1>0, <1>1, FollowsSearching
    <2>2. ASSUME NEW k \in 1 .. n, k - 1 \in Q PROVE k \in Q
        <3>1. f[k - 1] \in EnumParse /\ f[k] = ReadEnumLine(f[k - 1], proto[k]) /\ Follows(proto, k - 1, f[k - 1])
            BY <1>0, <1>1, <2>2
        <3>2. Follows(proto, k, f[k])
            BY <3>1, FollowsNext
        <3> QED
            BY <1>0, <3>2
    <2> HIDE DEF Q
    <2>3. 0 .. n \subseteq Q
        BY <1>0, <2>1, <2>2, UpTo
    <2>4. n \in 0 .. n
        BY <1>0
    <2> QED
        BY <1>1, <2>3, <2>4 DEF Q
<1>3. es = IF p.open THEN Closed(p).enums ELSE p.enums
    BY <1>1, Zenon DEF ParseProtoEnums
<1> HIDE DEF p
<1>4. p.enums \in Seq(EnumRead)
    BY <1>2 DEF EnumParse, Parsing
<1>5. Closed(p).enums = IF p.values = <<>> THEN p.enums ELSE Append(p.enums, [enum |-> p.enum, values |-> p.values])
    BY ClosedIs
<1>6. \/ Range(es) = Range(p.enums)
      \/ p.open /\ Range(es) = Range(p.enums) \cup {[enum |-> p.enum, values |-> p.values]}
    BY <1>3, <1>4, <1>5, AppendRange
<1>7. DepthAt(proto, n) = 0
    BY DepthsGrow
<1>8. ASSUME NEW h \in 1 .. n PROVE ~Within(proto, h, n)
    <2>1. n \in h .. n
        BY <1>0
    <2> QED
        BY <1>7, <2>1 DEF Within
<1>9. ASSUME NEW x \in Range(es) PROVE CameFrom(proto, n, x)
    <2>1. CASE x \in Range(p.enums)
        BY <1>2, <2>1 DEF Follows
    <2>2. CASE x \notin Range(p.enums)
        <3>1. p.open /\ x = [enum |-> p.enum, values |-> p.values]
            BY <1>6, <2>2
        <3>2. PICK h \in 1 .. n : /\ Heads(proto[h]) /\ p.enum = proto[h].enum
                                  /\ Apart(proto, h) => Within(proto, h, n)
            BY <1>2, <3>1 DEF Follows, ReadsFrom
        <3>3. ~Apart(proto, h) /\ x.enum = proto[h].enum
            BY <1>8, <3>1, <3>2
        <3> QED
            BY <3>2, <3>3, Zenon DEF CameFrom
    <2> QED
        BY <2>1, <2>2
<1>10. ASSUME NEW i \in 1 .. n, NEW j \in 1 .. n,
              Apart(proto, i), EndsAt(proto, i, j), ValuesUpTo(proto, i, j - 1) # <<>>
       PROVE  \E x \in Range(es) : x.enum = proto[i].enum /\ x.values = ValuesUpTo(proto, i, j - 1)
    <2>1. HasRead(proto, i, j, p)
        BY <1>2, <1>10 DEF Follows
    <2>2. Range(p.enums) \subseteq Range(es)
        BY <1>6
    <2> QED
        BY <1>10, <2>1, <2>2, Zenon DEF HasRead
<1>11. es \in Seq(EnumRead)
    BY EnumsParsed
<1> QED
    BY <1>9, <1>10, <1>11

(* Of the enums with its words, a file has the last.                       *)
LEMMA GenKnown ==
  ASSUME NEW files \in EnumDisk, NEW es \in Seq(EnumRead), NEW x \in Range(es),
         \A y \in Range(es) : y.enum.words = x.enum.words => y = x
  PROVE  /\ x.enum.words \in DOMAIN FoldLeft(GenEnumFile, files, es)
         /\ FoldLeft(GenEnumFile, files, es)[x.enum.words] = x
<1> DEFINE n == Len(es)
           w == x.enum.words
           Has(made) == w \in DOMAIN made /\ made[w] = x
<1>0. n \in Nat /\ DOMAIN es = 1 .. n
    OBVIOUS
<1>1. PICK m \in 1 .. n : es[m] = x
    BY <1>0 DEF Range
<1>2. PICK f \in [0 .. n -> EnumDisk] :
        /\ f[0] = files /\ f[n] = FoldLeft(GenEnumFile, files, es)
        /\ \A k \in 1 .. n : f[k] = GenEnumFile(f[k-1], es[k])
    BY GenFold
<1> DEFINE Q == {k \in 0 .. n : k >= m => Has(f[k])}
<1>3. ASSUME NEW made, NEW e \in Range(es), e = x \/ Has(made) PROVE Has(GenEnumFile(made, e))
    <2>1. e.enum.words = w => e = x
        BY <1>3
    <2>2. w \in DOMAIN GenEnumFile(made, e)
        BY <1>3 DEF GenEnumFile
    <2>3. GenEnumFile(made, e)[w] = IF w = e.enum.words THEN e ELSE made[w]
        BY <2>2 DEF GenEnumFile
    <2> QED
        BY <1>3, <2>1, <2>2, <2>3, Zenon
<1>4. 0 \in Q
    BY <1>0
<1>5. ASSUME NEW k \in 1 .. n, k - 1 \in Q PROVE k \in Q
    <2>1. es[k] \in Range(es) /\ f[k] = GenEnumFile(f[k-1], es[k]) /\ k \in 0 .. n
        BY <1>0, <1>2 DEF Range
    <2>2. k >= m => es[k] = x \/ Has(f[k - 1])
        <3>1. CASE k = m
            BY <1>1, <3>1
        <3>2. CASE k > m
            <4>1. k - 1 >= m
                BY <3>2
            <4> QED
                BY <1>5, <4>1
        <3> QED
            BY <1>0, <3>1, <3>2
    <2> QED
        BY <1>3, <2>1, <2>2
<1> HIDE DEF Q, Has
<1>6. 0 .. n \subseteq Q
    BY <1>0, <1>4, <1>5, UpTo
<1>7. n \in Q /\ n >= m
    BY <1>0, <1>6
<1>8. Has(f[n])
    BY <1>7 DEF Q
<1> QED
    BY <1>2, <1>8 DEF Has

(* The end of a head, and the values up to it, are those in the model.     *)
LEMMA LastFacts ==
  ASSUME protoLines \in Seq(EnumLine), Formed(protoLines), Depth(protoLines) = 0,
         NEW i \in HeadLines, protoLines[i].is \in {"head", "valued"}
  PROVE  /\ i \in 1 .. Len(protoLines) /\ LastOf(i) \in 1 .. Len(protoLines) /\ EndsAt(protoLines, i, LastOf(i))
         /\ TrueValues(i) = ValuesUpTo(protoLines, i, LastOf(i) - 1)
         /\ \A j \in 1 .. Len(protoLines) : EndsAt(protoLines, i, j) => j = LastOf(i)
<1> DEFINE n == Len(protoLines)
           Even(j) == /\ Depth(SubSeq(protoLines, 1, j)) = 0
                      /\ \A k \in i .. j - 1 : Depth(SubSeq(protoLines, 1, k)) # 0
           last == CHOOSE j \in i .. n : Even(j)
<1>0. /\ n \in Nat /\ i \in 1 .. n /\ protoLines[i] \in EnumLine
      /\ Heads(protoLines[i]) /\ StartsEnum(protoLines[i])
    BY DEF HeadLines, Heads, StartsEnum
<1>1. LastOf(i) = last
    BY DEF LastOf
<1>2. DepthAt(protoLines, i) # 0 /\ DepthAt(protoLines, n) = 0
    <2>1. Braces(protoLines[i]) = 1
        BY <1>0, BracesAre
    <2>2. DepthAt(protoLines, i - 1) = 0
        BY <1>0, Zenon DEF Formed, DepthAt
    <2>3. DepthAt(protoLines, i) = DepthAt(protoLines, i - 1) + Braces(protoLines[i])
        BY <1>0, DepthsGrow
    <2> QED
        BY <2>1, <2>2, <2>3, DepthsGrow
<1>3. \E j \in i .. n : Even(j)
    <2> DEFINE Z == {j \in i .. n : DepthAt(protoLines, j) = 0}
    <2>1. Z \subseteq Nat /\ n \in Z
        BY <1>0, <1>2
    <2>2. PICK j \in Z : \A y \in Z : j <= y
        BY <2>1, LeastFacts
    <2>3. ASSUME NEW k \in i .. j - 1 PROVE DepthAt(protoLines, k) # 0
        <3>1. k \in i .. n /\ ~(j <= k)
            BY <1>0, <2>2
        <3> QED
            BY <2>2, <3>1
    <2> QED
        BY <2>2, <2>3 DEF DepthAt
<1>4. last \in i .. n /\ Even(last)
    BY <1>3, Zenon
<1> HIDE DEF last, Even
<1>5. ASSUME NEW j \in i .. n PROVE Even(j) <=> EndsAt(protoLines, i, j)
    <2>1. j > i \/ j = i
        BY <1>0
    <2>2. DepthAt(protoLines, j) = Depth(SubSeq(protoLines, 1, j))
        BY DEF DepthAt
    <2>3. Within(protoLines, i, j - 1) <=> \A k \in i .. j - 1 : Depth(SubSeq(protoLines, 1, k)) # 0
        BY Zenon DEF Within, DepthAt
    <2> QED
        BY <1>2, <2>1, <2>2, <2>3 DEF EndsAt, Even
<1>6. EndsAt(protoLines, i, last)
    BY <1>4, <1>5
<1>7. ASSUME NEW j \in 1 .. n, EndsAt(protoLines, i, j) PROVE j = last
    <2>1. j > i /\ last > i /\ last \in 1 .. n
        BY <1>0, <1>4, <1>6, <1>7 DEF EndsAt
    <2>2. ~(last \in i .. j - 1)
        BY <1>6, <1>7, Zenon DEF EndsAt, Within
    <2>3. ~(j \in i .. last - 1)
        BY <1>6, <1>7, Zenon DEF EndsAt, Within
    <2> QED
        BY <1>0, <2>1, <2>2, <2>3
<1>8. TrueValues(i) = ValuesUpTo(protoLines, i, last - 1)
    BY <1>1, Zenon DEF TrueValues, ValuesUpTo, NamedAs, Between
<1>9. last \in 1 .. n
    BY <1>0, <1>4
<1> QED
    BY <1>0, <1>1, <1>6, <1>7, <1>8, <1>9

LEMMA FormedAppend ==
  ASSUME NEW proto \in Seq(EnumLine), Formed(proto), NEW l \in EnumLine,
         StartsEnum(l) \/ l.is = "brace" <=> Depth(proto) = 0,
         l.is \in {"value", "values", "option", "last"} => Depth(proto) = 1
  PROVE  Formed(Append(proto, l))
<1> DEFINE more == Append(proto, l)
           n == Len(proto)
<1>1. n \in Nat /\ Len(more) = n + 1 /\ more[n + 1] = l /\ SubSeq(more, 1, n) = proto
    OBVIOUS
<1>2. ASSUME NEW k \in 1 .. n PROVE more[k] = proto[k] /\ SubSeq(more, 1, k - 1) = SubSeq(proto, 1, k - 1)
    OBVIOUS
<1> HIDE DEF more
<1>3. ASSUME NEW k \in 1 .. n + 1
      PROVE  /\ StartsEnum(more[k]) \/ more[k].is = "brace" <=> Depth(SubSeq(more, 1, k - 1)) = 0
             /\ more[k].is \in {"value", "values", "option", "last"} => Depth(SubSeq(more, 1, k - 1)) = 1
    <2>1. CASE k \in 1 .. n
        BY <1>2, <2>1, Zenon DEF Formed
    <2>2. CASE k \notin 1 .. n
        <3>1. k = n + 1 /\ k - 1 = n
            BY <1>1, <2>2
        <3> QED
            BY <1>1, <3>1
    <2> QED
        BY <2>1, <2>2
<1> QED
    BY <1>1, <1>3, Zenon DEF Formed, more

(* An enum that stands alone has its file, right after a run.              *)
ReadInto(made, i) ==
  LET e == protoLines[i].enum IN
    \/ protoLines[i].is \in {"comment", "whole", "bare", "tight"}
    \/ TrueValues(i) = <<>> \/ Namesake(i) \/ Taken(i)
    \/ e.words \in DOMAIN made /\ made[e.words] = [enum |-> e, values |-> TrueValues(i)]
    \/ SharesLine(i)

LEMMA ReadKnown ==
  ASSUME protoLines \in Seq(EnumLine), Formed(protoLines), Depth(protoLines) = 0, enumFiles \in EnumDisk,
         NEW i \in HeadLines
  PROVE  ReadInto(FoldLeft(GenEnumFile, enumFiles, ParseProtoEnums(protoLines)), i)
<1> DEFINE proto == protoLines
           n == Len(proto)
           es == ParseProtoEnums(proto)
           e == proto[i].enum
           vs == TrueValues(i)
           j == LastOf(i)
<1>0. i \in 1 .. n /\ proto[i] \in EnumLine /\ StartsEnum(proto[i])
    BY DEF HeadLines
<1>a. ASSUME proto[i].is = "valued" PROVE SharesLine(i)
    <2>1. LastOf(i) \in 1 .. n /\ LastOf(i) > i
        BY <1>a, LastFacts DEF EndsAt
    <2>2. i \in i .. LastOf(i)
        BY <1>0, <2>1
    <2> QED
        BY <1>a, <2>2 DEF SharesLine
<1>1. SUFFICES ASSUME proto[i].is = "head", vs # <<>>, ~Namesake(i), ~Taken(i)
               PROVE  /\ e.words \in DOMAIN FoldLeft(GenEnumFile, enumFiles, es)
                      /\ FoldLeft(GenEnumFile, enumFiles, es)[e.words] = [enum |-> e, values |-> vs]
    BY <1>0, <1>a, Zenon DEF ReadInto, Heads, StartsEnum
<1>2. /\ j \in 1 .. n /\ EndsAt(proto, i, j) /\ vs = ValuesUpTo(proto, i, j - 1)
      /\ \A k \in 1 .. n : EndsAt(proto, i, k) => k = j
    BY <1>1, LastFacts
<1>3. Apart(proto, i)
    <2>1. ASSUME i > 1, proto[i - 1].is = "whole" PROVE FALSE
        <3>1. i - 1 \in DOMAIN proto
            BY <1>0, <2>1
        <3> QED
            BY <1>1, <2>1, <3>1 DEF Taken, HeadLines, Heads, StartsEnum
    <2> QED
        BY <1>1, <2>1 DEF Apart
<1>4. /\ es \in Seq(EnumRead) /\ \A x \in Range(es) : CameFrom(proto, n, x)
      /\ \A h, k \in 1 .. n : Apart(proto, h) /\ EndsAt(proto, h, k) /\ ValuesUpTo(proto, h, k - 1) # <<>> =>
           \E x \in Range(es) : x.enum = proto[h].enum /\ x.values = ValuesUpTo(proto, h, k - 1)
    BY ParseKnown
<1>5. \A h \in 1 .. n : Heads(proto[h]) /\ proto[h].enum.words = e.words => h = i
    BY <1>1 DEF Namesake, HeadLines, StartsEnum
<1>6. PICK x \in Range(es) : x.enum = e /\ x.values = vs
    BY <1>0, <1>1, <1>2, <1>3, <1>4
<1> HIDE DEF proto, n, es, e, vs, j
<1>7. ASSUME NEW y \in Range(es), y.enum.words = e.words PROVE y.enum = e /\ y.values = vs
    <2>1. PICK h \in 1 .. n :
            /\ Heads(proto[h]) /\ y.enum = proto[h].enum
            /\ Apart(proto, h) => \E k \in 1 .. n : EndsAt(proto, h, k) /\ y.values = ValuesUpTo(proto, h, k - 1)
        BY <1>4 DEF CameFrom
    <2>2. h = i
        BY <1>5, <1>7, <2>1
    <2>3. PICK k \in 1 .. n : EndsAt(proto, i, k) /\ y.values = ValuesUpTo(proto, i, k - 1)
        BY <1>3, <2>1, <2>2
    <2>4. k = j
        BY <1>2, <2>3
    <2> QED
        BY <1>2, <2>1, <2>2, <2>3, <2>4 DEF e
<1>8. \A y \in Range(es) : y \in EnumRead
    BY <1>4, RangeTyped
<1>9. x = [enum |-> e, values |-> vs] /\ \A y \in Range(es) : y.enum.words = x.enum.words => y = x
    BY <1>6, <1>7, <1>8 DEF EnumRead
<1>10. /\ x.enum.words \in DOMAIN FoldLeft(GenEnumFile, enumFiles, es)
       /\ FoldLeft(GenEnumFile, enumFiles, es)[x.enum.words] = x
    BY <1>4, <1>9, GenKnown
<1> QED
    BY <1>6, <1>9, <1>10

LEMMA ReadStays ==
  ASSUME protoLines' = protoLines
  PROVE  HeadLines' = HeadLines /\ \A i : ReadInto(enumFiles, i)' <=> ReadInto(enumFiles', i)
<1>1. HeadLines' = HeadLines
    BY DEF HeadLines
<1>2. \A i : LastOf(i)' = LastOf(i)
    BY DEF LastOf
<1>3. \A i : Between(i)' = Between(i)
    BY <1>2 DEF Between
<1>4. \A i : TrueValues(i)' = TrueValues(i)
    BY <1>3 DEF TrueValues
<1>5. \A i : (Taken(i)' <=> Taken(i)) /\ (Namesake(i)' <=> Namesake(i))
    BY <1>1 DEF Taken, Namesake
<1>6. \A i : SharesLine(i)' <=> SharesLine(i)
    BY <1>2 DEF SharesLine
<1> QED
    BY <1>1, <1>3, <1>4, <1>5, <1>6 DEF ReadInto

EnumsInv == EnumsTyped /\ Formed(protoLines) /\ EnumsRead

LEMMA EnumsInvInit == EnumsInit => EnumsInv
<1>1. EnumsInit => EnumsTyped
    BY EnumsInitTyped
<1>2. EnumsInit => Formed(protoLines)
    <2>1. 1 .. 0 = {} /\ Len(<<>>) = 0
        OBVIOUS
    <2> QED
        BY <2>1 DEF EnumsInit, Formed
<1>3. EnumsInit => EnumsRead
    BY DEF EnumsInit, EnumsRead
<1> QED
    BY <1>1, <1>2, <1>3 DEF EnumsInv

LEMMA EnumsInvStep == EnumsInv /\ [EnumsNext]_enumsVars => EnumsInv'
<1> SUFFICES ASSUME EnumsInv, [EnumsNext]_enumsVars PROVE EnumsInv'
    OBVIOUS
<1>1. EnumsTyped /\ Formed(protoLines) /\ EnumsRead /\ EnumsTyped' /\ protoLines \in Seq(EnumLine) /\ enumFiles \in EnumDisk
    BY EnumsStepTyped DEF EnumsInv, EnumsTyped
<1>2. SUFFICES Formed(protoLines') /\ EnumsRead'
    BY <1>1 DEF EnumsInv, Formed
<1>3. CASE WriteProtoLine
    <2>1. PICK l \in EnumLine :
            /\ StartsEnum(l) \/ l.is = "brace" <=> Depth(protoLines) = 0
            /\ l.is \in {"value", "values", "option", "last"} => Depth(protoLines) = 1
            /\ protoLines' = Append(protoLines, l)
        BY <1>3 DEF WriteProtoLine
    <2>3. Formed(protoLines')
        BY <1>1, <2>1, FormedAppend
    <2> QED
        BY <1>3, <2>3 DEF WriteProtoLine, EnumsRead
<1>4. CASE DropProto
    <2>1. protoLines' = <<>> /\ Len(<<>>) = 0 /\ 1 .. 0 = {}
        BY <1>4 DEF DropProto
    <2> QED
        BY <1>4, <2>1 DEF DropProto, EnumsRead, Formed
<1>5. CASE GenEnumsFromProto
    <2>1. protoLines' = protoLines /\ enumFiles' = FoldLeft(GenEnumFile, enumFiles, ParseProtoEnums(protoLines))
        BY <1>5 DEF GenEnumsFromProto
    <2>2. \A i \in HeadLines : ReadInto(enumFiles', i)
        BY <1>1, <1>5, <2>1, ReadKnown DEF GenEnumsFromProto
    <2>3. \A i \in HeadLines' : ReadInto(enumFiles, i)'
        BY <2>1, <2>2, ReadStays
    <2>4. EnumsRead'
        BY <2>3, Zenon DEF EnumsRead, ReadInto
    <2> QED
        BY <1>1, <2>1, <2>4
<1>6. CASE EnumGen
    BY <1>1, <1>6 DEF EnumGen, EnumsRead
<1>7. CASE UNCHANGED enumsVars
    <2>1. protoLines' = protoLines /\ enumFiles' = enumFiles /\ enumsFrom' = enumsFrom
        BY <1>7 DEF enumsVars
    <2>2. enumsFrom = "proto" => \A i \in HeadLines : ReadInto(enumFiles, i)
        BY <1>1 DEF EnumsRead, ReadInto
    <2>3. enumsFrom' = "proto" => \A i \in HeadLines' : ReadInto(enumFiles, i)'
        BY <2>1, <2>2, ReadStays
    <2>4. EnumsRead'
        BY <2>3, Zenon DEF EnumsRead, ReadInto
    <2> QED
        BY <1>1, <2>1, <2>4
<1> QED
    BY <1>3, <1>4, <1>5, <1>6, <1>7 DEF EnumsNext

(* What the file of an enum declares: its name and, in front or behind,    *)
(* something more.                                                         *)
Behind(e, i) == IF i = 1 THEN <<>> ELSE IF i = 2 THEN <<"values">> ELSE e.values[i - 3].name
Spells(e, i) == IF i = 3 THEN <<"parse">> \o e.enum.words ELSE e.enum.words \o Behind(e, i)

LEMMA DeclarationsAre ==
  ASSUME NEW e \in EnumRead
  PROVE  /\ Len(e.values) \in Nat /\ DOMAIN Declarations(e) = 1 .. Len(e.values) + 3
         /\ e.enum.words \in Seq(Declarable) /\ e.enum.words # <<>>
         /\ \A k \in 1 .. Len(e.values) : e.values[k] \in ValueRead
         /\ \A i \in DOMAIN Declarations(e) :
              /\ Declarations(e)[i] = Identifier(e, Spells(e, i))
              /\ i # 3 => Behind(e, i) \in Seq(Declarable)
<1> DEFINE three == <<Identifier(e, e.enum.words), Identifier(e, Append(e.enum.words, "values")),
                      Identifier(e, <<"parse">> \o e.enum.words)>>
           rest == [k \in DOMAIN e.values |-> Identifier(e, e.enum.words \o e.values[k].name)]
           n == Len(e.values)
<1>1. e.enum \in NameRead /\ e.values \in ValuesRead
    BY DEF EnumRead
<1>2. n \in Nat /\ DOMAIN e.values = 1 .. n /\ \A k \in 1 .. n : e.values[k] \in ValueRead
    BY <1>1 DEF ValuesRead
<1>3. e.enum.words \in Seq(Declarable) /\ e.enum.words # <<>>
    BY <1>1, NamesRead
<1>4. Declarations(e) = three \o rest
    BY Zenon DEF Declarations
<1>5. Len(three) = 3 /\ three[1] = Identifier(e, e.enum.words)
      /\ three[2] = Identifier(e, Append(e.enum.words, "values"))
      /\ three[3] = Identifier(e, <<"parse">> \o e.enum.words)
    OBVIOUS
<1>6. Len(rest) = n /\ \A k \in 1 .. n : rest[k] = Identifier(e, e.enum.words \o e.values[k].name)
    BY <1>2
<1> DEFINE All == {three[1], three[2], three[3]} \cup Range(rest)
<1>7. three \in Seq(All) /\ rest \in Seq(All)
    <2>1. rest \in [1 .. n -> All]
        BY <1>2 DEF Range
    <2> QED
        BY <1>2, <2>1
<1> HIDE DEF three, rest, n, All
<1>8. DOMAIN (three \o rest) = 1 .. n + 3 /\ \A i \in 1 .. n + 3 : (three \o rest)[i] = IF i <= 3 THEN three[i] ELSE rest[i - 3]
    <2>0. /\ Len(three \o rest) = Len(three) + Len(rest)
          /\ \A i \in 1 .. Len(three) + Len(rest) :
               (three \o rest)[i] = IF i <= Len(three) THEN three[i] ELSE rest[i - Len(three)]
        BY <1>7, ConcatProperties, Zenon
    <2>1. Len(three \o rest) = 3 + n
        BY <1>5, <1>6, <2>0, Zenon
    <2>2. \A i \in 1 .. 3 + n : (three \o rest)[i] = IF i <= 3 THEN three[i] ELSE rest[i - 3]
        BY <1>5, <1>6, <2>0
    <2>3. 3 + n = n + 3 /\ DOMAIN (three \o rest) = 1 .. Len(three \o rest)
        BY <1>2, <1>7
    <2> QED
        BY <2>1, <2>2, <2>3
<1>9. ASSUME NEW i \in 1 .. n + 3
      PROVE  (three \o rest)[i] = Identifier(e, Spells(e, i)) /\ (i # 3 => Behind(e, i) \in Seq(Declarable))
    <2>1. CASE i = 1
        <3>1. e.enum.words \o <<>> = e.enum.words
            BY <1>3
        <3> QED
            BY <1>2, <1>5, <1>8, <2>1, <3>1 DEF Spells, Behind
    <2>2. CASE i = 2
        <3>0. "values" \in Declarable
            BY DEF Declarable
        <3>1. e.enum.words \o <<"values">> = Append(e.enum.words, "values") /\ <<"values">> \in Seq(Declarable)
            BY <1>3, <3>0
        <3>2. Behind(e, i) = <<"values">>
            BY <2>2 DEF Behind
        <3>3. i # 3 /\ i <= 3
            BY <2>2
        <3>4. Spells(e, i) = Append(e.enum.words, "values")
            BY <3>1, <3>2, <3>3, Zenon DEF Spells
        <3>5. (three \o rest)[i] = three[2]
            BY <1>8, <2>2, <3>3
        <3> QED
            BY <1>5, <3>1, <3>2, <3>4, <3>5, Zenon
    <2>3. CASE i = 3
        BY <1>2, <1>5, <1>8, <2>3 DEF Spells, Behind
    <2>4. CASE i > 3
        <3>1. i - 3 \in 1 .. n
            BY <1>2, <2>4
        <3>2. e.values[i - 3] \in ValueRead /\ STRING \subseteq Declarable
            BY <1>2, <3>1 DEF Declarable
        <3>3. e.values[i - 3].name \in Seq(Declarable)
            BY <3>2, WiderSeq DEF ValueRead
        <3> QED
            BY <1>2, <1>6, <1>8, <2>4, <3>1, <3>3 DEF Spells, Behind
    <2>5. i = 1 \/ i = 2 \/ i = 3 \/ i > 3
        BY <1>2
    <2> QED
        BY <2>1, <2>2, <2>3, <2>4, <2>5
<1> QED
    BY <1>2, <1>3, <1>4, <1>8, <1>9 DEF n

(* None of the cases in which the files do not compile.                    *)
NoneTooLarge == \A v \in EnumValue : v.number \in Int8 \/ \A w \in DOMAIN enumFiles : v.number \notin Numbers(enumFiles[w])
NoneTwice ==
  \A w \in DOMAIN enumFiles : \A j, k \in DOMAIN enumFiles[w].values :
    \/ j = k
    \/ /\ enumFiles[w].values[j].number # enumFiles[w].values[k].number
       /\ enumFiles[w].values[j].name # enumFiles[w].values[k].name
NoneValues == \A w \in DOMAIN enumFiles : \A k \in DOMAIN enumFiles[w].values : enumFiles[w].values[k].name # <<"values">>
NoneInFront ==
  \A w, x \in DOMAIN enumFiles : w # x /\ IsPrefix(w, x) => enumFiles[w].enum.style # enumFiles[x].enum.style
NoneParse ==
  \A w, x \in DOMAIN enumFiles :
    IsPrefix(w, <<"parse">> \o x) => enumFiles[w].enum.style # enumFiles[x].enum.style

LEMMA SpeltOnce ==
  ASSUME NEW a, NEW b, NEW u, NEW v, Identifier(a, u) = Identifier(b, v)
  PROVE  a.enum.style = b.enum.style /\ u = v
<1>1. Identifier(a, u).style = a.enum.style /\ Identifier(a, u).words = u
    BY DEF Identifier
<1>2. Identifier(b, v).style = b.enum.style /\ Identifier(b, v).words = v
    BY DEF Identifier
<1> QED
    BY <1>1, <1>2

LEMMA FilesAre ==
  ASSUME EnumsTyped, NEW w \in DOMAIN enumFiles
  PROVE  enumFiles[w] \in EnumRead /\ enumFiles[w].enum.words = w
<1>1. PICK W \in SUBSET Seq(Declarable) : enumFiles \in [W -> EnumRead]
    BY DEF EnumsTyped, EnumDisk
<1> QED
    BY <1>1 DEF EnumsTyped, EnumDisk

LEMMA DeclaredApart ==
  ASSUME EnumsTyped, NoneTwice, NoneValues, NoneParse, NEW w \in DOMAIN enumFiles
  PROVE  IsInjective(Declarations(enumFiles[w]))
<1> DEFINE e == enumFiles[w]
           D == Declarations(e)
<1>1. e \in EnumRead /\ e.enum.words = w
    BY FilesAre
<1>2. /\ Len(e.values) \in Nat /\ DOMAIN D = 1 .. Len(e.values) + 3 /\ w \in Seq(Declarable)
      /\ \A k \in 1 .. Len(e.values) : e.values[k] \in ValueRead
      /\ \A i \in DOMAIN D : D[i] = Identifier(e, Spells(e, i)) /\ (i # 3 => Behind(e, i) \in Seq(Declarable))
    BY <1>1, DeclarationsAre
<1>3. DOMAIN e.values = 1 .. Len(e.values)
    BY <1>1 DEF EnumRead, ValuesRead
<1>4. /\ \A j, k \in 1 .. Len(e.values) : j # k => e.values[j].name # e.values[k].name
      /\ \A k \in 1 .. Len(e.values) : e.values[k].name # <<"values">>
      /\ ~IsPrefix(w, <<"parse">> \o w)
    BY <1>3, Zenon DEF NoneTwice, NoneValues, NoneParse
<1>5. \A k \in 1 .. Len(e.values) : e.values[k].name # <<>>
    BY <1>2 DEF ValueRead
<1> HIDE DEF e, D
<1>6. ASSUME NEW i \in DOMAIN D, i # 3 PROVE Spells(e, i) # <<"parse">> \o w
    <2>1. Spells(e, i) = w \o Behind(e, i) /\ Behind(e, i) \in Seq(Declarable)
        BY <1>1, <1>2, <1>6 DEF Spells
    <2>2. IsPrefix(w, w \o Behind(e, i))
        BY <1>2, <2>1, FrontIsPrefix
    <2> QED
        BY <1>4, <2>1, <2>2
<1>7. ASSUME NEW i \in DOMAIN D, NEW j \in DOMAIN D, i # 3, j # 3, Behind(e, i) = Behind(e, j) PROVE i = j
    <2>1. ASSUME NEW k \in DOMAIN D, k # 3
          PROVE  \/ k = 1 /\ Behind(e, k) = <<>>
                 \/ k = 2 /\ Behind(e, k) = <<"values">>
                 \/ k - 3 \in 1 .. Len(e.values) /\ Behind(e, k) = e.values[k - 3].name
        BY <1>2, <2>1 DEF Behind
    <2>2. <<"values">> # <<>>
        OBVIOUS
    <2> DEFINE front == Behind(e, i)
    <2>3. front = Behind(e, j)
        BY <1>7
    <2> HIDE DEF front
    <2>4. CASE front = <<>>
        BY <1>5, <1>7, <2>1, <2>2, <2>3, <2>4 DEF front
    <2>5. CASE front = <<"values">>
        BY <1>4, <1>7, <2>1, <2>2, <2>3, <2>5 DEF front
    <2>6. CASE front # <<>> /\ front # <<"values">>
        <3>1. i - 3 \in 1 .. Len(e.values) /\ front = e.values[i - 3].name
            BY <1>7, <2>1, <2>6, Zenon DEF front
        <3>2. j - 3 \in 1 .. Len(e.values) /\ front = e.values[j - 3].name
            BY <1>7, <2>1, <2>3, <2>6, Zenon DEF front
        <3>3. i - 3 = j - 3
            BY <1>4, <3>1, <3>2, Zenon
        <3>4. i \in Int /\ j \in Int
            BY <1>2
        <3> QED
            BY <3>3, <3>4
    <2> QED
        BY <2>4, <2>5, <2>6
<1>8. ASSUME NEW i \in DOMAIN D, NEW j \in DOMAIN D, D[i] = D[j] PROVE i = j
    <2>1. Spells(e, i) = Spells(e, j)
        <3>1. Identifier(e, Spells(e, i)) = Identifier(e, Spells(e, j))
            BY <1>2, <1>8, Zenon
        <3> QED
            BY <3>1, SpeltOnce, Zenon
    <2>2. Spells(e, 3) = <<"parse">> \o w
        BY <1>1 DEF Spells
    <2>3. ASSUME i # 3, j # 3 PROVE i = j
        <3>1. Spells(e, i) = w \o Behind(e, i) /\ Spells(e, j) = w \o Behind(e, j)
            BY <1>1, <2>3 DEF Spells
        <3>2. Behind(e, i) \in Seq(Declarable) /\ Behind(e, j) \in Seq(Declarable)
            BY <1>2, <2>3
        <3>3. Behind(e, i) = Behind(e, j)
            BY <1>2, <2>1, <3>1, <3>2, SameFront
        <3> QED
            BY <1>7, <2>3, <3>3
    <2>4. i = 3 => j = 3
        BY <1>6, <2>1, <2>2
    <2>5. j = 3 => i = 3
        BY <1>6, <2>1, <2>2
    <2> QED
        BY <2>3, <2>4, <2>5
<1> QED
    BY <1>8 DEF IsInjective, e, D

LEMMA NumbersApart ==
  ASSUME EnumsTyped, NoneTwice, NEW w \in DOMAIN enumFiles
  PROVE  Cardinality(Numbers(enumFiles[w])) = Len(enumFiles[w].values)
<1> DEFINE e == enumFiles[w]
           n == Len(e.values)
           f == [k \in 1 .. n |-> e.values[k].number]
<1>1. n \in Nat /\ DOMAIN e.values = 1 .. n
    BY FilesAre DEF EnumRead, ValuesRead
<1>2. \A j, k \in 1 .. n : e.values[j].number = e.values[k].number => j = k
    BY <1>1, Zenon DEF NoneTwice
<1>3. f \in [1 .. n -> Numbers(e)] /\ \A x \in Numbers(e) : \E k \in 1 .. n : f[k] = x
    BY <1>1 DEF Numbers
<1>4. IsInjective(f)
    BY <1>2 DEF IsInjective
<1> HIDE DEF e, f, n
<1>5. f \in Surjection(1 .. n, Numbers(e)) /\ f \in Injection(1 .. n, Numbers(e))
    BY <1>3, <1>4 DEF Surjection, Injection
<1>6. IsFiniteSet(1 .. n) /\ Cardinality(1 .. n) = n
    BY <1>1, FS_Interval
<1>7. Cardinality(Numbers(e)) = n
    BY <1>5, <1>6, FS_Surjection
<1> QED
    BY <1>7 DEF e, n

LEMMA NumbersSmall ==
  ASSUME EnumsTyped, NoneTooLarge, NEW w \in DOMAIN enumFiles
  PROVE  Numbers(enumFiles[w]) \subseteq Int8
<1> SUFFICES ASSUME NEW x \in Numbers(enumFiles[w]) PROVE x \in Int8
    OBVIOUS
<1>1. PICK k \in DOMAIN enumFiles[w].values : x = enumFiles[w].values[k].number
    BY DEF Numbers
<1>2. enumFiles[w].values[k] \in ValueRead
    BY FilesAre DEF EnumRead, ValuesRead
<1>3. x = 0 \/ \E v \in EnumValue : x = v.number
    BY <1>1, <1>2 DEF ValueRead
<1>4. 0 \in Int8
    BY DEF Int8
<1>5. ASSUME NEW v \in EnumValue, x = v.number PROVE x \in Int8
    BY <1>5, Zenon DEF NoneTooLarge
<1> QED
    BY <1>3, <1>4, <1>5

LEMMA FilesApart ==
  ASSUME EnumsTyped, NoneInFront, NoneParse, NEW w \in DOMAIN enumFiles, NEW x \in DOMAIN enumFiles, w # x
  PROVE  Range(Declarations(enumFiles[w])) \cap Range(Declarations(enumFiles[x])) = {}
<1> DEFINE d == enumFiles[w]
           e == enumFiles[x]
<1>1. d \in EnumRead /\ d.enum.words = w /\ e \in EnumRead /\ e.enum.words = x
    BY FilesAre
<1>2. /\ w \in Seq(Declarable) /\ x \in Seq(Declarable)
      /\ \A i \in DOMAIN Declarations(d) :
           Declarations(d)[i] = Identifier(d, Spells(d, i)) /\ (i # 3 => Behind(d, i) \in Seq(Declarable))
      /\ \A i \in DOMAIN Declarations(e) :
           Declarations(e)[i] = Identifier(e, Spells(e, i)) /\ (i # 3 => Behind(e, i) \in Seq(Declarable))
    BY <1>1, DeclarationsAre
<1>3. d.enum.style = e.enum.style =>
        /\ ~IsPrefix(w, x) /\ ~IsPrefix(x, w)
        /\ ~IsPrefix(w, <<"parse">> \o x) /\ ~IsPrefix(x, <<"parse">> \o w)
    BY Zenon DEF NoneInFront, NoneParse
<1>4. <<"parse">> \in Seq(Declarable)
    <2>1. "parse" \in Declarable
        BY DEF Declarable
    <2> QED
        BY <2>1
<1> HIDE DEF d, e
<1>5. ASSUME NEW i \in DOMAIN Declarations(d), NEW j \in DOMAIN Declarations(e), Declarations(d)[i] = Declarations(e)[j]
      PROVE  FALSE
    <2>1. Identifier(d, Spells(d, i)) = Identifier(e, Spells(e, j))
        BY <1>2, <1>5, Zenon
    <2>2. d.enum.style = e.enum.style /\ Spells(d, i) = Spells(e, j)
        <3> DEFINE u == Spells(d, i)
                   v == Spells(e, j)
        <3>1. Identifier(d, u) = Identifier(e, v)
            BY <2>1
        <3> HIDE DEF u, v
        <3>2. d.enum.style = e.enum.style /\ u = v
            BY <3>1, SpeltOnce
        <3> QED
            BY <3>2 DEF u, v
    <2>3. i = 3 => Spells(d, i) = <<"parse">> \o w
        BY <1>1, Zenon DEF Spells
    <2>4. j = 3 => Spells(e, j) = <<"parse">> \o x
        BY <1>1, Zenon DEF Spells
    <2>5. i # 3 => Spells(d, i) = w \o Behind(d, i) /\ Behind(d, i) \in Seq(Declarable)
        BY <1>1, <1>2, Zenon DEF Spells
    <2>6. j # 3 => Spells(e, j) = x \o Behind(e, j) /\ Behind(e, j) \in Seq(Declarable)
        BY <1>1, <1>2, Zenon DEF Spells
    <2>7. CASE i = 3 /\ j = 3
        BY <1>2, <1>4, <2>2, <2>3, <2>4, <2>7, SameFront
    <2>8. CASE i = 3 /\ j # 3
        <3>1. IsPrefix(x, x \o Behind(e, j))
            BY <1>2, <2>6, <2>8, FrontIsPrefix
        <3> QED
            BY <1>3, <2>2, <2>3, <2>6, <2>8, <3>1
    <2>9. CASE i # 3 /\ j = 3
        <3>1. IsPrefix(w, w \o Behind(d, i))
            BY <1>2, <2>5, <2>9, FrontIsPrefix
        <3> QED
            BY <1>3, <2>2, <2>4, <2>5, <2>9, <3>1
    <2>10. CASE i # 3 /\ j # 3
        <3>1. w \o Behind(d, i) = x \o Behind(e, j)
            BY <2>2, <2>5, <2>6, <2>10
        <3>2. IsPrefix(w, x) \/ IsPrefix(x, w)
            BY <1>2, <2>5, <2>6, <2>10, <3>1, FrontsMeet
        <3> QED
            BY <1>3, <2>2, <3>2
    <2> QED
        BY <2>7, <2>8, <2>9, <2>10
<1> QED
    BY <1>5 DEF Range, d, e

LEMMA FitWhenRead ==
  ASSUME EnumsTyped
  PROVE  EnumsFit
<1>1. SUFFICES ASSUME NoneTooLarge, NoneTwice, NoneValues, NoneInFront, NoneParse,
                      \A w \in DOMAIN enumFiles : Last(w) # OpenBrace
               PROVE  EnumsCompile
    BY Zenon DEF EnumsFit, NoneTooLarge, NoneTwice, NoneValues, NoneInFront, NoneParse, IsStrictPrefix
<1>2. \A w \in DOMAIN enumFiles :
        /\ IsInjective(Declarations(enumFiles[w])) /\ Cardinality(Numbers(enumFiles[w])) = Len(enumFiles[w].values)
        /\ Numbers(enumFiles[w]) \subseteq Int8
    BY <1>1, DeclaredApart, NumbersApart, NumbersSmall
<1>3. \A w, x \in DOMAIN enumFiles : w # x =>
        Range(Declarations(enumFiles[w])) \cap Range(Declarations(enumFiles[x])) = {}
    BY <1>1, FilesApart
<1> QED
    BY <1>1, <1>2, <1>3, Zenon DEF EnumsCompile

(* Whatever protos the enums are read from, whatever enums zctl rpc enum   *)
(* writes and whatever files earlier runs left behind, package enums       *)
(* compiles, except where the brace of an enum stood right behind its      *)
(* name, a value is beyond int8, two values of an enum are one, or the     *)
(* words of an enum, with "parse", "values" or one of its values, are what *)
(* another enum or its values declare (genEnumFile).                       *)
THEOREM EnumsAlwaysFit == EnumsInit /\ [][EnumsNext]_enumsVars => []EnumsFit
<1>1. EnumsInit => EnumsTyped
    BY EnumsInitTyped
<1>2. EnumsTyped /\ [EnumsNext]_enumsVars => EnumsTyped'
    BY EnumsStepTyped
<1>3. EnumsTyped => EnumsFit
    BY FitWhenRead
<1> QED
    BY <1>1, <1>2, <1>3, PTL

(* Right after a run over a proto, the file of each enum has the enum's    *)
(* values as they stand there (parseProtoEnums, genEnumFile): but for an   *)
(* enum in a comment or on one line, one behind such a one, one with its   *)
(* brace on the next line or right behind its name, one with values that   *)
(* share a line with one another or with its braces, one without values,   *)
(* and one whose words are those of another that is found.  The reader     *)
(* keeps, for the enum it is in, the values behind its head, as long as    *)
(* the depth of the braces is that of the proto; it is not when the head   *)
(* of an enum stands behind a whole one, nor in an enum that it missed.    *)
THEOREM EnumsAlwaysKnown == EnumsInit /\ [][EnumsNext]_enumsVars => []EnumsKnown
<1>1. EnumsInv => EnumsKnown
    BY FitWhenRead DEF EnumsInv, EnumsKnown
<1> QED
    BY <1>1, EnumsInvInit, EnumsInvStep, PTL

-----------------------------------------------------------------------------
(* What the run of them all does.                                          *)
(* A process that runs one of the parts runs it as its own specification   *)
(* says, and leaves the others where they start.                           *)
THEOREM ToolsRunAlone ==
  Spec => /\ PerfScanInit /\ [][PerfScanNext]_perfScanVars
          /\ LoopsInit /\ [][LoopsNext]_loopVars
          /\ PerfSqlInit /\ [][PerfSqlNext]_perfSqlVars
          /\ RedisInit /\ [][RedisNext]_redisVars
          /\ MocksInit /\ [][MocksNext]_mocksVars
          /\ ClientsInit /\ [][ClientsNext]_clientVars
          /\ NamesInit /\ [][NamesNext]_namesVars
          /\ RpcCodeInit /\ [][RpcCodeNext]_rpcCodeVars
          /\ EnumsInit /\ [][EnumsNext]_enumsVars
          /\ ProtoDocInit /\ [][ProtoDocNext]_protoDocVars
<1>1. Init => /\ PerfScanInit /\ LoopsInit /\ PerfSqlInit /\ RedisInit /\ MocksInit
              /\ ClientsInit /\ NamesInit /\ RpcCodeInit /\ EnumsInit /\ ProtoDocInit
    BY DEF Init
<1>2. [Next]_vars => /\ [PerfScanNext]_perfScanVars /\ [LoopsNext]_loopVars /\ [PerfSqlNext]_perfSqlVars
                     /\ [RedisNext]_redisVars /\ [MocksNext]_mocksVars /\ [ClientsNext]_clientVars
                     /\ [NamesNext]_namesVars /\ [RpcCodeNext]_rpcCodeVars /\ [EnumsNext]_enumsVars
                     /\ [ProtoDocNext]_protoDocVars
    BY DEF Next, vars, ScanStep, LoopsStep, SqlStep, RedisStep, MocksStep, ClientsStep, NamesStep, RpcStep,
           EnumsStep, DocStep
<1> QED
    BY <1>1, <1>2, PTL DEF Spec

(* Every variable of the parts keeps its type, for all values of their     *)
(* constants: no scan, call, statement, field, rpc, line of a proto or row *)
(* of a document leaves what the code has.                                 *)
THEOREM ToolsTypesAlwaysOK == Spec => []ToolsTypeOK
<1>1. PerfScanInit /\ [][PerfScanNext]_perfScanVars => []PerfScanTypeOK
  <2>1. ScanTyped => PerfScanTypeOK
      BY DEF ScanTyped
  <2> QED
      BY <2>1, ScanInitTyped, ScanStepTyped, PTL
<1>2. LoopsInit /\ [][LoopsNext]_loopVars => []LoopsTypeOK
  <2>1. LoopsTyped => LoopsTypeOK
      BY DEF LoopsTyped
  <2> QED
      BY <2>1, LoopsInitTyped, LoopsStepTyped, PTL
<1>3. PerfSqlInit /\ [][PerfSqlNext]_perfSqlVars => []PerfSqlTypeOK
  <2>1. SqlTyped => PerfSqlTypeOK
      BY DEF SqlTyped
  <2> QED
      BY <2>1, SqlInitTyped, SqlStepTyped, PTL
<1>4. RedisInit /\ [][RedisNext]_redisVars => []RedisTypeOK
  <2>1. RedisTyped => RedisTypeOK
      BY DEF RedisTyped
  <2> QED
      BY <2>1, RedisInitTyped, RedisStepTyped, PTL
<1>5. MocksInit /\ [][MocksNext]_mocksVars => []MocksTypeOK
  <2>1. MocksInv => MocksTypeOK
      BY DEF MocksInv
  <2> QED
      BY <2>1, MocksInitially, MocksKept, PTL
<1>6. ClientsInit /\ [][ClientsNext]_clientVars => []ClientsTypeOK
  <2>1. ClientsInv => ClientsTypeOK
      BY DEF ClientsInv
  <2> QED
      BY <2>1, ClientsInitInv, ClientsKept, PTL
<1>7. NamesInit /\ [][NamesNext]_namesVars => []NamesTypeOK
    BY NamesInitTyped, NamesStepTyped, PTL
<1>8. RpcCodeInit /\ [][RpcCodeNext]_rpcCodeVars => []RpcCodeTypeOK
  <2>1. RpcTyped => RpcCodeTypeOK
      BY DEF RpcTyped
  <2> QED
      BY <2>1, RpcInitTyped, RpcStepTyped, PTL
<1>9. EnumsInit /\ [][EnumsNext]_enumsVars => []EnumsTypeOK
  <2>1. EnumsTyped => EnumsTypeOK
      BY DEF EnumsTyped
  <2> QED
      BY <2>1, EnumsInitTyped, EnumsStepTyped, PTL
<1>10. ProtoDocInit /\ [][ProtoDocNext]_protoDocVars => []ProtoDocTypeOK
  <2>1. DocTyped => ProtoDocTypeOK
      BY TypedDoc
  <2> QED
      BY <2>1, DocInitTyped, DocStepTyped, PTL
<1> QED
    BY <1>1, <1>2, <1>3, <1>4, <1>5, <1>6, <1>7, <1>8, <1>9, <1>10, ToolsRunAlone, PTL DEF ToolsTypeOK

(* Of what the parts write for a project, the mocks, the names, the code   *)
(* of the rpcs, the enums and the document of a request: what of it does   *)
(* not compile, or does not match what protoc makes of the proto, is among *)
(* the cases that are named, whichever part runs.                          *)
THEOREM GeneratedIsKnown == Spec => []GeneratedFits
BY ToolsRunAlone, MocksAlwaysKnown, NamesAlwaysKnown, CodeAlwaysKnown, EnumsAlwaysKnown, DocAlwaysKnown, PTL
DEF GeneratedFits
=============================================================================
