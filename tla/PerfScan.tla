------------------------------- MODULE PerfScan -------------------------------
(***************************************************************************)
(* zctl perf scan (PerfScan): checkers one after the other, each of them a *)
(* tool that may be missing, may fail, or may leave no output; files that  *)
(* one scan writes and the next one finds; the tabs of the report; the     *)
(* exit code.  Edits of the project come between scans.  What the findings *)
(* of a report say of a project is in PerfLoops, PerfSql and PerfRedis,    *)
(* each of which reads the code on its own.                                *)
(***************************************************************************)
EXTENDS PerfLoops, PerfSql, PerfRedis

CONSTANTS LintIssue,   \* what golangci-lint may say: see Tab
          MaxScans,    \* bound: scans of one project
          MaxProblems, \* bound: problems, and lint issues, of one project
          MaxUnready   \* bound: checkers of one scan that do not do their work

ASSUME ScanAssumption ==
  /\ {MaxScans, MaxProblems, MaxUnready} \subseteq Nat
  /\ LintIssue \subseteq [linter : STRING, panics : BOOLEAN, error : BOOLEAN, word : STRING]

(* What can be wrong with a project, next to its lint issues.              *)
Problem == {"unformatted", "vet", "vulnerable", "nplus1", "uncompilable", "failingTests"}
Levels == {"PASS", "INFO", "WARN", "FAIL", "SKIP", "PANIC"}
Checkers == <<"fmt", "vet", "lint", "vuln", "escape", "n1", "review", "test">>
NotRun == [level |-> "none", of |-> 0, why |-> "notYet"]
NoFile == [of |-> 0, issues |-> {}]

VARIABLES
  problems,  \* what is wrong with the project
  lintable,  \* the issues that golangci-lint would find, if it compiles
  lintJson,  \* build/perf/lint.json, and lint.html that is written and moved
             \* with it: the scan that wrote them and the issues
  lintPage,  \* details/lint.html: the scan whose issues it shows, 0: none
  profile,   \* details/cover.out: the scan whose go test wrote it, 0: none
  coverPage, \* details/cover.html: the scan whose profile it shows, 0: none
  scan,      \* the number of the scan
  at,        \* the checker that runs next, 0: no scan runs
  result,    \* per checker: level, the scan its output is of, why
  report,    \* report.html: its scan, 0: none, and the issues per tab
  unwritten, \* what the file system did not take of the last report
  exit,      \* what the last scan returned
  killed     \* the scans that were killed

perfScanVars == <<problems, lintable, lintJson, lintPage, profile, coverPage, scan, at, result,
                  report, unwritten, exit, killed>>

projectVars == <<problems, lintable>>
coverVars == <<profile, coverPage>>
fileVars == <<lintJson, lintPage, coverVars>>
reportVars == <<report, unwritten, exit, killed>>

(* The map of the same name; "none" for a linter that it leaves out.       *)
linterToTab(l) ==
  CASE l \in {"forcetypeassert", "nilnil"} -> "panic"
    [] l \in {"errcheck", "nilerr", "wrapcheck", "wastedassign"} -> "errdrop"
    [] l \in {"bodyclose", "sqlclosecheck", "rowserrcheck"} -> "leak"
    [] l \in {"contextcheck", "noctx", "copyloopvar"} -> "concurrency"
    [] l \in {"exhaustive", "unparam", "govet"} -> "defect"
    [] l \in {"prealloc", "fatcontext", "gocritic", "perfsprint", "unqueryvet"} -> "perf-code"
    [] l = "gosec" -> "code-security"
    [] l = "bidichk" -> "trojan"
    [] l \in {"gocyclo", "cyclop", "gocognit", "funlen", "nestif", "maintidx"} -> "complexity"
    [] l \in {"mnd", "goconst", "lll", "misspell", "godox"} -> "style"
    [] l \in {"testifylint", "paralleltest"} -> "testing"
    [] l = "staticcheck" -> "panic-or-style"
    [] OTHER -> "none"

(* tabForLinter, and classifyStaticcheck.                                  *)
TabOfLinter(l) == IF linterToTab(l) = "none" THEN "style" ELSE linterToTab(l)
Tab(i) ==
  IF i.linter = "staticcheck" THEN IF i.panics THEN "panic" ELSE "style" ELSE TabOfLinter(i.linter)

(* The leaves of the report's modules that show an issue: those of the tabs*)
(* with a default show what is left, the others the linters they name.     *)
CriticalLeaf(i) == IF Tab(i) \in {"panic", "errdrop"} THEN {<<Tab(i), i.linter>>} ELSE {}
BugLeaf(i) == IF Tab(i) \in {"leak", "concurrency", "defect"} THEN {<<Tab(i), i.linter>>} ELSE {}
PerformanceLeaf(i) == IF Tab(i) = "perf-code" THEN {<<"perf-code", i.linter>>} ELSE {}

(* The words of an entry, its file's path included, that buildGroups takes *)
(* for a kind of gosec issue, in its order.                                *)
SecurityKind(i) ==
  CASE i.word \in {"sql", "inject"} -> "sec-sql"
    [] i.word \in {"rand", "weak"} -> "sec-rand"
    [] i.word \in {"hardcod", "credential", "password"} -> "sec-hardcode"
    [] i.word \in {"permission", "chmod"} -> "sec-perm"
    [] OTHER -> "sec-other"
SecurityLeaf(i) ==
  CASE Tab(i) = "code-security" -> {<<"code-security", SecurityKind(i)>>}
    [] Tab(i) = "trojan" -> {<<"trojan", i.linter>>}
    [] OTHER -> {}

ComplexityLeaf(i) ==
  IF Tab(i) = "complexity"
  THEN {<<"complexity", IF i.linter \in {"gocyclo", "cyclop"} THEN "cyclo" ELSE i.linter>>} ELSE {}
StyleLeaf(i) ==
  {<<Tab(i), i.linter>>} \cap ({"style"} \X {"mnd", "goconst", "lll", "misspell", "godox"})
TestingLeaf(i) == {<<Tab(i), i.linter>>} \cap {<<"testing", "testifylint">>}

Leaf(i) ==
  CriticalLeaf(i) \cup BugLeaf(i) \cup PerformanceLeaf(i) \cup SecurityLeaf(i)
  \cup ComplexityLeaf(i) \cup StyleLeaf(i) \cup TestingLeaf(i)

Typecheck == [linter |-> "typecheck", panics |-> FALSE, error |-> FALSE, word |-> "other"]
BuildFailed(issues) == issues # {} /\ \A i \in issues : i.linter = "typecheck"

PerfScanInit ==
  /\ problems \in {P \in SUBSET Problem : Cardinality(P) <= MaxProblems}
  /\ lintable \in {I \in SUBSET LintIssue : Cardinality(I) <= MaxProblems}
  /\ lintJson = NoFile /\ lintPage = 0 /\ profile = 0 /\ coverPage = 0
  /\ scan = 0 /\ at = 0
  /\ result = [c \in {Checkers[i] : i \in DOMAIN Checkers} |-> NotRun]
  /\ report = [of |-> 0, tabs |-> {}] /\ unwritten = {} /\ exit = 0 /\ killed = {}

Edit ==
  /\ at = 0 /\ scan > 0 /\ scan < MaxScans
  /\ problems' \in {P \in SUBSET Problem : Cardinality(P) <= MaxProblems}
  /\ problems = {} \/ problems' = {}   \* bound: it repairs all, or breaks what is well
  /\ lintable' \in {{}, lintable}
  /\ UNCHANGED <<fileVars, scan, at, result, reportVars>>

BeginScan ==
  /\ at = 0 /\ scan < MaxScans
  /\ scan' = scan + 1
  /\ at' = 1
  /\ result' = [c \in DOMAIN result |-> NotRun]
  /\ unwritten' = {}
  /\ UNCHANGED <<projectVars, fileVars, report, exit, killed>>

(* One checker ends: its level, the scan that its output is of, and why it *)
(* may not speak of the project.                                           *)
Unready == {c \in DOMAIN result : result[c].why \notin {"ran", "notYet"}}
Ends(c, level, of, why) ==
  /\ at \in DOMAIN Checkers /\ Checkers[at] = c
  /\ why = "ran" \/ Cardinality(Unready) < MaxUnready
  /\ result' = [result EXCEPT ![c] = [level |-> level, of |-> of, why |-> why]]
  /\ at' = at + 1
  /\ UNCHANGED <<projectVars, scan, reportVars>>

(* gofmt -l: what cannot be run says nothing, and nothing is clean.        *)
Fmt ==
  /\ \/ Ends("fmt", IF "unformatted" \in problems THEN "FAIL" ELSE "PASS", scan, "ran")
     \/ Ends("fmt", "PASS", scan, "missing")
  /\ UNCHANGED fileVars

(* go vet: lines of its output that speak of the network are set apart.    *)
VetLevel(said) ==
  IF "issue" \in said THEN "FAIL" ELSE IF "network" \in said THEN "WARN" ELSE "PASS"
VetFinds == IF problems \cap {"vet", "uncompilable"} # {} THEN {"issue"} ELSE {}
Vet ==
  /\ \/ Ends("vet", VetLevel(VetFinds), scan, "ran")
     \/ Ends("vet", VetLevel(VetFinds \cup {"network"}), scan, "ran")
     \/ Ends("vet", VetLevel({"network"}), scan, "offline")
     \/ Ends("vet", VetLevel({}), scan, "missing")
  /\ UNCHANGED fileVars

(* golangci-lint: lint.json is read whoever wrote it.  The packages that   *)
(* compile may have their issues next to those of typecheck.               *)
LintLevel(issues) ==
  CASE issues = {} -> "PASS"
    [] BuildFailed(issues) \/ \E i \in issues : i.error -> "FAIL"
    [] OTHER -> "WARN"
LintRuns ==
  \E issues \in IF "uncompilable" \in problems THEN {{Typecheck}, {Typecheck} \cup lintable}
                ELSE {lintable} :
    /\ lintJson' = [of |-> scan, issues |-> issues]
    /\ Ends("lint", LintLevel(issues), scan, "ran")
    /\ UNCHANGED <<lintPage, coverVars>>
\* version 2 names its files: one that stops early leaves the file of before
LintStops ==
  /\ Ends("lint", LintLevel(lintJson.issues), lintJson.of, "crashed")
  /\ UNCHANGED fileVars
\* version 1: stderr is written into the file, which does not parse then
LintNoise ==
  /\ lintJson' = [of |-> scan, issues |-> {}]
  /\ Ends("lint", LintLevel({}), scan, "crashed")
  /\ UNCHANGED <<lintPage, coverVars>>
LintMissing == Ends("lint", "SKIP", scan, "missing") /\ UNCHANGED fileVars
Lint == LintRuns \/ LintStops \/ LintNoise \/ LintMissing

(* govulncheck: its output without a "Vulnerability #" line is clean.      *)
Vuln ==
  /\ \/ /\ "uncompilable" \notin problems
        /\ Ends("vuln", IF "vulnerable" \in problems THEN "FAIL" ELSE "PASS", scan, "ran")
     \/ Ends("vuln", "PASS", scan, "crashed")
     \/ Ends("vuln", "SKIP", scan, "missing")
  /\ UNCHANGED fileVars

(* go build -gcflags=-m, which says nothing of packages it does not build. *)
Escape ==
  /\ \E level \in IF "uncompilable" \in problems THEN {"PASS"} ELSE {"PASS", "INFO"} :
       Ends("escape", level, scan, "ran")
  /\ UNCHANGED fileVars

(* SafeRun: a panic is a level of its own.                                 *)
NPlus1 ==
  /\ \/ Ends("n1", IF "nplus1" \in problems THEN "FAIL" ELSE "PASS", scan, "ran")
     \/ Ends("n1", "PANIC", scan, "panicked")
  /\ UNCHANGED fileVars

(* Without a call graph there is no review, and no SQL of it.              *)
Review ==
  /\ \/ Ends("review", "INFO", scan, "ran")
     \/ Ends("review", "SKIP", scan, "missing")
     \/ Ends("review", "PANIC", scan, "panicked")
  /\ UNCHANGED fileVars

(* go test: cover.out is read whoever wrote it, and go tool cover, which   *)
(* may fail, makes a page of it.  A package that fails has a FAIL line of  *)
(* its own.                                                                *)
TestRuns ==
  /\ profile' = scan
  /\ \E level \in IF problems \cap {"uncompilable", "failingTests"} # {} THEN {"WARN"}
                  ELSE {"PASS", "INFO", "WARN"} :
       \/ Ends("test", level, scan, "ran") /\ coverPage' = scan
       \/ Ends("test", level, scan, "noPage") /\ UNCHANGED coverPage
  /\ UNCHANGED <<lintJson, lintPage>>
\* the go command stops before it has a profile
TestStops ==
  /\ \E level \in IF profile = 0 THEN {"SKIP"} ELSE {"PASS", "INFO", "WARN"} :
       Ends("test", level, profile, "crashed")
  /\ coverPage' \in {coverPage, profile}
  /\ UNCHANGED <<lintJson, lintPage, profile>>
Test == TestRuns \/ TestStops

(* WriteReportHTML moves what the tools wrote to details/, whose lint.html *)
(* every report shows in a frame; buildGroups lays the issues out, and says*)
(* in each empty tab of lint that a build has failed.  What the file system*)
(* does not take stays as it was.                                          *)
Critical == {"fmt", "vet", "lint", "vuln", "n1"}
\* wrong: the file is copied and left
MovedNot == lintJson
Moved == NoFile
Shown == IF BuildFailed(lintJson.issues) THEN {<<"panic", "build-error">>, <<"lint", "note">>}
         ELSE UNION {Leaf(i) : i \in lintJson.issues}
WriteReport ==
  /\ at = Len(Checkers) + 1
  /\ unwritten' \in SUBSET {"report", "page"}
  /\ Cardinality(unwritten') + Cardinality(Unready) <= MaxUnready
  /\ lintPage' = IF lintJson.of = 0 \/ "page" \in unwritten' THEN lintPage ELSE lintJson.of
  /\ report' = IF "report" \in unwritten' THEN report
               ELSE [of |-> scan, tabs |-> IF result["lint"].why = "missing" THEN {} ELSE Shown]
  /\ exit' = IF \E c \in Critical : result[c].level = "FAIL" THEN 1 ELSE 0
  /\ lintJson' = Moved
  /\ at' = 0
  /\ UNCHANGED <<projectVars, coverVars, scan, result, killed>>

Kill ==
  /\ at # 0
  /\ at' = 0
  /\ exit' = 1
  /\ killed' = killed \cup {scan}
  /\ UNCHANGED <<projectVars, fileVars, scan, result, report, unwritten>>

PerfScanNext ==
  \/ Edit \/ BeginScan
  \/ Fmt \/ Vet \/ Lint \/ Vuln \/ Escape \/ NPlus1 \/ Review \/ Test
  \/ WriteReport \/ Kill

PerfScanSpec == PerfScanInit /\ [][PerfScanNext]_perfScanVars
FindingsSpec == LoopsSpec /\ PerfSqlSpec /\ RedisSpec
-----------------------------------------------------------------------------
PerfScanTypeOK ==
  /\ problems \subseteq Problem /\ lintable \subseteq LintIssue
  /\ scan \in 0 .. MaxScans /\ at \in 0 .. Len(Checkers) + 1
  /\ {profile, coverPage, lintJson.of, lintPage, report.of} \subseteq 0 .. scan
  /\ \A c \in DOMAIN result : result[c] = NotRun \/ result[c].level \in Levels
  /\ exit \in {0, 1} /\ killed \subseteq 1 .. scan

(* "RESULT: NO CRITICAL ISSUES" is wrong only about a checker that did not *)
(* do its work: a tool that is missing, that stopped, or that panicked     *)
(* passes.  Tests that fail are never critical.                            *)
Answers == [unformatted |-> "fmt", vet |-> "vet", vulnerable |-> "vuln", nplus1 |-> "n1"]
CleanBill ==
  [][ WriteReport /\ exit' = 0 =>
        /\ \A p \in DOMAIN Answers \cap problems : result[Answers[p]].why # "ran"
        /\ "uncompilable" \in problems =>
             result["vet"].why # "ran" /\ (result["lint"].why # "ran" \/ lintable # {})
        /\ (\E i \in lintable : i.error) => \/ result["lint"].why # "ran"
                                            \/ "uncompilable" \in problems ]_perfScanVars

(* The report in the file is of the scan that ends, and so are its issues, *)
(* its page of golangci-lint and its coverage, but for what the file system*)
(* does not take.  Lint issues of an earlier scan come from one that was   *)
(* killed before its report took lint.json away, when golangci-lint writes *)
(* nothing; the page of an earlier one is shown whenever it is missing or  *)
(* stops; the coverage, when go test stops before it has a profile, and the*)
(* page of it, when go tool cover fails too.                               *)
ReportsThisScan ==
  [][ WriteReport =>
        /\ report'.of # scan => "report" \in unwritten'
        /\ result["lint"].of \notin {0, scan} =>
             result["lint"].why = "crashed" /\ result["lint"].of \in killed
        /\ lintPage' # scan => result["lint"].why # "ran" \/ "page" \in unwritten'
        /\ result["test"].of \notin {0, scan} => result["test"].why = "crashed"
        /\ coverPage' # scan => result["test"].why # "ran" ]_perfScanVars

(* Each issue of lint has a tab, except those of style without a leaf:     *)
(* staticcheck's that are no panic, and linters that linterToTab leaves    *)
(* out or names without a leaf.                                            *)
Leafless(i) ==
  \/ i.linter = "staticcheck" /\ ~i.panics
  \/ i.linter = "paralleltest"
  \/ linterToTab(i.linter) = "none"
IssuesHaveTabs ==
  [][ WriteReport /\ result["lint"].why = "ran" /\ ~BuildFailed(lintJson.issues) =>
        \A i \in lintJson.issues :
          (Leaf(i) \subseteq report'.tabs \/ "report" \in unwritten') /\ (Leaf(i) = {} => Leafless(i)) ]_perfScanVars

(* A report of zctl perf scan says of its own scan what the checkers saw:  *)
(* see the three above.                                                    *)
ScanTruthful == CleanBill /\ ReportsThisScan /\ IssuesHaveTabs

(* What a perf report says of loops, SQL, full scans, keys and TTLs is so, *)
(* but in the cases that are named: see NPlus1Known, CountsKnown, SqlKnown,*)
(* FullScansKnown, HooksKnown, KeysKnown and TtlsKnown.                    *)
FindingsKnown ==
  /\ NPlus1Known /\ CountsKnown
  /\ SqlKnown /\ FullScansKnown /\ HooksKnown
  /\ KeysKnown /\ TtlsKnown
=============================================================================
