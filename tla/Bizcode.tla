------------------------------- MODULE Bizcode -------------------------------
(***************************************************************************)
(* pkg/bizcode/dao.go and the locale files: genDaoErrcodeAll gives every   *)
(* ent schema a segment of 100 error codes and adds the codes to the       *)
(* locale files, where translators write their messages.  Segment s stands *)
(* for the codes 11000 + 100 s + (1..4); the file is the only memory of    *)
(* who has which.                                                          *)
(***************************************************************************)
EXTENDS Integers, FiniteSets

CONSTANTS Model,        \* names of ent schemas
          Rank,         \* Rank[m]: position of m in the schemas of a run
          MaxSegment    \* bound: segments a run may reach, for model checking

NoSegment == 0
Segment   == 1 .. MaxSegment

NoKey  == "nokey"       \* the locale file has no entry for the segment
NoText == "notext"      \* it has one, with an empty message
Torn   == "torn"        \* the file ends before its contents do

ASSUME BizcodeAssumption ==
  /\ IsFiniteSet(Model)
  /\ Rank \in [Model -> Nat]
  /\ \A m, n \in Model : Rank[m] = Rank[n] => m = n
  /\ MaxSegment \in Nat
  /\ {NoKey, NoText, Torn} \cap Model = {}

VARIABLES
  codes,    \* codes[m]: the segment dao.go gives m
  locale    \* locale[s]: the model s's message was written for, if any

bizVars == <<codes, locale>>

TornLocale == [s \in Segment |-> Torn]

BizInit ==
  /\ codes = [m \in Model |-> NoSegment]
  /\ locale = [s \in Segment |-> NoKey]
-----------------------------------------------------------------------------
Highest == CHOOSE s \in {NoSegment} \cup {codes[m] : m \in Model} :
             \A m \in Model : codes[m] <= s

(* The schemas before m and m itself that have no segment yet: they get    *)
(* the next ones in the order of the run.                                  *)
NewUpTo(declared, m) ==
  {n \in declared : codes[n] = NoSegment /\ Rank[n] <= Rank[m]}

(* The segments of a run over these schemas.  One that is not among them   *)
(* loses its segment: the file is written anew from the run's schemas.     *)
AssignByCount(declared) ==   \* wrong: starts over at the first segment
  [m \in Model |->
    IF m \in declared THEN Cardinality({n \in declared : Rank[n] <= Rank[m]})
    ELSE NoSegment]
Assign(declared) ==
  [m \in Model |->
    IF m \notin declared THEN NoSegment
    ELSE IF codes[m] # NoSegment THEN codes[m]
    ELSE Highest + Cardinality(NewUpTo(declared, m))]

(* genDaoErrcodeAll writes dao.go.                                         *)
WriteCodes(declared) ==
  /\ codes' = Assign(declared)
  /\ UNCHANGED locale

(* Cut short, the file keeps the segments below some point: they are       *)
(* written in ascending order.                                             *)
TearCodes(declared) ==
  /\ \E s \in Segment :
       codes' = [m \in Model |->
                   IF Assign(declared)[m] < s THEN Assign(declared)[m] ELSE NoSegment]
  /\ UNCHANGED locale

(* mergeI18nCodes adds the keys that are missing.  It passes over a file   *)
(* that is not JSON, without a word.                                       *)
MergeI18n ==
  /\ locale' = [s \in Segment |->
       IF locale[s] = NoKey /\ \E m \in Model : codes[m] = s
       THEN NoText ELSE locale[s]]
  /\ UNCHANGED codes

(* It fails, or is killed: the file is as it was, or ends early.           *)
StopI18n == locale' \in {locale, TornLocale} /\ UNCHANGED codes

(* A translator writes the message of a code.                              *)
Translate(m) ==
  /\ codes[m] # NoSegment
  /\ locale[codes[m]] = NoText
  /\ locale' = [locale EXCEPT ![codes[m]] = m]
  /\ UNCHANGED codes

BizTypeOK ==
  /\ codes \in [Model -> {NoSegment} \cup Segment]
  /\ locale \in [Segment -> Model \cup {NoKey, NoText, Torn}]
=============================================================================
