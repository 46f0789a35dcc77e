-------------------------- MODULE EntPipelineProofs --------------------------
(***************************************************************************)
(* What `zctl rpc ent` keeps of a project, for any number of schemas,      *)
(* methods, runs, edits, failures and kills.  The invariants of a run:     *)
(*   EntTypeInv  what the variables hold,                                  *)
(*   RunInv      where a run is and what it has before it,                 *)
(*   DescInv     which protos are missing, and which are the run's own,    *)
(*   CodesInv    segments and the messages written for them,               *)
(*   FilesInv    what the seven Go files of a model say,                   *)
(*   WiredInv    that the daos of ServiceContext are there.                *)
(***************************************************************************)
EXTENDS EntPipeline, FiniteSetTheorems, WellFoundedInduction, TLAPS

EntTypeInv ==
  /\ want \in [Model -> {Missing} \cup SUBSET Method]
  /\ file \in [Model -> [Kind -> Text]]
  /\ desc \in [Model -> {"none", "gen", "user", Torn}]
  /\ todo \subseteq Model /\ fresh \subseteq Model
  /\ next \in DOMAIN Kinds
  /\ history \in History
  /\ codes \in [Model -> Nat]
  /\ locale \in [Segment -> Model \cup {NoKey, NoText, Torn}]

RunInv ==
  /\ todo \subseteq Declared /\ done \subseteq Declared /\ done \cap todo = {}
  /\ pc = "dao" <=> todo # {}
  /\ pc # "dao" => next = 1
  /\ result = "ok" => pc = "idle"
  /\ pc = "idle" => fresh = {}
  /\ pc \in {"idle", "dao", "infra", "snapshot"} => before = {}
  /\ pc # "commit" => plan = {}
  /\ plan \subseteq fresh
  /\ \A m \in before : desc[m] # "none"
  /\ writing \subseteq plan /\ writing \cap before = {}
  /\ \A m \in writing : desc[m] = "none" \/ (desc[m] = "user" /\ m \in history.late)

(* The schemas whose protos the run has yet to write.                      *)
Pending == CASE pc \in {"dao", "infra", "snapshot", "plan"} -> fresh
             [] pc = "commit" -> plan
             [] OTHER -> {}

Lost == history.cut \cup history.noproto \cup history.undone

DescInv ==
  /\ pc = "plan" => \A m \in Model \ before : desc[m] \in {"none", "user"}
  /\ pc = "commit" => \A m \in Model \ before : desc[m] \in {"gen", Torn} => m \in fresh
  /\ \A m \in Model : desc[m] = "none" => file[m]["dao"] = Missing \/ m \in Lost \cup Pending

CodesInv ==
  /\ pc = "i18n" \/ result = "ok" => \A m \in Declared : codes[m] # NoSegment
  /\ \A m, n \in Model : codes[m] = codes[n] /\ codes[m] # NoSegment => m = n
  /\ \A s \in Segment, m \in Model : locale[s] = m => codes[m] = s \/ m \in history.dropped
  /\ \E bound \in Nat : \A m \in Model : codes[m] <= bound

(* No run over m was cut short, and nobody edited its dao.                 *)
Undisturbed == {m \in Model : m \notin history.cut \cup history.touched}

Says(m, k, W) == file[m][k] = IF k = "hook" THEN {} ELSE W

Absent(m) == \A k \in Kind : file[m][k] = Missing
Fitting(m) == Whole(file[m]["dao"]) /\ \A k \in Kind : Says(m, k, file[m]["dao"])

(* The run has written the first files of m; the others are not there yet, *)
(* or --overwrite has yet to come to them.                                 *)
Partway(m) ==
  /\ pc = "dao" /\ m = Current /\ next > 1
  /\ file[m]["dao"] = want[m]
  /\ \A i \in 1 .. next - 1 : Says(m, Kinds[i], want[m])
  /\ \/ \A i \in next .. 7 : file[m][Kinds[i]] = Missing
     \/ overwrite /\ \E W \in SUBSET Method : \A i \in next .. 7 : Says(m, Kinds[i], W)

FilesInv ==
  /\ \A m \in Model : \/ file[m]["hook"] \in {Missing, {}}
                      \/ file[m]["hook"] = TornGo /\ m \in history.cut
  /\ \A m \in Undisturbed : Absent(m) \/ Fitting(m) \/ Partway(m)
  /\ \A m \in done : \A k \in Kind : file[m][k] # Missing
  /\ pc = "dao" => \A i \in 1 .. next - 1 : file[Current][Kinds[i]] # Missing
  /\ overwrite => \A m \in done : \A k \in Kind \ {"hook"} : file[m][k] = want[m]
  /\ pc = "dao" /\ overwrite =>
       \A i \in 1 .. next - 1 : Kinds[i] # "hook" => file[Current][Kinds[i]] = want[Current]

(* ServiceContext constructs what is there.                                *)
WiredInv ==
  (pc \in {"snapshot", "plan", "commit", "i18n"} /\ result # "warned") \/ result = "ok" =>
    \A m \in wired \cap Model : Whole(file[m]["dao"])

-----------------------------------------------------------------------------
(* The operators of the model.                                             *)

LEMMA KindFacts ==
  /\ DOMAIN Kinds = 1 .. 7 /\ Len(Kinds) = 7
  /\ Kind = {"dao", "impl", "daoMock", "hook", "repo", "repoImpl", "repoMock"}
  /\ Kinds[1] = "dao" /\ Kinds[2] = "impl" /\ Kinds[3] = "daoMock" /\ Kinds[4] = "hook"
  /\ Kinds[5] = "repo" /\ Kinds[6] = "repoImpl" /\ Kinds[7] = "repoMock"
BY DEF Kinds, Kind

LEMMA TextFacts ==
  /\ \A W \in SUBSET Method : W \in Text /\ Whole(W)
  /\ Missing \in Text /\ TornGo \in Text /\ Missing # TornGo
  /\ \A t \in Text : Whole(t) => t \in SUBSET Method
<1>1. "missing" \notin Method /\ Torn \notin Method /\ Torn # "missing"
    BY PipelineAssumption DEF Torn
<1>2. QED
    BY <1>1 DEF Text, Whole, Missing, TornGo

LEMMA TornFacts == Torn = "torn" /\ Torn \notin Model /\ NoText \notin Model /\ NoKey \notin Model
BY BizcodeAssumption DEF Torn

(* A set of naturals that is not empty has a least member.                 *)
LEMMA LeastFacts ==
  ASSUME NEW S, S \subseteq Nat, S # {}
  PROVE  \E x \in S : \A y \in S : x <= y
<1>1. PICK x \in S : \A y \in S : ~(<<y, x>> \in OpToRel(<, Nat))
    BY NatLessThanWellFounded, WFMin
<1>2. \A y \in S : ~(y < x)
    BY <1>1 DEF OpToRel
<1>3. QED
    BY <1>2

LEMMA CurrentFacts ==
  ASSUME todo \subseteq Model, todo # {}
  PROVE  Current \in todo
<1> DEFINE S == {Rank[m] : m \in todo}
<1>1. S \subseteq Nat /\ S # {}
    BY BizcodeAssumption
<1>2. PICK x \in S : \A y \in S : x <= y
    BY <1>1, LeastFacts
<1>3. \E m \in todo : \A n \in todo : Rank[m] <= Rank[n]
    BY <1>2
<1>4. QED
    BY <1>3 DEF Current

(* What a run renders are methods.                                         *)
LEMMA RenderedFacts ==
  ASSUME EntTypeInv, NEW m \in Declared, NEW k \in Kind
  PROVE  Rendered(m, k) \in SUBSET Method
<1>1. m \in Model /\ want[m] \in SUBSET Method
    BY DEF EntTypeInv, Declared
<1>2. file[m]["dao"] \in Text /\ file[m]["impl"] \in Text
    BY <1>1, KindFacts DEF EntTypeInv
<1>3. MockMethods(m) \in SUBSET Method
    BY <1>2, TextFacts DEF MockMethods
<1>4. RepoMethods(m) \in SUBSET Method
    BY <1>2, TextFacts DEF RepoMethods
<1>5. QED
    BY <1>1, <1>3, <1>4 DEF Rendered

-----------------------------------------------------------------------------
(* Segments.                                                               *)

LEMMA HighestFacts ==
  ASSUME EntTypeInv, CodesInv
  PROVE  Highest \in Nat /\ \A m \in Model : codes[m] <= Highest
<1> DEFINE Bound(b) == \A m \in Model : codes[m] <= b
           S == {b \in Nat : Bound(b)}
<1>1. S \subseteq Nat /\ S # {}
    BY DEF CodesInv
<1> HIDE DEF S
<1>2. PICK b \in S : \A y \in S : b <= y
    BY <1>1, LeastFacts
<1>3. b \in Nat /\ Bound(b)
    BY <1>2 DEF S
<1>4. b \in {NoSegment} \cup {codes[m] : m \in Model}
  <2>1. SUFFICES ASSUME b # 0, \A m \in Model : codes[m] # b PROVE FALSE
      BY DEF NoSegment
  <2>2. ASSUME NEW m \in Model PROVE codes[m] <= b - 1
    <3>1. codes[m] \in Nat /\ codes[m] <= b /\ codes[m] # b
        BY <1>3, <2>1 DEF EntTypeInv
    <3>2. QED
        BY <1>3, <3>1
  <2>3. b - 1 \in S
      BY <1>3, <2>1, <2>2 DEF S
  <2>4. QED
      BY <1>2, <1>3, <2>3
<1>5. /\ Highest \in {NoSegment} \cup {codes[m] : m \in Model}
      /\ \A m \in Model : codes[m] <= Highest
    BY <1>3, <1>4 DEF Highest
<1>6. QED
    BY <1>5 DEF EntTypeInv, NoSegment

(* The schemas without a segment get different numbers.                    *)
LEMMA NewUpToFacts ==
  ASSUME NEW declared \in SUBSET Model,
         NEW m \in declared, codes[m] = NoSegment,
         NEW n \in declared, codes[n] = NoSegment
  PROVE  /\ Cardinality(NewUpTo(declared, m)) \in Nat
         /\ Cardinality(NewUpTo(declared, m)) # 0
         /\ Cardinality(NewUpTo(declared, m)) <= Cardinality(Model)
         /\ Cardinality(NewUpTo(declared, m)) = Cardinality(NewUpTo(declared, n)) => m = n
<1>1. /\ NewUpTo(declared, m) \in SUBSET Model /\ NewUpTo(declared, n) \in SUBSET Model
      /\ Rank[m] \in Nat /\ Rank[n] \in Nat
      /\ m \in NewUpTo(declared, m) /\ n \in NewUpTo(declared, n)
    BY BizcodeAssumption DEF NewUpTo
<1>2. IsFiniteSet(NewUpTo(declared, m)) /\ IsFiniteSet(NewUpTo(declared, n))
    BY <1>1, BizcodeAssumption, FS_Subset
<1>3. /\ Cardinality(NewUpTo(declared, m)) \in Nat
      /\ Cardinality(NewUpTo(declared, m)) <= Cardinality(Model)
    BY <1>1, <1>2, BizcodeAssumption, FS_Subset, FS_CardinalityType
<1>4. Cardinality(NewUpTo(declared, m)) # 0
    BY <1>1, <1>2, FS_EmptySet
<1>5. ASSUME NEW x \in declared, NEW y \in declared, codes[x] = NoSegment, codes[y] = NoSegment,
             Rank[x] <= Rank[y], IsFiniteSet(NewUpTo(declared, y)),
             Cardinality(NewUpTo(declared, x)) = Cardinality(NewUpTo(declared, y))
      PROVE  x = y
  <2>1. Rank \in [Model -> Nat] /\ \A p, q \in Model : Rank[p] = Rank[q] => p = q
      BY BizcodeAssumption
  <2>2. NewUpTo(declared, x) \in SUBSET NewUpTo(declared, y)
      BY <1>5, <2>1 DEF NewUpTo
  <2>3. NewUpTo(declared, x) = NewUpTo(declared, y)
      BY <1>5, <2>2, FS_Subset
  <2>4. y \in NewUpTo(declared, x)
      BY <1>5, <2>1, <2>3 DEF NewUpTo
  <2>5. Rank[y] <= Rank[x]
      BY <2>4 DEF NewUpTo
  <2>6. QED
      BY <1>5, <2>1, <2>5
<1>6. Rank[m] <= Rank[n] \/ Rank[n] <= Rank[m]
    BY <1>1
<1>7. QED
    BY <1>2, <1>3, <1>4, <1>5, <1>6

(* What codes a run over these schemas gives.                              *)
LEMMA AssignFacts ==
  ASSUME EntTypeInv, CodesInv, NEW declared \in SUBSET Model
  PROVE  LET new == Assign(declared) IN
         /\ new \in [Model -> Nat]
         /\ \A m \in declared : new[m] # NoSegment
         /\ \A m, n \in Model : new[m] = new[n] /\ new[m] # NoSegment => m = n
         /\ \A m \in Model : codes[m] # NoSegment => new[m] \in {codes[m], NoSegment}
         /\ \E bound \in Nat : \A m \in Model : new[m] <= bound
<1> DEFINE new == Assign(declared)
           Card(m) == Cardinality(NewUpTo(declared, m))
           IsNew(m) == m \in declared /\ codes[m] = NoSegment
<1>0. /\ NoSegment = 0
      /\ \A m \in Model : codes[m] \in Nat
      /\ Highest \in Nat /\ \A m \in Model : codes[m] <= Highest
      /\ Cardinality(Model) \in Nat
    BY HighestFacts, BizcodeAssumption, FS_CardinalityType DEF EntTypeInv, NoSegment
<1>1. /\ \A m \in Model : IsNew(m) =>
           Card(m) \in Nat /\ Card(m) # 0 /\ Card(m) <= Cardinality(Model)
      /\ \A m, n \in Model : IsNew(m) /\ IsNew(n) /\ Card(m) = Card(n) => m = n
    BY NewUpToFacts
<1>2. \A m \in Model : new[m] = IF m \notin declared THEN 0
                                ELSE IF codes[m] # 0 THEN codes[m] ELSE Highest + Card(m)
    BY <1>0 DEF Assign
<1> HIDE DEF Card
<1>3. new \in [Model -> Nat]
    BY <1>0, <1>1, <1>2 DEF Assign
<1>4. \A m \in declared : new[m] # 0
    BY <1>0, <1>1, <1>2
<1> HIDE DEF new
<1>5. ASSUME NEW m \in Model, NEW n \in Model, new[m] = new[n], new[m] # 0 PROVE m = n
  <2>1. m \in declared /\ n \in declared
      BY <1>2, <1>5
  <2>2. CASE codes[m] # 0 /\ codes[n] # 0
      BY <1>0, <1>2, <1>5, <2>1, <2>2 DEF CodesInv
  <2>3. CASE codes[m] = 0 /\ codes[n] = 0
      BY <1>0, <1>1, <1>2, <1>5, <2>1, <2>3
  <2>4. CASE (codes[m] = 0) # (codes[n] = 0)
      BY <1>0, <1>1, <1>2, <1>5, <2>1, <2>4
  <2>5. QED
      BY <2>2, <2>3, <2>4
<1>6. \A m \in Model : new[m] <= Highest + Cardinality(Model)
    BY <1>0, <1>1, <1>2
<1>7. QED
    BY <1>0, <1>2, <1>3, <1>4, <1>5, <1>6 DEF new

-----------------------------------------------------------------------------
(* Types.                                                                  *)

LEMMA HistoryFacts ==
  ASSUME history \in History
  PROVE  /\ history.cut \subseteq Model /\ history.touched \subseteq Model
         /\ history.noproto \subseteq Model /\ history.undone \subseteq Model
         /\ history.dropped \subseteq Model /\ history.late \subseteq Model
BY DEF History

LEMMA CutShortTypes ==
  ASSUME EntTypeInv, CutShort
  PROVE  /\ want' = want /\ todo' = {} /\ next' = 1 /\ done' = {} /\ fresh' = {}
         /\ before' = {} /\ plan' = {} /\ writing' = {} /\ pc' = "idle" /\ result' = "error" /\ ~overwrite'
         /\ history'.cut = history.cut \cup fresh \cup {m \in todo : m = Current}
         /\ history'.undone = history.undone \cup {m \in Model : desc[m] = "user" /\ desc'[m] = "none"}
         /\ history'.touched = history.touched /\ history'.noproto = history.noproto
         /\ history'.dropped = history.dropped
         /\ history' \in History
<1>1. history \in History
    BY DEF EntTypeInv
<1>2. history' = [history EXCEPT
        !.cut = @ \cup fresh \cup {m \in todo : m = Current},
        !.undone = @ \cup {m \in Model : desc[m] = "user" /\ desc'[m] = "none"}]
    BY DEF CutShort
<1>3. todo \subseteq Model /\ fresh \subseteq Model
    BY DEF EntTypeInv
<1>4. /\ history'.cut = history.cut \cup fresh \cup {m \in todo : m = Current}
      /\ history'.undone = history.undone \cup {m \in Model : desc[m] = "user" /\ desc'[m] = "none"}
      /\ history'.touched = history.touched /\ history'.noproto = history.noproto
      /\ history'.dropped = history.dropped
      /\ history' \in History
    BY <1>1, <1>2, <1>3 DEF History
<1>5. QED
    BY <1>4 DEF CutShort, End

LEMMA EntInitTypes == Init => EntTypeInv
<1> SUFFICES ASSUME Init PROVE EntTypeInv
    OBVIOUS
<1>1. file \in [Model -> [Kind -> Text]]
    BY TextFacts DEF Init
<1>2. history \in History
    BY DEF Init, History
<1>3. want \in [Model -> {Missing} \cup SUBSET Method]
    BY DEF Init
<1>4. QED
    BY <1>1, <1>2, <1>3, KindFacts DEF Init, BizInit, EntTypeInv, NoSegment

(* The seven files of a model.                                             *)
LEMMA FileFacts ==
  ASSUME EntTypeInv, NEW m \in Model, NEW k \in Kind, NEW t \in Text
  PROVE  LET new == [file EXCEPT ![m][k] = t] IN
         /\ new \in [Model -> [Kind -> Text]]
         /\ new[m][k] = t
         /\ \A j \in Kind \ {k} : new[m][j] = file[m][j]
         /\ \A n \in Model \ {m} : new[n] = file[n]
BY DEF EntTypeInv

LEMMA WriteGoFacts ==
  ASSUME EntTypeInv, RunInv, WriteGo
  PROVE  LET m == Current
             k == Kinds[next]
         IN /\ pc = "dao" /\ m \in todo /\ m \in Declared /\ m \in Model /\ k \in Kind
            /\ file'[m][k] = IF Keeps(m, k) THEN file[m][k] ELSE Rendered(m, k)
            /\ \A j \in Kind \ {k} : file'[m][j] = file[m][j]
            /\ \A n \in Model \ {m} : file'[n] = file[n]
            /\ file' \in [Model -> [Kind -> Text]]
<1> DEFINE m == Current
           k == Kinds[next]
           t == IF Keeps(m, k) THEN file[m][k] ELSE Rendered(m, k)
<1>1. pc = "dao" /\ m \in todo /\ m \in Declared /\ m \in Model /\ k \in Kind
    BY CurrentFacts, KindFacts DEF WriteGo, RunInv, EntTypeInv
<1>2. t \in Text
    BY <1>1, RenderedFacts, TextFacts DEF EntTypeInv
<1>3. file' = [file EXCEPT ![m][k] = t]
    BY DEF WriteGo
<1> HIDE DEF m, k, t
<1>4. /\ file' \in [Model -> [Kind -> Text]]
      /\ file'[m][k] = t
      /\ \A j \in Kind \ {k} : file'[m][j] = file[m][j]
      /\ \A n \in Model \ {m} : file'[n] = file[n]
    BY <1>1, <1>2, <1>3, FileFacts
<1>5. QED
    BY <1>1, <1>4 DEF m, k, t

LEMMA StopGoFacts ==
  ASSUME EntTypeInv, RunInv, StopGo
  PROVE  /\ Current \in todo /\ CutShort
         /\ \A n \in Model \ {Current} : file'[n] = file[n]
         /\ file' \in [Model -> [Kind -> Text]]
         /\ UNCHANGED <<desc, wired, codes, locale>>
<1>1. Current \in todo /\ Current \in Model /\ Kinds[next] \in Kind
    BY CurrentFacts, KindFacts DEF StopGo, RunInv, EntTypeInv
<1>2. \/ UNCHANGED file
      \/ file' = [file EXCEPT ![Current][Kinds[next]] = TornGo]
    BY DEF StopGo
<1>3. CASE UNCHANGED file
    BY <1>1, <1>3 DEF StopGo, bizVars, EntTypeInv
<1>4. CASE file' = [file EXCEPT ![Current][Kinds[next]] = TornGo]
  <2>1. /\ file' \in [Model -> [Kind -> Text]]
        /\ \A n \in Model \ {Current} : file'[n] = file[n]
      BY <1>1, <1>4, FileFacts, TextFacts
  <2>2. QED
      BY <1>1, <2>1 DEF StopGo, bizVars
<1>5. QED
    BY <1>2, <1>3, <1>4

(* What becomes of the segments.                                           *)
LEMMA CodesStep ==
  ASSUME EntTypeInv, CodesInv, WriteCodes(Declared) \/ TearCodes(Declared)
  PROVE  /\ locale' = locale
         /\ codes' \in [Model -> Nat]
         /\ \A m, n \in Model : codes'[m] = codes'[n] /\ codes'[m] # NoSegment => m = n
         /\ \A m \in Model : codes[m] # NoSegment => codes'[m] \in {codes[m], NoSegment}
         /\ \E bound \in Nat : \A m \in Model : codes'[m] <= bound
         /\ WriteCodes(Declared) => \A m \in Declared : codes'[m] # NoSegment
<1> DEFINE new == Assign(Declared)
<1>1. Declared \in SUBSET Model
    BY DEF Declared
<1>2. /\ new \in [Model -> Nat]
      /\ \A m \in Declared : new[m] # NoSegment
      /\ \A m, n \in Model : new[m] = new[n] /\ new[m] # NoSegment => m = n
      /\ \A m \in Model : codes[m] # NoSegment => new[m] \in {codes[m], NoSegment}
      /\ \E bound \in Nat : \A m \in Model : new[m] <= bound
    BY <1>1, AssignFacts
<1> HIDE DEF new
<1>3. CASE WriteCodes(Declared)
    BY <1>2, <1>3 DEF WriteCodes, new
<1>4. CASE TearCodes(Declared)
  <2>1. PICK s \in Segment :
          codes' = [m \in Model |-> IF new[m] < s THEN new[m] ELSE NoSegment]
      BY <1>4 DEF TearCodes, new
  <2>2. /\ codes' \in [Model -> Nat] /\ locale' = locale
        /\ \A m \in Model : codes'[m] \in {new[m], NoSegment}
      BY <1>2, <1>4, <2>1 DEF TearCodes, NoSegment
  <2>3. PICK bound \in Nat : \A m \in Model : new[m] <= bound
      BY <1>2
  <2>4. \A m \in Model : codes'[m] <= bound
      BY <1>2, <2>2, <2>3 DEF NoSegment
  <2>5. WriteCodes(Declared) => \A m \in Declared : codes'[m] # NoSegment
      BY <1>2 DEF WriteCodes, new
  <2>6. QED
      BY <1>2, <2>2, <2>4, <2>5
<1>5. QED
    BY <1>3, <1>4

LEMMA EntTypeStep ==
  ASSUME EntTypeInv, RunInv, CodesInv, [Next]_vars
  PROVE  EntTypeInv'
<1>1. CASE UNCHANGED vars
    BY <1>1 DEF vars, diskVars, runVars, bizVars, EntTypeInv
<1>2. ASSUME NEW S \in SUBSET Model, NEW o \in BOOLEAN, Start(S, o) PROVE EntTypeInv'
    BY <1>2 DEF Start, diskVars, bizVars, EntTypeInv
<1>3. CASE WriteGo
  <2>1. file' \in [Model -> [Kind -> Text]]
      BY <1>3, WriteGoFacts
  <2>2. next' \in DOMAIN Kinds /\ todo' \subseteq Model /\ fresh' \subseteq Model
      BY <1>3, WriteGoFacts, KindFacts DEF WriteGo, EntTypeInv
  <2>3. QED
      BY <1>3, <2>1, <2>2 DEF WriteGo, bizVars, EntTypeInv
<1>4. CASE StopGo
    BY <1>4, StopGoFacts, CutShortTypes, KindFacts DEF EntTypeInv
<1>5. CASE EnsureEntInfra \/ Snapshot \/ Plan
    BY <1>5 DEF EnsureEntInfra, Snapshot, Plan, diskVars, bizVars, EntTypeInv
<1>6. CASE StopInfra \/ StopPlan
  <2>1. CutShort /\ UNCHANGED <<file, desc, codes, locale>>
      BY <1>6 DEF StopInfra, StopPlan, diskVars, bizVars
  <2>2. QED
      BY <2>1, CutShortTypes, KindFacts DEF EntTypeInv
<1>7. ASSUME NEW m \in Model, Look(m) \/ Commit(m) PROVE EntTypeInv'
    BY <1>7 DEF Look, Commit, diskVars, bizVars, EntTypeInv
<1>8. ASSUME NEW m \in Model, FailCommit(m) \/ StopCommit(m) PROVE EntTypeInv'
  <2>1. desc' \in [Model -> {"none", "gen", "user", Torn}]
      BY <1>8 DEF FailCommit, StopCommit, RolledBack, EntTypeInv
  <2>2. CutShort /\ UNCHANGED <<file, codes, locale>>
      BY <1>8 DEF FailCommit, StopCommit, bizVars
  <2>3. QED
      BY <2>1, <2>2, CutShortTypes, KindFacts DEF EntTypeInv
<1>9. ASSUME GenDaoErrcodeAll \/ StopCodes PROVE history' \in History
    BY <1>9 DEF GenDaoErrcodeAll, StopCodes, Dropping, EntTypeInv, History
<1>10. CASE GenDaoErrcodeAll
  <2>1. codes' \in [Model -> Nat] /\ locale' = locale
      BY <1>10, CodesStep DEF GenDaoErrcodeAll
  <2>2. QED
      BY <1>9, <1>10, <2>1 DEF GenDaoErrcodeAll, diskVars, EntTypeInv
<1>11. CASE StopCodes
  <2>1. codes' \in [Model -> Nat] /\ locale' = locale
      BY <1>11, CodesStep DEF StopCodes, bizVars, EntTypeInv
  <2>2. UNCHANGED <<want, file, desc>> /\ todo' = {} /\ next' = 1 /\ fresh' = {}
      BY <1>11 DEF StopCodes, diskVars, End
  <2>3. QED
      BY <1>9, <1>11, <2>1, <2>2, KindFacts DEF EntTypeInv
<1>12. CASE AppendI18n
  <2>1. /\ codes' = codes
        /\ locale' \in [Segment -> Model \cup {NoKey, NoText, Torn}]
      BY <1>12 DEF AppendI18n, MergeI18n, StopI18n, TornLocale, EntTypeInv
  <2>2. UNCHANGED <<want, file, desc, history>> /\ todo' = {} /\ next' = 1 /\ fresh' = {}
      BY <1>12 DEF AppendI18n, diskVars, End
  <2>3. QED
      BY <2>1, <2>2, KindFacts DEF EntTypeInv
<1>13. ASSUME Edits PROVE todo' \subseteq Model /\ fresh' \subseteq Model /\ next' \in DOMAIN Kinds
    BY <1>13, KindFacts DEF Edits, End, runVars, EntTypeInv
<1>14. ASSUME NEW m \in Model, NEW W \in {Missing} \cup SUBSET Method, EditSchema(m, W)
      PROVE  EntTypeInv'
    BY <1>13, <1>14 DEF EditSchema, bizVars, EntTypeInv
<1>15. ASSUME NEW m \in Model, NEW W \in SUBSET Method, EditDao(m, W) PROVE EntTypeInv'
  <2>1. file' \in [Model -> [Kind -> Text]]
      BY <1>15, TextFacts, KindFacts DEF EditDao, EntTypeInv
  <2>2. history' \in History
      BY <1>15 DEF EditDao, EntTypeInv, History
  <2>3. QED
      BY <1>13, <1>15, <2>1, <2>2 DEF EditDao, bizVars, EntTypeInv
<1>16. ASSUME NEW m \in Model, DeleteGo(m) PROVE EntTypeInv'
  <2>1. file' \in [Model -> [Kind -> Text]]
      BY <1>16, TextFacts DEF DeleteGo, EntTypeInv
  <2>2. history' \in History
      BY <1>16 DEF DeleteGo, EntTypeInv, History
  <2>3. QED
      BY <1>13, <1>16, <2>1, <2>2 DEF DeleteGo, bizVars, EntTypeInv
<1>17. ASSUME NEW m \in Model, WriteProto(m) \/ DeleteProto(m) PROVE EntTypeInv'
  <2>1. desc' \in [Model -> {"none", "gen", "user", Torn}]
      BY <1>17 DEF WriteProto, DeleteProto, EntTypeInv
  <2>2. history' \in History
    <3>1. CASE WriteProto(m)
        BY <3>1 DEF WriteProto, EntTypeInv, History
    <3>2. CASE DeleteProto(m)
        BY <3>2 DEF DeleteProto, EntTypeInv, History
    <3>3. QED
        BY <1>17, <3>1, <3>2
  <2>3. QED
      BY <1>13, <1>17, <2>1, <2>2 DEF WriteProto, DeleteProto, bizVars, EntTypeInv
<1>18. ASSUME NEW m \in Model, WriteMessage(m) PROVE EntTypeInv'
    BY <1>18 DEF WriteMessage, Translate, diskVars, runVars, EntTypeInv
<1>19. \A m \in Declared : {m} \in SUBSET Model
    BY DEF Declared
<1>20. Declared \in SUBSET Model
    BY DEF Declared
<1>21. CASE Run
    BY <1>2, <1>3, <1>4, <1>5, <1>6, <1>7, <1>8, <1>10, <1>11, <1>12, <1>19, <1>20, <1>21 DEF Run
<1>22. CASE Develop
    BY <1>14, <1>15, <1>16, <1>17, <1>18, <1>22 DEF Develop
<1>23. QED
    BY <1>1, <1>21, <1>22 DEF Next

-----------------------------------------------------------------------------
(* The course of a run.                                                    *)

LEMMA EntInitRun == Init => RunInv
BY DEF Init, RunInv

LEMMA EntRunStep ==
  ASSUME EntTypeInv, RunInv, [Next]_vars
  PROVE  RunInv'
<1>0. Declared \subseteq Model
    BY DEF Declared
<1>1. CASE UNCHANGED vars
    BY <1>1 DEF vars, diskVars, runVars, bizVars, RunInv, Declared
<1>2. ASSUME NEW S \in SUBSET Declared, S # {}, NEW o \in BOOLEAN, Start(S, o) PROVE RunInv'
    BY <1>2 DEF Start, diskVars, bizVars, RunInv, Declared
<1>3. CASE WriteGo
  <2>1. Current \in todo /\ Current \in Declared /\ pc = "dao"
      BY <1>3, WriteGoFacts
  <2>2. UNCHANGED <<want, desc, before, plan, writing, history, result>>
        /\ Declared' = Declared
        /\ fresh \subseteq fresh'
      BY <1>3 DEF WriteGo, Declared
  <2>3. CASE UNCHANGED <<todo, done, pc>>
      BY <2>1, <2>2, <2>3 DEF RunInv
  <2>4. CASE /\ next' = 1 /\ todo' = todo \ {Current} /\ done' = done \cup {Current}
             /\ pc' = IF todo = {Current} THEN "infra" ELSE "dao"
      BY <2>1, <2>2, <2>4 DEF RunInv
  <2>5. QED
      BY <1>3, <2>3, <2>4 DEF WriteGo
<1>4. ASSUME CutShort PROVE RunInv'
    BY <1>4, CutShortTypes DEF RunInv, Declared
<1>5. CASE EnsureEntInfra
    BY <1>5 DEF EnsureEntInfra, RunInv, Declared
<1>6. CASE Snapshot
    BY <1>6 DEF Snapshot, diskVars, RunInv, Declared
<1>7. CASE Plan
    BY <1>7 DEF Plan, ToWrite, diskVars, RunInv, Declared
<1>8. ASSUME NEW m \in Model, Look(m) \/ Commit(m) PROVE RunInv'
  <2>1. \A n \in before : desc'[n] # "none"
    <3>1. CASE Look(m)
        BY <3>1 DEF Look, diskVars, RunInv
    <3>2. CASE Commit(m)
        BY <3>2 DEF Commit, RunInv, EntTypeInv
    <3>3. QED
        BY <1>8, <3>1, <3>2
  <2>2. CASE Look(m)
    <3>1. writing' \in {{}, {m}} /\ (writing' = {m} => desc[m] = "none" /\ plan' = plan)
        BY <2>2 DEF Look, Found
    <3>2. writing' \subseteq plan' /\ writing' \cap before' = {}
        BY <2>2, <3>1 DEF Look, RunInv
    <3>3. QED
        BY <2>1, <2>2, <3>1, <3>2 DEF Look, diskVars, RunInv, Declared
  <2>3. CASE Commit(m)
    <3>1. plan' \subseteq plan /\ plan # {} /\ writing' = {}
        BY <2>3 DEF Commit, RunInv
    <3>2. QED
        BY <2>1, <2>3, <3>1 DEF Commit, RunInv, Declared
  <2>4. QED
      BY <1>8, <2>2, <2>3
<1>9. CASE GenDaoErrcodeAll
    BY <1>9 DEF GenDaoErrcodeAll, diskVars, RunInv, Declared
<1>10. ASSUME NEW how \in {"ok", "warned", "error", "none"}, End(how), UNCHANGED <<want, desc>>
       PROVE  RunInv'
    BY <1>10 DEF End, RunInv, Declared
<1>11. CASE StopCodes
    BY <1>10, <1>11 DEF StopCodes, diskVars
<1>12. CASE AppendI18n
    BY <1>10, <1>12 DEF AppendI18n, diskVars
<1>13. ASSUME Edits, pc = "idle" PROVE RunInv'
    BY <1>13 DEF Edits, End, RunInv, Declared
<1>14. ASSUME NEW m \in Model, WriteProto(m) PROVE RunInv'
  <2>1. \A n \in Model : desc'[n] \in {desc[n], "user"} /\ (n # m => desc'[n] = desc[n])
      BY <1>14 DEF WriteProto, EntTypeInv
  <2>2. CASE pc # "idle"
    <3>1. UNCHANGED runVars /\ want' = want
        BY <1>14, <2>2 DEF WriteProto, Edits
    <3>2. history'.late = history.late \cup (writing \cap {m})
        BY <1>14 DEF WriteProto, EntTypeInv, History
    <3>3. \A n \in writing' : desc'[n] = "none" \/ (desc'[n] = "user" /\ n \in history'.late)
      <4> SUFFICES ASSUME NEW n \in writing
                   PROVE  desc'[n] = "none" \/ (desc'[n] = "user" /\ n \in history'.late)
          BY <3>1 DEF runVars
      <4>1. n \in Model
          BY DEF RunInv, EntTypeInv
      <4>2. CASE n = m
        <5>1. desc'[m] = "user"
            BY <1>14 DEF WriteProto, EntTypeInv
        <5>2. QED
            BY <3>2, <4>2, <5>1
      <4>3. CASE n # m
          BY <2>1, <3>2, <4>1, <4>3 DEF RunInv
      <4>4. QED
          BY <4>2, <4>3
    <3>4. \A n \in before : desc'[n] # "none"
        BY <1>14 DEF WriteProto, RunInv, EntTypeInv
    <3>5. QED
        BY <3>1, <3>3, <3>4 DEF runVars, RunInv, Declared
  <2>3. QED
      BY <1>13, <1>14, <2>2 DEF WriteProto
<1>15. ASSUME NEW m \in Model, WriteMessage(m) PROVE RunInv'
    BY <1>15 DEF WriteMessage, diskVars, runVars, RunInv, Declared
<1>16. CASE Run
  <2>1. \A m \in Declared : {m} \in SUBSET Declared /\ {m} # {}
      OBVIOUS
  <2>2. StopGo \/ StopInfra \/ StopPlan \/ (\E m \in Model : FailCommit(m) \/ StopCommit(m))
          => CutShort
      BY DEF StopGo, StopInfra, StopPlan, FailCommit, StopCommit
  <2>3. QED
      BY <1>2, <1>3, <1>4, <1>5, <1>6, <1>7, <1>8, <1>9, <1>11, <1>12, <1>16, <2>1, <2>2 DEF Run
<1>17. CASE Develop
  <2>1. PICK m \in Model :
          \/ \E W \in {Missing} \cup SUBSET Method : EditSchema(m, W)
          \/ \E W \in SUBSET Method : EditDao(m, W)
          \/ DeleteGo(m) \/ WriteProto(m) \/ DeleteProto(m) \/ WriteMessage(m)
      BY <1>17 DEF Develop
  <2>2. CASE WriteProto(m) \/ WriteMessage(m)
      BY <1>14, <1>15, <2>2
  <2>3. CASE ~(WriteProto(m) \/ WriteMessage(m))
    <3>1. Edits /\ pc = "idle"
        BY <2>1, <2>3 DEF EditSchema, EditDao, DeleteGo, DeleteProto
    <3>2. QED
        BY <1>13, <3>1
  <2>4. QED
      BY <2>2, <2>3
<1>18. QED
    BY <1>1, <1>16, <1>17 DEF Next

LEMMA EntKeepsProtos ==
  ASSUME EntTypeInv, RunInv, [Next]_vars, NEW m \in Model
  PROVE  /\ desc[m] = "user" =>
              desc'[m] \in {"user", "none"} \/ m \in writing \cap history.late
         /\ m \in before => desc'[m] \in {desc[m], "user"}
<1> DEFINE Kept == /\ desc[m] = "user" =>
                        desc'[m] \in {"user", "none"} \/ m \in writing \cap history.late
                   /\ m \in before => desc'[m] \in {desc[m], "user"}
<1>1. CASE UNCHANGED desc
    BY <1>1
<1>2. ASSUME NEW n \in Model, Commit(n) PROVE Kept
    BY <1>2 DEF Commit, RunInv, EntTypeInv
<1>3. ASSUME NEW n \in Model, FailCommit(n) PROVE Kept
    BY <1>3 DEF FailCommit, RolledBack, EntTypeInv
<1>4. ASSUME NEW n \in Model, StopCommit(n) PROVE Kept
    BY <1>4 DEF StopCommit, RunInv, EntTypeInv
<1>5. ASSUME NEW n \in Model, WriteProto(n) PROVE Kept
    BY <1>5 DEF WriteProto, EntTypeInv
<1>6. ASSUME NEW n \in Model, DeleteProto(n) PROVE Kept
    BY <1>6 DEF DeleteProto, RunInv, EntTypeInv
<1>7. CASE Run
  <2>1. \/ UNCHANGED desc
        \/ \E n \in Model : Commit(n) \/ FailCommit(n) \/ StopCommit(n)
      BY <1>7 DEF Run, Start, WriteGo, StopGo, EnsureEntInfra, StopInfra, Snapshot, Plan,
                  StopPlan, Look, GenDaoErrcodeAll, StopCodes, AppendI18n, diskVars
  <2>2. QED
      BY <1>1, <1>2, <1>3, <1>4, <2>1
<1>8. CASE Develop
  <2>1. UNCHANGED desc \/ \E n \in Model : WriteProto(n) \/ DeleteProto(n)
      BY <1>8 DEF Develop, EditSchema, EditDao, DeleteGo, WriteMessage, diskVars
  <2>2. QED
      BY <1>1, <1>5, <1>6, <2>1
<1>9. CASE UNCHANGED vars
    BY <1>1, <1>9 DEF vars, diskVars
<1>10. QED
    BY <1>7, <1>8, <1>9 DEF Next

-----------------------------------------------------------------------------
(* The protos.                                                             *)

LEMMA EntInitDesc == Init => DescInv
<1> SUFFICES ASSUME Init PROVE DescInv
    OBVIOUS
<1>1. \A m \in Model : file[m]["dao"] = Missing
    BY KindFacts DEF Init
<1>2. QED
    BY <1>1 DEF Init, DescInv

(* A run that ends early is remembered for the schemas whose protos it     *)
(* owes.                                                                   *)
LEMMA CutShortDesc ==
  ASSUME EntTypeInv, RunInv, DescInv, CutShort,
         \A m \in Model : file'[m] # file[m] => m = Current /\ m \in todo,
         \A m \in Model : desc'[m] = "none" => desc[m] \in {"none", "user"} \/ m \in fresh
  PROVE  DescInv'
<1>1. /\ pc' = "idle"
      /\ history'.cut = history.cut \cup fresh \cup {m \in todo : m = Current}
      /\ history'.undone = history.undone \cup {m \in Model : desc[m] = "user" /\ desc'[m] = "none"}
      /\ history'.noproto = history.noproto
    BY CutShortTypes
<1>2. Pending \subseteq fresh
    BY DEF Pending, RunInv
<1>3. ASSUME NEW m \in Model, desc'[m] = "none", file'[m]["dao"] # Missing PROVE m \in Lost'
  <2>1. CASE desc[m] = "none"
    <3>1. CASE file[m]["dao"] = Missing
      <4>1. m = Current /\ m \in todo
          BY <1>3, <3>1
      <4>2. QED
          BY <1>1, <4>1 DEF Lost
    <3>2. CASE file[m]["dao"] # Missing
      <4>1. m \in Lost \cup Pending
          BY <2>1, <3>2 DEF DescInv
      <4>2. QED
          BY <1>1, <1>2, <4>1 DEF Lost
    <3>3. QED
        BY <3>1, <3>2
  <2>2. CASE desc[m] = "user"
      BY <1>1, <1>3, <2>2 DEF Lost
  <2>3. CASE m \in fresh
      BY <1>1, <2>3 DEF Lost
  <2>4. QED
      BY <1>3, <2>1, <2>2, <2>3
<1>4. QED
    BY <1>1, <1>3 DEF DescInv

LEMMA EntDescStep ==
  ASSUME EntTypeInv, RunInv, DescInv, [Next]_vars
  PROVE  DescInv'
<1> USE DEF Lost
<1>1. CASE UNCHANGED vars
    BY <1>1 DEF vars, diskVars, runVars, bizVars, DescInv, Pending
<1>2. ASSUME NEW S \in SUBSET Model, NEW o \in BOOLEAN, Start(S, o) PROVE DescInv'
    BY <1>2 DEF Start, diskVars, bizVars, DescInv, Pending, RunInv
<1>3. CASE WriteGo
  <2>1. /\ pc = "dao" /\ Current \in Model
        /\ \A n \in Model \ {Current} : file'[n] = file[n]
        /\ \A j \in Kind \ {Kinds[next]} : file'[Current][j] = file[Current][j]
        /\ Keeps(Current, Kinds[next]) => file'[Current][Kinds[next]] = file[Current][Kinds[next]]
      BY <1>3, WriteGoFacts
  <2>2. /\ UNCHANGED <<desc, history>> /\ pc' \in {"dao", "infra"}
        /\ fresh' = fresh \cup {n \in {Current} : Kinds[next] = "dao" /\ file[n][Kinds[next]] = Missing}
      BY <1>3, <2>1 DEF WriteGo
  <2>3. Pending = fresh /\ Pending' = fresh'
      BY <2>1, <2>2 DEF Pending
  <2>4. ASSUME NEW m \in Model, file'[m]["dao"] # Missing
        PROVE  file[m]["dao"] # Missing \/ m \in fresh'
      BY <2>1, <2>2, <2>4, KindFacts
  <2>5. QED
      BY <2>2, <2>3, <2>4 DEF DescInv
<1>4. CASE StopGo
  <2>1. /\ CutShort /\ desc' = desc /\ Current \in todo
        /\ \A n \in Model \ {Current} : file'[n] = file[n]
      BY <1>4, StopGoFacts
  <2>2. \A m \in Model : desc'[m] = "none" => desc[m] \in {"none", "user"} \/ m \in fresh
      BY <2>1
  <2>3. \A m \in Model : file'[m] # file[m] => m = Current /\ m \in todo
      BY <2>1
  <2>4. QED
      BY <2>1, <2>2, <2>3, CutShortDesc
<1>5. CASE EnsureEntInfra
  <2>1. UNCHANGED <<file, desc, fresh, before, history>> /\ pc = "infra" /\ pc' = "snapshot"
      BY <1>5 DEF EnsureEntInfra
  <2>2. Pending' = Pending
      BY <2>1 DEF Pending
  <2>3. QED
      BY <2>1, <2>2 DEF DescInv
<1>6. CASE Snapshot
    BY <1>6 DEF Snapshot, diskVars, DescInv, Pending
<1>7. CASE Plan
  <2>1. /\ UNCHANGED <<file, desc, fresh, before, history>> /\ pc = "plan" /\ pc' = "commit"
        /\ plan' = {m \in fresh : desc[m] = "none"}
      BY <1>7 DEF Plan, ToWrite, diskVars
  <2>2. Pending = fresh /\ Pending' = plan'
      BY <2>1 DEF Pending
  <2>3. QED
      BY <2>1, <2>2, TornFacts DEF DescInv
<1>8. CASE StopInfra \/ StopPlan
  <2>1. CutShort /\ UNCHANGED <<file, desc>>
      BY <1>8 DEF StopInfra, StopPlan, diskVars
  <2>2. \A n \in Model : file'[n] # file[n] => n = Current /\ n \in todo
      BY <2>1
  <2>3. \A n \in Model : desc'[n] = "none" => desc[n] \in {"none", "user"} \/ n \in fresh
      BY <2>1
  <2>4. QED
      BY <2>1, <2>2, <2>3, CutShortDesc
<1>9. ASSUME NEW m \in Model, Commit(m) PROVE DescInv'
  <2>1. /\ desc'[m] = "gen" /\ \A n \in Model \ {m} : desc'[n] = desc[n]
        /\ desc'[m] # "none" /\ m \in fresh
        /\ Pending = plan /\ Pending' = plan \ {m}
        /\ UNCHANGED <<file, history, fresh, before>> /\ pc = "commit" /\ pc' = "commit"
      BY <1>9 DEF Commit, EntTypeInv, Pending, RunInv
  <2>2. QED
      BY <2>1 DEF DescInv
<1>10. ASSUME NEW m \in Model, FailCommit(m) PROVE DescInv'
  <2>1. CutShort /\ file' = file /\ desc' = RolledBack /\ pc = "commit"
      BY <1>10 DEF FailCommit, RunInv
  <2>2. ASSUME NEW n \in Model, desc'[n] = "none"
        PROVE  desc[n] \in {"none", "user"} \/ n \in fresh
      BY <2>1, <2>2 DEF RolledBack, DescInv, EntTypeInv, RunInv
  <2>3. \A n \in Model : file'[n] # file[n] => n = Current /\ n \in todo
      BY <2>1
  <2>4. \A n \in Model : desc'[n] = "none" => desc[n] \in {"none", "user"} \/ n \in fresh
      BY <2>2
  <2>5. QED
      BY <2>1, <2>3, <2>4, CutShortDesc
<1>11. ASSUME NEW m \in Model, StopCommit(m) PROVE DescInv'
  <2>1. CutShort /\ file' = file
      BY <1>11 DEF StopCommit
  <2>2. \A n \in Model : desc'[n] = "none" => desc[n] \in {"none", "user"} \/ n \in fresh
      BY <1>11, TornFacts DEF StopCommit, EntTypeInv
  <2>3. \A n \in Model : file'[n] # file[n] => n = Current /\ n \in todo
      BY <2>1
  <2>4. QED
      BY <2>1, <2>2, <2>3, CutShortDesc
<1>12. ASSUME Dropping PROVE UNCHANGED <<history.cut, history.noproto, history.undone>>
    BY <1>12 DEF Dropping, EntTypeInv, History
<1>13. CASE GenDaoErrcodeAll
    BY <1>12, <1>13 DEF GenDaoErrcodeAll, diskVars, DescInv, Pending
<1>14. CASE StopCodes
    BY <1>12, <1>14 DEF StopCodes, diskVars, DescInv, Pending, End
<1>15. CASE AppendI18n
    BY <1>15 DEF AppendI18n, diskVars, DescInv, Pending, End
<1>16. ASSUME Edits, pc = "idle" PROVE pc' = "idle" /\ Pending = {}
    BY <1>16 DEF Edits, End, Pending
<1>17. ASSUME NEW m \in Model, NEW W, EditSchema(m, W) PROVE DescInv'
    BY <1>16, <1>17 DEF EditSchema, DescInv
<1>18. ASSUME NEW m \in Model, NEW W \in SUBSET Method, EditDao(m, W) PROVE DescInv'
  <2>1. /\ \A n \in Model \ {m} : file'[n] = file[n]
        /\ file[m]["dao"] # Missing
      BY <1>18 DEF EditDao, EntTypeInv, Whole
  <2>2. UNCHANGED <<desc, history.cut, history.noproto, history.undone>> /\ pc = "idle" /\ Edits
      BY <1>18 DEF EditDao, EntTypeInv, History
  <2>3. QED
      BY <1>16, <2>1, <2>2 DEF DescInv
<1>19. ASSUME NEW m \in Model, DeleteGo(m) PROVE DescInv'
  <2>1. /\ \A n \in Model \ {m} : file'[n] = file[n]
        /\ file'[m]["dao"] = Missing
      BY <1>19, KindFacts DEF DeleteGo, EntTypeInv
  <2>2. /\ desc' = desc /\ pc = "idle" /\ Edits
        /\ history.cut \ {m} \subseteq history'.cut
        /\ history.noproto \ {m} \subseteq history'.noproto
        /\ history.undone \ {m} \subseteq history'.undone
      BY <1>19 DEF DeleteGo, EntTypeInv, History
  <2>3. QED
      BY <1>16, <2>1, <2>2 DEF DescInv
<1>20. ASSUME NEW m \in Model, WriteProto(m) PROVE DescInv'
  <2>1. /\ \A n \in Model \ {m} : desc'[n] = desc[n]
        /\ desc'[m] = "user" /\ file' = file
        /\ history.cut \ {m} \subseteq history'.cut
        /\ history.noproto \ {m} \subseteq history'.noproto
        /\ history.undone \ {m} \subseteq history'.undone
      BY <1>20 DEF WriteProto, EntTypeInv, History
  <2>2. CASE pc = "idle"
      BY <1>16, <1>20, <2>1, <2>2 DEF WriteProto, DescInv
  <2>3. CASE pc # "idle"
    <3>1. UNCHANGED runVars
        BY <1>20, <2>3 DEF WriteProto, Edits
    <3>2. QED
        BY <2>1, <3>1, TornFacts DEF DescInv, Pending, runVars
  <2>4. QED
      BY <2>2, <2>3
<1>21. ASSUME NEW m \in Model, DeleteProto(m) PROVE DescInv'
  <2>1. /\ \A n \in Model \ {m} : desc'[n] = desc[n]
        /\ UNCHANGED <<file, history.cut, history.undone>> /\ pc = "idle" /\ Edits
        /\ history'.noproto = history.noproto \cup {m}
      BY <1>21 DEF DeleteProto, EntTypeInv, History
  <2>2. QED
      BY <1>16, <2>1 DEF DescInv
<1>22. ASSUME NEW m \in Model, WriteMessage(m) PROVE DescInv'
    BY <1>22 DEF WriteMessage, diskVars, runVars, DescInv, Pending
<1>26. ASSUME NEW m \in Model, Look(m) PROVE DescInv'
  <2>1. /\ UNCHANGED <<file, desc, history, fresh, before>> /\ pc = "commit" /\ pc' = "commit"
        /\ plan \ {m} \subseteq plan' /\ (desc[m] = "none" => plan' = plan)
      BY <1>26 DEF Look, Found, diskVars
  <2>2. Pending = plan /\ Pending' = plan'
      BY <2>1 DEF Pending
  <2>3. QED
      BY <2>1, <2>2 DEF DescInv
<1>23. CASE Run
  <2>1. Declared \in SUBSET Model /\ \A m \in Declared : {m} \in SUBSET Model
      BY DEF Declared
  <2>2. QED
      BY <1>2, <1>3, <1>4, <1>5, <1>6, <1>7, <1>8, <1>9, <1>10, <1>11, <1>13, <1>14, <1>15,
         <1>23, <1>26, <2>1 DEF Run
<1>24. CASE Develop
    BY <1>17, <1>18, <1>19, <1>20, <1>21, <1>22, <1>24 DEF Develop
<1>25. QED
    BY <1>1, <1>23, <1>24 DEF Next

-----------------------------------------------------------------------------
(* Segments and messages.                                                  *)

LEMMA EntInitCodes == Init => CodesInv
<1> SUFFICES ASSUME Init PROVE CodesInv
    OBVIOUS
<1>1. pc # "i18n" /\ result # "ok" /\ \A m \in Model : codes[m] = 0
    BY DEF Init, BizInit, NoSegment
<1>2. \A s \in Segment, m \in Model : locale[s] # m
    BY TornFacts DEF Init, BizInit
<1>3. \A m \in Model : codes[m] <= 0
    BY <1>1
<1>4. \E bound \in Nat : \A m \in Model : codes[m] <= bound
    BY <1>3
<1>5. QED
    BY <1>1, <1>2, <1>4 DEF CodesInv, NoSegment

LEMMA EntCodesStep ==
  ASSUME EntTypeInv, RunInv, CodesInv, [Next]_vars
  PROVE  CodesInv'
<1>1. ASSUME UNCHANGED bizVars, history.dropped \subseteq history'.dropped,
             pc' = "i18n" \/ result' = "ok" =>
               (pc = "i18n" \/ result = "ok") /\ Declared' = Declared
      PROVE  CodesInv'
    BY <1>1 DEF CodesInv, bizVars
<1>2. ASSUME UNCHANGED <<history, bizVars>>, pc' # "i18n", result' # "ok" PROVE CodesInv'
    BY <1>1, <1>2
<1>3. CASE UNCHANGED vars
    BY <1>1, <1>3 DEF vars, diskVars, runVars, Declared
<1>4. ASSUME NEW S, NEW o, Start(S, o) PROVE CodesInv'
    BY <1>2, <1>4 DEF Start
<1>5. CASE WriteGo
  <2>1. UNCHANGED <<history, bizVars, result>> /\ pc = "dao" /\ pc' \in {"dao", "infra"}
      BY <1>5 DEF WriteGo
  <2>2. QED
      BY <1>2, <2>1 DEF RunInv
<1>6. CASE EnsureEntInfra \/ Snapshot \/ Plan
  <2>1. /\ UNCHANGED <<history, bizVars>> /\ result' \in {result, "warned"}
        /\ pc \in {"infra", "snapshot", "plan"} /\ pc' \in {"snapshot", "plan", "commit"}
      BY <1>6 DEF EnsureEntInfra, Snapshot, Plan
  <2>2. QED
      BY <1>2, <2>1 DEF RunInv
<1>7. ASSUME NEW m \in Model, Look(m) \/ Commit(m) PROVE CodesInv'
  <2>1. UNCHANGED <<history, bizVars, result>> /\ pc = "commit" /\ pc' = "commit"
      BY <1>7 DEF Look, Commit, RunInv
  <2>2. QED
      BY <1>2, <2>1 DEF RunInv
<1>8. ASSUME CutShort, UNCHANGED bizVars PROVE CodesInv'
    BY <1>1, <1>8, CutShortTypes
<1>9. ASSUME WriteCodes(Declared) \/ TearCodes(Declared), Dropping,
             pc' = "i18n" \/ result' = "ok" => WriteCodes(Declared) /\ Declared' = Declared
      PROVE  CodesInv'
  <2>1. /\ locale' = locale
        /\ \A m, n \in Model : codes'[m] = codes'[n] /\ codes'[m] # NoSegment => m = n
        /\ \A m \in Model : codes[m] # NoSegment => codes'[m] \in {codes[m], NoSegment}
        /\ \E bound \in Nat : \A m \in Model : codes'[m] <= bound
        /\ WriteCodes(Declared) => \A m \in Declared : codes'[m] # NoSegment
      BY <1>9, CodesStep
  <2>2. history'.dropped =
          history.dropped \cup {m \in Model : codes[m] # NoSegment /\ codes'[m] = NoSegment}
      BY <1>9 DEF Dropping, EntTypeInv, History
  <2>3. \A s \in Segment : s # NoSegment
      BY DEF Segment, NoSegment
  <2>4. \A s \in Segment, m \in Model : locale'[s] = m => codes'[m] = s \/ m \in history'.dropped
      BY <2>1, <2>2, <2>3 DEF CodesInv
  <2>5. QED
      BY <1>9, <2>1, <2>4 DEF CodesInv
<1>10. CASE GenDaoErrcodeAll
  <2>1. Declared' = Declared
      BY <1>10 DEF GenDaoErrcodeAll, Declared
  <2>2. QED
      BY <1>9, <1>10, <2>1 DEF GenDaoErrcodeAll
<1>11. CASE StopCodes
  <2>1. pc' = "idle" /\ result' # "ok" /\ Dropping
      BY <1>11 DEF StopCodes, End
  <2>2. CASE TearCodes(Declared)
      BY <1>9, <2>1, <2>2
  <2>3. CASE UNCHANGED bizVars
    <3>1. history.dropped \subseteq history'.dropped
        BY <2>1 DEF Dropping, EntTypeInv, History
    <3>2. QED
        BY <1>1, <2>1, <2>3, <3>1
  <2>4. QED
      BY <1>11, <2>2, <2>3 DEF StopCodes
<1>12. CASE AppendI18n
  <2>1. /\ pc = "i18n" /\ UNCHANGED <<want, history, codes>>
        /\ MergeI18n \/ StopI18n
      BY <1>12 DEF AppendI18n, MergeI18n, StopI18n
  <2>2. \A s \in Segment, m \in Model : locale'[s] = m => locale[s] = m
      BY <2>1, TornFacts DEF MergeI18n, StopI18n, TornLocale
  <2>3. Declared' = Declared
      BY <2>1 DEF Declared
  <2>4. QED
      BY <2>1, <2>2, <2>3 DEF CodesInv
<1>13. ASSUME Edits, UNCHANGED bizVars, history.dropped \subseteq history'.dropped,
              pc = "idle" \/ UNCHANGED want
       PROVE  CodesInv'
  <2>1. CASE pc = "idle"
      BY <1>1, <1>13, <2>1 DEF Edits, End
  <2>2. CASE pc # "idle"
      BY <1>1, <1>13, <2>2 DEF Edits, runVars, Declared
  <2>3. QED
      BY <2>1, <2>2
<1>14. ASSUME NEW m \in Model, WriteMessage(m) PROVE CodesInv'
  <2>1. /\ UNCHANGED <<want, history, codes, pc, result>>
        /\ locale' = [locale EXCEPT ![codes[m]] = m]
      BY <1>14 DEF WriteMessage, Translate, runVars
  <2>2. \A s \in Segment, n \in Model : locale'[s] = n => locale[s] = n \/ codes[n] = s
      BY <2>1 DEF EntTypeInv
  <2>3. Declared' = Declared
      BY <2>1 DEF Declared
  <2>4. QED
      BY <2>1, <2>2, <2>3 DEF CodesInv
<1>15. CASE Run
  <2>1. StopGo \/ StopInfra \/ StopPlan \/ (\E m \in Model : FailCommit(m) \/ StopCommit(m))
          => CutShort /\ UNCHANGED bizVars
      BY DEF StopGo, StopInfra, StopPlan, FailCommit, StopCommit
  <2>2. QED
      BY <1>4, <1>5, <1>6, <1>7, <1>8, <1>10, <1>11, <1>12, <1>15, <2>1 DEF Run
<1>16. CASE Develop
  <2>1. PICK m \in Model :
          \/ \E W \in {Missing} \cup SUBSET Method : EditSchema(m, W)
          \/ \E W \in SUBSET Method : EditDao(m, W)
          \/ DeleteGo(m) \/ WriteProto(m) \/ DeleteProto(m) \/ WriteMessage(m)
      BY <1>16 DEF Develop
  <2>2. CASE WriteMessage(m)
      BY <1>14, <2>2
  <2>3. CASE ~WriteMessage(m)
    <3>1. Edits /\ UNCHANGED bizVars /\ (pc = "idle" \/ UNCHANGED want)
        BY <2>1, <2>3 DEF EditSchema, EditDao, DeleteGo, WriteProto, DeleteProto
    <3>2. history'.dropped = history.dropped
        BY <2>1, <2>3 DEF EditSchema, EditDao, DeleteGo, WriteProto, DeleteProto, EntTypeInv, History
    <3>3. QED
        BY <1>13, <3>1, <3>2
  <2>4. QED
      BY <2>2, <2>3
<1>17. QED
    BY <1>3, <1>15, <1>16 DEF Next

-----------------------------------------------------------------------------
(* The Go files.                                                           *)

LEMMA EntInitFiles == Init => FilesInv /\ WiredInv
<1> SUFFICES ASSUME Init PROVE FilesInv /\ WiredInv
    OBVIOUS
<1>1. \A m \in Model : \A k \in Kind : file[m][k] = Missing
    BY DEF Init
<1>2. "hook" \in Kind
    BY KindFacts
<1>3. QED
    BY <1>1, <1>2 DEF Init, FilesInv, WiredInv, Absent, Undisturbed

(* A step outside of phase A that leaves the files alone.                  *)
LEMMA FilesKept ==
  ASSUME EntTypeInv, RunInv, FilesInv, file' = file, pc # "dao", next' = 1,
         history.cut \subseteq history'.cut, history.touched \subseteq history'.touched,
         done' = {} \/ (UNCHANGED <<done, want>> /\ (overwrite' => overwrite))
  PROVE  FilesInv'
<1>1. Undisturbed' \subseteq Undisturbed
    BY DEF Undisturbed
<1>2. \A m \in Undisturbed : Absent(m) \/ Fitting(m)
    BY DEF FilesInv, Partway
<1>3. \A m \in Model : (Absent(m) => Absent(m)') /\ (Fitting(m) => Fitting(m)')
    BY DEF Absent, Fitting, Says
<1>4. \A m \in Undisturbed' : Absent(m)' \/ Fitting(m)'
    BY <1>1, <1>2, <1>3 DEF Undisturbed
<1>5. \A m \in Model : \/ file'[m]["hook"] \in {Missing, {}}
                       \/ file'[m]["hook"] = TornGo /\ m \in history'.cut
    BY DEF FilesInv
<1>6. 1 .. next' - 1 = {}
    OBVIOUS
<1>7. /\ \A m \in done' : \A k \in Kind : file'[m][k] # Missing
      /\ overwrite' => \A m \in done' : \A k \in Kind \ {"hook"} : file'[m][k] = want'[m]
    BY DEF FilesInv
<1>8. QED
    BY <1>4, <1>5, <1>6, <1>7 DEF FilesInv

(* What WriteGo leaves in the file it comes to.                            *)
LEMMA TextWritten ==
  ASSUME EntTypeInv, RunInv, WriteGo, NEW W \in SUBSET Method, next > 1,
         file[Current]["dao"] = W,
         next > 2 => file[Current]["impl"] = W,
         Keeps(Current, Kinds[next]) /\ next # 4 => file[Current][Kinds[next]] = W,
         next = 2 => want[Current] = W \/ Keeps(Current, Kinds[next])
  PROVE  /\ next # 4 => file'[Current][Kinds[next]] = W
         /\ next = 4 => file'[Current]["hook"] =
                          IF file[Current]["hook"] = Missing THEN {} ELSE file[Current]["hook"]
<1>1. file'[Current][Kinds[next]] =
        IF Keeps(Current, Kinds[next]) THEN file[Current][Kinds[next]]
        ELSE Rendered(Current, Kinds[next])
    BY WriteGoFacts
<1>2. Whole(W)
    BY TextFacts
<1>3. next \in 2 .. 7
    BY KindFacts DEF EntTypeInv
<1>4. CASE next = 2
    BY <1>1, <1>4, KindFacts DEF Rendered
<1>5. CASE next = 3
    BY <1>1, <1>2, <1>5, KindFacts DEF Rendered, MockMethods
<1>6. CASE next = 4
    BY <1>1, <1>6, KindFacts DEF Rendered, Keeps
<1>7. CASE next \in 5 .. 7
    BY <1>1, <1>2, <1>7, KindFacts DEF Rendered, RepoMethods
<1>8. QED
    BY <1>3, <1>4, <1>5, <1>6, <1>7

LEMMA KindPositions ==
  ASSUME NEW i \in 1 .. 7, NEW j \in 1 .. 7
  PROVE  /\ Kinds[i] = Kinds[j] => i = j
         /\ Kinds[i] = "hook" <=> i = 4
         /\ Kinds[i] \in Kind
BY KindFacts

(* The model whose files are being written.                                *)

(* The model whose files are being written.                                *)
LEMMA WriteGoUndisturbed ==
  ASSUME EntTypeInv, RunInv, FilesInv, WriteGo, NEW m \in Undisturbed, m = Current
  PROVE  Fitting(m)' \/ Partway(m)'
<1>1. /\ pc = "dao" /\ m \in Model /\ m \in Declared /\ m \in todo /\ want[m] \in SUBSET Method
      /\ file'[m][Kinds[next]] = IF Keeps(m, Kinds[next]) THEN file[m][Kinds[next]]
                                 ELSE Rendered(m, Kinds[next])
      /\ \A j \in Kind \ {Kinds[next]} : file'[m][j] = file[m][j]
      /\ UNCHANGED <<want, overwrite>>
      /\ next \in 1 .. 7
    BY WriteGoFacts, KindFacts DEF EntTypeInv, Declared, WriteGo
<1>2. next < 7 => next' = next + 1 /\ todo' = todo /\ pc' = "dao" /\ Current' = Current
    BY <1>1, KindFacts DEF WriteGo, Current
<1>3. \A i \in 1 .. 7 : i # next => file'[m][Kinds[i]] = file[m][Kinds[i]]
    BY <1>1, KindPositions
<1>4. CASE Absent(m)
  <2>1. next = 1
      BY <1>1, <1>4, KindPositions DEF FilesInv, Absent
  <2>2. ~Keeps(m, Kinds[next]) /\ Rendered(m, Kinds[next]) = want[m]
      BY <1>1, <1>4, <2>1, KindFacts DEF Absent, Keeps, Rendered
  <2>3. file'[m]["dao"] = want[m] /\ Says(m, "dao", want[m])'
      BY <1>1, <2>1, <2>2, KindFacts DEF Says
  <2>4. \A i \in 2 .. 7 : file'[m][Kinds[i]] = Missing
      BY <1>3, <1>4, <2>1, KindPositions DEF Absent
  <2>5. next' = 2 /\ pc' = "dao" /\ m = Current'
      BY <1>2, <2>1
  <2>6. \A i \in 1 .. next' - 1 : Says(m, Kinds[i], want[m])'
      BY <2>3, <2>5, KindFacts
  <2>7. QED
      BY <1>1, <2>3, <2>4, <2>5, <2>6 DEF Partway
<1>5. CASE Fitting(m) /\ next = 1 /\ overwrite
  <2>1. PICK W \in SUBSET Method : W = file[m]["dao"]
      BY <1>1, <1>5, TextFacts, KindFacts DEF Fitting, EntTypeInv
  <2>2. ~Keeps(m, Kinds[next]) /\ Rendered(m, Kinds[next]) = want[m]
      BY <1>1, <1>5, KindFacts DEF Keeps, Rendered
  <2>3. file'[m]["dao"] = want[m] /\ Says(m, "dao", want[m])'
      BY <1>1, <1>5, <2>2, KindFacts DEF Says
  <2>4. \A i \in 2 .. 7 : Says(m, Kinds[i], W)'
      BY <1>3, <1>5, <2>1, KindPositions DEF Fitting, Says
  <2>5. next' = 2 /\ pc' = "dao" /\ m = Current'
      BY <1>2, <1>5
  <2>6. \A i \in 1 .. next' - 1 : Says(m, Kinds[i], want[m])'
      BY <2>3, <2>5, KindFacts
  <2>7. \A i \in next' .. 7 : Says(m, Kinds[i], W)'
      BY <2>4, <2>5
  <2>8. QED
      BY <1>1, <1>5, <2>3, <2>5, <2>6, <2>7 DEF Partway
<1>6. CASE Fitting(m) /\ next = 1 /\ ~overwrite
  <2>1. file'[m][Kinds[next]] = file[m][Kinds[next]]
      BY <1>1, <1>6, KindFacts, TextFacts DEF Fitting, Whole, Keeps
  <2>2. \A k \in Kind : file'[m][k] = file[m][k]
      BY <1>1, <2>1
  <2>3. QED
      BY <1>6, <2>2, KindFacts DEF Fitting, Says
<1>7. CASE Fitting(m) /\ next > 1
  <2>0. PICK W \in SUBSET Method : W = file[m]["dao"]
      BY <1>1, <1>7, TextFacts, KindFacts DEF Fitting, EntTypeInv
  <2>1. file[m]["impl"] = W /\ file[m]["hook"] = {} /\ {} # Missing /\ W # Missing
      BY <1>7, <2>0, KindFacts, TextFacts DEF Fitting, Says, Missing, Whole
  <2>2. \A i \in 1 .. 7 : i # 4 => file[m][Kinds[i]] = W
      BY <1>7, <2>0, KindPositions DEF Fitting, Says
  <2>3. next = 2 => want[m] = W \/ Keeps(m, Kinds[next])
    <3>1. CASE overwrite
        BY <1>1, <1>7, <2>0, <3>1, KindFacts DEF FilesInv
    <3>2. CASE ~overwrite
        BY <1>1, <2>1, <3>2, KindFacts DEF Keeps
    <3>3. QED
        BY <3>1, <3>2
  <2>4. /\ next # 4 => file'[m][Kinds[next]] = W
        /\ next = 4 => file'[m]["hook"] = {}
      BY <1>1, <1>7, <2>0, <2>1, <2>2, <2>3, TextWritten
  <2>5. file'[m][Kinds[next]] = file[m][Kinds[next]]
      BY <1>1, <2>1, <2>2, <2>4, KindFacts
  <2>6. \A k \in Kind : file'[m][k] = file[m][k]
      BY <1>1, <2>5
  <2>7. QED
      BY <1>7, <2>6, KindFacts DEF Fitting, Says
<1>8. CASE Partway(m)
  <2>0. PICK W0 \in SUBSET Method : W0 = want[m]
      BY <1>1
  <2>1. /\ next > 1 /\ file[m]["dao"] = W0
        /\ \A i \in 1 .. next - 1 : Says(m, Kinds[i], W0)
      BY <1>8, <2>0 DEF Partway
  <2>2. next > 2 => file[m]["impl"] = W0
      BY <1>1, <2>1, KindFacts DEF Says
  <2>3. next = 4 => file[m]["hook"] \in {Missing, {}}
      BY <1>1, <1>8, KindFacts DEF FilesInv, Undisturbed
  <2>4. ASSUME Keeps(m, Kinds[next]) => next = 4
        PROVE  file'[m][Kinds[next]] = IF next = 4 THEN {} ELSE W0
    <3>1. /\ next # 4 => file'[m][Kinds[next]] = W0
          /\ next = 4 => file'[m]["hook"] = {}
        BY <1>1, <2>0, <2>1, <2>2, <2>3, <2>4, TextWritten
    <3>2. QED
        BY <1>1, <3>1, KindFacts
  <2>5. CASE \A i \in next .. 7 : file[m][Kinds[i]] = Missing
    <3>1. ~Keeps(m, Kinds[next])
        BY <1>1, <2>5 DEF Keeps
    <3>2. file'[m][Kinds[next]] = IF next = 4 THEN {} ELSE W0
        BY <2>4, <3>1
    <3>3. \A i \in 1 .. next : Says(m, Kinds[i], W0)'
        BY <1>1, <1>3, <2>1, <3>2, KindPositions DEF Says
    <3>4. CASE next = 7
        BY <1>1, <2>1, <3>3, <3>4, KindFacts, TextFacts DEF Fitting, Says
    <3>5. CASE next < 7
      <4>1. \A i \in next' .. 7 : file'[m][Kinds[i]] = Missing
          BY <1>1, <1>2, <1>3, <2>5, <3>5
      <4>2. file'[m]["dao"] = W0
          BY <1>1, <3>3, KindFacts DEF Says
      <4>3. \A i \in 1 .. next' - 1 : Says(m, Kinds[i], W0)'
          BY <1>1, <1>2, <3>3, <3>5
      <4>4. QED
          BY <1>1, <1>2, <2>0, <2>1, <3>5, <4>1, <4>2, <4>3 DEF Partway
    <3>6. QED
        BY <1>1, <3>4, <3>5
  <2>6. CASE overwrite /\ \E W \in SUBSET Method : \A i \in next .. 7 : Says(m, Kinds[i], W)
    <3>1. PICK W \in SUBSET Method : \A i \in next .. 7 : Says(m, Kinds[i], W)
        BY <2>6
    <3>2. next # 4 => ~Keeps(m, Kinds[next])
        BY <1>1, <2>6, KindPositions DEF Keeps
    <3>3. file'[m][Kinds[next]] = IF next = 4 THEN {} ELSE W0
        BY <2>4, <3>2
    <3>4. \A i \in 1 .. next : Says(m, Kinds[i], W0)'
        BY <1>1, <1>3, <2>1, <3>3, KindPositions DEF Says
    <3>5. CASE next = 7
        BY <1>1, <2>1, <3>4, <3>5, KindFacts, TextFacts DEF Fitting, Says
    <3>6. CASE next < 7
      <4>1. \A i \in next' .. 7 : Says(m, Kinds[i], W)'
          BY <1>1, <1>2, <1>3, <3>1, <3>6 DEF Says
      <4>2. file'[m]["dao"] = W0
          BY <1>1, <3>4, KindFacts DEF Says
      <4>3. \A i \in 1 .. next' - 1 : Says(m, Kinds[i], W0)'
          BY <1>1, <1>2, <3>4, <3>6
      <4>4. QED
          BY <1>1, <1>2, <2>0, <2>1, <2>6, <3>6, <4>1, <4>2, <4>3 DEF Partway
    <3>7. QED
        BY <1>1, <3>5, <3>6
  <2>7. QED
      BY <1>8, <2>5, <2>6 DEF Partway
<1>9. QED
    BY <1>1, <1>4, <1>5, <1>6, <1>7, <1>8 DEF FilesInv

(* With --overwrite the file says what the schema asks for; in any case it *)
(* is there.                                                               *)
LEMMA WriteGoCurrent ==
  ASSUME EntTypeInv, RunInv, FilesInv, WriteGo, NEW m \in Model, m = Current
  PROVE  /\ \A i \in 1 .. next : file'[m][Kinds[i]] # Missing
         /\ overwrite => \A i \in 1 .. next : i # 4 => file'[m][Kinds[i]] = want[m]
         /\ file'[m]["hook"] \in {file[m]["hook"], {}}
         /\ m \in done => FALSE
<1>1. /\ pc = "dao" /\ m \in Declared /\ m \in todo /\ want[m] \in SUBSET Method
      /\ file'[m][Kinds[next]] = IF Keeps(m, Kinds[next]) THEN file[m][Kinds[next]]
                                 ELSE Rendered(m, Kinds[next])
      /\ \A j \in Kind \ {Kinds[next]} : file'[m][j] = file[m][j]
      /\ next \in 1 .. 7
      /\ Rendered(m, Kinds[next]) \in SUBSET Method
    BY WriteGoFacts, RenderedFacts, KindFacts DEF EntTypeInv, Declared
<1>2. \A i \in 1 .. 7 : i # next => file'[m][Kinds[i]] = file[m][Kinds[i]]
    BY <1>1, KindPositions
<1>3. file'[m][Kinds[next]] # Missing
    BY <1>1, TextFacts DEF Keeps, Whole
<1>4. ASSUME overwrite, next # 4 PROVE file'[m][Kinds[next]] = want[m]
  <2>1. CASE next = 1
      BY <1>1, <1>4, <2>1, KindFacts DEF Keeps, Rendered
  <2>2. CASE next > 1
    <3>1. file[m]["dao"] = want[m] /\ (next > 2 => file[m]["impl"] = want[m])
        BY <1>1, <1>4, <2>2, KindFacts DEF FilesInv
    <3>2. ~Keeps(m, Kinds[next])
        BY <1>1, <1>4, KindPositions DEF Keeps
    <3>3. QED
        BY <1>1, <1>4, <2>2, <3>1, <3>2, TextWritten
  <2>3. QED
      BY <1>1, <2>1, <2>2
<1>5. file'[m]["hook"] \in {file[m]["hook"], {}}
    BY <1>1, KindFacts DEF Rendered
<1>6. QED
    BY <1>1, <1>2, <1>3, <1>4, <1>5, KindPositions DEF FilesInv, RunInv

LEMMA WriteGoFiles ==
  ASSUME EntTypeInv, RunInv, FilesInv, WriteGo
  PROVE  FilesInv'
<1>1. PICK m \in Model : m = Current
    BY WriteGoFacts
<1>2. /\ pc = "dao" /\ m \in todo /\ next \in 1 .. 7
      /\ \A n \in Model \ {m} : file'[n] = file[n]
      /\ UNCHANGED <<want, history, overwrite>>
    BY <1>1, WriteGoFacts, KindFacts DEF WriteGo, EntTypeInv
<1>3. \/ next < 7 /\ next' = next + 1 /\ UNCHANGED <<todo, done, pc>> /\ Current' = m
      \/ next = 7 /\ next' = 1 /\ done' = done \cup {m}
    BY <1>1, <1>2, KindFacts DEF WriteGo, Current
<1>4. Undisturbed' = Undisturbed
    BY <1>2 DEF Undisturbed
<1>5. \A n \in Undisturbed' : Absent(n)' \/ Fitting(n)' \/ Partway(n)'
  <2>1. SUFFICES ASSUME NEW n \in Undisturbed PROVE Absent(n)' \/ Fitting(n)' \/ Partway(n)'
      BY <1>4
  <2>2. CASE n = m
      BY <1>1, <2>2, WriteGoUndisturbed
  <2>3. CASE n # m
    <3>1. file'[n] = file[n] /\ ~Partway(n)
        BY <1>1, <1>2, <2>3 DEF Undisturbed, Partway
    <3>2. QED
        BY <3>1 DEF FilesInv, Absent, Fitting, Says
  <2>4. QED
      BY <2>2, <2>3
<1>6. /\ \A i \in 1 .. next : file'[m][Kinds[i]] # Missing
      /\ overwrite => \A i \in 1 .. next : i # 4 => file'[m][Kinds[i]] = want[m]
      /\ file'[m]["hook"] \in {file[m]["hook"], {}}
      /\ m \notin done
    BY <1>1, WriteGoCurrent
<1>7. \A n \in Model : \/ file'[n]["hook"] \in {Missing, {}}
                       \/ file'[n]["hook"] = TornGo /\ n \in history'.cut
    BY <1>2, <1>6 DEF FilesInv
<1>8. done \subseteq Model
    BY DEF RunInv, Declared
<1>9. CASE next < 7
    BY <1>2, <1>3, <1>5, <1>6, <1>7, <1>8, <1>9, KindPositions DEF FilesInv
<1>10. CASE next = 7
  <2>1. /\ \A k \in Kind : file'[m][k] # Missing
        /\ overwrite => \A k \in Kind \ {"hook"} : file'[m][k] = want[m]
      BY <1>6, <1>10, KindFacts
  <2>2. /\ \A n \in done' : \A k \in Kind : file'[n][k] # Missing
        /\ overwrite => \A n \in done' : \A k \in Kind \ {"hook"} : file'[n][k] = want[n]
      BY <1>2, <1>3, <1>6, <1>8, <1>10, <2>1 DEF FilesInv
  <2>3. 1 .. next' - 1 = {}
      BY <1>3, <1>10
  <2>4. QED
      BY <1>2, <1>5, <1>7, <2>2, <2>3 DEF FilesInv
<1>11. QED
    BY <1>2, <1>9, <1>10

LEMMA StopGoFiles ==
  ASSUME EntTypeInv, RunInv, FilesInv, StopGo
  PROVE  FilesInv'
<1>1. PICK m \in Model : m = Current
    BY StopGoFacts DEF EntTypeInv
<1>2. /\ m \in todo /\ \A n \in Model \ {m} : file'[n] = file[n]
      /\ next' = 1 /\ done' = {} /\ pc' = "idle"
      /\ history'.cut = history.cut \cup fresh \cup {n \in todo : n = Current}
      /\ history'.touched = history.touched
    BY <1>1, StopGoFacts, CutShortTypes
<1>3. m \in history'.cut /\ m \notin Undisturbed' /\ Undisturbed' \subseteq Undisturbed
    BY <1>1, <1>2 DEF Undisturbed
<1>4. file'[m]["hook"] \in {file[m]["hook"], TornGo}
    BY <1>1, KindFacts DEF StopGo, EntTypeInv
<1>5. \A n \in Model : \/ file'[n]["hook"] \in {Missing, {}}
                       \/ file'[n]["hook"] = TornGo /\ n \in history'.cut
    BY <1>2, <1>3, <1>4 DEF FilesInv
<1>6. ASSUME NEW n \in Undisturbed' PROVE Absent(n)' \/ Fitting(n)'
  <2>1. n \in Undisturbed /\ file'[n] = file[n] /\ ~Partway(n)
      BY <1>1, <1>2, <1>3, <1>6 DEF Undisturbed, Partway
  <2>2. QED
      BY <2>1 DEF FilesInv, Absent, Fitting, Says
<1>7. QED
    BY <1>2, <1>5, <1>6 DEF FilesInv

LEMMA EntFilesStep ==
  ASSUME EntTypeInv, RunInv, FilesInv, [Next]_vars
  PROVE  FilesInv'
<1>1. ASSUME UNCHANGED <<want, file, pc, todo, next, overwrite, done>>,
             UNCHANGED <<history.cut, history.touched>>
      PROVE  FilesInv'
  <2>1. Undisturbed' = Undisturbed /\ Current' = Current
      BY <1>1 DEF Undisturbed, Current
  <2>2. \A m \in Model : /\ Absent(m)' <=> Absent(m)
                         /\ Fitting(m)' <=> Fitting(m)
                         /\ Partway(m)' <=> Partway(m)
      BY <1>1, <2>1 DEF Absent, Fitting, Partway, Says
  <2>3. \A m \in Undisturbed' : Absent(m)' \/ Fitting(m)' \/ Partway(m)'
      BY <2>1, <2>2 DEF FilesInv, Undisturbed
  <2>4. QED
      BY <1>1, <2>1, <2>3 DEF FilesInv
<1>2. CASE UNCHANGED vars
    BY <1>1, <1>2 DEF vars, diskVars, runVars
<1>3. ASSUME NEW S, NEW o, Start(S, o) PROVE FilesInv'
    BY <1>3, FilesKept DEF Start, diskVars, RunInv
<1>4. CASE WriteGo
    BY <1>4, WriteGoFiles
<1>5. CASE StopGo
    BY <1>5, StopGoFiles
<1>6. CASE EnsureEntInfra \/ Snapshot \/ Plan
    BY <1>6, FilesKept DEF EnsureEntInfra, Snapshot, Plan, diskVars, RunInv
<1>7. ASSUME CutShort, file' = file, pc # "dao" PROVE FilesInv'
    BY <1>7, FilesKept, CutShortTypes
<1>8. ASSUME NEW m \in Model, Look(m) \/ Commit(m) PROVE FilesInv'
    BY <1>8, FilesKept DEF Look, Commit, diskVars, RunInv
<1>9. ASSUME Dropping PROVE UNCHANGED <<history.cut, history.touched>>
    BY <1>9 DEF Dropping, EntTypeInv, History
<1>10. CASE GenDaoErrcodeAll
    BY <1>9, <1>10, FilesKept DEF GenDaoErrcodeAll, diskVars, RunInv
<1>11. CASE StopCodes
  <2>1. file' = file /\ pc # "dao" /\ next' = 1 /\ done' = {} /\ Dropping
      BY <1>11 DEF StopCodes, diskVars, End
  <2>2. QED
      BY <1>9, <2>1, FilesKept
<1>12. CASE AppendI18n
  <2>1. /\ file' = file /\ pc # "dao" /\ next' = 1 /\ UNCHANGED <<want, history>>
        /\ IF result = "warned" THEN done' = {}
           ELSE UNCHANGED done /\ (overwrite' => overwrite)
      BY <1>12 DEF AppendI18n, diskVars, End
  <2>2. QED
      BY <2>1, FilesKept
<1>13. ASSUME Edits, pc = "idle" PROVE next' = 1 /\ done' = {} /\ ~overwrite'
    BY <1>13 DEF Edits, End
<1>14. ASSUME NEW m \in Model, NEW W, EditSchema(m, W) PROVE FilesInv'
  <2>1. next' = 1 /\ done' = {} /\ UNCHANGED <<file, history>> /\ pc # "dao"
      BY <1>13, <1>14 DEF EditSchema
  <2>2. QED
      BY <2>1, FilesKept
<1>15. ASSUME Edits, pc = "idle", NEW m \in Model, \A n \in Model \ {m} : file'[n] = file[n],
              \/ file'[m]["hook"] = Missing
              \/ file'[m]["hook"] = file[m]["hook"] /\ history.cut \subseteq history'.cut,
              m \in Undisturbed' => Absent(m)',
              history.cut \ {m} \subseteq history'.cut, history.touched \ {m} \subseteq history'.touched
       PROVE  FilesInv'
  <2>1. next' = 1 /\ done' = {} /\ ~overwrite'
      BY <1>13, <1>15
  <2>2. \A n \in Model : \/ file'[n]["hook"] \in {Missing, {}}
                         \/ file'[n]["hook"] = TornGo /\ n \in history'.cut
      BY <1>15 DEF FilesInv
  <2>3. ASSUME NEW n \in Undisturbed' PROVE Absent(n)' \/ Fitting(n)'
    <3>1. CASE n = m
        BY <1>15, <2>3, <3>1
    <3>2. CASE n # m
      <4>1. n \in Undisturbed /\ file'[n] = file[n] /\ ~Partway(n)
          BY <1>15, <2>3, <3>2 DEF Undisturbed, Partway
      <4>2. QED
          BY <4>1 DEF FilesInv, Absent, Fitting, Says
    <3>3. QED
        BY <3>1, <3>2
  <2>4. QED
      BY <2>1, <2>2, <2>3 DEF FilesInv
<1>16. ASSUME NEW m \in Model, NEW W \in SUBSET Method, EditDao(m, W) PROVE FilesInv'
  <2>1. /\ Edits /\ pc = "idle"
        /\ \A n \in Model \ {m} : file'[n] = file[n]
        /\ file'[m]["hook"] = file[m]["hook"]
      BY <1>16, KindFacts DEF EditDao, EntTypeInv
  <2>2. history'.cut = history.cut /\ history'.touched = history.touched \cup {m}
      BY <1>16 DEF EditDao, EntTypeInv, History
  <2>3. m \notin Undisturbed'
      BY <2>2 DEF Undisturbed
  <2>4. QED
      BY <1>15, <2>1, <2>2, <2>3
<1>17. ASSUME NEW m \in Model, DeleteGo(m) PROVE FilesInv'
  <2>1. /\ Edits /\ pc = "idle"
        /\ \A n \in Model \ {m} : file'[n] = file[n]
        /\ Absent(m)' /\ file'[m]["hook"] = Missing
      BY <1>17, KindFacts DEF DeleteGo, EntTypeInv, Absent
  <2>2. history'.cut = history.cut \ {m} /\ history'.touched = history.touched \ {m}
      BY <1>17 DEF DeleteGo, EntTypeInv, History
  <2>3. QED
      BY <1>15, <2>1, <2>2
<1>18. ASSUME NEW m \in Model, WriteProto(m) \/ DeleteProto(m) PROVE FilesInv'
  <2>1. UNCHANGED <<file, want>> /\ UNCHANGED <<history.cut, history.touched>>
    <3>1. CASE WriteProto(m)
        BY <3>1 DEF WriteProto, EntTypeInv, History
    <3>2. CASE DeleteProto(m)
        BY <3>2 DEF DeleteProto, EntTypeInv, History
    <3>3. QED
        BY <1>18, <3>1, <3>2
  <2>2. Edits
      BY <1>18 DEF WriteProto, DeleteProto
  <2>3. CASE pc = "idle"
    <3>1. next' = 1 /\ done' = {} /\ pc # "dao"
        BY <1>13, <2>2, <2>3
    <3>2. QED
        BY <2>1, <3>1, FilesKept
  <2>4. CASE pc # "idle"
      BY <1>1, <2>1, <2>2, <2>4 DEF Edits, runVars
  <2>5. QED
      BY <2>3, <2>4
<1>19. ASSUME NEW m \in Model, WriteMessage(m) PROVE FilesInv'
    BY <1>1, <1>19 DEF WriteMessage, diskVars, runVars
<1>20. CASE Run
  <2>1. StopInfra \/ StopPlan \/ (\E m \in Model : FailCommit(m) \/ StopCommit(m))
          => CutShort /\ file' = file /\ pc # "dao"
      BY DEF StopInfra, StopPlan, FailCommit, StopCommit, RunInv, diskVars
  <2>2. QED
      BY <1>3, <1>4, <1>5, <1>6, <1>7, <1>8, <1>10, <1>11, <1>12, <1>20, <2>1 DEF Run
<1>21. CASE Develop
    BY <1>14, <1>16, <1>17, <1>18, <1>19, <1>21 DEF Develop
<1>22. QED
    BY <1>2, <1>20, <1>21 DEF Next

LEMMA EntWiredStep ==
  ASSUME EntTypeInv, RunInv, WiredInv, [Next]_vars
  PROVE  WiredInv'
<1> DEFINE Wired == (pc \in {"snapshot", "plan", "commit", "i18n"} /\ result # "warned")
                      \/ result = "ok"
<1>1. ASSUME UNCHANGED <<file, wired>>, Wired' => Wired PROVE WiredInv'
    BY <1>1 DEF WiredInv
<1>2. ASSUME ~Wired' PROVE WiredInv'
    BY <1>2 DEF WiredInv
<1>3. CASE UNCHANGED vars
    BY <1>1, <1>3 DEF vars, diskVars, runVars
<1>4. ASSUME NEW S, NEW o, Start(S, o) PROVE WiredInv'
    BY <1>2, <1>4 DEF Start
<1>5. CASE WriteGo
  <2>1. pc = "dao" /\ pc' \in {"dao", "infra"} /\ result' = result
      BY <1>5 DEF WriteGo
  <2>2. QED
      BY <1>2, <2>1 DEF RunInv
<1>6. CASE EnsureEntInfra
  <2>1. CASE wired' = WithInterface /\ file' = file
      BY <2>1 DEF WiredInv, WithInterface
  <2>2. CASE wired' = TornGo
      BY <2>2, TornFacts DEF WiredInv, TornGo
  <2>3. CASE result' = "warned"
      BY <2>3 DEF WiredInv
  <2>4. QED
      BY <1>6, <2>1, <2>2, <2>3 DEF EnsureEntInfra
<1>7. CASE Snapshot \/ Plan
    BY <1>1, <1>7 DEF Snapshot, Plan, diskVars
<1>8. ASSUME CutShort PROVE WiredInv'
    BY <1>2, <1>8 DEF CutShort, End
<1>9. ASSUME NEW m \in Model, Look(m) \/ Commit(m) PROVE WiredInv'
    BY <1>1, <1>9 DEF Look, Commit, diskVars
<1>10. CASE GenDaoErrcodeAll
    BY <1>1, <1>10 DEF GenDaoErrcodeAll, diskVars
<1>11. CASE StopCodes
    BY <1>2, <1>11 DEF StopCodes, End
<1>12. CASE AppendI18n
    BY <1>1, <1>12 DEF AppendI18n, End, diskVars
<1>13. ASSUME Edits, pc = "idle" PROVE WiredInv'
    BY <1>2, <1>13 DEF Edits, End
<1>14. ASSUME NEW m \in Model, WriteProto(m) PROVE WiredInv'
    BY <1>1, <1>13, <1>14 DEF WriteProto, Edits, runVars
<1>15. ASSUME NEW m \in Model, WriteMessage(m) PROVE WiredInv'
    BY <1>1, <1>15 DEF WriteMessage, diskVars, runVars
<1>16. CASE Run
  <2>1. StopGo \/ StopInfra \/ StopPlan \/ (\E m \in Model : FailCommit(m) \/ StopCommit(m))
          => CutShort
      BY DEF StopGo, StopInfra, StopPlan, FailCommit, StopCommit
  <2>2. QED
      BY <1>4, <1>5, <1>6, <1>7, <1>8, <1>9, <1>10, <1>11, <1>12, <1>16, <2>1 DEF Run
<1>17. CASE Develop
  <2>1. \/ Edits /\ pc = "idle"
        \/ \E m \in Model : WriteProto(m) \/ WriteMessage(m)
      BY <1>17 DEF Develop, EditSchema, EditDao, DeleteGo, DeleteProto
  <2>2. QED
      BY <1>13, <1>14, <1>15, <2>1
<1>18. QED
    BY <1>3, <1>16, <1>17 DEF Next

-----------------------------------------------------------------------------
(* The theorems.                                                           *)

EntInv == EntTypeInv /\ RunInv /\ DescInv /\ CodesInv /\ FilesInv /\ WiredInv

LEMMA EntInitInv == Init => EntInv
BY EntInitTypes, EntInitRun, EntInitDesc, EntInitCodes, EntInitFiles DEF EntInv

LEMMA EntStepInv == EntInv /\ [Next]_vars => EntInv'
BY EntTypeStep, EntRunStep, EntDescStep, EntCodesStep, EntFilesStep, EntWiredStep DEF EntInv

(* What the theorems below rest on: every state that runs of zctl and the  *)
(* developer reach has the invariants of a run (GenEntLogic).              *)
THEOREM EntInvariant == Spec => []EntInv
BY EntInitInv, EntStepInv, PTL DEF Spec

(* GenEntLogic: no run writes over a proto of the developer but one that   *)
(* appeared after commit had looked for it, and a rollback removes none    *)
(* that was there when phase B began.                                      *)
THEOREM RunsKeepEveryProto == Spec => RunsKeepProtos
<1> DEFINE Kept == \A m \in Model :
             /\ desc[m] = "user" =>
                  desc'[m] \in {"user", "none"} \/ m \in writing \cap history.late
             /\ m \in before => desc'[m] \in {desc[m], "user"}
<1>1. EntInv /\ [Next]_vars => [Kept]_vars
    BY EntKeepsProtos DEF EntInv
<1>2. QED
    BY <1>1, EntInvariant, PTL DEF Spec, RunsKeepProtos

(* A run that reported success leaves a schema without its proto only if a *)
(* run over it was cut short, the developer deleted it, or a rollback took *)
(* it (descPlan, fileTracker).                                             *)
THEOREM ProtosAreNotForgotten == Spec => []ProtoOnlyLostToCut
<1>1. EntInv => ProtoOnlyLostToCut
    BY KindFacts DEF EntInv, RunInv, DescInv, FilesInv, Lost, Pending, Declared, ProtoOnlyLostToCut
<1>2. QED
    BY <1>1, EntInvariant, PTL

(* With --overwrite a run that reported success leaves seven files that    *)
(* fit each other for each of its schemas (generateSchemaPhaseA).          *)
THEOREM OverwritingRepairs == Spec => []OverwriteRepairs
<1>1. ASSUME EntInv, result = "ok", overwrite, NEW m \in done
      PROVE  Compiles(m) \/ (file[m]["hook"] = TornGo /\ m \in history.cut)
  <2>1. m \in Declared /\ m \in Model /\ want[m] \in SUBSET Method
      BY <1>1 DEF EntInv, RunInv, EntTypeInv, Declared
  <2>2. \A k \in Kind \ {"hook"} : file[m][k] = want[m]
      BY <1>1 DEF EntInv, FilesInv
  <2>3. codes[m] # NoSegment
      BY <1>1, <2>1 DEF EntInv, CodesInv
  <2>4. SUFFICES ASSUME file[m]["hook"] = {} PROVE Compiles(m)
      BY <1>1, <2>1, KindFacts DEF EntInv, FilesInv
  <2>5. \A k \in Kind : Whole(file[m][k])
      BY <2>1, <2>2, <2>4, TextFacts
  <2>6. QED
      BY <2>2, <2>3, <2>5, KindFacts DEF Compiles
<1>2. EntInv => OverwriteRepairs
    BY <1>1 DEF OverwriteRepairs
<1>3. QED
    BY <1>2, EntInvariant, PTL

(* After a run that reported success the models that ServiceContext        *)
(* constructs compile, unless a run stopped in the middle of them or their *)
(* dao was edited by hand (GenEntLogic, EnsureEntInfra).                   *)
THEOREM WiredModelsCompile == Spec => []WiredCompiles
<1>1. ASSUME EntInv, result = "ok", NEW m \in wired \cap Declared,
             m \notin history.cut \cup history.touched
      PROVE  Compiles(m)
  <2>1. m \in Undisturbed /\ Whole(file[m]["dao"]) /\ codes[m] # NoSegment /\ pc = "idle"
      BY <1>1 DEF EntInv, WiredInv, CodesInv, RunInv, Undisturbed, Declared
  <2>2. Fitting(m)
      BY <1>1, <2>1, KindFacts DEF EntInv, FilesInv, Absent, Partway, Whole
  <2>3. \A k \in Kind : file[m][k] = IF k = "hook" THEN {} ELSE file[m]["dao"]
      BY <2>2 DEF Fitting, Says
  <2>4. \A k \in Kind : Whole(file[m][k])
      BY <2>1, <2>3, TextFacts
  <2>5. QED
      BY <2>1, <2>3, <2>4, KindFacts DEF Compiles
<1>2. EntInv => WiredCompiles
    BY <1>1 DEF WiredCompiles
<1>3. QED
    BY <1>2, EntInvariant, PTL

(* Two models never share a segment, and a code shows the message that was *)
(* written for it, of another model only if that one lost its segment      *)
(* (genDaoErrcodeAll, mergeI18nCodes).                                     *)
THEOREM MessagesFollowTheirCodes == Spec => []MessagesFollowCodes
<1>1. \A s \in Segment : s # NoSegment
    BY DEF Segment, NoSegment
<1>2. EntInv => MessagesFollowCodes
    BY <1>1 DEF EntInv, CodesInv, MessagesFollowCodes
<1>3. QED
    BY <1>2, EntInvariant, PTL
=============================================================================
