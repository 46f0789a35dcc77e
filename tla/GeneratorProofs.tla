--------------------------- MODULE GeneratorProofs ---------------------------
(***************************************************************************)
(* Proofs about what zctl writes: SqlModel, RepoPlan, DescPlan,            *)
(* ApiGoProject, DaoSql; and about the reading of an api file: ApiScanner, *)
(* for every text, and ApiAnalyzer, for any declarations.                  *)
(***************************************************************************)
EXTENDS SqlModel, RepoPlan, DescPlan, ApiGoProject, DaoSql, ApiScanner, ApiAnalyzer, SequenceFacts,
        FiniteSetTheorems, TLAPS

CallSteps == {"find", "findUnique", "before", "fill", "fillBefore", "fillUnique", "clear"} \cup Writes
Pending == [step : CallSteps, op : {"find", "findUnique"} \cup Writes, p : Primary, u : Unique,
            data : Entry(Primary) \cup Entry(Unique)]
ModelTypes ==
  /\ table \in [unique : BOOLEAN, auto : BOOLEAN]
  /\ rows \in [Primary -> Entry(Unique)]
  /\ byPrimary \in [Primary -> {Cold} \cup Entry(Unique)]
  /\ byUnique \in [Unique -> {Cold} \cup Entry(Primary)]
  /\ call \in [Caller -> {Idle} \cup Pending]
  /\ modelCalls \in Nat /\ overlapped \in BOOLEAN /\ unswept \subseteq Primary

(* Where a call of an operation can be, and what it carries there.         *)
CallFits(x) ==
  /\ x.step \in {"find", "fill"} => x.op \in {"find", "findUnique"}
  /\ x.step \in {"findUnique", "fillUnique"} => x.op = "findUnique" /\ table.unique
  /\ x.step \in {"before", "fillBefore"} => x.op \in {"update", "delete"} /\ table.unique
  /\ x.step \in Writes => x.step = x.op
  /\ x.step = "clear" => x.op \in Writes
  /\ x.step = "fillUnique" => x.data \in Entry(Primary)
  /\ x.step \in {"fill", "fillBefore"} => x.data \in Entry(Unique)
  /\ x.op \in {"update", "delete"} /\ x.step \in {"update", "delete", "clear"} /\ table.unique =>
       x.data \in {Known(v) : v \in Unique}
CallsFit == \A c \in Caller : call[c] # Idle => CallFits(call[c])

(* The ddl is settled before the first call, and a table without a unique  *)
(* key never caches one.                                                   *)
DdlFirst ==
  /\ modelCalls = 0 =>
       (\A c \in Caller : call[c] = Idle) /\ (\A p \in Primary : byPrimary[p] = Cold)
  /\ modelCalls = 0 \/ ~table.unique => \A u \in Unique : byUnique[u] = Cold

(* Without an overlap: a call that writes is alone; what a call has read   *)
(* is still what the table holds; and each cached entry is current or its  *)
(* key waits to be deleted; all that but for the rows that a call wrote    *)
(* and whose keys it left.                                                 *)
WritesAlone ==
  \A c, d \in Caller : c # d /\ call[c] # Idle /\ call[c].op \in Writes => call[d] = Idle
ReadsAreCurrent ==
  \A c \in Caller :
    /\ call[c].step \in {"fill", "fillBefore"} => call[c].data = rows[call[c].p]
    /\ call[c].step \in {"update", "delete"} /\ table.unique /\ call[c].p \notin unswept =>
         call[c].data = rows[call[c].p]
    /\ call[c].step = "fillUnique" /\ call[c].data # Absent =>
         rows[call[c].data.value] = Known(call[c].u)
PrimaryCurrent(p) ==
  \/ p \in unswept
  \/ \E c \in Caller : call[c].step = "clear" /\ p \in PrimaryKeys(c)
  \/ byPrimary[p] \in {Cold, rows[p]}
  \/ byPrimary[p] = Absent /\ table.auto
UniqueCurrent(u) ==
  \/ \E c \in Caller : call[c].step = "clear" /\ u \in UniqueKeys(c) /\ byUnique[u].value = call[c].p
  \/ byUnique[u] \in {Cold, Absent}
  \/ byUnique[u].value \in unswept
  \/ rows[byUnique[u].value] = Known(u)
CacheIsCurrent == (\A p \in Primary : PrimaryCurrent(p)) /\ (\A u \in Unique : UniqueCurrent(u))

ModelInv ==
  /\ ModelTypes /\ CallsFit /\ DdlFirst
  /\ overlapped \/ (WritesAlone /\ ReadsAreCurrent /\ CacheIsCurrent)

LEMMA EntryFacts ==
  /\ Cold # Absent
  /\ \A v : Known(v) # Cold /\ Known(v) # Absent /\ Known(v).value = v
  /\ \A v, w : Known(v) = Known(w) => v = w
  /\ \A S : Absent \in Entry(S) /\ \A v \in S : Known(v) \in Entry(S)
  /\ \A S : \A e \in Entry(S) : e = Absent \/ \E v \in S : e = Known(v)
BY DEF Cold, Absent, Known, Entry

LEMMA PendingFacts ==
  /\ Idle \notin Pending /\ Idle.step = "idle"
  /\ \A x \in Pending : x.step \in CallSteps /\ x # Idle
BY DEF Pending, Idle, CallSteps, Writes

LEMMA ModelInitInv == SqlModelInit => ModelInv
<1> SUFFICES ASSUME SqlModelInit PROVE ModelInv
  OBVIOUS
<1> USE DEF SqlModelInit
<1>1. ModelTypes
  BY EntryFacts DEF ModelTypes
<1>2. CallsFit /\ DdlFirst
  BY DEF CallsFit, DdlFirst
<1>3. WritesAlone /\ ReadsAreCurrent /\ CacheIsCurrent
  BY PendingFacts DEF WritesAlone, ReadsAreCurrent, CacheIsCurrent, PrimaryCurrent, UniqueCurrent
<1> QED
  BY <1>1, <1>2, <1>3 DEF ModelInv

LEMMA DeclareInv ==
  ASSUME ModelInv, NEW t \in [unique : BOOLEAN, auto : BOOLEAN], Declare(t)
  PROVE ModelInv'
<1> USE DEF ModelInv, Declare
<1>1. ModelTypes'
  BY DEF ModelTypes
<1>2. CallsFit' /\ DdlFirst'
  BY DEF CallsFit, DdlFirst
<1>3. overlapped' \/ (WritesAlone /\ ReadsAreCurrent /\ CacheIsCurrent)'
  BY PendingFacts DEF ModelTypes, DdlFirst, WritesAlone, ReadsAreCurrent, CacheIsCurrent,
       PrimaryCurrent, UniqueCurrent
<1> QED
  BY <1>1, <1>2, <1>3

LEMMA BeginInv ==
  ASSUME ModelInv, NEW c \in Caller, NEW op \in {"find", "findUnique"} \cup Writes,
         NEW p \in Primary, NEW u \in Unique, Begin(c, op, p, u)
  PROVE ModelInv'
<1> DEFINE x == [step |-> IF op \in {"update", "delete"} /\ table.unique THEN "before" ELSE op,
                 op |-> op, p |-> p, u |-> u, data |-> Absent]
<1>1. call[c] = Idle /\ call' = [call EXCEPT ![c] = x]
  BY DEF Begin, Then
<1>2. /\ UNCHANGED <<table, rows, byPrimary, byUnique, unswept>>
      /\ modelCalls' = modelCalls + 1
      /\ op = "findUnique" => table.unique
      /\ overlapped' = (overlapped \/ \E d \in Caller \ {c} :
                           call[d] # Idle /\ {op, call[d].op} \cap Writes # {})
  BY DEF Begin
<1>3. x \in Pending
  BY EntryFacts DEF Pending, CallSteps, Writes
<1>4. ModelTypes'
  BY <1>1, <1>2, <1>3 DEF ModelInv, ModelTypes
<1>5. \A d \in Caller : call'[d] = IF d = c THEN x ELSE call[d]
  BY <1>1 DEF ModelInv, ModelTypes
<1>6. CallsFit'
  <2>1. CallFits(x)'
    BY <1>2 DEF CallFits, Writes
  <2> QED
    BY <2>1, <1>5, <1>2 DEF ModelInv, CallsFit, CallFits
<1>7. DdlFirst'
  BY <1>2 DEF ModelInv, DdlFirst, ModelTypes
<1>8. ASSUME ~overlapped' PROVE (WritesAlone /\ ReadsAreCurrent /\ CacheIsCurrent)'
  <2>1. WritesAlone /\ ReadsAreCurrent /\ CacheIsCurrent
    BY <1>8, <1>2 DEF ModelInv
  <2>2. WritesAlone'
    <3>1. \A d \in Caller \ {c} : call[d] # Idle => op \notin Writes /\ call[d].op \notin Writes
      BY <1>8, <1>2
    <3>2. x.op = op /\ call'[c] = x
      BY <1>5
    <3> QED
      BY <3>1, <3>2, <2>1, <1>5 DEF WritesAlone
  <2>3. ReadsAreCurrent'
    <3>1. x.step \notin {"fill", "fillBefore", "fillUnique"}
          /\ (x.step \in {"update", "delete"} => ~table.unique)
      BY DEF Writes
    <3> QED
      BY <3>1, <2>1, <1>2, <1>5 DEF ReadsAreCurrent
  <2>4. CacheIsCurrent'
    <3>1. \A d \in Caller : call[d].step = "clear" => d # c /\ call'[d] = call[d]
      BY <1>1, <1>5, PendingFacts
    <3> QED
      BY <3>1, <2>1, <1>2, <1>5 DEF CacheIsCurrent, PrimaryCurrent, UniqueCurrent, PrimaryKeys, UniqueKeys
  <2> QED
    BY <2>2, <2>3, <2>4
<1> QED
  BY <1>4, <1>6, <1>7, <1>8 DEF ModelInv

(* What the rest of a call does to calls: it goes on in place of itself.   *)
LEMMA GoesOn ==
  ASSUME ModelInv, NEW c \in Caller, call[c] # Idle, NEW x \in {Idle} \cup Pending,
         call' = [call EXCEPT ![c] = x]
  PROVE  /\ call' \in [Caller -> {Idle} \cup Pending]
         /\ \A d \in Caller : call'[d] = IF d = c THEN x ELSE call[d]
         /\ modelCalls # 0
         /\ call[c] \in Pending
         /\ CallFits(call[c])
BY DEF ModelInv, ModelTypes, DdlFirst, CallsFit

(* A step of a call that stays what it was, or ends, leaves the others to  *)
(* what they may assume.                                                   *)
LEMMA StillAlone ==
  ASSUME ModelInv, NEW c \in Caller, call[c] # Idle, NEW x \in {Idle} \cup Pending,
         call' = [call EXCEPT ![c] = x], x # Idle => x.op = call[c].op, WritesAlone
  PROVE  WritesAlone'
BY GoesOn DEF WritesAlone

(* A step that reads only.                                                 *)
LEMMA ReadStepInv ==
  ASSUME ModelInv, NEW c \in Caller, call[c] # Idle, NEW x \in {Idle} \cup Pending,
         call' = [call EXCEPT ![c] = x],
         x # Idle => x.op = call[c].op /\ x.step # "clear" /\ CallFits(x),
         UNCHANGED <<table, rows, byPrimary, byUnique, modelCalls, overlapped, unswept>>,
         call[c].step # "clear",
         ~overlapped =>
           /\ x.step \in {"fill", "fillBefore"} => x.data = rows[x.p]
           /\ x.step \in {"update", "delete"} /\ table.unique /\ x.p \notin unswept =>
                x.data = rows[x.p]
           /\ x.step = "fillUnique" /\ x.data # Absent => rows[x.data.value] = Known(x.u)
  PROVE  ModelInv'
<1>1. ModelTypes'
  BY GoesOn DEF ModelInv, ModelTypes
<1>2. CallsFit'
  BY GoesOn DEF ModelInv, CallsFit, CallFits
<1>3. DdlFirst'
  BY GoesOn DEF ModelInv, DdlFirst
<1>4. ASSUME ~overlapped' PROVE (WritesAlone /\ ReadsAreCurrent /\ CacheIsCurrent)'
  <2>1. WritesAlone /\ ReadsAreCurrent /\ CacheIsCurrent /\ ~overlapped
    BY <1>4 DEF ModelInv
  <2>2. WritesAlone'
    BY <2>1, StillAlone
  <2>3. ReadsAreCurrent'
    BY <2>1, GoesOn DEF ReadsAreCurrent
  <2>4. CacheIsCurrent'
    <3>1. \A d \in Caller : call[d].step = "clear" => d # c /\ call'[d] = call[d]
      BY GoesOn
    <3> QED
      BY <3>1, <2>1, GoesOn DEF CacheIsCurrent, PrimaryCurrent, UniqueCurrent, PrimaryKeys, UniqueKeys
  <2> QED
    BY <2>2, <2>3, <2>4
<1> QED
  BY <1>1, <1>2, <1>3, <1>4 DEF ModelInv

LEMMA FindHitInv ==
  ASSUME ModelInv, NEW c \in Caller, FindHit(c)
  PROVE ModelInv'
<1> DEFINE row == byPrimary[call[c].p]
           x == AfterFind(c, row)
<1>1. call[c] # Idle /\ call[c].step \in {"find", "before"} /\ row # Cold
  BY PendingFacts DEF FindHit
<1>2. call' = [call EXCEPT ![c] = x]
      /\ UNCHANGED <<table, rows, byPrimary, byUnique, modelCalls, overlapped, unswept>>
  BY DEF FindHit, Then
<1>3. call[c] \in Pending /\ CallFits(call[c])
  BY <1>1 DEF ModelInv, ModelTypes, CallsFit
<1>4. call[c].p \in Primary /\ row \in Entry(Unique)
  BY <1>1, <1>3 DEF ModelInv, ModelTypes, Pending
<1>5. CASE call[c].step # "before" \/ row = Absent
  <2>1. x = Idle
    BY <1>5 DEF AfterFind
  <2> HIDE DEF x
  <2> QED
    BY <2>1, <1>1, <1>2, ReadStepInv, PendingFacts
<1>6. CASE call[c].step = "before" /\ row # Absent
  <2>1. x = [call[c] EXCEPT !.step = call[c].op, !.data = row]
    BY <1>6 DEF AfterFind
  <2>2. call[c].op \in {"update", "delete"} /\ table.unique
    BY <1>3, <1>6 DEF CallFits
  <2>3. x \in Pending /\ x.op = call[c].op /\ x.step = call[c].op /\ x.data = row /\ x.p = call[c].p
    BY <2>1, <2>2, <1>3, <1>4 DEF Pending, CallSteps, Writes
  <2>4. row \in {Known(v) : v \in Unique}
    BY <1>4, <1>6, EntryFacts
  <2>5. CallFits(x)
    BY <2>2, <2>3, <2>4 DEF CallFits, Writes
  <2>6. ~overlapped /\ call[c].p \notin unswept => row = rows[call[c].p]
    <3>1. SUFFICES ASSUME ~overlapped, call[c].p \notin unswept PROVE row = rows[call[c].p]
      OBVIOUS
    <3>2. \A d \in Caller : call[d].step # "clear"
      <4>1. \A d \in Caller : d # c => call[d] = Idle
        BY <3>1, <2>2, <1>1 DEF ModelInv, WritesAlone, Writes
      <4> QED
        BY <4>1, <1>1, PendingFacts
    <3> QED
      BY <3>1, <3>2, <1>1, <1>4, <1>6 DEF ModelInv, CacheIsCurrent, PrimaryCurrent
  <2> HIDE DEF x, row
  <2> QED
    BY <2>2, <2>3, <2>5, <2>6, <1>1, <1>2, ReadStepInv, PendingFacts
<1> QED
  BY <1>5, <1>6

LEMMA FindMissInv ==
  ASSUME ModelInv, NEW c \in Caller, FindMiss(c)
  PROVE ModelInv'
<1> DEFINE x == [call[c] EXCEPT !.step = IF @ = "find" THEN "fill" ELSE "fillBefore",
                                !.data = rows[call[c].p]]
<1>1. call[c] # Idle /\ call[c].step \in {"find", "before"}
  BY PendingFacts DEF FindMiss
<1>2. call' = [call EXCEPT ![c] = x]
      /\ UNCHANGED <<table, rows, byPrimary, byUnique, modelCalls, overlapped, unswept>>
  BY DEF FindMiss, Then
<1>3. call[c] \in Pending /\ CallFits(call[c])
  BY <1>1 DEF ModelInv, ModelTypes, CallsFit
<1>4. call[c].p \in Primary /\ rows[call[c].p] \in Entry(Unique)
  BY <1>3 DEF ModelInv, ModelTypes, Pending
<1>5. /\ x \in Pending /\ x.op = call[c].op /\ x.data = rows[call[c].p] /\ x.p = call[c].p
      /\ x.step = IF call[c].step = "find" THEN "fill" ELSE "fillBefore"
  BY <1>3, <1>4 DEF Pending, CallSteps, Writes
<1>6. CallFits(x)
  BY <1>1, <1>3, <1>4, <1>5 DEF CallFits, Writes
<1> HIDE DEF x
<1> QED
  BY <1>1, <1>2, <1>5, <1>6, ReadStepInv

LEMMA FindUniqueHitInv ==
  ASSUME ModelInv, NEW c \in Caller, FindUniqueHit(c)
  PROVE ModelInv'
<1> DEFINE hit == byUnique[call[c].u]
           x == IF hit = Absent THEN Idle ELSE [call[c] EXCEPT !.step = "find", !.p = hit.value]
<1>1. call[c] # Idle /\ call[c].step = "findUnique" /\ hit # Cold
  BY PendingFacts DEF FindUniqueHit
<1>2. call' = [call EXCEPT ![c] = x]
      /\ UNCHANGED <<table, rows, byPrimary, byUnique, modelCalls, overlapped, unswept>>
  BY DEF FindUniqueHit, Then
<1>3. call[c] \in Pending /\ CallFits(call[c])
  BY <1>1 DEF ModelInv, ModelTypes, CallsFit
<1>4. hit \in Entry(Primary)
  BY <1>1, <1>3 DEF ModelInv, ModelTypes, Pending
<1>5. CASE hit = Absent
  <2>1. x = Idle
    BY <1>5
  <2> HIDE DEF x
  <2> QED
    BY <2>1, <1>1, <1>2, ReadStepInv, PendingFacts
<1>6. CASE hit # Absent
  <2>1. x = [call[c] EXCEPT !.step = "find", !.p = hit.value] /\ hit.value \in Primary
    BY <1>4, <1>6, EntryFacts
  <2>2. x \in Pending /\ x.op = call[c].op /\ x.step = "find"
    BY <2>1, <1>3 DEF Pending, CallSteps
  <2>3. CallFits(x)
    BY <2>2, <1>1, <1>3 DEF CallFits, Writes
  <2> HIDE DEF x, hit
  <2> QED
    BY <2>2, <2>3, <1>1, <1>2, ReadStepInv
<1> QED
  BY <1>5, <1>6

LEMMA FindUniqueMissInv ==
  ASSUME ModelInv, NEW c \in Caller, FindUniqueMiss(c)
  PROVE ModelInv'
<1> DEFINE found == IF Holder(call[c].u) = {} THEN Absent
                    ELSE Known(CHOOSE p \in Holder(call[c].u) : TRUE)
           x == [call[c] EXCEPT !.step = "fillUnique", !.data = found]
<1>1. call[c] # Idle /\ call[c].step = "findUnique"
  BY PendingFacts DEF FindUniqueMiss
<1>2. call' = [call EXCEPT ![c] = x]
      /\ UNCHANGED <<table, rows, byPrimary, byUnique, modelCalls, overlapped, unswept>>
  BY DEF FindUniqueMiss, Then
<1>3. call[c] \in Pending /\ CallFits(call[c])
  BY <1>1 DEF ModelInv, ModelTypes, CallsFit
<1>4. /\ found \in Entry(Primary)
      /\ found # Absent => rows[found.value] = Known(call[c].u)
  <2>1. CASE Holder(call[c].u) = {}
    BY <2>1, EntryFacts
  <2>2. CASE Holder(call[c].u) # {}
    <3>1. PICK p \in Holder(call[c].u) : found = Known(p)
      BY <2>2
    <3> QED
      BY <3>1, EntryFacts DEF Holder
  <2> QED
    BY <2>1, <2>2
<1>5. /\ x \in Pending /\ x.op = call[c].op /\ x.data = found /\ x.u = call[c].u
      /\ x.step = "fillUnique"
  BY <1>3, <1>4 DEF Pending, CallSteps
<1>6. CallFits(x)
  BY <1>1, <1>3, <1>4, <1>5 DEF CallFits, Writes
<1> HIDE DEF x, found
<1> QED
  BY <1>1, <1>2, <1>4, <1>5, <1>6, ReadStepInv

(* A step that fills the cache with what it has read; update and delete go *)
(* on with the row that they found.                                        *)
LEMMA FillInv ==
  ASSUME ModelInv, NEW c \in Caller, Fill(c)
  PROVE ModelInv'
<1> DEFINE x == IF call[c].step = "fill" \/ call[c].data = Absent THEN Idle
                ELSE [call[c] EXCEPT !.step = call[c].op]
<1>1. call[c] # Idle /\ call[c].step \in {"fill", "fillBefore"}
  BY PendingFacts DEF Fill
<1>2. /\ call' = [call EXCEPT ![c] = x]
      /\ byPrimary' = [byPrimary EXCEPT ![call[c].p] = call[c].data]
      /\ UNCHANGED <<table, rows, byUnique, modelCalls, overlapped, unswept>>
  BY DEF Fill, Then
<1>3. call[c] \in Pending /\ CallFits(call[c]) /\ modelCalls # 0
  BY <1>1 DEF ModelInv, ModelTypes, CallsFit, DdlFirst
<1>4. call[c].p \in Primary /\ call[c].data \in Entry(Unique)
  BY <1>1, <1>3 DEF CallFits, Pending
<1>5. /\ x \in {Idle} \cup Pending
      /\ x # Idle => /\ x.op = call[c].op /\ x.p = call[c].p /\ x.data = call[c].data
                     /\ x.step \in {"update", "delete"} /\ CallFits(x)
  <2>1. CASE call[c].step = "fill" \/ call[c].data = Absent
    BY <2>1
  <2>2. CASE call[c].step = "fillBefore" /\ call[c].data # Absent
    <3>1. x = [call[c] EXCEPT !.step = call[c].op]
      BY <2>2
    <3>2. call[c].op \in {"update", "delete"}
      BY <2>2, <1>3 DEF CallFits
    <3>3. /\ x \in Pending /\ x.op = call[c].op /\ x.p = call[c].p /\ x.data = call[c].data
          /\ x.step = call[c].op
      BY <3>1, <3>2, <1>3 DEF Pending, CallSteps, Writes
    <3>4. call[c].data \in {Known(v) : v \in Unique}
      BY <2>2, <1>4, EntryFacts
    <3> QED
      BY <3>2, <3>3, <3>4 DEF CallFits, Writes
  <2> QED
    BY <2>1, <2>2, <1>1
<1> HIDE DEF x
<1>6. ModelTypes'
  BY <1>1, <1>2, <1>4, <1>5, GoesOn DEF ModelInv, ModelTypes
<1>7. CallsFit'
  BY <1>1, <1>2, <1>5, GoesOn DEF ModelInv, CallsFit, CallFits
<1>8. DdlFirst'
  BY <1>2, <1>3 DEF ModelInv, DdlFirst
<1>9. ASSUME ~overlapped' PROVE (WritesAlone /\ ReadsAreCurrent /\ CacheIsCurrent)'
  <2>1. WritesAlone /\ ReadsAreCurrent /\ CacheIsCurrent /\ ~overlapped
    BY <1>9, <1>2 DEF ModelInv
  <2>2. call[c].data = rows[call[c].p]
    BY <2>1, <1>1 DEF ReadsAreCurrent
  <2>3. WritesAlone'
    BY <2>1, <1>1, <1>2, <1>5, StillAlone
  <2>4. ReadsAreCurrent'
    BY <2>1, <2>2, <1>1, <1>2, <1>5, GoesOn, PendingFacts DEF ReadsAreCurrent
  <2>5. CacheIsCurrent'
    <3>1. \A d \in Caller : call[d].step = "clear" => d # c /\ call'[d] = call[d]
      BY <1>1, <1>2, <1>5, GoesOn
    <3>2. \A p \in Primary : PrimaryCurrent(p)'
      <4> TAKE p \in Primary
      <4>1. byPrimary'[p] = IF p = call[c].p THEN rows[p] ELSE byPrimary[p]
        BY <1>2, <2>2 DEF ModelInv, ModelTypes
      <4> QED
        BY <4>1, <3>1, <2>1, <1>2 DEF CacheIsCurrent, PrimaryCurrent, PrimaryKeys
    <3>3. \A u \in Unique : UniqueCurrent(u)'
      BY <3>1, <2>1, <1>2 DEF CacheIsCurrent, UniqueCurrent, UniqueKeys
    <3> QED
      BY <3>2, <3>3 DEF CacheIsCurrent
  <2> QED
    BY <2>3, <2>4, <2>5
<1> QED
  BY <1>6, <1>7, <1>8, <1>9 DEF ModelInv

LEMMA FillUniqueInv ==
  ASSUME ModelInv, NEW c \in Caller, FillUnique(c)
  PROVE ModelInv'
<1>1. call[c] # Idle /\ call[c].step = "fillUnique"
  BY PendingFacts DEF FillUnique
<1>2. /\ call' = [call EXCEPT ![c] = Idle]
      /\ byUnique' = [byUnique EXCEPT ![call[c].u] = call[c].data]
      /\ byPrimary' = IF call[c].data = Absent THEN byPrimary
                      ELSE [byPrimary EXCEPT ![call[c].data.value] = Known(call[c].u)]
      /\ UNCHANGED <<table, rows, modelCalls, overlapped, unswept>>
  BY DEF FillUnique, Then
<1>3. call[c] \in Pending /\ CallFits(call[c]) /\ modelCalls # 0
  BY <1>1 DEF ModelInv, ModelTypes, CallsFit, DdlFirst
<1>4. call[c].u \in Unique /\ call[c].data \in Entry(Primary) /\ table.unique
  BY <1>1, <1>3 DEF CallFits, Pending
<1>5. call[c].data # Absent =>
        call[c].data.value \in Primary /\ call[c].data = Known(call[c].data.value)
  BY <1>4, EntryFacts
<1>6. ModelTypes'
  <2>1. byPrimary' \in [Primary -> {Cold} \cup Entry(Unique)]
    BY <1>2, <1>4, <1>5, EntryFacts DEF ModelInv, ModelTypes
  <2> QED
    BY <2>1, <1>1, <1>2, <1>4, GoesOn DEF ModelInv, ModelTypes
<1>7. CallsFit'
  BY <1>1, <1>2, GoesOn DEF ModelInv, CallsFit, CallFits
<1>8. DdlFirst'
  BY <1>2, <1>3, <1>4 DEF ModelInv, DdlFirst
<1>9. ASSUME ~overlapped' PROVE (WritesAlone /\ ReadsAreCurrent /\ CacheIsCurrent)'
  <2>1. WritesAlone /\ ReadsAreCurrent /\ CacheIsCurrent /\ ~overlapped
    BY <1>9, <1>2 DEF ModelInv
  <2>2. call[c].data # Absent => rows[call[c].data.value] = Known(call[c].u)
    BY <2>1, <1>1 DEF ReadsAreCurrent
  <2>3. WritesAlone'
    BY <2>1, <1>1, <1>2, StillAlone
  <2>4. ReadsAreCurrent'
    BY <2>1, <1>1, <1>2, GoesOn, PendingFacts DEF ReadsAreCurrent
  <2>5. \A d \in Caller : call[d].step = "clear" => d # c /\ call'[d] = call[d]
    BY <1>1, <1>2, GoesOn
  <2>6. \A p \in Primary : PrimaryCurrent(p)'
    <3> TAKE p \in Primary
    <3>1. byPrimary'[p] \in {byPrimary[p], rows[p]}
      BY <1>2, <1>5, <2>2 DEF ModelInv, ModelTypes
    <3> QED
      BY <3>1, <2>5, <2>1, <1>2 DEF CacheIsCurrent, PrimaryCurrent, PrimaryKeys
  <2>7. \A u \in Unique : UniqueCurrent(u)'
    <3> TAKE u \in Unique
    <3>1. byUnique'[u] = IF u = call[c].u THEN call[c].data ELSE byUnique[u]
      BY <1>2 DEF ModelInv, ModelTypes
    <3> QED
      BY <3>1, <2>2, <2>5, <2>1, <1>2 DEF CacheIsCurrent, UniqueCurrent, UniqueKeys
  <2> QED
    BY <2>3, <2>4, <2>6, <2>7 DEF CacheIsCurrent
<1> QED
  BY <1>6, <1>7, <1>8, <1>9 DEF ModelInv

(* The statement: the entries it makes stale are under the keys that the   *)
(* call is going to delete, or say that a new row is missing, or are those *)
(* of a row whose keys are left.                                           *)
LEMMA RowWritten ==
  ASSUME ModelInv, NEW c \in Caller, call[c].step \in Writes, ~Refused(c),
         NEW x, call' = [call EXCEPT ![c] = x],
         \/ x = [call[c] EXCEPT !.step = "clear"] /\ unswept' = unswept
         \/ x = Idle /\ unswept' = unswept \cup {call[c].p},
         rows' = [rows EXCEPT ![call[c].p] = RowAfter(c)],
         UNCHANGED <<table, byPrimary, byUnique, modelCalls, overlapped>>
  PROVE ModelInv'
<1> DEFINE p == call[c].p
           u == call[c].u
           row == RowAfter(c)
<1>1. call[c] # Idle
  BY PendingFacts DEF Writes
<1>2. call[c] \in Pending /\ CallFits(call[c]) /\ modelCalls # 0
  BY <1>1 DEF ModelInv, ModelTypes, CallsFit, DdlFirst
<1>3. p \in Primary /\ u \in Unique /\ call[c].step = call[c].op
  BY <1>1, <1>2 DEF Pending, CallFits
<1>4. rows[p] \in Entry(Unique) /\ row \in Entry(Unique)
  BY <1>3, EntryFacts DEF ModelInv, ModelTypes, RowAfter
<1>5. x \in {Idle} \cup Pending
  BY <1>2 DEF Pending, CallSteps
<1>6. x # Idle => /\ x.op = call[c].op /\ x.p = p /\ x.u = u /\ x.data = call[c].data
                  /\ x.step = "clear" /\ CallFits(x) /\ unswept' = unswept
  <2> SUFFICES ASSUME x # Idle
               PROVE  /\ x.op = call[c].op /\ x.p = p /\ x.u = u /\ x.data = call[c].data
                      /\ x.step = "clear" /\ CallFits(x) /\ unswept' = unswept
    OBVIOUS
  <2>1. x.op = call[c].op /\ x.p = p /\ x.u = u /\ x.data = call[c].data /\ x.step = "clear"
        /\ unswept' = unswept
    BY <1>2 DEF Pending
  <2>2. CallFits(x)
    BY <2>1, <1>1, <1>2, <1>3 DEF CallFits, Writes
  <2> QED
    BY <2>1, <2>2
<1>7. /\ unswept \subseteq unswept' /\ unswept' \subseteq Primary
      /\ x = Idle => p \in unswept'
  BY <1>3, <1>2, PendingFacts DEF ModelInv, ModelTypes, Pending, Idle
<1>8. call[c].op = "insert" => rows[p] = Absent
  BY DEF Refused
<1> HIDE DEF row
<1>9. ModelTypes'
  BY <1>1, <1>4, <1>5, <1>7, GoesOn DEF ModelInv, ModelTypes, row
<1>10. CallsFit'
  BY <1>1, <1>5, <1>6, GoesOn DEF ModelInv, CallsFit, CallFits
<1>11. DdlFirst'
  BY <1>2 DEF ModelInv, DdlFirst
<1>12. ASSUME ~overlapped' PROVE (WritesAlone /\ ReadsAreCurrent /\ CacheIsCurrent)'
  <2>1. WritesAlone /\ ReadsAreCurrent /\ CacheIsCurrent /\ ~overlapped
    BY <1>12 DEF ModelInv
  <2>2. \A d \in Caller : d # c => call[d] = Idle
    BY <2>1, <1>1, <1>3 DEF WritesAlone
  <2>3. WritesAlone'
    BY <2>1, <1>1, <1>5, <1>6, StillAlone
  <2>4. \A d \in Caller : call'[d] = IF d = c THEN x ELSE Idle
    BY <2>2, <1>1, <1>5, GoesOn
  <2>5. ReadsAreCurrent'
    BY <2>4, <1>6, PendingFacts DEF ReadsAreCurrent
  <2>6. \A d \in Caller : call[d].step # "clear"
    BY <2>2, <1>1, PendingFacts DEF Writes
  <2>7. \A q \in Primary : rows'[q] = IF q = p THEN row ELSE rows[q]
    BY DEF ModelInv, ModelTypes, row
  <2>8. \A q \in Primary : PrimaryCurrent(q)'
    <3> TAKE q \in Primary
    <3>1. q \in unswept \/ byPrimary[q] \in {Cold, rows[q]} \/ (byPrimary[q] = Absent /\ table.auto)
      BY <2>1, <2>6 DEF CacheIsCurrent, PrimaryCurrent
    <3>2. CASE q \in unswept'
      BY <3>2 DEF PrimaryCurrent
    <3>3. CASE q # p
      BY <3>1, <3>3, <2>7, <1>7 DEF PrimaryCurrent
    <3>4. CASE q = p /\ q \notin unswept' /\ ~(call[c].op = "insert" /\ table.auto)
      <4>1. call'[c].step = "clear" /\ q \in PrimaryKeys(c)'
        BY <3>4, <2>4, <1>6, <1>7 DEF PrimaryKeys
      <4> QED
        BY <4>1 DEF PrimaryCurrent
    <3>5. CASE q = p /\ q \notin unswept' /\ call[c].op = "insert" /\ table.auto
      BY <3>1, <3>5, <1>7, <1>8 DEF PrimaryCurrent
    <3> QED
      BY <3>2, <3>3, <3>4, <3>5
  <2>9. \A v \in Unique : UniqueCurrent(v)'
    <3> TAKE v \in Unique
    <3>1. \/ byUnique[v] \in {Cold, Absent} \/ byUnique[v].value \in unswept
          \/ rows[byUnique[v].value] = Known(v)
      BY <2>1, <2>6 DEF CacheIsCurrent, UniqueCurrent
    <3>2. CASE byUnique[v] \in {Cold, Absent} \/ byUnique[v].value \in unswept'
      BY <3>2 DEF UniqueCurrent
    <3>3. CASE byUnique[v] \notin {Cold, Absent} /\ byUnique[v].value \notin unswept'
      <4>1. PICK q \in Primary : byUnique[v] = Known(q)
        BY <3>3, EntryFacts DEF ModelInv, ModelTypes
      <4>2. byUnique[v].value = q /\ rows[q] = Known(v) /\ q \notin unswept'
        BY <3>1, <3>3, <4>1, <1>7, EntryFacts
      <4>3. CASE q # p
        BY <4>2, <4>3, <2>7 DEF UniqueCurrent
      <4>4. CASE q = p
        <5>1. table.unique /\ call[c].op # "insert" /\ p \notin unswept /\ x # Idle
          BY <3>3, <4>2, <4>4, <1>7, <1>8, EntryFacts DEF ModelInv, DdlFirst
        <5>2. call[c].data = Known(v)
          BY <5>1, <4>2, <4>4, <2>1, <1>1, <1>3 DEF ReadsAreCurrent, Writes
        <5>3. v \in UniqueKeys(c)'
          BY <5>1, <5>2, <2>4, <1>6, EntryFacts DEF UniqueKeys
        <5> QED
          BY <5>1, <5>3, <4>2, <4>4, <1>6, <2>4 DEF UniqueCurrent
      <4> QED
        BY <4>3, <4>4
    <3> QED
      BY <3>2, <3>3
  <2> QED
    BY <2>3, <2>5, <2>8, <2>9 DEF CacheIsCurrent
<1> QED
  BY <1>9, <1>10, <1>11, <1>12 DEF ModelInv

(* A call that ends and changes nothing else.                              *)
LEMMA EndInv ==
  ASSUME ModelInv, NEW c \in Caller, call[c].step \notin {"idle", "clear"},
         call' = [call EXCEPT ![c] = Idle],
         UNCHANGED <<table, rows, byPrimary, byUnique, modelCalls, overlapped, unswept>>
  PROVE ModelInv'
<1>1. call[c] # Idle
  BY PendingFacts
<1> QED
  BY <1>1, ReadStepInv, PendingFacts

LEMMA ExecInv ==
  ASSUME ModelInv, NEW c \in Caller, Exec(c)
  PROVE ModelInv'
<1>1. CASE Refused(c)
  BY <1>1, EndInv DEF Exec, Then, Writes
<1>2. CASE ~Refused(c)
  <2> DEFINE x == [call[c] EXCEPT !.step = "clear"]
  <2>1. /\ call' = [call EXCEPT ![c] = x] /\ rows' = [rows EXCEPT ![call[c].p] = RowAfter(c)]
        /\ call[c].step \in Writes
        /\ UNCHANGED <<table, byPrimary, byUnique, modelCalls, overlapped, unswept>>
    BY <1>2 DEF Exec, Then
  <2> QED
    BY <1>2, <2>1, RowWritten
<1> QED
  BY <1>1, <1>2

LEMMA ExecErrsInv ==
  ASSUME ModelInv, NEW c \in Caller, ExecErrs(c)
  PROVE ModelInv'
BY RowWritten DEF ExecErrs, Then

LEMMA CallErrsInv ==
  ASSUME ModelInv, NEW c \in Caller, CallErrs(c)
  PROVE ModelInv'
BY EndInv DEF CallErrs, Then

(* The keys: what is not deleted is left under the row's own primary key.  *)
LEMMA DeletedInv ==
  ASSUME ModelInv, NEW c \in Caller, call[c].step = "clear", call' = [call EXCEPT ![c] = Idle],
         NEW P \in SUBSET PrimaryKeys(c), NEW U \in SUBSET UniqueKeys(c), Deleted(P, U),
         \/ P = PrimaryKeys(c) /\ U = UniqueKeys(c) /\ unswept' = unswept
         \/ unswept' = unswept \cup {call[c].p},
         UNCHANGED <<table, rows, modelCalls, overlapped>>
  PROVE ModelInv'
<1>1. call[c] # Idle
  BY PendingFacts
<1>2. /\ byPrimary' = [p \in Primary |-> IF p \in P THEN Cold ELSE byPrimary[p]]
      /\ byUnique' = [u \in Unique |-> IF u \in U THEN Cold ELSE byUnique[u]]
  BY DEF Deleted
<1>3. call[c] \in Pending /\ CallFits(call[c]) /\ modelCalls # 0
  BY <1>1 DEF ModelInv, ModelTypes, CallsFit, DdlFirst
<1>4. unswept \subseteq unswept' /\ unswept' \subseteq Primary
  BY <1>3 DEF ModelInv, ModelTypes, Pending
<1>5. ModelTypes'
  <2>1. /\ byPrimary' \in [Primary -> {Cold} \cup Entry(Unique)]
        /\ byUnique' \in [Unique -> {Cold} \cup Entry(Primary)]
    BY <1>2 DEF ModelInv, ModelTypes
  <2> QED
    BY <2>1, <1>1, <1>4, GoesOn DEF ModelInv, ModelTypes
<1>6. CallsFit'
  BY <1>1, GoesOn DEF ModelInv, CallsFit, CallFits
<1>7. DdlFirst'
  BY <1>2, <1>3 DEF ModelInv, DdlFirst
<1>8. ASSUME ~overlapped' PROVE (WritesAlone /\ ReadsAreCurrent /\ CacheIsCurrent)'
  <2>1. WritesAlone /\ ReadsAreCurrent /\ CacheIsCurrent /\ ~overlapped
    BY <1>8 DEF ModelInv
  <2>2. \A d \in Caller : d # c => call[d] = Idle
    BY <2>1, <1>1, <1>3 DEF WritesAlone, CallFits
  <2>3. \A d \in Caller : call'[d] = Idle
    BY <2>2, <1>1, GoesOn
  <2>4. WritesAlone' /\ ReadsAreCurrent'
    BY <2>3, PendingFacts DEF WritesAlone, ReadsAreCurrent
  <2>5. \A d \in Caller : call[d].step = "clear" => d = c
    BY <2>2, PendingFacts
  <2>6. \A p \in Primary : PrimaryCurrent(p)'
    <3> TAKE p \in Primary
    <3>1. CASE p \in P \/ p \in unswept'
      BY <3>1, <1>2 DEF PrimaryCurrent
    <3>2. CASE p \notin P /\ p \notin unswept'
      <4>1. p \notin PrimaryKeys(c)
        BY <3>2 DEF PrimaryKeys
      <4> QED
        BY <4>1, <3>2, <2>1, <2>5, <1>2, <1>4 DEF CacheIsCurrent, PrimaryCurrent
    <3> QED
      BY <3>1, <3>2
  <2>7. \A u \in Unique : UniqueCurrent(u)'
    <3> TAKE u \in Unique
    <3>1. CASE u \in U \/ byUnique[u].value \in unswept'
      BY <3>1, <1>2 DEF UniqueCurrent
    <3>2. CASE u \notin U /\ byUnique[u].value \notin unswept'
      <4>1. u \notin UniqueKeys(c) \/ byUnique[u].value # call[c].p
        BY <3>2
      <4>2. byUnique[u] \in {Cold, Absent} \/ rows[byUnique[u].value] = Known(u)
        BY <4>1, <3>2, <2>1, <2>5, <1>4 DEF CacheIsCurrent, UniqueCurrent
      <4> QED
        BY <4>2, <3>2, <1>2 DEF UniqueCurrent
    <3> QED
      BY <3>1, <3>2
  <2> QED
    BY <2>4, <2>6, <2>7 DEF CacheIsCurrent
<1> QED
  BY <1>5, <1>6, <1>7, <1>8 DEF ModelInv

LEMMA ClearInv ==
  ASSUME ModelInv, NEW c \in Caller, Clear(c)
  PROVE ModelInv'
BY DeletedInv DEF Clear, Then

LEMMA ClearFailsInv ==
  ASSUME ModelInv, NEW c \in Caller, ClearFails(c)
  PROVE ModelInv'
<1>1. PICK P \in SUBSET PrimaryKeys(c), U \in SUBSET UniqueKeys(c) : Deleted(P, U)
  BY DEF ClearFails
<1>2. /\ call[c].step = "clear" /\ call' = [call EXCEPT ![c] = Idle]
      /\ unswept' = unswept \cup {call[c].p}
      /\ UNCHANGED <<table, rows, modelCalls, overlapped>>
  BY DEF ClearFails, Then
<1> QED
  BY <1>1, <1>2, DeletedInv

THEOREM ModelInvariant == SqlModelSpec => []ModelInv
<1>1. ModelInv /\ [SqlModelNext]_sqlModelVars => ModelInv'
  <2> SUFFICES ASSUME ModelInv, [SqlModelNext]_sqlModelVars PROVE ModelInv'
    OBVIOUS
  <2>1. CASE \E t \in [unique : BOOLEAN, auto : BOOLEAN] : Declare(t)
    BY <2>1, DeclareInv
  <2>2. ASSUME NEW c \in Caller,
               \/ \E op \in {"find", "findUnique"} \cup Writes, p \in Primary, u \in Unique :
                    Begin(c, op, p, u)
               \/ FindHit(c) \/ FindMiss(c) \/ Fill(c)
               \/ FindUniqueHit(c) \/ FindUniqueMiss(c) \/ FillUnique(c)
               \/ Exec(c) \/ ExecErrs(c) \/ CallErrs(c) \/ Clear(c) \/ ClearFails(c)
        PROVE ModelInv'
    BY <2>2, BeginInv, FindHitInv, FindMissInv, FillInv, FindUniqueHitInv, FindUniqueMissInv,
       FillUniqueInv, ExecInv, ExecErrsInv, CallErrsInv, ClearInv, ClearFailsInv
  <2>3. CASE UNCHANGED sqlModelVars
    BY <2>3 DEF sqlModelVars, ModelInv, ModelTypes, CallsFit, CallFits, DdlFirst, WritesAlone,
         ReadsAreCurrent, CacheIsCurrent, PrimaryCurrent, UniqueCurrent, PrimaryKeys, UniqueKeys
  <2> QED
    BY <2>1, <2>2, <2>3 DEF SqlModelNext
<1> QED
  BY ModelInitInv, <1>1, PTL DEF SqlModelSpec

(* Calls of a generated model that do not overlap leave a stale entry only *)
(* for a row that was itself written and whose keys were not all deleted,  *)
(* whatever the table, the keys, the sequence of calls and their errors.   *)
THEOREM CacheFollowsTable == SqlModelSpec => []StaleNeedsOverlap
<1>1. ModelInv => StaleNeedsOverlap
  <2> SUFFICES ASSUME ModelInv, ~overlapped, \A c \in Caller : call[c] = Idle
               PROVE  StaleNeedsOverlap
    BY DEF StaleNeedsOverlap
  <2> QED
    BY PendingFacts DEF ModelInv, CacheIsCurrent, PrimaryCurrent, UniqueCurrent, StaleNeedsOverlap
<1> QED
  BY <1>1, ModelInvariant, PTL
-----------------------------------------------------------------------------
(***************************************************************************)
(* RepoPlan                                                                *)
(***************************************************************************)

DaoMethod ==
  {m \in [name : MethodNames, params : ParamLists, results : Results, body : Bodies,
          brace : BOOLEAN] : m.results = "entity" => m.name # "Delete"}

(* What was decided in the steps that are behind.                          *)
PlanInv ==
  /\ planStep \in {"declare", "plan", "write", "done"}
  /\ planStep # "declare" => method \in DaoMethod
  /\ getByID \in {"absent", "odd", "reads"}
  /\ planStep \in {"write", "done"} =>
       planned = IF ~IsWriteOp(method) THEN "no"
                 ELSE IF KnownShape(method) THEN "wrapped" ELSE "todo"
  /\ planStep = "done" =>
       written = CASE planned = "no" -> "nothing" [] planned = "todo" -> "panics"
                   [] OTHER -> Deletes(method)

LEMMA PlanSteps == PlanInv /\ [PlanNext]_planVars => PlanInv'
<1> SUFFICES ASSUME PlanInv, [PlanNext]_planVars PROVE PlanInv'
  OBVIOUS
<1>1. CASE DeclareMethod
  <2>1. method' \in DaoMethod
    BY <1>1 DEF DeclareMethod, DaoMethod
  <2> QED
    BY <1>1, <2>1 DEF DeclareMethod, PlanInv
<1>2. CASE BuildPlanFromDao
  BY <1>2 DEF BuildPlanFromDao, PlanInv, KnownShape, OfKeyType, IsWriteOp
<1>3. CASE WriteRepo
  <2>1. /\ planStep = "write" /\ planStep' = "done"
        /\ UNCHANGED <<method, getByID, planned>>
        /\ written' = CASE planned = "no" -> "nothing" [] planned = "todo" -> "panics"
                        [] OTHER -> Deletes(method)
    BY <1>3 DEF WriteRepo
  <2>2. KnownShape(method)' <=> KnownShape(method)
    BY <2>1 DEF KnownShape, OfKeyType
  <2>3. (IsWriteOp(method)' <=> IsWriteOp(method)) /\ Deletes(method)' = Deletes(method)
    BY <2>1 DEF IsWriteOp, Deletes
  <2> QED
    BY <2>1, <2>2, <2>3 DEF PlanInv
<1>4. CASE UNCHANGED planVars
  BY <1>4 DEF planVars, PlanInv, KnownShape, OfKeyType, IsWriteOp, BodySeen, Deletes
<1> QED
  BY <1>1, <1>2, <1>3, <1>4 DEF PlanNext

(* A repo that compiles forgets no write of its dao without a word,        *)
(* however many parameters the methods have.                               *)
THEOREM NoWriteForgotten == PlanSpec => []WritesAccounted
<1>1. PlanInit => PlanInv
  BY DEF PlanInit, PlanInv
<1>2. PlanInv => WritesAccounted
  <2> SUFFICES ASSUME PlanInv, planStep = "done", RepoCompiles, method.body # "query"
               PROVE  \/ written = "panics" \/ written = Changes(method)
                      \/ Missed(method) \/ method.params = <<"codes">>
    BY DEF WritesAccounted
  <2>1. method \in DaoMethod
    BY DEF PlanInv
  <2>2. CASE planned = "no"
    <3>1. ~IsWriteOp(method)
      BY <2>2 DEF PlanInv
    <3> QED
      BY <3>1, <2>1 DEF IsWriteOp, BodySeen, Missed, DaoMethod, Bodies
  <2>3. CASE planned = "todo"
    BY <2>3 DEF PlanInv
  <2>4. CASE planned = "wrapped"
    <3>1. KnownShape(method) /\ written = Deletes(method) /\ written # "idSlice"
      BY <2>4 DEF PlanInv, RepoCompiles
    <3>2. PICK n \in 0 .. MaxParams : method.params \in [1 .. n -> Params]
      BY <2>1 DEF DaoMethod, ParamLists, SeqOf
    <3>3. method.params \in Seq(Params)
      BY <3>2, RepoPlanAssumption
    <3>4. CASE method.name \in {"Create", "Update"}
      BY <3>1, <3>4 DEF KnownShape, Deletes, Changes
    <3>5. CASE method.name = "CreateBatch"
      BY <3>1, <3>5 DEF KnownShape, Deletes, Changes
    <3>6. CASE method.name = "Delete"
      <4>1. method.results = "error" /\ Len(method.params) = 1
            /\ method.params[1] \in {"ent", "id", "ids", "idSlice", "codes"}
        BY <3>1, <3>6 DEF KnownShape, OfKeyType
      <4>2. method.params[1] = "codes" => method.params = <<"codes">>
        BY <4>1, <3>3
      <4> QED
        BY <4>1, <4>2, <3>1, <3>6 DEF Deletes, Changes
    <3>7. method.name # "Another"
      BY <3>1 DEF KnownShape
    <3> QED
      BY <3>4, <3>5, <3>6, <3>7, <2>1 DEF DaoMethod, MethodNames
  <2> QED
    BY <2>2, <2>3, <2>4 DEF PlanInv
<1> QED
  BY <1>1, <1>2, PlanSteps, PTL DEF PlanSpec
-----------------------------------------------------------------------------
(***************************************************************************)
(* DescPlan: the scanner's stack against what the file really opens.       *)
(***************************************************************************)

Frames == [kind : {"service", "message", "block"},
           name : {"own", "other", "rpc", "enum"} \cup Messages, body : SUBSET Fields]
InService == open # <<>> /\ open[1].kind = "service"
InMessage == open # <<>> /\ open[1].kind = "message"

(* What a file opens.                                                      *)
Nesting ==
  /\ open \in Seq(Frames) /\ frames \in Seq(Frames) /\ blind \in BOOLEAN
  /\ open = <<>> \/ InService \/ InMessage
  /\ \A i \in 1 .. Len(open) : open[i].kind = "service" => i = 1 /\ open[i].body = {}
  /\ InService => \A i \in 2 .. Len(open) : open[i].kind = "block" /\ open[i].name = "rpc"
  /\ InMessage => open[1].name \notin DOMAIN defined
  /\ blind <=> "comment" \in oddities
  /\ blind => frames = <<>>

(* The scanner never has more open, when it reaches every brace.           *)
FramesFit ==
  "sharedLine" \notin oddities =>
    /\ Len(frames) <= Len(open)
    /\ InService => \A i \in 1 .. Len(frames) : frames[i].kind # "message"

(* A block is innermost, and has nothing of its own on the scanner's       *)
(* stack.                                                                  *)
Blocks ==
  /\ \A i \in 1 .. Len(open) - 1 : open[i].kind # "block"
  /\ "sharedLine" \notin oddities /\ open # <<>> /\ open[Len(open)].kind = "block" =>
       Len(frames) <= Len(open) - 1
  /\ InMessage /\ "block" \notin oddities => \A i \in 1 .. Len(open) : open[i].kind # "block"

(* No rpc is missed while no brace that closes a block is taken for the    *)
(* service's.                                                              *)
ServiceSeen ==
  oddities \cap {"rpcBlock", "comment", "sharedLine"} = {} =>
    /\ rpcs \subseteq seenRpcs
    /\ InService => Len(open) <= 2 /\ Len(frames) = 1 /\ frames[1] = open[1]

(* No message is missed; one that a block ends early is noted early.       *)
MessagesSeen ==
  oddities \cap {"comment", "sharedLine"} = {} =>
    /\ DOMAIN defined \subseteq DOMAIN seenMessages
    /\ InMessage => \/ frames # <<>> /\ frames[1].kind = "message" /\ frames[1].name = open[1].name
                    \/ open[1].name \in DOMAIN seenMessages

(* Without blocks a message is noted with its fields, but for the unseen.  *)
SeenFrame(frame) == [frame EXCEPT !.body = @ \ {"unseen"}]
FieldsSeen ==
  oddities \cap {"block", "sharedField", "sharedLine"} = {} =>
    /\ \A m \in DOMAIN seenMessages :
         m \in DOMAIN defined /\ seenMessages[m] = defined[m] \ {"unseen"}
    /\ InMessage /\ ~blind =>
         /\ Len(frames) = Len(open)
         /\ \A i \in 1 .. Len(open) : frames[i] = SeenFrame(open[i])

(* What is added fits what was noted.                                      *)
AddedFits ==
  descStep = "done" =>
    /\ added.rpcs \cap seenRpcs = {}
    /\ added.messages \cap DOMAIN seenMessages = {}
    /\ \A r \in added.rpcs : \A m \in Deps(r) :
         m \in added.messages \/ (m \in DOMAIN seenMessages /\ Same(seenMessages[m]))

DescInv ==
  Nesting /\ FramesFit /\ Blocks /\ ServiceSeen /\ MessagesSeen /\ FieldsSeen /\ AddedFits

LEMMA OneOrMore ==
  ASSUME NEW n \in Nat, n >= 1
  PROVE  /\ n = 1 \/ n \in 2 .. n
         /\ 1 \in 1 .. n
         /\ n # 1 => 1 \in 1 .. n - 1
OBVIOUS

LEMMA StackFacts ==
  ASSUME NEW s \in Seq(Frames)
  PROVE  /\ Len(s) \in Nat /\ (s = <<>> <=> Len(s) = 0)
         /\ \A i \in 1 .. Len(s) : s[i] \in Frames
         /\ s # <<>> => Innermost(s) = s[Len(s)] /\ Len(s) \in 1 .. Len(s) /\ 1 \in 1 .. Len(s)
         /\ Innermost(s).kind # "none" => s # <<>>
         /\ Innermost(s).kind = "none" => s = <<>>
<1>1. Len(s) \in Nat /\ (s = <<>> <=> Len(s) = 0) /\ \A i \in 1 .. Len(s) : s[i] \in Frames
  OBVIOUS
<1>2. s # <<>> => Innermost(s) = s[Len(s)] /\ Len(s) \in 1 .. Len(s) /\ 1 \in 1 .. Len(s)
  BY <1>1 DEF Innermost
<1>3. s = <<>> => Innermost(s).kind = "none"
  BY DEF Innermost, NoFrame
<1>4. s # <<>> => s[Len(s)].kind # "none"
  BY <1>1, <1>2 DEF Frames
<1> QED
  BY <1>1, <1>2, <1>3, <1>4

LEMMA PushFacts ==
  ASSUME NEW s \in Seq(Frames), NEW e \in Frames
  PROVE  /\ Append(s, e) \in Seq(Frames) /\ Append(s, e) # <<>> /\ Len(Append(s, e)) = Len(s) + 1
         /\ \A i \in 1 .. Len(s) : Append(s, e)[i] = s[i]
         /\ Append(s, e)[Len(s) + 1] = e
OBVIOUS

LEMMA PopFacts ==
  ASSUME NEW s \in Seq(Frames), s # <<>>
  PROVE  /\ Front(s) \in Seq(Frames) /\ Len(Front(s)) = Len(s) - 1
         /\ \A i \in 1 .. Len(s) - 1 : Front(s)[i] = s[i]
         /\ Last(s) = s[Len(s)]
BY DEF Front, Last

LEMMA FieldFacts ==
  ASSUME NEW s \in Seq(Frames), s # <<>>, NEW f \in Fields
  PROVE  /\ WithField(s, f) \in Seq(Frames) /\ Len(WithField(s, f)) = Len(s)
         /\ \A i \in 1 .. Len(s) :
              WithField(s, f)[i] =
                IF i = Len(s) THEN [s[i] EXCEPT !.body = @ \cup {f}] ELSE s[i]
<1> DEFINE top == s[Len(s)]
           grown == [top EXCEPT !.body = @ \cup {f}]
<1>1. Len(s) \in 1 .. Len(s) /\ top \in Frames
  BY StackFacts
<1>2. grown \in Frames
  BY <1>1 DEF Frames
<1>3. WithField(s, f) = [s EXCEPT ![Len(s)] = grown]
  BY DEF WithField
<1> HIDE DEF grown
<1>4. WithField(s, f) \in Seq(Frames) /\ Len(WithField(s, f)) = Len(s)
  BY <1>1, <1>2, <1>3
<1>5. \A i \in 1 .. Len(s) : WithField(s, f)[i] = IF i = Len(s) THEN grown ELSE s[i]
  BY <1>3
<1> QED
  BY <1>4, <1>5 DEF grown

LEMMA NewFrames ==
  /\ \A x \in {"own", "other"} : Frame("service", x) \in Frames
  /\ \A x \in Messages : Frame("message", x) \in Frames
  /\ Frame("block", "rpc") \in Frames /\ Frame("block", "enum") \in Frames
  /\ \A k, x : Frame(k, x).kind = k /\ Frame(k, x).name = x /\ Frame(k, x).body = {}
BY DEF Frame, Frames

(* What the scanner did not reach is noted.                                *)
LEMMA NotedFacts ==
  ASSUME NEW reached \in BOOLEAN, NEW what
  PROVE  /\ \A x \in oddities : x \in NotedUnless(reached, what)
         /\ \A x \in NotedUnless(reached, what) : x \in oddities \/ x = what
         /\ what \notin NotedUnless(reached, what) =>
              NotedUnless(reached, what) = oddities /\ (blind \/ reached)
BY DEF NotedUnless

LEMMA ReachedFacts ==
  \A place : /\ Reached(place) \in BOOLEAN /\ FieldReached(place) \in BOOLEAN
             /\ Reached(place) => ~blind
             /\ FieldReached(place) => ~blind
BY DEF Reached, FieldReached

LEMMA DescInitInv == DescInit => DescInv
<1> SUFFICES ASSUME DescInit PROVE DescInv
  OBVIOUS
<1> USE DEF DescInit
<1>1. ~InService /\ ~InMessage
  BY DEF InService, InMessage
<1>2. Nesting
  <2>1. open \in Seq(Frames) /\ frames \in Seq(Frames) /\ Len(open) = 0 /\ Len(frames) = 0
    OBVIOUS
  <2>2. blind = FALSE /\ "comment" \notin oddities /\ open = <<>> /\ frames = <<>>
    OBVIOUS
  <2> HIDE DEF DescInit
  <2>3. \A i \in 1 .. Len(open) : FALSE
    BY <2>1
  <2>4. blind \in BOOLEAN /\ (blind <=> "comment" \in oddities) /\ (blind => frames = <<>>)
    BY <2>2
  <2>6. open = <<>> \/ InService \/ InMessage
    BY <2>2
  <2>7. \A i \in 1 .. Len(open) : open[i].kind = "service" => i = 1 /\ open[i].body = {}
    BY <2>3
  <2> QED
    BY <1>1, <2>1, <2>4, <2>6, <2>7 DEF Nesting
<1>3. FramesFit /\ Blocks /\ ServiceSeen /\ MessagesSeen
  <2>1. open = <<>> /\ Len(open) = 0 /\ Len(frames) = 0 /\ rpcs = {} /\ seenRpcs = {} /\ DOMAIN defined = {}
    OBVIOUS
  <2> HIDE DEF DescInit
  <2> QED
    BY <1>1, <2>1 DEF FramesFit, Blocks, ServiceSeen, MessagesSeen
<1>4. FieldsSeen /\ AddedFits
  BY <1>1 DEF FieldsSeen, AddedFits
<1> QED
  BY <1>2, <1>3, <1>4 DEF DescInv

LEMMA OpenServiceInv ==
  ASSUME DescInv, NEW place \in Places, NEW x \in {"own", "other"}, OpenService(x, place)
  PROVE  DescInv'
<1> DEFINE F == Frame("service", x)
           reached == Reached(place)
<1>1. /\ open = <<>> /\ descStep' = "scan"
      /\ open' = Append(open, F)
      /\ frames' = IF reached /\ frames = <<>> THEN Append(frames, F) ELSE frames
      /\ oddities' = NotedUnless(reached, "sharedLine")
      /\ UNCHANGED <<rpcs, defined, blind, seenRpcs, seenMessages>>
  BY DEF OpenService, FileGrows
<1>2. /\ reached \in BOOLEAN /\ (reached => ~blind)
      /\ F \in Frames /\ F.kind = "service" /\ F.body = {}
      /\ frames \in Seq(Frames) /\ open \in Seq(Frames)
      /\ Len(open) = 0 /\ Len(frames) \in Nat /\ (frames = <<>> <=> Len(frames) = 0)
  BY <1>1, NewFrames, ReachedFacts, StackFacts DEF DescInv, Nesting
<1> HIDE DEF F, reached
<1>3. open' = <<F>> /\ InService' /\ ~InMessage'
  BY <1>1, <1>2 DEF InService, InMessage
<1>4. /\ frames' \in Seq(Frames)
      /\ frames = <<>> /\ reached => frames' = <<F>>
      /\ frames = <<>> /\ ~reached => frames' = <<>>
  <2>1. CASE reached /\ frames = <<>>
    <3>1. frames' = Append(<<>>, F)
      BY <1>1, <2>1
    <3>2. Append(<<>>, F) = <<F>> /\ <<F>> \in Seq(Frames)
      BY <1>2
    <3> QED
      BY <3>1, <3>2, <2>1
  <2>2. CASE ~(reached /\ frames = <<>>)
    BY <2>2, <1>1, <1>2
  <2> QED
    BY <2>1, <2>2
<1>5. /\ "comment" \in oddities' <=> "comment" \in oddities
      /\ "sharedLine" \notin oddities' => oddities' = oddities /\ (blind \/ reached)
      /\ blind <=> "comment" \in oddities
  BY <1>1, <1>2, NotedFacts DEF DescInv, Nesting
<1>6. Nesting'
  <2>1. blind' => frames' = <<>>
    BY <1>1, <1>2 DEF DescInv, Nesting
  <2> QED
    BY <2>1, <1>1, <1>2, <1>3, <1>4, <1>5 DEF DescInv, Nesting
<1>7. ASSUME "sharedLine" \notin oddities'
      PROVE  frames = <<>> /\ (blind => frames' = <<>>) /\ (~blind => frames' = <<F>>)
  BY <1>7, <1>1, <1>2, <1>4, <1>5 DEF DescInv, FramesFit
<1>8. FramesFit'
  <2>1. Len(<<F>>) = 1 /\ <<F>>[1] = F /\ Len(<<>>) = 0
    BY <1>2
  <2>2. ASSUME "sharedLine" \notin oddities'
        PROVE  /\ Len(frames') <= Len(open')
               /\ \A i \in 1 .. Len(frames') : frames'[i].kind # "message"
    <3>1. CASE blind
      BY <3>1, <2>1, <2>2, <1>3, <1>7
    <3>2. CASE ~blind
      <4>1. frames' = <<F>> /\ open' = <<F>>
        BY <3>2, <2>2, <1>3, <1>7
      <4>2. \A i \in 1 .. 1 : <<F>>[i].kind # "message"
        BY <2>1, <1>2
      <4> QED
        BY <4>1, <4>2, <2>1
    <3> QED
      BY <3>1, <3>2
  <2> QED
    BY <2>2 DEF FramesFit
<1>9. ServiceSeen'
  BY <1>1, <1>3, <1>5, <1>7 DEF DescInv, ServiceSeen
<1>10. MessagesSeen' /\ FieldsSeen'
  BY <1>1, <1>3, <1>5 DEF DescInv, MessagesSeen, FieldsSeen
<1>11. Blocks'
  BY <1>2, <1>3 DEF Blocks
<1> QED
  BY <1>1, <1>6, <1>8, <1>9, <1>11, <1>10 DEF DescInv, AddedFits

LEMMA RpcLineInv ==
  ASSUME DescInv, NEW place \in Places, NEW r \in DescOp, NEW block \in BOOLEAN,
         RpcLine(r, block, place)
  PROVE  DescInv'
<1> DEFINE F == Frame("block", "rpc")
           reached == Reached(place)
<1>1. /\ Innermost(open).kind = "service" /\ descStep' = "scan"
      /\ open' = IF block THEN Append(open, F) ELSE open
      /\ oddities' = NotedUnless(reached, "sharedLine")
      /\ rpcs' = IF Innermost(open).name = "own" THEN rpcs \cup {r} ELSE rpcs
      /\ seenRpcs' = IF reached /\ CurrentService = "own" THEN seenRpcs \cup {r} ELSE seenRpcs
      /\ UNCHANGED <<defined, frames, blind, seenMessages>>
  BY DEF RpcLine, FileGrows
<1>2. /\ open \in Seq(Frames) /\ open # <<>> /\ Len(open) = 1 /\ open[1].kind = "service"
      /\ InService /\ open[1].body = {} /\ open[1] \in Frames /\ Innermost(open) = open[1]
  BY <1>1, StackFacts DEF DescInv, Nesting, InService
<1>3. /\ reached \in BOOLEAN /\ (reached => ~blind)
      /\ F \in Frames /\ F.kind = "block" /\ F.name = "rpc"
  BY NewFrames, ReachedFacts
<1> HIDE DEF F, reached
<1>4. /\ open' \in Seq(Frames) /\ open' # <<>> /\ open'[1] = open[1] /\ Len(open') \in {1, 2}
      /\ \A i \in 2 .. Len(open') : open'[i] = F
  <2>1. CASE block
    <3>1. /\ Append(open, F) \in Seq(Frames) /\ Append(open, F) # <<>>
          /\ Len(Append(open, F)) = Len(open) + 1
          /\ \A i \in 1 .. Len(open) : Append(open, F)[i] = open[i]
          /\ Append(open, F)[Len(open) + 1] = F
      BY <1>2, <1>3, PushFacts
    <3>2. Len(open) = 1 /\ 1 \in 1 .. Len(open) /\ open' = Append(open, F)
      BY <2>1, <1>1, <1>2
    <3> HIDE DEF F
    <3>3. Len(open') = 2 /\ open'[1] = open[1] /\ open'[2] = F
      BY <3>1, <3>2
    <3> QED
      BY <3>1, <3>2, <3>3
  <2>2. CASE ~block
    <3>1. open' = open /\ Len(open') = 1
      BY <2>2, <1>1, <1>2
    <3> QED
      BY <3>1, <1>2
  <2> QED
    BY <2>1, <2>2
<1>5. InService' /\ ~InMessage' /\ ~InMessage
  BY <1>2, <1>4 DEF InService, InMessage
<1>6. /\ "comment" \in oddities' <=> "comment" \in oddities
      /\ "sharedLine" \notin oddities' => oddities' = oddities /\ (blind \/ reached)
      /\ blind <=> "comment" \in oddities
  BY <1>1, <1>3, NotedFacts DEF DescInv, Nesting
<1>7. Nesting'
  <2>1. \A i \in 1 .. Len(open') : open'[i].kind = "service" => i = 1 /\ open'[i].body = {}
    <3> TAKE i \in 1 .. Len(open')
    <3>1. i = 1 \/ i \in 2 .. Len(open')
      BY <1>4
    <3> QED
      BY <3>1, <1>2, <1>3, <1>4
  <2> QED
    BY <2>1, <1>1, <1>3, <1>4, <1>5, <1>6 DEF DescInv, Nesting
<1>8. FramesFit'
  BY <1>1, <1>2, <1>4, <1>5, <1>6 DEF DescInv, FramesFit
<1>9. ServiceSeen'
  <2> SUFFICES ASSUME oddities' \cap {"rpcBlock", "comment", "sharedLine"} = {}
               PROVE  rpcs' \subseteq seenRpcs' /\ Len(frames) = 1 /\ frames[1] = open[1]
    BY <1>1, <1>4 DEF ServiceSeen
  <2>1. /\ oddities' = oddities /\ reached /\ rpcs \subseteq seenRpcs
        /\ Len(frames) = 1 /\ frames[1] = open[1]
    BY <1>2, <1>6 DEF DescInv, ServiceSeen
  <2>2. frames \in Seq(Frames) /\ frames # <<>>
    BY <2>1, StackFacts DEF DescInv, Nesting
  <2>3. open[1].name = "own" => CurrentService = "own"
    BY <2>1, <2>2, <1>2 DEF CurrentService
  <2> QED
    BY <2>1, <2>3, <1>1, <1>2
<1>10. MessagesSeen' /\ FieldsSeen'
  BY <1>1, <1>5, <1>6 DEF DescInv, MessagesSeen, FieldsSeen
<1>11. Blocks'
  <2>1. Len(open') - 1 \in {0, 1} /\ Len(frames) \in Nat
    BY <1>4, StackFacts DEF DescInv, Nesting
  <2>2. \A i \in 1 .. Len(open') - 1 : open'[i] = open[1]
    BY <2>1, <1>4
  <2>3. ASSUME "sharedLine" \notin oddities', open'[Len(open')].kind = "block"
        PROVE  Len(frames') <= Len(open') - 1
    <3>1. Len(frames) <= 1
      BY <2>3, <1>2, <1>6 DEF DescInv, FramesFit
    <3>2. Len(open') = 2
      BY <2>3, <1>2, <1>4
    <3> QED
      BY <3>1, <3>2, <1>1
  <2> QED
    BY <2>2, <2>3, <1>2, <1>5 DEF Blocks
<1> QED
  BY <1>1, <1>7, <1>8, <1>9, <1>11, <1>10 DEF DescInv, AddedFits

(* In a message: what is innermost there.                                  *)
LEMMA InnermostMessage ==
  ASSUME DescInv, Innermost(open).kind = "message"
  PROVE  /\ InMessage /\ ~InService /\ open[Len(open)].kind = "message"
         /\ Innermost(open) = open[Len(open)]
         /\ Len(open) \in Nat /\ Len(open) >= 1 /\ open[1].kind = "message"
<1>1. open # <<>> /\ Innermost(open) = open[Len(open)] /\ Len(open) \in Nat /\ Len(open) >= 1
  BY StackFacts DEF DescInv, Nesting
<1>2. ~InService
  <2> SUFFICES ASSUME InService PROVE FALSE
    OBVIOUS
  <2>1. CASE Len(open) = 1
    <3>1. open[1].kind = "message"
      BY <1>1, <2>1
    <3> QED
      BY <3>1 DEF InService
  <2>2. CASE Len(open) \in 2 .. Len(open)
    <3>1. open[Len(open)].kind = "block"
      BY <2>2 DEF DescInv, Nesting
    <3> QED
      BY <3>1, <1>1
  <2>3. Len(open) = 1 \/ Len(open) \in 2 .. Len(open)
    BY <1>1, OneOrMore
  <2> QED
    BY <2>1, <2>2, <2>3
<1> QED
  BY <1>1, <1>2 DEF DescInv, Nesting, InMessage

LEMMA OpenMessageInv ==
  ASSUME DescInv, NEW place \in Places, NEW m \in Messages, OpenMessage(m, place)
  PROVE  DescInv'
<1> DEFINE F == Frame("message", m)
           reached == Reached(place)
<1>1. /\ Innermost(open).kind \in {"none", "message"} /\ descStep' = "scan"
      /\ open = <<>> => m \notin DOMAIN defined
      /\ open' = Append(open, F) /\ frames' = IF reached THEN Append(frames, F) ELSE frames
      /\ oddities' = NotedUnless(reached, "sharedLine")
      /\ UNCHANGED <<rpcs, defined, blind, seenRpcs, seenMessages>>
  BY DEF OpenMessage, FileGrows
<1>0. /\ reached \in BOOLEAN /\ (reached => ~blind)
      /\ "comment" \in oddities' <=> "comment" \in oddities
      /\ "sharedLine" \notin oddities' => oddities' = oddities /\ (blind \/ reached)
      /\ blind <=> "comment" \in oddities
  BY <1>1, ReachedFacts, NotedFacts DEF DescInv, Nesting
<1>2. F \in Frames /\ F.kind = "message" /\ F.name = m /\ F.body = {} /\ SeenFrame(F) = F
  BY NewFrames DEF SeenFrame, Frame
<1> HIDE DEF F, reached
<1>3. /\ open \in Seq(Frames) /\ frames \in Seq(Frames) /\ Len(open) \in Nat /\ Len(frames) \in Nat
      /\ frames = <<>> <=> Len(frames) = 0
      /\ "sharedLine" \notin oddities => Len(frames) <= Len(open)
  BY StackFacts DEF DescInv, Nesting, FramesFit
<1>4. /\ open' \in Seq(Frames) /\ open' # <<>> /\ Len(open') = Len(open) + 1
      /\ \A i \in 1 .. Len(open) : open'[i] = open[i]
      /\ open'[Len(open) + 1] = F
  BY <1>1, <1>2, <1>3, PushFacts
<1>5. reached => /\ frames' \in Seq(Frames) /\ frames' # <<>> /\ Len(frames') = Len(frames) + 1
                 /\ \A i \in 1 .. Len(frames) : frames'[i] = frames[i]
                 /\ frames'[Len(frames) + 1] = F
  BY <1>1, <1>2, <1>3, PushFacts
<1>6. ~reached => frames' = frames
  BY <1>1
<1>7. (open = <<>> /\ Len(open) = 0)
      \/ (InMessage /\ ~InService /\ Len(open) >= 1 /\ open[1].kind = "message")
  <2>1. CASE Innermost(open).kind = "none"
    BY <2>1, <1>3, StackFacts
  <2>2. CASE Innermost(open).kind = "message"
    BY <2>2, InnermostMessage
  <2> QED
    BY <2>1, <2>2, <1>1
<1>8. InMessage' /\ ~InService' /\ open'[1].kind = "message"
      /\ open'[1].name = IF open = <<>> THEN m ELSE open[1].name
  <2>1. CASE open = <<>> /\ Len(open) = 0
    BY <2>1, <1>2, <1>4 DEF InMessage, InService
  <2>2. CASE Len(open) >= 1 /\ open[1].kind = "message" /\ open # <<>>
    <3>1. 1 \in 1 .. Len(open)
      BY <2>2, <1>3
    <3> QED
      BY <2>2, <3>1, <1>4 DEF InMessage, InService
  <2> QED
    BY <2>1, <2>2, <1>7 DEF InMessage
<1>9. Nesting'
  <2>1. open'[1].name \notin DOMAIN defined
    BY <1>1, <1>7, <1>8 DEF DescInv, Nesting
  <2>2. \A i \in 1 .. Len(open') : open'[i].kind = "service" => i = 1 /\ open'[i].body = {}
    <3> TAKE i \in 1 .. Len(open')
    <3>1. i \in 1 .. Len(open) \/ i = Len(open) + 1
      BY <1>3, <1>4
    <3>2. CASE i \in 1 .. Len(open)
      BY <3>2, <1>4 DEF DescInv, Nesting
    <3>3. CASE i = Len(open) + 1
      BY <3>3, <1>2, <1>4
    <3> QED
      BY <3>1, <3>2, <3>3
  <2>3. frames' \in Seq(Frames) /\ (blind' => frames' = <<>>)
    BY <1>0, <1>1, <1>3, <1>5, <1>6 DEF DescInv, Nesting
  <2>4. blind' \in BOOLEAN /\ (blind' <=> "comment" \in oddities')
    BY <1>0, <1>1 DEF DescInv, Nesting
  <2> QED
    BY <2>1, <2>2, <2>3, <2>4, <1>1, <1>4, <1>8 DEF Nesting
<1>10. ServiceSeen' /\ FramesFit'
  <2>1. ServiceSeen'
    BY <1>0, <1>1, <1>8 DEF DescInv, ServiceSeen
  <2>2. "sharedLine" \notin oddities' => Len(frames') <= Len(open')
    BY <1>0, <1>3, <1>4, <1>5, <1>6
  <2> QED
    BY <2>1, <2>2, <1>8 DEF FramesFit
<1>11. MessagesSeen'
  <2> SUFFICES ASSUME oddities' \cap {"comment", "sharedLine"} = {}
               PROVE  /\ DOMAIN defined \subseteq DOMAIN seenMessages
                      /\ \/ frames' # <<>> /\ frames'[1].kind = "message"
                            /\ frames'[1].name = open'[1].name
                         \/ open'[1].name \in DOMAIN seenMessages
    BY <1>1 DEF MessagesSeen
  <2>1. /\ ~blind /\ reached /\ oddities \cap {"comment", "sharedLine"} = {}
        /\ DOMAIN defined \subseteq DOMAIN seenMessages /\ Len(frames) <= Len(open)
    BY <1>0, <1>3 DEF DescInv, MessagesSeen
  <2>2. CASE open = <<>> /\ Len(open) = 0
    <3>1. Len(frames) = 0
      BY <2>1, <2>2, <1>3
    <3> QED
      BY <3>1, <2>1, <2>2, <1>2, <1>3, <1>5, <1>8
  <2>3. CASE frames # <<>> /\ InMessage /\ open # <<>>
    <3>1. 1 \in 1 .. Len(frames)
      BY <2>3, <1>3, StackFacts
    <3> QED
      BY <3>1, <2>1, <2>3, <1>5, <1>8 DEF DescInv, MessagesSeen
  <2>4. CASE frames = <<>> /\ InMessage /\ open # <<>>
    BY <2>1, <2>4, <1>8 DEF DescInv, MessagesSeen
  <2> QED
    BY <2>1, <2>2, <2>3, <2>4, <1>7 DEF InMessage
<1>12. FieldsSeen'
  <2> SUFFICES ASSUME oddities' \cap {"block", "sharedField", "sharedLine"} = {}
               PROVE  /\ \A x \in DOMAIN seenMessages :
                           x \in DOMAIN defined /\ seenMessages[x] = defined[x] \ {"unseen"}
                      /\ ~blind => /\ Len(frames') = Len(open')
                                   /\ \A i \in 1 .. Len(open') : frames'[i] = SeenFrame(open'[i])
    BY <1>1 DEF FieldsSeen, SeenFrame
  <2>0. /\ oddities \cap {"block", "sharedField", "sharedLine"} = {}
        /\ ~blind => reached
        /\ Len(frames) <= Len(open)
    BY <1>0, <1>3
  <2>1. \A x \in DOMAIN seenMessages :
           x \in DOMAIN defined /\ seenMessages[x] = defined[x] \ {"unseen"}
    BY <2>0 DEF DescInv, FieldsSeen
  <2>2. ASSUME ~blind
        PROVE  /\ reached /\ Len(frames) = Len(open)
               /\ \A i \in 1 .. Len(open) : frames[i] = SeenFrame(open[i])
    BY <2>0, <2>2, <1>3, <1>7 DEF DescInv, FieldsSeen
  <2>3. ASSUME ~blind, NEW i \in 1 .. Len(open')
        PROVE  frames'[i] = SeenFrame(open'[i])
    <3>1. i \in 1 .. Len(open) \/ i = Len(open) + 1
      BY <1>3, <1>4
    <3>2. CASE i \in 1 .. Len(open)
      BY <2>2, <2>3, <3>2, <1>4, <1>5
    <3>3. CASE i = Len(open) + 1
      BY <2>2, <2>3, <3>3, <1>2, <1>4, <1>5
    <3> QED
      BY <3>1, <3>2, <3>3
  <2> QED
    BY <2>0, <2>1, <2>2, <2>3, <1>4, <1>5
<1>13. Blocks'
  <2>1. open # <<>> => open[Len(open)].kind = "message"
    BY <1>1, <1>3, StackFacts
  <2>2. \A i \in 1 .. Len(open) - 1 : open[i].kind # "block"
    BY DEF DescInv, Blocks
  <2>3. \A i \in 1 .. Len(open) : i = Len(open) \/ i \in 1 .. Len(open) - 1
    BY <1>3
  <2>4. \A i \in 1 .. Len(open) : open[i].kind # "block"
    BY <2>1, <2>2, <2>3, <1>3
  <2>5. \A i \in 1 .. Len(open') : open'[i].kind # "block"
    <3>1. \A i \in 1 .. Len(open') : i \in 1 .. Len(open) \/ i = Len(open) + 1
      BY <1>3, <1>4
    <3> QED
      BY <3>1, <2>4, <1>2, <1>4
  <2>6. /\ \A i \in 1 .. Len(open') - 1 : i \in 1 .. Len(open')
        /\ Len(open') \in 1 .. Len(open')
    BY <1>3, <1>4
  <2> QED
    BY <2>5, <2>6 DEF Blocks
<1> QED
  BY <1>1, <1>9, <1>10, <1>11, <1>12, <1>13 DEF DescInv, AddedFits

LEMMA FieldLineInv ==
  ASSUME DescInv, NEW place \in Places, NEW f \in Fields, FieldLine(f, place)
  PROVE  DescInv'
<1> DEFINE reached == FieldReached(place)
           noted == reached /\ Innermost(frames).kind = "message" /\ f # "unseen"
<1>1. /\ Innermost(open).kind = "message" /\ descStep' = "scan"
      /\ open' = WithField(open, f)
      /\ frames' = IF noted THEN WithField(frames, f) ELSE frames
      /\ oddities' = NotedUnless(reached, "sharedField")
      /\ UNCHANGED <<rpcs, defined, blind, seenRpcs, seenMessages>>
  BY DEF FieldLine, FileGrows
<1>0. /\ reached \in BOOLEAN /\ (reached => ~blind)
      /\ \A o \in oddities : o \in oddities'
      /\ \A o \in oddities' : o \in oddities \/ o = "sharedField"
      /\ "sharedField" \notin oddities' => oddities' = oddities /\ (blind \/ reached)
      /\ blind <=> "comment" \in oddities
  BY <1>1, ReachedFacts, NotedFacts DEF DescInv, Nesting
<1> HIDE DEF reached
<1>2. /\ InMessage /\ ~InService /\ open[Len(open)].kind = "message"
      /\ Len(open) \in Nat /\ Len(open) >= 1 /\ open[1].kind = "message"
  BY <1>1, InnermostMessage
<1>3. /\ open \in Seq(Frames) /\ frames \in Seq(Frames) /\ Len(frames) \in Nat
      /\ open # <<>>
      /\ frames = <<>> <=> Len(frames) = 0
  BY <1>2, StackFacts DEF DescInv, Nesting, InMessage
<1>4. \A i \in 1 .. Len(open) : open[i] \in Frames
  BY <1>3, StackFacts
<1>5. \A i \in 1 .. Len(frames) : frames[i] \in Frames
  BY <1>3, StackFacts
<1>6. /\ open' \in Seq(Frames) /\ Len(open') = Len(open)
      /\ \A i \in 1 .. Len(open) :
           open'[i] = IF i = Len(open) THEN [open[i] EXCEPT !.body = @ \cup {f}] ELSE open[i]
  BY <1>1, <1>3, FieldFacts
<1>7. noted => /\ frames # <<>> /\ frames' \in Seq(Frames) /\ Len(frames') = Len(frames)
               /\ \A i \in 1 .. Len(frames) :
                    frames'[i] = IF i = Len(frames) THEN [frames[i] EXCEPT !.body = @ \cup {f}]
                                 ELSE frames[i]
  <2> SUFFICES ASSUME noted
               PROVE  /\ frames # <<>> /\ frames' \in Seq(Frames) /\ Len(frames') = Len(frames)
                      /\ \A i \in 1 .. Len(frames) :
                           frames'[i] = IF i = Len(frames)
                                        THEN [frames[i] EXCEPT !.body = @ \cup {f}]
                                        ELSE frames[i]
    OBVIOUS
  <2>1. Innermost(frames).kind # "none" /\ frames' = WithField(frames, f)
    BY <1>1
  <2>2. frames # <<>>
    BY <2>1, <1>3, StackFacts
  <2> QED
    BY <2>1, <2>2, <1>3, FieldFacts
<1>8. ~noted => frames' = frames
  BY <1>1
<1>9. \A i \in 1 .. Len(open) : open'[i].kind = open[i].kind /\ open'[i].name = open[i].name
  BY <1>4, <1>6 DEF Frames
<1>10. /\ frames' \in Seq(Frames) /\ Len(frames') = Len(frames) /\ (frames' = <<>> <=> frames = <<>>)
       /\ \A i \in 1 .. Len(frames) :
            frames'[i].kind = frames[i].kind /\ frames'[i].name = frames[i].name
  <2>1. CASE noted
    <3>1. Len(frames') = Len(frames) /\ frames' \in Seq(Frames)
      BY <1>7, <2>1
    <3>2. \A i \in 1 .. Len(frames) :
            frames'[i].kind = frames[i].kind /\ frames'[i].name = frames[i].name
      BY <1>5, <1>7, <2>1 DEF Frames
    <3> QED
      BY <3>1, <3>2, <1>3, StackFacts
  <2>2. CASE ~noted
    BY <2>2, <1>3, <1>8
  <2> QED
    BY <2>1, <2>2
<1>11. InMessage' /\ ~InService' /\ open' # <<>> /\ open'[1].name = open[1].name
  <2>1. 1 \in 1 .. Len(open)
    BY <1>2
  <2>2. open' # <<>>
    BY <1>2, <1>6, StackFacts
  <2> QED
    BY <2>1, <2>2, <1>2, <1>9 DEF InMessage, InService
<1>12. Nesting'
  <2>1. \A i \in 1 .. Len(open') : open'[i].kind # "service"
    <3> TAKE i \in 1 .. Len(open')
    <3>1. open[i].kind # "service"
      BY <1>2, <1>6 DEF DescInv, Nesting
    <3> QED
      BY <3>1, <1>6, <1>9
  <2>2. blind' => frames' = <<>>
    BY <1>1, <1>10 DEF DescInv, Nesting
  <2>3. open'[1].name \notin DOMAIN defined'
    BY <1>1, <1>2, <1>11 DEF DescInv, Nesting
  <2>4. blind' \in BOOLEAN /\ (blind' <=> "comment" \in oddities')
    BY <1>0, <1>1 DEF DescInv, Nesting
  <2> QED
    BY <2>1, <2>2, <2>3, <2>4, <1>3, <1>6, <1>10, <1>11 DEF Nesting
<1>13. ServiceSeen' /\ FramesFit'
  BY <1>0, <1>1, <1>6, <1>10, <1>11 DEF DescInv, ServiceSeen, FramesFit
<1>14. MessagesSeen'
  <2> SUFFICES ASSUME oddities' \cap {"comment", "sharedLine"} = {}
               PROVE  /\ DOMAIN defined \subseteq DOMAIN seenMessages
                      /\ \/ frames' # <<>> /\ frames'[1].kind = "message"
                            /\ frames'[1].name = open'[1].name
                         \/ open'[1].name \in DOMAIN seenMessages
    BY <1>1 DEF MessagesSeen
  <2>1. frames # <<>> => 1 \in 1 .. Len(frames)
    BY <1>3
  <2> QED
    BY <2>1, <1>0, <1>2, <1>10, <1>11 DEF DescInv, MessagesSeen
<1>15. FieldsSeen'
  <2> SUFFICES ASSUME oddities' \cap {"block", "sharedField", "sharedLine"} = {}
               PROVE  /\ \A x \in DOMAIN seenMessages :
                           x \in DOMAIN defined /\ seenMessages[x] = defined[x] \ {"unseen"}
                      /\ ~blind => /\ Len(frames') = Len(open')
                                   /\ \A i \in 1 .. Len(open') : frames'[i] = SeenFrame(open'[i])
    BY <1>1 DEF FieldsSeen, SeenFrame
  <2>0. oddities \cap {"block", "sharedField", "sharedLine"} = {} /\ (~blind => reached)
    BY <1>0
  <2>1. \A x \in DOMAIN seenMessages :
           x \in DOMAIN defined /\ seenMessages[x] = defined[x] \ {"unseen"}
    BY <2>0 DEF DescInv, FieldsSeen
  <2>2. ASSUME ~blind
        PROVE  /\ reached /\ Len(frames) = Len(open)
               /\ \A i \in 1 .. Len(open) : frames[i] = SeenFrame(open[i])
    BY <2>0, <2>2, <1>2 DEF DescInv, FieldsSeen
  <2>3. ASSUME ~blind, NEW i \in 1 .. Len(open')
        PROVE  frames'[i] = SeenFrame(open'[i])
    <3>1. i \in 1 .. Len(open) /\ i \in 1 .. Len(frames) /\ frames[i] = SeenFrame(open[i])
          /\ open[i] \in Frames
      BY <2>2, <2>3, <1>4, <1>6
    <3>2. CASE i # Len(open)
      BY <2>2, <2>3, <3>1, <3>2, <1>6, <1>7, <1>8
    <3>3. CASE i = Len(open)
      <4>1. Innermost(frames).kind = "message"
        <5>1. Innermost(frames) = frames[i]
          BY <2>2, <2>3, <3>1, <3>3, <1>2, <1>3, StackFacts
        <5>2. SeenFrame(open[i]).kind = open[i].kind
          BY <3>1 DEF SeenFrame, Frames
        <5> QED
          BY <5>1, <5>2, <3>1, <3>3, <1>2
      <4>2. open'[i] = [open[i] EXCEPT !.body = @ \cup {f}]
        BY <1>6, <3>1, <3>3
      <4>3. CASE f = "unseen"
        <5>1. frames'[i] = frames[i]
          BY <4>3, <1>8
        <5> QED
          BY <5>1, <4>2, <4>3, <3>1 DEF SeenFrame, Frames
      <4>4. CASE f # "unseen"
        <5>1. frames'[i] = [frames[i] EXCEPT !.body = @ \cup {f}]
          BY <4>1, <4>4, <3>1, <3>3, <2>2, <2>3, <1>7
        <5>2. \A body : (body \cup {f}) \ {"unseen"} = (body \ {"unseen"}) \cup {f}
          BY <4>4
        <5> QED
          BY <5>1, <5>2, <4>2, <3>1 DEF SeenFrame, Frames
      <4> QED
        BY <4>3, <4>4
    <3> QED
      BY <3>2, <3>3
  <2> QED
    BY <2>1, <2>2, <2>3, <1>6, <1>10
<1>16. Blocks'
  <2>1. /\ \A i \in 1 .. Len(open) - 1 : open[i].kind # "block"
        /\ "block" \notin oddities => \A i \in 1 .. Len(open) : open[i].kind # "block"
    BY <1>2 DEF DescInv, Blocks
  <2>2. /\ \A i \in 1 .. Len(open) - 1 : i \in 1 .. Len(open)
        /\ Len(open) \in 1 .. Len(open)
    BY <1>2
  <2>3. open'[Len(open')].kind = "message"
    BY <2>2, <1>2, <1>6, <1>9
  <2> QED
    BY <2>1, <2>2, <2>3, <1>0, <1>6, <1>9 DEF Blocks
<1> QED
  BY <1>1, <1>16, <1>12, <1>13, <1>14, <1>15 DEF DescInv, AddedFits

LEMMA OpenBlockInv ==
  ASSUME DescInv, NEW place \in Places, OpenBlock(place)
  PROVE  DescInv'
<1> DEFINE F == Frame("block", "enum")
<1>1. /\ Innermost(open).kind = "message" /\ descStep' = "scan"
      /\ open' = Append(open, F) /\ oddities' = oddities \cup {"block"}
      /\ UNCHANGED <<rpcs, defined, frames, blind, seenRpcs, seenMessages>>
  BY DEF OpenBlock, FileGrows
<1>2. F \in Frames /\ F.kind = "block"
  BY NewFrames
<1> HIDE DEF F
<1>3. /\ InMessage /\ ~InService /\ Len(open) \in Nat /\ Len(open) >= 1 /\ open[1].kind = "message"
  BY <1>1, InnermostMessage
<1>4. /\ open \in Seq(Frames) /\ Len(frames) \in Nat
  BY StackFacts DEF DescInv, Nesting
<1>5. /\ open' \in Seq(Frames) /\ open' # <<>> /\ Len(open') = Len(open) + 1
      /\ \A i \in 1 .. Len(open) : open'[i] = open[i]
      /\ open'[Len(open) + 1] = F
  BY <1>1, <1>2, <1>4, PushFacts
<1>6. InMessage' /\ ~InService' /\ open'[1] = open[1]
  <2>1. 1 \in 1 .. Len(open)
    BY <1>3
  <2> QED
    BY <2>1, <1>3, <1>5 DEF InMessage, InService
<1>7. Nesting'
  <2>1. \A i \in 1 .. Len(open') : open'[i].kind # "service"
    <3> TAKE i \in 1 .. Len(open')
    <3>1. CASE i \in 1 .. Len(open)
      BY <3>1, <1>3, <1>5 DEF DescInv, Nesting
    <3>2. CASE i = Len(open) + 1
      BY <3>2, <1>2, <1>5
    <3> QED
      BY <3>1, <3>2, <1>3, <1>5
  <2>2. open'[1].name \notin DOMAIN defined'
    BY <1>1, <1>3, <1>6 DEF DescInv, Nesting
  <2>3. /\ blind' \in BOOLEAN /\ (blind' <=> "comment" \in oddities')
        /\ blind' => frames' = <<>>
    BY <1>1 DEF DescInv, Nesting
  <2>4. frames' \in Seq(Frames)
    BY <1>1 DEF DescInv, Nesting
  <2> QED
    BY <2>1, <2>2, <2>3, <2>4, <1>5, <1>6 DEF Nesting
<1>8. FramesFit' /\ ServiceSeen' /\ MessagesSeen' /\ FieldsSeen'
  BY <1>1, <1>3, <1>4, <1>5, <1>6 DEF DescInv, FramesFit, ServiceSeen, MessagesSeen, FieldsSeen
<1>9. Blocks'
  <2>1. \A i \in 1 .. Len(open') - 1 : i \in 1 .. Len(open)
    BY <1>3, <1>5
  <2>2. \A i \in 1 .. Len(open) : i \in 1 .. Len(open) - 1 \/ i = Len(open)
    BY <1>3
  <2>3. \A i \in 1 .. Len(open) : open[i].kind # "block"
    BY <2>2, <1>1, InnermostMessage DEF DescInv, Blocks
  <2>4. "sharedLine" \notin oddities' => Len(frames') <= Len(open') - 1
    BY <1>1, <1>3, <1>5 DEF DescInv, FramesFit
  <2> QED
    BY <2>1, <2>3, <2>4, <1>1, <1>5 DEF Blocks
<1> QED
  BY <1>1, <1>7, <1>8, <1>9 DEF DescInv, AddedFits

LEMMA CommentOpensInv ==
  ASSUME DescInv, CommentOpens
  PROVE  DescInv'
<1>1. /\ descStep' = "scan" /\ blind' = TRUE /\ frames' = <<>>
      /\ oddities' = oddities \cup {"comment"}
      /\ UNCHANGED <<open, rpcs, defined, seenRpcs, seenMessages>>
  BY DEF CommentOpens
<1>2. (InService' <=> InService) /\ (InMessage' <=> InMessage)
  BY <1>1 DEF InService, InMessage
<1>3. /\ frames' \in Seq(Frames) /\ Len(frames') = 0
      /\ Len(open) \in Nat
  BY <1>1, StackFacts DEF DescInv, Nesting
<1>4. Nesting'
  <2>1. blind' \in BOOLEAN /\ (blind' <=> "comment" \in oddities')
    BY <1>1
  <2> QED
    BY <2>1, <1>1, <1>2, <1>3 DEF DescInv, Nesting
<1>6. Blocks'
  <2>1. open # <<>> => Len(open) >= 1
    BY <1>3, StackFacts DEF DescInv, Nesting
  <2> QED
    BY <2>1, <1>1, <1>2, <1>3 DEF DescInv, Blocks
<1>5. FramesFit' /\ ServiceSeen' /\ MessagesSeen' /\ FieldsSeen'
  <2>1. FramesFit'
    BY <1>3 DEF FramesFit
  <2>2. ServiceSeen' /\ MessagesSeen'
    BY <1>1 DEF ServiceSeen, MessagesSeen
  <2>3. FieldsSeen'
    BY <1>1, <1>2 DEF DescInv, FieldsSeen
  <2> QED
    BY <2>1, <2>2, <2>3
<1> QED
  BY <1>1, <1>4, <1>5, <1>6 DEF DescInv, AddedFits

LEMMA CloseBraceInv ==
  ASSUME DescInv, NEW place \in Places, CloseBrace(place)
  PROVE  DescInv'
<1> DEFINE reached == Reached(place)
           top == open[Len(open)]
           pops == reached /\ frames # <<>>
           ends == Len(open) = 1 /\ open[Len(open)].kind = "message"
           notes == pops /\ Len(frames) = 1 /\ frames[Len(frames)].kind = "message"
<1>1. /\ open \in Seq(Frames) /\ frames \in Seq(Frames) /\ open # <<>>
      /\ Len(open) \in Nat /\ Len(open) >= 1 /\ Len(frames) \in Nat
      /\ frames = <<>> <=> Len(frames) = 0
  BY StackFacts DEF CloseBrace, DescInv, Nesting
<1>2. /\ Last(open) = open[Len(open)] /\ (frames # <<>> => Last(frames) = frames[Len(frames)])
  BY <1>1, PopFacts
<1>3. /\ open' = Front(open) /\ descStep' = "scan"
      /\ defined' = IF ends THEN WithMessage(defined, open[Len(open)]) ELSE defined
      /\ frames' = IF pops THEN Front(frames) ELSE frames
      /\ seenMessages' = IF notes THEN WithMessage(seenMessages, frames[Len(frames)])
                         ELSE seenMessages
      /\ oddities' = IF top.kind # "block" THEN NotedUnless(reached, "sharedLine")
                     ELSE IF top.name = "rpc" /\ reached THEN oddities \cup {"rpcBlock"}
                     ELSE oddities
      /\ UNCHANGED <<rpcs, blind, seenRpcs>>
  BY <1>2 DEF CloseBrace, FileGrows, Popped
<1>0. /\ reached \in BOOLEAN /\ (reached => ~blind)
      /\ \A o \in oddities : o \in oddities'
      /\ \A o \in oddities' : o \in oddities \/ o \in {"sharedLine", "rpcBlock"}
      /\ "sharedLine" \notin oddities' /\ top.kind # "block" => blind \/ reached
      /\ "rpcBlock" \notin oddities' /\ top.kind = "block" /\ top.name = "rpc" => ~reached
      /\ blind <=> "comment" \in oddities
  <2>1. reached \in BOOLEAN /\ (reached => ~blind) /\ (blind <=> "comment" \in oddities)
    BY ReachedFacts DEF DescInv, Nesting
  <2> HIDE DEF top, reached
  <2>2. CASE top.kind # "block"
    BY <2>1, <2>2, <1>3, NotedFacts
  <2>3. CASE top.kind = "block"
    BY <2>1, <2>3, <1>3
  <2> QED
    BY <2>1, <2>2, <2>3
<1> HIDE DEF reached
<1>4. /\ open' \in Seq(Frames) /\ Len(open') = Len(open) - 1
      /\ \A i \in 1 .. Len(open) - 1 : open'[i] = open[i]
  BY <1>1, <1>3, PopFacts
<1>5. pops => /\ frames' \in Seq(Frames) /\ Len(frames') = Len(frames) - 1
              /\ \A i \in 1 .. Len(frames) - 1 : frames'[i] = frames[i]
  BY <1>1, <1>3, PopFacts
<1>6. ~pops => frames' = frames /\ (reached => frames = <<>> /\ Len(frames) = 0)
  BY <1>1, <1>3
<1>7. frames' \in Seq(Frames) /\ Len(frames') \in Nat
      /\ Len(frames') = (IF pops THEN Len(frames) - 1 ELSE Len(frames))
      /\ (frames' = <<>> <=> Len(frames') = 0)
      /\ \A i \in 1 .. Len(frames') : i \in 1 .. Len(frames) /\ frames'[i] = frames[i]
  <2>1. CASE pops
    <3>1. frames' \in Seq(Frames) /\ Len(frames') = Len(frames) - 1
      BY <2>1, <1>5
    <3>2. Len(frames') \in Nat /\ (frames' = <<>> <=> Len(frames') = 0)
      BY <3>1, StackFacts
    <3> QED
      BY <2>1, <3>1, <3>2, <1>1, <1>4, <1>5
  <2>2. CASE ~pops
    BY <2>2, <1>1, <1>4, <1>6
  <2> QED
    BY <2>1, <2>2
<1>8. open' = <<>> <=> Len(open) = 1
  BY <1>1, <1>4, StackFacts
<1>9. Len(open) # 1 => /\ open'[1] = open[1] /\ ~ends
                       /\ (InService' <=> InService) /\ (InMessage' <=> InMessage)
  <2> SUFFICES ASSUME Len(open) # 1
               PROVE  /\ open'[1] = open[1] /\ ~ends
                      /\ (InService' <=> InService) /\ (InMessage' <=> InMessage)
    OBVIOUS
  <2>1. 1 \in 1 .. Len(open) - 1 /\ open' # <<>>
    BY <1>1, <1>8, OneOrMore
  <2> QED
    BY <2>1, <1>1, <1>4 DEF InService, InMessage
<1>10. Len(open) = 1 => ~InService' /\ ~InMessage' /\ open' = <<>>
  BY <1>8 DEF InService, InMessage
<1>11. ends <=> Len(open) = 1 /\ InMessage
  BY <1>1 DEF InMessage
<1> HIDE DEF ends
<1>12. Nesting'
  <2>1. open' = <<>> \/ InService' \/ InMessage'
    BY <1>8, <1>9, <1>1 DEF DescInv, Nesting
  <2>2. \A i \in 1 .. Len(open') : open'[i].kind = "service" => i = 1 /\ open'[i].body = {}
    <3>1. \A i \in 1 .. Len(open) : open[i].kind = "service" => i = 1 /\ open[i].body = {}
      BY DEF DescInv, Nesting
    <3>2. \A i \in 1 .. Len(open') : i \in 1 .. Len(open) /\ open'[i] = open[i]
      BY <1>1, <1>4
    <3> HIDE DEF DescInv
    <3> QED
      BY <3>1, <3>2
  <2>3. InService' => \A i \in 2 .. Len(open') : open'[i].kind = "block" /\ open'[i].name = "rpc"
    <3> SUFFICES ASSUME InService'
                 PROVE  \A i \in 2 .. Len(open') : open'[i].kind = "block" /\ open'[i].name = "rpc"
      OBVIOUS
    <3>1. InService
      BY <1>9, <1>10
    <3>2. \A i \in 2 .. Len(open) : open[i].kind = "block" /\ open[i].name = "rpc"
      BY <3>1 DEF DescInv, Nesting
    <3>3. \A i \in 2 .. Len(open') : i \in 2 .. Len(open) /\ i \in 1 .. Len(open) - 1
      BY <1>1, <1>4
    <3> QED
      BY <3>2, <3>3, <1>4
  <2>4. InMessage' => open'[1].name \notin DOMAIN defined'
    BY <1>3, <1>9, <1>10 DEF DescInv, Nesting
  <2>5. /\ blind' \in BOOLEAN /\ (blind' <=> "comment" \in oddities')
        /\ blind' => frames' = <<>>
    BY <1>0, <1>3, <1>6 DEF DescInv, Nesting
  <2> QED
    BY <2>1, <2>2, <2>3, <2>4, <2>5, <1>4, <1>7 DEF Nesting
<1>13. ServiceSeen' /\ FramesFit'
  <2>1. ServiceSeen'
    <3> SUFFICES ASSUME oddities' \cap {"rpcBlock", "comment", "sharedLine"} = {}
                 PROVE  /\ rpcs \subseteq seenRpcs
                        /\ InService' => Len(open') <= 2 /\ Len(frames') = 1 /\ frames'[1] = open'[1]
      BY <1>3 DEF ServiceSeen
    <3>1. /\ rpcs \subseteq seenRpcs
          /\ InService => Len(open) <= 2 /\ Len(frames) = 1 /\ frames[1] = open[1]
      BY <1>0 DEF DescInv, ServiceSeen
    <3>2. ASSUME InService'
          PROVE  Len(open') <= 2 /\ Len(frames') = 1 /\ frames'[1] = open'[1]
      <4>1. InService /\ Len(open) = 2 /\ open'[1] = open[1]
        <5>1. Len(open) # 1
          BY <3>2, <1>10
        <5>2. InService /\ open'[1] = open[1]
          BY <5>1, <3>2, <1>9
        <5>3. Len(open) <= 2 /\ Len(open) \in Nat /\ Len(open) >= 1
          BY <5>2, <3>1, <1>1
        <5>4. \A n \in Nat : n <= 2 /\ n >= 1 /\ n # 1 => n = 2
          OBVIOUS
        <5>5. Len(open) = 2
          BY <5>1, <5>3, <5>4
        <5> QED
          BY <5>2, <5>5
      <4>2. top.kind = "block" /\ top.name = "rpc"
        BY <4>1 DEF DescInv, Nesting
      <4>3. ~reached
        BY <4>2, <1>0
      <4> QED
        BY <4>1, <4>3, <3>1, <1>1, <1>3, <1>4
    <3> QED
      BY <3>1, <3>2
  <2>2. FramesFit'
    <3> SUFFICES ASSUME "sharedLine" \notin oddities'
                 PROVE  /\ Len(frames') <= Len(open')
                        /\ InService' => \A i \in 1 .. Len(frames') : frames'[i].kind # "message"
      BY DEF FramesFit
    <3>1. /\ Len(frames) <= Len(open)
          /\ InService => \A i \in 1 .. Len(frames) : frames[i].kind # "message"
      BY <1>0 DEF DescInv, FramesFit
    <3>2. Len(frames') <= Len(open')
      <4>1. CASE pops
        BY <4>1, <3>1, <1>1, <1>4, <1>7
      <4>2. CASE ~pops
        <5>1. CASE frames = <<>>
          BY <5>1, <1>1, <1>4, <1>6, <4>2
        <5>2. CASE frames # <<>>
          <6>1. ~reached /\ ~blind
            BY <5>2, <4>2 DEF DescInv, Nesting
          <6>2. top.kind = "block" /\ "sharedLine" \notin oddities
            BY <6>1, <1>0
          <6>3. Len(frames) <= Len(open) - 1
            BY <6>2, <1>1 DEF DescInv, Blocks
          <6> QED
            BY <6>3, <4>2, <1>4, <1>6
        <5> QED
          BY <5>1, <5>2
      <4> QED
        BY <4>1, <4>2
    <3>3. InService' => InService
      BY <1>9, <1>10
    <3> QED
      BY <3>1, <3>2, <3>3, <1>7
  <2> QED
    BY <2>1, <2>2
<1>14. /\ DOMAIN defined' = DOMAIN defined \cup (IF ends THEN {open[1].name} ELSE {})
       /\ \A m \in DOMAIN defined : defined'[m] = defined[m]
       /\ ends => open[1].name \notin DOMAIN defined /\ defined'[open[1].name] = open[1].body
  <2>1. ends => open[Len(open)] = open[1] /\ open[1].name \notin DOMAIN defined
    BY <1>11 DEF DescInv, Nesting
  <2>2. CASE ends
    <3>1. defined' = WithMessage(defined, open[1]) /\ open[1].name \notin DOMAIN defined
      BY <2>1, <2>2, <1>3
    <3>2. /\ DOMAIN defined' = DOMAIN defined \cup {open[1].name}
          /\ \A m \in DOMAIN defined : defined'[m] = defined[m]
          /\ defined'[open[1].name] = open[1].body
      BY <3>1 DEF WithMessage
    <3> QED
      BY ONLY <3>1, <3>2, <2>2
  <2>3. CASE ~ends
    BY <2>3, <1>3
  <2> QED
    BY <2>2, <2>3
<1>15. /\ DOMAIN seenMessages' = DOMAIN seenMessages \cup (IF notes THEN {frames[1].name} ELSE {})
       /\ \A m \in DOMAIN seenMessages : seenMessages'[m] = seenMessages[m]
       /\ notes /\ frames[1].name \notin DOMAIN seenMessages =>
            seenMessages'[frames[1].name] = frames[1].body
  <2>1. CASE notes
    <3>1. seenMessages' = WithMessage(seenMessages, frames[1])
      BY <2>1, <1>3
    <3> HIDE DEF notes
    <3>2. /\ DOMAIN seenMessages' = DOMAIN seenMessages \cup {frames[1].name}
          /\ \A m \in DOMAIN seenMessages : seenMessages'[m] = seenMessages[m]
          /\ frames[1].name \notin DOMAIN seenMessages =>
               seenMessages'[frames[1].name] = frames[1].body
      <4>1. CASE frames[1].name \in DOMAIN seenMessages
        BY <3>1, <4>1 DEF WithMessage
      <4>2. CASE frames[1].name \notin DOMAIN seenMessages
        BY <3>1, <4>2 DEF WithMessage
      <4> QED
        BY <4>1, <4>2
    <3> QED
      BY ONLY <3>2, <2>1
  <2>2. CASE ~notes
    BY <2>2, <1>3
  <2> QED
    BY <2>1, <2>2
<1>18. Blocks'
  <2>1. /\ \A i \in 1 .. Len(open) - 1 : open[i].kind # "block"
        /\ "block" \notin oddities /\ InMessage => \A i \in 1 .. Len(open) : open[i].kind # "block"
    BY DEF DescInv, Blocks
  <2>2. \A i \in 1 .. Len(open') : i \in 1 .. Len(open) - 1 /\ i \in 1 .. Len(open)
    BY <1>1, <1>4
  <2>3. \A i \in 1 .. Len(open') : open'[i].kind # "block"
    BY <2>1, <2>2, <1>4
  <2>4. /\ \A i \in 1 .. Len(open') - 1 : i \in 1 .. Len(open')
        /\ open' # <<>> => Len(open') \in 1 .. Len(open')
    BY <1>1, <1>4, <1>8
  <2> QED
    BY <2>3, <2>4 DEF Blocks
(* When nothing was missed, a brace that is not reached closes a block.    *)
<1>19. ASSUME "sharedLine" \notin oddities', ~blind, ~reached
       PROVE  (top.kind = "block" /\ "block" \in oddities) \/ InService
  <2>1. top.kind = "block"
    BY <1>0, <1>19
  <2>2. InMessage => "block" \in oddities
    BY <2>1, <1>1 DEF DescInv, Blocks
  <2> QED
    BY <2>1, <2>2, <1>1 DEF DescInv, Nesting
<1>16. MessagesSeen'
  <2> SUFFICES ASSUME oddities' \cap {"comment", "sharedLine"} = {}
               PROVE  /\ DOMAIN defined' \subseteq DOMAIN seenMessages'
                      /\ InMessage' => \/ frames' # <<>> /\ frames'[1].kind = "message"
                                          /\ frames'[1].name = open'[1].name
                                       \/ open'[1].name \in DOMAIN seenMessages'
    BY <1>3 DEF MessagesSeen
  <2>0. oddities \cap {"comment", "sharedLine"} = {} /\ Len(frames) <= Len(open)
    BY <1>0 DEF DescInv, FramesFit
  <2>1. ~blind /\ DOMAIN defined \subseteq DOMAIN seenMessages
    BY <2>0 DEF DescInv, Nesting, MessagesSeen
  <2>2. InMessage => \/ frames # <<>> /\ frames[1].kind = "message" /\ frames[1].name = open[1].name
                     \/ open[1].name \in DOMAIN seenMessages
    BY <2>0 DEF DescInv, MessagesSeen
  <2>3. InMessage /\ reached /\ frames # <<>> /\ Len(frames) = 1 => open[1].name \in DOMAIN seenMessages'
    BY <2>1, <2>2, <1>15
  <2>4. DOMAIN defined' \subseteq DOMAIN seenMessages'
    <3>1. ends => open[1].name \in DOMAIN seenMessages'
      <4> SUFFICES ASSUME ends PROVE open[1].name \in DOMAIN seenMessages'
        OBVIOUS
      <4>1. CASE frames = <<>>
        BY <4>1, <2>2, <1>11, <1>15
      <4>2. CASE frames # <<>>
        <5>1. top.kind # "block" /\ Len(frames) = 1
          <6>1. Len(open) = 1 /\ open[1].kind = "message"
            BY <1>11 DEF InMessage
          <6> QED
            BY <6>1, <4>2, <2>0, <1>1
        <5>2. reached
          BY <5>1, <2>1, <1>0
        <5> QED
          BY <5>1, <5>2, <4>2, <2>3, <1>11
      <4> QED
        BY <4>1, <4>2
    <3> QED
      BY <3>1, <2>1, <1>14, <1>15
  <2>5. ASSUME InMessage'
        PROVE  \/ frames' # <<>> /\ frames'[1].kind = "message" /\ frames'[1].name = open'[1].name
               \/ open'[1].name \in DOMAIN seenMessages'
    <3>1. InMessage /\ open'[1] = open[1]
      BY <2>5, <1>9, <1>10
    <3>2. CASE open[1].name \in DOMAIN seenMessages
      BY <3>1, <3>2, <1>15
    <3>3. CASE reached /\ frames # <<>> /\ Len(frames) = 1
      BY <3>1, <3>3, <2>3
    <3>5. CASE ~reached /\ frames # <<>> /\ frames[1].kind = "message"
               /\ frames[1].name = open[1].name
      BY <3>1, <3>5, <1>6
    <3>4. CASE reached /\ frames # <<>> /\ Len(frames) # 1 /\ frames[1].kind = "message"
               /\ frames[1].name = open[1].name
      <4>1. 1 \in 1 .. Len(frames) - 1 /\ pops /\ Len(frames) >= 2
        <5>1. Len(frames) >= 1
          BY <3>4, <1>1
        <5>2. 1 \in 1 .. Len(frames) - 1
          <6> HIDE DEF pops, notes
          <6>1. Len(frames) \in Nat /\ Len(frames) # 1
            BY <1>1, <3>4
          <6> QED
            BY <5>1, <6>1, OneOrMore
        <5>3. Len(frames) >= 2
          <6>1. Len(frames) \in Nat /\ Len(frames) # 1
            BY <1>1, <3>4
          <6>2. \A n \in Nat : n >= 1 /\ n # 1 => n >= 2
            OBVIOUS
          <6> HIDE DEF pops, notes
          <6> QED
            BY <5>1, <6>1, <6>2
        <5>4. pops
          BY <3>4
        <5> QED
          BY <5>2, <5>3, <5>4
      <4>2. frames'[1] = frames[1] /\ Len(frames') # 0
        BY <4>1, <1>1, <1>5
      <4> QED
        BY <4>2, <3>1, <3>4, <1>7
    <3> QED
      BY <3>1, <3>2, <3>3, <3>4, <3>5, <2>2
  <2> QED
    BY <2>4, <2>5
<1>17. FieldsSeen'
  <2> SUFFICES ASSUME oddities' \cap {"block", "sharedField", "sharedLine"} = {}
               PROVE  /\ \A m \in DOMAIN seenMessages' :
                           m \in DOMAIN defined' /\ seenMessages'[m] = defined'[m] \ {"unseen"}
                      /\ InMessage' /\ ~blind =>
                           /\ Len(frames') = Len(open')
                           /\ \A i \in 1 .. Len(open') : frames'[i] = SeenFrame(open'[i])
    BY <1>3 DEF FieldsSeen, SeenFrame
  <2>0. oddities \cap {"block", "sharedField", "sharedLine"} = {} /\ "block" \notin oddities'
    BY <1>0
  <2>1. \A m \in DOMAIN seenMessages :
           m \in DOMAIN defined /\ seenMessages[m] = defined[m] \ {"unseen"}
    BY <2>0 DEF DescInv, FieldsSeen
  <2>2. InMessage /\ ~blind => /\ Len(frames) = Len(open)
                               /\ \A i \in 1 .. Len(open) : frames[i] = SeenFrame(open[i])
    BY <2>0 DEF DescInv, FieldsSeen
  <2>3. ASSUME NEW m \in DOMAIN seenMessages'
        PROVE  m \in DOMAIN defined' /\ seenMessages'[m] = defined'[m] \ {"unseen"}
    <3>1. CASE m \in DOMAIN seenMessages
      BY <3>1, <2>1, <1>14, <1>15
    <3>2. CASE m \notin DOMAIN seenMessages
      <4>1. notes /\ m = frames[1].name /\ seenMessages'[m] = frames[1].body
        BY <3>2, <2>3, <1>15
      <4>2. InMessage /\ ~blind /\ Len(frames) = 1 /\ frames[1].kind = "message"
        <5>1. ~blind /\ frames # <<>> /\ Len(frames) = 1 /\ frames[1].kind = "message"
          BY <4>1, <1>0
        <5>2. ~InService
          BY <5>1, <2>0 DEF DescInv, FramesFit
        <5> QED
          BY <5>1, <5>2, <1>1 DEF DescInv, Nesting
      <4>3. Len(open) = 1 /\ frames[1] = SeenFrame(open[1]) /\ open[1] \in Frames
        BY <4>2, <2>2, <1>1, StackFacts
      <4>4. frames[1].name = open[1].name /\ frames[1].body = open[1].body \ {"unseen"}
        BY <4>3 DEF SeenFrame, Frames
      <4> QED
        BY <4>1, <4>2, <4>3, <4>4, <1>11, <1>14
    <3> QED
      BY <3>1, <3>2
  <2>4. ASSUME InMessage', ~blind
        PROVE  /\ Len(frames') = Len(open')
               /\ \A i \in 1 .. Len(open') : frames'[i] = SeenFrame(open'[i])
    <3>1. InMessage /\ Len(frames) = Len(open)
          /\ \A i \in 1 .. Len(open) : frames[i] = SeenFrame(open[i])
      BY <2>2, <2>4, <1>9, <1>10
    <3>2. pops
      <4>1. ~InService /\ frames # <<>>
        BY <3>1, <1>1 DEF InMessage, InService
      <4> QED
        BY <4>1, <2>0, <2>4, <1>19
    <3> QED
      BY <3>1, <3>2, <1>1, <1>4, <1>5
  <2> QED
    BY <2>3, <2>4
<1> QED
  BY <1>3, <1>12, <1>13, <1>16, <1>17, <1>18 DEF DescInv, AddedFits

LEMMA AddSchemaInv ==
  ASSUME DescInv, AddSchema
  PROVE  DescInv'
<1>1. /\ UNCHANGED <<open, rpcs, defined, frames, blind, seenRpcs, seenMessages, oddities>>
      /\ descStep' = "done"
  BY DEF AddSchema
<1> DEFINE Wanted(full) == UNION {Deps(r) : r \in Kept(full)}
<1>2. PICK full \in SUBSET Operations :
        added' = [rpcs |-> Kept(full), messages |-> Wanted(full) \ DOMAIN seenMessages]
  BY DEF AddSchema
<1>3. \A r \in Kept(full) : Deps(r) \subseteq Wanted(full)
  OBVIOUS
<1> HIDE DEF Wanted
<1>4. /\ added'.rpcs = Kept(full)
      /\ added'.messages = Wanted(full) \ DOMAIN seenMessages
  BY <1>2
<1>5. AddedFits'
  <2>1. \A r \in Kept(full) : r \notin seenRpcs
          /\ \A m \in Deps(r) \cap DOMAIN seenMessages : Same(seenMessages[m])
    BY DEF Kept
  <2>2. ASSUME NEW r \in Kept(full), NEW m \in Deps(r)
        PROVE  m \in added'.messages \/ (m \in DOMAIN seenMessages /\ Same(seenMessages[m]))
    <3>1. CASE m \in DOMAIN seenMessages
      BY <3>1, <2>1
    <3>2. CASE m \notin DOMAIN seenMessages
      <4>1. m \in Wanted(full)
        BY <1>3
      <4> QED
        BY <4>1, <3>2, <1>4
    <3> QED
      BY <3>1, <3>2
  <2>3. added'.rpcs \cap seenRpcs = {} /\ added'.messages \cap DOMAIN seenMessages = {}
    <3>1. added'.rpcs \cap seenRpcs = {}
      BY <2>1, <1>4
    <3>2. added'.messages \cap DOMAIN seenMessages = {}
      BY <1>4
    <3> QED
      BY <3>1, <3>2
  <2> QED
    BY <2>2, <2>3, <1>1, <1>4 DEF AddedFits, Same
<1>6. (Nesting /\ FramesFit /\ Blocks /\ ServiceSeen /\ MessagesSeen /\ FieldsSeen)'
  BY <1>1 DEF DescInv, Nesting, FramesFit, Blocks, ServiceSeen, MessagesSeen, FieldsSeen, InService, InMessage, SeenFrame
<1> QED
  BY <1>5, <1>6 DEF DescInv

(* What zctl rpc ent adds to a proto fits what the file had, however long  *)
(* the file and however its blocks are nested: rpcs, messages and fields   *)
(* are missed only behind the lines that the scanner does not expect.      *)
THEOREM AddedFitsTheFile == DescSpec => []AddsWhatIsMissing
<1>1. DescInv /\ [DescNext]_descVars => DescInv'
  <2> SUFFICES ASSUME DescInv, [DescNext]_descVars PROVE DescInv'
    OBVIOUS
  <2>1. CASE UNCHANGED descVars
    BY <2>1 DEF descVars, DescInv, Nesting, FramesFit, Blocks, ServiceSeen, MessagesSeen, FieldsSeen, AddedFits,
         InService, InMessage, SeenFrame, Same
  <2> QED
    BY <2>1, OpenServiceInv, RpcLineInv, OpenMessageInv, FieldLineInv, OpenBlockInv, CloseBraceInv,
       CommentOpensInv, AddSchemaInv DEF DescNext
<1>2. DescInv => AddsWhatIsMissing
  <2> SUFFICES ASSUME DescInv, descStep = "done" PROVE AddsWhatIsMissing
    BY DEF AddsWhatIsMissing
  <2>1. rpcs \cap added.rpcs # {} => oddities \cap {"rpcBlock", "comment", "sharedLine"} # {}
    BY DEF DescInv, ServiceSeen, AddedFits
  <2>2. DOMAIN defined \cap added.messages # {} => oddities \cap {"comment", "sharedLine"} # {}
    BY DEF DescInv, MessagesSeen, AddedFits
  <2>3. ASSUME oddities \cap {"block", "sharedField", "sharedLine"} = {},
               NEW r \in added.rpcs, NEW m \in Deps(r)
        PROVE  m \in added.messages \/ (m \in DOMAIN defined /\ Same(defined[m]))
    <3>1. CASE m \in added.messages
      BY <3>1
    <3>2. CASE m \in DOMAIN seenMessages /\ Same(seenMessages[m])
      <4>1. m \in DOMAIN defined /\ seenMessages[m] = defined[m] \ {"unseen"}
        BY <3>2, <2>3 DEF DescInv, FieldsSeen
      <4> QED
        BY <3>2, <4>1 DEF Same
    <3> QED
      BY <3>1, <3>2, <2>3 DEF DescInv, AddedFits
  <2> QED
    BY <2>1, <2>2, <2>3 DEF AddsWhatIsMissing
<1> QED
  BY <1>1, <1>2, DescInitInv, PTL DEF DescSpec
-----------------------------------------------------------------------------
(***************************************************************************)
(* ApiGoProject: what holds of the files at each step of a run, as long as *)
(* nothing was done that a run does not make up for.                       *)
(***************************************************************************)

PastMiddleware == {"done"}
PastLogic == {"middleware"} \cup PastMiddleware
PastHandlers == {"logic"} \cup PastLogic
PastRoutes == {"handlers"} \cup PastHandlers
PastTypes == {"routes"} \cup PastRoutes
PastSvc == {"types"} \cup PastTypes
PastMain == {"svc"} \cup PastSvc
PastConfig == {"main"} \cup PastMain
PastEtc == {"config"} \cup PastConfig

ApiRoute == [group : Groups, request : RouteBodies, response : RouteBodies, server : Servers,
             defined : BOOLEAN]
RunSteps ==
  {"ended", "etc", "config", "main", "svc", "types", "routes", "handlers", "logic", "middleware",
   "done", "killed"}
TwoBodies == [request : RouteBodies, response : RouteBodies]
ApiGoTypes ==
  /\ api \in [Route -> ApiRoute]
  /\ etcYaml \in File({"text"}) /\ configGo \in File(BOOLEAN) /\ mainGo \in File({"text"})
  /\ svc \in File(BOOLEAN) /\ middlewareGo \in File({"code"})
  /\ typeGo \in [TypeFiles -> File(SUBSET Type)]
  /\ handlerGo \in [Paths -> File(TwoBodies)] /\ logicGo \in [Paths -> File(TwoBodies)]
  /\ run \in [step : RunSteps, grouped : BOOLEAN]

(* The files that no run writes again are whole, belong to routes, and say *)
(* what their route says.                                                  *)
CodeWhole ==
  /\ etcYaml # Empty /\ configGo # Empty /\ mainGo # Empty
  /\ svc # Empty /\ middlewareGo # Empty
  /\ \A p \in Paths : handlerGo[p] # Empty /\ logicGo[p] # Empty
OnlyOfRoutes ==
  \A p \in Paths : handlerGo[p] # Missing \/ logicGo[p] # Missing => p[2] \in Defined /\ p = Path(p[2])
BodiesCurrent ==
  \A r \in Defined : /\ handlerGo[Path(r)] \in {Missing, Written(BodiesOf(r))}
                     /\ logicGo[Path(r)] \in {Missing, Written(BodiesOf(r))}

(* What the steps behind the run have brought about.                       *)
EtcDone == run.step \in PastEtc => etcYaml # Missing
ConfigDone == run.step \in PastConfig => configGo # Missing /\ (Secured => configGo.content)
MainDone == run.step \in PastMain => mainGo # Missing
StartDone == EtcDone /\ ConfigDone /\ MainDone
SvcDone == run.step \in PastSvc => svc # Missing /\ (Guarded => svc.content)
TypesDone ==
  run.step \in PastTypes =>
    /\ \A f \in TypeFiles : TypesOf(f) # {} => typeGo[f] = Written(TypesOf(f))
    /\ \A f \in TypeFiles : typeGo[f] # Empty
    /\ DeclaredIn("default") \cap DeclaredIn("g") = {}
RoutesDone ==
  run.step \in PastRoutes =>
    routesGo = Written([paths |-> {Path(r) : r \in Defined}, guarded |-> Guarded,
                        secured |-> Secured])
HandlersDone == run.step \in PastHandlers => \A r \in Defined : handlerGo[Path(r)] # Missing
LogicDone == run.step \in PastLogic => \A r \in Defined : logicGo[Path(r)] # Missing
MiddlewareDone == run.step \in PastMiddleware => (Guarded => middlewareGo # Missing)

FilesFit == CodeWhole /\ OnlyOfRoutes /\ BodiesCurrent
StepsFit ==
  /\ StartDone /\ SvcDone /\ TypesDone
  /\ RoutesDone /\ HandlersDone /\ LogicDone /\ MiddlewareDone
ApiGoInv == ApiGoTypes /\ (causes = {} => FilesFit /\ StepsFit)

LEMMA FileKinds ==
  /\ Missing # Empty
  /\ \A c : Written(c) # Missing /\ Written(c) # Empty /\ Written(c).content = c
  /\ \A S : Missing \in File(S) /\ Empty \in File(S) /\ \A c \in S : Written(c) \in File(S)
  /\ \A S : \A x \in File(S) : x = Missing \/ x = Empty \/ \E c \in S : x = Written(c)
BY DEF Missing, Empty, Written, File

LEMMA RouteFacts ==
  ASSUME ApiGoTypes
  PROVE  /\ Defined \subseteq Route
         /\ \A r \in Route : api[r] \in ApiRoute /\ Path(r) \in Paths /\ Path(r)[2] = r
                             /\ BodiesOf(r) \in TwoBodies /\ Used(r) \subseteq Type
         /\ Named \subseteq Type
         /\ \A f : TypesOf(f) \subseteq Named
         /\ \A t : FileOf(t) \in TypeFiles
<1>1. Defined \subseteq Route
  BY DEF Defined
<1>2. \A r \in Route : api[r] \in ApiRoute
  BY DEF ApiGoTypes
<1>3. ASSUME NEW r \in Route
      PROVE  Path(r) \in Paths /\ Path(r)[2] = r /\ BodiesOf(r) \in TwoBodies /\ Used(r) \subseteq Type
  <2>1. api[r].group \in Groups /\ api[r].request \in RouteBodies /\ api[r].response \in RouteBodies
    BY <1>2, <1>3 DEF ApiRoute
  <2>2. Path(r) \in Paths /\ Path(r)[2] = r
    BY <2>1, <1>3 DEF Path, Paths
  <2>3. BodiesOf(r) \in TwoBodies
    BY <2>1 DEF BodiesOf, TwoBodies
  <2>4. Used(r) \subseteq Type
    BY <2>1 DEF Used, RouteBodies
  <2> QED
    BY <2>2, <2>3, <2>4
<1>4. Named \subseteq Type
  BY <1>1, <1>3 DEF Named
<1>5. \A f : TypesOf(f) \subseteq Named
  BY DEF TypesOf
<1>6. \A t : FileOf(t) \in TypeFiles
  BY DEF FileOf, TypeFiles, Groups
<1> QED
  BY <1>1, <1>2, <1>3, <1>4, <1>5, <1>6

(* What depends on the api file alone.                                     *)
LEMMA SameApi ==
  ASSUME api' = api
  PROVE  /\ Defined' = Defined /\ (Guarded' <=> Guarded) /\ (Secured' <=> Secured)
         /\ Named' = Named
         /\ \A r : Path(r)' = Path(r) /\ BodiesOf(r)' = BodiesOf(r) /\ Used(r)' = Used(r)
         /\ run'.grouped = run.grouped => \A f : TypesOf(f)' = TypesOf(f)
<1>1. Defined' = Defined /\ \A r : Used(r)' = Used(r)
  BY DEF Defined, Used
<1>2. (Guarded' <=> Guarded) /\ (Secured' <=> Secured)
  BY <1>1 DEF Guarded, Secured
<1>3. Named' = Named /\ \A t : UsedIn(t)' = UsedIn(t)
  BY <1>1 DEF Named, UsedIn
<1>4. \A r : Path(r)' = Path(r) /\ BodiesOf(r)' = BodiesOf(r)
  BY DEF Path, BodiesOf
<1>5. run'.grouped = run.grouped => \A f : TypesOf(f)' = TypesOf(f)
  BY <1>3 DEF TypesOf, FileOf
<1> QED
  BY <1>1, <1>2, <1>3, <1>4, <1>5

LEMMA SameTypes ==
  ASSUME typeGo' = typeGo
  PROVE  \A f : DeclaredIn(f)' = DeclaredIn(f)
BY DEF DeclaredIn

LEMMA StepFacts ==
  ASSUME ApiGoTypes, NEW next \in RunSteps, NextStep(next)
  PROVE  run' \in [step : RunSteps, grouped : BOOLEAN] /\ run'.step = next /\ run'.grouped = run.grouped
BY DEF ApiGoTypes, NextStep

LEMMA ApiGoInitInv == ApiGoInit => ApiGoInv
<1> SUFFICES ASSUME ApiGoInit PROVE ApiGoInv
  OBVIOUS
<1> USE DEF ApiGoInit
<1>1. ApiGoTypes
  <2>1. Undefined \in ApiRoute
    BY ApiGoAssumption DEF ApiRoute, Undefined, Groups, RouteBodies
  <2>2. Ended \in [step : RunSteps, grouped : BOOLEAN]
    BY DEF Ended, RunSteps
  <2> QED
    BY <2>1, <2>2, FileKinds DEF ApiGoTypes
<1>2. Defined = {}
  BY DEF Defined, Undefined
<1>3. FilesFit
  BY <1>2, FileKinds DEF FilesFit, CodeWhole, OnlyOfRoutes, BodiesCurrent
<1>4. run.step = "ended"
  BY DEF Ended
<1>5. StepsFit
  BY <1>4 DEF StepsFit, StartDone, EtcDone, ConfigDone, MainDone, SvcDone, TypesDone, RoutesDone,
       HandlersDone, LogicDone, MiddlewareDone, PastEtc, PastConfig, PastMain, PastSvc, PastTypes, PastRoutes, PastHandlers, PastLogic, PastMiddleware
<1> QED
  BY <1>1, <1>3, <1>5 DEF ApiGoInv

(* Nothing is claimed of a run that has not started, or was stopped.       *)
LEMMA NothingBehind ==
  ASSUME run'.step \in {"ended", "killed", "etc"}
  PROVE  StepsFit'
BY DEF StepsFit, StartDone, EtcDone, ConfigDone, MainDone, SvcDone, TypesDone, RoutesDone,
   HandlersDone, LogicDone, MiddlewareDone, PastEtc, PastConfig, PastMain, PastSvc, PastTypes, PastRoutes, PastHandlers, PastLogic, PastMiddleware

LEMMA StartRunInv ==
  ASSUME ApiGoInv, NEW grouped \in BOOLEAN, StartRun(grouped)
  PROVE  ApiGoInv'
<1>1. /\ run' = [step |-> "etc", grouped |-> grouped]
      /\ UNCHANGED <<api, etcYaml, configGo, mainGo, svc, typeGo, routesGo, handlerGo, logicGo, middlewareGo, causes>>
  BY DEF StartRun, files, startFiles
<1>2. ApiGoTypes'
  <2>1. run' \in [step : RunSteps, grouped : BOOLEAN]
    BY <1>1 DEF RunSteps
  <2> QED
    BY <2>1, <1>1 DEF ApiGoInv, ApiGoTypes
<1>3. run'.step \in {"ended", "killed", "etc"}
  BY <1>1
<1>4. FilesFit => FilesFit'
  BY <1>1, SameApi DEF FilesFit, CodeWhole, OnlyOfRoutes, BodiesCurrent
<1> QED
  BY <1>1, <1>2, <1>3, <1>4, NothingBehind DEF ApiGoInv

(* The steps that are behind stay done: no step touches what another wrote *)
(* before it in the same run.                                              *)
LEMMA StillDone ==
  ASSUME api' = api, run'.grouped = run.grouped
  PROVE  /\ UNCHANGED <<etcYaml, configGo, mainGo>> /\ StartDone /\ run.step \in PastMain => StartDone'
         /\ svc' = svc /\ SvcDone /\ run.step \in PastSvc => SvcDone'
         /\ typeGo' = typeGo /\ TypesDone /\ run.step \in PastTypes => TypesDone'
         /\ routesGo' = routesGo /\ RoutesDone /\ run.step \in PastRoutes => RoutesDone'
         /\ handlerGo' = handlerGo /\ HandlersDone /\ run.step \in PastHandlers => HandlersDone'
         /\ logicGo' = logicGo /\ LogicDone /\ run.step \in PastLogic => LogicDone'
<1>0. UNCHANGED <<etcYaml, configGo, mainGo>> /\ StartDone /\ run.step \in PastMain => StartDone'
  BY SameApi DEF StartDone, EtcDone, ConfigDone, MainDone, PastConfig, PastEtc
<1>1. svc' = svc /\ SvcDone /\ run.step \in PastSvc => SvcDone'
  BY SameApi DEF SvcDone
<1>2. typeGo' = typeGo /\ TypesDone /\ run.step \in PastTypes => TypesDone'
  BY SameApi, SameTypes DEF TypesDone
<1>3. routesGo' = routesGo /\ RoutesDone /\ run.step \in PastRoutes => RoutesDone'
  <2>1. Defined' = Defined /\ (Guarded' <=> Guarded) /\ (Secured' <=> Secured)
          /\ \A r : Path(r)' = Path(r)
    BY SameApi
  <2>2. {Path(r) : r \in Defined}' = {Path(r) : r \in Defined}
    BY <2>1
  <2>3. Guarded' = Guarded /\ Secured' = Secured
    BY <2>1 DEF Guarded, Secured
  <2> QED
    BY <2>2, <2>3 DEF RoutesDone
<1>4. handlerGo' = handlerGo /\ HandlersDone /\ run.step \in PastHandlers => HandlersDone'
  BY SameApi DEF HandlersDone
<1>5. logicGo' = logicGo /\ LogicDone /\ run.step \in PastLogic => LogicDone'
  BY SameApi DEF LogicDone
<1> QED
  BY <1>0, <1>1, <1>2, <1>3, <1>4, <1>5

LEMMA GenEtcInv ==
  ASSUME ApiGoInv, GenEtc
  PROVE  ApiGoInv'
<1>1. /\ run.step = "etc" /\ NextStep("config")
      /\ etcYaml' = GeneratedFile(etcYaml, "text")
      /\ UNCHANGED <<api, configGo, mainGo, svc, typeGo, routesGo, handlerGo, logicGo,
                    middlewareGo, causes>>
  BY DEF GenEtc, At, projectFiles
<1>2. /\ run' \in [step : RunSteps, grouped : BOOLEAN] /\ run'.step = "config"
      /\ run'.grouped = run.grouped
  BY <1>1, StepFacts DEF ApiGoInv, RunSteps
<1>3. /\ etcYaml' \in File({"text"}) /\ etcYaml' # Missing
      /\ etcYaml # Empty => etcYaml' # Empty
  BY <1>1, FileKinds DEF ApiGoInv, ApiGoTypes, GeneratedFile
<1>4. ApiGoTypes'
  BY <1>1, <1>2, <1>3 DEF ApiGoInv, ApiGoTypes
<1>5. ASSUME causes' = {} PROVE FilesFit' /\ StepsFit'
  <2>1. FilesFit
    BY <1>1, <1>5 DEF ApiGoInv
  <2>2. FilesFit'
    BY <2>1, <1>1, <1>3, SameApi DEF FilesFit, CodeWhole, OnlyOfRoutes, BodiesCurrent
  <2>3. StepsFit'
    BY <1>1, <1>2, <1>3
       DEF StepsFit, StartDone, EtcDone, ConfigDone, MainDone, SvcDone, TypesDone, RoutesDone,
           HandlersDone, LogicDone, MiddlewareDone, PastConfig, PastMain, PastSvc, PastTypes,
           PastRoutes, PastHandlers, PastLogic, PastMiddleware
  <2> QED
    BY <2>2, <2>3
<1> QED
  BY <1>4, <1>5 DEF ApiGoInv

LEMMA GenConfigInv ==
  ASSUME ApiGoInv, GenConfig
  PROVE  ApiGoInv'
<1>1. /\ run.step = "config" /\ NextStep("main")
      /\ configGo' = GeneratedFile(configGo, Secured)
      /\ causes' = IF configGo # Missing /\ configGo # Empty /\ Secured /\ ~configGo.content
                   THEN causes \cup {"jwtAdded"} ELSE causes
      /\ UNCHANGED <<api, etcYaml, mainGo, svc, typeGo, routesGo, handlerGo, logicGo,
                    middlewareGo>>
  BY DEF GenConfig, At, projectFiles
<1>2. /\ run' \in [step : RunSteps, grouped : BOOLEAN] /\ run'.step = "main"
      /\ run'.grouped = run.grouped
  BY <1>1, StepFacts DEF ApiGoInv, RunSteps
<1>3. Secured \in BOOLEAN
  BY DEF Secured
<1>4. configGo' \in File(BOOLEAN)
  BY <1>1, <1>3, FileKinds DEF ApiGoInv, ApiGoTypes, GeneratedFile
<1>5. ApiGoTypes'
  BY <1>1, <1>2, <1>4 DEF ApiGoInv, ApiGoTypes
<1>6. ASSUME causes' = {} PROVE FilesFit' /\ StepsFit'
  <2>1. /\ causes = {} /\ FilesFit /\ EtcDone
        /\ ~(configGo # Missing /\ configGo # Empty /\ Secured /\ ~configGo.content)
    BY <1>1, <1>6 DEF ApiGoInv, StepsFit, StartDone
  <2>2. configGo' # Empty /\ configGo' # Missing /\ (Secured => configGo'.content)
    BY <2>1, <1>1, <1>3, FileKinds DEF GeneratedFile, FilesFit, CodeWhole
  <2>3. FilesFit'
    BY <2>1, <2>2, <1>1, SameApi DEF FilesFit, CodeWhole, OnlyOfRoutes, BodiesCurrent
  <2>4. EtcDone' /\ ConfigDone'
    BY <2>1, <2>2, <1>1, <1>2, SameApi DEF EtcDone, ConfigDone, PastEtc
  <2>5. StepsFit'
    BY <2>4, <1>2
       DEF StepsFit, StartDone, MainDone, SvcDone, TypesDone, RoutesDone,
           HandlersDone, LogicDone, MiddlewareDone, PastMain, PastSvc, PastTypes,
           PastRoutes, PastHandlers, PastLogic, PastMiddleware
  <2> QED
    BY <2>3, <2>5
<1> QED
  BY <1>5, <1>6 DEF ApiGoInv

LEMMA GenMainInv ==
  ASSUME ApiGoInv, GenMain
  PROVE  ApiGoInv'
<1>1. /\ run.step = "main" /\ NextStep("svc")
      /\ mainGo' = GeneratedFile(mainGo, "text")
      /\ UNCHANGED <<api, etcYaml, configGo, svc, typeGo, routesGo, handlerGo, logicGo,
                    middlewareGo, causes>>
  BY DEF GenMain, At, projectFiles
<1>2. /\ run' \in [step : RunSteps, grouped : BOOLEAN] /\ run'.step = "svc"
      /\ run'.grouped = run.grouped
  BY <1>1, StepFacts DEF ApiGoInv, RunSteps
<1>3. /\ mainGo' \in File({"text"}) /\ mainGo' # Missing
      /\ mainGo # Empty => mainGo' # Empty
  BY <1>1, FileKinds DEF ApiGoInv, ApiGoTypes, GeneratedFile
<1>4. ApiGoTypes'
  BY <1>1, <1>2, <1>3 DEF ApiGoInv, ApiGoTypes
<1>5. ASSUME causes' = {} PROVE FilesFit' /\ StepsFit'
  <2>1. FilesFit /\ EtcDone /\ ConfigDone
    BY <1>1, <1>5 DEF ApiGoInv, StepsFit, StartDone
  <2>2. FilesFit'
    BY <2>1, <1>1, <1>3, SameApi DEF FilesFit, CodeWhole, OnlyOfRoutes, BodiesCurrent
  <2>3. EtcDone' /\ ConfigDone' /\ MainDone'
    BY <2>1, <1>1, <1>2, <1>3, SameApi DEF EtcDone, ConfigDone, MainDone, PastEtc, PastConfig
  <2>4. StepsFit'
    BY <2>3, <1>2
       DEF StepsFit, StartDone, SvcDone, TypesDone, RoutesDone, HandlersDone, LogicDone,
           MiddlewareDone, PastSvc, PastTypes, PastRoutes, PastHandlers, PastLogic, PastMiddleware
  <2> QED
    BY <2>2, <2>4
<1> QED
  BY <1>4, <1>5 DEF ApiGoInv

LEMMA GenServiceContextInv ==
  ASSUME ApiGoInv, GenServiceContext
  PROVE  ApiGoInv'
<1>1. /\ run.step = "svc" /\ NextStep("types")
      /\ svc' = GeneratedFile(svc, Guarded)
      /\ causes' = IF svc # Missing /\ svc # Empty /\ Guarded /\ ~svc.content
                   THEN causes \cup {"middlewareAdded"} ELSE causes
      /\ UNCHANGED <<api, etcYaml, configGo, mainGo, typeGo, routesGo, handlerGo, logicGo, middlewareGo>>
  BY DEF GenServiceContext, At, startFiles
<1>2. /\ run' \in [step : RunSteps, grouped : BOOLEAN] /\ run'.step = "types"
      /\ run'.grouped = run.grouped
  BY <1>1, StepFacts DEF ApiGoInv, RunSteps
<1>3. Guarded \in BOOLEAN
  BY DEF Guarded
<1>4. svc' \in File(BOOLEAN)
  BY <1>1, <1>3, FileKinds DEF ApiGoInv, ApiGoTypes, GeneratedFile
<1>5. ApiGoTypes'
  BY <1>1, <1>2, <1>4 DEF ApiGoInv, ApiGoTypes
<1>6. ASSUME causes' = {} PROVE FilesFit' /\ StepsFit'
  <2>1. causes = {} /\ FilesFit /\ ~(svc # Missing /\ svc # Empty /\ Guarded /\ ~svc.content)
    BY <1>1, <1>6 DEF ApiGoInv
  <2>2. svc' # Empty /\ svc' # Missing /\ (Guarded => svc'.content)
    BY <2>1, <1>1, <1>3, FileKinds DEF GeneratedFile, FilesFit, CodeWhole
  <2>3. FilesFit'
    BY <2>1, <2>2, <1>1, SameApi DEF FilesFit, CodeWhole, OnlyOfRoutes, BodiesCurrent
  <2>4. StartDone'
    BY <2>1, <1>1, <1>2, StillDone DEF ApiGoInv, StepsFit, PastMain
  <2>5. StepsFit'
    BY <2>2, <2>4, <1>1, <1>2, SameApi
       DEF StepsFit, SvcDone, TypesDone, RoutesDone, HandlersDone, LogicDone, MiddlewareDone,
           PastTypes, PastRoutes, PastHandlers, PastLogic, PastMiddleware
  <2> QED
    BY <2>3, <2>5
<1> QED
  BY <1>5, <1>6 DEF ApiGoInv

LEMMA GenTypesInv ==
  ASSUME ApiGoInv, GenTypes
  PROVE  ApiGoInv'
<1>1. /\ run.step = "types" /\ NextStep("routes")
      /\ typeGo' = [f \in TypeFiles |-> IF TypesOf(f) = {} THEN typeGo[f] ELSE Written(TypesOf(f))]
      /\ causes' = IF \E f \in NotRewritten :
                        typeGo[f] = Empty \/ DeclaredIn(f) \cap DeclaredBeside(f) # {}
                   THEN causes \cup {"typesMoved"} ELSE causes
      /\ UNCHANGED <<api, etcYaml, configGo, mainGo, svc, routesGo, handlerGo, logicGo, middlewareGo>>
  BY DEF GenTypes, At, startFiles
<1>2. /\ run' \in [step : RunSteps, grouped : BOOLEAN] /\ run'.step = "routes"
      /\ run'.grouped = run.grouped
  BY <1>1, StepFacts DEF ApiGoInv, RunSteps
<1>3. \A f \in TypeFiles : TypesOf(f) \in SUBSET Type
  BY RouteFacts DEF ApiGoInv
<1>4. typeGo' \in [TypeFiles -> File(SUBSET Type)]
  BY <1>1, <1>3, FileKinds DEF ApiGoInv, ApiGoTypes
<1>5. ApiGoTypes'
  BY <1>1, <1>2, <1>4 DEF ApiGoInv, ApiGoTypes
<1>6. ASSUME causes' = {} PROVE FilesFit' /\ StepsFit'
  <2>1. /\ causes = {} /\ FilesFit /\ StartDone /\ SvcDone
        /\ \A f \in NotRewritten : typeGo[f] # Empty /\ DeclaredIn(f) \cap DeclaredBeside(f) = {}
    BY <1>1, <1>6 DEF ApiGoInv, StepsFit
  <2>2. FilesFit' /\ StartDone' /\ SvcDone'
    BY <2>1, <1>1, <1>2, SameApi, StillDone DEF FilesFit, CodeWhole, OnlyOfRoutes, BodiesCurrent,
         PastSvc, PastMain
  <2>3. \A f \in TypeFiles : TypesOf(f)' = TypesOf(f)
    BY <1>1, <1>2, SameApi
  <2>4. \A f \in TypeFiles :
          /\ TypesOf(f) # {} => typeGo'[f] = Written(TypesOf(f)) /\ DeclaredIn(f)' = TypesOf(f)
          /\ TypesOf(f) = {} => typeGo'[f] = typeGo[f] /\ DeclaredIn(f)' = DeclaredIn(f)
    BY <1>1, FileKinds DEF DeclaredIn
  <2>5. \A f \in TypeFiles : typeGo'[f] # Empty
    BY <2>1, <2>4, FileKinds DEF NotRewritten
  <2>6. \A f \in TypeFiles : DeclaredIn(f)' # {} /\ TypesOf(f) = {} =>
          f \in NotRewritten /\ DeclaredIn(f)' = DeclaredIn(f)
    BY <2>4 DEF NotRewritten, DeclaredIn
  <2>7. \A f, g \in TypeFiles : f # g => DeclaredIn(f)' \cap DeclaredIn(g)' = {}
    <3> TAKE f, g \in TypeFiles
    <3> SUFFICES ASSUME f # g, NEW t \in DeclaredIn(f)', t \in DeclaredIn(g)'
                 PROVE  FALSE
      OBVIOUS
    <3>1. CASE TypesOf(f) # {} /\ TypesOf(g) # {}
      <4>1. t \in TypesOf(f) /\ t \in TypesOf(g)
        BY <3>1, <2>4
      <4> QED
        BY <4>1 DEF TypesOf
    <3>2. CASE TypesOf(f) = {} /\ TypesOf(g) # {}
      <4>1. f \in NotRewritten /\ t \in DeclaredIn(f) /\ t \in Named
        BY <3>2, <2>4, <2>6, RouteFacts DEF ApiGoInv
      <4> QED
        BY <4>1, <2>1 DEF DeclaredBeside
    <3>3. CASE TypesOf(f) # {} /\ TypesOf(g) = {}
      <4>1. g \in NotRewritten /\ t \in DeclaredIn(g) /\ t \in Named
        BY <3>3, <2>4, <2>6, RouteFacts DEF ApiGoInv
      <4> QED
        BY <4>1, <2>1 DEF DeclaredBeside
    <3>4. CASE TypesOf(f) = {} /\ TypesOf(g) = {}
      <4>1. f \in NotRewritten /\ g \in NotRewritten /\ t \in DeclaredIn(f) /\ t \in DeclaredIn(g)
        BY <3>4, <2>4, <2>6
      <4>2. t \in DeclaredBeside(f)
        BY <4>1 DEF DeclaredBeside
      <4> QED
        BY <4>1, <4>2, <2>1
    <3> QED
      BY <3>1, <3>2, <3>3, <3>4
  <2>8. TypesDone'
    <3>1. "default" \in TypeFiles /\ "g" \in TypeFiles /\ "default" # "g"
      BY DEF TypeFiles, Groups
    <3>2. DeclaredIn("default")' \cap DeclaredIn("g")' = {}
      BY <3>1, <2>7
    <3> QED
      BY <3>2, <2>3, <2>4, <2>5 DEF TypesDone
  <2>9. StepsFit'
    BY <2>2, <2>8, <1>2 DEF StepsFit, RoutesDone, HandlersDone, LogicDone, MiddlewareDone,
         PastRoutes, PastHandlers, PastLogic, PastMiddleware
  <2> QED
    BY <2>2, <2>9
<1> QED
  BY <1>5, <1>6 DEF ApiGoInv

LEMMA GenRoutesInv ==
  ASSUME ApiGoInv, GenRoutes
  PROVE  ApiGoInv'
<1>1. /\ run.step = "routes" /\ NextStep("handlers")
      /\ routesGo' = Written([paths |-> {Path(r) : r \in Defined}, guarded |-> Guarded,
                            secured |-> Secured])
      /\ UNCHANGED <<api, etcYaml, configGo, mainGo, svc, typeGo, handlerGo, logicGo, middlewareGo, causes>>
  BY DEF GenRoutes, At, startFiles
<1>2. /\ run' \in [step : RunSteps, grouped : BOOLEAN] /\ run'.step = "handlers"
      /\ run'.grouped = run.grouped
  BY <1>1, StepFacts DEF ApiGoInv, RunSteps
<1>3. ApiGoTypes'
  BY <1>1, <1>2 DEF ApiGoInv, ApiGoTypes
<1>4. ASSUME causes' = {} PROVE FilesFit' /\ StepsFit'
  <2>1. FilesFit /\ StartDone /\ SvcDone /\ TypesDone
    BY <1>1, <1>4 DEF ApiGoInv, StepsFit
  <2>2. FilesFit' /\ StartDone' /\ SvcDone'
    BY <2>1, <1>1, <1>2, SameApi, StillDone DEF FilesFit, CodeWhole, OnlyOfRoutes, BodiesCurrent,
         PastSvc, PastMain, PastTypes
  <2>3. TypesDone'
    BY <2>1, <1>1, <1>2, SameApi, SameTypes DEF TypesDone, PastTypes
  <2>4. RoutesDone'
    <3>1. Defined' = Defined /\ (Guarded' <=> Guarded) /\ (Secured' <=> Secured)
          /\ \A r : Path(r)' = Path(r)
      BY <1>1, SameApi
    <3>2. {Path(r) : r \in Defined}' = {Path(r) : r \in Defined}
      BY <3>1
    <3>3. Guarded' = Guarded /\ Secured' = Secured
      BY <3>1 DEF Guarded, Secured
    <3> QED
      BY <3>2, <3>3, <1>1 DEF RoutesDone
  <2>5. StepsFit'
    BY <2>2, <2>3, <2>4, <1>2 DEF StepsFit, HandlersDone, LogicDone, MiddlewareDone,
         PastHandlers, PastLogic, PastMiddleware
  <2> QED
    BY <2>2, <2>5
<1> QED
  BY <1>3, <1>4 DEF ApiGoInv

LEMMA CompletedFacts ==
  ASSUME ApiGoTypes, NEW tree \in [Paths -> File(TwoBodies)]
  PROVE  /\ Completed(tree) \in [Paths -> File(TwoBodies)]
         /\ \A p \in Paths : Completed(tree)[p] =
              IF p[2] \in Defined /\ p = Path(p[2]) /\ tree[p] = Missing
              THEN Written(BodiesOf(p[2])) ELSE tree[p]
<1>1. \A p \in Paths : Completed(tree)[p] =
        IF p[2] \in Defined /\ p = Path(p[2]) /\ tree[p] = Missing
        THEN Written(BodiesOf(p[2])) ELSE tree[p]
  BY DEF Completed, GeneratedFile
<1>2. \A p \in Paths : p[2] \in Defined => Written(BodiesOf(p[2])) \in File(TwoBodies)
  BY RouteFacts, FileKinds
<1>3. \A p \in Paths : Completed(tree)[p] \in File(TwoBodies)
  BY <1>1, <1>2
<1>4. Completed(tree) = [p \in Paths |-> Completed(tree)[p]]
  BY DEF Completed
<1> QED
  BY <1>1, <1>3, <1>4

(* A tree that is completed stays whole, of routes and current, and has    *)
(* the files of every route.                                               *)
LEMMA CompletedFits ==
  ASSUME ApiGoTypes, NEW tree \in [Paths -> File(TwoBodies)],
         \A p \in Paths : tree[p] # Empty,
         \A p \in Paths : tree[p] # Missing => p[2] \in Defined /\ p = Path(p[2]),
         \A r \in Defined : tree[Path(r)] \in {Missing, Written(BodiesOf(r))}
  PROVE  /\ \A p \in Paths : Completed(tree)[p] # Empty
         /\ \A p \in Paths : Completed(tree)[p] # Missing => p[2] \in Defined /\ p = Path(p[2])
         /\ \A r \in Defined : Completed(tree)[Path(r)] = Written(BodiesOf(r))
<1>1. \A r \in Defined : Path(r) \in Paths /\ Path(r)[2] = r
  BY RouteFacts
<1>2. \A r \in Defined : Completed(tree)[Path(r)] = Written(BodiesOf(r))
  BY <1>1, CompletedFacts
<1> QED
  BY <1>2, CompletedFacts, FileKinds

LEMMA GenHandlersInv ==
  ASSUME ApiGoInv, GenHandlers
  PROVE  ApiGoInv'
<1>1. /\ run.step = "handlers" /\ NextStep("logic")
      /\ handlerGo' = Completed(handlerGo)
      /\ UNCHANGED <<api, etcYaml, configGo, mainGo, svc, typeGo, routesGo, logicGo, middlewareGo, causes>>
  BY DEF GenHandlers, At, startFiles
<1>2. /\ run' \in [step : RunSteps, grouped : BOOLEAN] /\ run'.step = "logic"
      /\ run'.grouped = run.grouped
  BY <1>1, StepFacts DEF ApiGoInv, RunSteps
<1>3. ApiGoTypes
  BY DEF ApiGoInv
<1>4. handlerGo' \in [Paths -> File(TwoBodies)]
  BY <1>1, <1>3, CompletedFacts DEF ApiGoTypes
<1>5. ApiGoTypes'
  BY <1>1, <1>2, <1>4 DEF ApiGoInv, ApiGoTypes
<1>6. ASSUME causes' = {} PROVE FilesFit' /\ StepsFit'
  <2>1. FilesFit /\ StartDone /\ SvcDone /\ TypesDone /\ RoutesDone
    BY <1>1, <1>6 DEF ApiGoInv, StepsFit
  <2>2. /\ \A p \in Paths : handlerGo'[p] # Empty
        /\ \A p \in Paths : handlerGo'[p] # Missing => p[2] \in Defined /\ p = Path(p[2])
        /\ \A r \in Defined : handlerGo'[Path(r)] = Written(BodiesOf(r))
    <3>1. /\ handlerGo \in [Paths -> File(TwoBodies)]
          /\ \A p \in Paths : handlerGo[p] # Empty
          /\ \A p \in Paths : handlerGo[p] # Missing => p[2] \in Defined /\ p = Path(p[2])
          /\ \A r \in Defined : handlerGo[Path(r)] \in {Missing, Written(BodiesOf(r))}
      BY <2>1, <1>3 DEF ApiGoTypes, FilesFit, CodeWhole, OnlyOfRoutes, BodiesCurrent
    <3> QED
      BY <3>1, <1>1, <1>3, CompletedFits
  <2>3. FilesFit'
    BY <2>1, <2>2, <1>1, SameApi DEF FilesFit, CodeWhole, OnlyOfRoutes, BodiesCurrent
  <2>4. StartDone' /\ SvcDone' /\ TypesDone' /\ RoutesDone'
    <3>1. run.step \in PastMain \cap PastSvc \cap PastTypes \cap PastRoutes
      BY <1>1 DEF PastMain, PastSvc, PastTypes, PastRoutes
    <3> QED
      BY <3>1, <2>1, <1>1, <1>2, StillDone
  <2>5. HandlersDone'
    BY <2>2, <1>1, SameApi, FileKinds DEF HandlersDone
  <2>6. StepsFit'
    BY <2>4, <2>5, <1>2 DEF StepsFit, LogicDone, MiddlewareDone, PastLogic, PastMiddleware
  <2> QED
    BY <2>3, <2>6
<1> QED
  BY <1>5, <1>6 DEF ApiGoInv

LEMMA GenLogicInv ==
  ASSUME ApiGoInv, GenLogic
  PROVE  ApiGoInv'
<1>1. /\ run.step = "logic" /\ NextStep("middleware")
      /\ logicGo' = Completed(logicGo)
      /\ UNCHANGED <<api, etcYaml, configGo, mainGo, svc, typeGo, routesGo, handlerGo, middlewareGo, causes>>
  BY DEF GenLogic, At, startFiles
<1>2. /\ run' \in [step : RunSteps, grouped : BOOLEAN] /\ run'.step = "middleware"
      /\ run'.grouped = run.grouped
  BY <1>1, StepFacts DEF ApiGoInv, RunSteps
<1>3. ApiGoTypes
  BY DEF ApiGoInv
<1>4. logicGo' \in [Paths -> File(TwoBodies)]
  BY <1>1, <1>3, CompletedFacts DEF ApiGoTypes
<1>5. ApiGoTypes'
  BY <1>1, <1>2, <1>4 DEF ApiGoInv, ApiGoTypes
<1>6. ASSUME causes' = {} PROVE FilesFit' /\ StepsFit'
  <2>1. FilesFit /\ StartDone /\ SvcDone /\ TypesDone /\ RoutesDone /\ HandlersDone
    BY <1>1, <1>6 DEF ApiGoInv, StepsFit
  <2>2. /\ \A p \in Paths : logicGo'[p] # Empty
        /\ \A p \in Paths : logicGo'[p] # Missing => p[2] \in Defined /\ p = Path(p[2])
        /\ \A r \in Defined : logicGo'[Path(r)] = Written(BodiesOf(r))
    <3>1. /\ logicGo \in [Paths -> File(TwoBodies)]
          /\ \A p \in Paths : logicGo[p] # Empty
          /\ \A p \in Paths : logicGo[p] # Missing => p[2] \in Defined /\ p = Path(p[2])
          /\ \A r \in Defined : logicGo[Path(r)] \in {Missing, Written(BodiesOf(r))}
      BY <2>1, <1>3 DEF ApiGoTypes, FilesFit, CodeWhole, OnlyOfRoutes, BodiesCurrent
    <3> QED
      BY <3>1, <1>1, <1>3, CompletedFits
  <2>3. FilesFit'
    BY <2>1, <2>2, <1>1, SameApi DEF FilesFit, CodeWhole, OnlyOfRoutes, BodiesCurrent
  <2>4. StartDone' /\ SvcDone' /\ TypesDone' /\ RoutesDone' /\ HandlersDone'
    <3>1. run.step \in PastMain \cap PastSvc \cap PastTypes \cap PastRoutes \cap PastHandlers
      BY <1>1 DEF PastMain, PastSvc, PastTypes, PastRoutes, PastHandlers
    <3> QED
      BY <3>1, <2>1, <1>1, <1>2, StillDone
  <2>5. LogicDone'
    BY <2>2, <1>1, SameApi, FileKinds DEF LogicDone
  <2>6. StepsFit'
    BY <2>4, <2>5, <1>2 DEF StepsFit, MiddlewareDone, PastMiddleware
  <2> QED
    BY <2>3, <2>6
<1> QED
  BY <1>5, <1>6 DEF ApiGoInv

LEMMA GenMiddlewareInv ==
  ASSUME ApiGoInv, GenMiddleware
  PROVE  ApiGoInv'
<1>1. /\ run.step = "middleware" /\ NextStep("done")
      /\ middlewareGo' = IF Guarded THEN GeneratedFile(middlewareGo, "code") ELSE middlewareGo
      /\ UNCHANGED <<api, etcYaml, configGo, mainGo, svc, typeGo, routesGo, handlerGo, logicGo, causes>>
  BY DEF GenMiddleware, At, startFiles
<1>2. /\ run' \in [step : RunSteps, grouped : BOOLEAN] /\ run'.step = "done"
      /\ run'.grouped = run.grouped
  BY <1>1, StepFacts DEF ApiGoInv, RunSteps
<1>3. /\ middlewareGo' \in File({"code"})
      /\ middlewareGo # Empty => middlewareGo' # Empty
      /\ Guarded => middlewareGo' # Missing
  BY <1>1, FileKinds DEF ApiGoInv, ApiGoTypes, GeneratedFile
<1>4. ApiGoTypes'
  BY <1>1, <1>2, <1>3 DEF ApiGoInv, ApiGoTypes
<1>5. ASSUME causes' = {} PROVE FilesFit' /\ StepsFit'
  <2>1. FilesFit /\ StartDone /\ SvcDone /\ TypesDone /\ RoutesDone /\ HandlersDone /\ LogicDone
    BY <1>1, <1>5 DEF ApiGoInv, StepsFit
  <2>2. FilesFit'
    BY <2>1, <1>1, <1>3, SameApi DEF FilesFit, CodeWhole, OnlyOfRoutes, BodiesCurrent
  <2>3. StartDone' /\ SvcDone' /\ TypesDone' /\ RoutesDone' /\ HandlersDone' /\ LogicDone'
    <3>1. run.step \in PastMain \cap PastSvc \cap PastTypes \cap PastRoutes \cap PastHandlers \cap PastLogic
      BY <1>1 DEF PastMain, PastSvc, PastTypes, PastRoutes, PastHandlers, PastLogic
    <3> QED
      BY <3>1, <2>1, <1>1, <1>2, StillDone
  <2>4. MiddlewareDone'
    BY <1>1, <1>3, SameApi DEF MiddlewareDone
  <2> QED
    BY <2>2, <2>3, <2>4 DEF StepsFit
<1> QED
  BY <1>4, <1>5 DEF ApiGoInv

LEMMA TornTreeFacts ==
  ASSUME ApiGoTypes, NEW tree \in [Paths -> File(TwoBodies)], NEW left \in TornTrees(tree)
  PROVE  /\ left \in [Paths -> File(TwoBodies)]
         /\ \A p \in Paths :
              \/ left[p] = tree[p] \/ left[p] = Empty
              \/ /\ p[2] \in Defined /\ p = Path(p[2])
                 /\ tree[p] = Missing /\ left[p] = Written(BodiesOf(p[2]))
<1>1. PICK done \in SUBSET Defined, torn \in SUBSET Defined :
        left = [p \in Paths |->
                  IF tree[p] # Missing \/ p \notin {Path(r) : r \in Defined} THEN tree[p]
                  ELSE IF p[2] \in torn THEN Empty
                  ELSE IF p[2] \in done THEN Written(BodiesOf(p[2])) ELSE Missing]
  BY DEF TornTrees
<1>2. \A p \in Paths : p \in {Path(r) : r \in Defined} => p[2] \in Defined /\ p = Path(p[2])
  BY RouteFacts
<1>3. \A p \in Paths :
        \/ left[p] = tree[p] \/ left[p] = Empty
        \/ /\ p[2] \in Defined /\ p = Path(p[2])
           /\ tree[p] = Missing /\ left[p] = Written(BodiesOf(p[2]))
  BY <1>1, <1>2
<1>4. \A p \in Paths : left[p] \in File(TwoBodies)
  BY <1>3, RouteFacts, FileKinds
<1>5. left = [p \in Paths |-> left[p]]
  BY <1>1
<1> QED
  BY <1>3, <1>4, <1>5

(* A run that is stopped leaves whole files, or the cause says "torn".     *)
LEMMA KilledInv ==
  ASSUME ApiGoInv, Killed
  PROVE  ApiGoInv'
<1>1. /\ NextStep("killed") /\ UNCHANGED api
      /\ etcYaml' \in TornFile(etcYaml) \cup {etcYaml}
      /\ configGo' \in TornFile(configGo) \cup {configGo}
      /\ mainGo' \in TornFile(mainGo) \cup {mainGo}
      /\ svc' \in TornFile(svc) \cup {svc}
      /\ TornTypes \/ UNCHANGED typeGo
      /\ handlerGo' \in TornTrees(handlerGo) \cup {handlerGo}
      /\ logicGo' \in TornTrees(logicGo) \cup {logicGo}
      /\ middlewareGo' \in TornFile(middlewareGo) \cup {middlewareGo}
      /\ causes' = IF \/ Empty \in {etcYaml', configGo', mainGo', svc', middlewareGo'}
                      \/ \E p \in Paths : Empty \in {handlerGo'[p], logicGo'[p]}
                   THEN causes \cup {"torn"} ELSE causes
  BY DEF Killed
<1>2. /\ run' \in [step : RunSteps, grouped : BOOLEAN] /\ run'.step = "killed"
  BY <1>1, StepFacts DEF ApiGoInv, RunSteps
<1>3. ApiGoTypes /\ handlerGo \in [Paths -> File(TwoBodies)] /\ logicGo \in [Paths -> File(TwoBodies)]
  BY DEF ApiGoInv, ApiGoTypes
<1>4. /\ etcYaml' \in File({"text"}) /\ configGo' \in File(BOOLEAN) /\ mainGo' \in File({"text"})
      /\ svc' \in File(BOOLEAN) /\ middlewareGo' \in File({"code"})
  BY <1>1, <1>3, FileKinds DEF ApiGoTypes, TornFile
<1>5. typeGo' \in [TypeFiles -> File(SUBSET Type)]
  <2>1. CASE UNCHANGED typeGo
    BY <2>1, <1>3 DEF ApiGoTypes
  <2>2. CASE TornTypes
    <3>1. PICK done \in SUBSET TornFiles, torn \in SUBSET TornFiles, left \in {Missing, Empty} :
            typeGo' = [f \in TypeFiles |-> IF f \in torn THEN left
                                           ELSE IF f \in done THEN Written(TypesOf(f)) ELSE typeGo[f]]
      BY <2>2 DEF TornTypes
    <3>2. \A f \in TypeFiles : TypesOf(f) \in SUBSET Type
      BY <1>3, RouteFacts
    <3> QED
      BY <3>1, <3>2, <1>3, FileKinds DEF ApiGoTypes
  <2> QED
    BY <1>1, <2>1, <2>2
<1>6. /\ handlerGo' \in [Paths -> File(TwoBodies)]
      /\ \A p \in Paths :
           \/ handlerGo'[p] = handlerGo[p] \/ handlerGo'[p] = Empty
           \/ /\ p[2] \in Defined /\ p = Path(p[2])
              /\ handlerGo[p] = Missing /\ handlerGo'[p] = Written(BodiesOf(p[2]))
  BY <1>1, <1>3, TornTreeFacts
<1>7. /\ logicGo' \in [Paths -> File(TwoBodies)]
      /\ \A p \in Paths :
           \/ logicGo'[p] = logicGo[p] \/ logicGo'[p] = Empty
           \/ /\ p[2] \in Defined /\ p = Path(p[2])
              /\ logicGo[p] = Missing /\ logicGo'[p] = Written(BodiesOf(p[2]))
  BY <1>1, <1>3, TornTreeFacts
<1>8. ApiGoTypes'
  BY <1>1, <1>2, <1>3, <1>4, <1>5, <1>6, <1>7 DEF ApiGoTypes
<1>9. ASSUME causes' = {} PROVE FilesFit' /\ StepsFit'
  <2>1. /\ FilesFit /\ svc' # Empty /\ middlewareGo' # Empty
        /\ etcYaml' # Empty /\ configGo' # Empty /\ mainGo' # Empty
        /\ \A p \in Paths : handlerGo'[p] # Empty /\ logicGo'[p] # Empty
    BY <1>1, <1>9 DEF ApiGoInv
  <2>2. CodeWhole'
    BY <2>1 DEF CodeWhole
  <2>3. OnlyOfRoutes'
    BY <2>1, <1>1, <1>6, <1>7, SameApi DEF FilesFit, OnlyOfRoutes
  <2>4. BodiesCurrent'
    <3>1. \A r \in Defined : Path(r) \in Paths /\ Path(r)[2] = r
      BY <1>3, RouteFacts
    <3> QED
      BY <3>1, <2>1, <1>1, <1>6, <1>7, SameApi DEF FilesFit, BodiesCurrent
  <2> QED
    BY <2>2, <2>3, <2>4, <1>2, NothingBehind DEF FilesFit
<1> QED
  BY <1>8, <1>9 DEF ApiGoInv

(* A route that is new has no files.                                       *)
LEMMA AddRouteInv ==
  ASSUME ApiGoInv, NEW r \in Route, NEW group \in Groups, NEW request \in RouteBodies,
         NEW response \in RouteBodies, NEW server \in Servers,
         AddRoute(r, group, request, response, server)
  PROVE  ApiGoInv'
<1> DEFINE new == [group |-> group, request |-> request, response |-> response,
                   server |-> server, defined |-> TRUE]
<1>1. /\ ~api[r].defined /\ api' = [api EXCEPT ![r] = new] /\ run' = Ended
      /\ UNCHANGED <<etcYaml, configGo, mainGo, svc, typeGo, routesGo, handlerGo, logicGo,
                    middlewareGo, causes>>
  BY DEF AddRoute, files, startFiles
<1>2. new \in ApiRoute /\ new.defined
  BY DEF ApiRoute
<1> HIDE DEF new
<1>3. ApiGoTypes'
  <2>1. Ended \in [step : RunSteps, grouped : BOOLEAN]
    BY DEF Ended, RunSteps
  <2> QED
    BY <2>1, <1>1, <1>2 DEF ApiGoInv, ApiGoTypes
<1>4. run'.step = "ended"
  BY <1>1 DEF Ended
<1>5. api \in [Route -> ApiRoute] /\ r \notin Defined
  BY <1>1 DEF ApiGoInv, ApiGoTypes, Defined
<1>6. Defined' = Defined \cup {r}
  BY <1>1, <1>2, <1>5 DEF Defined
<1>7. \A q \in Defined : q # r /\ Path(q)' = Path(q) /\ BodiesOf(q)' = BodiesOf(q)
  BY <1>1, <1>5, RouteFacts DEF ApiGoInv, Path, BodiesOf, Defined
<1>8. ASSUME causes' = {} PROVE FilesFit' /\ StepsFit'
  <2>1. FilesFit
    BY <1>1, <1>8 DEF ApiGoInv
  <2>2. CodeWhole'
    BY <2>1, <1>1 DEF FilesFit, CodeWhole
  <2>3. OnlyOfRoutes'
    BY <2>1, <1>1, <1>6, <1>7 DEF FilesFit, OnlyOfRoutes
  <2>4. BodiesCurrent'
    <3>1. ASSUME NEW q \in Defined
          PROVE  /\ handlerGo'[Path(q)'] \in {Missing, Written(BodiesOf(q)')}
                 /\ logicGo'[Path(q)'] \in {Missing, Written(BodiesOf(q)')}
      BY <2>1, <3>1, <1>1, <1>7 DEF FilesFit, BodiesCurrent
    <3>2. handlerGo'[Path(r)'] = Missing /\ logicGo'[Path(r)'] = Missing
      <4>1. Path(r)' \in Paths /\ Path(r)'[2] = r
        BY <1>1, <1>2, <1>5 DEF Path, Paths, ApiRoute
      <4> QED
        BY <4>1, <2>1, <1>1, <1>5 DEF FilesFit, OnlyOfRoutes
    <3> QED
      BY <3>1, <3>2, <1>6 DEF BodiesCurrent
  <2> QED
    BY <2>2, <2>3, <2>4, <1>4, NothingBehind DEF FilesFit
<1> QED
  BY <1>3, <1>8 DEF ApiGoInv

LEMMA ChangeRouteInv ==
  ASSUME ApiGoInv, NEW r \in Route, NEW request \in RouteBodies, ChangeRoute(r, request)
  PROVE  ApiGoInv'
<1>1. /\ api[r].defined /\ api' = [api EXCEPT ![r].request = request] /\ run' = Ended
      /\ causes' = IF handlerGo[Path(r)] = Missing /\ logicGo[Path(r)] = Missing THEN causes
                   ELSE causes \cup {"routeChanged"}
      /\ UNCHANGED <<etcYaml, configGo, mainGo, svc, typeGo, routesGo, handlerGo, logicGo,
                    middlewareGo>>
  BY DEF ChangeRoute, files, startFiles
<1>2. api \in [Route -> ApiRoute] /\ r \in Defined
  BY <1>1 DEF ApiGoInv, ApiGoTypes, Defined
<1>3. /\ api' \in [Route -> ApiRoute]
      /\ \A q \in Route : /\ api'[q].defined = api[q].defined /\ api'[q].group = api[q].group
                          /\ q # r => api'[q] = api[q]
  BY <1>1, <1>2 DEF ApiRoute
<1>4. ApiGoTypes'
  <2>1. Ended \in [step : RunSteps, grouped : BOOLEAN]
    BY DEF Ended, RunSteps
  <2> QED
    BY <2>1, <1>1, <1>3 DEF ApiGoInv, ApiGoTypes
<1>5. run'.step = "ended"
  BY <1>1 DEF Ended
<1>6. Defined' = Defined /\ Defined \subseteq Route
  BY <1>3 DEF Defined
<1>7. \A q \in Defined : Path(q)' = Path(q) /\ (q # r => BodiesOf(q)' = BodiesOf(q))
  BY <1>3, <1>6 DEF Path, BodiesOf
<1>8. ASSUME causes' = {} PROVE FilesFit' /\ StepsFit'
  <2>1. FilesFit /\ handlerGo[Path(r)] = Missing /\ logicGo[Path(r)] = Missing
    BY <1>1, <1>8 DEF ApiGoInv
  <2>2. CodeWhole' /\ OnlyOfRoutes'
    BY <2>1, <1>1, <1>6, <1>7 DEF FilesFit, CodeWhole, OnlyOfRoutes
  <2>3. BodiesCurrent'
    <3>1. ASSUME NEW q \in Defined
          PROVE  /\ handlerGo[Path(q)] \in {Missing, Written(BodiesOf(q)')}
                 /\ logicGo[Path(q)] \in {Missing, Written(BodiesOf(q)')}
      BY <2>1, <1>7 DEF FilesFit, BodiesCurrent
    <3> QED
      BY <3>1, <1>1, <1>6, <1>7 DEF BodiesCurrent
  <2> QED
    BY <2>2, <2>3, <1>5, NothingBehind DEF FilesFit
<1> QED
  BY <1>4, <1>8 DEF ApiGoInv

LEMMA DeleteGeneratedInv ==
  ASSUME ApiGoInv, NEW p \in Paths, DeleteGenerated(p)
  PROVE  ApiGoInv'
<1>1. /\ handlerGo' = [handlerGo EXCEPT ![p] = Missing]
      /\ logicGo' = [logicGo EXCEPT ![p] = Missing]
      /\ run' = Ended
      /\ UNCHANGED <<api, etcYaml, configGo, mainGo, svc, typeGo, routesGo, middlewareGo, causes>>
  BY DEF DeleteGenerated, startFiles
<1>2. /\ handlerGo \in [Paths -> File(TwoBodies)] /\ logicGo \in [Paths -> File(TwoBodies)]
      /\ handlerGo' \in [Paths -> File(TwoBodies)] /\ logicGo' \in [Paths -> File(TwoBodies)]
      /\ \A q \in Paths : /\ handlerGo'[q] \in {handlerGo[q], Missing}
                          /\ logicGo'[q] \in {logicGo[q], Missing}
  BY <1>1, FileKinds DEF ApiGoInv, ApiGoTypes
<1>3. ApiGoTypes'
  <2>1. Ended \in [step : RunSteps, grouped : BOOLEAN]
    BY DEF Ended, RunSteps
  <2> QED
    BY <2>1, <1>1, <1>2 DEF ApiGoInv, ApiGoTypes
<1>4. run'.step = "ended"
  BY <1>1 DEF Ended
<1>5. ASSUME causes' = {} PROVE FilesFit' /\ StepsFit'
  <2>1. FilesFit
    BY <1>1, <1>5 DEF ApiGoInv
  <2>2. CodeWhole' /\ OnlyOfRoutes'
    BY <2>1, <1>1, <1>2, SameApi, FileKinds DEF FilesFit, CodeWhole, OnlyOfRoutes
  <2>3. BodiesCurrent'
    <3>1. \A r \in Defined : Path(r) \in Paths
      BY RouteFacts DEF ApiGoInv
    <3> QED
      BY <3>1, <2>1, <1>1, <1>2, SameApi DEF FilesFit, BodiesCurrent
  <2> QED
    BY <2>2, <2>3, <1>4, NothingBehind DEF FilesFit
<1> QED
  BY <1>3, <1>5 DEF ApiGoInv

THEOREM ApiGoInvariant == ApiGoSpec => []ApiGoInv
<1>1. ApiGoInv /\ [ApiGoNext]_apiGoVars => ApiGoInv'
  <2> SUFFICES ASSUME ApiGoInv, [ApiGoNext]_apiGoVars PROVE ApiGoInv'
    OBVIOUS
  <2>1. CASE UNCHANGED apiGoVars
    <3>1. /\ UNCHANGED <<api, etcYaml, configGo, mainGo, svc, typeGo, routesGo, handlerGo, logicGo, middlewareGo, run, causes>>
      BY <2>1 DEF apiGoVars
    <3>2. ApiGoTypes' /\ (FilesFit => FilesFit')
      BY <3>1, SameApi DEF ApiGoInv, ApiGoTypes, FilesFit, CodeWhole, OnlyOfRoutes, BodiesCurrent
    <3>3. StepsFit => StepsFit'
      <4>1. SvcDone /\ HandlersDone /\ LogicDone /\ MiddlewareDone
              => (SvcDone /\ HandlersDone /\ LogicDone /\ MiddlewareDone)'
        BY <3>1, SameApi DEF SvcDone, HandlersDone, LogicDone, MiddlewareDone
      <4>0. StartDone => StartDone'
        BY <3>1, SameApi DEF StartDone, EtcDone, ConfigDone, MainDone
      <4>2. TypesDone => TypesDone'
        BY <3>1, SameApi, SameTypes DEF TypesDone
      <4>3. RoutesDone => RoutesDone'
        BY <3>1, StillDone DEF RoutesDone
      <4> QED
        BY <4>0, <4>1, <4>2, <4>3 DEF StepsFit
    <3> QED
      BY <3>1, <3>2, <3>3 DEF ApiGoInv
  <2>2. CASE \E grouped \in BOOLEAN : StartRun(grouped)
    BY <2>2, StartRunInv
  <2>3. ASSUME NEW r \in Route, NEW q \in RouteBodies,
               \/ ChangeRoute(r, q)
               \/ \E g \in Groups, p \in RouteBodies, s \in Servers : AddRoute(r, g, q, p, s)
        PROVE  ApiGoInv'
    BY <2>3, ChangeRouteInv, AddRouteInv
  <2>4. CASE \E p \in Paths : DeleteGenerated(p)
    BY <2>4, DeleteGeneratedInv
  <2> QED
    BY <2>1, <2>2, <2>3, <2>4, GenEtcInv, GenConfigInv, GenMainInv, GenServiceContextInv,
       GenTypesInv, GenRoutesInv, GenHandlersInv, GenLogicInv, GenMiddlewareInv, KilledInv DEF ApiGoNext
<1> QED
  BY ApiGoInitInv, <1>1, PTL DEF ApiGoSpec

(* A run of zctl api go that ends leaves a project that compiles, whatever *)
(* routes and types there are, however often they change and runs are      *)
(* stopped, but for the causes that the runs do not make up for.           *)
THEOREM RunsEndInProjects == ApiGoSpec => []AddingKeepsCompiling
<1>1. ApiGoInv => AddingKeepsCompiling
  <2> SUFFICES ASSUME ApiGoInv, run.step = "done", causes = {} PROVE ProjectCompiles
    BY DEF AddingKeepsCompiling, At
  <2>1. ApiGoTypes /\ FilesFit /\ StepsFit
    BY DEF ApiGoInv
  <2>2. run.step \in PastEtc \cap PastConfig \cap PastMain \cap PastSvc \cap PastTypes
                       \cap PastRoutes \cap PastHandlers \cap PastLogic \cap PastMiddleware
    BY DEF PastEtc, PastConfig, PastMain, PastSvc, PastTypes, PastRoutes, PastHandlers, PastLogic, PastMiddleware
  <2>3. /\ svc # Missing /\ (Guarded => svc.content) /\ (Guarded => middlewareGo # Missing)
        /\ \A f \in TypeFiles : TypesOf(f) # {} => typeGo[f] = Written(TypesOf(f))
        /\ \A f \in TypeFiles : typeGo[f] # Empty
        /\ DeclaredIn("default") \cap DeclaredIn("g") = {}
    BY <2>1, <2>2 DEF StepsFit, SvcDone, TypesDone, MiddlewareDone
  <2>4. /\ routesGo # Empty /\ routesGo.content.paths = {Path(r) : r \in Defined}
        /\ routesGo.content.guarded = Guarded /\ routesGo.content.secured = Secured
    <3>1. routesGo = Written([paths |-> {Path(r) : r \in Defined}, guarded |-> Guarded,
                            secured |-> Secured])
      BY <2>1, <2>2 DEF StepsFit, RoutesDone
    <3>2. routesGo # Empty
          /\ routesGo.content = [paths |-> {Path(r) : r \in Defined}, guarded |-> Guarded,
                                  secured |-> Secured]
      BY <3>1, FileKinds
    <3> QED
      BY <3>2
  <2>5. \A r \in Defined : /\ handlerGo[Path(r)] = Written(BodiesOf(r))
                           /\ logicGo[Path(r)] = Written(BodiesOf(r))
    BY <2>1, <2>2 DEF FilesFit, BodiesCurrent, StepsFit, HandlersDone, LogicDone
  <2>6. \A r \in Defined : Used(r) \subseteq UNION {DeclaredIn(f) : f \in TypeFiles}
    <3> SUFFICES ASSUME NEW r \in Defined, NEW t \in Used(r)
                 PROVE  \E f \in TypeFiles : t \in DeclaredIn(f)
      OBVIOUS
    <3>1. t \in Named
      BY DEF Named
    <3>2. FileOf(t) \in TypeFiles /\ t \in TypesOf(FileOf(t))
      BY <3>1, <2>1, RouteFacts DEF TypesOf
    <3>3. typeGo[FileOf(t)] = Written(TypesOf(FileOf(t)))
      BY <3>2, <2>3
    <3>4. t \in DeclaredIn(FileOf(t))
      BY <3>2, <3>3, FileKinds DEF DeclaredIn
    <3> QED
      BY <3>2, <3>4
  <2>7. \A p \in Paths : Fits(p)
    <3> TAKE p \in Paths
    <3>1. CASE handlerGo[p] = Missing /\ logicGo[p] = Missing
      BY <3>1 DEF Fits
    <3>2. CASE handlerGo[p] # Missing \/ logicGo[p] # Missing
      <4>1. p[2] \in Defined /\ p = Path(p[2])
        BY <3>2, <2>1 DEF FilesFit, OnlyOfRoutes
      <4>2. /\ handlerGo[p] = logicGo[p] /\ handlerGo[p] # Empty
            /\ handlerGo[p].content = BodiesOf(p[2])
        BY <4>1, <2>5, FileKinds
      <4>3. {handlerGo[p].content.request, handlerGo[p].content.response} \ {NoBody} = Used(p[2])
        BY <4>2 DEF BodiesOf, Used
      <4> QED
        BY <4>1, <4>2, <4>3, <2>6 DEF Fits
    <3> QED
      BY <3>1, <3>2
  <2>8. \A p \in routesGo.content.paths : handlerGo[p] # Missing
    BY <2>4, <2>5, FileKinds
  <2>9. svc # Empty /\ middlewareGo # Empty
    BY <2>1 DEF FilesFit, CodeWhole
  <2>10. /\ {etcYaml, configGo, mainGo} \cap {Missing, Empty} = {}
         /\ Secured => configGo.content
    BY <2>1, <2>2 DEF FilesFit, CodeWhole, StepsFit, StartDone, EtcDone, ConfigDone, MainDone
  <2> QED
    BY <2>3, <2>4, <2>7, <2>8, <2>9, <2>10 DEF ProjectCompiles
<1> QED
  BY <1>1, ApiGoInvariant, PTL

-----------------------------------------------------------------------------
(* DaoSql, for every statement with any number of conditions and arguments.*)

Compared(s) == {Condition(s, i) : i \in DOMAIN s.where}

LEMMA StatementFacts ==
  ASSUME NEW s \in Statement
  PROVE  \E n \in Nat : /\ s.where \in [1 .. n -> Term] /\ DOMAIN s.where = 1 .. n
                        /\ (s.or => n > 1)
                        /\ s.join = "none" => \A i \in DOMAIN s.where : s.where[i].of = "table"
<1>1. PICK n \in 0 .. MaxTerms : s.where \in [1 .. n -> Term]
    BY DEF Statement, SeqOf
<1>2. n \in Nat
    BY DaoSqlAssumption
<1>3. Len(s.where) = n
    BY <1>1, <1>2
<1>4. /\ s.or => Len(s.where) > 1
      /\ s.join = "none" => \A i \in DOMAIN s.where : s.where[i].of = "table"
    BY DEF Statement
<1> QED
    BY <1>1, <1>2, <1>3, <1>4

(* One expression finds the conditions of its shapes.                      *)
LEMMA FoundFacts ==
  ASSUME NEW s \in Statement, NEW shapes
  PROVE  /\ Found(s, shapes) \in Seq(Compared(s))
         /\ Range(Found(s, shapes)) =
              {Condition(s, i) : i \in {j \in DOMAIN s.where : s.where[j].shape \in shapes}}
<1>1. PICK n \in Nat : s.where \in [1 .. n -> Term] /\ DOMAIN s.where = 1 .. n
    BY StatementFacts
<1> DEFINE ss == [i \in 1 .. n |-> IF s.where[i].shape \in shapes THEN <<Condition(s, i)>> ELSE <<>>]
<1>2. \A i \in 1 .. n : Condition(s, i) \in Compared(s)
    BY <1>1 DEF Compared
<1>3. \A i \in 1 .. n : ss[i] = IF s.where[i].shape \in shapes THEN <<Condition(s, i)>> ELSE <<>>
    OBVIOUS
<1>4. \A i \in 1 .. n : ss[i] \in Seq(Compared(s))
    BY <1>2, <1>3
<1>5. ss \in Seq(Seq(Compared(s))) /\ Len(ss) = n
    <2>1. ss \in [1 .. n -> Seq(Compared(s))]
        BY <1>4
    <2> HIDE DEF ss
    <2> QED
        BY <2>1
<1>6. Found(s, shapes) = FlattenSeq(ss)
    BY <1>1 DEF Found
<1>7. \A x : Range(<<x>>) = {x}
    BY DEF Range
<1>8. Range(<<>>) = {}
    BY DEF Range
<1>9. \A i \in 1 .. n : Range(ss[i]) = IF s.where[i].shape \in shapes THEN {Condition(s, i)} ELSE {}
    BY <1>3, <1>7, <1>8
<1> HIDE DEF ss
<1>10. FlattenSeq(ss) \in Seq(Compared(s))
    BY <1>5, FlattenSequence
<1>11. Range(FlattenSeq(ss)) = UNION {Range(ss[i]) : i \in 1 .. n}
    BY <1>5, FlattenRange
<1>12. UNION {Range(ss[i]) : i \in 1 .. n} =
         {Condition(s, i) : i \in {j \in 1 .. n : s.where[j].shape \in shapes}}
    BY <1>9
<1> QED
    BY <1>1, <1>6, <1>10, <1>11, <1>12

(* Of a clause in one line they find all conditions but literals.          *)
LEMMA ConditionsFacts ==
  ASSUME NEW s \in Statement, ~s.lines
  PROVE  /\ Conditions(s) \in Seq(Compared(s))
         /\ Range(Conditions(s)) =
              {Condition(s, i) : i \in {j \in DOMAIN s.where : s.where[j].shape \notin {"literal", "columns"}}}
<1> DEFINE ss == [k \in 1 .. 4 |-> Found(s, Order[k])]
<1>1. Conditions(s) = FlattenSeq(ss)
    <2>1. DOMAIN Order = 1 .. 4
        BY DEF Order
    <2> QED
        BY <2>1 DEF Conditions
<1>2. \A k \in 1 .. 4 : ss[k] \in Seq(Compared(s))
    BY FoundFacts
<1>3. ss \in Seq(Seq(Compared(s))) /\ Len(ss) = 4
    <2>1. ss \in [1 .. 4 -> Seq(Compared(s))]
        BY <1>2
    <2> QED
        BY <2>1
<1>4. \A k \in 1 .. 4 : Range(ss[k]) =
        {Condition(s, i) : i \in {j \in DOMAIN s.where : s.where[j].shape \in Order[k]}}
    BY FoundFacts
<1>5. FlattenSeq(ss) \in Seq(Compared(s))
    BY <1>3, FlattenSequence, Zenon
<1>6. Range(FlattenSeq(ss)) = UNION {Range(ss[k]) : k \in 1 .. 4}
    BY <1>3, FlattenRange
<1>7. \A j \in DOMAIN s.where :
        s.where[j].shape \notin {"literal", "columns"} <=> \E k \in 1 .. 4 : s.where[j].shape \in Order[k]
    <2>1. \A j \in DOMAIN s.where : s.where[j].shape \in Shapes
        BY StatementFacts DEF Term, Shapes
    <2>2. Order[1] = {"optional"} /\ Order[2] = {"null"} /\ Order[3] = {"in", "inLiteral", "notIn"} /\ Order[4] = {"cmp", "not"}
        BY DEF Order
    <2>3. \A x \in Shapes : x \notin {"literal", "columns"} <=> (x \in Order[1] \/ x \in Order[2] \/ x \in Order[3] \/ x \in Order[4])
        BY <2>2 DEF Shapes
    <2>4. \A k : k \in 1 .. 4 <=> k = 1 \/ k = 2 \/ k = 3 \/ k = 4
        OBVIOUS
    <2> QED
        BY <2>1, <2>3, <2>4
<1> HIDE DEF ss
<1>8. UNION {Range(ss[k]) : k \in 1 .. 4} =
         {Condition(s, i) : i \in {j \in DOMAIN s.where : s.where[j].shape \notin {"literal", "columns"}}}
    BY <1>4, <1>7
<1> QED
    BY <1>1, <1>5, <1>6, <1>8

(* Its own conditions are those of no joined table.                        *)
LEMMA OwnFacts ==
  ASSUME NEW s \in Statement, ~s.lines
  PROVE  Range(Own(s)) = {c \in Range(Conditions(s)) : ~Joined(s, c)}
<1> DEFINE all == Conditions(s)
           ss == [k \in DOMAIN all |-> IF Joined(s, all[k]) THEN <<>> ELSE <<all[k]>>]
<1>1. all \in Seq(Compared(s))
    BY ConditionsFacts
<1>2. PICK n \in Nat : DOMAIN all = 1 .. n /\ \A k \in 1 .. n : all[k] \in Compared(s)
    BY <1>1, LenProperties, ElementOfSeq
<1> HIDE DEF all
<1>3. \A k \in 1 .. n : ss[k] = IF Joined(s, all[k]) THEN <<>> ELSE <<all[k]>>
    BY <1>2
<1>4. \A k \in 1 .. n : ss[k] \in Seq(Compared(s))
    BY <1>2, <1>3
<1>5. ss \in Seq(Seq(Compared(s))) /\ Len(ss) = n
    <2>1. ss \in [1 .. n -> Seq(Compared(s))]
        BY <1>2, <1>4
    <2> QED
        BY <2>1
<1>6. Own(s) = FlattenSeq(ss)
    BY DEF Own, all
<1>7. (\A x : Range(<<x>>) = {x}) /\ Range(<<>>) = {}
    BY DEF Range
<1>8. \A k \in 1 .. n : Range(ss[k]) = IF Joined(s, all[k]) THEN {} ELSE {all[k]}
    <2> HIDE DEF ss
    <2> QED
        BY <1>3, <1>7
<1> HIDE DEF ss
<1>9. Range(FlattenSeq(ss)) = UNION {Range(ss[k]) : k \in 1 .. n}
    BY <1>5, FlattenRange
<1>10. Range(all) = {all[k] : k \in 1 .. n}
    BY <1>2 DEF Range
<1>11. UNION {Range(ss[k]) : k \in 1 .. n} = {c \in Range(all) : ~Joined(s, c)}
    BY <1>8, <1>10
<1> QED
    BY <1>6, <1>9, <1>11 DEF all

(* What is compared and not marked, in a method that compiles.             *)
LEMMA PredicateFacts ==
  ASSUME NEW s \in Statement, MethodCompiles(s), ~Marked(s)
  PROVE  /\ Predicates(s) =
              {Condition(s, i) : i \in {j \in DOMAIN s.where : s.where[j].shape \notin {"literal", "columns"}}}
         /\ \A i \in DOMAIN s.where :
              s.where[i].shape \in {"literal", "columns", "cmp", "in", "inLiteral", "null", "not"}
<1>0. ~s.lines
    BY DEF MethodCompiles
<1>1. Range(Conditions(s)) = Predicates(s)
    BY DEF Marked
<1>2. Predicates(s) =
        {Condition(s, i) : i \in {j \in DOMAIN s.where : s.where[j].shape \notin {"literal", "columns"}}}
    BY <1>0, <1>1, ConditionsFacts
<1>3. \A c \in Predicates(s) : ~c.optional /\ c.col # "NOT"
    BY DEF Predicates, MethodCompiles
<1>4. ASSUME NEW i \in DOMAIN s.where
      PROVE  s.where[i].shape \in {"literal", "columns", "cmp", "in", "inLiteral", "null", "not"}
    <2>1. s.where[i].shape \in Shapes
        BY StatementFacts DEF Term, Shapes
    <2>2. s.where[i].shape \notin {"literal", "columns"} => Condition(s, i) \in Predicates(s)
        BY <1>2
    <2>3. s.where[i].shape \notin {"literal", "columns"} =>
            ~Condition(s, i).optional /\ Condition(s, i).col # "NOT"
        BY <1>3, <2>2
    <2>4. /\ Condition(s, i).optional <=> s.where[i].shape = "optional"
          /\ s.where[i].shape = "notIn" => Condition(s, i).col = "NOT"
        BY DEF Condition
    <2> QED
        BY <2>1, <2>3, <2>4 DEF Shapes
<1> QED
    BY <1>2, <1>4

Chosen(s) == {j \in DOMAIN s.where : s.where[j].shape \notin {"literal", "columns"} /\ s.where[j].of = "table"}

LEMMA MethodRows ==
  ASSUME NEW s \in Statement, MethodCompiles(s), ~Marked(s)
  PROVE  OfMethod(s).rows = {row \in Row(s) : \A i \in Chosen(s) : row[i]}
<1>1. OfMethod(s).rows = {row \in Row(s) : \A c \in Predicates(s) : c.of = "table" => row[c.term]}
    BY DEF OfMethod
<1>2. \A i \in DOMAIN s.where : Condition(s, i).of = s.where[i].of /\ Condition(s, i).term = i
    BY DEF Condition
<1>3. ASSUME NEW row \in Row(s)
      PROVE  (\A c \in Predicates(s) : c.of = "table" => row[c.term]) <=> \A i \in Chosen(s) : row[i]
    BY <1>2, PredicateFacts DEF Chosen
<1> QED
    BY <1>1, <1>3

(* Where every comparison is understood, the method has the rows of its    *)
(* statement.                                                              *)
LEMMA UnderstoodRows ==
  ASSUME NEW s \in Statement, MethodCompiles(s), ~Marked(s), ~s.or,
         \A i \in DOMAIN s.where : s.where[i].shape \notin {"literal", "columns", "not"} /\ s.where[i].of = "table"
  PROVE  OfMethod(s).rows = OfSql(s).rows
<1>1. \A i \in DOMAIN s.where : i \in Chosen(s) /\ s.where[i].shape \notin {"not", "notIn"}
    BY PredicateFacts DEF Chosen
<1>2. Chosen(s) = DOMAIN s.where
    BY <1>1 DEF Chosen
<1>3. OfSql(s).rows = {row \in Row(s) : \A i \in DOMAIN s.where : Truth(s, i, row)}
    BY DEF OfSql
<1>4. \A row \in Row(s), i \in DOMAIN s.where : Truth(s, i, row) = row[i]
    BY <1>1 DEF Truth
<1> QED
    BY <1>2, <1>3, <1>4, MethodRows

(* A row of which a set of terms is true and no other.                     *)
Where(s, T) ==
  [i \in DOMAIN s.where |-> i \in T <=> s.where[i].shape \notin {"not", "notIn"}]

LEMMA WhereFacts ==
  ASSUME NEW s, NEW T
  PROVE  /\ Where(s, T) \in Row(s)
         /\ \A i \in DOMAIN s.where : Truth(s, i, Where(s, T)) <=> i \in T
<1>1. Where(s, T) \in Row(s)
    <2>1. \A i \in DOMAIN s.where : (i \in T <=> s.where[i].shape \notin {"not", "notIn"}) \in BOOLEAN
        OBVIOUS
    <2> QED
        BY <2>1 DEF Where, Row
<1>2. ASSUME NEW i \in DOMAIN s.where PROVE Truth(s, i, Where(s, T)) <=> i \in T
    BY Zenon DEF Where, Truth
<1> QED
    BY <1>1, <1>2

(* A statement with OR finds other rows.                                   *)
LEMMA OrRows ==
  ASSUME NEW s \in Statement, MethodCompiles(s), ~Marked(s), s.or
  PROVE  OfMethod(s).rows # OfSql(s).rows
<1>1. OfSql(s).rows = {row \in Row(s) : \E i \in DOMAIN s.where : Truth(s, i, row)}
    BY DEF OfSql
<1>2. SUFFICES ASSUME OfMethod(s).rows = OfSql(s).rows PROVE FALSE
    OBVIOUS
<1>3. CASE Chosen(s) = {}
    <2>1. Where(s, {}) \in OfMethod(s).rows
        BY <1>3, MethodRows, WhereFacts
    <2>2. Where(s, {}) \notin OfSql(s).rows
        BY <1>1, WhereFacts
    <2> QED
        BY <1>2, <2>1, <2>2
<1>4. CASE Chosen(s) # {}
    <2>1. PICK i \in Chosen(s) : TRUE
        BY <1>4
    <2>2. i \in DOMAIN s.where
        BY DEF Chosen
    <2>3. PICK j \in DOMAIN s.where : j # i
        <3>1. PICK n \in Nat : DOMAIN s.where = 1 .. n /\ n > 1
            BY StatementFacts
        <3>2. 1 \in DOMAIN s.where /\ 2 \in DOMAIN s.where
            BY <3>1
        <3> QED
            BY <3>2
    <2>4. Where(s, {i}) \in OfSql(s).rows /\ Where(s, {j}) \in OfSql(s).rows
        BY <1>1, <2>2, WhereFacts
    <2>5. Where(s, {i})[i] /\ Where(s, {j})[i]
        BY <2>1, <2>4, <1>2, MethodRows
    <2>6. Where(s, {i})[i] <=> s.where[i].shape \notin {"not", "notIn"}
        BY <2>2 DEF Where
    <2>7. Where(s, {j})[i] <=> s.where[i].shape \in {"not", "notIn"}
        BY <2>2, <2>3 DEF Where
    <2> QED
        BY <2>5, <2>6, <2>7
<1> QED
    BY <1>3, <1>4

(* So does one with a comparison that is left out or turned round.         *)
LEMMA MisreadRows ==
  ASSUME NEW s \in Statement, MethodCompiles(s), ~Marked(s), ~s.or,
         NEW i \in DOMAIN s.where, s.where[i].shape \in {"literal", "columns", "not"}
  PROVE  OfMethod(s).rows # OfSql(s).rows
<1> DEFINE D == DOMAIN s.where
<1>1. OfSql(s).rows = {row \in Row(s) : \A k \in D : Truth(s, k, row)}
    BY DEF OfSql
<1>2. Where(s, D) \in OfSql(s).rows /\ Where(s, D \ {i}) \notin OfSql(s).rows
    BY <1>1, WhereFacts
<1>3. SUFFICES ASSUME OfMethod(s).rows = OfSql(s).rows PROVE FALSE
    OBVIOUS
<1>4. \A k \in Chosen(s) : Where(s, D)[k]
    BY <1>2, <1>3, MethodRows
<1>5. CASE i \in Chosen(s)
    <2>1. s.where[i].shape = "not"
        BY <1>5 DEF Chosen
    <2>2. ~Where(s, D)[i]
        BY <2>1 DEF Where
    <2> QED
        BY <1>4, <1>5, <2>2
<1>6. CASE i \notin Chosen(s)
    <2>1. \A k \in Chosen(s) : Where(s, D \ {i})[k] = Where(s, D)[k]
        BY <1>6 DEF Where, Chosen
    <2>2. Where(s, D \ {i}) \in OfMethod(s).rows
        <3>1. \A k \in Chosen(s) : Where(s, D \ {i})[k]
            BY <1>4, <2>1
        <3>2. Where(s, D \ {i}) \in Row(s)
            BY WhereFacts
        <3>3. OfMethod(s).rows = {row \in Row(s) : \A k \in Chosen(s) : row[k]}
            BY MethodRows
        <3> QED
            BY <3>1, <3>2, <3>3, Zenon
    <2> QED
        BY <1>2, <1>3, <2>2
<1> QED
    BY <1>5, <1>6

(* It asks for the values of the placeholders, and of literals in IN.      *)
LEMMA AskedValues ==
  ASSUME NEW s \in Statement, MethodCompiles(s), ~Marked(s)
  PROVE  OfMethod(s).asked = OfSql(s).asked <=> \A i \in DOMAIN s.where : s.where[i].shape # "inLiteral"
<1> DEFINE Of(shapes) == {i \in DOMAIN s.where : s.where[i].shape \in shapes}
<1>1. \A i \in DOMAIN s.where :
        /\ Condition(s, i).term = i
        /\ Condition(s, i).op # "IsNil" <=> s.where[i].shape # "null"
    BY DEF Condition
<1>2. /\ \A c \in Predicates(s) : \E i \in DOMAIN s.where :
                c = Condition(s, i) /\ s.where[i].shape \notin {"literal", "columns"}
      /\ \A i \in DOMAIN s.where :
           s.where[i].shape \notin {"literal", "columns"} => Condition(s, i) \in Predicates(s)
      /\ \A i \in DOMAIN s.where :
           s.where[i].shape \in {"literal", "columns", "cmp", "in", "inLiteral", "null", "not"}
    BY PredicateFacts
<1>3. {c.term : c \in {d \in Predicates(s) : d.op # "IsNil"}} = Of({"cmp", "in", "inLiteral", "not"})
    <2>1. ASSUME NEW c \in Predicates(s), c.op # "IsNil"
          PROVE  c.term \in Of({"cmp", "in", "inLiteral", "not"})
        BY <1>1, <1>2, <2>1
    <2>2. ASSUME NEW i \in Of({"cmp", "in", "inLiteral", "not"})
          PROVE  \E c \in Predicates(s) : c.op # "IsNil" /\ c.term = i
        <3>1. Condition(s, i) \in Predicates(s) /\ Condition(s, i).op # "IsNil" /\ Condition(s, i).term = i
            BY <1>1, <1>2
        <3> QED
            BY <3>1
    <2> HIDE DEF Of
    <2> QED
        BY <2>1, <2>2
<1>4. OfSql(s).asked = Of({"cmp", "in", "optional", "notIn", "not"})
    BY DEF OfSql
<1>5. OfMethod(s).asked = Of({"cmp", "in", "inLiteral", "not"})
    BY <1>3 DEF OfMethod
<1> QED
    BY <1>2, <1>4, <1>5

(* A method does what its statement says, except where it is known not to. *)
LEMMA MisreadKnown ==
  ASSUME NEW s \in Statement, MethodCompiles(s), ~Marked(s)
  PROVE  OfMethod(s) # OfSql(s) <=> KnownMisread(s)
<1>1. OfMethod(s) = OfSql(s) <=>
        /\ OfMethod(s).rows = OfSql(s).rows /\ OfMethod(s).some = OfSql(s).some
        /\ OfMethod(s).asked = OfSql(s).asked /\ OfMethod(s).form = OfSql(s).form
    BY DEF OfMethod, OfSql
<1>2. /\ s.limited \in BOOLEAN /\ s.or \in BOOLEAN
      /\ s.limited => s.kind \in WriteKinds
    BY DEF Statement
<1>3. OfMethod(s).some = OfSql(s).some <=> ~(s.limited \/ s.kind = "some")
    BY <1>2 DEF OfMethod, OfSql, WriteKinds
<1>4. OfMethod(s).form = OfSql(s).form <=> s.form = "rows" /\ s.join = "none"
    BY DEF OfMethod, OfSql
<1>5. s.join = "none" => \A i \in DOMAIN s.where : s.where[i].of = "table"
    BY StatementFacts
<1>6. OfMethod(s).asked = OfSql(s).asked <=> \A i \in DOMAIN s.where : s.where[i].shape # "inLiteral"
    BY AskedValues
<1>7. s.or => OfMethod(s).rows # OfSql(s).rows
    BY OrRows
<1>8. ~s.or /\ (\E i \in DOMAIN s.where : s.where[i].shape \in {"literal", "columns", "not"}) =>
        OfMethod(s).rows # OfSql(s).rows
    BY MisreadRows
<1>9. ~s.or /\ (\A i \in DOMAIN s.where :
                  s.where[i].shape \notin {"literal", "columns", "not"} /\ s.where[i].of = "table") =>
        OfMethod(s).rows = OfSql(s).rows
    BY UnderstoodRows
<1> QED
    BY <1>1, <1>3, <1>4, <1>5, <1>6, <1>7, <1>8, <1>9 DEF KnownMisread

(* Between the writes, the interface has the run's method, and the         *)
(* implementation may not have it yet.                                     *)
Halfway == "interface" \notin todo /\ "impl" \in todo
HasCounterpart(m) == \E n \in impl : n.name = m.name /\ n.signature = m.signature

SqlInv ==
  /\ SqlTypeOK
  /\ spent \in [terms : Nat, runs : Nat]
  /\ made = NoStatement => todo = {}
  /\ todo \in {{}, {"interface", "impl", "mock"}, {"impl", "mock"}, {"mock"}}
  /\ \A n \in iface, m \in iface : n.name = m.name => n = m
  /\ Names(impl) \subseteq Names(iface) \cup cut \/ "interface" \in broken
  /\ Halfway => made.name \in Names(iface) \cup cut \/ "interface" \in broken
  /\ \A m \in iface :
       \/ m.name \in cut \/ m.name = BareUpdate \/ "impl" \in broken \/ HasCounterpart(m)
       \/ Halfway /\ m = made /\ ~HasName(impl, made)
  /\ mock = Names(iface) \/ cut # {} \/ "interface" \in broken \/ (todo # {} /\ "interface" \notin todo)

LEMMA SqlInitially == SqlInit => SqlInv
<1> SUFFICES ASSUME SqlInit PROVE SqlInv
    OBVIOUS
<1>1. \A n \in GeneratedMethods, m \in GeneratedMethods : n.name = m.name => n = m
    <2>1. <<"GetBy", OfKey>> # <<"DeleteBy", OfKey>>
        OBVIOUS
    <2> DEFINE get == Default(<<"GetBy", OfKey>>, "row")
               delete == Default(<<"DeleteBy", OfKey>>, "error")
    <2>2. get.name # delete.name
        BY <2>1 DEF Default
    <2>3. GeneratedMethods = {get, delete}
        BY DEF GeneratedMethods
    <2> HIDE DEF get, delete
    <2> QED
        BY <2>2, <2>3
<1>2. \A m \in GeneratedMethods : m.sql = NoStatement.sql
    BY DEF GeneratedMethods, Default
<1>3. SqlTypeOK /\ spent \in [terms : Nat, runs : Nat]
    BY <1>2, DaoSqlAssumption DEF SqlInit, SqlTypeOK
<1> QED
    BY <1>1, <1>2, <1>3 DEF SqlInit, SqlInv, HasCounterpart, Halfway

LEMMA MethodIsMade ==
  ASSUME NEW n \in 0 .. MaxTerms, NEW m \in Methods[n]
  PROVE  m.sql \in Statement /\ m # NoStatement /\ Weight(m.sql) \in 0 .. n
<1>1. PICK s \in Statement : m = Method(s) /\ Weight(s) <= n
    BY DEF Methods
<1>2. m.sql = s
    BY <1>1 DEF Method
<1>3. m # NoStatement
    <2>1. DOMAIN m = {"name", "signature", "sql"}
        BY <1>1 DEF Method
    <2>2. DOMAIN NoStatement = {"name", "sql"}
        BY DEF NoStatement
    <2>3. "signature" \notin DOMAIN NoStatement
        BY <2>2
    <2> QED
        BY <2>1, <2>3
<1>4. Len(s.where) \in Nat
    <2>1. PICK k \in Nat : s.where \in [1 .. k -> Term]
        BY StatementFacts
    <2> QED
        BY <2>1
<1>5. Weight(s) \in Nat
    <2> DEFINE one == IF s.limited THEN 1 ELSE 0
               two == IF s.form = "rows" THEN 0 ELSE 1
               three == IF s.join = "none" THEN 0 ELSE 1
    <2>1. one \in Nat /\ two \in Nat /\ three \in Nat
        OBVIOUS
    <2>2. Weight(s) = Len(s.where) + one + two + three
        BY DEF Weight
    <2> HIDE DEF one, two, three
    <2> QED
        BY <1>4, <2>1, <2>2
<1> QED
    BY <1>1, <1>2, <1>3, <1>5

LEMMA SqlKept == SqlInv /\ [SqlNext]_sqlVars => SqlInv'
<1> SUFFICES ASSUME SqlInv, [SqlNext]_sqlVars PROVE SqlInv'
    OBVIOUS
<1> USE DEF SqlInv
<1>1. ASSUME NEW m \in Methods[MaxTerms - spent.terms], DaoFromSQL(m)
      PROVE  SqlInv'
    <2>1. MaxTerms - spent.terms \in 0 .. MaxTerms /\ MaxTerms \in Nat /\ spent.terms \in Nat /\ spent.runs \in Nat
        BY DaoSqlAssumption DEF SqlTypeOK
    <2>2. m.sql \in Statement /\ m # NoStatement
          /\ Weight(m.sql) \in 0 .. (MaxTerms - spent.terms)
        BY <2>1, MethodIsMade
    <2>3. todo = {} /\ todo' = {"interface", "impl", "mock"} /\ made' = m
          /\ UNCHANGED <<iface, impl, mock, broken, cut>> /\ spent.runs < MaxSqlRuns
          /\ spent' = [terms |-> spent.terms + Weight(m.sql), runs |-> spent.runs + 1]
        BY <1>1 DEF DaoFromSQL
    <2>4. spent' \in [terms : Nat, runs : Nat] /\ spent'.terms \in 0 .. MaxTerms /\ spent'.runs \in 0 .. MaxSqlRuns
        <3>1. spent.terms + Weight(m.sql) \in 0 .. MaxTerms
            BY <2>1, <2>2
        <3>2. spent.runs + 1 \in 0 .. MaxSqlRuns
            BY <2>1, <2>3, DaoSqlAssumption
        <3> QED
            BY <2>3, <3>1, <3>2
    <2>5. SqlTypeOK'
        BY <2>2, <2>3, <2>4 DEF SqlTypeOK
    <2> QED
        BY <2>2, <2>3, <2>4, <2>5 DEF HasCounterpart, Halfway
<1>2. CASE AppendToInterface
    <2>1. /\ todo = {"interface", "impl", "mock"} /\ todo' = {"impl", "mock"}
          /\ UNCHANGED <<made, impl, mock, broken, cut, spent>>
        BY <1>2 DEF AppendToInterface
    <2>2. made # NoStatement /\ made.sql \in Statement
        BY <2>1 DEF SqlTypeOK
    <2>3. CASE HasName(iface, made) \/ "interface" \in broken
        <3>1. iface' = iface
            BY <1>2, <2>3 DEF AppendToInterface
        <3>2. SqlTypeOK'
            BY <2>1, <3>1 DEF SqlTypeOK
        <3> QED
            BY <2>1, <2>2, <2>3, <3>1, <3>2 DEF HasCounterpart, Halfway, HasName
    <2>4. CASE ~(HasName(iface, made) \/ "interface" \in broken)
        <3>1. iface' = iface \cup {made}
            BY <1>2, <2>4 DEF AppendToInterface
        <3>2. SqlTypeOK'
            BY <2>1, <2>2, <3>1 DEF SqlTypeOK
        <3>3. \A m \in iface : m.name # made.name
            BY <2>4 DEF HasName, Names
        <3>4. Names(iface)' = Names(iface) \cup {made.name}
            BY <3>1 DEF Names
        <3>5. ~HasName(impl, made) \/ made.name \in cut
            BY <2>4 DEF HasName
        <3>6. \A n \in iface', m \in iface' : n.name = m.name => n = m
            BY <3>1, <3>3
        <3>7. \A m \in iface' :
                \/ m.name \in cut' \/ m.name = BareUpdate \/ "impl" \in broken' \/ HasCounterpart(m)'
                \/ Halfway' /\ m = made' /\ ~HasName(impl, made)'
            BY <2>1, <3>1, <3>5 DEF HasCounterpart, Halfway, HasName, Names
        <3> QED
            BY <2>1, <2>2, <3>2, <3>4, <3>6, <3>7 DEF Halfway, Names
    <2> QED
        BY <2>3, <2>4
<1>3. CASE AppendToImpl
    <2>1. /\ todo = {"impl", "mock"} /\ todo' = {"mock"} /\ Halfway
          /\ UNCHANGED <<made, iface, mock, broken, cut, spent>>
        BY <1>3 DEF AppendToImpl, Halfway
    <2>2. made # NoStatement /\ made.sql \in Statement
        BY <2>1 DEF SqlTypeOK
    <2>3. CASE HasName(impl, made) \/ made.name = BareUpdate \/ "impl" \in broken
        <3>1. impl' = impl
            BY <1>3, <2>3 DEF AppendToImpl
        <3>2. SqlTypeOK'
            BY <2>1, <3>1 DEF SqlTypeOK
        <3> QED
            BY <2>1, <2>2, <2>3, <3>1, <3>2 DEF HasCounterpart, Halfway
    <2>4. CASE ~(HasName(impl, made) \/ made.name = BareUpdate \/ "impl" \in broken)
        <3>1. impl' = impl \cup {made}
            BY <1>3, <2>4 DEF AppendToImpl
        <3>2. SqlTypeOK'
            BY <2>1, <2>2, <3>1 DEF SqlTypeOK
        <3>3. Names(impl)' = Names(impl) \cup {made.name}
            BY <3>1 DEF Names
        <3>4. \A m \in iface : m.name \in cut \/ m.name = BareUpdate \/ HasCounterpart(m)'
            BY <2>4, <3>1 DEF HasCounterpart
        <3>5. Names(impl)' \subseteq Names(iface) \cup cut \/ "interface" \in broken
            BY <2>1, <3>3
        <3> QED
            BY <2>1, <2>2, <3>2, <3>4, <3>5 DEF Halfway, Names, HasName
    <2> QED
        BY <2>3, <2>4
<1>4. CASE RegenerateMock
    <2>1. /\ todo = {"mock"} /\ todo' = {} /\ made' = NoStatement
          /\ "interface" \in broken \/ mock' = Names(iface)
          /\ UNCHANGED <<iface, impl, broken, cut, spent>>
        BY <1>4 DEF RegenerateMock
    <2>2. SqlTypeOK'
        BY <2>1 DEF SqlTypeOK
    <2> QED
        BY <2>1, <2>2 DEF HasCounterpart, Halfway, Names
<1>5. CASE KillSql
    <2>1. /\ todo # {} /\ todo' = {} /\ made' = NoStatement
          /\ cut' = IF "interface" \in todo THEN cut ELSE cut \cup {made.name}
          /\ UNCHANGED <<iface, impl, mock, broken, spent>>
        BY <1>5 DEF KillSql
    <2>2. SqlTypeOK'
        BY <2>1 DEF SqlTypeOK
    <2>3. CASE "interface" \in todo
        BY <2>1, <2>2, <2>3 DEF HasCounterpart, Halfway, Names
    <2>4. CASE "interface" \notin todo
        BY <2>1, <2>2, <2>4 DEF HasCounterpart, Halfway, Names
    <2> QED
        BY <2>3, <2>4
<1>7. CASE NotRead
    <2>1. /\ UNCHANGED <<made, iface, impl, mock, broken, spent>>
          /\ cut' = cut \cup {made.name} /\ made # NoStatement
          /\ \/ todo = {"interface", "impl", "mock"} /\ todo' = {"impl", "mock"}
             \/ todo = {"impl", "mock"} /\ todo' = {"mock"}
        BY <1>7 DEF NotRead
    <2>2. SqlTypeOK'
        BY <2>1 DEF SqlTypeOK
    <2>3. Names(impl)' \subseteq Names(iface)' \cup cut' \/ "interface" \in broken'
        BY <2>1 DEF Names
    <2> QED
        BY <2>1, <2>2, <2>3 DEF HasCounterpart, Halfway, HasName, Names
<1>8. CASE InterfaceLost
    <2>1. /\ todo = {"interface", "impl", "mock"} /\ todo' = {"impl", "mock"}
          /\ iface' = {} /\ broken' = broken \cup {"interface"}
          /\ UNCHANGED <<made, impl, mock, cut, spent>>
        BY <1>8 DEF InterfaceLost
    <2>2. SqlTypeOK'
        BY <2>1 DEF SqlTypeOK
    <2> QED
        BY <2>1, <2>2
<1>9. CASE ImplLost
    <2>1. /\ todo = {"impl", "mock"} /\ todo' = {"mock"}
          /\ impl' = {} /\ broken' = broken \cup {"impl"}
          /\ UNCHANGED <<made, iface, mock, cut, spent>>
        BY <1>9 DEF ImplLost
    <2>2. SqlTypeOK' /\ Names(impl)' = {}
        BY <2>1 DEF SqlTypeOK, Names
    <2> QED
        BY <2>1, <2>2 DEF Halfway, Names
<1>10. CASE MockLost
    <2>1. /\ todo = {"mock"} /\ todo' = {} /\ made' = NoStatement
          /\ cut' = cut \cup {made.name}
          /\ UNCHANGED <<iface, impl, broken, spent>>
        BY <1>10 DEF MockLost
    <2>2. SqlTypeOK'
        BY <2>1 DEF SqlTypeOK
    <2> QED
        BY <2>1, <2>2 DEF HasCounterpart, Halfway, Names
<1>6. CASE UNCHANGED sqlVars
    BY <1>6 DEF sqlVars, SqlTypeOK, HasCounterpart, Halfway, Names, HasName
<1> QED
    BY <1>1, <1>2, <1>3, <1>4, <1>5, <1>6, <1>7, <1>8, <1>9, <1>10 DEF SqlNext

LEMMA SqlSettled == SqlInv => MethodsFollowSql
<1> SUFFICES ASSUME SqlInv PROVE MethodsFollowSql
    OBVIOUS
<1>1. OnlyKnownMisread
    <2> SUFFICES ASSUME NEW m \in impl, m.sql # NoStatement.sql, MethodCompiles(m.sql), ~Marked(m.sql)
                 PROVE  OfMethod(m.sql) # OfSql(m.sql) <=> KnownMisread(m.sql)
        BY DEF OnlyKnownMisread
    <2>1. m.sql \in Statement
        BY DEF SqlInv, SqlTypeOK
    <2> QED
        BY <2>1, MisreadKnown
<1>2. MethodsAgree
    BY DEF SqlInv, MethodsAgree, HasCounterpart, Halfway
<1> QED
    BY <1>1, <1>2 DEF MethodsFollowSql

(* What zctl rpc dao --sql leaves is the method that the statement asked   *)
(* for, with its parameters, in each of its files: for every statement, of *)
(* any number of terms.                                                    *)
THEOREM MethodsAlwaysFollowSql == SqlSpec => []MethodsFollowSql
<1>1. SqlSpec => []SqlInv
    BY SqlInitially, SqlKept, PTL DEF SqlSpec
<1> QED
    BY <1>1, SqlSettled, PTL

-----------------------------------------------------------------------------
(* ApiScanner, for every text of any length and durations of any number of *)
(* units.                                                                  *)

Plain == {"gap", "dot", "at", "ident", "int", "half", "unit"}
Of == {"none", "open", "halfClose", "word"} \cup Runes

(* What the scanner is in and what a reader of the file sees.              *)
Together ==
  /\ scan \in [in : {"slash", "comment", "document", "string"} \cup Plain, of : Of]
  /\ truth \in [in : {"gap", "slash", "comment", "document", "string"}, of : Of]
  /\ stray \in {"no", "star"}
  /\ IF scan.in \in Plain THEN truth.in = "gap" ELSE truth.in = scan.in
  /\ scan.in = "string" => truth.of = scan.of /\ scan.of \in Delims
  /\ scan.in = "document" =>
       /\ scan.of \in {"open", "halfClose"}
       /\ scan.of = "halfClose" <=> truth.of = "*" \/ stray = "star"

ScanInv == stray = "strayed" \/ scan.in \in {"end", "error"} \/ Together

LEMMA StartsSeen ==
  ASSUME NEW c \in Runes
  PROVE  /\ Starts(c) \in [in : {"slash", "string", "end", "error"} \cup Plain, of : Of]
         /\ Begun(c) \in [in : {"slash", "string", "gap"}, of : Of]
         /\ Starts(c).in \in Plain => Begun(c).in = "gap"
         /\ Starts(c).in \in {"slash", "string"} => Begun(c) = Starts(c)
         /\ Starts(c).in = "string" => Starts(c).of \in Delims
BY DEF Starts, Begun, Runes, Delims, Letters, In, StringOf, Plain, Of

LEMMA PlainStep ==
  ASSUME Together, NEW c \in Runes, ReadRune(c), scan.in \in Plain \cup {"slash"}
  PROVE  ScanInv'
<1>1. stray' = "no" /\ scan.in # "document" /\ truth.in # "document"
    BY DEF Together, Plain, ReadRune, Reader
<1>2. CASE scan.in = "slash"
  <2>1. truth.in = "slash" /\ Slash(c) /\ truth' = Seen(c)
      BY <1>2 DEF Together, Plain, ReadRune, Reader, Gap, LineComment, ScanDocument, ScanString,
                  Dots, ScanAt, ScanIdent, Number, HalfSuffix, AfterSuffix
  <2>2. CASE c = "/"
      BY <1>1, <2>1, <2>2 DEF Slash, Seen, Goes, In, ScanInv, Together, Plain, Of
  <2>3. CASE c = "*"
      BY <1>1, <2>1, <2>3 DEF Slash, Seen, Goes, In, ScanInv, Together, Plain, Of
  <2>4. CASE c \notin {"/", "*"}
    <3>1. scan' = Starts(c) /\ truth' = Begun(c)
        BY <2>1, <2>4 DEF Slash, EndBefore, Seen
    <3>2. QED
        BY <3>1, <1>1, StartsSeen DEF ScanInv, Together, Plain, Of
  <2>5. QED
      BY <2>2, <2>3, <2>4
<1>3. CASE scan.in \in Plain
  <2>1. truth' = Begun(c)
      BY <1>3 DEF Together, ReadRune, Reader, Seen, Plain
  <2>2. CASE scan' = Starts(c)
      BY <2>1, <2>2, <1>1, StartsSeen DEF ScanInv, Together, Plain, Of
  <2>3. CASE scan'.in = "error"
      BY <2>3 DEF ScanInv
  <2>4. CASE /\ scan' \in [in : Plain, of : Of]
             /\ c \notin {"/"} \cup Delims
    <3>1. truth' = In("gap")
        BY <2>1, <2>4 DEF Begun
    <3>2. QED
        BY <3>1, <2>4, <1>1 DEF ScanInv, Together, Plain, Of, In
  <2>5. \/ scan' = Starts(c) \/ scan'.in = "error"
        \/ scan' \in [in : Plain, of : Of] /\ c \notin {"/"} \cup Delims
    <3>1. CASE Gap(c)
        BY <3>1 DEF Gap
    <3>2. CASE Dots(c)
        BY <3>2 DEF Dots, EndBefore, EndWith, Goes, In, Plain, Delims, Of, Runes
    <3>3. CASE ScanAt(c)
        BY <3>3 DEF ScanAt, EndBefore, Fails, Goes, In, Plain, Delims, Letters, Of, Runes
    <3>4. CASE ScanIdent(c)
        BY <3>4, <1>3 DEF ScanIdent, EndBefore, Goes, Letters, Delims, Together, Of, Runes
    <3>5. CASE Number(c)
        BY <3>5, <1>3 DEF Number, EndBefore, Fails, Goes, Suffix, EndWith, WithUnit, In, Plain,
                          Delims, Together, Of, Runes
    <3>6. CASE HalfSuffix(c)
        BY <3>6 DEF HalfSuffix, Suffix, EndWith, WithUnit, Fails, In, Plain, Delims, Of, Runes
    <3>7. CASE AfterSuffix(c)
        BY <3>7 DEF AfterSuffix, Goes, EndBefore, In, Plain, Delims, Of, Runes
    <3>8. QED
        BY <1>3, <3>1, <3>2, <3>3, <3>4, <3>5, <3>6, <3>7
        DEF ReadRune, Slash, LineComment, ScanDocument, ScanString, Plain
  <2>6. QED
      BY <2>2, <2>3, <2>4, <2>5
<1>4. QED
    BY <1>2, <1>3

LEMMA NestedStep ==
  ASSUME Together, NEW c \in Runes, ReadRune(c), scan.in \in Nested
  PROVE  ScanInv'
<1>1. CASE scan.in = "comment"
  <2>1. truth.in = "comment" /\ LineComment(c) /\ truth' = Seen(c) /\ stray' = "no"
      BY <1>1 DEF Together, Plain, ReadRune, Reader, Gap, Slash, ScanDocument, ScanString,
                  Dots, ScanAt, ScanIdent, Number, HalfSuffix, AfterSuffix
  <2>2. CASE c \in {"newline", "nul"}
      BY <2>1, <2>2 DEF LineComment, EndBefore, Starts, Seen, In, ScanInv, Together, Plain, Of,
                        Letters, Delims
  <2>3. CASE c \notin {"newline", "nul"}
      BY <2>1, <2>3, <1>1 DEF LineComment, Goes, Seen, ScanInv, Together, Plain, Of
  <2>4. QED
      BY <2>2, <2>3
<1>2. CASE scan.in = "string"
  <2>1. truth.in = "string" /\ ScanString(c) /\ truth' = Seen(c) /\ stray' = "no"
      BY <1>2 DEF Together, Plain, ReadRune, Reader, Gap, Slash, ScanDocument, LineComment,
                  Dots, ScanAt, ScanIdent, Number, HalfSuffix, AfterSuffix
  <2>2. CASE c = scan.of
      BY <2>1, <2>2, <1>2 DEF ScanString, EndWith, Seen, In, ScanInv, Together, Plain, Of, Delims
  <2>3. CASE c = "nul"
      BY <2>1, <2>3, <1>2 DEF ScanString, Fails, In, ScanInv, Together, Delims
  <2>4. CASE c # scan.of /\ c # "nul"
      BY <2>1, <2>4, <1>2 DEF ScanString, Goes, Seen, ScanInv, Together, Plain, Of
  <2>5. QED
      BY <2>2, <2>3, <2>4
<1>3. CASE scan.in = "document"
  <2>1. truth.in = "document" /\ ScanDocument(c) /\ truth' = Seen(c) /\ stray' = Strayed(c)
      BY <1>3 DEF Together, Plain, ReadRune, Reader, Gap, Slash, ScanString, LineComment,
                  Dots, ScanAt, ScanIdent, Number, HalfSuffix, AfterSuffix
  <2>2. CASE c = "nul"
      BY <2>1, <2>2 DEF ScanDocument, Fails, In, ScanInv
  <2>3. CASE c = "/" /\ scan.of = "halfClose"
    <3>1. CASE truth.of = "*"
        BY <2>1, <2>3, <3>1, <1>3 DEF ScanDocument, EndWith, Seen, Strayed, In, ScanInv, Together, Plain, Of
    <3>2. CASE truth.of # "*"
        BY <2>1, <2>3, <3>2, <1>3 DEF Strayed, ScanInv, Together
    <3>3. QED
        BY <3>1, <3>2
  <2>4. CASE c # "nul" /\ ~(c = "/" /\ scan.of = "halfClose")
    <3>1. scan' = [in |-> "document", of |-> DocumentMode(c)]
        BY <2>1, <2>4 DEF ScanDocument, Goes
    <3>2. truth' = [in |-> "document", of |-> c]
        BY <2>1, <2>4, <1>3 DEF Seen, Together
    <3>3. c \in Of
        BY DEF Of
    <3>4. QED
        BY <2>1, <2>4, <3>1, <3>2, <3>3, <1>3 DEF DocumentMode, Strayed, ScanInv, Together, Plain, Of
  <2>5. QED
      BY <2>2, <2>3, <2>4
<1>4. QED
    BY <1>1, <1>2, <1>3 DEF Nested

LEMMA ScanStep == ScanInv /\ [ScannerNext]_scannerVars => ScanInv'
<1> SUFFICES ASSUME ScanInv, [ScannerNext]_scannerVars PROVE ScanInv'
    OBVIOUS
<1>1. CASE stray = "strayed"
    BY <1>1 DEF ScanInv, ScannerNext, ReadRune, Reader, UnknownAt, scannerVars
<1>2. CASE scan.in \in {"end", "error"}
    BY <1>2 DEF ScanInv, ScannerNext, ReadRune, UnknownAt, scannerVars, Gap, Slash, LineComment,
                ScanDocument, ScanString, Dots, ScanAt, ScanIdent, Number, HalfSuffix, AfterSuffix
<1>3. CASE Together /\ \E c \in Runes : ReadRune(c)
    BY <1>3, PlainStep, NestedStep DEF Together, Nested
<1>4. CASE UnknownAt
    BY <1>4 DEF UnknownAt, Fails, In, ScanInv
<1>5. CASE UNCHANGED scannerVars
    BY <1>5 DEF scannerVars, ScanInv, Together, Plain
<1>6. QED
    BY <1>1, <1>2, <1>3, <1>4, <1>5 DEF ScanInv, ScannerNext

(* NextToken: whatever the text, the scanner is in a comment, a document   *)
(* or a string exactly where a reader is, until a slash after a lone star  *)
(* ends a document too early, or the text ends or is refused.              *)
THEOREM ScannerInStep == ScannerSpec => []InStep
<1>1. ScannerInit => ScanInv
    BY DEF ScannerInit, ScanInv, Together, In, Plain, Of
<1>2. ScanInv => InStep
    BY DEF ScanInv, InStep, Together, Plain, Nested
<1>3. QED
    BY <1>1, <1>2, ScanStep, PTL DEF ScannerSpec

-----------------------------------------------------------------------------
(* ApiAnalyzer, for any number of declarations of any types and services.  *)

Declaration == [name : TypeName, refers : TypeName \cup {Base}, place : Nat]
Block == [service : ServiceName, at : AtServer, route : {NoRoute} \cup {<<r>> : r \in Routes},
          place : Nat]

RoutesFill == \A i \in Routed : RouteFills(services[i])
TypesFilled == [i \in DOMAIN types |-> Filled(types[i])]

AnalyzerInv ==
  /\ types \in Seq(Declaration)
  /\ services \in Seq(Block)
  /\ verdict \in {"writing", "checked", "refused", "accepted"}
  /\ verdict \in {"checked", "accepted"} =>
       TypesOnce /\ HandlersOnce /\ RoutesOnce /\ FieldsResolve
  /\ verdict = "accepted" =>
       OneName /\ RoutesFill /\ spec.types = TypesFilled

LEMMA AnalyzerInitInv == AnalyzerInit => AnalyzerInv
BY DEF AnalyzerInit, AnalyzerInv

LEMMA AnalyzerStep == AnalyzerInv /\ [AnalyzerNext]_analyzerVars => AnalyzerInv'
<1> SUFFICES ASSUME AnalyzerInv, [AnalyzerNext]_analyzerVars PROVE AnalyzerInv'
    OBVIOUS
<1>1. CASE DeclareType
  <2>1. PICK n \in TypeName, refers \in TypeName \cup {Base}, place \in 1 .. Len(types) + 1 :
          types' = Append(types, [name |-> n, refers |-> refers, place |-> place])
      BY <1>1 DEF DeclareType
  <2>2. types' \in Seq(Declaration)
      BY <2>1, place \in Nat, AppendProperties DEF AnalyzerInv, Declaration
  <2>3. QED
      BY <1>1, <2>2 DEF DeclareType, AnalyzerInv
<1>2. CASE DeclareService
  <2>1. PICK s \in ServiceName, at \in AtServer, route \in {NoRoute} \cup {<<r>> : r \in Routes},
          place \in 1 .. Len(services) + 1 :
          services' = Append(services, [service |-> s, at |-> at, route |-> route,
                                        place |-> place])
      BY <1>2 DEF DeclareService
  <2>2. services' \in Seq(Block)
      BY <2>1, place \in Nat, AppendProperties DEF AnalyzerInv, Block
  <2>3. QED
      BY <1>2, <2>2 DEF DeclareService, AnalyzerInv
<1>3. CASE SelfCheck
  <2>1. /\ types' = types /\ services' = services
        /\ verdict' \in {"checked", "refused"}
        /\ verdict' = "checked" => TypesOnce /\ HandlersOnce /\ RoutesOnce /\ FieldsResolve
      BY <1>3 DEF SelfCheck
  <2>2. TypesOnce' = TypesOnce /\ HandlersOnce' = HandlersOnce /\ RoutesOnce' = RoutesOnce
        /\ FieldsResolve' = FieldsResolve
      BY <2>1 DEF TypesOnce, HandlersOnce, RoutesOnce, FieldsResolve, Routed, Declared
  <2>3. QED
      BY <2>1, <2>2 DEF AnalyzerInv
<1>4. CASE Convert2Spec
  <2>1. /\ types' = types /\ services' = services /\ verdict = "checked"
        /\ verdict' \in {"accepted", "refused"}
        /\ verdict' = "accepted" =>
             OneName /\ RoutesFill /\ spec'.types = TypesFilled
      BY <1>4 DEF Convert2Spec, RoutesFill, TypesFilled
  <2>2. TypesOnce' = TypesOnce /\ HandlersOnce' = HandlersOnce /\ RoutesOnce' = RoutesOnce
        /\ FieldsResolve' = FieldsResolve /\ OneName' = OneName
        /\ RoutesFill' = RoutesFill /\ TypesFilled' = TypesFilled
      BY <2>1 DEF TypesOnce, HandlersOnce, RoutesOnce, FieldsResolve, Routed, Declared, OneName,
                  RoutesFill, RouteFills, TypesFilled, Filled
  <2>3. QED
      BY <2>1, <2>2 DEF AnalyzerInv
<1>5. CASE UNCHANGED analyzerVars
  <2>1. TypesOnce' = TypesOnce /\ HandlersOnce' = HandlersOnce /\ RoutesOnce' = RoutesOnce
        /\ FieldsResolve' = FieldsResolve /\ OneName' = OneName
        /\ RoutesFill' = RoutesFill /\ TypesFilled' = TypesFilled
      BY <1>5 DEF analyzerVars, TypesOnce, HandlersOnce, RoutesOnce, FieldsResolve, Routed,
                  Declared, OneName, RoutesFill, RouteFills, TypesFilled, Filled
  <2>2. QED
      BY <2>1, <1>5 DEF analyzerVars, AnalyzerInv
<1>6. QED
    BY <1>1, <1>2, <1>3, <1>4, <1>5 DEF AnalyzerNext

(* A prefix before two paths does not make different ones equal.           *)
LEMMA SamePathBehindPrefix ==
  ASSUME NEW S, NEW p \in Seq(S), NEW q \in Seq(S), NEW r \in Seq(S), p \o q = p \o r
  PROVE  q = r
<1>1. Len(q) = Len(r)
    BY ConcatProperties, LenProperties
<1>2. \A i \in 1 .. Len(q) : (p \o q)[Len(p) + i] = q[i] /\ (p \o r)[Len(p) + i] = r[i]
    BY <1>1, ConcatProperties, LenProperties
<1>3. QED
    BY <1>1, <1>2, SeqEqual

(* SelfCheck and Convert2Spec: what they accept is well formed, for every  *)
(* api file.                                                               *)
THEOREM SpecsWellFormed == AnalyzerSpec => []SpecWellFormed
<1>1. ASSUME AnalyzerInv, verdict = "accepted"
      PROVE  /\ \A i, j \in DOMAIN spec.types :
                  spec.types[i].name = spec.types[j].name => i = j \/ Overlaid(types, i, j)
             /\ \A i \in DOMAIN types : types[i].refers # Base =>
                  \E j \in DOMAIN spec.types : spec.types[j].name = types[i].refers
  <2>1. /\ DOMAIN spec.types = DOMAIN types
        /\ \A i \in DOMAIN types : spec.types[i].name = types[i].name
      BY <1>1 DEF AnalyzerInv, TypesFilled, Filled
  <2>2. \A i \in DOMAIN types : i \in Int /\ types[i] \in Declaration
      BY <1>1, ElementOfSeq, LenProperties DEF AnalyzerInv
  <2>3. \A i, j \in DOMAIN types : types[i].name = types[j].name => i = j \/ Overlaid(types, i, j)
      BY <1>1, <2>2 DEF AnalyzerInv, TypesOnce, Distinct, Overlaid
  <2>4. \A i \in DOMAIN types : types[i].refers # Base =>
          \E j \in DOMAIN types : types[j].name = types[i].refers
      BY <1>1, <2>2, ApiAnalyzerAssumption
      DEF AnalyzerInv, FieldsResolve, Declared, Declaration, Base, Unset
  <2>5. QED
      BY <2>1, <2>3, <2>4
<1>2. ASSUME AnalyzerInv, verdict = "accepted", NEW i \in Routed, NEW j \in Routed, i # j
      PROVE  /\ services[i].service = services[j].service
             /\ services[i].at.group = services[j].at.group =>
                  \/ services[i].route[1].handler # services[j].route[1].handler
                  \/ Overlaid(services, i, j)
             /\ FullPath(services[i]) = FullPath(services[j]) =>
                  \/ Overlaid(services, i, j)
                  \/ services[i].at.prefix # services[j].at.prefix
                  \/ services[i].route[1].request # services[j].route[1].request
                  \/ services[i].route[1].response # services[j].route[1].response
  <2>1. i \in Int /\ j \in Int /\ services[i] \in Block /\ services[j] \in Block
      BY <1>2, ElementOfSeq, LenProperties DEF AnalyzerInv, Routed
  <2>2. /\ services[i].route[1] \in Routes /\ services[j].route[1] \in Routes
        /\ services[i].at \in AtServer /\ services[j].at \in AtServer
      BY <2>1, <1>2 DEF Block, Routed
  <2>3. /\ services[i].service = services[j].service
        /\ ~services[i].route[1].list /\ ~services[j].route[1].list
      BY <1>2 DEF AnalyzerInv, OneName, RoutesFill, RouteFills
  <2>4. services[i].at.group = services[j].at.group =>
          \/ services[i].route[1].handler # services[j].route[1].handler
          \/ Overlaid(services, i, j)
      BY <1>2, <2>1 DEF AnalyzerInv, HandlersOnce, Distinct, Overlaid
  <2>5. \/ Overlaid(services, i, j)
        \/ <<services[i].at.prefix, services[i].route[1].path, services[i].route[1].request,
             services[i].route[1].response, services[i].route[1].list>>
           # <<services[j].at.prefix, services[j].route[1].path, services[j].route[1].request,
               services[j].route[1].response, services[j].route[1].list>>
      BY <1>2, <2>1 DEF AnalyzerInv, RoutesOnce, Distinct, Overlaid
  <2>6. ASSUME FullPath(services[i]) = FullPath(services[j]),
               services[i].at.prefix = services[j].at.prefix
        PROVE  services[i].route[1].path = services[j].route[1].path
    <3>1. /\ services[i].at.prefix \in Seq(STRING)
          /\ services[i].route[1].path \in Seq(STRING) /\ services[j].route[1].path \in Seq(STRING)
        BY <2>2, ApiAnalyzerAssumption DEF Routes
    <3>2. services[i].at.prefix \o services[i].route[1].path
          = services[i].at.prefix \o services[j].route[1].path
        BY <2>6 DEF FullPath
    <3>3. QED
        BY <3>1, <3>2, SamePathBehindPrefix
  <2>7. services[i].route[1].list = services[j].route[1].list
      BY <2>2, <2>3 DEF Routes
  <2>8. QED
      BY <2>3, <2>4, <2>5, <2>6, <2>7
<1>3. ASSUME AnalyzerInv, verdict = "accepted", NEW i \in Routed
      PROVE  {services[i].route[1].request, services[i].route[1].response} \ {Base, Unset}
               \subseteq {types[j].name : j \in DOMAIN types}
    BY <1>3 DEF AnalyzerInv, RoutesFill, RouteFills, Declared
<1>4. AnalyzerInv => SpecWellFormed
    BY <1>1, <1>2, <1>3 DEF SpecWellFormed
<1>5. QED
    BY <1>4, AnalyzerInitInv, AnalyzerStep, PTL DEF AnalyzerSpec
=============================================================================
