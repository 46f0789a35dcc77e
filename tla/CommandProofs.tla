--------------------------- MODULE CommandProofs ----------------------------
(***************************************************************************)
(* Proofs about the parts of zctl that MCCommands runs, and the dao that   *)
(* it generates: ProtoImports, Dao, GenProject, Migrate, MergeProto,       *)
(* ApiParser, ApiImports, CallGraphWalk; and the types of all of them.     *)
(***************************************************************************)
EXTENDS MCCommands, FiniteSetTheorems, SequenceTheorems, WellFoundedInduction, TLAPS

-----------------------------------------------------------------------------
(* ProtoImports, for every set of files and of names, every layout of the  *)
(* proto paths and any number of import statements.                        *)

Reading == [file : ProtoFile, left : SUBSET ImportName]

KeptFiles == {resolved[i] : i \in DOMAIN resolved}

(* The imports of a visited file have been dealt with, but for those that  *)
(* an activation of collectImports still has before it.                    *)
DealtWith ==
  \A f \in seen : \A n \in names[f] :
    Followed(n) /\ lookup[n] \notin seen =>
      \E i \in DOMAIN reading : reading[i].file = f /\ n \in reading[i].left

ProtoInv ==
  /\ ProtoTypeOK
  /\ seen = {Source} \cup KeptFiles /\ Source \notin KeptFiles
  /\ \A i, j \in DOMAIN resolved : resolved[i] = resolved[j] => i = j
  /\ ending # "error" => DealtWith
  /\ ending = "ok" => Len(reading) = 0

LEMMA ProtoInitInv == ProtoInit => ProtoInv
<1> SUFFICES ASSUME ProtoInit PROVE ProtoInv
    OBVIOUS
<1> USE ProtoAssumption DEF ProtoInit
<1>1. PICK N \in SUBSET ImportName :
        /\ names = [f \in ProtoFile |-> IF f = Source THEN N ELSE {}]
        /\ reading = <<[file |-> Source, left |-> N]>>
    OBVIOUS
<1>2. ProtoTypeOK
    BY <1>1 DEF ProtoTypeOK
<1>3. DealtWith
    BY <1>1 DEF DealtWith
<1>4. QED
    BY <1>2, <1>3 DEF ProtoInv, KeptFiles

(* Looking at a name takes it from the activation on top.                  *)
LEMMA LookedFacts ==
  ASSUME ProtoTypeOK, Len(reading) # 0, NEW n \in Current.left
  PROVE  /\ Looked(n) \in Seq(Reading) /\ Len(Looked(n)) = Len(reading)
                /\ \A i \in DOMAIN reading :
              /\ Looked(n)[i].file = reading[i].file
              /\ reading[i].left \ {n} \subseteq Looked(n)[i].left
<1>1. reading \in Seq(Reading) /\ Len(reading) \in 1 .. Len(reading)
      /\ DOMAIN reading = 1 .. Len(reading)
    BY DEF ProtoTypeOK, Reading
<1>2. reading[Len(reading)] \in Reading
    BY <1>1
<1> DEFINE e == [reading[Len(reading)] EXCEPT !.left = @ \ {n}]
<1>3. e \in Reading /\ e.file = Current.file /\ e.left = Current.left \ {n}
    BY <1>2 DEF Reading, Current
<1>4. Looked(n) = [reading EXCEPT ![Len(reading)] = e]
    BY <1>1 DEF Looked
<1> HIDE DEF e
<1>5. /\ Looked(n) \in Seq(Reading) /\ Len(Looked(n)) = Len(reading)
      /\ \A i \in 1 .. Len(reading) :
           Looked(n)[i] = IF i = Len(reading) THEN e ELSE reading[i]
    BY <1>1, <1>3, <1>4
<1>6. QED
    BY <1>1, <1>3, <1>5 DEF Current

LEMMA SkipImportInv ==
  ASSUME ProtoInv, ending = "running", Len(reading) # 0, NEW n \in Current.left, SkipImport(n)
  PROVE  ProtoInv'
<1>1. reading' = Looked(n) /\ UNCHANGED <<lookup, names, seen, resolved, ending>>
    BY DEF SkipImport
<1>2. ProtoTypeOK /\ DealtWith
    BY DEF ProtoInv
<1>3. /\ reading' \in Seq(Reading)
      /\ DOMAIN reading' = DOMAIN reading
      /\ \A i \in DOMAIN reading : /\ reading'[i].file = reading[i].file
                                   /\ reading[i].left \ {n} \subseteq reading'[i].left
  <2>1. reading \in Seq(Reading)
      BY <1>2 DEF ProtoTypeOK, Reading
  <2>2. QED
      BY <1>1, <1>2, <2>1, LookedFacts
<1>4. ProtoTypeOK'
    BY <1>1, <1>2, <1>3 DEF ProtoTypeOK, Reading
<1>5. DealtWith'
  <2> SUFFICES ASSUME NEW f \in seen, NEW m \in names[f], Followed(m), lookup[m] \notin seen
               PROVE  \E i \in DOMAIN reading' : reading'[i].file = f /\ m \in reading'[i].left
      BY <1>1 DEF DealtWith, Followed
  <2>1. m # n
      BY DEF SkipImport
  <2>2. PICK i \in DOMAIN reading : reading[i].file = f /\ m \in reading[i].left
      BY <1>2 DEF DealtWith
  <2>3. QED
      BY <1>3, <2>1, <2>2
<1>6. QED
    BY <1>1, <1>4, <1>5 DEF ProtoInv, KeptFiles

LEMMA FollowImportInv ==
  ASSUME ProtoInv, ending = "running", Len(reading) # 0, NEW n \in Current.left, FollowImport(n)
  PROVE  ProtoInv'
<1> DEFINE f == lookup[n]
<1>1. /\ Followed(n) /\ f \notin seen /\ seen' = seen \cup {f}
      /\ resolved' = Append(resolved, f) /\ UNCHANGED lookup
    BY DEF FollowImport
<1>2. ProtoTypeOK /\ DealtWith /\ reading \in Seq(Reading)
    BY DEF ProtoInv, ProtoTypeOK, Reading
<1>3. f \in ProtoFile
  <2>1. Current \in Reading
      BY <1>2 DEF Current
  <2>2. n \in ImportName \ WellKnown
      BY <1>1, <2>1 DEF Followed, Reading
  <2>3. QED
      BY <1>1, <1>2, <2>2 DEF ProtoTypeOK, Followed
<1>4. /\ resolved' \in Seq(ProtoFile)
      /\ DOMAIN resolved' = DOMAIN resolved \cup {Len(resolved) + 1}
      /\ Len(resolved) + 1 \notin DOMAIN resolved
      /\ resolved'[Len(resolved) + 1] = f
      /\ \A i \in DOMAIN resolved : resolved'[i] = resolved[i]
  <2>1. resolved \in Seq(ProtoFile)
      BY <1>2 DEF ProtoTypeOK
  <2>2. DOMAIN resolved = 1 .. Len(resolved) /\ Len(resolved) \in Nat
      BY <2>1
  <2>3. /\ resolved' \in Seq(ProtoFile) /\ Len(resolved') = Len(resolved) + 1
        /\ \A i \in 1 .. Len(resolved) : resolved'[i] = resolved[i]
        /\ resolved'[Len(resolved) + 1] = f
      BY <1>1, <1>3, <2>1
  <2>4. DOMAIN resolved' = 1 .. Len(resolved) + 1
      BY <2>3
  <2>5. QED
      BY <2>2, <2>3, <2>4
<1>5. KeptFiles' = KeptFiles \cup {f}
    BY <1>4 DEF KeptFiles
<1>6. /\ seen' = {Source} \cup KeptFiles' /\ Source \notin KeptFiles'
      /\ \A i, j \in DOMAIN resolved' : resolved'[i] = resolved'[j] => i = j
    BY <1>1, <1>4, <1>5 DEF ProtoInv, KeptFiles
<1>7. CASE ending' = "error" /\ UNCHANGED <<names, reading>>
    BY <1>1, <1>2, <1>3, <1>4, <1>6, <1>7 DEF ProtoInv, ProtoTypeOK
<1>8. ASSUME NEW N \in SUBSET ImportName,
             names' = [names EXCEPT ![f] = N],
             reading' = Append(Looked(n), [file |-> f, left |-> N]),
             UNCHANGED ending
      PROVE  ProtoInv'
  <2> DEFINE new == [file |-> f, left |-> N]
  <2>1. new \in Reading
      BY <1>3 DEF Reading
  <2>2. /\ Looked(n) \in Seq(Reading) /\ Len(Looked(n)) = Len(reading)
        /\ \A i \in DOMAIN reading : /\ Looked(n)[i].file = reading[i].file
                                     /\ reading[i].left \ {n} \subseteq Looked(n)[i].left
      BY <1>2, LookedFacts
  <2>3. DOMAIN reading = 1 .. Len(reading) /\ Len(reading) \in Nat
      BY <1>2
  <2> HIDE DEF new
  <2>4. /\ reading' \in Seq(Reading) /\ Len(reading') = Len(reading) + 1
        /\ \A i \in 1 .. Len(reading) : reading'[i] = Looked(n)[i]
        /\ reading'[Len(reading) + 1] = new
      BY <1>8, <2>1, <2>2 DEF new
  <2>5. DOMAIN reading' = 1 .. Len(reading) + 1
      BY <2>4
  <2>6. new.file = f /\ new.left = N
      BY DEF new
  <2>7. ProtoTypeOK'
      BY <1>1, <1>2, <1>3, <1>4, <1>8, <2>4 DEF ProtoTypeOK, Reading
  <2>8. DealtWith'
    <3> SUFFICES ASSUME NEW g \in seen', NEW m \in names'[g], Followed(m),
                        lookup[m] \notin seen'
                 PROVE  \E i \in DOMAIN reading' : reading'[i].file = g
                                                    /\ m \in reading'[i].left
        BY <1>1 DEF DealtWith, Followed
    <3>1. CASE g = f
      <4>1. m \in N
          BY <1>2, <1>3, <1>8, <3>1 DEF ProtoTypeOK
      <4>2. Len(reading) + 1 \in DOMAIN reading'
          BY <2>3, <2>5
      <4>3. QED
          BY <2>4, <2>6, <3>1, <4>1, <4>2
    <3>2. CASE g # f
      <4>1. g \in seen /\ m \in names[g] /\ lookup[m] \notin seen /\ m # n
          BY <1>1, <1>2, <1>8, <3>2 DEF ProtoTypeOK
      <4>2. PICK i \in DOMAIN reading : reading[i].file = g /\ m \in reading[i].left
          BY <1>2, <4>1 DEF DealtWith
      <4>3. i \in DOMAIN reading' /\ reading'[i] = Looked(n)[i]
          BY <2>3, <2>4, <2>5
      <4>4. QED
          BY <2>2, <4>1, <4>2, <4>3
    <3>3. QED
        BY <3>1, <3>2
  <2>9. QED
      BY <1>6, <1>8, <2>7, <2>8 DEF ProtoInv
<1>9. QED
    BY <1>7, <1>8 DEF FollowImport

LEMMA FileDoneInv == ASSUME ProtoInv, FileDone PROVE ProtoInv'
<1>1. /\ ending = "running" /\ Current.left = {}
      /\ reading' = SubSeq(reading, 1, Len(reading) - 1)
      /\ ending' = IF Len(reading) = 1 THEN "ok" ELSE "running"
      /\ UNCHANGED <<lookup, names, seen, resolved>>
    BY DEF FileDone
<1>2. ProtoTypeOK /\ DealtWith /\ reading \in Seq(Reading)
    BY <1>1 DEF ProtoInv, ProtoTypeOK, Reading
<1>3. DOMAIN reading = 1 .. Len(reading) /\ Len(reading) \in Nat \ {0}
    BY <1>2 DEF FileDone
<1>4. \A i \in 1 .. Len(reading) - 1 : reading[i] \in Reading
    BY <1>2, <1>3
<1>5. /\ reading' \in Seq(Reading) /\ Len(reading') = Len(reading) - 1
      /\ \A i \in 1 .. Len(reading) - 1 : reading'[i] = reading[i]
    BY <1>1, <1>3, <1>4
<1>6. DOMAIN reading' = 1 .. Len(reading) - 1
    BY <1>5
<1>7. ProtoTypeOK'
    BY <1>1, <1>2, <1>5 DEF ProtoTypeOK, Reading
<1>8. DealtWith'
  <2> SUFFICES ASSUME NEW f \in seen, NEW m \in names[f], Followed(m), lookup[m] \notin seen
               PROVE  \E i \in DOMAIN reading' : reading'[i].file = f /\ m \in reading'[i].left
      BY <1>1 DEF DealtWith, Followed
  <2>1. PICK i \in DOMAIN reading : reading[i].file = f /\ m \in reading[i].left
      BY <1>2 DEF DealtWith
  <2>2. i # Len(reading)
      BY <1>1, <2>1 DEF Current
  <2>3. QED
      BY <1>3, <1>5, <1>6, <2>1, <2>2
<1>9. ending' = "ok" => Len(reading') = 0
    BY <1>1, <1>3, <1>5
<1>10. QED
    BY <1>1, <1>7, <1>8, <1>9 DEF ProtoInv, KeptFiles

LEMMA ProtoStep == ASSUME ProtoInv, [ProtoNext]_protoVars PROVE ProtoInv'
<1>1. CASE UNCHANGED protoVars
    BY <1>1 DEF protoVars, ProtoInv, ProtoTypeOK, DealtWith, Followed, KeptFiles
<1>2. CASE CollectImports
  <2>1. ending = "running" /\ \E n \in Current.left : SkipImport(n) \/ FollowImport(n)
      BY <1>2 DEF CollectImports
  <2>2. Len(reading) # 0
      BY <1>2 DEF CollectImports, ProtoInv, ProtoTypeOK
  <2>3. QED
      BY <2>1, <2>2, SkipImportInv, FollowImportInv
<1>3. CASE FileDone
    BY <1>3, FileDoneInv
<1>4. QED
    BY <1>1, <1>2, <1>3 DEF ProtoNext

(* The invariant says more than what protoc is handed: nothing that is     *)
(* followed is missing once no activation is left.                         *)
LEMMA InvHands == ProtoInv => HandedToProtoc
<1> SUFFICES ASSUME ProtoInv PROVE HandedToProtoc
    OBVIOUS
<1>1. ASSUME ending = "ok", NEW f \in seen, NEW n \in names[f], Followed(n)
      PROVE  lookup[n] = Source \/ lookup[n] \in KeptFiles
  <2>1. DealtWith /\ DOMAIN reading = {}
      BY <1>1 DEF ProtoInv
  <2>2. lookup[n] \in seen
      BY <1>1, <2>1 DEF DealtWith
  <2>3. QED
      BY <2>2 DEF ProtoInv
<1>2. QED
    BY <1>1 DEF ProtoInv, HandedToProtoc, KeptFiles

(* ResolveImports hands protoc each file once, never the source, and every *)
(* file that the source or one of them imports (collectImports).           *)
THEOREM EachFileHandedOnce == ProtoSpec => []HandedToProtoc
<1>1. ProtoSpec => []ProtoInv
    BY ProtoInitInv, ProtoStep, PTL DEF ProtoSpec
<1>2. QED
    BY <1>1, InvHands, PTL

-----------------------------------------------------------------------------
(* Dao: what soft deletes keep, for every number of goroutines, rows,      *)
(* values and calls.                                                       *)

Rows == [key : Key, val : Val, live : BOOLEAN] \cup {NoRow}

DaoInv == DaoTypeOK /\ deleted \in [Id -> Rows] /\ DeletedKeepsContents

Row == [key : Key, val : Val, live : BOOLEAN]

LEMMA LiveRows ==
  ASSUME NEW r \in Rows
  PROVE  r.live \in BOOLEAN /\ (r.live => r \in Row)
<1>1. CASE r \in Row
    BY <1>1 DEF Row
<1>2. CASE r = NoRow
    BY <1>2 DEF NoRow
<1>3. QED
    BY <1>1, <1>2 DEF Rows, Row

(* An UPDATE of the columns writes both and leaves deleted_at as it is.    *)
LEMMA Written ==
  ASSUME NEW r \in Rows, NEW k \in Key, NEW v \in Val, NEW s,
         s = [[r EXCEPT !.key = k] EXCEPT !.val = v]
  PROVE  s = [key |-> k, val |-> v, live |-> r.live] /\ r.live \in BOOLEAN
<1>1. CASE r \in Row
    BY <1>1 DEF Row
<1>2. CASE r = NoRow
  <2>1. r = [key |-> "", val |-> "", live |-> FALSE]
      BY <1>2 DEF NoRow
  <2>2. r.live = FALSE
      BY <2>1
  <2>3. r \in [key : {"", k}, val : {"", v}, live : {FALSE}]
      BY <2>1
  <2>4. QED
      BY <2>2, <2>3
<1>3. QED
    BY <1>1, <1>2 DEF Rows, Row

LEMMA DaoInitInv == DaoInit => DaoInv
<1> SUFFICES ASSUME DaoInit PROVE DaoInv
    OBVIOUS
<1>1. rows \in [Id -> Rows] /\ deleted \in [Id -> Rows] /\ call \in [Worker -> {Idle}]
    BY DEF DaoInit, Rows
<1>2. overtaken \subseteq Id /\ made \in 0 .. MaxDaoCalls
    BY DaoAssumption DEF DaoInit
<1>3. DeletedKeepsContents
    BY DEF DaoInit, DeletedKeepsContents, There
<1>4. QED
    BY <1>1, <1>2, <1>3 DEF DaoInv, DaoTypeOK, Rows

(* One step for each method; only the one that updates by id writes a row  *)
(* that may be deleted, and it notes that it did.                          *)
LEMMA DaoStep ==
  ASSUME DaoInv, [DaoNext]_daoVars
  PROVE  DaoInv'
<1> USE DaoAssumption DEF DaoInv, DaoTypeOK, Rows
<1>live. \A i \in Id : rows[i].live => rows[i] \in [key : Key, val : Val, live : BOOLEAN]
  <2>1. \A i \in Id : rows[i] \in Rows
      OBVIOUS
  <2> HIDE DEF Rows
  <2>2. QED
      BY <2>1, LiveRows DEF Row
<1>1. CASE UNCHANGED daoVars
    BY <1>1 DEF daoVars, DeletedKeepsContents, There
<1>2. ASSUME NEW w \in Worker, NEW k \in Key, NEW v \in Val, Create(w, k, v)
      PROVE  DaoInv'
  <2>1. PICK i \in Id :
          \/ /\ i \in WithKey(k) /\ rows' = [rows EXCEPT ![i].live = TRUE]
          \/ /\ ~There(i) /\ rows' = [rows EXCEPT ![i] = NewRow(k, v)]
      BY <1>2 DEF Create
  <2>2. UNCHANGED <<deleted, overtaken>> /\ made' \in 0 .. MaxDaoCalls
        /\ call' = [call EXCEPT ![w] = Idle]
      BY <1>2 DEF Create, Called, Answers
  <2>3. CASE i \in WithKey(k) /\ rows' = [rows EXCEPT ![i].live = TRUE]
    <3>1. rows[i] \in [key : Key, val : Val, live : BOOLEAN]
        BY <2>3 DEF WithKey, There
    <3>2. rows' \in [Id -> Rows]
        BY <2>3, <3>1
    <3>3. DeletedKeepsContents'
        BY <2>2, <2>3, <3>1 DEF DeletedKeepsContents, There
    <3>4. QED
        BY <2>2, <3>2, <3>3
  <2>4. CASE ~There(i) /\ rows' = [rows EXCEPT ![i] = NewRow(k, v)]
    <3>1. rows' \in [Id -> Rows]
        BY <2>4 DEF NewRow
    <3>2. DeletedKeepsContents'
        BY <2>2, <2>4 DEF DeletedKeepsContents, There, NewRow
    <3>3. QED
        BY <2>2, <3>1, <3>2
  <2>5. QED
      BY <2>1, <2>3, <2>4
<1>3. ASSUME NEW w \in Worker, NEW i \in Id, NEW k \in Key, NEW v \in Val,
             UpdateByID(w, i, k, v)
      PROVE  DaoInv'
  <2>1. UNCHANGED <<deleted, overtaken>> /\ made' \in 0 .. MaxDaoCalls
        /\ call' = [call EXCEPT ![w] = Idle]
      BY <1>3 DEF UpdateByID, Called, Answers
  <2>2. CASE rows' = rows
      BY <2>1, <2>2 DEF DeletedKeepsContents, There
  <2>3. CASE rows[i].live /\ rows' = [rows EXCEPT ![i].key = k, ![i].val = v]
    <3>1. rows[i] \in [key : Key, val : Val, live : BOOLEAN]
        BY <2>3, <1>live
    <3>2. rows' \in [Id -> Rows] /\ rows'[i].live
        BY <2>3, <3>1
    <3>3. DeletedKeepsContents'
        BY <2>1, <2>3, <3>2 DEF DeletedKeepsContents, There
    <3>4. QED
        BY <2>1, <3>2, <3>3
  <2>4. QED
      BY <1>3, <2>2, <2>3 DEF UpdateByID, Live, Changed
<1>4. ASSUME NEW w \in Worker, NEW key \in Key, NEW k \in Key, NEW v \in Val,
             FindByKey(w, key, k, v)
      PROVE  DaoInv'
    BY <1>4 DEF FindByKey, Called, WithKey, Update, DeletedKeepsContents, There
<1>5. ASSUME NEW w \in Worker, UpdateOneID(w)
      PROVE  DaoInv'
  <2> DEFINE i == call[w].id
             k == call[w].key
             v == call[w].val
  <2>1. i \in Id /\ k \in Key /\ v \in Val
      BY <1>5 DEF UpdateOneID
  <2>2. UNCHANGED <<deleted, made>> /\ call' = [call EXCEPT ![w] = Idle]
      BY <1>5 DEF UpdateOneID, Answers
  <2>3. CASE rows' = rows /\ overtaken' = overtaken
      BY <2>2, <2>3 DEF DeletedKeepsContents, There
  <2>4. CASE /\ rows' = [rows EXCEPT ![i].key = k, ![i].val = v]
             /\ overtaken' = IF rows[i].live THEN overtaken ELSE overtaken \cup {i}
    <3>1. rows'[i] = [key |-> k, val |-> v, live |-> rows[i].live]
          /\ rows[i].live \in BOOLEAN
      <4>1. rows'[i] = [[rows[i] EXCEPT !.key = k] EXCEPT !.val = v]
          BY <2>1, <2>4
      <4>2. rows[i] \in Rows
          BY <2>1
      <4> HIDE DEF Rows, i, k, v
      <4>3. QED
          BY <2>1, <4>1, <4>2, Written
    <3>2. rows' \in [Id -> Rows] /\ overtaken' \subseteq Id
      <4>1. rows'[i] \in Rows
          BY <2>1, <3>1
      <4>2. \A j \in Id : j # i => rows'[j] = rows[j]
          BY <2>1, <2>4
      <4>3. rows' \in [Id -> Rows]
          BY <2>1, <2>4, <4>1, <4>2
      <4>4. QED
          BY <2>1, <2>4, <4>3
    <3>3. DeletedKeepsContents'
        BY <2>1, <2>2, <2>4, <3>1 DEF DeletedKeepsContents, There
    <3>4. QED
        BY <2>2, <3>2, <3>3
  <2>5. QED
    <3>1. CASE Taken(i, k)
        BY <1>5, <2>3, <3>1 DEF UpdateOneID
    <3>2. CASE ~Taken(i, k)
        BY <1>5, <2>4, <3>2 DEF UpdateOneID, Live, Changed
    <3>3. QED
        BY <3>1, <3>2
<1>6. ASSUME NEW w \in Worker, NEW i \in Id, DeleteByID(w, i)
      PROVE  DaoInv'
  <2>1. /\ rows[i].live /\ rows' = [rows EXCEPT ![i].live = FALSE]
        /\ deleted' = [deleted EXCEPT ![i] = rows'[i]]
        /\ overtaken' = overtaken \ {i}
        /\ made' \in 0 .. MaxDaoCalls /\ call' = [call EXCEPT ![w] = Idle]
      BY <1>6 DEF DeleteByID, Live, Called, Answers
  <2>2. rows[i] \in [key : Key, val : Val, live : BOOLEAN]
      BY <2>1, <1>live
  <2>3. rows' \in [Id -> Rows] /\ deleted' \in [Id -> Rows]
      BY <2>1, <2>2
  <2>4. DeletedKeepsContents'
      BY <2>1, <2>2 DEF DeletedKeepsContents, There
  <2>5. QED
      BY <2>1, <2>3, <2>4
<1>7. QED
    BY <1>1, <1>2, <1>3, <1>4, <1>5, <1>6 DEF DaoNext

(* What a deleted row held is still there when Create brings it back (the  *)
(* generated dao, genDaoOceanBaseImpl), unless an update that had found    *)
(* the row by its key before the delete came after it.                     *)
THEOREM DeletedContentsKept == DaoSpec => []DeletedKeepsContents
<1>1. DaoSpec => []DaoInv
    BY DaoInitInv, DaoStep, PTL DEF DaoSpec
<1>2. QED
    BY <1>1, PTL DEF DaoInv

-----------------------------------------------------------------------------
(* GenProject, for every set of rpcs and groups and any number of edits    *)
(* and faults.                                                             *)

AfterParse  == {"pb", "config", "svc", "logic", "server", "main", "client",
                "scaffold", "modules", "done"}
AfterPb     == AfterParse \ {"pb"}
AfterServer == {"main", "client", "scaffold", "modules", "done"}
AfterClient == {"scaffold", "modules", "done"}

LogicFor(S) == \A r \in S : Borrows(r) \/ <<r, Home(r)>> \in logic

(* The server has a method for each rpc, and finds the logic of each.      *)
ServerComplete ==
  /\ \A r \in Rpc : r \in parsed <=> server[r] # None
  /\ ~disturbed => \A r \in parsed : Borrows(r) \/ <<r, server[r]>> \in logic

(* What the steps of a run that came this far have done: parsed is still   *)
(* the root proto, the logic of the rpcs that GenLogic came to is where    *)
(* desc/ says, and the server calls it there.                              *)
GenInv ==
  /\ GenTypeOK
  /\ step \in AfterParse => parsed = root
  /\ step \in AfterPb => pb = parsed
  /\ step = "logic" /\ ~disturbed => LogicFor(parsed \ unwritten)
  /\ step = "server" /\ ~disturbed => LogicFor(parsed)
  /\ step \in AfterServer => ServerComplete
  /\ step \in AfterClient => (wants /\ client # parsed => skipped)

LEMMA HomeFacts ==
  GenTypeOK => \A r \in Rpc : /\ Home(r) \in Place /\ Home(r) # None
                             /\ LogicHome(r) \in Place
BY GenAssumption DEF GenTypeOK, Home, LogicHome, Borrows, Place, Base, None

LEMMA GenInitInv == GenInit => GenInv
BY GenAssumption DEF GenInit, GenInv, GenTypeOK, AfterParse, AfterPb, AfterServer, AfterClient

LEMMA GenTypeStep == GenTypeOK /\ [GenNext]_genVars => GenTypeOK'
<1> SUFFICES ASSUME GenTypeOK, [GenNext]_genVars PROVE GenTypeOK'
    OBVIOUS
<1> USE GenAssumption DEF GenTypeOK, disk, run
<1>1. CASE UNCHANGED genVars
    BY <1>1 DEF genVars
<1>2. CASE MergeProtos \/ ParseRoot \/ GenPb
    BY <1>2 DEF MergeProtos, ParseRoot, GenPb, At, Then
<1>3. CASE GenConfig \/ GenSvc \/ GenMain \/ GenScaffold
    BY <1>3 DEF GenConfig, GenSvc, GenMain, GenScaffold, WriteOnce, At, Then
<1>4. CASE GenModuleFiles
    BY <1>4 DEF GenModuleFiles, At
<1>5. CASE GenLogic
    BY <1>5, HomeFacts DEF GenLogic, At, Then
<1>6. CASE GenServer
    BY <1>6, HomeFacts DEF GenServer, At, Then
<1>7. CASE GenCall
    BY <1>7 DEF GenCall, At, Then
<1>8. CASE Fail
  <2>1. logic' \subseteq Rpc \X Place
      BY <1>8, HomeFacts DEF Fail
  <2>2. faults' \in 0 .. MaxFaults
      BY <1>8 DEF Fail, Fault
  <2>3. QED
      BY <1>8, <2>1, <2>2 DEF Fail
<1>9. CASE EditDesc
    BY <1>9 DEF EditDesc, Edit
<1>10. CASE DeleteLogic
    BY <1>10 DEF DeleteLogic, Edit
<1>11. QED
    BY <1>1, <1>2, <1>3, <1>4, <1>5, <1>6, <1>7, <1>8, <1>9, <1>10 DEF GenNext

LEMMA GenStep == GenInv /\ [GenNext]_genVars => GenInv'
<1> SUFFICES ASSUME GenInv, [GenNext]_genVars PROVE GenInv'
    OBVIOUS
<1>0. GenTypeOK /\ GenTypeOK'
    BY GenTypeStep DEF GenInv
<1> USE <1>0 DEF GenInv, disk, run, AfterParse, AfterPb, AfterServer, AfterClient
<1>1. CASE UNCHANGED genVars
    BY <1>1 DEF genVars, LogicFor, Home, Borrows, ServerComplete
<1>2. CASE MergeProtos
    BY <1>2 DEF MergeProtos
<1>3. CASE ParseRoot \/ GenPb
    BY <1>3 DEF ParseRoot, GenPb, At, Then
<1>4. CASE GenConfig
    BY <1>4 DEF GenConfig, WriteOnce, At, Then
<1>5. CASE GenSvc
    BY <1>5 DEF GenSvc, WriteOnce, At, Then, LogicFor, Borrows
<1>6. CASE GenMain \/ GenScaffold
    BY <1>6 DEF GenMain, GenScaffold, WriteOnce, At, Then, ServerComplete, Borrows
<1>7. CASE GenModuleFiles
    BY <1>7 DEF GenModuleFiles, At, ServerComplete, Borrows
<1>8. CASE GenLogic
    BY <1>8 DEF GenLogic, At, Then, LogicFor, LogicHome, Borrows, Home
<1>9. CASE GenServer
  <2>1. /\ step' = "main" /\ UNCHANGED <<parsed, pb, root, logic, disturbed>> /\ step = "server"
        /\ \A r : Borrows(r) <=> Borrows(r)'
      BY <1>9 DEF GenServer, At, Then, Borrows
  <2>2. \A r \in Rpc : server'[r] = IF r \in parsed THEN Home(r) ELSE None
      BY <1>9 DEF GenServer
  <2>3. ServerComplete'
      BY <2>1, <2>2, HomeFacts DEF ServerComplete, LogicFor, GenTypeOK
  <2>4. QED
      BY <2>1, <2>3
<1>10. CASE GenCall
    BY <1>10 DEF GenCall, At, Then, ServerComplete, Borrows
<1>11. CASE Fail
    BY <1>11 DEF Fail, Fault
<1>12. CASE EditDesc
    BY <1>12 DEF EditDesc, Running, ServerComplete, Borrows
<1>13. CASE DeleteLogic
    BY <1>13 DEF DeleteLogic
<1>14. QED
    BY <1>1, <1>2, <1>3, <1>4, <1>5, <1>6, <1>7, <1>8, <1>9, <1>10, <1>11, <1>12, <1>13
    DEF GenNext

(* After a run that says it succeeded the server has a method for each rpc *)
(* of the pb package and finds its logic, wherever earlier runs broke off  *)
(* and whatever the developer did between runs (Generate).                 *)
THEOREM ServerAlwaysFindsLogic == GenSpec => []ServerFindsLogic
<1>1. GenInv => ServerFindsLogic
    BY DEF GenInv, GenTypeOK, ServerFindsLogic, ServerComplete, AfterParse, AfterPb,
           AfterServer, AfterClient
<1>2. QED
    BY <1>1, GenInitInv, GenStep, PTL DEF GenSpec

-----------------------------------------------------------------------------
(* Migrate, for every project and any number of failures, signals and      *)
(* kills.                                                                  *)

(* What the variables of a file call is what it imports, and calls of      *)
(* other packages are renamed only where builderx is replaced.             *)
Consistent(c) ==
  /\ c.direct # "none" => (c.direct = "builder" <=> c.builderx = "builder")
  /\ c.others = "RawFieldNames" => c.builderx = "builder"

(* Nothing of the old module is left in it, and it is whole.               *)
Moved(c) == c.zero # "old" /\ c.builderx # "old" /\ ~c.torn

(* A run knows what it will write of the files that it has walked; what it *)
(* wrote is on disk.                                                       *)
MigrateInv ==
  /\ MigrateTypeOK
  /\ \A f \in GoFile : files[f].torn => files[f] = Torn
  /\ \A f \in GoFile \ refused : Consistent(files[f])
  /\ stage = "done" => require = {m \in {"old", "new"} : \E f \in GoFile : Needs(files[f], m)}
  /\ Migrating => \A f \in walked : Moved(memory[f]) /\ (f \notin refused => Consistent(memory[f]))
  /\ stage = "write" => walked = GoFile /\ \A f \in GoFile \ toWrite : Moved(files[f])
  /\ stage \in {"tidy", "done"} => \A f \in GoFile : Moved(files[f])

LEMMA TornFacts == Torn \in Contents /\ Torn.torn /\ Consistent(Torn)
BY DEF Torn, Untouched, Contents, Consistent

LEMMA SourcesFacts ==
  ASSUME NEW c \in Sources
  PROVE  c \in Contents /\ ~c.torn /\ Consistent(c)
<1>1. CASE \E z \in {"none", "old"} : c = [Untouched EXCEPT !.zero = z]
    BY <1>1 DEF Consistent, Untouched, Contents
<1>2. CASE c \in Contents /\ c.builderx = "old" /\ ~c.torn
           /\ c.direct # "builder" /\ c.others # "RawFieldNames"
    BY <1>2 DEF Consistent, Contents
<1>3. QED
    BY <1>1, <1>2 DEF Sources

LEMMA RewrittenFacts ==
  ASSUME NEW c \in Contents, NEW allow \in BOOLEAN, ~c.torn
  PROVE  /\ Rewritten(c, allow) \in Contents /\ Moved(Rewritten(c, allow))
         /\ allow /\ Consistent(c) => Consistent(Rewritten(c, allow))
BY DEF Contents, Rewritten, Moved, Consistent

LEMMA RepliesFacts ==
  ASSUME NEW a \in Replies
  PROVE  a[1] \in BOOLEAN /\ a[2] \in {"unknown", "all", "ignore"}
<1>1. CASE confirm = "all"
  <2>1. a = <<TRUE, "all">>
      BY <1>1 DEF Replies
  <2>2. QED
      BY <2>1
<1>2. CASE confirm = "ignore"
  <2>1. a = <<FALSE, "ignore">>
      BY <1>2 DEF Replies
  <2>2. QED
      BY <2>1
<1>3. CASE confirm \notin {"all", "ignore"}
  <2>1. a \in ({TRUE, FALSE} \X {"unknown"}) \cup {<<TRUE, "all">>, <<FALSE, "ignore">>}
      BY <1>3 DEF Replies
  <2>2. CASE a \in {TRUE, FALSE} \X {"unknown"}
    <3>1. a[1] \in {TRUE, FALSE} /\ a[2] \in {"unknown"}
        BY <2>2
    <3>2. QED
        BY <3>1, Zenon
  <2>3. CASE a = <<TRUE, "all">>
      BY <2>3
  <2>4. CASE a = <<FALSE, "ignore">>
      BY <2>4
  <2>5. QED
      BY <2>1, <2>2, <2>3, <2>4
<1>4. QED
    BY <1>1, <1>2, <1>3

LEMMA MigrateInitInv == MigrateInit => MigrateInv
<1> SUFFICES ASSUME MigrateInit PROVE MigrateInv
    OBVIOUS
<1>1. files \in [GoFile -> Contents] /\ \A f \in GoFile : files[f] \in Sources
    BY SourcesFacts DEF MigrateInit
<1>2. memory \in [GoFile -> Contents] /\ stops \in 0 .. MaxStops
    BY <1>1, MigrateAssumption DEF MigrateInit
<1>3. MigrateTypeOK
    BY <1>1, <1>2 DEF MigrateInit, MigrateTypeOK
<1>4. QED
    BY <1>1, <1>3, SourcesFacts DEF MigrateInit, MigrateInv, Migrating

(* The last of the files to write is written.                              *)
LEMMA LastWritten ==
  ASSUME MigrateTypeOK, NEW f \in toWrite, Cardinality(toWrite) = 1
  PROVE  toWrite = {f}
<1>1. IsFiniteSet(toWrite)
    BY MigrateAssumption, FS_Subset DEF MigrateTypeOK
<1>2. PICK x : toWrite = {x}
    BY <1>1, FS_Singleton
<1>3. QED
    BY <1>2

(* A process dies: at most one file is torn.                               *)
LEMMA DiesInv ==
  ASSUME MigrateInv, Migrating, Dies, UNCHANGED <<require, inMemory, closed>>,
         handler' = handler, stops' \in 0 .. MaxStops
  PROVE  MigrateInv'
<1>1. \/ files' = files
      \/ \E f \in GoFile : files' = [files EXCEPT ![f] = Torn]
    BY DEF Dies, MigrateInv, MigrateTypeOK
<1>2. \A f \in GoFile : files'[f] = files[f] \/ files'[f] = Torn
    BY <1>1 DEF MigrateInv, MigrateTypeOK
<1>3. files' \in [GoFile -> Contents]
    BY <1>1, TornFacts DEF MigrateInv, MigrateTypeOK
<1>4. MigrateTypeOK'
    BY <1>3 DEF MigrateInv, MigrateTypeOK, inMemory
<1>5. Consistent(Torn)
    BY TornFacts
<1>6. \A f \in GoFile : files'[f].torn => files'[f] = Torn
    BY <1>2 DEF MigrateInv
<1>7. \A f \in GoFile \ refused' : Consistent(files'[f])
    BY <1>2, <1>5 DEF MigrateInv, inMemory
<1>8. stage' = "dead"
    BY DEF Dies
<1>9. QED
    BY <1>4, <1>6, <1>7, <1>8 DEF MigrateInv, Migrating

LEMMA MigrateStepInv == MigrateInv /\ [MigrateNext]_migrateVars => MigrateInv'
<1> SUFFICES ASSUME MigrateInv, [MigrateNext]_migrateVars PROVE MigrateInv'
    OBVIOUS
<1> USE DEF onDisk, inMemory, signals
<1>1. CASE UNCHANGED migrateVars
    BY <1>1 DEF migrateVars, MigrateInv, MigrateTypeOK, Migrating
<1>2. CASE StartMigrate
    BY <1>2 DEF StartMigrate, MigrateInv, MigrateTypeOK, Migrating
<1>3. CASE RemoveRequire \/ AddRequire
    BY <1>3 DEF RemoveRequire, AddRequire, MigrateInv, MigrateTypeOK, Migrating
<1>4. CASE CancelOnSignals \/ CloseDone \/ Notify \/ SeeDone
    BY <1>4 DEF CancelOnSignals, CloseDone, Notify, SeeDone, MigrateInv, MigrateTypeOK, Migrating
<1>5. CASE RewriteFile
  <2>0. PICK f \in GoFile \ walked :
          /\ files[f] # Torn
          /\ walked' = walked \cup {f}
          /\ \E b \in IF files[f].builderx = "old" THEN Replies ELSE {<<TRUE, confirm>>} :
               /\ memory' = [memory EXCEPT ![f] = Rewritten(files[f], b[1])]
               /\ confirm' = b[2]
               /\ refused' = IF b[1] THEN refused ELSE refused \cup {f}
      BY <1>5 DEF RewriteFile
  <2>1. PICK a \in Replies \cup {<<TRUE, confirm>>} :
          /\ memory' = [memory EXCEPT ![f] = Rewritten(files[f], a[1])]
          /\ confirm' = a[2]
          /\ refused' = IF a[1] THEN refused ELSE refused \cup {f}
      BY <2>0
  <2>2. a[1] \in BOOLEAN /\ a[2] \in {"unknown", "all", "ignore"}
    <3>1. CASE a \in Replies
        BY <3>1, RepliesFacts
    <3>2. CASE a = <<TRUE, confirm>>
        BY <3>2 DEF MigrateInv, MigrateTypeOK
    <3>3. QED
        BY <3>1, <3>2
  <2>3. files[f] \in Contents /\ ~files[f].torn
      BY <2>0, <2>1 DEF MigrateInv, MigrateTypeOK
  <2>4. /\ Rewritten(files[f], a[1]) \in Contents /\ Moved(Rewritten(files[f], a[1]))
        /\ a[1] /\ Consistent(files[f]) => Consistent(Rewritten(files[f], a[1]))
      BY <2>2, <2>3, RewrittenFacts
  <2>5. memory' \in [GoFile -> Contents] /\ memory'[f] = Rewritten(files[f], a[1])
        /\ \A g \in GoFile \ {f} : memory'[g] = memory[g]
      BY <2>0, <2>1, <2>4 DEF MigrateInv, MigrateTypeOK
  <2>6. MigrateTypeOK'
      BY <1>5, <2>0, <2>1, <2>2, <2>5 DEF RewriteFile, MigrateInv, MigrateTypeOK
  <2>7. refused \subseteq refused' /\ stage = "walk" /\ stage' = "walk"
      BY <1>5, <2>0, <2>1 DEF RewriteFile
  <2>8. \A g \in walked' : Moved(memory'[g]) /\ (g \notin refused' => Consistent(memory'[g]))
    <3>1. TAKE g \in walked'
    <3>2. CASE g = f
        BY <2>0, <2>1, <2>2, <2>4, <2>5, <3>2 DEF MigrateInv
    <3>3. CASE g # f
        BY <2>0, <2>1, <2>5, <2>7, <3>3 DEF MigrateInv, MigrateTypeOK, Migrating
    <3>4. QED
        BY <3>2, <3>3
  <2>9. QED
      BY <1>5, <2>6, <2>7, <2>8 DEF RewriteFile, MigrateInv, Migrating
<1>6. CASE StartWriting
    BY <1>6 DEF StartWriting, MigrateInv, MigrateTypeOK, Migrating
<1>7. CASE WriteGoFile
  <2>1. PICK f \in toWrite :
          files' = [files EXCEPT ![f] = memory[f]] /\ toWrite' = toWrite \ {f}
      BY <1>7 DEF WriteGoFile
  <2>2. /\ f \in GoFile /\ f \in walked /\ walked = GoFile /\ stage = "write"
        /\ Moved(memory[f]) /\ memory[f] \in Contents
        /\ f \notin refused => Consistent(memory[f])
      BY <1>7, <2>1 DEF WriteGoFile, MigrateInv, MigrateTypeOK, Migrating
  <2>3. /\ files' \in [GoFile -> Contents] /\ files'[f] = memory[f]
        /\ \A g \in GoFile \ {f} : files'[g] = files[g]
      BY <2>1, <2>2 DEF MigrateInv, MigrateTypeOK
  <2>4. MigrateTypeOK'
      BY <1>7, <2>1, <2>3 DEF WriteGoFile, MigrateInv, MigrateTypeOK
  <2>5. /\ \A g \in GoFile : files'[g].torn => files'[g] = Torn
        /\ \A g \in GoFile \ refused : Consistent(files'[g])
      BY <2>2, <2>3 DEF MigrateInv, Moved
  <2>6. \A g \in GoFile \ toWrite' : Moved(files'[g])
      BY <1>7, <2>1, <2>2, <2>3 DEF MigrateInv
  <2>7. stage' = "tidy" => toWrite' = {}
      BY <1>7, <2>1, LastWritten DEF WriteGoFile, MigrateInv
  <2>8. stage' \in {"write", "tidy"}
      BY <1>7 DEF WriteGoFile
  <2>9. QED
      BY <1>7, <2>2, <2>4, <2>5, <2>6, <2>7, <2>8 DEF WriteGoFile, MigrateInv, Migrating
<1>8. CASE Tidy
    BY <1>8 DEF Tidy, MigrateInv, MigrateTypeOK, Migrating, Needs
<1>9. CASE FailMigrate
  <2>1. stops' \in 0 .. MaxStops
      BY <1>9, MigrateAssumption DEF FailMigrate, Stop, MigrateInv, MigrateTypeOK
  <2>2. QED
      BY <1>9, <2>1 DEF FailMigrate, MigrateInv, MigrateTypeOK, Migrating
<1>10. ASSUME Stop PROVE stops' \in 0 .. MaxStops
    BY <1>10, MigrateAssumption DEF Stop, MigrateInv, MigrateTypeOK
<1>11. CASE KillMigrate
    BY <1>10, <1>11, DiesInv DEF KillMigrate
<1>12. CASE Interrupt
  <2>1. CASE Dies
      BY <1>10, <1>12, <2>1, DiesInv DEF Interrupt
  <2>2. CASE UNCHANGED files /\ stage' \in {stage, "failed", "canceled"}
      BY <1>10, <1>12, <2>2 DEF Interrupt, MigrateInv, MigrateTypeOK, Migrating
  <2>3. QED
      BY <1>12, <2>1, <2>2 DEF Interrupt
<1>13. CASE Restore
  <2>1. PICK f \in GoFile, c \in Sources :
          /\ files[f] = Torn /\ files' = [files EXCEPT ![f] = c] /\ refused' = refused \ {f}
      BY <1>13 DEF Restore
  <2>2. /\ files' \in [GoFile -> Contents] /\ files'[f] = c
        /\ \A g \in GoFile \ {f} : files'[g] = files[g]
      BY <2>1, SourcesFacts DEF MigrateInv, MigrateTypeOK
  <2>3. stage # "done"
      BY <2>1, TornFacts DEF MigrateInv, Moved
  <2>4. MigrateTypeOK'
      BY <1>13, <2>1, <2>2 DEF Restore, MigrateInv, MigrateTypeOK
  <2>5. /\ \A g \in GoFile : files'[g].torn => files'[g] = Torn
        /\ \A g \in GoFile \ refused' : Consistent(files'[g])
      BY <2>1, <2>2, SourcesFacts DEF MigrateInv
  <2>6. QED
      BY <1>13, <2>3, <2>4, <2>5 DEF Restore, MigrateInv, Migrating
<1>14. QED
    BY <1>1, <1>2, <1>3, <1>4, <1>5, <1>6, <1>7, <1>8, <1>9, <1>11, <1>12, <1>13
    DEF MigrateNext

(* A migration that ends well leaves nothing of the old module and no torn *)
(* file, wherever earlier runs broke off, and no step ever makes a         *)
(* variable of a file call what the file does not import, but where the    *)
(* developer said no (migrate).                                            *)
THEOREM MigrationIsWhole == MigrateSpec => []MigratedWhole
<1>1. MigrateInv => MigratedWhole
  <2> SUFFICES ASSUME MigrateInv
               PROVE  MigratedWhole
      OBVIOUS
  <2>1. ASSUME stage = "done"
        PROVE  /\ "old" \notin require
               /\ \A f \in GoFile : ~Needs(files[f], "old") /\ files[f] # Torn
               /\ "new" \in require <=> \E f \in GoFile : Needs(files[f], "new")
    <3>1. \A f \in GoFile : Moved(files[f])
        BY <2>1 DEF MigrateInv
    <3>2. \A f \in GoFile : ~Needs(files[f], "old") /\ files[f] # Torn
        BY <3>1, TornFacts DEF Moved, Needs
    <3>3. QED
        BY <2>1, <3>2 DEF MigrateInv
  <2>2. ASSUME NEW f \in GoFile \ refused
        PROVE  \/ Agrees(files[f])
               \/ /\ files[f].builderx = "builder" /\ files[f].direct # "builderx"
                  /\ files[f].elsewhere \/ files[f].others # "none"
      BY <2>2 DEF MigrateInv, Consistent, Agrees
  <2>3. QED
      BY <2>1, <2>2 DEF MigratedWhole
<1>2. QED
    BY <1>1, MigrateInitInv, MigrateStepInv, PTL DEF MigrateSpec

-----------------------------------------------------------------------------
(* MergeProto, for every desc proto of any nesting and number of oddities. *)

BlockKind == {"message", "service", "serviceName", "setting", "rpc", "rpcName", "option"}

(* The block a line is in.                                                 *)
Inner == Innermost(within)

Nesting ==
  /\ within \in Seq(BlockKind)
  /\ \A i \in 1 .. Len(within) :
       /\ i = 1 => within[i] \in {"message", "service", "serviceName"}
       /\ within[i] = "message" /\ i > 1 => within[i - 1] = "message"
       /\ within[i] \in {"service", "serviceName"} => i = 1
       /\ within[i] \in {"rpc", "rpcName"} => i = 2 /\ within[1] = "service"
       /\ within[i] = "option" =>
            i > 2 /\ within[i - 1] = (IF i = 3 THEN "rpc" ELSE "option")
       /\ within[i] = "setting" =>
            i > 1 /\ within[i - 1] = (IF i = 2 THEN "service" ELSE "setting")

BracesTyped ==
  /\ inService \in BOOLEAN
  /\ braceDepth \in Int /\ rpcBraceDepth \in Int /\ messageBraces \in Int /\ rpcBraces \in Int

Odd(o) == o \in oddities
(* What makes the code believe that it is still in a service.              *)
LeftOpen == Odd("rpcBlock") \/ Odd("oneLineService")
(* Braces that are open, for a reader.                                     *)
Unclosed == IF Inner \in {"serviceName", "rpcName"} THEN Len(within) - 1 ELSE Len(within)

BetweenServices ==
  Inner \in {"file", "message"} =>
    /\ rpcBraceDepth = 0 /\ rpcBraces = 0
    /\ inService => LeftOpen /\ messageBraces = 0 /\ braceDepth >= Unclosed
    /\ ~inService => messageBraces = Unclosed

HeadOfService ==
  Inner = "serviceName" =>
    /\ Odd("splitService")
    /\ rpcBraceDepth = 0 /\ rpcBraces = 0 /\ messageBraces = 0
    /\ inService => LeftOpen /\ braceDepth > 0

InsideService ==
  Inner \in {"service", "setting", "rpc", "rpcName", "option"} =>
    /\ Inner = "rpcName" => Odd("splitRpc")
    /\ Inner = "setting" => rpcBraceDepth = 0 /\ Odd("serviceOption")
    /\ rpcBraces = rpcBraceDepth
    /\ rpcBraceDepth = 0 \/ rpcBraceDepth = Unclosed - 1
    /\ rpcBraceDepth = 0 /\ Unclosed > 1 /\ inService => Odd("splitRpc") \/ Inner = "setting"
    /\ inService =>
         /\ messageBraces = 0
         /\ IF rpcBraceDepth > 0 THEN braceDepth > 1 ELSE braceDepth >= Unclosed
         /\ rpcBraceDepth > 0 \/ braceDepth > Unclosed => LeftOpen
    /\ ~inService => Odd("splitService") /\ messageBraces = Unclosed /\ rpcBraceDepth = 0

LossKnown ==
  /\ lost \cap {"definition", "import"} # {} => Misread \/ LeftOpen \/ Odd("headerLikeField")
  /\ "rpc" \in lost =>
       Misread \/ Odd("splitRpc") \/ Odd("oneLineService") \/ Odd("headerLikeField")
  /\ "option" \in lost => Misread \/ Odd("serviceOption")
  /\ moved # {} => Misread \/ Odd("splitService")

MergeInv ==
  /\ within \in Seq(BlockKind)
  /\ BracesTyped
  /\ ~Misread => Nesting /\ BetweenServices /\ HeadOfService /\ InsideService
  /\ LossKnown

(* The shape of within after a line.                                       *)
LEMMA NestStep ==
  ASSUME Nesting, NEW b \in BlockKind, within' = Nest(within, b),
         \/ Inner \in {"file", "message"} /\ b = "message"
         \/ Inner = "file" /\ b \in {"service", "serviceName"}
         \/ Inner = "service" /\ b \in {"rpc", "rpcName"}
         \/ Inner \in {"service", "setting"} /\ b = "setting"
         \/ Inner \in {"rpc", "option"} /\ b = "option"
  PROVE  Nesting' /\ Inner' = b /\ Len(within') = Len(within) + 1
<1> DEFINE n == Len(within)
<1>1. /\ n \in Nat /\ within' \in Seq(BlockKind) /\ Len(within') = n + 1
      /\ \A i \in 1 .. n : within'[i] = within[i]
      /\ within'[n + 1] = b
    BY AppendProperties, LenProperties DEF Nest, Nesting
<1>2. Inner' = b
  <2>1. within' # <<>>
      BY <1>1, EmptySeq
  <2>2. QED
      BY <2>1, <1>1 DEF Inner, Innermost
<1>3. \/ n = 0 /\ Inner = "file"
      \/ n > 0 /\ Inner = within[n]
    BY <1>1, EmptySeq DEF Nesting, Inner, Innermost
<1>4. ASSUME NEW i \in 1 .. n + 1
      PROVE  /\ i = 1 => within'[i] \in {"message", "service", "serviceName"}
             /\ within'[i] = "message" /\ i > 1 => within'[i - 1] = "message"
             /\ within'[i] \in {"service", "serviceName"} => i = 1
             /\ within'[i] \in {"rpc", "rpcName"} => i = 2 /\ within'[1] = "service"
             /\ within'[i] = "option" =>
                  i > 2 /\ within'[i - 1] = (IF i = 3 THEN "rpc" ELSE "option")
             /\ within'[i] = "setting" =>
                  i > 1 /\ within'[i - 1] = (IF i = 2 THEN "service" ELSE "setting")
  <2>1. CASE i \in 1 .. n
      BY <2>1, <1>1 DEF Nesting
  <2>2. CASE i = n + 1
    <3>1. within'[i] = b
        BY <2>2, <1>1
    <3>2. CASE n = 0
        BY <3>1, <3>2, <2>2, <1>3 DEF Nesting, BlockKind
    <3>3. CASE n > 0
      <4>1. Inner = within[n] /\ within'[i - 1] = within[n] /\ within'[1] = within[1]
          BY <3>3, <2>2, <1>1, <1>3
      <4>2. n \in 1 .. n
          BY <3>3, <1>1
      <4>3. Inner # "file"
          BY <4>1, <4>2, ElementOfSeq DEF Nesting, BlockKind
      <4>4. CASE Inner = "message" /\ b = "message"
          BY <4>4, <4>1, <3>1, <3>3, <2>2, <1>1
      <4>5. CASE Inner = "service" /\ b \in {"rpc", "rpcName"}
        <5>1. n = 1
          <6>1. within[n] \in {"service", "serviceName"}
              BY <4>5, <4>1
          <6>2. QED
              BY <6>1, <4>2 DEF Nesting
        <5>2. QED
            BY <5>1, <4>5, <4>1, <3>1, <2>2
      <4>6. CASE Inner = "rpc" /\ b = "option"
        <5>1. n = 2
          <6>1. within[n] \in {"rpc", "rpcName"}
              BY <4>6, <4>1
          <6>2. QED
              BY <6>1, <4>2 DEF Nesting
        <5>2. QED
            BY <5>1, <4>6, <4>1, <3>1, <2>2
      <4>7. CASE Inner = "option" /\ b = "option"
        <5>1. n > 2
          <6>1. within[n] = "option"
              BY <4>7, <4>1
          <6>2. QED
              BY <6>1, <4>2 DEF Nesting
        <5>2. QED
            BY <5>1, <4>7, <4>1, <3>1, <2>2, <1>1
      <4>8. CASE Inner = "service" /\ b = "setting"
        <5>1. n = 1
          <6>1. within[n] \in {"service", "serviceName"}
              BY <4>8, <4>1
          <6>2. QED
              BY <6>1, <4>2 DEF Nesting
        <5>2. QED
            BY <5>1, <4>8, <4>1, <3>1, <2>2
      <4>9. CASE Inner = "setting" /\ b = "setting"
        <5>1. n > 1
          <6>1. within[n] = "setting"
              BY <4>9, <4>1
          <6>2. QED
              BY <6>1, <4>2 DEF Nesting
        <5>2. QED
            BY <5>1, <4>9, <4>1, <3>1, <2>2, <1>1
      <4>10. QED
          BY <4>3, <4>4, <4>5, <4>6, <4>7, <4>8, <4>9
    <3>4. QED
        BY <3>2, <3>3, <1>1
  <2>3. QED
      BY <2>1, <2>2, <1>1
<1>5. QED
    BY <1>1, <1>2, <1>4 DEF Nesting

LEMMA FrontOfSeq ==
  ASSUME NEW S, NEW s \in Seq(S), Len(s) > 0
  PROVE  /\ SubSeq(s, 1, Len(s) - 1) \in Seq(S)
         /\ Len(SubSeq(s, 1, Len(s) - 1)) = Len(s) - 1
         /\ \A i \in 1 .. Len(s) - 1 : SubSeq(s, 1, Len(s) - 1)[i] = s[i]
<1> DEFINE n == Len(s) - 1
<1>1. n \in Nat /\ \A i \in 1 .. n : i \in 1 .. Len(s) /\ 1 + i - 1 = i
    BY LenProperties
<1>2. \A i \in 1 .. n : s[i] \in S
    BY <1>1, ElementOfSeq
<1> HIDE DEF n
<1>3. /\ SubSeq(s, 1, n) \in Seq(S)
      /\ Len(SubSeq(s, 1, n)) = IF 1 <= n THEN n - 1 + 1 ELSE 0
      /\ \A i \in 1 .. n - 1 + 1 : SubSeq(s, 1, n)[i] = s[1 + i - 1]
    BY <1>1, <1>2, SubSeqProperties
<1>4. n - 1 + 1 = n /\ (IF 1 <= n THEN n - 1 + 1 ELSE 0) = n
    BY <1>1
<1>5. /\ SubSeq(s, 1, n) \in Seq(S) /\ Len(SubSeq(s, 1, n)) = n
      /\ \A i \in 1 .. n : SubSeq(s, 1, n)[i] = s[i]
    BY <1>1, <1>3, <1>4
<1>6. QED
    BY <1>5 DEF n

LEMMA LeaveStep ==
  ASSUME Nesting, within' = Leave(within), Inner # "file"
  PROVE  /\ Nesting' /\ Len(within') = Len(within) - 1 /\ Len(within) > 0
         /\ Inner = "message" =>
              Inner' = (IF Len(within) = 1 THEN "file" ELSE "message")
         /\ Inner = "service" => Inner' = "file" /\ Len(within) = 1
         /\ Inner \in {"rpc", "rpcName"} => Inner' = "service" /\ Len(within) = 2
         /\ Inner = "option" =>
              Len(within) > 2 /\ Inner' = (IF Len(within) = 3 THEN "rpc" ELSE "option")
         /\ Inner = "setting" =>
              Len(within) > 1 /\ Inner' = (IF Len(within) = 2 THEN "service" ELSE "setting")
<1> DEFINE n == Len(within)
<1>0. n \in Nat /\ within \in Seq(BlockKind)
    BY LenProperties DEF Nesting
<1>1. n > 0 /\ n \in 1 .. n /\ Inner = within[n]
  <2>1. within # <<>>
      BY DEF Inner, Innermost
  <2>2. n > 0
      BY <1>0, <2>1, EmptySeq
  <2>3. QED
      BY <1>0, <2>1, <2>2 DEF Inner, Innermost
<1>2. /\ within' \in Seq(BlockKind) /\ Len(within') = n - 1
      /\ \A i \in 1 .. n - 1 : within'[i] = within[i]
    BY <1>0, <1>1, FrontOfSeq DEF Leave
<1>3. Nesting'
  <2>1. \A i \in 1 .. n - 1 : i \in 1 .. n /\ (i > 1 => i - 1 \in 1 .. n - 1)
      BY <1>0, <1>1
  <2>2. QED
      BY <1>0, <1>1, <1>2, <2>1 DEF Nesting
<1>4. Inner' = IF n = 1 THEN "file" ELSE within[n - 1]
  <2>1. CASE n = 1
    <3>1. within' = <<>>
        BY <2>1, <1>2, EmptySeq
    <3>2. QED
        BY <2>1, <3>1 DEF Inner, Innermost
  <2>2. CASE n > 1
      BY <2>2, <1>0, <1>1, <1>2, EmptySeq DEF Inner, Innermost
  <2>3. n = 1 \/ n > 1
    <3> HIDE DEF n
    <3>1. QED
        BY <1>0, <1>1
  <2>4. QED
      BY <2>1, <2>2, <2>3
<1>5. /\ Inner = "message" => n = 1 \/ within[n - 1] = "message"
      /\ Inner = "service" => n = 1
      /\ Inner \in {"rpc", "rpcName"} => n = 2 /\ within[1] = "service"
      /\ Inner = "option" => n > 2 /\ within[n - 1] = (IF n = 3 THEN "rpc" ELSE "option")
      /\ Inner = "setting" => n > 1 /\ within[n - 1] = (IF n = 2 THEN "service" ELSE "setting")
  <2>1. /\ within[n] = "message" /\ n > 1 => within[n - 1] = "message"
        /\ within[n] \in {"service", "serviceName"} => n = 1
        /\ within[n] \in {"rpc", "rpcName"} => n = 2 /\ within[1] = "service"
        /\ within[n] = "option" =>
             n > 2 /\ within[n - 1] = (IF n = 3 THEN "rpc" ELSE "option")
        /\ within[n] = "setting" =>
             n > 1 /\ within[n - 1] = (IF n = 2 THEN "service" ELSE "setting")
      BY <1>1 DEF Nesting
  <2> HIDE DEF n
  <2>2. n = 1 \/ n > 1
      BY <1>0, <1>1
  <2>3. QED
      BY <1>1, <2>1, <2>2
<1> HIDE DEF n
<1>6. /\ Inner = "message" => Inner' = (IF n = 1 THEN "file" ELSE "message")
      /\ Inner = "service" => Inner' = "file" /\ n = 1
      /\ Inner \in {"rpc", "rpcName"} => Inner' = "service" /\ n = 2
    BY <1>0, <1>1, <1>4, <1>5
<1>7. /\ Inner = "option" => n > 2 /\ Inner' = (IF n = 3 THEN "rpc" ELSE "option")
      /\ Inner = "setting" => n > 1 /\ Inner' = (IF n = 2 THEN "service" ELSE "setting")
    BY <1>0, <1>1, <1>4, <1>5
<1>8. QED
    BY <1>0, <1>1, <1>2, <1>3, <1>6, <1>7 DEF n

LEMMA ReplaceStep ==
  ASSUME Nesting, NEW b \in BlockKind, within' = Replace(within, b),
         \/ Inner = "serviceName" /\ b = "service"
         \/ Inner = "rpcName" /\ b = "rpc"
  PROVE  Nesting' /\ Inner' = b /\ Len(within') = Len(within)
<1> DEFINE n == Len(within)
<1>0. n \in Nat /\ within \in Seq(BlockKind)
    BY LenProperties DEF Nesting
<1>1. n > 0 /\ n \in 1 .. n /\ Inner = within[n]
  <2>1. within # <<>>
      BY DEF Inner, Innermost
  <2>2. n > 0
      BY <1>0, <2>1, EmptySeq
  <2>3. QED
      BY <1>0, <2>1, <2>2 DEF Inner, Innermost
<1>2. /\ Leave(within) \in Seq(BlockKind) /\ Len(Leave(within)) = n - 1
      /\ \A i \in 1 .. n - 1 : Leave(within)[i] = within[i]
    BY <1>0, <1>1, FrontOfSeq DEF Leave
<1>3. /\ within' \in Seq(BlockKind) /\ Len(within') = n
      /\ \A i \in 1 .. n - 1 : within'[i] = within[i]
      /\ within'[n] = b
    BY <1>0, <1>1, <1>2, AppendProperties DEF Replace
<1>4. Inner' = b
    BY <1>0, <1>1, <1>3, EmptySeq DEF Inner, Innermost
<1>5. n = (IF b = "service" THEN 1 ELSE 2) /\ (b = "rpc" => within[1] = "service")
    BY <1>1 DEF Nesting
<1>6. Nesting'
    BY <1>0, <1>1, <1>3, <1>5 DEF Nesting
<1>7. QED
    BY <1>3, <1>4, <1>6

Reads(l) ==
  \/ SkipHeader(l) \/ CollectImport(l) \/ OpenService(l) \/ KeepRpcBlock(l) \/ ReadService(l) \/ KeepDefinition(l)

(* What is odd stays so to the end of the file.                            *)
LEMMA OddStays ==
  ASSUME NEW l, oddities' = oddities \cup l.odd
  PROVE  /\ \A o : Odd(o) => o \in oddities'
         /\ \A o \in l.odd : o \in oddities'
         /\ Misread => Misread'
         /\ l.odd \cap {"codeInText", "sharedLine"} # {} => Misread'
BY DEF Odd, Misread

LEMMA FieldsOfLine ==
  ASSUME NEW p, NEW o, NEW c, NEW of, NEW e, NEW odd
  PROVE  /\ Line(p, o, c, of, e, odd).pattern = p
         /\ Line(p, o, c, of, e, odd).of = {of}
         /\ Line(p, o, c, of, e, odd).enters = e
         /\ Line(p, o, c, of, e, odd).odd = odd
         /\ Net(Line(p, o, c, of, e, odd)) = o - c
BY DEF Line, Net

Wild == {"codeInText", "sharedLine"}

(* The counters at the end of a line, by what the code takes it for.       *)
LEMMA CountersStep ==
  ASSUME BracesTyped, NEW l, Net(l) \in Int, Reads(l)
  PROVE  /\ BracesTyped'
         /\ l.pattern = "header" =>
              /\ UNCHANGED <<inService, braceDepth, rpcBraceDepth, messageBraces, rpcBraces, moved>>
              /\ lost' = lost \cup (l.of \cap Content)
         /\ l.pattern = "import" =>
              /\ UNCHANGED <<inService, braceDepth, rpcBraceDepth, messageBraces, rpcBraces, lost>>
              /\ moved' = moved \cup (l.of \ {"import"})
         /\ l.pattern = "service" =>
              /\ inService' = TRUE /\ braceDepth' = Net(l)
              /\ UNCHANGED <<rpcBraceDepth, messageBraces, rpcBraces, moved>>
              /\ lost' = lost \cup (l.of \cap Content)
         /\ l.pattern \notin {"header", "import", "service"} =>
              /\ inService /\ rpcBraceDepth > 0 =>
                   /\ rpcBraceDepth' = IF rpcBraceDepth + Net(l) <= 0 THEN 0
                                       ELSE rpcBraceDepth + Net(l)
                   /\ rpcBraces' = rpcBraces + Net(l)
                   /\ UNCHANGED <<inService, braceDepth, messageBraces, lost, moved>>
              /\ inService /\ rpcBraceDepth = 0 =>
                   /\ braceDepth' = braceDepth + Net(l)
                   /\ inService' = (braceDepth + Net(l) > 0)
                   /\ rpcBraceDepth' =
                        (IF braceDepth + Net(l) > 0 /\ l.pattern = "rpc" /\ Net(l) > 0
                         THEN Net(l) ELSE 0)
                   /\ IF braceDepth + Net(l) > 0 /\ l.pattern \in {"rpc", "comment"}
                      THEN rpcBraces' = rpcBraces + Net(l) /\ lost' = lost
                      ELSE rpcBraces' = rpcBraces /\ lost' = lost \cup (l.of \cap Content)
                   /\ messageBraces' = messageBraces
                   /\ moved' = moved \cup {c \in l.of : /\ braceDepth + Net(l) > 0
                                                      /\ l.pattern = "rpc" /\ c = "comment"}
              /\ ~inService =>
                   /\ messageBraces' = messageBraces + Net(l)
                   /\ moved' = moved \cup (l.of \cap {"rpc", "option", "service"})
                   /\ UNCHANGED <<inService, braceDepth, rpcBraceDepth, rpcBraces, lost>>
<1> DEFINE n == Net(l)
<1>1. n \in Int
    OBVIOUS
<1> HIDE DEF n
<1>2. CASE SkipHeader(l)
    BY <1>2 DEF SkipHeader, Dropped, BracesTyped
<1>8. CASE CollectImport(l)
    BY <1>8 DEF CollectImport, BracesTyped
<1>3. CASE OpenService(l)
    BY <1>1, <1>3 DEF OpenService, Dropped, BracesTyped, n
<1>4. CASE KeepRpcBlock(l)
  <2>1. /\ l.pattern \notin {"header", "import", "service"}
        /\ inService /\ rpcBraceDepth > 0
        /\ rpcBraceDepth' = IF rpcBraceDepth + n <= 0 THEN 0 ELSE rpcBraceDepth + n
        /\ rpcBraces' = rpcBraces + n
        /\ UNCHANGED <<inService, braceDepth, messageBraces, lost, moved>>
      BY <1>4 DEF KeepRpcBlock, KeptAsRpc, n
  <2>2. rpcBraceDepth' \in Int /\ rpcBraces' \in Int /\ rpcBraceDepth # 0
      BY <2>1, <1>1 DEF BracesTyped
  <2>3. BracesTyped'
      BY <2>1, <2>2 DEF BracesTyped
  <2>4. QED
      BY <2>1, <2>2, <2>3 DEF n
<1>5. CASE ReadService(l)
  <2>1. /\ l.pattern \notin {"header", "import", "service"}
        /\ inService /\ rpcBraceDepth = 0
        /\ braceDepth' = braceDepth + n
        /\ inService' = (braceDepth + n > 0)
        /\ rpcBraceDepth' = (IF braceDepth + n > 0 /\ l.pattern = "rpc" /\ n > 0 THEN n ELSE 0)
        /\ IF braceDepth + n > 0 /\ l.pattern \in {"rpc", "comment"}
           THEN rpcBraces' = rpcBraces + n /\ lost' = lost
           ELSE rpcBraces' = rpcBraces /\ lost' = lost \cup (l.of \cap Content)
        /\ messageBraces' = messageBraces
        /\ moved' = moved \cup {c \in l.of : braceDepth + n > 0 /\ l.pattern = "rpc" /\ c = "comment"}
    <3>1. /\ l.pattern \notin {"header", "import", "service"}
          /\ inService /\ rpcBraceDepth = 0
          /\ braceDepth' = braceDepth + n
          /\ inService' = (braceDepth + n > 0)
          /\ rpcBraceDepth' = (IF braceDepth + n > 0 /\ l.pattern = "rpc" /\ n > 0 THEN n ELSE 0)
          /\ messageBraces' = messageBraces
        BY <1>5 DEF ReadService, KeptAsRpc, Dropped, BlockOf, n
    <3>2. CASE braceDepth + n > 0 /\ l.pattern \in {"rpc", "comment"}
        BY <1>5, <3>1, <3>2 DEF ReadService, KeptAsRpc, n
    <3>3. CASE ~(braceDepth + n > 0 /\ l.pattern \in {"rpc", "comment"})
        BY <1>5, <3>1, <3>3 DEF ReadService, Dropped, n
    <3>4. QED
        BY <3>1, <3>2, <3>3
  <2>2. /\ braceDepth' \in Int /\ rpcBraceDepth' \in Int /\ rpcBraces' \in Int
        /\ ~(rpcBraceDepth > 0)
      BY <2>1, <1>1 DEF BracesTyped
  <2>3. inService' \in BOOLEAN
      BY <2>1
  <2>4. BracesTyped'
      BY <2>1, <2>2, <2>3 DEF BracesTyped
  <2>5. QED
      BY <2>1, <2>2, <2>4 DEF n
<1>6. CASE KeepDefinition(l)
    BY <1>1, <1>6 DEF KeepDefinition, Kept, BracesTyped, n
<1>7. QED
    BY <1>2, <1>3, <1>4, <1>5, <1>6, <1>8 DEF Reads

LineRead(l) ==
  Reads(l) /\ within' = l.enters /\ oddities' = oddities \cup l.odd

Accounted == BetweenServices /\ HeadOfService /\ InsideService /\ LossKnown

LEMMA UnclosedType ==
  ASSUME Nesting
  PROVE  Unclosed \in Int /\ Inner \in BlockKind \cup {"file"}
BY LenProperties, ElementOfSeq DEF Nesting, Unclosed, Inner, Innermost

(* A line of a definition, or of none.                                     *)
LEMMA OutsideStep ==
  ASSUME BracesTyped, Accounted, NEW l, Net(l) \in Int, LineRead(l),
         Inner \in {"file", "message"}, Inner' \in {"file", "message"},
         Unclosed \in Int, Unclosed' = Unclosed + Net(l), Unclosed' >= 0,
         l.pattern \in {"other", "comment"}, l.of \in {{"definition"}, {"comment"}},
         l.pattern = "comment" => Net(l) = 0
  PROVE  Accounted'
<1> DEFINE n == Net(l)
<1>1. /\ n \in Int /\ Unclosed \in Int /\ Unclosed' = Unclosed + n /\ Unclosed' >= 0
      /\ l.pattern = "comment" => n = 0
      /\ l.pattern \in {"other", "comment"} /\ l.of \in {{"definition"}, {"comment"}}
      /\ rpcBraceDepth = 0 /\ rpcBraces = 0
    BY DEF Accounted, BetweenServices
<1>2. (\A o : Odd(o) => o \in oddities') /\ (Misread => Misread')
    BY OddStays DEF LineRead
<1>3. BracesTyped' /\ Reads(l)
    BY CountersStep DEF LineRead
<1> HIDE DEF n
<1>4. CASE inService
  <2>1. LeftOpen /\ messageBraces = 0 /\ braceDepth >= Unclosed
      BY <1>4 DEF Accounted, BetweenServices
  <2>2. /\ braceDepth' = braceDepth + n
        /\ inService' = (braceDepth + n > 0)
        /\ rpcBraceDepth' = 0
        /\ IF braceDepth + n > 0 /\ l.pattern \in {"rpc", "comment"}
           THEN rpcBraces' = rpcBraces + n /\ lost' = lost
           ELSE rpcBraces' = rpcBraces /\ lost' = lost \cup (l.of \cap Content)
        /\ UNCHANGED <<messageBraces, moved>>
    <3>1. rpcBraceDepth' = (IF braceDepth + n > 0 /\ l.pattern = "rpc" /\ n > 0 THEN n ELSE 0)
        BY <1>1, <1>3, <1>4, CountersStep DEF n
    <3>2. moved' = moved \cup {c \in l.of : /\ braceDepth + n > 0
                                         /\ l.pattern = "rpc" /\ c = "comment"}
        BY <1>1, <1>3, <1>4, CountersStep DEF n
    <3>3. moved' = moved
        BY <1>1, <3>2
    <3>4. QED
        BY <3>1, <3>3, <1>1, <1>3, <1>4, CountersStep DEF n
  <2>3. rpcBraces' = 0 /\ (lost' = lost \/ lost' = lost \cup {"definition"})
      BY <1>1, <2>2 DEF Content
  <2>4. /\ braceDepth' >= Unclosed' /\ braceDepth' \in Int /\ Unclosed' \in Int /\ Unclosed' >= 0
        /\ braceDepth' > 0 \/ Unclosed' = 0
      BY <1>1, <2>1, <2>2 DEF BracesTyped
  <2>5. LeftOpen'
      BY <1>2, <2>1 DEF LeftOpen, Odd
  <2>6. LossKnown'
      BY <1>2, <2>2, <2>3, <2>5 DEF Accounted, LossKnown, LeftOpen, Odd, Content
  <2>7. ~inService' => Unclosed' = 0
      BY <2>2, <2>4
  <2>8. BetweenServices'
      BY <2>1, <2>2, <2>3, <2>4, <2>5, <2>7 DEF BetweenServices
  <2>9. QED
      BY <2>6, <2>8 DEF Accounted, HeadOfService, InsideService
<1>5. CASE ~inService
  <2>1. messageBraces = Unclosed
      BY <1>5 DEF Accounted, BetweenServices
  <2>2. /\ messageBraces' = messageBraces + n
        /\ moved' = moved \cup (l.of \cap {"rpc", "option", "service"})
        /\ inService' = inService /\ rpcBraceDepth' = 0 /\ rpcBraces' = 0 /\ lost' = lost
      BY <1>1, <1>3, <1>5, CountersStep DEF n
  <2>3. messageBraces' = Unclosed'
      BY <1>1, <2>1, <2>2
  <2>4. LossKnown'
    <3>1. moved' = moved
        BY <1>1, <2>2
    <3>2. QED
        BY <1>2, <2>2, <3>1 DEF Accounted, LossKnown, LeftOpen, Odd, Content
  <2>5. BetweenServices'
      BY <1>5, <2>2, <2>3 DEF BetweenServices
  <2>6. QED
      BY <2>4, <2>5 DEF Accounted, HeadOfService, InsideService
<1>6. QED
    BY <1>4, <1>5

(* A line of a service, of an rpc or of its block.                         *)
LEMMA InsideStep ==
  ASSUME BracesTyped, Accounted, NEW l, Net(l) \in Int, LineRead(l),
         Inner \in {"service", "setting", "rpc", "rpcName", "option"},
         Inner' \in {"service", "setting", "rpc", "rpcName", "option"},
         Unclosed \in Int, Unclosed > 0,
         Unclosed' = Unclosed + Net(l), Unclosed' > 0,
         l.pattern \in {"rpc", "other", "comment"},
         l.of \in {{"rpc"}, {"option"}, {"comment"}},
         l.of = {"comment"} => Net(l) = 0 /\ Inner' = Inner,
         l.pattern = "comment" => l.of = {"comment"},
         l.of = {"option"} => l.pattern = "other" /\ "serviceOption" \in oddities'
                              /\ Inner \in {"service", "setting"},
         l.of = {"rpc"} => Inner # "setting" /\ Inner' # "setting",
         Inner' = "service" => Unclosed' = 1, Inner = "service" => Unclosed = 1,
         l.of = {"option"} => Inner' \in {"service", "setting"},
         l.pattern = "rpc" =>
           l.of = {"rpc"} /\ Unclosed = 1 /\ (Net(l) = 0 \/ (Net(l) = 1 /\ "rpcBlock" \in oddities')),
         l.pattern = "other" /\ l.of = {"rpc"} => Inner = "rpcName" \/ Unclosed > 1,
         Inner' = "rpcName" => "splitRpc" \in oddities'
  PROVE  Accounted'
<1> DEFINE n == Net(l)
           u == Unclosed
<1>1. /\ n \in Int /\ Unclosed' = u + n /\ (l.of = {"comment"} => n = 0 /\ Inner' = Inner)
      /\ l.pattern = "comment" => l.of = {"comment"}
      /\ l.of \in {{"rpc"}, {"option"}, {"comment"}}
      /\ u \in Int /\ u > 0 /\ u + n > 0
      /\ l.pattern = "rpc" => u = 1 /\ (n = 0 \/ (n = 1 /\ "rpcBlock" \in oddities'))
      /\ l.pattern = "rpc" => l.of = {"rpc"}
      /\ l.pattern = "other" /\ l.of = {"rpc"} => Inner = "rpcName" \/ u > 1
      /\ Inner = "service" => u = 1
    OBVIOUS
<1>2. (\A o : Odd(o) => o \in oddities') /\ (Misread => Misread')
    BY OddStays DEF LineRead
<1>3. BracesTyped' /\ Reads(l)
    BY CountersStep DEF LineRead
<1>4. /\ Inner = "rpcName" => Odd("splitRpc")
      /\ rpcBraces = rpcBraceDepth
      /\ rpcBraceDepth = 0 \/ rpcBraceDepth = u - 1
      /\ rpcBraceDepth = 0 /\ u > 1 /\ inService => Odd("splitRpc") \/ Inner = "setting"
      /\ Inner = "setting" => rpcBraceDepth = 0 /\ Odd("serviceOption")
      /\ inService =>
           /\ messageBraces = 0
           /\ IF rpcBraceDepth > 0 THEN braceDepth > 1 ELSE braceDepth >= u
           /\ rpcBraceDepth > 0 \/ braceDepth > u => LeftOpen
      /\ ~inService => Odd("splitService") /\ messageBraces = u /\ rpcBraceDepth = 0
    BY DEF Accounted, InsideService
<1>5. LeftOpen => Odd("rpcBlock")' \/ Odd("oneLineService")'
    BY <1>2 DEF LeftOpen, Odd
<1>11. Inner' = "setting" => "serviceOption" \in oddities'
  <2>1. CASE l.of = {"comment"}
      BY <1>1, <1>2, <1>4, <2>1
  <2>2. CASE l.of = {"option"} \/ l.of = {"rpc"}
      BY <2>2
  <2>3. QED
      BY <1>1, <2>1, <2>2
<1>10. l.of \cap Content = (IF l.of = {"comment"} THEN {} ELSE l.of)
    BY <1>1 DEF Content
<1> HIDE DEF n, u
<1>6. CASE inService /\ rpcBraceDepth > 0
  <2>1. /\ rpcBraceDepth' = (IF rpcBraceDepth + n <= 0 THEN 0 ELSE rpcBraceDepth + n)
        /\ rpcBraces' = rpcBraces + n
        /\ UNCHANGED <<inService, braceDepth, messageBraces, lost, moved>>
      BY <1>3, <1>6, CountersStep DEF n
  <2>2. /\ rpcBraceDepth' = rpcBraceDepth + n /\ rpcBraceDepth' = Unclosed' - 1
        /\ rpcBraces' = rpcBraceDepth'
        /\ rpcBraceDepth' > 0 \/ (Unclosed' = 1 /\ rpcBraceDepth' = 0)
      BY <1>1, <1>4, <1>6, <2>1 DEF BracesTyped
  <2>3. braceDepth' > 1 /\ LeftOpen' /\ messageBraces' = 0 /\ inService'
      BY <1>4, <1>5, <1>6, <2>1 DEF LeftOpen
  <2>4. IF rpcBraceDepth' > 0 THEN braceDepth' > 1 ELSE braceDepth' >= Unclosed'
      BY <1>3, <2>2, <2>3 DEF BracesTyped
  <2>5. ~(rpcBraceDepth' = 0 /\ Unclosed' > 1)
      BY <2>2
  <2>9. u > 1 /\ Inner \notin {"service", "setting"}
      BY <1>1, <1>4, <1>6 DEF BracesTyped
  <2>10. Inner' # "setting"
      BY <1>1, <2>9
  <2>6. InsideService'
      BY <2>2, <2>3, <2>4, <2>5, <2>10 DEF InsideService, Odd
  <2>7. LossKnown'
      BY <1>2, <2>1, <2>3 DEF Accounted, LossKnown, LeftOpen, Odd
  <2>8. QED
      BY <2>6, <2>7 DEF Accounted, BetweenServices, HeadOfService
<1>7. CASE inService /\ rpcBraceDepth = 0
  <2>1. /\ braceDepth' = braceDepth + n
        /\ inService' = (braceDepth + n > 0)
        /\ rpcBraceDepth' = (IF braceDepth + n > 0 /\ l.pattern = "rpc" /\ n > 0 THEN n ELSE 0)
        /\ IF braceDepth + n > 0 /\ l.pattern \in {"rpc", "comment"}
           THEN rpcBraces' = rpcBraces + n /\ lost' = lost
           ELSE rpcBraces' = rpcBraces /\ lost' = lost \cup (l.of \cap Content)
        /\ UNCHANGED <<messageBraces, moved>>
    <3>1. moved' = moved \cup {c \in l.of : /\ braceDepth + n > 0
                                         /\ l.pattern = "rpc" /\ c = "comment"}
        BY <1>1, <1>3, <1>7, CountersStep DEF n
    <3>2. moved' = moved
        BY <1>1, <3>1
    <3>3. QED
        BY <1>1, <1>3, <1>7, <3>2, CountersStep DEF n
  <2>2. braceDepth >= u /\ braceDepth \in Int /\ rpcBraces = 0 /\ messageBraces = 0
      BY <1>4, <1>7 DEF BracesTyped
  <2>3. braceDepth + n > 0 /\ braceDepth' >= Unclosed' /\ braceDepth' \in Int /\ Unclosed' \in Int
      BY <1>1, <2>1, <2>2
  <2>4. inService'
      BY <2>1, <2>3
  <2>5. braceDepth' > Unclosed' => LeftOpen'
    <3>1. braceDepth' > Unclosed' => braceDepth > u
        BY <1>1, <2>1, <2>2
    <3>2. QED
        BY <3>1, <1>4, <1>5, <1>7 DEF LeftOpen
  <2>6. CASE l.pattern = "rpc"
    <3>1. /\ u = 1 /\ rpcBraceDepth' = n /\ rpcBraces' = n /\ lost' = lost
          /\ Unclosed' = 1 + n
        BY <1>1, <2>1, <2>2, <2>3, <2>6
    <3>2. CASE n = 0
      <4>1. rpcBraceDepth' = 0 /\ rpcBraces' = 0 /\ Unclosed' = 1
          BY <3>1, <3>2
      <4>9. Inner' # "setting"
          BY <1>1, <2>6
      <4>2. InsideService'
          BY <4>1, <4>9, <2>1, <2>2, <2>3, <2>4, <2>5, <1>11 DEF InsideService, Odd
      <4>3. LossKnown'
          BY <1>2, <1>5, <2>1, <3>1 DEF Accounted, LossKnown, LeftOpen, Odd, Content
      <4>4. QED
          BY <4>2, <4>3 DEF Accounted, BetweenServices, HeadOfService
    <3>3. CASE n = 1 /\ "rpcBlock" \in oddities'
      <4>1. rpcBraceDepth' = 1 /\ rpcBraces' = 1 /\ Unclosed' = 2 /\ braceDepth' > 1
          BY <3>1, <3>3, <2>3
      <4>2. LeftOpen'
          BY <3>3 DEF LeftOpen, Odd
      <4>9. Inner' # "setting"
          BY <1>1, <2>6
      <4>3. InsideService'
          BY <4>1, <4>9, <4>2, <2>1, <2>2, <2>4 DEF InsideService, Odd
      <4>4. LossKnown'
          BY <1>2, <1>5, <2>1, <3>1 DEF Accounted, LossKnown, LeftOpen, Odd, Content
      <4>5. QED
          BY <4>3, <4>4 DEF Accounted, BetweenServices, HeadOfService
    <3>4. QED
        BY <1>1, <2>6, <3>2, <3>3
  <2>7. CASE l.of = {"comment"}
    <3>1. /\ n = 0 /\ rpcBraceDepth' = 0 /\ rpcBraces' = 0 /\ lost' = lost /\ Unclosed' = u
        BY <1>1, <1>10, <2>1, <2>2, <2>3, <2>7
    <3>2. Unclosed' > 1 => "splitRpc" \in oddities' \/ Inner' = "setting"
        BY <1>1, <1>2, <1>4, <1>7, <2>7, <3>1
    <3>3. InsideService'
        BY <3>1, <3>2, <1>1, <2>1, <2>2, <2>3, <2>4, <2>5, <1>11 DEF InsideService, Odd
    <3>4. LossKnown'
        BY <1>2, <1>5, <2>1, <3>1 DEF Accounted, LossKnown, LeftOpen, Odd
    <3>5. QED
        BY <3>3, <3>4 DEF Accounted, BetweenServices, HeadOfService
  <2>8. CASE l.pattern = "other" /\ l.of = {"rpc"}
    <3>1. "splitRpc" \in oddities' /\ Inner' # "setting"
        BY <1>1, <1>2, <1>4, <1>7, <2>8
    <3>2. /\ rpcBraceDepth' = 0 /\ rpcBraces' = 0 /\ lost' = lost \cup {"rpc"}
        BY <1>10, <2>1, <2>2, <2>8
    <3>3. InsideService'
        BY <3>1, <3>2, <1>1, <2>1, <2>2, <2>3, <2>4, <2>5, <1>11 DEF InsideService, Odd
    <3>4. LossKnown'
        BY <1>2, <1>5, <2>1, <3>1, <3>2 DEF Accounted, LossKnown, LeftOpen, Odd
    <3>5. QED
        BY <3>3, <3>4 DEF Accounted, BetweenServices, HeadOfService
  <2>9. CASE l.of = {"option"}
    <3>1. /\ l.pattern = "other" /\ "serviceOption" \in oddities'
          /\ Inner' \in {"service", "setting"} /\ (Inner' = "service" => Unclosed' = 1)
        BY <2>9
    <3>2. /\ rpcBraceDepth' = 0 /\ rpcBraces' = 0 /\ lost' = lost \cup {"option"}
        BY <1>10, <2>1, <2>2, <2>9, <3>1
    <3>3. InsideService'
        BY <3>1, <3>2, <1>1, <2>1, <2>2, <2>3, <2>4, <2>5, <1>11 DEF InsideService, Odd
    <3>4. LossKnown'
        BY <1>2, <1>5, <2>1, <3>1, <3>2 DEF Accounted, LossKnown, LeftOpen, Odd
    <3>5. QED
        BY <3>3, <3>4 DEF Accounted, BetweenServices, HeadOfService
  <2>10. QED
      BY <1>1, <2>6, <2>7, <2>8, <2>9
<1>8. CASE ~inService
  <2>1. /\ messageBraces' = messageBraces + n
        /\ moved' = moved \cup (l.of \cap {"rpc", "option", "service"})
        /\ UNCHANGED <<inService, braceDepth, rpcBraceDepth, rpcBraces, lost>>
      BY <1>3, <1>8, <1>4, CountersStep DEF n
  <2>2. "splitService" \in oddities' /\ messageBraces' = Unclosed' /\ rpcBraceDepth' = 0
      BY <1>1, <1>2, <1>4, <1>8, <2>1
  <2>3. InsideService'
      BY <1>1, <1>4, <1>8, <1>11, <2>1, <2>2 DEF InsideService, Odd
  <2>4. LossKnown'
      BY <1>2, <1>5, <2>1, <2>2 DEF Accounted, LossKnown, LeftOpen, Odd, Content
  <2>5. QED
      BY <2>3, <2>4 DEF Accounted, BetweenServices, HeadOfService
<1>9. QED
  <2>1. inService /\ rpcBraceDepth # 0 => rpcBraceDepth > 0
      BY <1>1, <1>4 DEF BracesTyped
  <2>2. QED
      BY <2>1, <1>6, <1>7, <1>8

(* A line that is a header, or that looks like one.                        *)
LEMMA HeaderStep ==
  ASSUME BracesTyped, Accounted, NEW l, Net(l) \in Int, LineRead(l),
         Inner' = Inner, Unclosed' = Unclosed,
         \/ l.pattern = "header" /\ l.of = {"header"}
         \/ l.pattern = "import" /\ l.of = {"import"}
         \/ l.pattern = "header" /\ l.of = {"definition"} /\ "headerLikeField" \in oddities'
         \/ l.pattern = "header" /\ l.of = {"rpc"} /\ "headerLikeField" \in oddities'
         \/ l.pattern = "header" /\ l.of = {"option"} /\ "serviceOption" \in oddities'
  PROVE  Accounted'
<1>1. (\A o : Odd(o) => o \in oddities') /\ (Misread => Misread')
    BY OddStays DEF LineRead
<1>2. /\ UNCHANGED <<inService, braceDepth, rpcBraceDepth, messageBraces, rpcBraces>>
      /\ l.pattern = "header" => moved' = moved /\ lost' = lost \cup (l.of \cap Content)
      /\ l.pattern = "import" => lost' = lost /\ moved' = moved \cup (l.of \ {"import"})
    BY CountersStep DEF LineRead
<1>3. LeftOpen => LeftOpen'
    BY <1>1, SMTT(40) DEF LeftOpen, Odd
<1>4. BetweenServices' /\ HeadOfService' /\ InsideService'
    BY <1>1, <1>2, <1>3 DEF Accounted, BetweenServices, HeadOfService, InsideService, Odd
<1>5. LossKnown'
  <2>1. CASE l.pattern = "import" /\ l.of = {"import"}
    <3>1. lost' = lost /\ moved' = moved
        BY <1>2, <2>1
    <3>2. QED
        BY <1>1, <1>3, <3>1 DEF Accounted, LossKnown, Odd
  <2>2. CASE l.pattern = "header" /\ l.of = {"header"}
    <3>1. lost' = lost /\ moved' = moved
        BY <1>2, <2>2 DEF Content
    <3>2. QED
        BY <1>1, <1>3, <3>1 DEF Accounted, LossKnown, Odd
  <2>3. CASE l.pattern = "header" /\ l.of # {"header"}
    <3>1. moved' = moved /\ lost' = lost \cup l.of
        BY <1>2, <2>3 DEF Content
    <3>2. QED
        BY <1>1, <1>3, <2>3, <3>1 DEF Accounted, LossKnown, Odd
  <2>4. QED
      BY <2>1, <2>2, <2>3
<1>6. QED
    BY <1>4, <1>5 DEF Accounted

(* A line that the code takes for the head of a service: the block is left *)
(* open behind it, or it is all on that line.                              *)
LEMMA OpenServiceStep ==
  ASSUME BracesTyped, Accounted, NEW l, Net(l) \in Int, LineRead(l),
         Inner = "file", Unclosed = 0, l.pattern = "service",
         \/ /\ l.of = {"service"} /\ Net(l) = 1 /\ Inner' = "service" /\ Unclosed' = 1
         \/ /\ l.of \in {{"service"}, {"rpc"}} /\ Net(l) = 0 /\ Inner' = "file"
            /\ Unclosed' = 0 /\ "oneLineService" \in oddities'
  PROVE  Accounted'
<1>1. (\A o : Odd(o) => o \in oddities') /\ (Misread => Misread')
    BY OddStays DEF LineRead
<1>2. /\ inService' /\ braceDepth' = Net(l)
      /\ UNCHANGED <<rpcBraceDepth, messageBraces, rpcBraces, moved>>
      /\ lost' = lost \cup (l.of \cap Content)
    BY CountersStep DEF LineRead
<1>3. rpcBraceDepth' = 0 /\ rpcBraces' = 0 /\ messageBraces' = 0
    BY <1>2 DEF Accounted, BetweenServices, BracesTyped
<1>4. LossKnown'
  <2>1. lost' = lost \/ (lost' = lost \cup {"rpc"} /\ "oneLineService" \in oddities')
      BY <1>2 DEF Content
  <2>2. QED
      BY <1>1, <1>2, <2>1 DEF Accounted, LossKnown, LeftOpen, Odd
<1>5. CASE l.of = {"service"} /\ Net(l) = 1 /\ Inner' = "service" /\ Unclosed' = 1
    BY <1>2, <1>3, <1>4, <1>5 DEF Accounted, BetweenServices, HeadOfService, InsideService
<1>6. CASE /\ Net(l) = 0 /\ Inner' = "file"
           /\ Unclosed' = 0 /\ "oneLineService" \in oddities'
  <2>1. LeftOpen'
      BY <1>6 DEF LeftOpen, Odd
  <2>2. QED
      BY <1>2, <1>3, <1>4, <1>6, <2>1
      DEF Accounted, BetweenServices, HeadOfService, InsideService
<1>7. QED
    BY <1>5, <1>6

(* A service whose head is on two lines: its name, then its brace.         *)
LEMMA SplitHeadStep ==
  ASSUME BracesTyped, Accounted, NEW l, Net(l) \in Int, LineRead(l),
         l.pattern = "other", l.of = {"service"},
         \/ /\ Inner = "file" /\ Net(l) = 0 /\ Inner' = "serviceName"
            /\ Unclosed = 0 /\ "splitService" \in oddities'
         \/ Inner = "serviceName" /\ Net(l) = 1 /\ Inner' = "service" /\ Unclosed' = 1
  PROVE  Accounted'
<1> DEFINE n == Net(l)
<1>1. (\A o : Odd(o) => o \in oddities') /\ (Misread => Misread')
    BY OddStays DEF LineRead
<1>2. /\ n \in Int /\ rpcBraceDepth = 0 /\ rpcBraces = 0 /\ messageBraces = 0
      /\ inService => LeftOpen
      /\ Inner = "serviceName" => Odd("splitService") /\ (inService => braceDepth > 0)
    BY DEF Accounted, BetweenServices, HeadOfService
<1>3. "splitService" \in oddities' /\ (LeftOpen => LeftOpen')
    BY <1>1, <1>2 DEF LeftOpen, Odd
<1>4. \/ n = 0 /\ Inner' = "serviceName"
      \/ n = 1 /\ Inner' = "service" /\ Unclosed' = 1 /\ Inner = "serviceName"
    OBVIOUS
<1>5. BracesTyped' /\ Reads(l)
    BY CountersStep DEF LineRead
<1> HIDE DEF n
<1>6. CASE inService
  <2>1. /\ braceDepth' = braceDepth + n
        /\ inService' = (braceDepth + n > 0)
        /\ rpcBraceDepth' = 0 /\ rpcBraces' = 0 /\ messageBraces' = 0
        /\ UNCHANGED <<lost, moved>>
    <3>1. /\ rpcBraceDepth' = (IF braceDepth + n > 0 /\ l.pattern = "rpc" /\ n > 0 THEN n ELSE 0)
          /\ IF braceDepth + n > 0 /\ l.pattern \in {"rpc", "comment"}
             THEN rpcBraces' = rpcBraces + n /\ lost' = lost
             ELSE rpcBraces' = rpcBraces /\ lost' = lost \cup (l.of \cap Content)
        BY <1>2, <1>5, <1>6, CountersStep DEF n
    <3>2. /\ braceDepth' = braceDepth + n
          /\ inService' = (braceDepth + n > 0)
          /\ UNCHANGED <<messageBraces, moved>>
        BY <1>2, <1>5, <1>6, CountersStep DEF n
    <3>3. QED
        BY <1>2, <3>1, <3>2 DEF Content
  <2>2. LossKnown'
      BY <1>1, <1>3, <2>1 DEF Accounted, LossKnown, LeftOpen, Odd, Content
  <2>3. CASE n = 0 /\ Inner' = "serviceName"
    <3>1. inService' => braceDepth' > 0
        BY <2>1
    <3>2. QED
        BY <1>2, <1>3, <1>6, <2>1, <2>2, <2>3, <3>1
        DEF Accounted, BetweenServices, HeadOfService, InsideService, Odd
  <2>4. CASE n = 1 /\ Inner' = "service" /\ Unclosed' = 1 /\ Inner = "serviceName"
    <3>1. braceDepth + n > 0 /\ braceDepth' >= 1
      <4>1. braceDepth \in Int /\ braceDepth > 0
          BY <1>2, <1>6, <2>4 DEF BracesTyped
      <4>2. QED
          BY <2>1, <2>4, <4>1
    <3>2. inService'
        BY <2>1, <3>1
    <3>3. QED
        BY <1>2, <1>3, <1>6, <2>1, <2>2, <2>4, <3>1, <3>2
        DEF Accounted, BetweenServices, HeadOfService, InsideService
  <2>5. QED
      BY <1>4, <2>3, <2>4
<1>7. CASE ~inService
  <2>1. /\ messageBraces' = n
        /\ moved' = moved \cup (l.of \cap {"rpc", "option", "service"})
        /\ ~inService' /\ rpcBraceDepth' = 0 /\ rpcBraces' = 0 /\ lost' = lost
    <3>1. /\ messageBraces' = messageBraces + n
          /\ moved' = moved \cup (l.of \cap {"rpc", "option", "service"})
          /\ UNCHANGED <<inService, braceDepth, rpcBraceDepth, rpcBraces, lost>>
        BY <1>2, <1>5, <1>7, CountersStep DEF n
    <3>2. QED
        BY <1>2, <1>7, <3>1
  <2>2. LossKnown'
      BY <1>1, <1>3, <2>1 DEF Accounted, LossKnown, LeftOpen, Odd, Content
  <2>3. QED
      BY <1>3, <1>4, <2>1, <2>2 DEF Accounted, BetweenServices, HeadOfService, InsideService, Odd
<1>8. QED
    BY <1>6, <1>7

(* The brace that ends a service.                                          *)
LEMMA EndServiceStep ==
  ASSUME BracesTyped, Accounted, NEW l, Net(l) = -1, LineRead(l),
         l.pattern = "other", l.of = {"service"},
         Inner = "service", Unclosed = 1, Inner' = "file", Unclosed' = 0
  PROVE  Accounted'
<1>1. (\A o : Odd(o) => o \in oddities') /\ (Misread => Misread')
    BY OddStays DEF LineRead
<1>2. /\ rpcBraceDepth = 0 /\ rpcBraces = 0
      /\ inService => messageBraces = 0 /\ braceDepth >= 1 /\ (braceDepth > 1 => LeftOpen)
      /\ ~inService => Odd("splitService") /\ messageBraces = 1
    BY DEF Accounted, InsideService, BracesTyped
<1>3. LeftOpen => LeftOpen'
    BY <1>1 DEF LeftOpen, Odd
<1>4. Net(l) \in Int /\ BracesTyped' /\ Reads(l)
  <2>1. Net(l) \in Int
      OBVIOUS
  <2>2. QED
      BY <2>1, CountersStep DEF LineRead
<1>5. CASE inService
  <2>1. /\ braceDepth' = braceDepth - 1
        /\ inService' = (braceDepth - 1 > 0)
        /\ rpcBraceDepth' = 0 /\ rpcBraces' = 0 /\ messageBraces' = 0
        /\ UNCHANGED <<lost, moved>>
    <3>1. /\ braceDepth + Net(l) = braceDepth - 1
          /\ braceDepth' = braceDepth + Net(l)
          /\ inService' = (braceDepth + Net(l) > 0)
          /\ UNCHANGED <<messageBraces, moved>>
        BY <1>2, <1>4, <1>5, CountersStep DEF BracesTyped
    <3>2. /\ rpcBraceDepth' = (IF braceDepth + Net(l) > 0 /\ l.pattern = "rpc" /\ Net(l) > 0
                               THEN Net(l) ELSE 0)
          /\ IF braceDepth + Net(l) > 0 /\ l.pattern \in {"rpc", "comment"}
             THEN rpcBraces' = rpcBraces + Net(l) /\ lost' = lost
             ELSE rpcBraces' = rpcBraces /\ lost' = lost \cup (l.of \cap Content)
        BY <1>2, <1>4, <1>5, CountersStep
    <3>3. QED
        BY <1>2, <1>5, <3>1, <3>2 DEF Content
  <2>2. braceDepth' >= 0 /\ (braceDepth - 1 > 0 => braceDepth > 1)
      BY <1>2, <1>5, <2>1 DEF BracesTyped
  <2>3. LossKnown'
      BY <1>1, <1>3, <2>1 DEF Accounted, LossKnown, LeftOpen, Odd, Content
  <2>4. QED
      BY <1>2, <1>3, <1>5, <2>1, <2>2, <2>3
      DEF Accounted, BetweenServices, HeadOfService, InsideService
<1>6. CASE ~inService
  <2>1. /\ messageBraces' = 0
        /\ moved' = moved \cup (l.of \cap {"rpc", "option", "service"})
        /\ ~inService' /\ rpcBraceDepth' = 0 /\ rpcBraces' = 0 /\ lost' = lost
    <3>1. /\ messageBraces' = messageBraces + Net(l)
          /\ moved' = moved \cup (l.of \cap {"rpc", "option", "service"})
          /\ UNCHANGED <<inService, braceDepth, rpcBraceDepth, rpcBraces, lost>>
        BY <1>4, <1>6, CountersStep
    <3>2. QED
        BY <1>2, <1>6, <3>1
  <2>2. LossKnown'
      BY <1>1, <1>2, <1>3, <1>6, <2>1 DEF Accounted, LossKnown, LeftOpen, Odd, Content
  <2>3. QED
      BY <2>1, <2>2 DEF Accounted, BetweenServices, HeadOfService, InsideService
<1>7. QED
    BY <1>5, <1>6

(* What a line is, apart from the blocks it opens and closes.              *)
LineKind(l, pattern, net, of, odd) ==
  l.pattern = pattern /\ Net(l) = net /\ l.of = {of} /\ l.odd = odd

LEMMA KindOfComment ==
  ASSUME NEW l \in Comments(within)
  PROVE  \/ LineKind(l, "comment", 0, "comment", {}) /\ l.enters = within
         \/ LineKind(l, "other", 0, "comment", {}) /\ l.enters = within
         \/ l.odd \cap Wild # {}
<1>1. CASE l \in {Line("comment", 0, 0, "comment", within, {}),
                  Line("other", 0, 0, "comment", within, {})}
    BY <1>1, FieldsOfLine DEF LineKind
<1>2. CASE \E p \in {"header", "import", "service", "rpc"} :
             l = Line(p, 0, 0, "comment", within, {"codeInText"})
    BY <1>2, FieldsOfLine DEF Wild
<1>3. CASE \E p \in {"comment", "other"}, n \in {0, 1} :
             l = Line(p, n, 1 - n, "comment", within, {"codeInText"})
  <2>1. PICK p \in {"comment", "other"}, n \in {0, 1} :
          l = Line(p, n, 1 - n, "comment", within, {"codeInText"})
      BY <1>3
  <2>2. l.odd = {"codeInText"}
      BY <2>1 DEF Line
  <2>3. QED
      BY <2>2 DEF Wild
<1>4. QED
    BY <1>1, <1>2, <1>3 DEF Comments

LEMMA KindOfFileLine ==
  ASSUME NEW l \in FileLines(within)
  PROVE  \/ LineKind(l, "header", 0, "header", {}) /\ l.enters = within
         \/ LineKind(l, "import", 0, "import", {}) /\ l.enters = within
         \/ LineKind(l, "other", 1, "definition", {}) /\ l.enters = Nest(within, "message")
         \/ LineKind(l, "other", 0, "definition", {}) /\ l.enters = within
         \/ LineKind(l, "service", 1, "service", {}) /\ l.enters = Nest(within, "service")
         \/ LineKind(l, "service", 0, "service", {"oneLineService"}) /\ l.enters = within
         \/ LineKind(l, "service", 0, "rpc", {"oneLineService"}) /\ l.enters = within
         \/ LineKind(l, "other", 0, "service", {"splitService"}) /\ l.enters = Nest(within, "serviceName")
BY FieldsOfLine DEF FileLines, LineKind

LEMMA KindOfMessageLine ==
  ASSUME NEW l \in MessageLines(within)
  PROVE  \/ LineKind(l, "other", 0, "definition", {}) /\ l.enters = within
         \/ LineKind(l, "header", 0, "definition", {"headerLikeField"}) /\ l.enters = within
         \/ LineKind(l, "other", 1, "definition", {}) /\ l.enters = Nest(within, "message")
         \/ LineKind(l, "other", -1, "definition", {}) /\ l.enters = Leave(within)
         \/ l.odd \cap Wild # {}
BY FieldsOfLine DEF MessageLines, LineKind, Wild

LEMMA KindOfServiceLine ==
  ASSUME NEW l \in ServiceLines(within)
  PROVE  \/ LineKind(l, "rpc", 0, "rpc", {}) /\ l.enters = within
         \/ LineKind(l, "rpc", 1, "rpc", {"rpcBlock"}) /\ l.enters = Nest(within, "rpc")
         \/ LineKind(l, "rpc", 0, "rpc", {"splitRpc"}) /\ l.enters = Nest(within, "rpcName")
         \/ LineKind(l, "other", 0, "option", {"serviceOption"}) /\ l.enters = within
         \/ LineKind(l, "other", 1, "option", {"serviceOption"}) /\ l.enters = Nest(within, "setting")
         \/ LineKind(l, "other", -1, "service", {}) /\ l.enters = Leave(within)
BY FieldsOfLine DEF ServiceLines, LineKind

LEMMA KindOfBlockLine ==
  ASSUME NEW of, NEW block, NEW l \in BlockLines(within, of, block)
  PROVE  \/ LineKind(l, "other", 0, of, {}) /\ l.enters = within
         \/ LineKind(l, "header", 0, of, {"headerLikeField"}) /\ l.enters = within
         \/ LineKind(l, "other", 1, of, {}) /\ l.enters = Nest(within, block)
         \/ LineKind(l, "other", -1, of, {}) /\ l.enters = Leave(within)
BY FieldsOfLine DEF BlockLines, LineKind

(* The end of the head of a service or of an rpc.                          *)
LEMMA KindOfHeadEnd ==
  ASSUME NEW l \in Pieces(within)
  PROVE  /\ Inner = "serviceName" =>
              LineKind(l, "other", 1, "service", {}) /\ l.enters = Replace(within, "service")
         /\ Inner = "rpcName" =>
              \/ LineKind(l, "other", 0, "rpc", {}) /\ l.enters = Leave(within)
              \/ LineKind(l, "other", 1, "rpc", {"rpcBlock"}) /\ l.enters = Replace(within, "rpc")
<1>1. CASE Inner = "serviceName"
  <2>1. l \in {Line("other", 1, 0, "service", Replace(within, "service"), {})}
      BY <1>1 DEF Pieces, Inner
  <2>2. QED
      BY <1>1, <2>1, FieldsOfLine DEF LineKind
<1>2. CASE Inner = "rpcName"
  <2>1. l \in {Line("other", 0, 0, "rpc", Leave(within), {}),
               Line("other", 1, 0, "rpc", Replace(within, "rpc"), {"rpcBlock"})}
      BY <1>2 DEF Pieces, Inner
  <2>2. QED
      BY <1>2, <2>1, FieldsOfLine DEF LineKind
<1>3. QED
    BY <1>1, <1>2

LEMMA WhereLinesAre ==
  ASSUME NEW l \in Pieces(within), Nesting
  PROVE  \/ Inner \in {"file", "message", "service", "setting", "rpc", "option"}
            /\ l \in Comments(within)
         \/ Inner = "file" /\ l \in FileLines(within)
         \/ Inner = "message" /\ l \in MessageLines(within)
         \/ Inner = "service" /\ l \in ServiceLines(within)
         \/ Inner = "setting" /\ l \in BlockLines(within, "option", "setting")
         \/ Inner \in {"rpc", "option"} /\ l \in BlockLines(within, "rpc", "option")
         \/ Inner \in {"serviceName", "rpcName"}
<1>1. Inner \in BlockKind \cup {"file"}
    BY UnclosedType
<1>2. QED
    BY <1>1 DEF Pieces, BlockKind, Inner

(* Where a line leaves the reader.                                         *)
LEMMA StayStep ==
  ASSUME Nesting, within' = within
  PROVE  Nesting' /\ Inner' = Inner /\ Unclosed' = Unclosed
BY DEF Nesting, Inner, Innermost, Unclosed

LEMMA DepthOf ==
  ASSUME Nesting
  PROVE  /\ Inner \in {"file", "serviceName"} => Unclosed = 0
         /\ Inner \in {"message", "service", "setting", "rpc", "rpcName", "option"} => Unclosed > 0
         /\ Inner = "service" => Unclosed = 1
         /\ Inner \in {"setting", "rpc", "option"} => Unclosed > 1
         /\ Unclosed \in Int /\ Unclosed >= 0
<1> DEFINE n == Len(within)
<1>1. n \in Nat
    BY LenProperties DEF Nesting
<1>2. CASE within = <<>>
    BY <1>2, EmptySeq DEF Inner, Innermost, Unclosed
<1>3. CASE within # <<>>
  <2>1. n > 0 /\ n \in 1 .. n /\ Inner = within[n]
    <3>1. n > 0
        BY <1>1, <1>3, EmptySeq DEF Nesting
    <3>2. QED
        BY <1>1, <1>3, <3>1 DEF Inner, Innermost
  <2>2. Inner \in BlockKind
      BY <2>1, <1>1, ElementOfSeq DEF Nesting
  <2>3. /\ Inner \in {"service", "serviceName"} => n = 1
        /\ Inner \in {"rpc", "rpcName"} => n = 2
        /\ Inner = "option" => n > 2
        /\ Inner = "setting" => n > 1
      BY <2>1 DEF Nesting
  <2>4. Unclosed = IF Inner \in {"serviceName", "rpcName"} THEN n - 1 ELSE n
      BY DEF Unclosed
  <2> HIDE DEF n
  <2>5. QED
      BY <1>1, <2>1, <2>2, <2>3, <2>4 DEF BlockKind
<1>4. QED
    BY <1>2, <1>3

LEMMA DepthOfNext ==
  ASSUME Nesting'
  PROVE  Inner' = "service" => Unclosed' = 1
<1> DEFINE n == Len(within')
<1>1. n \in Nat
    BY LenProperties DEF Nesting
<1>2. ASSUME Inner' = "service"
      PROVE  n = 1
  <2>1. within' # <<>> /\ within'[n] = "service"
      BY <1>2 DEF Inner, Innermost
  <2>2. n \in 1 .. n
      BY <1>1, <2>1, EmptySeq DEF Nesting
  <2>3. QED
      BY <2>1, <2>2 DEF Nesting
<1>3. Inner' = "service" => Unclosed' = n
    BY DEF Unclosed
<1> HIDE DEF n
<1>4. QED
    BY <1>2, <1>3

LEMMA UnclosedStep ==
  ASSUME Nesting, NEW k \in {-1, 0, 1}, Nesting', Len(within') = Len(within) + k
  PROVE  LET Named == {"serviceName", "rpcName"}
         IN  /\ Inner \notin Named /\ Inner' \notin Named =>
                  Unclosed' = Unclosed + k
             /\ Inner \notin Named /\ Inner' \in Named =>
                  Unclosed' = Unclosed + k - 1
             /\ Inner \in Named /\ Inner' \notin Named =>
                  Unclosed' = Unclosed + k + 1
<1> DEFINE n == Len(within)
           m == Len(within')
<1>1. n \in Nat /\ m = n + k
    BY LenProperties DEF Nesting
<1>2. /\ Unclosed = IF Inner \in {"serviceName", "rpcName"} THEN n - 1 ELSE n
      /\ Unclosed' = IF Inner' \in {"serviceName", "rpcName"} THEN m - 1 ELSE m
    BY DEF Unclosed
<1> HIDE DEF n, m
<1>3. QED
    BY <1>1, <1>2

(* A line keeps what the proof knows, unless it is misread.                *)
TakesIn(l) ==
  BracesTyped /\ Accounted /\ LineRead(l)

LEMMA CommentStep ==
  ASSUME Nesting, NEW l \in Comments(within), within' = l.enters, l.odd \cap Wild = {},
         Inner \in {"file", "message", "service", "setting", "rpc", "option"}
  PROVE  Nesting' /\ (TakesIn(l) => Accounted')
<1>1. /\ l.pattern \in {"comment", "other"} /\ l.of = {"comment"} /\ within' = within
      /\ Net(l) = 0 /\ Net(l) \in Int
    BY KindOfComment DEF LineKind
<1>2. Nesting' /\ Inner' = Inner /\ Unclosed' = Unclosed
    BY <1>1, StayStep
<1>3. ASSUME TakesIn(l)
      PROVE  Accounted'
  <2>1. BracesTyped /\ Accounted /\ LineRead(l) /\ Net(l) = 0
      BY <1>1, <1>3 DEF TakesIn
  <2>2. Unclosed \in Int /\ Unclosed >= 0 /\ Unclosed' = Unclosed + Net(l)
      BY <1>2, <2>1, DepthOf
  <2>3. CASE Inner \in {"file", "message"}
      BY <1>1, <1>2, <2>1, <2>2, <2>3, OutsideStep
  <2>4. CASE Inner \in {"service", "setting", "rpc", "option"}
    <3>1. Unclosed > 0 /\ (Inner = "service" => Unclosed = 1)
        BY <2>4, DepthOf
    <3>2. Inner' # "rpcName" /\ (Inner' = "service" => Unclosed' = 1) /\ Unclosed' > 0
        BY <1>2, <2>4, <3>1
    <3>3. {"comment"} # {"rpc"} /\ {"comment"} # {"option"}
        OBVIOUS
    <3>4. QED
        BY <1>1, <1>2, <2>1, <2>2, <2>4, <3>1, <3>2, <3>3, InsideStep
  <2>5. QED
      BY <2>3, <2>4
<1>4. QED
    BY <1>2, <1>3

LEMMA FileStep ==
  ASSUME Nesting, NEW l \in FileLines(within), within' = l.enters, Inner = "file"
  PROVE  Nesting' /\ (TakesIn(l) => Accounted')
<1>1. Unclosed = 0 /\ Unclosed \in Int /\ Inner \notin {"serviceName", "rpcName"}
    BY DepthOf
<1>2. TakesIn(l) => BracesTyped /\ Accounted /\ LineRead(l)
    BY DEF TakesIn
<1>3. TakesIn(l) => \A o \in l.odd : o \in oddities'
    BY <1>2, OddStays DEF LineRead
<1>4. CASE \/ LineKind(l, "header", 0, "header", {}) /\ l.enters = within
           \/ LineKind(l, "import", 0, "import", {}) /\ l.enters = within
  <2>1. Nesting' /\ Inner' = Inner /\ Unclosed' = Unclosed
      BY <1>4, StayStep
  <2>2. /\ l.pattern \in {"header", "import"} /\ l.of = {l.pattern} /\ Net(l) \in Int
      BY <1>4 DEF LineKind
  <2>3. QED
      BY <1>2, <2>1, <2>2, HeaderStep
<1>5. CASE LineKind(l, "other", 1, "definition", {}) /\ l.enters = Nest(within, "message")
  <2>1. within' = Nest(within, "message") /\ "message" \in BlockKind
      BY <1>5 DEF BlockKind
  <2>2. Nesting' /\ Inner' = "message" /\ Len(within') = Len(within) + 1
      BY <2>1, NestStep
  <2>3. l.pattern = "other" /\ l.of = {"definition"} /\ Net(l) = 1
      BY <1>5 DEF LineKind
  <2>4. Unclosed' = Unclosed + 1
      BY <1>1, <2>2, UnclosedStep
  <2>5. Unclosed' = Unclosed + Net(l) /\ Unclosed' >= 0 /\ Net(l) \in Int
      BY <1>1, <2>3, <2>4
  <2>6. QED
      BY <1>1, <1>2, <2>2, <2>3, <2>5, OutsideStep
<1>6. CASE LineKind(l, "other", 0, "definition", {}) /\ l.enters = within
  <2>1. Nesting' /\ Inner' = Inner /\ Unclosed' = Unclosed
      BY <1>6, StayStep
  <2>2. l.pattern = "other" /\ l.of = {"definition"} /\ Net(l) = 0
      BY <1>6 DEF LineKind
  <2>3. Unclosed' = Unclosed + Net(l) /\ Unclosed' >= 0 /\ Net(l) \in Int
      BY <1>1, <2>1, <2>2
  <2>4. QED
      BY <1>1, <1>2, <2>1, <2>2, <2>3, OutsideStep
<1>7. CASE LineKind(l, "service", 1, "service", {}) /\ l.enters = Nest(within, "service")
  <2>1. within' = Nest(within, "service") /\ "service" \in BlockKind
      BY <1>7 DEF BlockKind
  <2>2. Nesting' /\ Inner' = "service" /\ Len(within') = Len(within) + 1
      BY <2>1, NestStep
  <2>3. l.pattern = "service" /\ l.of = {"service"} /\ Net(l) = 1 /\ Net(l) \in Int
      BY <1>7 DEF LineKind
  <2>4. Unclosed' = Unclosed + 1
      BY <1>1, <2>2, UnclosedStep
  <2>5. Unclosed' = 1
      BY <1>1, <2>4
  <2>6. QED
      BY <1>1, <1>2, <2>2, <2>3, <2>5, OpenServiceStep
<1>8. CASE \/ LineKind(l, "service", 0, "service", {"oneLineService"}) /\ l.enters = within
           \/ LineKind(l, "service", 0, "rpc", {"oneLineService"}) /\ l.enters = within
  <2>1. Nesting' /\ Inner' = Inner /\ Unclosed' = Unclosed
      BY <1>8, StayStep
  <2>2. /\ l.pattern = "service" /\ l.of \in {{"service"}, {"rpc"}} /\ Net(l) = 0 /\ Net(l) \in Int
        /\ l.odd = {"oneLineService"}
      BY <1>8 DEF LineKind
  <2>3. QED
      BY <1>1, <1>2, <1>3, <2>1, <2>2, OpenServiceStep
<1>9. CASE LineKind(l, "other", 0, "service", {"splitService"}) /\ l.enters = Nest(within, "serviceName")
  <2>1. within' = Nest(within, "serviceName") /\ "serviceName" \in BlockKind
      BY <1>9 DEF BlockKind
  <2>2. Nesting' /\ Inner' = "serviceName"
      BY <2>1, NestStep
  <2>3. /\ l.pattern = "other" /\ l.of = {"service"} /\ Net(l) = 0 /\ Net(l) \in Int
        /\ l.odd = {"splitService"}
      BY <1>9 DEF LineKind
  <2>4. QED
      BY <1>1, <1>2, <1>3, <2>2, <2>3, SplitHeadStep
<1>10. QED
    BY <1>4, <1>5, <1>6, <1>7, <1>8, <1>9, KindOfFileLine

LEMMA MessageStep ==
  ASSUME Nesting, NEW l \in MessageLines(within), within' = l.enters, Inner = "message",
         l.odd \cap Wild = {}
  PROVE  Nesting' /\ (TakesIn(l) => Accounted')
<1>1. Unclosed > 0 /\ Unclosed \in Int
    BY DepthOf
<1>2. TakesIn(l) => BracesTyped /\ Accounted /\ LineRead(l)
    BY DEF TakesIn
<1>3. TakesIn(l) => \A o \in l.odd : o \in oddities'
    BY <1>2, OddStays DEF LineRead
<1>4. CASE LineKind(l, "header", 0, "definition", {"headerLikeField"}) /\ l.enters = within
  <2>1. Nesting' /\ Inner' = Inner /\ Unclosed' = Unclosed
      BY <1>4, StayStep
  <2>2. /\ l.pattern = "header" /\ l.of = {"definition"} /\ Net(l) \in Int
        /\ l.odd = {"headerLikeField"}
      BY <1>4 DEF LineKind
  <2>3. QED
      BY <1>2, <1>3, <2>1, <2>2, HeaderStep
<1>5. CASE \/ LineKind(l, "other", 0, "definition", {}) /\ l.enters = within
           \/ LineKind(l, "other", 1, "definition", {}) /\ l.enters = Nest(within, "message")
           \/ LineKind(l, "other", -1, "definition", {}) /\ l.enters = Leave(within)
  <2>1. l.pattern = "other" /\ l.of = {"definition"} /\ Net(l) \in {-1, 0, 1} /\ Net(l) \in Int
      BY <1>5 DEF LineKind
  <2>2. Nesting' /\ Inner' \in {"file", "message"} /\ Unclosed' = Unclosed + Net(l)
    <3>1. CASE Net(l) = 0 /\ within' = within
      <4>1. Nesting' /\ Inner' = Inner /\ Unclosed' = Unclosed
          BY <3>1, StayStep
      <4>2. QED
          BY <1>1, <3>1, <4>1
    <3>2. CASE Net(l) = 1 /\ within' = Nest(within, "message")
      <4>1. Nesting' /\ Inner' = "message" /\ Len(within') = Len(within) + 1
          BY <3>2, NestStep DEF BlockKind
      <4>2. QED
          BY <3>2, <4>1, UnclosedStep
    <3>3. CASE Net(l) = -1 /\ within' = Leave(within)
      <4>1. /\ Nesting' /\ Len(within') = Len(within) - 1
            /\ Inner' = (IF Len(within) = 1 THEN "file" ELSE "message")
          BY <3>3, LeaveStep
      <4>2. Len(within') = Len(within) + Net(l) /\ Inner' \in {"file", "message"}
          BY <3>3, <4>1, LenProperties DEF Nesting
      <4>3. QED
          BY <2>1, <4>1, <4>2, UnclosedStep
    <3>4. QED
        BY <1>5, <3>1, <3>2, <3>3 DEF LineKind
  <2>3. Unclosed' >= 0
      BY <1>1, <2>1, <2>2
  <2>4. QED
      BY <1>1, <1>2, <2>1, <2>2, <2>3, OutsideStep
<1>6. QED
    BY <1>4, <1>5, KindOfMessageLine

(* The lines of an rpc, and those of an option of the service.             *)
LEMMA RpcLineStep ==
  ASSUME BracesTyped, Accounted, NEW l, Net(l) \in Int, LineRead(l),
         l.of = {"rpc"}, l.pattern \in {"rpc", "other"},
         Inner \in {"service", "rpc", "rpcName", "option"},
         Inner' \in {"service", "rpc", "rpcName", "option"},
         Unclosed \in Int, Unclosed > 0,
         Unclosed' = Unclosed + Net(l), Unclosed' > 0,
         Inner' = "service" => Unclosed' = 1, Inner = "service" => Unclosed = 1,
         l.pattern = "rpc" =>
           Unclosed = 1 /\ (Net(l) = 0 \/ (Net(l) = 1 /\ "rpcBlock" \in oddities')),
         l.pattern = "other" => Inner = "rpcName" \/ Unclosed > 1,
         Inner' = "rpcName" => "splitRpc" \in oddities'
  PROVE  Accounted'
<1>1. {"rpc"} # {"comment"} /\ {"rpc"} # {"option"}
    OBVIOUS
<1>2. QED
    BY <1>1, InsideStep

LEMMA OptionLineStep ==
  ASSUME BracesTyped, Accounted, NEW l, Net(l) \in Int, LineRead(l),
         l.of = {"option"}, l.pattern = "other", "serviceOption" \in oddities',
         Inner \in {"service", "setting"}, Inner' \in {"service", "setting"},
         Unclosed \in Int, Unclosed > 0,
         Unclosed' = Unclosed + Net(l), Unclosed' > 0,
         Inner' = "service" => Unclosed' = 1, Inner = "service" => Unclosed = 1
  PROVE  Accounted'
<1>1. {"option"} # {"comment"} /\ {"option"} # {"rpc"}
    OBVIOUS
<1>2. QED
    BY <1>1, InsideStep

LEMMA ServiceStep ==
  ASSUME Nesting, NEW l \in ServiceLines(within), within' = l.enters, Inner = "service"
  PROVE  Nesting' /\ (TakesIn(l) => Accounted')
<1>1. Unclosed = 1 /\ Unclosed > 0 /\ Unclosed \in Int
    BY DepthOf
<1>2. TakesIn(l) => BracesTyped /\ Accounted /\ LineRead(l)
    BY DEF TakesIn
<1>3. TakesIn(l) => \A o \in l.odd : o \in oddities'
    BY <1>2, OddStays DEF LineRead
<1>4. CASE LineKind(l, "rpc", 0, "rpc", {}) /\ l.enters = within
  <2>1. Nesting' /\ Inner' = Inner /\ Unclosed' = Unclosed
      BY <1>4, StayStep
  <2>2. l.pattern = "rpc" /\ l.of = {"rpc"} /\ Net(l) = 0
      BY <1>4 DEF LineKind
  <2>3. Unclosed' = Unclosed + Net(l) /\ Unclosed' > 0 /\ Net(l) \in Int
      BY <1>1, <2>1, <2>2
  <2>4. QED
      BY <1>1, <1>2, <2>1, <2>2, <2>3, RpcLineStep
<1>5. CASE LineKind(l, "rpc", 1, "rpc", {"rpcBlock"}) /\ l.enters = Nest(within, "rpc")
  <2>1. Nesting' /\ Inner' = "rpc" /\ Len(within') = Len(within) + 1
      BY <1>5, NestStep DEF BlockKind
  <2>2. l.pattern = "rpc" /\ l.of = {"rpc"} /\ Net(l) = 1 /\ l.odd = {"rpcBlock"}
      BY <1>5 DEF LineKind
  <2>3. Unclosed' = Unclosed + 1
      BY <2>1, UnclosedStep
  <2>4. Unclosed' = Unclosed + Net(l) /\ Unclosed' > 0 /\ Net(l) \in Int
      BY <1>1, <2>2, <2>3
  <2>5. QED
      BY <1>1, <1>2, <1>3, <2>1, <2>2, <2>4, RpcLineStep
<1>6. CASE LineKind(l, "rpc", 0, "rpc", {"splitRpc"}) /\ l.enters = Nest(within, "rpcName")
  <2>1. Nesting' /\ Inner' = "rpcName" /\ Len(within') = Len(within) + 1
      BY <1>6, NestStep DEF BlockKind
  <2>2. l.pattern = "rpc" /\ l.of = {"rpc"} /\ Net(l) = 0 /\ l.odd = {"splitRpc"}
      BY <1>6 DEF LineKind
  <2>3. Unclosed' = Unclosed + 1 - 1
      BY <2>1, UnclosedStep
  <2>4. Unclosed' = Unclosed + Net(l) /\ Unclosed' > 0 /\ Net(l) \in Int
      BY <1>1, <2>2, <2>3
  <2>5. QED
      BY <1>1, <1>2, <1>3, <2>1, <2>2, <2>4, RpcLineStep
<1>7. CASE LineKind(l, "other", -1, "service", {}) /\ l.enters = Leave(within)
  <2>1. Nesting' /\ Inner' = "file"
      BY <1>7, LeaveStep
  <2>2. l.pattern = "other" /\ l.of = {"service"} /\ Net(l) = -1
      BY <1>7 DEF LineKind
  <2>3. Unclosed' = 0
    <3>1. Len(within) = 1 /\ Len(within') = Len(within) - 1
        BY <1>7, LeaveStep
    <3>2. Len(within') = 0
        BY <3>1
    <3>3. QED
        BY <2>1, <3>2 DEF Unclosed
  <2>4. QED
      BY <1>1, <1>2, <2>1, <2>2, <2>3, EndServiceStep
<1>8. CASE LineKind(l, "other", 0, "option", {"serviceOption"}) /\ l.enters = within
  <2>1. Nesting' /\ Inner' = Inner /\ Unclosed' = Unclosed
      BY <1>8, StayStep
  <2>2. l.pattern = "other" /\ l.of = {"option"} /\ Net(l) = 0 /\ l.odd = {"serviceOption"}
      BY <1>8 DEF LineKind
  <2>3. Unclosed' = Unclosed + Net(l) /\ Unclosed' > 0 /\ Net(l) \in Int
      BY <1>1, <2>1, <2>2
  <2>4. QED
      BY <1>1, <1>2, <1>3, <2>1, <2>2, <2>3, OptionLineStep
<1>9. CASE LineKind(l, "other", 1, "option", {"serviceOption"}) /\ l.enters = Nest(within, "setting")
  <2>1. Nesting' /\ Inner' = "setting" /\ Len(within') = Len(within) + 1
      BY <1>9, NestStep DEF BlockKind
  <2>2. l.pattern = "other" /\ l.of = {"option"} /\ Net(l) = 1 /\ l.odd = {"serviceOption"}
      BY <1>9 DEF LineKind
  <2>3. Unclosed' = Unclosed + 1
      BY <2>1, UnclosedStep
  <2>4. Unclosed' = Unclosed + Net(l) /\ Unclosed' > 0 /\ Net(l) \in Int
      BY <1>1, <2>2, <2>3
  <2>5. QED
      BY <1>1, <1>2, <1>3, <2>1, <2>2, <2>4, OptionLineStep
<1>10. QED
    BY <1>4, <1>5, <1>6, <1>7, <1>8, <1>9, KindOfServiceLine

(* Where a line of a block of an rpc, or of an option, leaves the reader.  *)
LEMMA BlockShape ==
  ASSUME Nesting, NEW block \in {"option", "setting"}, NEW k \in {-1, 0, 1},
         IF block = "option" THEN Inner \in {"rpc", "option"} ELSE Inner = "setting",
         \/ k = 0 /\ within' = within
         \/ k = 1 /\ within' = Nest(within, block)
         \/ k = -1 /\ within' = Leave(within)
  PROVE  /\ Nesting' /\ Unclosed \in Int /\ Unclosed > 1
         /\ Unclosed' = Unclosed + k /\ Unclosed' > 0
         /\ Inner' = "service" => Unclosed' = 1
         /\ IF block = "option" THEN Inner' \in {"service", "rpc", "option"}
            ELSE Inner' \in {"service", "setting"}
<1>1. Unclosed > 1 /\ Unclosed \in Int
    BY DepthOf
<1>2. /\ Nesting' /\ Unclosed' = Unclosed + k
      /\ IF block = "option" THEN Inner' \in {"service", "rpc", "option"}
         ELSE Inner' \in {"service", "setting"}
  <2>1. CASE k = 0 /\ within' = within
    <3>1. Nesting' /\ Inner' = Inner /\ Unclosed' = Unclosed
        BY <2>1, StayStep
    <3>2. QED
        BY <1>1, <2>1, <3>1
  <2>2. CASE k = 1 /\ within' = Nest(within, block)
    <3>1. Nesting' /\ Inner' = block /\ Len(within') = Len(within) + 1
        BY <2>2, NestStep DEF BlockKind
    <3>2. QED
        BY <2>2, <3>1, UnclosedStep
  <2>3. CASE k = -1 /\ within' = Leave(within)
    <3>1. /\ Nesting' /\ Len(within') = Len(within) - 1
          /\ IF block = "option" THEN Inner' \in {"service", "rpc", "option"}
             ELSE Inner' \in {"service", "setting"}
        BY <2>3, LeaveStep
    <3>2. Len(within') = Len(within) + k
        BY <2>3, <3>1, LenProperties DEF Nesting
    <3>3. QED
        BY <3>1, <3>2, UnclosedStep
  <2>4. QED
      BY <2>1, <2>2, <2>3
<1>3. Unclosed' > 0
    BY <1>1, <1>2
<1>4. Inner' = "service" => Unclosed' = 1
  <2>1. Nesting'
      BY <1>2
  <2>2. QED
      BY <2>1, DepthOfNext
<1>5. QED
    BY <1>1, <1>2, <1>3, <1>4

LEMMA BlockStep ==
  ASSUME Nesting, NEW l \in BlockLines(within, "rpc", "option"), within' = l.enters,
         Inner \in {"rpc", "option"}
  PROVE  Nesting' /\ (TakesIn(l) => Accounted')
<1>1. TakesIn(l) => BracesTyped /\ Accounted /\ LineRead(l)
    BY DEF TakesIn
<1>2. TakesIn(l) => \A o \in l.odd : o \in oddities'
    BY <1>1, OddStays DEF LineRead
<1>3. CASE LineKind(l, "header", 0, "rpc", {"headerLikeField"}) /\ l.enters = within
  <2>1. Nesting' /\ Inner' = Inner /\ Unclosed' = Unclosed
      BY <1>3, StayStep
  <2>2. l.pattern = "header" /\ l.of = {"rpc"} /\ Net(l) \in Int /\ l.odd = {"headerLikeField"}
      BY <1>3 DEF LineKind
  <2>3. QED
      BY <1>1, <1>2, <2>1, <2>2, HeaderStep
<1>4. CASE ~(LineKind(l, "header", 0, "rpc", {"headerLikeField"}) /\ l.enters = within)
  <2>1. /\ l.pattern = "other" /\ l.of = {"rpc"} /\ Net(l) \in {-1, 0, 1} /\ Net(l) \in Int
        /\ \/ Net(l) = 0 /\ within' = within
           \/ Net(l) = 1 /\ within' = Nest(within, "option")
           \/ Net(l) = -1 /\ within' = Leave(within)
      BY <1>4, KindOfBlockLine DEF LineKind
  <2>2. /\ Nesting' /\ Unclosed \in Int /\ Unclosed > 1
        /\ Unclosed' = Unclosed + Net(l) /\ Unclosed' > 0
        /\ Inner' = "service" => Unclosed' = 1
        /\ Inner' \in {"service", "rpc", "option"}
      BY <2>1, BlockShape
  <2>3. Unclosed > 0
      BY <2>2
  <2>4. QED
      BY <1>1, <2>1, <2>2, <2>3, RpcLineStep
<1>5. QED
    BY <1>3, <1>4

LEMMA SettingStep ==
  ASSUME Nesting, NEW l \in BlockLines(within, "option", "setting"), within' = l.enters,
         Inner = "setting"
  PROVE  Nesting' /\ (TakesIn(l) => Accounted')
<1>1. TakesIn(l) => BracesTyped /\ Accounted /\ LineRead(l)
    BY DEF TakesIn
<1>2. TakesIn(l) => "serviceOption" \in oddities'
  <2>1. TakesIn(l) => Odd("serviceOption")
      BY <1>1 DEF Accounted, InsideService
  <2>2. QED
      BY <1>1, <2>1, OddStays DEF LineRead
<1>3. CASE LineKind(l, "header", 0, "option", {"headerLikeField"}) /\ l.enters = within
  <2>1. Nesting' /\ Inner' = Inner /\ Unclosed' = Unclosed
      BY <1>3, StayStep
  <2>2. l.pattern = "header" /\ l.of = {"option"} /\ Net(l) \in Int
      BY <1>3 DEF LineKind
  <2>3. QED
      BY <1>1, <1>2, <2>1, <2>2, HeaderStep
<1>4. CASE ~(LineKind(l, "header", 0, "option", {"headerLikeField"}) /\ l.enters = within)
  <2>1. /\ l.pattern = "other" /\ l.of = {"option"} /\ Net(l) \in {-1, 0, 1} /\ Net(l) \in Int
        /\ \/ Net(l) = 0 /\ within' = within
           \/ Net(l) = 1 /\ within' = Nest(within, "setting")
           \/ Net(l) = -1 /\ within' = Leave(within)
      BY <1>4, KindOfBlockLine DEF LineKind
  <2>2. /\ Nesting' /\ Unclosed \in Int /\ Unclosed > 1
        /\ Unclosed' = Unclosed + Net(l) /\ Unclosed' > 0
        /\ Inner' = "service" => Unclosed' = 1
        /\ Inner' \in {"service", "setting"}
      BY <2>1, BlockShape
  <2>3. Unclosed > 0
      BY <2>2
  <2>4. QED
      BY <1>1, <1>2, <2>1, <2>2, <2>3, OptionLineStep
<1>5. QED
    BY <1>3, <1>4

LEMMA HeadEndStep ==
  ASSUME Nesting, NEW l \in Pieces(within), within' = l.enters,
         Inner \in {"serviceName", "rpcName"}
  PROVE  Nesting' /\ (TakesIn(l) => Accounted')
<1>1. TakesIn(l) => BracesTyped /\ Accounted /\ LineRead(l)
    BY DEF TakesIn
<1>2. TakesIn(l) => \A o \in l.odd : o \in oddities'
    BY <1>1, OddStays DEF LineRead
<1>3. CASE Inner = "serviceName"
  <2>1. /\ l.pattern = "other" /\ l.of = {"service"} /\ Net(l) = 1 /\ Net(l) \in Int
        /\ within' = Replace(within, "service")
      BY <1>3, KindOfHeadEnd DEF LineKind
  <2>2. Nesting' /\ Inner' = "service"
      BY <1>3, <2>1, ReplaceStep DEF BlockKind
  <2>3. Unclosed' = 1
    <3>1. Len(within') = Len(within) + 0
        BY <1>3, <2>1, ReplaceStep, LenProperties DEF BlockKind, Nesting
    <3>2. Unclosed' = Unclosed + 0 + 1
        BY <1>3, <2>2, <3>1, UnclosedStep
    <3>3. QED
        BY <1>3, <3>2, DepthOf
  <2>4. QED
      BY <1>1, <1>3, <2>1, <2>2, <2>3, SplitHeadStep
<1>4. CASE Inner = "rpcName"
  <2>1. /\ l.pattern = "other" /\ l.of = {"rpc"} /\ Net(l) \in {0, 1} /\ Net(l) \in Int
        /\ \/ Net(l) = 0 /\ within' = Leave(within)
           \/ Net(l) = 1 /\ within' = Replace(within, "rpc")
      BY <1>4, KindOfHeadEnd DEF LineKind
  <2>2. /\ Nesting' /\ Inner' \in {"service", "rpc"}
        /\ Unclosed' = Unclosed + Net(l)
    <3>1. CASE Net(l) = 0 /\ within' = Leave(within)
      <4>1. /\ Nesting' /\ Len(within') = Len(within) - 1 /\ Inner' = "service"
          BY <1>4, <3>1, LeaveStep
      <4>2. Len(within') = Len(within) + -1
          BY <4>1, LenProperties DEF Nesting
      <4>3. Unclosed' = Unclosed + -1 + 1
          BY <1>4, <4>1, <4>2, UnclosedStep
      <4>4. QED
          BY <3>1, <4>1, <4>3, DepthOf
    <3>2. CASE Net(l) = 1 /\ within' = Replace(within, "rpc")
      <4>1. /\ Nesting' /\ Inner' = "rpc" /\ Len(within') = Len(within)
          BY <1>4, <3>2, ReplaceStep DEF BlockKind
      <4>2. Len(within') = Len(within) + 0
          BY <4>1, LenProperties DEF Nesting
      <4>3. Unclosed' = Unclosed + 0 + 1
          BY <1>4, <4>1, <4>2, UnclosedStep
      <4>4. QED
          BY <3>2, <4>1, <4>3, DepthOf
    <3>3. QED
        BY <2>1, <3>1, <3>2
  <2>3. Unclosed \in Int /\ Unclosed > 0
      BY <1>4, DepthOf
  <2>4. Unclosed' > 0
      BY <2>1, <2>2, <2>3
  <2>6. Inner' = "service" => Unclosed' = 1
      BY <2>2, DepthOfNext
  <2>5. QED
      BY <1>1, <1>2, <1>4, <2>1, <2>2, <2>3, <2>4, <2>6, RpcLineStep
<1>5. QED
    BY <1>3, <1>4

LEMMA LineStep ==
  ASSUME Nesting, NEW l \in Pieces(within), within' = l.enters, l.odd \cap Wild = {}
  PROVE  Nesting' /\ (TakesIn(l) => Accounted')
BY WhereLinesAre, CommentStep, FileStep, MessageStep, ServiceStep, BlockStep, SettingStep,
   HeadEndStep

(* What any line has, whatever blocks are open.                            *)
PlainLine(l) == l.opens \in Nat /\ l.closes \in Nat /\ l.enters \in Seq(BlockKind)

LEMMA LineIsPlain ==
  ASSUME NEW p, NEW o \in Nat, NEW c \in Nat, NEW of, NEW e \in Seq(BlockKind), NEW odd
  PROVE  PlainLine(Line(p, o, c, of, e, odd))
BY DEF PlainLine, Line

LEMMA PiecesArePlain ==
  ASSUME NEW w \in Seq(BlockKind), NEW l \in Pieces(w)
  PROVE  PlainLine(l)
<1>1. /\ \A b \in BlockKind : Nest(w, b) \in Seq(BlockKind)
      /\ w # <<>> => Leave(w) \in Seq(BlockKind)
      /\ w # <<>> => \A b \in BlockKind : Replace(w, b) \in Seq(BlockKind)
  <2>1. \A b \in BlockKind : Nest(w, b) \in Seq(BlockKind)
      BY AppendProperties DEF Nest
  <2>2. ASSUME w # <<>>
        PROVE  Leave(w) \in Seq(BlockKind)
    <3>1. Len(w) > 0
        BY <2>2, LenProperties, EmptySeq
    <3>2. QED
        BY <3>1, FrontOfSeq DEF Leave
  <2>3. w # <<>> => \A b \in BlockKind : Replace(w, b) \in Seq(BlockKind)
      BY <2>2, AppendProperties DEF Replace
  <2>4. QED
      BY <2>1, <2>2, <2>3
<1>2. \A n \in {0, 1} : n \in Nat /\ 1 - n \in Nat
    OBVIOUS
<1>3. /\ 0 \in Nat /\ 1 \in Nat
      /\ {"message", "service", "serviceName", "setting", "rpc", "rpcName", "option"} = BlockKind
    BY DEF BlockKind
<1>4. CASE l \in Comments(w)
    BY <1>2, <1>3, <1>4, LineIsPlain DEF Comments
<1>5. CASE l \in FileLines(w)
    BY <1>1, <1>3, <1>5, LineIsPlain DEF FileLines
<1>6. CASE w # <<>> /\ l \in MessageLines(w)
    BY <1>1, <1>3, <1>6, LineIsPlain DEF MessageLines
<1>7. CASE w # <<>> /\ l \in ServiceLines(w)
    BY <1>1, <1>3, <1>7, LineIsPlain DEF ServiceLines
<1>8. CASE /\ w # <<>>
           /\ l \in BlockLines(w, "rpc", "option") \cup BlockLines(w, "option", "setting")
    BY <1>1, <1>3, <1>8, LineIsPlain DEF BlockLines
<1>9. CASE /\ w # <<>>
           /\ l \in {Line("other", 1, 0, "service", Replace(w, "service"), {}),
                     Line("other", 0, 0, "rpc", Leave(w), {}),
                     Line("other", 1, 0, "rpc", Replace(w, "rpc"), {"rpcBlock"})}
    BY <1>1, <1>3, <1>9, LineIsPlain
<1>10. Innermost(w) # "file" => w # <<>>
    BY DEF Innermost
<1>11. Innermost(w) \in BlockKind \cup {"file"}
    BY LenProperties, EmptySeq, ElementOfSeq DEF Innermost
<1>12. \/ l \in Comments(w) \/ l \in FileLines(w)
       \/ w # <<>> /\ l \in MessageLines(w)
       \/ w # <<>> /\ l \in ServiceLines(w)
       \/ /\ w # <<>>
          /\ l \in BlockLines(w, "rpc", "option") \cup BlockLines(w, "option", "setting")
       \/ /\ w # <<>>
          /\ l \in {Line("other", 1, 0, "service", Replace(w, "service"), {}),
                    Line("other", 0, 0, "rpc", Leave(w), {}),
                    Line("other", 1, 0, "rpc", Replace(w, "rpc"), {"rpcBlock"})}
  <2>1. \/ Innermost(w) = "file" /\ l \in FileLines(w) \cup Comments(w)
        \/ Innermost(w) = "message" /\ l \in MessageLines(w) \cup Comments(w)
        \/ Innermost(w) = "service" /\ l \in ServiceLines(w) \cup Comments(w)
        \/ /\ Innermost(w) = "serviceName"
           /\ l \in {Line("other", 1, 0, "service", Replace(w, "service"), {})}
        \/ /\ Innermost(w) = "rpcName"
           /\ l \in {Line("other", 0, 0, "rpc", Leave(w), {}),
                     Line("other", 1, 0, "rpc", Replace(w, "rpc"), {"rpcBlock"})}
        \/ Innermost(w) = "setting" /\ l \in BlockLines(w, "option", "setting") \cup Comments(w)
        \/ /\ Innermost(w) \in {"rpc", "option"}
           /\ l \in BlockLines(w, "rpc", "option") \cup Comments(w)
      BY <1>11 DEF Pieces, BlockKind
  <2>2. QED
      BY <2>1, <1>10
<1>13. QED
    BY <1>4, <1>5, <1>6, <1>7, <1>8, <1>9, <1>12

LEMMA LinesArePlain ==
  ASSUME within \in Seq(BlockKind), NEW l \in Lines
  PROVE  PlainLine(l) /\ Net(l) \in Int
<1>1. PlainLine(l)
  <2>1. CASE l \in Pieces(within)
      BY <2>1, PiecesArePlain
  <2>2. CASE l \notin Pieces(within)
    <3>1. PICK a \in Pieces(within) : \E b \in Pieces(a.enters) : l = Join(a, b)
        BY <2>2 DEF Lines
    <3>2. PICK b \in Pieces(a.enters) : l = Join(a, b)
        BY <3>1
    <3>3. PlainLine(a)
        BY <3>1, PiecesArePlain
    <3>4. PlainLine(b)
        BY <3>2, <3>3, PiecesArePlain DEF PlainLine
    <3>5. l.opens = a.opens + b.opens /\ l.closes = a.closes + b.closes /\ l.enters = b.enters
        BY <3>2 DEF Join
    <3>6. QED
        BY <3>3, <3>4, <3>5 DEF PlainLine
  <2>3. QED
      BY <2>1, <2>2
<1>2. QED
    BY <1>1 DEF PlainLine, Net

(* Two things on one line are odd.                                         *)
LEMMA JoinsAreOdd ==
  ASSUME NEW l \in Lines, l.odd \cap Wild = {}
  PROVE  l \in Pieces(within)
<1>1. \A a, b : "sharedLine" \in Join(a, b).odd
    BY DEF Join
<1>2. l \in Pieces(within) \/ \E a, b : l = Join(a, b)
    BY DEF Lines
<1>3. QED
    BY <1>1, <1>2 DEF Wild

LEMMA MergeInitInv == MergeInit => MergeInv
<1> SUFFICES ASSUME MergeInit
             PROVE  MergeInv
    OBVIOUS
<1>1. within \in Seq(BlockKind) /\ Len(within) = 0 /\ Inner = "file"
    BY EmptySeq DEF MergeInit, Inner, Innermost
<1>2. Nesting
    BY <1>1 DEF Nesting
<1>3. Unclosed = 0
    BY <1>1 DEF Unclosed
<1>4. /\ inService = FALSE /\ braceDepth = 0 /\ rpcBraceDepth = 0
      /\ messageBraces = 0 /\ rpcBraces = 0 /\ lost = {} /\ moved = {}
    BY DEF MergeInit
<1>5. BracesTyped
  <2>1. inService \in BOOLEAN
      BY <1>4, Zenon
  <2>2. /\ braceDepth \in Int /\ rpcBraceDepth \in Int
        /\ messageBraces \in Int /\ rpcBraces \in Int
      BY <1>4
  <2>3. QED
      BY <2>1, <2>2, Zenon DEF BracesTyped
<1>6. LossKnown
    BY <1>4 DEF LossKnown
<1>7. BetweenServices /\ HeadOfService /\ InsideService
    BY <1>1, <1>3, <1>4 DEF BetweenServices, HeadOfService, InsideService
<1>8. QED
    BY <1>1, <1>2, <1>5, <1>6, <1>7 DEF MergeInv

LEMMA ReadLineStep ==
  ASSUME MergeInv, ReadLine
  PROVE  MergeInv'
<1>1. PICK l \in Lines : LineRead(l)
    BY DEF ReadLine, LineRead, Reads
<1>2. within \in Seq(BlockKind) /\ BracesTyped /\ LossKnown
    BY DEF MergeInv
<1>3. PlainLine(l) /\ Net(l) \in Int /\ within' = l.enters
    BY <1>1, <1>2, LinesArePlain DEF LineRead
<1>4. within' \in Seq(BlockKind) /\ BracesTyped'
    BY <1>1, <1>2, <1>3, CountersStep DEF LineRead, PlainLine
<1>5. /\ Misread => Misread'
      /\ l.odd \cap Wild # {} => Misread'
    BY <1>1, OddStays DEF LineRead, Wild
<1>6. CASE Misread'
    BY <1>4, <1>6 DEF MergeInv, LossKnown
<1>7. CASE ~Misread'
  <2>1. ~Misread /\ l.odd \cap Wild = {} /\ l \in Pieces(within)
      BY <1>5, <1>7, JoinsAreOdd
  <2>2. Nesting /\ TakesIn(l)
      BY <1>1, <1>2, <2>1 DEF TakesIn, Accounted, MergeInv
  <2>3. Nesting' /\ Accounted'
      BY <1>3, <2>1, <2>2, LineStep
  <2>4. QED
      BY <1>4, <2>3 DEF MergeInv, Accounted
<1>8. QED
    BY <1>6, <1>7

LEMMA NextFileStep ==
  ASSUME MergeInv, NextFile
  PROVE  MergeInv'
<1>1. within' = <<>> /\ within' \in Seq(BlockKind) /\ Nesting'
  <2>1. within' = <<>> /\ within' \in Seq(BlockKind) /\ Len(within') = 0
      BY EmptySeq DEF NextFile
  <2>2. QED
      BY <2>1 DEF Nesting
<1>2. /\ Inner' = "file" /\ Unclosed' = 0
  <2>1. Inner' = "file"
      BY <1>1 DEF Inner, Innermost
  <2>2. Len(within') = 0
      BY <1>1, EmptySeq
  <2>3. QED
      BY <2>1, <2>2 DEF Unclosed
<1>3. /\ inService' = FALSE /\ braceDepth' = 0 /\ rpcBraceDepth' = 0
      /\ messageBraces' = 0 /\ rpcBraces' = 0 /\ lost' = {} /\ moved' = {}
    BY DEF NextFile, Reset
<1>4. BracesTyped'
  <2>1. inService' \in BOOLEAN
      BY <1>3, Zenon
  <2>2. /\ braceDepth' \in Int /\ rpcBraceDepth' \in Int
        /\ messageBraces' \in Int /\ rpcBraces' \in Int
      BY <1>3
  <2>3. QED
      BY <2>1, <2>2, Zenon DEF BracesTyped
<1>5. LossKnown'
    BY <1>3 DEF LossKnown
<1>6. BetweenServices' /\ HeadOfService' /\ InsideService'
    BY <1>2, <1>3 DEF BetweenServices, HeadOfService, InsideService
<1>7. QED
    BY <1>1, <1>4, <1>5, <1>6 DEF MergeInv

LEMMA MergeInvariant == MergeSpec => []MergeInv
<1>1. MergeInv /\ [MergeNext]_mergeVars => MergeInv'
  <2> SUFFICES ASSUME MergeInv, [MergeNext]_mergeVars
               PROVE  MergeInv'
      OBVIOUS
  <2>1. CASE ReadLine
      BY <2>1, ReadLineStep
  <2>2. CASE NextFile
      BY <2>2, NextFileStep
  <2>3. CASE UNCHANGED mergeVars
    <3>1. /\ within' = within /\ BracesTyped' /\ Inner' = Inner /\ Unclosed' = Unclosed
          /\ Nesting => Nesting'
        BY <2>3 DEF mergeVars, MergeInv, Nesting, BracesTyped, Inner, Innermost, Unclosed
    <3>2. QED
        BY <2>3, <3>1
        DEF mergeVars, MergeInv, BetweenServices, HeadOfService, InsideService, LossKnown,
            Odd, LeftOpen, Misread
  <2>4. QED
      BY <2>1, <2>2, <2>3 DEF MergeNext
<1>2. QED
    BY <1>1, MergeInitInv, PTL DEF MergeSpec

(* Whatever the nesting and the odd lines of the desc protos, a file loses *)
(* a definition or an rpc, or has one put into the wrong part, only for    *)
(* one of the causes LossHasACause lists, all of them in that file.        *)
THEOREM LossesHaveCauses == MergeSpec => []LossHasACause
<1>1. MergeInv => LossHasACause
  <2> SUFFICES ASSUME MergeInv
               PROVE  LossHasACause
      OBVIOUS
  <2>1. LossKnown
      BY DEF MergeInv
  <2>2. ASSUME within = <<>>, ~Misread
        PROVE  messageBraces = 0 /\ rpcBraces = 0
    <3>1. Inner = "file" /\ Unclosed = 0
        BY <2>2, DepthOf DEF MergeInv, Inner, Innermost
    <3>2. BetweenServices
        BY <2>2 DEF MergeInv
    <3>3. inService \in BOOLEAN
        BY DEF MergeInv, BracesTyped
    <3>4. QED
        BY <3>1, <3>2, <3>3 DEF BetweenServices
  <2>3. within = <<>> /\ {messageBraces, rpcBraces} # {0} => Misread
      BY <2>2
  <2>4. QED
      BY <2>1, <2>3 DEF LossHasACause, LossKnown, LeftOpen, Odd
<1>2. QED
    BY <1>1, MergeInvariant, PTL

-----------------------------------------------------------------------------
(* ApiParser: comments, for any tokens and any number of them.             *)

ParseFunction ==
  {"kvs", "imports", "serviceName", "items", "item", "afterItem", "atDoc",
   "handler", "route", "path", "pathRest", "segment", "pathItem", "afterPath",
   "returns", "semicolon", "body", "bodyRest", "bodyExpr", "bodyElem",
   "serverKVs", "serverKV", "serverValue", "joined", "commas", "dashes",
   "oneDash", "slashes", "typeList", "typeExpr", "assign", "dataType",
   "length", "elems", "elem", "elemRest", "names", "tag"}

(* What is on the stack of the parser: only the text of tokens of Textual  *)
(* is folded.  Skip stands on top of it, when the token is a semicolon.    *)
Callable == ParseFunction \cup {"panic", "unexpected"}
Readable == Token \ {"eof"}
StackEntry ==
  ({"advance", "look"} \X SUBSET Readable) \cup ({"fold", "drop"} \X SUBSET Textual)
  \cup ({"do"} \X Callable) \cup ({"check", "node"} \X {"keyword", "comment", "path"})
  \cup ({"init", "top", "next"} \X {0, 1, 2})
Stack == Seq(StackEntry)
Semicolons == {";"}
OnTop(s) == s \in Stack \/ (peek \in Semicolons /\ \E r \in Stack : s = <<Skip>> \o r)

(* The comment is not lost but with the node of such a token, and it is    *)
(* dealt with before the end of the file is the current token.             *)
Settled == {"ahead", "kept", "lost"}
CommentsInv ==
  /\ OnTop(todo)
  /\ folded \in BOOLEAN /\ (folded => cur \in Textual)
  /\ note \in Note \ {"gone"}
  /\ cur = "eof" => peek = "eof" /\ note \in Settled
  /\ outcome = "ast" => cur = "eof"

LEMMA Entries ==
  /\ \A T : T \subseteq Readable => Advance(T) \in StackEntry /\ Look(T) \in StackEntry
  /\ \A T : T \subseteq Textual => Fold(T) \in StackEntry /\ Drop(T) \in StackEntry
  /\ \A f \in ParseFunction : Do(f) \in StackEntry
  /\ Do("panic") \in StackEntry /\ Do("unexpected") \in StackEntry
  /\ NotKeyword \in StackEntry /\ NoComment \in StackEntry /\ MakeNode \in StackEntry
  /\ <<"next", 0>> \in StackEntry /\ <<"top", 0>> \in StackEntry /\ <<"init", 1>> \in StackEntry
  /\ <<"init", 2>> \in StackEntry
BY DEF StackEntry, Callable, Advance, Look, Fold, Drop, Do, NotKeyword, NoComment, MakeNode

LEMMA EntryIs ==
  ASSUME NEW e \in StackEntry
  PROVE  /\ e[1] # "skip"
         /\ e[1] \in {"fold", "drop"} => e[2] \subseteq Textual
         /\ e[1] = "do" => e[2] \in Callable
BY DEF StackEntry

LEMMA SkipIs == Skip[1] = "skip"
BY DEF Skip

LEMMA Short ==
  /\ <<>> \in Stack
  /\ \A a \in StackEntry : <<a>> \in Stack
  /\ \A a, b \in StackEntry : <<a, b>> \in Stack
  /\ \A a, b, c \in StackEntry : <<a, b, c>> \in Stack
  /\ \A a, b, c, d \in StackEntry : <<a, b, c, d>> \in Stack
  /\ \A a, b, c, d, e \in StackEntry : <<a, b, c, d, e>> \in Stack
  /\ \A a, b, c, d, e, f \in StackEntry : <<a, b, c, d, e, f>> \in Stack
  /\ \A s, t \in Stack : s \o t \in Stack
BY DEF Stack

(* The tokens that the parse functions ask for, and those that they fold.  *)
LEMMA TokenSets ==
  /\ Ident \subseteq Readable /\ {"(", "string"} \subseteq Readable /\ {"("} \subseteq Readable
  /\ {"("} \cup Ident \subseteq Readable /\ {")", "string"} \subseteq Readable
  /\ {")"} \subseteq Readable /\ {")"} \cup Ident \subseteq Readable
  /\ {"*", "}"} \cup Ident \subseteq Readable /\ {"*"} \subseteq Readable
  /\ {"*"} \cup Ident \subseteq Readable
  /\ {",", "[", "interface{}", "*", "{"} \cup Ident \subseteq Readable
  /\ {"/", "duration", "int", "string"} \cup Ident \subseteq Readable
  /\ {":", "int"} \cup Ident \subseteq Readable /\ {":"} \subseteq Readable
  /\ {"="} \subseteq Readable /\ {"@doc"} \subseteq Readable /\ {"@handler", "}"} \subseteq Readable
  /\ {"[", "interface{}", "*", "{"} \cup Ident \subseteq Readable
  /\ {"[", "interface{}", "*"} \cup Ident \subseteq Readable /\ {"["} \subseteq Readable
  /\ {"]"} \subseteq Readable /\ {"any"} \subseteq Readable /\ {"int", "..."} \subseteq Readable
  /\ {"interface{}"} \subseteq Readable /\ {"map"} \subseteq Readable
  /\ {"raw", "*", "}"} \cup Ident \subseteq Readable /\ {"raw"} \subseteq Readable
  /\ {"returns", "("} \subseteq Readable /\ {"returns"} \subseteq Readable
  /\ {"service"} \subseteq Readable /\ {"string", "raw"} \cup Ident \subseteq Readable
  /\ {"string"} \subseteq Readable /\ {"{"} \subseteq Readable /\ {"}"} \subseteq Readable
  /\ ItemEnd \subseteq Readable /\ ItemEnd \cup {"returns", ";"} \subseteq Readable
  /\ {"/"} \cup PathEnd \subseteq Readable /\ HttpMethods \subseteq Readable
  /\ Ident \subseteq Textual /\ {","} \subseteq Textual /\ {"-", "."} \subseteq Textual
  /\ {"-"} \subseteq Textual /\ {"/"} \subseteq Textual /\ {":"} \subseteq Textual
  /\ {"api"} \subseteq Textual /\ {"int"} \cup Ident \subseteq Textual
BY DEF Readable, Token, Ident, GoKeyword, Opening, Closing, Punct, Other, Textual, ItemEnd, PathEnd, HttpMethods

LEMMA Functions ==
  /\ "kvs" \in ParseFunction /\ "imports" \in ParseFunction
  /\ "serviceName" \in ParseFunction /\ "items" \in ParseFunction
  /\ "item" \in ParseFunction /\ "afterItem" \in ParseFunction /\ "atDoc" \in ParseFunction
  /\ "handler" \in ParseFunction /\ "route" \in ParseFunction /\ "path" \in ParseFunction
  /\ "pathRest" \in ParseFunction /\ "segment" \in ParseFunction
  /\ "pathItem" \in ParseFunction /\ "afterPath" \in ParseFunction
  /\ "returns" \in ParseFunction /\ "semicolon" \in ParseFunction
  /\ "body" \in ParseFunction /\ "bodyRest" \in ParseFunction
  /\ "bodyExpr" \in ParseFunction /\ "bodyElem" \in ParseFunction
  /\ "serverKVs" \in ParseFunction /\ "serverKV" \in ParseFunction
  /\ "serverValue" \in ParseFunction /\ "joined" \in ParseFunction
  /\ "commas" \in ParseFunction /\ "dashes" \in ParseFunction /\ "oneDash" \in ParseFunction
  /\ "slashes" \in ParseFunction /\ "typeList" \in ParseFunction
  /\ "typeExpr" \in ParseFunction /\ "assign" \in ParseFunction
  /\ "dataType" \in ParseFunction /\ "length" \in ParseFunction /\ "elems" \in ParseFunction
  /\ "elem" \in ParseFunction /\ "elemRest" \in ParseFunction /\ "names" \in ParseFunction
  /\ "tag" \in ParseFunction
BY DEF ParseFunction

(* What each function puts on the stack.                                   *)
LEMMA KVExpressionStack == ParseKVExpression \in Stack
BY Short, Entries, TokenSets, Zenon DEF ParseKVExpression

LEMMA StatementsStack ==
  /\ ParseSyntaxStmt \in Stack /\ KVs \in Stack /\ ParseInfoStmt \in Stack
  /\ Imports \in Stack /\ ParseImportStmt \in Stack
BY Short, Entries, TokenSets, Functions, KVExpressionStack, ZenonT(30)
   DEF ParseSyntaxStmt, KVs, ParseInfoStmt, Imports, ParseImportStmt, Until

LEMMA ServicesStack ==
  /\ ServiceRest \in Stack /\ ParseAtServerStmt \in Stack
  /\ ParseServiceNameExpr \in Stack /\ ParseServiceItemsStmt \in Stack
  /\ AfterItem \in Stack /\ ParseAtDocStmt \in Stack /\ ParseServiceItemStmt \in Stack
  /\ HandlerAndRoute \in Stack
BY Short, Entries, TokenSets, Functions, ZenonT(30)
   DEF ServiceRest, ParseAtServerStmt, ParseServiceNameExpr, ParseServiceItemsStmt, AfterItem, ParseAtDocStmt, ParseServiceItemStmt, HandlerAndRoute, Until

LEMMA RoutesStack ==
  /\ ParseRouteStmt \in Stack /\ ParsePathExpr \in Stack /\ PathRest \in Stack
  /\ Segment \in Stack /\ ParsePathItem \in Stack /\ Returns \in Stack
BY Short, Entries, TokenSets, Functions, ZenonT(30)
   DEF ParseRouteStmt, ParsePathExpr, PathRest, Segment, ParsePathItem, Returns

LEMMA SemicolonsStack == OnTop(AfterPath) /\ OnTop(Semicolon)
<1>1. peek = ";" => OnTop(<<Skip>>)
    <2>1. <<Skip>> = <<Skip>> \o <<>>
        OBVIOUS
    <2>2. peek = ";" => peek \in Semicolons
        BY Zenon DEF Semicolons
    <2>3. QED
        BY <2>1, <2>2, Short, Zenon DEF OnTop
<1>2. \A s \in Stack : OnTop(s)
    BY DEF OnTop
<1>3. QED
    BY <1>1, <1>2, Short, Entries, TokenSets, Functions, ZenonT(30) DEF AfterPath, Semicolon

LEMMA BodiesStack ==
  /\ ParseBodyStmt \in Stack /\ BodyRest \in Stack /\ BodyElem \in Stack
  /\ ParseBodyExpr \in Stack
<1>1. BodyElem \in Stack
    BY Short, Entries, TokenSets, Zenon DEF BodyElem
<1>2. QED
    BY <1>1, Short, Entries, TokenSets, Functions, ZenonT(30) DEF ParseBodyStmt, BodyRest, ParseBodyExpr

LEMMA ServersStack ==
  /\ ServerKVs \in Stack /\ ParseAtServerKVExpression \in Stack /\ Joined \in Stack
  /\ Commas \in Stack /\ Dashes \in Stack /\ OneDash \in Stack /\ Slashes \in Stack
  /\ ServerValue \in Stack
<1>1. /\ ServerKVs \in Stack /\ ParseAtServerKVExpression \in Stack /\ Joined \in Stack
      /\ Commas \in Stack /\ Dashes \in Stack /\ OneDash \in Stack /\ Slashes \in Stack
    BY Short, Entries, TokenSets, Functions, ZenonT(30)
       DEF ServerKVs, ParseAtServerKVExpression, Joined, Commas, Dashes, OneDash, Slashes, Until
<1>2. ServerValue \in Stack
  <2>1. peek \in {"duration", "int", "string"} => {peek} \subseteq Textual
      BY Zenon DEF Textual
  <2>2. QED
      BY <2>1, Short, Entries, TokenSets, Functions, ZenonT(30) DEF ServerValue
<1>3. QED
    BY <1>1, <1>2

LEMMA TypesStack ==
  /\ ParseTypeStmt \in Stack /\ ParseTypeExprList \in Stack /\ ParseTypeExpr \in Stack
  /\ Assign \in Stack /\ ParseDataType \in Stack /\ Length \in Stack
BY Short, Entries, TokenSets, Functions, ZenonT(30)
   DEF ParseTypeStmt, ParseTypeExprList, ParseTypeExpr, Assign, ParseDataType, Length

LEMMA ElementsStack ==
  ASSUME NEW breaks
  PROVE
  /\ ParseElemExprList \in Stack /\ ParseElemExpr \in Stack
  /\ ElemRest(breaks) \in Stack /\ Names \in Stack /\ Tag \in Stack
BY Short, Entries, TokenSets, Functions, ZenonT(30)
   DEF ParseElemExprList, ParseElemExpr, ElemRest, Names, Tag

LEMMA BodyStack ==
  ASSUME NEW f \in ParseFunction, NEW breaks
  PROVE  OnTop(Body(f, breaks))
<1>1. \A s \in Stack : OnTop(s)
    BY DEF OnTop
<1>2. CASE f \in {"kvs", "imports"}
    BY <1>1, <1>2, StatementsStack DEF Body
<1>3. CASE f \in {"serviceName", "items", "item", "afterItem", "atDoc", "handler"}
    BY <1>1, <1>3, ServicesStack DEF Body
<1>4. CASE f \in {"route", "path", "pathRest", "segment", "pathItem", "returns"}
    BY <1>1, <1>4, RoutesStack DEF Body
<1>5. CASE f \in {"afterPath", "semicolon"}
    BY <1>1, <1>5, SemicolonsStack DEF Body
<1>6. CASE f \in {"body", "bodyRest", "bodyExpr", "bodyElem"}
    BY <1>1, <1>6, BodiesStack DEF Body
<1>7. CASE f \in {"serverKVs", "serverKV", "serverValue", "joined", "commas", "dashes", "oneDash", "slashes"}
    BY <1>1, <1>7, ServersStack DEF Body
<1>8. CASE f \in {"typeList", "typeExpr", "assign", "dataType", "length"}
    BY <1>1, <1>8, TypesStack DEF Body
<1>9. CASE f \in {"elems", "elem", "elemRest", "names", "tag"}
    BY <1>1, <1>9, ElementsStack DEF Body
<1>10. QED
    BY <1>2, <1>3, <1>4, <1>5, <1>6, <1>7, <1>8, <1>9 DEF ParseFunction

(* What is left on the stack, and what its top may do.                     *)
LEMMA TopIs ==
  ASSUME OnTop(todo), todo # <<>>
  PROVE  /\ Rest \in Stack
         /\ Op = "skip" => peek \in Semicolons
         /\ Op \in {"fold", "drop"} => Arg \subseteq Textual
         /\ Op = "do" => Arg \in Callable
<1>1. CASE todo \in Stack
    <2>1. Head(todo) \in StackEntry /\ Rest \in Stack
        BY <1>1, HeadTailProperties DEF Stack, Rest
    <2>2. QED
        BY <2>1, EntryIs DEF Op, Arg
<1>2. CASE peek \in Semicolons /\ \E r \in Stack : todo = <<Skip>> \o r
    <2>1. PICK r \in Stack : todo = <<Skip>> \o r
        BY <1>2
    <2>2. Head(todo) = Skip /\ Rest = r
        BY <2>1 DEF Stack, Rest
    <2>3. Op = "skip"
        BY <2>2, SkipIs DEF Op
    <2>4. QED
        BY <1>2, <2>2, <2>3
<1>3. QED
    BY <1>1, <1>2 DEF OnTop

LEMMA OnTopRest ==
  ASSUME NEW s, OnTop(s), NEW r \in Stack
  PROVE  OnTop(s \o r)
<1>1. CASE s \in Stack
    BY <1>1, Short DEF OnTop
<1>2. CASE peek \in Semicolons /\ \E q \in Stack : s = <<Skip>> \o q
    <2>1. PICK q \in Stack : s = <<Skip>> \o q
        BY <1>2
    <2>2. s \o r = <<Skip>> \o (q \o r)
        BY <2>1 DEF Stack
    <2>3. q \o r \in Stack
        BY Short
    <2>4. QED
        BY <1>2, <2>2, <2>3 DEF OnTop
<1>3. QED
    BY <1>1, <1>2 DEF OnTop

(* A token is read: the comment moves on.                                  *)
LEMMA TokenRead ==
  ASSUME CommentsInv, NEW fold \in BOOLEAN, fold => peek \in Textual, NextToken(fold)
  PROVE  /\ folded' \in BOOLEAN /\ (folded' => cur' \in Textual)
         /\ note' \in Note \ {"gone"}
         /\ cur' = "eof" => peek' = "eof" /\ note' \in Settled
<1>1. cur' = peek /\ folded' = fold
    BY DEF NextToken
<1>2. NoteLeft \in Note \ {"gone"} /\ NoteLeft # "leading"
    BY DEF CommentsInv, NoteLeft, Note
<1>3. peek = "eof" => NoteLeft \in Settled
    BY DEF CommentsInv, NoteLeft, Note, Settled
<1>4. CASE peek = "eof"
    BY <1>1, <1>2, <1>3, <1>4 DEF NextToken, AtEof
<1>5. CASE peek # "eof"
    <2>1. note' \in NoteRead
        BY <1>5 DEF NextToken
    <2>2. NoteRead \subseteq Note \ {"gone"}
        BY <1>2 DEF NoteRead, Note
    <2>3. QED
        BY <1>1, <1>5, <2>1, <2>2
<1>6. QED
    BY <1>4, <1>5

LEMMA CommentsInitInv == ParserInit => CommentsInv
<1> SUFFICES ASSUME ParserInit PROVE CommentsInv
    OBVIOUS
<1>1. todo = <<<<"init", 2>>>> /\ folded = FALSE /\ note = "ahead" /\ outcome = "parsing" /\ cur # "eof"
    BY DEF ParserInit
<1>2. OnTop(todo)
    BY <1>1, Short, Entries DEF OnTop
<1>3. QED
    BY <1>1, <1>2 DEF CommentsInv, Note

LEMMA CommentsStep == CommentsInv /\ [ParserNext]_parserVars => CommentsInv'
<1> SUFFICES ASSUME CommentsInv, [ParserNext]_parserVars PROVE CommentsInv'
    OBVIOUS
<1>1. \A s \in Stack : OnTop(s) /\ OnTop(s)'
    BY DEF OnTop
<1>2. OnTop(todo) /\ folded \in BOOLEAN /\ (folded => cur \in Textual)
    BY DEF CommentsInv
<1>3. ASSUME Parsing
      PROVE  /\ todo # <<>> /\ outcome = "parsing" /\ Rest \in Stack
             /\ Op = "skip" => peek \in Semicolons
             /\ Op \in {"fold", "drop"} => Arg \subseteq Textual
             /\ Op = "do" => Arg \in Callable
    <2>1. todo # <<>> /\ outcome = "parsing"
        BY <1>3 DEF Parsing
    <2>2. QED
        BY <1>2, <2>1, TopIs
<1>4. ASSUME NEW fold \in BOOLEAN, fold => peek \in Textual, NextToken(fold),
             NEW s \in Stack, outcome = "parsing",
             IF peek' = ErrorToken THEN Fails ELSE Goes(s)
      PROVE  CommentsInv'
    <2>1. todo' \in Stack /\ outcome' # "ast"
        BY <1>4, Short DEF Fails, Goes
    <2>2. OnTop(todo)'
        BY <1>1, <2>1
    <2>3. QED
        BY <1>4, <2>1, <2>2, TokenRead DEF CommentsInv
<1>5. ASSUME Idles, Fails PROVE CommentsInv'
    <2>1. todo' = <<>> /\ outcome' = "nil" /\ cur' = cur /\ peek' = peek /\ folded' = folded /\ note' = note
        BY <1>5 DEF Idles, Fails, tokenVars
    <2>2. OnTop(todo)'
        BY <1>1, <2>1, Short
    <2>3. QED
        BY <2>1, <2>2 DEF CommentsInv
<1>6. CASE Start
    <2>1. <<"init", 1>> \in StackEntry /\ <<"top", 0>> \in StackEntry
        BY Entries
    <2>2. <<IF Arg = 2 THEN <<"init", 1>> ELSE <<"top", 0>>>> \in Stack
        BY <2>1, Short
    <2>3. QED
        BY <1>3, <1>4, <1>6, <2>2 DEF Start
<1>7. CASE Parse
    <2>1. /\ outcome = "parsing"
          /\ cur' = cur /\ peek' = peek /\ folded' = folded /\ note' = note
        BY <1>3, <1>7 DEF Parse
    <2>2. CASE cur = "eof"
        <3>1. todo' = <<>>
            BY <1>7, <2>2 DEF Parse
        <3>2. OnTop(todo)'
            BY <1>1, <3>1, Short
        <3>3. QED
            BY <2>1, <2>2, <3>2 DEF CommentsInv
    <2>3. CASE cur # "eof"
        <3>1. Statement \in Stack
            <4>1. ParseService \in Stack
                BY ServicesStack, Short, Entries, TokenSets, ZenonT(30) DEF ParseService
            <4>2. <<Do("unexpected")>> \in Stack
                BY Short, Entries
            <4>3. QED
                BY <4>1, <4>2, StatementsStack, TypesStack DEF Statement
        <3>2. Statement \o <<<<"next", 0>>>> \in Stack
            BY <3>1, Short, Entries
        <3>3. todo' \in Stack /\ outcome' = "parsing"
            BY <1>7, <2>1, <2>3, <3>2 DEF Parse, Goes
        <3>4. OnTop(todo)'
            BY <1>1, <3>3
        <3>5. QED
            BY <2>1, <3>3, <3>4 DEF CommentsInv
    <2>4. QED
        BY <2>2, <2>3
<1>8. CASE NextStatement
    <2>1. <<<<"top", 0>>>> \in Stack
        BY Short, Entries
    <2>2. QED
        BY <1>3, <1>4, <1>8, <2>1 DEF NextStatement
<1>9. CASE Call
    <2>1. /\ Parsing /\ Op = "do" /\ Arg \notin {"panic", "unexpected"}
          /\ cur' = cur /\ peek' = peek /\ note' = note
        BY <1>9 DEF Call
    <2>2. PICK breaks : Goes(Body(Arg, breaks) \o Rest)
        BY <1>9 DEF Call
    <2>3. folded' = (folded \/ (Arg = "handler" /\ cur = "}" /\ peek = "}"))
        BY <1>9, Zenon DEF Call
    <2>4. folded' \in BOOLEAN /\ (folded' => cur \in Textual)
        BY <1>2, <2>3, Zenon DEF Textual
    <2>5. Rest \in Stack /\ outcome = "parsing"
        BY <1>3, <2>1
    <2>6. OnTop(Body(Arg, breaks) \o Rest)
        <3>1. Arg \in ParseFunction
            BY <1>3, <2>1 DEF Callable
        <3>2. QED
            BY <2>5, <3>1, BodyStack, OnTopRest
    <2>7. OnTop(todo)' /\ outcome' = "parsing"
        BY <2>1, <2>2, <2>5, <2>6 DEF Goes, OnTop
    <2>8. QED
        BY <2>1, <2>4, <2>7 DEF CommentsInv
<1>10. CASE Panic
    <2>1. /\ todo' = <<>> /\ outcome' = "panic" /\ cur' = cur /\ peek' = peek /\ folded' = folded /\ note' = note
        BY <1>10 DEF Panic, Idles, tokenVars
    <2>2. OnTop(todo)'
        BY <1>1, <2>1, Short
    <2>3. QED
        BY <2>1, <2>2 DEF CommentsInv
<1>11. CASE Take
    <2>1. Parsing /\ Op \in {"advance", "fold", "drop"} /\ peek \in Arg /\ NextToken(Op # "advance")
        BY <1>11 DEF Take
    <2>2. Op # "advance" => peek \in Textual
        BY <1>3, <2>1
    <2>3. QED
        BY <1>3, <1>4, <1>11, <2>1, <2>2 DEF Take
<1>12. CASE SkipSemicolon
    <2>1. Parsing /\ Op = "skip" /\ NextToken(TRUE) /\ Goes(Rest)
        BY <1>12 DEF SkipSemicolon
    <2>2. peek \in Textual
        <3>1. \A t \in Semicolons : t \in Textual
            BY Zenon DEF Semicolons, Textual
        <3>2. QED
            BY <1>3, <2>1, <3>1
    <2>3. OnTop(todo)' /\ outcome' = "parsing"
        BY <1>1, <1>3, <2>1 DEF Goes
    <2>4. QED
        BY <2>1, <2>2, <2>3, TokenRead DEF CommentsInv
<1>13. CASE Pass
    <2>1. /\ Parsing /\ Goes(Rest)
          /\ cur' = cur /\ peek' = peek /\ folded' = folded /\ note' = note
        BY <1>13 DEF Pass, Idles, tokenVars
    <2>2. OnTop(todo)' /\ outcome' = "parsing"
        BY <1>1, <1>3, <2>1 DEF Goes
    <2>3. QED
        BY <2>1, <2>2 DEF CommentsInv
<1>14. CASE FoldTokens
    <2>1. /\ Parsing /\ Goes(Rest)
          /\ cur' = cur /\ peek' = peek /\ folded' = folded
          /\ note' = IF note = "leading" THEN "kept" ELSE note
        BY <1>14 DEF FoldTokens
    <2>2. OnTop(todo)' /\ outcome' = "parsing"
        BY <1>1, <1>3, <2>1 DEF Goes
    <2>3. QED
        BY <2>1, <2>2 DEF CommentsInv, Note, Settled
<1>15. CASE SyntaxError
    BY <1>5, <1>15 DEF SyntaxError
<1>16. CASE UNCHANGED parserVars
    BY <1>16 DEF parserVars, CommentsInv, OnTop
<1>17. QED
    BY <1>6, <1>7, <1>8, <1>9, <1>10, <1>11, <1>12, <1>13, <1>14, <1>15, <1>16 DEF ParserNext

(* A comment of an api file that the parser accepts is in the tree, or was *)
(* lost with the node of a token that is folded into another, whatever the *)
(* file has (parser.go, nextToken and its callers).                        *)
THEOREM CommentsAlwaysKept == ParserSpec => []CommentsKept
<1>1. CommentsInv => CommentsKept
    BY DEF CommentsInv, CommentsKept, Accepted, Settled
<1>2. QED
    BY <1>1, CommentsInitInv, CommentsStep, PTL DEF ParserSpec

-----------------------------------------------------------------------------
(* ApiParser: the parse functions read a token every few steps.            *)

(* Something passes along a sequence s, from p to q, when each entry of s  *)
(* takes it from one node to the next by a step of R.                      *)
Chained(R, N, s, p, q) ==
  \E e \in [1 .. Len(s) + 1 -> N] :
    /\ e[1] = p /\ e[Len(s) + 1] = q
    /\ \A i \in 1 .. Len(s) : <<s[i], e[i], e[i + 1]>> \in R

LEMMA ChainNone ==
  ASSUME NEW R, NEW N, NEW p \in N
  PROVE  Chained(R, N, <<>>, p, p)
<1> DEFINE e == [i \in 1 .. 1 |-> p]
<1>1. e \in [1 .. Len(<<>>) + 1 -> N] /\ e[1] = p /\ e[Len(<<>>) + 1] = p
    OBVIOUS
<1>2. ~ \E i \in 1 .. Len(<<>>) : TRUE
    OBVIOUS
<1> HIDE DEF e
<1>3. QED
    BY <1>1, <1>2 DEF Chained

LEMMA ChainOne ==
  ASSUME NEW R, NEW N, NEW x, NEW p \in N, NEW q \in N, <<x, p, q>> \in R
  PROVE  Chained(R, N, <<x>>, p, q)
<1> DEFINE e == [i \in 1 .. 2 |-> IF i = 1 THEN p ELSE q]
<1>1. e \in [1 .. Len(<<x>>) + 1 -> N]
    OBVIOUS
<1>2. /\ e[1] = p /\ e[Len(<<x>>) + 1] = q
      /\ \A i \in 1 .. Len(<<x>>) : <<<<x>>[i], e[i], e[i + 1]>> \in R
    OBVIOUS
<1>3. QED
    BY <1>1, <1>2 DEF Chained

LEMMA ChainJoin ==
  ASSUME NEW R, NEW N, NEW X, NEW s \in Seq(X), NEW t \in Seq(X), NEW p, NEW q, NEW r,
         Chained(R, N, s, p, q), Chained(R, N, t, q, r)
  PROVE  Chained(R, N, s \o t, p, r)
<1>1. PICK d \in [1 .. Len(s) + 1 -> N] :
        /\ d[1] = p /\ d[Len(s) + 1] = q
        /\ \A i \in 1 .. Len(s) : <<s[i], d[i], d[i + 1]>> \in R
    BY DEF Chained
<1>2. PICK e \in [1 .. Len(t) + 1 -> N] :
        /\ e[1] = q /\ e[Len(t) + 1] = r
        /\ \A i \in 1 .. Len(t) : <<t[i], e[i], e[i + 1]>> \in R
    BY DEF Chained
<1> DEFINE f == [i \in 1 .. Len(s \o t) + 1 |-> IF i <= Len(s) THEN d[i] ELSE e[i - Len(s)]]
<1>3. Len(s \o t) = Len(s) + Len(t) /\ Len(s) \in Nat /\ Len(t) \in Nat
    OBVIOUS
<1>4. f \in [1 .. Len(s \o t) + 1 -> N]
    BY <1>1, <1>2, <1>3
<1>5. f[1] = p /\ f[Len(s \o t) + 1] = r
    BY <1>1, <1>2, <1>3
<1>6. ASSUME NEW i \in 1 .. Len(s \o t)
      PROVE  <<(s \o t)[i], f[i], f[i + 1]>> \in R
    <2>1. CASE i <= Len(s)
        <3>1. (s \o t)[i] = s[i] /\ f[i] = d[i] /\ f[i + 1] = d[i + 1]
            BY <1>1, <1>2, <1>3, <2>1, SMTT(40)
        <3>2. QED
            BY <1>1, <1>3, <2>1, <3>1
    <2>2. CASE i > Len(s)
        <3>1. /\ i - Len(s) \in 1 .. Len(t)
              /\ (s \o t)[i] = t[i - Len(s)] /\ f[i] = e[i - Len(s)]
              /\ f[i + 1] = e[(i - Len(s)) + 1]
            BY <1>1, <1>2, <1>3, <2>2, SMTT(40)
        <3>2. QED
            BY <1>2, <3>1
    <2>3. i <= Len(s) \/ i > Len(s)
        BY <1>3
    <2>4. QED
        BY <2>1, <2>2, <2>3
<1>7. QED
    BY <1>4, <1>5, <1>6 DEF Chained

LEMMA ChainHead ==
  ASSUME NEW R, NEW N, NEW X, NEW s \in Seq(X), s # <<>>, NEW p, NEW r, Chained(R, N, s, p, r)
  PROVE  \E q \in N : <<Head(s), p, q>> \in R /\ Chained(R, N, Tail(s), q, r)
<1>1. PICK e \in [1 .. Len(s) + 1 -> N] :
        /\ e[1] = p /\ e[Len(s) + 1] = r
        /\ \A i \in 1 .. Len(s) : <<s[i], e[i], e[i + 1]>> \in R
    BY DEF Chained
<1>2. Len(s) \in Nat \ {0} /\ Head(s) = s[1] /\ Tail(s) \in Seq(X) /\ Len(Tail(s)) = Len(s) - 1
      /\ \A i \in 1 .. Len(s) - 1 : Tail(s)[i] = s[i + 1]
    BY HeadTailProperties, EmptySeq
<1> DEFINE f == [i \in 1 .. Len(Tail(s)) + 1 |-> e[i + 1]]
<1>3. f \in [1 .. Len(Tail(s)) + 1 -> N] /\ f[1] = e[2] /\ f[Len(Tail(s)) + 1] = r
    BY <1>1, <1>2
<1>4. \A i \in 1 .. Len(Tail(s)) : <<Tail(s)[i], f[i], f[i + 1]>> \in R
    BY <1>1, <1>2
<1>5. Chained(R, N, Tail(s), e[2], r)
    BY <1>3, <1>4 DEF Chained
<1>6. e[2] \in N /\ <<Head(s), p, e[2]>> \in R
    BY <1>1, <1>2
<1>7. QED
    BY <1>5, <1>6

(* The steps that the parser may go on without a token.  A function, or    *)
(* another entry of the stack, takes at most Cost of them before it reads  *)
(* a token or is done, and at most Back after the last token that it read; *)
(* the functions of Advancing never return without one.                      *)
Budget == 18
Level == 0 .. Budget

Entry == StackEntry \cup {Skip}
Taking == {x \in Entry : x[1] \in {"advance", "fold", "drop", "skip"}}
Idling == {x \in Entry : x[1] \in {"look", "check", "node"}}

Advancing == {"atDoc", "item", "route", "body", "bodyRest", "bodyElem", "bodyExpr",
            "serverKV", "typeExpr", "length", "elem", "panic", "unexpected"}
FunctionCost(f) ==
  CASE f \in {"elemRest", "afterPath"} -> 6
    [] f \in {"segment", "elems", "returns"} -> 4
    [] f \in {"items", "atDoc", "path", "bodyRest", "serverKVs", "serverValue",
              "joined", "typeList"} -> 3
    [] OTHER -> 2
FunctionBack(f) ==
  CASE f = "items" -> 17
    [] f = "elems" -> 15
    [] f \in {"item", "handler", "route"} -> 12
    [] f = "elem" -> 10
    [] f \in {"serverKVs", "typeList"} -> 9
    [] f \in {"path", "pathRest", "segment", "serverKV", "typeExpr", "elemRest"} -> 5
    [] f \in {"afterPath", "serverValue", "joined", "slashes"} -> 4
    [] f \in {"kvs", "imports", "dataType", "length", "names"} -> 3
    [] f \in {"pathItem", "returns", "commas", "dashes"} -> 2
    [] OTHER -> 0

Cost(x) ==
  CASE x[1] = "do" -> FunctionCost(x[2])
    [] x[1] = "next" -> 2
    [] x[1] \in {"init", "top"} -> Budget + 1
    [] OTHER -> 1
Back(x) == IF x[1] = "do" THEN FunctionBack(x[2]) ELSE 0
ReadsToken(x) == x[1] \in {"advance", "fold", "drop", "skip"} \/ (x[1] = "do" /\ x[2] \in Advancing)

(* What is left of a steps after x, if they are enough for it.             *)
Left(x, a) ==
  CASE a < Cost(x) -> -1
    [] a >= Cost(x) /\ (ReadsToken(x) \/ a - Cost(x) > Budget - Back(x)) -> Budget - Back(x)
    [] OTHER -> a - Cost(x)

IdleSteps == {t \in Entry \X Level \X Level : t[3] <= Left(t[1], t[2])}
Affords(s, a, b) == Chained(IdleSteps, Level, s, a, b)

LEMMA LeftBounds ==
  ASSUME NEW x, NEW a \in Int, a <= Budget
  PROVE  /\ Left(x, a) \in -1 .. Budget
         /\ a < 0 => Left(x, a) = -1
<1>1. \A f : FunctionCost(f) \in 1 .. 6
    BY DEF FunctionCost
<1>2. \A f : FunctionBack(f) \in 0 .. 17
    BY DEF FunctionBack
<1>3. Cost(x) \in 1 .. 19 /\ Back(x) \in 0 .. 17
    BY <1>1, <1>2 DEF Cost, Back, Budget
<1>4. QED
    BY <1>3 DEF Left, Budget

LEMMA IdleJoin ==
  ASSUME NEW s \in Seq(Entry), NEW x \in Entry, NEW a \in Level, NEW b \in Level,
         NEW c \in Level, Affords(s, a, c), b <= Left(x, c)
  PROVE  Affords(Append(s, x), a, b)
<1>1. <<x, c, b>> \in IdleSteps
    BY DEF IdleSteps
<1>2. Affords(<<x>>, c, b)
    BY <1>1, ChainOne DEF Affords
<1>3. <<x>> \in Seq(Entry) /\ Append(s, x) = s \o <<x>>
    OBVIOUS
<1>4. QED
    BY <1>2, <1>3, ChainJoin DEF Affords

LEMMA TakingLeft ==
  ASSUME NEW x \in Taking, NEW a \in Int, a <= Budget
  PROVE  Left(x, a) = IF a < 1 THEN -1 ELSE Budget
BY DEF Taking, Left, Cost, Back, ReadsToken, Budget

LEMMA IdlingLeft ==
  ASSUME NEW x \in Idling, NEW a \in Int, a <= Budget
  PROVE  Left(x, a) = IF a < 1 THEN -1 ELSE a - 1
BY DEF Idling, Left, Cost, Back, ReadsToken, Budget

LEMMA Affords1 ==
  ASSUME NEW u \in Entry, NEW a \in Level, NEW b \in Level, b <= Left(u, a)
  PROVE  Affords(<<u>>, a, b)
<1>1. <<u, a, b>> \in IdleSteps
    BY DEF IdleSteps
<1>2. QED
    BY <1>1, ChainOne DEF Affords

LEMMA Affords2 ==
  ASSUME NEW u \in Entry, NEW v \in Entry,
         NEW a \in Level, NEW b \in Level, b <= Left(v, Left(u, a))
  PROVE  Affords(<<u, v>>, a, b)
<1>1. Left(u, a) \in Level /\ Left(u, a) <= Left(u, a)
    BY LeftBounds DEF Level, Budget
<1>2. Affords(<<u>>, a, Left(u, a))
    BY <1>1, Affords1, Zenon
<1>3. <<u, v>> = Append(<<u>>, v) /\ <<u>> \in Seq(Entry)
    OBVIOUS
<1>4. Affords(Append(<<u>>, v), a, b)
    BY <1>1, <1>2, <1>3, IdleJoin, Zenon
<1>5. QED
    BY <1>3, <1>4

LEMMA Affords3 ==
  ASSUME NEW u \in Entry, NEW v \in Entry, NEW w \in Entry,
         NEW a \in Level, NEW b \in Level, b <= Left(w, Left(v, Left(u, a)))
  PROVE  Affords(<<u, v, w>>, a, b)
<1>1. Left(v, Left(u, a)) \in Level /\ Left(v, Left(u, a)) <= Left(v, Left(u, a))
    BY LeftBounds DEF Level, Budget
<1>2. Affords(<<u, v>>, a, Left(v, Left(u, a)))
    BY <1>1, Affords2, Zenon
<1>3. <<u, v, w>> = Append(<<u, v>>, w) /\ <<u, v>> \in Seq(Entry)
    OBVIOUS
<1>4. Affords(Append(<<u, v>>, w), a, b)
    BY <1>1, <1>2, <1>3, IdleJoin, Zenon
<1>5. QED
    BY <1>3, <1>4

LEMMA Affords4 ==
  ASSUME NEW u \in Entry, NEW v \in Entry, NEW w \in Entry, NEW x \in Entry,
         NEW a \in Level, NEW b \in Level, b <= Left(x, Left(w, Left(v, Left(u, a))))
  PROVE  Affords(<<u, v, w, x>>, a, b)
<1>1. Left(w, Left(v, Left(u, a))) \in Level /\ Left(w, Left(v, Left(u, a))) <= Left(w, Left(v, Left(u, a)))
    BY LeftBounds DEF Level, Budget
<1>2. Affords(<<u, v, w>>, a, Left(w, Left(v, Left(u, a))))
    BY <1>1, Affords3, Zenon
<1>3. <<u, v, w, x>> = Append(<<u, v, w>>, x) /\ <<u, v, w>> \in Seq(Entry)
    OBVIOUS
<1>4. Affords(Append(<<u, v, w>>, x), a, b)
    BY <1>1, <1>2, <1>3, IdleJoin, Zenon
<1>5. QED
    BY <1>3, <1>4

LEMMA Affords5 ==
  ASSUME NEW u \in Entry, NEW v \in Entry, NEW w \in Entry, NEW x \in Entry, NEW y \in Entry,
         NEW a \in Level, NEW b \in Level, b <= Left(y, Left(x, Left(w, Left(v, Left(u, a)))))
  PROVE  Affords(<<u, v, w, x, y>>, a, b)
<1>1. Left(x, Left(w, Left(v, Left(u, a)))) \in Level /\ Left(x, Left(w, Left(v, Left(u, a)))) <= Left(x, Left(w, Left(v, Left(u, a))))
    BY LeftBounds DEF Level, Budget
<1>2. Affords(<<u, v, w, x>>, a, Left(x, Left(w, Left(v, Left(u, a)))))
    BY <1>1, Affords4, Zenon
<1>3. <<u, v, w, x, y>> = Append(<<u, v, w, x>>, y) /\ <<u, v, w, x>> \in Seq(Entry)
    OBVIOUS
<1>4. Affords(Append(<<u, v, w, x>>, y), a, b)
    BY <1>1, <1>2, <1>3, IdleJoin, Zenon
<1>5. QED
    BY <1>3, <1>4

LEMMA Affords6 ==
  ASSUME NEW u \in Entry, NEW v \in Entry, NEW w \in Entry, NEW x \in Entry, NEW y \in Entry, NEW z \in Entry,
         NEW a \in Level, NEW b \in Level, b <= Left(z, Left(y, Left(x, Left(w, Left(v, Left(u, a))))))
  PROVE  Affords(<<u, v, w, x, y, z>>, a, b)
<1>1. Left(y, Left(x, Left(w, Left(v, Left(u, a))))) \in Level /\ Left(y, Left(x, Left(w, Left(v, Left(u, a))))) <= Left(y, Left(x, Left(w, Left(v, Left(u, a)))))
    BY LeftBounds DEF Level, Budget
<1>2. Affords(<<u, v, w, x, y>>, a, Left(y, Left(x, Left(w, Left(v, Left(u, a))))))
    BY <1>1, Affords5, Zenon
<1>3. <<u, v, w, x, y, z>> = Append(<<u, v, w, x, y>>, z) /\ <<u, v, w, x, y>> \in Seq(Entry)
    OBVIOUS
<1>4. Affords(Append(<<u, v, w, x, y>>, z), a, b)
    BY <1>1, <1>2, <1>3, IdleJoin, Zenon
<1>5. QED
    BY <1>3, <1>4

LEMMA FunctionBounds ==
  ASSUME NEW f
  PROVE  FunctionCost(f) \in 2 .. 6 /\ FunctionBack(f) \in 0 .. Budget
<1>1. FunctionCost(f) \in 2 .. 6
    BY DEF FunctionCost
<1>2. FunctionBack(f) \in 0 .. 17
    BY DEF FunctionBack
<1>3. QED
    BY <1>1, <1>2 DEF Budget

LEMMA CallLeft ==
  ASSUME NEW f, NEW a \in Int, a <= Budget
  PROVE  Left(Do(f), a) =
           IF a < FunctionCost(f) THEN -1
           ELSE IF f \in Advancing \/ a - FunctionCost(f) > Budget - FunctionBack(f)
                THEN Budget - FunctionBack(f) ELSE a - FunctionCost(f)
<1>1. /\ Cost(Do(f)) = FunctionCost(f) /\ Back(Do(f)) = FunctionBack(f)
      /\ ReadsToken(Do(f)) <=> f \in Advancing
    BY DEF Cost, Back, ReadsToken, Do
<1>2. QED
    BY <1>1, FunctionBounds DEF Left, Budget

(* The function f may go on with s: the call itself is a step.             *)
Fits(f, s) ==
  \A a, b \in Level : b <= Left(Do(f), a) => \E p \in Level : p < a /\ Affords(s, p, b)

LEMMA CallCosts ==
  ASSUME NEW f, NEW a \in Level, NEW b \in Level, b <= Left(Do(f), a)
  PROVE  a >= FunctionCost(f) /\ FunctionCost(f) \in 2 .. 6
BY FunctionBounds, CallLeft DEF Level, Budget

LEMMA Fits0 ==
  ASSUME NEW f, f \notin Advancing
  PROVE  Fits(f, <<>>)
<1> SUFFICES ASSUME NEW a \in Level, NEW b \in Level, b <= Left(Do(f), a)
             PROVE  b < a /\ Affords(<<>>, b, b)
    BY DEF Fits
<1>1. b < a
    BY FunctionBounds, CallLeft DEF Level, Budget
<1>2. QED
    BY <1>1, ChainNone DEF Affords

LEMMA Fits1 ==
  ASSUME NEW f, NEW u \in Entry,
         \A a \in FunctionCost(f) .. Budget : Left(Do(f), a) <= Left(u, a - 1)
  PROVE  Fits(f, <<u>>)
<1> SUFFICES ASSUME NEW a \in Level, NEW b \in Level, b <= Left(Do(f), a)
             PROVE  a - 1 \in Level /\ a - 1 < a /\ Affords(<<u>>, a - 1, b)
    BY DEF Fits
<1>1. a - 1 \in Level /\ a - 1 < a /\ a \in FunctionCost(f) .. Budget
    BY CallCosts DEF Level, Budget
<1>2. /\ Left(Do(f), a) \in Int
      /\ Left(u, a - 1) \in Int
    BY <1>1, LeftBounds DEF Level, Budget
<1>3. b <= Left(u, a - 1)
    BY <1>1, <1>2 DEF Level
<1>4. QED
    BY <1>1, <1>3, Affords1, Zenon

LEMMA Fits2 ==
  ASSUME NEW f, NEW u \in Entry, NEW v \in Entry,
         \A a \in FunctionCost(f) .. Budget : Left(Do(f), a) <= Left(v, Left(u, a - 1))
  PROVE  Fits(f, <<u, v>>)
<1> SUFFICES ASSUME NEW a \in Level, NEW b \in Level, b <= Left(Do(f), a)
             PROVE  a - 1 \in Level /\ a - 1 < a /\ Affords(<<u, v>>, a - 1, b)
    BY DEF Fits
<1>1. a - 1 \in Level /\ a - 1 < a /\ a \in FunctionCost(f) .. Budget
    BY CallCosts DEF Level, Budget
<1>2. /\ Left(Do(f), a) \in Int
      /\ Left(v, Left(u, a - 1)) \in Int
    BY <1>1, LeftBounds DEF Level, Budget
<1>3. b <= Left(v, Left(u, a - 1))
    BY <1>1, <1>2 DEF Level
<1>4. QED
    BY <1>1, <1>3, Affords2, Zenon

LEMMA Fits3 ==
  ASSUME NEW f, NEW u \in Entry, NEW v \in Entry, NEW w \in Entry,
         \A a \in FunctionCost(f) .. Budget : Left(Do(f), a) <= Left(w, Left(v, Left(u, a - 1)))
  PROVE  Fits(f, <<u, v, w>>)
<1> SUFFICES ASSUME NEW a \in Level, NEW b \in Level, b <= Left(Do(f), a)
             PROVE  a - 1 \in Level /\ a - 1 < a /\ Affords(<<u, v, w>>, a - 1, b)
    BY DEF Fits
<1>1. a - 1 \in Level /\ a - 1 < a /\ a \in FunctionCost(f) .. Budget
    BY CallCosts DEF Level, Budget
<1>2. /\ Left(Do(f), a) \in Int
      /\ Left(w, Left(v, Left(u, a - 1))) \in Int
    BY <1>1, LeftBounds DEF Level, Budget
<1>3. b <= Left(w, Left(v, Left(u, a - 1)))
    BY <1>1, <1>2 DEF Level
<1>4. QED
    BY <1>1, <1>3, Affords3, Zenon

LEMMA Fits4 ==
  ASSUME NEW f, NEW u \in Entry, NEW v \in Entry, NEW w \in Entry, NEW x \in Entry,
         \A a \in FunctionCost(f) .. Budget : Left(Do(f), a) <= Left(x, Left(w, Left(v, Left(u, a - 1))))
  PROVE  Fits(f, <<u, v, w, x>>)
<1> SUFFICES ASSUME NEW a \in Level, NEW b \in Level, b <= Left(Do(f), a)
             PROVE  a - 1 \in Level /\ a - 1 < a /\ Affords(<<u, v, w, x>>, a - 1, b)
    BY DEF Fits
<1>1. a - 1 \in Level /\ a - 1 < a /\ a \in FunctionCost(f) .. Budget
    BY CallCosts DEF Level, Budget
<1>2. /\ Left(Do(f), a) \in Int
      /\ Left(x, Left(w, Left(v, Left(u, a - 1)))) \in Int
    BY <1>1, LeftBounds DEF Level, Budget
<1>3. b <= Left(x, Left(w, Left(v, Left(u, a - 1))))
    BY <1>1, <1>2 DEF Level
<1>4. QED
    BY <1>1, <1>3, Affords4, Zenon

LEMMA Fits5 ==
  ASSUME NEW f, NEW u \in Entry, NEW v \in Entry, NEW w \in Entry, NEW x \in Entry, NEW y \in Entry,
         \A a \in FunctionCost(f) .. Budget : Left(Do(f), a) <= Left(y, Left(x, Left(w, Left(v, Left(u, a - 1)))))
  PROVE  Fits(f, <<u, v, w, x, y>>)
<1> SUFFICES ASSUME NEW a \in Level, NEW b \in Level, b <= Left(Do(f), a)
             PROVE  a - 1 \in Level /\ a - 1 < a /\ Affords(<<u, v, w, x, y>>, a - 1, b)
    BY DEF Fits
<1>1. a - 1 \in Level /\ a - 1 < a /\ a \in FunctionCost(f) .. Budget
    BY CallCosts DEF Level, Budget
<1>2. /\ Left(Do(f), a) \in Int
      /\ Left(y, Left(x, Left(w, Left(v, Left(u, a - 1))))) \in Int
    BY <1>1, LeftBounds, SMTT(40) DEF Level, Budget
<1>3. b <= Left(y, Left(x, Left(w, Left(v, Left(u, a - 1)))))
    BY <1>1, <1>2 DEF Level
<1>4. QED
    BY <1>1, <1>3, Affords5, Zenon

LEMMA CallEntries ==
  /\ \A f \in ParseFunction : Do(f) \in Entry
  /\ Do("panic") \in Entry /\ Do("unexpected") \in Entry
BY DEF Entry, StackEntry, Callable, Do

LEMMA CostsOfServices ==
  /\ Do("kvs") \in Entry /\ FunctionCost("kvs") = 2 /\ FunctionBack("kvs") = 3 /\ "kvs" \notin Advancing
  /\ Do("imports") \in Entry /\ FunctionCost("imports") = 2 /\ FunctionBack("imports") = 3 /\ "imports" \notin Advancing
  /\ Do("serviceName") \in Entry /\ FunctionCost("serviceName") = 2 /\ FunctionBack("serviceName") = 0 /\ "serviceName" \notin Advancing
  /\ Do("items") \in Entry /\ FunctionCost("items") = 3 /\ FunctionBack("items") = 17 /\ "items" \notin Advancing
  /\ Do("item") \in Entry /\ FunctionCost("item") = 2 /\ FunctionBack("item") = 12 /\ "item" \in Advancing
  /\ Do("afterItem") \in Entry /\ FunctionCost("afterItem") = 2 /\ FunctionBack("afterItem") = 0 /\ "afterItem" \notin Advancing
  /\ Do("atDoc") \in Entry /\ FunctionCost("atDoc") = 3 /\ FunctionBack("atDoc") = 0 /\ "atDoc" \in Advancing
  /\ Do("handler") \in Entry /\ FunctionCost("handler") = 2 /\ FunctionBack("handler") = 12 /\ "handler" \notin Advancing
  /\ Do("route") \in Entry /\ FunctionCost("route") = 2 /\ FunctionBack("route") = 12 /\ "route" \in Advancing
  /\ Do("path") \in Entry /\ FunctionCost("path") = 3 /\ FunctionBack("path") = 5 /\ "path" \notin Advancing
  /\ Do("afterPath") \in Entry /\ FunctionCost("afterPath") = 6 /\ FunctionBack("afterPath") = 4 /\ "afterPath" \notin Advancing
BY CallEntries, Functions DEF FunctionCost, FunctionBack, Advancing

LEMMA FitServices ==
  ASSUME NEW t \in Taking, NEW u \in Taking, NEW v \in Taking, NEW l \in Idling
  PROVE  /\ Fits("afterItem", <<l>>)
         /\ Fits("serviceName", <<t, u>>)
         /\ Fits("item", <<t, Do("handler")>>)
         /\ Fits("atDoc", <<l, t>>)
         /\ Fits("handler", <<t, Do("route")>>)
         /\ Fits("imports", <<t, l, Do("imports")>>)
         /\ Fits("items", <<Do("item"), Do("afterItem"), Do("items")>>)
         /\ Fits("atDoc", <<t, Do("kvs"), u>>)
         /\ Fits("kvs", <<t, u, v, l, Do("kvs")>>)
         /\ Fits("item", <<t, Do("atDoc"), u, Do("handler")>>)
         /\ Fits("route", <<t, Do("path"), l, Do("afterPath")>>)
<1>1. t \in Entry /\ u \in Entry /\ v \in Entry /\ l \in Entry
    BY DEF Taking, Idling
<1>2. Fits("afterItem", <<l>>)
    BY <1>1, CostsOfServices, Fits1, IdlingLeft, CallLeft DEF Budget
<1>3. Fits("serviceName", <<t, u>>)
    BY <1>1, CostsOfServices, Fits2, TakingLeft, CallLeft DEF Budget
<1>4. Fits("item", <<t, Do("handler")>>)
    BY <1>1, CostsOfServices, Fits2, TakingLeft, CallLeft DEF Budget
<1>5. Fits("atDoc", <<l, t>>)
    BY <1>1, CostsOfServices, Fits2, TakingLeft, IdlingLeft, CallLeft DEF Budget
<1>6. Fits("handler", <<t, Do("route")>>)
    BY <1>1, CostsOfServices, Fits2, TakingLeft, CallLeft DEF Budget
<1>7. Fits("imports", <<t, l, Do("imports")>>)
    BY <1>1, CostsOfServices, Fits3, TakingLeft, IdlingLeft, CallLeft, SMTT(40) DEF Budget
<1>8. Fits("items", <<Do("item"), Do("afterItem"), Do("items")>>)
    BY CostsOfServices, Fits3, CallLeft DEF Budget
<1>9. Fits("atDoc", <<t, Do("kvs"), u>>)
    BY <1>1, CostsOfServices, Fits3, TakingLeft, CallLeft DEF Budget
<1>10. Fits("kvs", <<t, u, v, l, Do("kvs")>>)
  <2>1. \A a \in FunctionCost("kvs") .. Budget :
          Left(Do("kvs"), a) <= Left(Do("kvs"), Left(l, Left(v, Left(u, Left(t, a - 1)))))
      BY CostsOfServices, TakingLeft, IdlingLeft, CallLeft DEF Budget
  <2>2. QED
      BY <1>1, <2>1, CostsOfServices, Fits5, Zenon
<1>11. Fits("item", <<t, Do("atDoc"), u, Do("handler")>>)
  <2>1. \A a \in FunctionCost("item") .. Budget :
          Left(Do("item"), a) <= Left(Do("handler"), Left(u, Left(Do("atDoc"), Left(t, a - 1))))
      BY CostsOfServices, TakingLeft, IdlingLeft, CallLeft DEF Budget
  <2>2. QED
      BY <1>1, <2>1, CostsOfServices, Fits4, Zenon
<1>12. Fits("route", <<t, Do("path"), l, Do("afterPath")>>)
  <2>1. \A a \in FunctionCost("route") .. Budget :
          Left(Do("route"), a) <= Left(Do("afterPath"), Left(l, Left(Do("path"), Left(t, a - 1))))
      BY CostsOfServices, TakingLeft, IdlingLeft, CallLeft DEF Budget
  <2>2. QED
      BY <1>1, <2>1, CostsOfServices, Fits4, Zenon
<1>13. QED
    BY <1>2, <1>3, <1>4, <1>5, <1>6, <1>7, <1>8, <1>9, <1>10, <1>11, <1>12

LEMMA CostsOfRoutes ==
  /\ Do("path") \in Entry /\ FunctionCost("path") = 3 /\ FunctionBack("path") = 5 /\ "path" \notin Advancing
  /\ Do("pathRest") \in Entry /\ FunctionCost("pathRest") = 2 /\ FunctionBack("pathRest") = 5 /\ "pathRest" \notin Advancing
  /\ Do("segment") \in Entry /\ FunctionCost("segment") = 4 /\ FunctionBack("segment") = 5 /\ "segment" \notin Advancing
  /\ Do("pathItem") \in Entry /\ FunctionCost("pathItem") = 2 /\ FunctionBack("pathItem") = 2 /\ "pathItem" \notin Advancing
  /\ Do("afterPath") \in Entry /\ FunctionCost("afterPath") = 6 /\ FunctionBack("afterPath") = 4 /\ "afterPath" \notin Advancing
  /\ Do("returns") \in Entry /\ FunctionCost("returns") = 4 /\ FunctionBack("returns") = 2 /\ "returns" \notin Advancing
  /\ Do("semicolon") \in Entry /\ FunctionCost("semicolon") = 2 /\ FunctionBack("semicolon") = 0 /\ "semicolon" \notin Advancing
  /\ Do("body") \in Entry /\ FunctionCost("body") = 2 /\ FunctionBack("body") = 0 /\ "body" \in Advancing
  /\ Do("bodyRest") \in Entry /\ FunctionCost("bodyRest") = 3 /\ FunctionBack("bodyRest") = 0 /\ "bodyRest" \in Advancing
  /\ Do("bodyExpr") \in Entry /\ FunctionCost("bodyExpr") = 2 /\ FunctionBack("bodyExpr") = 0 /\ "bodyExpr" \in Advancing
  /\ Do("bodyElem") \in Entry /\ FunctionCost("bodyElem") = 2 /\ FunctionBack("bodyElem") = 0 /\ "bodyElem" \in Advancing
  /\ Do("panic") \in Entry /\ FunctionCost("panic") = 2 /\ FunctionBack("panic") = 0 /\ "panic" \in Advancing
BY CallEntries, Functions DEF FunctionCost, FunctionBack, Advancing

LEMMA FitRoutes ==
  ASSUME NEW t \in Taking, NEW u \in Taking, NEW l \in Idling
  PROVE  /\ Fits("path", <<Do("panic")>>)
         /\ Fits("path", <<Do("pathRest")>>)
         /\ Fits("afterPath", <<t>>)
         /\ Fits("semicolon", <<t>>)
         /\ Fits("bodyRest", <<t>>)
         /\ Fits("bodyExpr", <<t>>)
         /\ Fits("bodyElem", <<t>>)
         /\ Fits("pathRest", <<t, Do("segment")>>)
         /\ Fits("pathItem", <<t, Do("pathItem")>>)
         /\ Fits("afterPath", <<Do("body"), Do("returns")>>)
         /\ Fits("afterPath", <<l, Do("returns")>>)
         /\ Fits("returns", <<l, Do("semicolon")>>)
         /\ Fits("body", <<t, Do("bodyRest")>>)
         /\ Fits("bodyRest", <<Do("bodyExpr"), t>>)
         /\ Fits("bodyExpr", <<t, u>>)
         /\ Fits("bodyElem", <<t, u>>)
         /\ Fits("pathItem", <<t, u, Do("pathItem")>>)
         /\ Fits("bodyExpr", <<t, u, Do("bodyElem")>>)
         /\ Fits("returns", <<l, t, Do("body"), Do("semicolon")>>)
<1>1. t \in Entry /\ u \in Entry /\ l \in Entry
    BY DEF Taking, Idling
<1>2. /\ Fits("path", <<Do("panic")>>)
      /\ Fits("path", <<Do("pathRest")>>)
      /\ Fits("afterPath", <<t>>)
      /\ Fits("semicolon", <<t>>)
    BY <1>1, CostsOfRoutes, Fits1, TakingLeft, CallLeft DEF Budget
<1>3. /\ Fits("bodyRest", <<t>>)
      /\ Fits("bodyExpr", <<t>>)
      /\ Fits("bodyElem", <<t>>)
    BY <1>1, CostsOfRoutes, Fits1, TakingLeft, CallLeft DEF Budget
<1>4. Fits("pathRest", <<t, Do("segment")>>)
    BY <1>1, CostsOfRoutes, Fits2, TakingLeft, CallLeft DEF Budget
<1>5. Fits("pathItem", <<t, Do("pathItem")>>)
    BY <1>1, CostsOfRoutes, Fits2, TakingLeft, CallLeft DEF Budget
<1>6. Fits("afterPath", <<Do("body"), Do("returns")>>)
    BY CostsOfRoutes, Fits2, CallLeft DEF Budget
<1>7. Fits("afterPath", <<l, Do("returns")>>)
    BY <1>1, CostsOfRoutes, Fits2, IdlingLeft, CallLeft DEF Budget
<1>8. Fits("returns", <<l, Do("semicolon")>>)
    BY <1>1, CostsOfRoutes, Fits2, IdlingLeft, CallLeft DEF Budget
<1>9. Fits("body", <<t, Do("bodyRest")>>)
    BY <1>1, CostsOfRoutes, Fits2, TakingLeft, CallLeft DEF Budget
<1>10. Fits("bodyRest", <<Do("bodyExpr"), t>>)
    BY <1>1, CostsOfRoutes, Fits2, TakingLeft, CallLeft DEF Budget
<1>11. Fits("bodyExpr", <<t, u>>)
    BY <1>1, CostsOfRoutes, Fits2, TakingLeft, CallLeft DEF Budget
<1>12. Fits("bodyElem", <<t, u>>)
    BY <1>1, CostsOfRoutes, Fits2, TakingLeft, CallLeft DEF Budget
<1>13. Fits("pathItem", <<t, u, Do("pathItem")>>)
    BY <1>1, CostsOfRoutes, Fits3, TakingLeft, CallLeft DEF Budget
<1>14. Fits("bodyExpr", <<t, u, Do("bodyElem")>>)
    BY <1>1, CostsOfRoutes, Fits3, TakingLeft, CallLeft DEF Budget
<1>15. Fits("returns", <<l, t, Do("body"), Do("semicolon")>>)
  <2>1. \A a \in FunctionCost("returns") .. Budget :
          Left(Do("returns"), a) <= Left(Do("semicolon"), Left(Do("body"), Left(t, Left(l, a - 1))))
      BY CostsOfRoutes, TakingLeft, IdlingLeft, CallLeft DEF Budget
  <2>2. QED
      BY <1>1, <2>1, CostsOfRoutes, Fits4, Zenon
<1>16. QED
    BY <1>2, <1>3, <1>4, <1>5, <1>6, <1>7, <1>8, <1>9, <1>10, <1>11, <1>12, <1>13, <1>14, <1>15

LEMMA CostsOfValues ==
  /\ Do("serverKVs") \in Entry /\ FunctionCost("serverKVs") = 3 /\ FunctionBack("serverKVs") = 9 /\ "serverKVs" \notin Advancing
  /\ Do("serverKV") \in Entry /\ FunctionCost("serverKV") = 2 /\ FunctionBack("serverKV") = 5 /\ "serverKV" \in Advancing
  /\ Do("serverValue") \in Entry /\ FunctionCost("serverValue") = 3 /\ FunctionBack("serverValue") = 4 /\ "serverValue" \notin Advancing
  /\ Do("joined") \in Entry /\ FunctionCost("joined") = 3 /\ FunctionBack("joined") = 4 /\ "joined" \notin Advancing
  /\ Do("commas") \in Entry /\ FunctionCost("commas") = 2 /\ FunctionBack("commas") = 2 /\ "commas" \notin Advancing
  /\ Do("dashes") \in Entry /\ FunctionCost("dashes") = 2 /\ FunctionBack("dashes") = 2 /\ "dashes" \notin Advancing
  /\ Do("oneDash") \in Entry /\ FunctionCost("oneDash") = 2 /\ FunctionBack("oneDash") = 0 /\ "oneDash" \notin Advancing
  /\ Do("slashes") \in Entry /\ FunctionCost("slashes") = 2 /\ FunctionBack("slashes") = 4 /\ "slashes" \notin Advancing
BY CallEntries, Functions DEF FunctionCost, FunctionBack, Advancing

LEMMA FitValues ==
  ASSUME NEW t \in Taking, NEW u \in Taking, NEW l \in Idling, NEW m \in Idling
  PROVE  /\ Fits("serverValue", <<Do("slashes")>>)
         /\ Fits("serverValue", <<t>>)
         /\ Fits("joined", <<Do("commas")>>)
         /\ Fits("joined", <<Do("dashes")>>)
         /\ Fits("joined", <<Do("slashes")>>)
         /\ Fits("serverValue", <<t, Do("joined")>>)
         /\ Fits("oneDash", <<t, u>>)
         /\ Fits("serverKVs", <<Do("serverKV"), l, Do("serverKVs")>>)
         /\ Fits("commas", <<t, u, Do("commas")>>)
         /\ Fits("dashes", <<t, u, Do("dashes")>>)
         /\ Fits("serverKV", <<t, u, l, Do("serverValue"), m>>)
         /\ Fits("slashes", <<t, u, Do("oneDash"), Do("slashes")>>)
<1>1. t \in Entry /\ u \in Entry /\ l \in Entry /\ m \in Entry
    BY DEF Taking, Idling
<1>2. /\ Fits("serverValue", <<Do("slashes")>>)
      /\ Fits("serverValue", <<t>>)
      /\ Fits("joined", <<Do("commas")>>)
      /\ Fits("joined", <<Do("dashes")>>)
    BY <1>1, CostsOfValues, Fits1, TakingLeft, CallLeft DEF Budget
<1>3. Fits("joined", <<Do("slashes")>>)
    BY CostsOfValues, Fits1, CallLeft DEF Budget
<1>4. Fits("serverValue", <<t, Do("joined")>>)
    BY <1>1, CostsOfValues, Fits2, TakingLeft, CallLeft DEF Budget
<1>5. Fits("oneDash", <<t, u>>)
    BY <1>1, CostsOfValues, Fits2, TakingLeft, CallLeft DEF Budget
<1>6. Fits("serverKVs", <<Do("serverKV"), l, Do("serverKVs")>>)
    BY <1>1, CostsOfValues, Fits3, IdlingLeft, CallLeft DEF Budget
<1>7. Fits("commas", <<t, u, Do("commas")>>)
    BY <1>1, CostsOfValues, Fits3, TakingLeft, CallLeft DEF Budget
<1>8. Fits("dashes", <<t, u, Do("dashes")>>)
    BY <1>1, CostsOfValues, Fits3, TakingLeft, CallLeft DEF Budget
<1>9. Fits("serverKV", <<t, u, l, Do("serverValue"), m>>)
  <2>1. \A a \in FunctionCost("serverKV") .. Budget :
          Left(Do("serverKV"), a) <= Left(m, Left(Do("serverValue"), Left(l, Left(u, Left(t, a - 1)))))
      BY CostsOfValues, TakingLeft, IdlingLeft, CallLeft DEF Budget
  <2>2. QED
      BY <1>1, <2>1, CostsOfValues, Fits5, Zenon
<1>10. Fits("slashes", <<t, u, Do("oneDash"), Do("slashes")>>)
  <2>1. \A a \in FunctionCost("slashes") .. Budget :
          Left(Do("slashes"), a) <= Left(Do("slashes"), Left(Do("oneDash"), Left(u, Left(t, a - 1))))
      BY CostsOfValues, TakingLeft, IdlingLeft, CallLeft DEF Budget
  <2>2. QED
      BY <1>1, <2>1, CostsOfValues, Fits4, Zenon
<1>11. QED
    BY <1>2, <1>3, <1>4, <1>5, <1>6, <1>7, <1>8, <1>9, <1>10

LEMMA CostsOfTypes ==
  /\ Do("typeList") \in Entry /\ FunctionCost("typeList") = 3 /\ FunctionBack("typeList") = 9 /\ "typeList" \notin Advancing
  /\ Do("typeExpr") \in Entry /\ FunctionCost("typeExpr") = 2 /\ FunctionBack("typeExpr") = 5 /\ "typeExpr" \in Advancing
  /\ Do("assign") \in Entry /\ FunctionCost("assign") = 2 /\ FunctionBack("assign") = 0 /\ "assign" \notin Advancing
  /\ Do("dataType") \in Entry /\ FunctionCost("dataType") = 2 /\ FunctionBack("dataType") = 3 /\ "dataType" \notin Advancing
  /\ Do("length") \in Entry /\ FunctionCost("length") = 2 /\ FunctionBack("length") = 3 /\ "length" \in Advancing
  /\ Do("elems") \in Entry /\ FunctionCost("elems") = 4 /\ FunctionBack("elems") = 15 /\ "elems" \notin Advancing
BY CallEntries, Functions DEF FunctionCost, FunctionBack, Advancing

LEMMA FitTypes ==
  ASSUME NEW t \in Taking, NEW u \in Taking, NEW v \in Taking, NEW l \in Idling
  PROVE  /\ Fits("assign", <<t>>)
         /\ Fits("dataType", <<t>>)
         /\ Fits("dataType", <<l>>)
         /\ Fits("dataType", <<t, l>>)
         /\ Fits("dataType", <<t, Do("length")>>)
         /\ Fits("length", <<t, Do("dataType")>>)
         /\ Fits("typeList", <<Do("typeExpr"), l, Do("typeList")>>)
         /\ Fits("dataType", <<t, l, Do("dataType")>>)
         /\ Fits("length", <<t, u, Do("dataType")>>)
         /\ Fits("typeExpr", <<t, l, Do("assign"), Do("dataType")>>)
         /\ Fits("dataType", <<t, l, Do("elems"), u>>)
         /\ Fits("dataType", <<t, u, Do("dataType"), v, Do("dataType")>>)
<1>1. t \in Entry /\ u \in Entry /\ v \in Entry /\ l \in Entry
    BY DEF Taking, Idling
<1>2. /\ Fits("assign", <<t>>)
      /\ Fits("dataType", <<t>>)
      /\ Fits("dataType", <<l>>)
    BY <1>1, CostsOfTypes, Fits1, TakingLeft, IdlingLeft, CallLeft DEF Budget
<1>3. Fits("dataType", <<t, l>>)
    BY <1>1, CostsOfTypes, Fits2, TakingLeft, IdlingLeft, CallLeft DEF Budget
<1>4. Fits("dataType", <<t, Do("length")>>)
    BY <1>1, CostsOfTypes, Fits2, TakingLeft, CallLeft DEF Budget
<1>5. Fits("length", <<t, Do("dataType")>>)
    BY <1>1, CostsOfTypes, Fits2, TakingLeft, CallLeft DEF Budget
<1>6. Fits("typeList", <<Do("typeExpr"), l, Do("typeList")>>)
    BY <1>1, CostsOfTypes, Fits3, IdlingLeft, CallLeft DEF Budget
<1>7. Fits("dataType", <<t, l, Do("dataType")>>)
    BY <1>1, CostsOfTypes, Fits3, TakingLeft, IdlingLeft, CallLeft DEF Budget
<1>8. Fits("length", <<t, u, Do("dataType")>>)
    BY <1>1, CostsOfTypes, Fits3, TakingLeft, CallLeft DEF Budget
<1>9. Fits("typeExpr", <<t, l, Do("assign"), Do("dataType")>>)
  <2>1. \A a \in FunctionCost("typeExpr") .. Budget :
          Left(Do("typeExpr"), a) <= Left(Do("dataType"), Left(Do("assign"), Left(l, Left(t, a - 1))))
      BY CostsOfTypes, TakingLeft, IdlingLeft, CallLeft DEF Budget
  <2>2. QED
      BY <1>1, <2>1, CostsOfTypes, Fits4, Zenon
<1>10. Fits("dataType", <<t, l, Do("elems"), u>>)
  <2>1. \A a \in FunctionCost("dataType") .. Budget :
          Left(Do("dataType"), a) <= Left(u, Left(Do("elems"), Left(l, Left(t, a - 1))))
      BY CostsOfTypes, TakingLeft, IdlingLeft, CallLeft DEF Budget
  <2>2. QED
      BY <1>1, <2>1, CostsOfTypes, Fits4, Zenon
<1>11. Fits("dataType", <<t, u, Do("dataType"), v, Do("dataType")>>)
  <2>1. \A a \in FunctionCost("dataType") .. Budget :
          Left(Do("dataType"), a) <= Left(Do("dataType"), Left(v, Left(Do("dataType"), Left(u, Left(t, a - 1)))))
      BY CostsOfTypes, TakingLeft, IdlingLeft, CallLeft DEF Budget
  <2>2. QED
      BY <1>1, <2>1, CostsOfTypes, Fits5, Zenon
<1>12. QED
    BY <1>2, <1>3, <1>4, <1>5, <1>6, <1>7, <1>8, <1>9, <1>10, <1>11

LEMMA CostsOfElements ==
  /\ Do("elems") \in Entry /\ FunctionCost("elems") = 4 /\ FunctionBack("elems") = 15 /\ "elems" \notin Advancing
  /\ Do("elem") \in Entry /\ FunctionCost("elem") = 2 /\ FunctionBack("elem") = 10 /\ "elem" \in Advancing
  /\ Do("elemRest") \in Entry /\ FunctionCost("elemRest") = 6 /\ FunctionBack("elemRest") = 5 /\ "elemRest" \notin Advancing
  /\ Do("names") \in Entry /\ FunctionCost("names") = 2 /\ FunctionBack("names") = 3 /\ "names" \notin Advancing
  /\ Do("tag") \in Entry /\ FunctionCost("tag") = 2 /\ FunctionBack("tag") = 0 /\ "tag" \notin Advancing
  /\ Do("dataType") \in Entry /\ FunctionCost("dataType") = 2 /\ FunctionBack("dataType") = 3 /\ "dataType" \notin Advancing
BY CallEntries, Functions DEF FunctionCost, FunctionBack, Advancing

LEMMA FitElements ==
  ASSUME NEW t \in Taking, NEW u \in Taking, NEW l \in Idling, NEW m \in Idling
  PROVE  /\ Fits("elemRest", <<t>>)
         /\ Fits("tag", <<t>>)
         /\ Fits("elemRest", <<l, Do("names"), Do("dataType")>>)
         /\ Fits("elems", <<l, Do("elem"), m, Do("elems")>>)
         /\ Fits("elem", <<t, l, Do("elemRest"), m, Do("tag")>>)
         /\ Fits("names", <<t, u, l, Do("names")>>)
<1>1. t \in Entry /\ u \in Entry /\ l \in Entry /\ m \in Entry
    BY DEF Taking, Idling
<1>2. /\ Fits("elemRest", <<t>>)
      /\ Fits("tag", <<t>>)
    BY <1>1, CostsOfElements, Fits1, TakingLeft, CallLeft DEF Budget
<1>3. Fits("elemRest", <<l, Do("names"), Do("dataType")>>)
    BY <1>1, CostsOfElements, Fits3, IdlingLeft, CallLeft DEF Budget
<1>4. Fits("elems", <<l, Do("elem"), m, Do("elems")>>)
  <2>1. \A a \in FunctionCost("elems") .. Budget :
          Left(Do("elems"), a) <= Left(Do("elems"), Left(m, Left(Do("elem"), Left(l, a - 1))))
      BY CostsOfElements, TakingLeft, IdlingLeft, CallLeft DEF Budget
  <2>2. QED
      BY <1>1, <2>1, CostsOfElements, Fits4, Zenon
<1>5. Fits("elem", <<t, l, Do("elemRest"), m, Do("tag")>>)
  <2>1. \A a \in FunctionCost("elem") .. Budget :
          Left(Do("elem"), a) <= Left(Do("tag"), Left(m, Left(Do("elemRest"), Left(l, Left(t, a - 1)))))
      BY CostsOfElements, TakingLeft, IdlingLeft, CallLeft DEF Budget
  <2>2. QED
      BY <1>1, <2>1, CostsOfElements, Fits5, Zenon
<1>6. Fits("names", <<t, u, l, Do("names")>>)
  <2>1. \A a \in FunctionCost("names") .. Budget :
          Left(Do("names"), a) <= Left(Do("names"), Left(l, Left(u, Left(t, a - 1))))
      BY CostsOfElements, TakingLeft, IdlingLeft, CallLeft DEF Budget
  <2>2. QED
      BY <1>1, <2>1, CostsOfElements, Fits4, Zenon
<1>7. QED
    BY <1>2, <1>3, <1>4, <1>5, <1>6

(* Two pieces of a function, one after the other.                          *)
LEMMA AppendOne ==
  ASSUME NEW s \in Seq(Entry), NEW x \in Entry, NEW r, r = Append(s, x)
  PROVE  s \o <<x>> = r
OBVIOUS

LEMMA AppendTwo ==
  ASSUME NEW s \in Seq(Entry), NEW x \in Entry, NEW y \in Entry, NEW r, r = Append(Append(s, x), y)
  PROVE  s \o <<x, y>> = r
OBVIOUS

LEMMA Join31 ==
  ASSUME NEW t \in Entry, NEW u \in Entry, NEW v \in Entry, NEW x \in Entry
  PROVE  <<t, u, v>> \o <<x>> = <<t, u, v, x>>
<1>1. <<t, u, v>> \in Seq(Entry)
    OBVIOUS
<1>2. <<t, u, v, x>> = Append(<<t, u, v>>, x)
    OBVIOUS
<1>3. QED
    BY <1>1, <1>2, AppendOne, Zenon

LEMMA Join41 ==
  ASSUME NEW t \in Entry, NEW u \in Entry, NEW v \in Entry, NEW x \in Entry, NEW y \in Entry
  PROVE  <<t, u, v, x>> \o <<y>> = <<t, u, v, x, y>>
<1>1. <<t, u, v, x>> \in Seq(Entry)
    OBVIOUS
<1>2. <<t, u, v, x, y>> = Append(<<t, u, v, x>>, y)
    OBVIOUS
<1>3. QED
    BY <1>1, <1>2, AppendOne, Zenon

LEMMA Join21 ==
  ASSUME NEW t \in Entry, NEW u \in Entry, NEW x \in Entry
  PROVE  <<t, u>> \o <<x>> = <<t, u, x>>
<1>1. <<t, u>> \in Seq(Entry)
    OBVIOUS
<1>2. <<t, u, x>> = Append(<<t, u>>, x)
    OBVIOUS
<1>3. QED
    BY <1>1, <1>2, AppendOne, Zenon

LEMMA Join22 ==
  ASSUME NEW t \in Entry, NEW u \in Entry, NEW x \in Entry, NEW y \in Entry
  PROVE  <<t, u>> \o <<x, y>> = <<t, u, x, y>>
<1>1. <<t, u>> \in Seq(Entry)
    OBVIOUS
<1>2. <<t, u, x, y>> = Append(Append(<<t, u>>, x), y)
    OBVIOUS
<1>3. QED
    BY <1>1, <1>2, AppendTwo, Zenon

LEMMA Join11 ==
  ASSUME NEW t \in Entry, NEW x \in Entry
  PROVE  <<t>> \o <<x>> = <<t, x>>
<1>1. <<t>> \in Seq(Entry)
    OBVIOUS
<1>2. <<t, x>> = Append(<<t>>, x)
    OBVIOUS
<1>3. QED
    BY <1>1, <1>2, AppendOne, Zenon

LEMMA Join12 ==
  ASSUME NEW t \in Entry, NEW x \in Entry, NEW y \in Entry
  PROVE  <<t>> \o <<x, y>> = <<t, x, y>>
<1>1. <<t>> \in Seq(Entry)
    OBVIOUS
<1>2. <<t, x, y>> = Append(Append(<<t>>, x), y)
    OBVIOUS
<1>3. QED
    BY <1>1, <1>2, AppendTwo, Zenon

LEMMA Join02 ==
  ASSUME NEW x \in Entry, NEW y \in Entry
  PROVE  <<>> \o <<x, y>> = <<x, y>>
<1>1. <<>> \in Seq(Entry)
    OBVIOUS
<1>2. <<x, y>> = Append(Append(<<>>, x), y)
    OBVIOUS
<1>3. QED
    BY <1>1, <1>2, AppendTwo, Zenon

LEMMA Kinds ==
  /\ \A T : T \subseteq Readable => Advance(T) \in Taking /\ Look(T) \in Idling
  /\ \A T : T \subseteq Textual => Fold(T) \in Taking /\ Drop(T) \in Taking
  /\ NotKeyword \in Idling /\ NoComment \in Idling /\ MakeNode \in Idling /\ Skip \in Taking
  /\ \A x \in Taking : x \in Entry
  /\ \A x \in Idling : x \in Entry
<1>1. /\ \A T : Advance(T)[1] = "advance" /\ Look(T)[1] = "look" /\ Fold(T)[1] = "fold" /\ Drop(T)[1] = "drop"
      /\ NotKeyword[1] = "check" /\ NoComment[1] = "check" /\ MakeNode[1] = "node"
    BY DEF Advance, Look, Fold, Drop, NotKeyword, NoComment, MakeNode
<1>2. QED
    BY <1>1, Entries, SkipIs, Zenon DEF Taking, Idling, Entry

LEMMA FitsServiceBodies ==
  /\ Fits("kvs", KVs) /\ Fits("imports", Imports) /\ Fits("serviceName", ParseServiceNameExpr)
  /\ Fits("items", ParseServiceItemsStmt) /\ Fits("item", ParseServiceItemStmt)
  /\ Fits("afterItem", AfterItem) /\ Fits("atDoc", ParseAtDocStmt)
  /\ Fits("handler", HandlerAndRoute) /\ Fits("route", ParseRouteStmt)
<1>1. /\ Fits("kvs", <<>>) /\ Fits("imports", <<>>) /\ Fits("serviceName", <<>>)
      /\ Fits("items", <<>>) /\ Fits("afterItem", <<>>) /\ Fits("handler", <<>>)
    BY Fits0 DEF Advancing
<1>2. Fits("kvs", KVs)
  <2> DEFINE t == Advance(Ident)
             u == Advance({":"})
             v == Advance({"string", "raw"} \cup Ident)
             l == Look({")"} \cup Ident)
  <2>1. t \in Taking /\ u \in Taking /\ v \in Taking /\ l \in Idling
      BY Kinds, TokenSets, Zenon
  <2>2. KVs = <<>> \/ KVs = (<<t, u, v>> \o <<l>>) \o <<Do("kvs")>>
      BY Zenon DEF KVs, Until, ParseKVExpression
  <2> HIDE DEF t, u, v, l
  <2>1a. t \in Entry /\ u \in Entry /\ v \in Entry /\ l \in Entry /\ Do("kvs") \in Entry
      BY <2>1, Kinds, CostsOfServices, Zenon
  <2>3. (<<t, u, v>> \o <<l>>) \o <<Do("kvs")>> = <<t, u, v, l, Do("kvs")>>
    <3>1. <<t, u, v>> \o <<l>> = <<t, u, v, l>>
        BY <2>1a, Join31, ZenonT(40)
    <3>2. <<t, u, v, l>> \o <<Do("kvs")>> = <<t, u, v, l, Do("kvs")>>
        BY <2>1a, Join41
    <3>3. QED
        BY <3>1, <3>2, Zenon
  <2>4. Fits("kvs", <<t, u, v, l, Do("kvs")>>)
      BY <2>1, FitServices, Zenon
  <2>5. QED
      BY <1>1, <2>2, <2>3, <2>4, Zenon
<1>3. Fits("imports", Imports)
  <2> DEFINE t == Advance({"string"})
             l == Look({")", "string"})
  <2>1. t \in Taking /\ l \in Idling
      BY Kinds, TokenSets, Zenon
  <2>2. Imports = <<>> \/ Imports = <<t, l>> \o <<Do("imports")>>
      BY Zenon DEF Imports, Until
  <2> HIDE DEF t, l
  <2>3. t \in Entry /\ l \in Entry /\ Do("imports") \in Entry
      BY <2>1, Kinds, CostsOfServices, Zenon
  <2>4. <<t, l>> \o <<Do("imports")>> = <<t, l, Do("imports")>>
      BY <2>3, Join21, Zenon
  <2>5. QED
      BY <1>1, <2>1, <2>2, <2>4, Kinds, FitServices, Zenon
<1>3a. Fits("items", ParseServiceItemsStmt)
  <2>1. /\ Do("item") \in Entry /\ Do("afterItem") \in Entry /\ Do("items") \in Entry
        /\ NoComment \in Idling /\ Skip \in Taking
      BY Kinds, CostsOfServices, Zenon
  <2>2. <<Do("item"), Do("afterItem")>> \o <<Do("items")>> = <<Do("item"), Do("afterItem"), Do("items")>>
      BY <2>1, Join21, Zenon
  <2>3. QED
      BY <1>1, <2>1, <2>2, FitServices, Zenon DEF ParseServiceItemsStmt, Until
<1>3b. Fits("serviceName", ParseServiceNameExpr) /\ Fits("afterItem", AfterItem)
    BY <1>1, Kinds, TokenSets, FitServices, ZenonT(30) DEF ParseServiceNameExpr, AfterItem
<1>4. Fits("item", ParseServiceItemStmt)
  <2> DEFINE t == Advance({"@doc"})
             u == Advance({"@handler", "}"})
  <2>1. t \in Taking /\ u \in Taking
      BY Kinds, TokenSets, Zenon
  <2>2. \/ ParseServiceItemStmt = <<t, Do("atDoc")>> \o <<u, Do("handler")>>
        \/ ParseServiceItemStmt = <<>> \o <<u, Do("handler")>>
      BY Zenon DEF ParseServiceItemStmt
  <2> HIDE DEF t, u
  <2>1a. t \in Entry /\ u \in Entry /\ Do("atDoc") \in Entry /\ Do("handler") \in Entry
      BY <2>1, Kinds, CostsOfServices, Zenon
  <2>3. /\ <<t, Do("atDoc")>> \o <<u, Do("handler")>> = <<t, Do("atDoc"), u, Do("handler")>>
        /\ <<>> \o <<u, Do("handler")>> = <<u, Do("handler")>>
    <3>1. <<t, Do("atDoc")>> \o <<u, Do("handler")>> = <<t, Do("atDoc"), u, Do("handler")>>
        BY <2>1a, Join22, Zenon
    <3>2. <<>> \o <<u, Do("handler")>> = <<u, Do("handler")>>
        BY <2>1a, Join02, Zenon
    <3>3. QED
        BY <3>1, <3>2
  <2>4. Fits("item", <<t, Do("atDoc"), u, Do("handler")>>) /\ Fits("item", <<u, Do("handler")>>)
      BY <2>1, Kinds, FitServices, Zenon
  <2>5. QED
      BY <2>2, <2>3, <2>4, Zenon
<1>5. Fits("handler", HandlerAndRoute) /\ Fits("route", ParseRouteStmt)
    BY <1>1, Kinds, TokenSets, FitServices, ZenonT(30) DEF HandlerAndRoute, ParseRouteStmt
<1>6. Fits("atDoc", ParseAtDocStmt)
  <2> DEFINE l == Look({"(", "string"})
             t == Advance({"string"})
             u == Advance({"("})
             v == Advance({")"})
  <2>1. t \in Taking /\ u \in Taking /\ v \in Taking /\ l \in Idling
      BY Kinds, TokenSets, Zenon
  <2>2. ParseAtDocStmt = <<u, Do("kvs"), v>> \/ ParseAtDocStmt = <<l, t>>
      BY Zenon DEF ParseAtDocStmt
  <2> HIDE DEF l, t, u, v
  <2>3. QED
      BY <2>1, <2>2, FitServices, Zenon
<1>7. QED
    BY <1>2, <1>3, <1>3a, <1>3b, <1>4, <1>5, <1>6

LEMMA FitsSegment == Fits("segment", Segment)
<1> SUFFICES ASSUME NEW a \in Level, NEW b \in Level, b <= Left(Do("segment"), a)
             PROVE  \E p \in Level : p < a /\ Affords(Segment, p, b)
    BY DEF Fits
<1>1. CASE peek \in PathEnd
    <2>1. Fits("segment", <<>>)
        BY Fits0 DEF Advancing
    <2>2. Segment = <<>>
        BY <1>1 DEF Segment
    <2>3. QED
        BY <2>1, <2>2 DEF Fits
<1>2. CASE peek \notin PathEnd
    <2> DEFINE l == Look({":", "int"} \cup Ident)
               c == IF peek = ":" THEN <<Fold({":"})>> ELSE <<>>
               t == Fold({"int"} \cup Ident)
               m == Look({"/"} \cup PathEnd)
    <2>1. NoComment \in Idling /\ l \in Idling /\ t \in Taking /\ m \in Idling /\ Fold({":"}) \in Taking
        BY Kinds, TokenSets, Zenon
    <2>2. Segment = (<<NoComment, l>> \o c) \o <<t, Do("pathItem"), m, Do("pathRest")>>
        BY <1>2, Zenon DEF Segment
    <2>3. c = <<>> \/ c = <<Fold({":"})>>
        BY Zenon
    <2> HIDE DEF l, c, t, m
    <2>4. a \in 4 .. Budget /\ b <= 13 /\ a - 1 \in Level /\ a - 3 \in Level /\ Budget \in Level
        BY CostsOfRoutes, CallLeft DEF Level, Budget
    <2>5. Affords(<<NoComment, l>>, a - 1, a - 3)
        BY <2>1, <2>4, Kinds, Affords2, IdlingLeft DEF Level, Budget
    <2>6. PICK d \in 1 .. Budget : Affords(c, a - 3, d)
        <3>1. CASE c = <<>>
            BY <2>4, <3>1, ChainNone DEF Affords, Budget
        <3>2. CASE c = <<Fold({":"})>>
            BY <2>1, <2>4, <3>2, Kinds, Affords1, TakingLeft DEF Level, Budget
        <3>3. QED
            BY <2>3, <3>1, <3>2
    <2>7. Affords(<<t, Do("pathItem"), m, Do("pathRest")>>, d, b)
        <3>1. d \in Level /\ b <= Left(Do("pathRest"), Left(m, Left(Do("pathItem"), Left(t, d))))
            BY <2>1, <2>4, <2>6, CostsOfRoutes, TakingLeft, IdlingLeft, CallLeft DEF Level, Budget
        <3>2. QED
            BY <2>1, <3>1, Kinds, CostsOfRoutes, Affords4, Zenon
    <2>8. /\ <<NoComment, l>> \in Seq(Entry) /\ c \in Seq(Entry) /\ <<NoComment, l>> \o c \in Seq(Entry)
          /\ <<t, Do("pathItem"), m, Do("pathRest")>> \in Seq(Entry)
        <3>1. /\ NoComment \in Entry /\ l \in Entry /\ t \in Entry /\ m \in Entry /\ Fold({":"}) \in Entry
              /\ Do("pathItem") \in Entry /\ Do("pathRest") \in Entry
            BY <2>1, Kinds, CostsOfRoutes, Zenon
        <3>2. c \in Seq(Entry)
            <4>1. \A x \in Entry : <<x>> \in Seq(Entry) /\ <<>> \in Seq(Entry)
                OBVIOUS
            <4>2. QED
                BY <2>3, <3>1, <4>1, Zenon
        <3>3. QED
            BY <3>1, <3>2
    <2>9. Affords(<<NoComment, l>> \o c, a - 1, d)
        BY <2>5, <2>6, <2>8, ChainJoin, Zenon DEF Affords
    <2>10. Affords(Segment, a - 1, b)
        BY <2>2, <2>7, <2>8, <2>9, ChainJoin, Zenon DEF Affords
    <2>11. QED
        BY <2>4, <2>10 DEF Level, Budget
<1>3. QED
    BY <1>1, <1>2

LEMMA FitsRouteBodies ==
  /\ Fits("path", ParsePathExpr) /\ Fits("pathRest", PathRest) /\ Fits("pathItem", ParsePathItem)
  /\ Fits("afterPath", AfterPath) /\ Fits("returns", Returns) /\ Fits("semicolon", Semicolon)
  /\ Fits("body", ParseBodyStmt) /\ Fits("bodyRest", BodyRest) /\ Fits("bodyExpr", ParseBodyExpr)
  /\ Fits("bodyElem", BodyElem)
<1>1. /\ Fits("pathRest", <<>>) /\ Fits("pathItem", <<>>) /\ Fits("afterPath", <<>>)
      /\ Fits("semicolon", <<>>)
    BY Fits0 DEF Advancing
<1>2. /\ Fits("path", ParsePathExpr) /\ Fits("pathRest", PathRest) /\ Fits("pathItem", ParsePathItem)
      /\ Fits("afterPath", AfterPath) /\ Fits("semicolon", Semicolon)
    BY <1>1, Kinds, TokenSets, FitRoutes, ZenonT(30)
       DEF ParsePathExpr, PathRest, ParsePathItem, AfterPath, Semicolon
<1>3. Fits("returns", Returns)
  <2> DEFINE l == Look(ItemEnd \cup {"returns", ";"})
             t == Advance({"returns"})
  <2>1. t \in Taking /\ l \in Idling
      BY Kinds, TokenSets, Zenon
  <2>2. \/ Returns = (<<l>> \o <<t, Do("body")>>) \o <<Do("semicolon")>>
        \/ Returns = (<<l>> \o <<>>) \o <<Do("semicolon")>>
      BY Zenon DEF Returns
  <2> HIDE DEF t, l
  <2>1a. l \in Entry /\ t \in Entry /\ Do("body") \in Entry /\ Do("semicolon") \in Entry
      BY <2>1, Kinds, CostsOfRoutes, Zenon
  <2>3. /\ (<<l>> \o <<t, Do("body")>>) \o <<Do("semicolon")>> = <<l, t, Do("body"), Do("semicolon")>>
        /\ (<<l>> \o <<>>) \o <<Do("semicolon")>> = <<l, Do("semicolon")>>
    <3>1. <<l>> \o <<t, Do("body")>> = <<l, t, Do("body")>> /\ <<l>> \o <<>> = <<l>>
        BY <2>1a, Join12
    <3>2. /\ <<l, t, Do("body")>> \o <<Do("semicolon")>> = <<l, t, Do("body"), Do("semicolon")>>
          /\ <<l>> \o <<Do("semicolon")>> = <<l, Do("semicolon")>>
        BY <2>1a, Join31, Join11, ZenonT(40)
    <3>3. QED
        BY <3>1, <3>2, Zenon
  <2>4. QED
      BY <2>1, <2>2, <2>3, FitRoutes, Zenon
<1>4. /\ Fits("body", ParseBodyStmt) /\ Fits("bodyRest", BodyRest) /\ Fits("bodyExpr", ParseBodyExpr)
      /\ Fits("bodyElem", BodyElem)
    BY Kinds, TokenSets, FitRoutes, ZenonT(30) DEF ParseBodyStmt, BodyRest, ParseBodyExpr, BodyElem
<1>5. QED
    BY <1>2, <1>3, <1>4

LEMMA FitsValueBodies ==
  /\ Fits("serverKVs", ServerKVs) /\ Fits("serverKV", ParseAtServerKVExpression)
  /\ Fits("serverValue", ServerValue) /\ Fits("joined", Joined) /\ Fits("commas", Commas)
  /\ Fits("dashes", Dashes) /\ Fits("oneDash", OneDash) /\ Fits("slashes", Slashes)
<1>1. /\ Fits("serverKVs", <<>>) /\ Fits("commas", <<>>) /\ Fits("dashes", <<>>)
      /\ Fits("oneDash", <<>>) /\ Fits("slashes", <<>>)
    BY Fits0 DEF Advancing
<1>2. peek \in {"duration", "int", "string"} => {peek} \subseteq Textual
    BY Zenon DEF Textual
<1>3. Fits("serverKVs", ServerKVs)
  <2> DEFINE l == Look({")"} \cup Ident)
  <2>1. l \in Idling /\ Skip \in Taking
      BY Kinds, TokenSets, Zenon
  <2>2. ServerKVs = <<>> \/ ServerKVs = <<Do("serverKV"), l>> \o <<Do("serverKVs")>>
      BY Zenon DEF ServerKVs, Until
  <2> HIDE DEF l
  <2>3. l \in Entry /\ Do("serverKV") \in Entry /\ Do("serverKVs") \in Entry
      BY <2>1, Kinds, CostsOfValues, Zenon
  <2>4. <<Do("serverKV"), l>> \o <<Do("serverKVs")>> = <<Do("serverKV"), l, Do("serverKVs")>>
      BY <2>3, Join21, Zenon
  <2>5. QED
      BY <1>1, <2>1, <2>2, <2>4, FitValues, Zenon
<1>4. Fits("serverKV", ParseAtServerKVExpression)
  <2> DEFINE t == Advance({")"} \cup Ident)
             u == Advance({":"})
             l == Look({"/", "duration", "int", "string"} \cup Ident)
  <2>1. t \in Taking /\ u \in Taking /\ l \in Idling
      BY Kinds, TokenSets, Zenon
  <2>2. ParseAtServerKVExpression = <<t, u, l, Do("serverValue"), MakeNode>>
      BY Zenon DEF ParseAtServerKVExpression
  <2> HIDE DEF t, u, l
  <2>3. QED
      BY <2>1, <2>2, Kinds, FitValues, Zenon
<1>5. Fits("serverValue", ServerValue)
    BY <1>2, Kinds, TokenSets, FitValues, ZenonT(30) DEF ServerValue
<1>6. /\ Fits("joined", Joined) /\ Fits("commas", Commas) /\ Fits("dashes", Dashes)
      /\ Fits("oneDash", OneDash) /\ Fits("slashes", Slashes)
    BY <1>1, Kinds, TokenSets, FitValues, ZenonT(30) DEF Joined, Commas, Dashes, OneDash, Slashes
<1>7. QED
    BY <1>3, <1>4, <1>5, <1>6

LEMMA FitsTypeBodies ==
  /\ Fits("typeList", ParseTypeExprList) /\ Fits("typeExpr", ParseTypeExpr)
  /\ Fits("assign", Assign) /\ Fits("dataType", ParseDataType) /\ Fits("length", Length)
<1>1. Fits("typeList", <<>>) /\ Fits("assign", <<>>)
    BY Fits0 DEF Advancing
<1>2. Fits("typeList", ParseTypeExprList) /\ Fits("typeExpr", ParseTypeExpr) /\ Fits("assign", Assign)
    BY <1>1, Kinds, TokenSets, FitTypes, ZenonT(30) DEF ParseTypeExprList, ParseTypeExpr, Assign
<1>3. Fits("dataType", ParseDataType)
    BY Kinds, TokenSets, FitTypes, ZenonT(30) DEF ParseDataType
<1>4. Fits("length", Length)
  <2> DEFINE t == Advance({"int", "..."})
             u == Advance({"]"})
  <2>1. t \in Taking /\ u \in Taking
      BY Kinds, TokenSets, Zenon
  <2>2. \/ Length = <<t>> \o <<u, Do("dataType")>>
        \/ Length = <<>> \o <<u, Do("dataType")>>
      BY Zenon DEF Length
  <2> HIDE DEF t, u
  <2>1a. t \in Entry /\ u \in Entry /\ Do("dataType") \in Entry
      BY <2>1, Kinds, CostsOfTypes, Zenon
  <2>3. /\ <<t>> \o <<u, Do("dataType")>> = <<t, u, Do("dataType")>>
        /\ <<>> \o <<u, Do("dataType")>> = <<u, Do("dataType")>>
      BY <2>1a, Join12, Join02, Zenon
  <2>4. Fits("length", <<t, u, Do("dataType")>>) /\ Fits("length", <<u, Do("dataType")>>)
      BY <2>1, Kinds, FitTypes, Zenon
  <2>5. QED
      BY <2>2, <2>3, <2>4, Zenon
<1>5. QED
    BY <1>2, <1>3, <1>4

LEMMA FitsElementBodies ==
  ASSUME NEW breaks
  PROVE  /\ Fits("elems", ParseElemExprList) /\ Fits("elem", ParseElemExpr)
         /\ Fits("elemRest", ElemRest(breaks)) /\ Fits("names", Names) /\ Fits("tag", Tag)
<1>1. Fits("elems", <<>>) /\ Fits("elemRest", <<>>) /\ Fits("names", <<>>) /\ Fits("tag", <<>>)
    BY Fits0 DEF Advancing
<1>2. QED
    BY <1>1, Kinds, TokenSets, FitElements, ZenonT(30)
       DEF ParseElemExprList, ParseElemExpr, ElemRest, Names, Tag

(* Every function fits what is taken for it.                               *)
LEMMA FitsBody ==
  ASSUME NEW f \in ParseFunction, NEW breaks
  PROVE  Fits(f, Body(f, breaks))
<1>1. CASE f \in {"kvs", "imports", "serviceName", "items", "item", "afterItem", "atDoc", "handler", "route"}
    BY <1>1, FitsServiceBodies DEF Body
<1>2. CASE f \in {"path", "pathRest", "segment", "pathItem", "afterPath", "returns", "semicolon",
                  "body", "bodyRest", "bodyExpr", "bodyElem"}
    BY <1>2, FitsRouteBodies, FitsSegment DEF Body
<1>3. CASE f \in {"serverKVs", "serverKV", "serverValue", "joined", "commas", "dashes", "oneDash", "slashes"}
    BY <1>3, FitsValueBodies DEF Body
<1>4. CASE f \in {"typeList", "typeExpr", "assign", "dataType", "length"}
    BY <1>4, FitsTypeBodies DEF Body
<1>5. CASE f \in {"elems", "elem", "elemRest", "names", "tag"}
    BY <1>5, FitsElementBodies DEF Body
<1>6. QED
    BY <1>1, <1>2, <1>3, <1>4, <1>5 DEF ParseFunction

(* A statement may take all the steps but one, for the call of it, and     *)
(* leaves two for the token after it.                                      *)
LEMMA AffordsStatement ==
  Statement \in Seq(Entry) /\ Affords(Statement, Budget - 1, 2)
<1>1. Budget - 1 \in Level /\ 2 \in Level /\ Budget \in Level
    BY DEF Level, Budget
<1>2. ASSUME NEW a \in Budget - 1 .. Budget
      PROVE  ServiceRest \in Seq(Entry) /\ Affords(ServiceRest, a, 2)
  <2> DEFINE t == Fold(Ident)
             u == Advance({"{"})
             v == Advance({"}"})
  <2>1. t \in Taking /\ u \in Taking /\ v \in Taking /\ MakeNode \in Idling
      BY Kinds, TokenSets, Zenon
  <2>2. ServiceRest = <<t, Do("serviceName"), MakeNode, u, Do("items"), v>>
      BY Zenon DEF ServiceRest
  <2> HIDE DEF t, u, v
  <2>3. 2 <= Left(v, Left(Do("items"), Left(u, Left(MakeNode, Left(Do("serviceName"), Left(t, a))))))
    <3>1. Left(t, a) = 18 /\ Left(Do("serviceName"), 18) = 16 /\ Left(MakeNode, 16) = 15
        BY <2>1, CostsOfServices, TakingLeft, IdlingLeft, CallLeft DEF Budget
    <3>2. Left(u, 15) = 18 /\ Left(Do("items"), 18) = 1 /\ Left(v, 1) = 18
        BY <2>1, CostsOfServices, TakingLeft, CallLeft DEF Budget
    <3>3. QED
        BY <3>1, <3>2
  <2>4. t \in Entry /\ u \in Entry /\ v \in Entry /\ MakeNode \in Entry
      BY <2>1, Kinds
  <2>5. <<t, Do("serviceName"), MakeNode, u, Do("items"), v>> \in Seq(Entry)
      BY <2>4, CostsOfServices
  <2>6. a \in Level
      BY DEF Level, Budget
  <2>7. QED
      BY <1>1, <2>2, <2>3, <2>4, <2>5, <2>6, CostsOfServices, Affords6, Zenon
<1>3. ParseService \in Seq(Entry) /\ Affords(ParseService, Budget - 1, 2)
  <2> DEFINE t == Advance({"("})
             u == Advance({")"})
             v == Advance({"service"})
  <2>1. t \in Taking /\ u \in Taking /\ v \in Taking
      BY Kinds, TokenSets, Zenon
  <2>2. \/ ParseService = ServiceRest
        \/ ParseService = (<<t, Do("serverKVs"), u>> \o <<v>>) \o ServiceRest
      BY Zenon DEF ParseService, ParseAtServerStmt
  <2> HIDE DEF t, u, v
  <2>3. t \in Entry /\ u \in Entry /\ v \in Entry /\ Do("serverKVs") \in Entry
      BY <2>1, Kinds, CostsOfValues
  <2>4. /\ <<t, Do("serverKVs"), u>> \o <<v>> = <<t, Do("serverKVs"), u, v>>
        /\ <<t, Do("serverKVs"), u, v>> \in Seq(Entry)
      BY <2>3, Join31
  <2>5. Budget <= Left(v, Left(u, Left(Do("serverKVs"), Left(t, Budget - 1))))
      BY <2>1, CostsOfValues, TakingLeft, CallLeft DEF Budget
  <2>6. Affords(<<t, Do("serverKVs"), u, v>>, Budget - 1, Budget)
      BY <1>1, <2>3, <2>5, Affords4, Zenon
  <2>7. Affords(ServiceRest, Budget - 1, 2) /\ Affords(ServiceRest, Budget, 2) /\ ServiceRest \in Seq(Entry)
      BY <1>2 DEF Budget
  <2>8. /\ <<t, Do("serverKVs"), u, v>> \o ServiceRest \in Seq(Entry)
        /\ Affords(<<t, Do("serverKVs"), u, v>> \o ServiceRest, Budget - 1, 2)
    <3>1. <<t, Do("serverKVs"), u, v>> \o ServiceRest \in Seq(Entry)
        BY <2>4, <2>7
    <3>2. QED
        BY <2>4, <2>6, <2>7, <3>1, ChainJoin, Zenon DEF Affords
  <2>9. QED
      BY <2>2, <2>4, <2>7, <2>8, Zenon
<1>4. ASSUME NEW t \in Taking, NEW u \in Taking, NEW l \in Idling
      PROVE  /\ <<t, u>> \in Seq(Entry) /\ Affords(<<t, u>>, Budget - 1, 2)
             /\ <<l, t>> \in Seq(Entry) /\ Affords(<<l, t>>, Budget - 1, 2)
             /\ <<l>> \in Seq(Entry) /\ Affords(<<l>>, Budget - 1, 2)
             /\ \A f \in {"kvs", "imports"} :
                  <<t, Do(f), u>> \in Seq(Entry) /\ Affords(<<t, Do(f), u>>, Budget - 1, 2)
  <2>1. t \in Entry /\ u \in Entry /\ l \in Entry
      BY Kinds
  <2>2. \A f \in {"kvs", "imports"} : Do(f) \in Entry
      BY CostsOfServices
  <2>3. 2 <= Left(u, Left(t, Budget - 1)) /\ 2 <= Left(t, Left(l, Budget - 1)) /\ 2 <= Left(l, Budget - 1)
      BY TakingLeft, IdlingLeft DEF Budget
  <2>4. \A f \in {"kvs", "imports"} : 2 <= Left(u, Left(Do(f), Left(t, Budget - 1)))
      BY CostsOfServices, TakingLeft, CallLeft DEF Budget
  <2>5. Affords(<<t, u>>, Budget - 1, 2) /\ Affords(<<l, t>>, Budget - 1, 2) /\ Affords(<<l>>, Budget - 1, 2)
      BY <1>1, <2>1, <2>3, Affords1, Affords2, Zenon
  <2>6. \A f \in {"kvs", "imports"} : Affords(<<t, Do(f), u>>, Budget - 1, 2)
      BY <1>1, <2>1, <2>2, <2>4, Affords3, Zenon
  <2>7. QED
      BY <2>1, <2>2, <2>5, <2>6
<1>5. ASSUME NEW t \in Taking, NEW u \in Taking, NEW l \in Idling
      PROVE  /\ <<t, l, Do("typeList"), u>> \in Seq(Entry) /\ Affords(<<t, l, Do("typeList"), u>>, Budget - 1, 2)
             /\ \A f \in {"typeExpr", "unexpected"} : <<Do(f)>> \in Seq(Entry) /\ Affords(<<Do(f)>>, Budget - 1, 2)
  <2>1. t \in Entry /\ u \in Entry /\ l \in Entry /\ Do("typeList") \in Entry
      BY Kinds, CostsOfTypes
  <2>2. \A f \in {"typeExpr", "unexpected"} : Do(f) \in Entry
      BY CostsOfTypes, CallEntries
  <2>3. 2 <= Left(u, Left(Do("typeList"), Left(l, Left(t, Budget - 1))))
      BY CostsOfTypes, TakingLeft, IdlingLeft, CallLeft DEF Budget
  <2>4. FunctionCost("unexpected") = 2 /\ FunctionBack("unexpected") = 0 /\ "unexpected" \in Advancing
      BY DEF FunctionCost, FunctionBack, Advancing
  <2>5. \A f \in {"typeExpr", "unexpected"} : 2 <= Left(Do(f), Budget - 1)
      BY <2>4, CostsOfTypes, CallLeft DEF Budget
  <2>6. Affords(<<t, l, Do("typeList"), u>>, Budget - 1, 2)
      BY <1>1, <2>1, <2>3, Affords4, Zenon
  <2>7. \A f \in {"typeExpr", "unexpected"} : Affords(<<Do(f)>>, Budget - 1, 2)
      BY <1>1, <2>2, <2>5, Affords1, Zenon
  <2>8. QED
      BY <2>1, <2>2, <2>6, <2>7
<1>6. /\ ParseSyntaxStmt \in Seq(Entry) /\ Affords(ParseSyntaxStmt, Budget - 1, 2)
      /\ ParseInfoStmt \in Seq(Entry) /\ Affords(ParseInfoStmt, Budget - 1, 2)
      /\ ParseImportStmt \in Seq(Entry) /\ Affords(ParseImportStmt, Budget - 1, 2)
    BY <1>4, Kinds, TokenSets, ZenonT(30) DEF ParseSyntaxStmt, ParseInfoStmt, ParseImportStmt
<1>7. ParseTypeStmt \in Seq(Entry) /\ Affords(ParseTypeStmt, Budget - 1, 2)
    BY <1>4, <1>5, Kinds, TokenSets, ZenonT(30) DEF ParseTypeStmt
<1>8. <<Do("unexpected")>> \in Seq(Entry) /\ Affords(<<Do("unexpected")>>, Budget - 1, 2)
    BY <1>5, Kinds
<1>9. QED
    BY <1>3, <1>6, <1>7, <1>8 DEF Statement

(* The steps since the last token, with those that what is on the stack    *)
(* may take until it reads one or is done.                                 *)
IdleInv ==
  /\ idle \in Level
  /\ outcome = "parsing" =>
       \/ todo = <<<<"init", 2>>>> /\ peek # "eof"
       \/ todo = <<<<"init", 1>>>> /\ idle = 0
       \/ todo = <<<<"top", 0>>>> /\ idle < Budget /\ (cur # "eof" => idle = 0)
       \/ \E p \in Level : idle + p <= Budget /\ Affords(todo, p, 0)

LEMMA EntriesOnTop ==
  ASSUME NEW s, OnTop(s)
  PROVE  s \in Seq(Entry)
<1>1. \A r \in Stack : r \in Seq(Entry)
    BY DEF Stack, Entry
<1>2. \A r \in Stack : <<Skip>> \o r \in Seq(Entry)
    BY <1>1 DEF Entry
<1>3. QED
    BY <1>1, <1>2 DEF OnTop

LEMMA TakesASteps ==
  ASSUME NEW x, NEW a \in Level, NEW b \in Level, b <= Left(x, a)
  PROVE  a >= 1 /\ x[1] \notin {"init", "top"} /\ (x[1] = "next" => a >= 2)
<1>1. \A f : FunctionCost(f) \in 2 .. 6
    BY FunctionBounds
<1>2. Cost(x) \in 1 .. 19
    BY <1>1 DEF Cost, Budget
<1>3. a >= Cost(x)
    BY <1>2 DEF Left, Level, Budget
<1>4. QED
    BY <1>2, <1>3 DEF Cost, Level, Budget

(* The entry on top of the stack takes its steps, and what is left of them *)
(* is for the rest.                                                        *)
LEMMA IdleTop ==
  ASSUME CommentsInv, IdleInv, Parsing, Op \notin {"init", "top"}
  PROVE  \E p, q \in Level : /\ idle + p <= Budget /\ q <= Left(Head(todo), p) /\ Affords(Rest, q, 0)
                             /\ p >= 1 /\ (Op = "next" => p >= 2)
<1>1. todo # <<>> /\ outcome = "parsing" /\ todo \in Seq(Entry)
    BY EntriesOnTop DEF Parsing, CommentsInv
<1>2. PICK p \in Level : idle + p <= Budget /\ Affords(todo, p, 0)
    BY <1>1 DEF IdleInv, Op
<1>3. PICK q \in Level : <<Head(todo), p, q>> \in IdleSteps /\ Affords(Rest, q, 0)
    BY <1>1, <1>2, ChainHead DEF Affords, Rest
<1>4. q <= Left(Head(todo), p)
    BY <1>3 DEF IdleSteps
<1>5. p >= 1 /\ (Op = "next" => p >= 2)
    BY <1>4, TakesASteps DEF Op
<1>6. QED
    BY <1>2, <1>3, <1>4, <1>5

LEMMA IdleInitInv == ParserInit => IdleInv
<1> SUFFICES ASSUME ParserInit PROVE IdleInv
    OBVIOUS
<1>1. todo = <<<<"init", 2>>>> /\ peek # "eof" /\ idle = 0
    BY DEF ParserInit
<1>2. 0 \in Level
    BY DEF Level, Budget
<1>3. QED
    BY <1>1, <1>2, Zenon DEF IdleInv

LEMMA IdleStep == CommentsInv /\ IdleInv /\ [ParserNext]_parserVars => IdleInv'
<1> SUFFICES ASSUME CommentsInv, IdleInv, [ParserNext]_parserVars PROVE IdleInv'
    OBVIOUS
<1>1. idle \in Level
    BY DEF IdleInv
<1>2. ASSUME Fails, idle' \in Level PROVE IdleInv'
    BY <1>2 DEF Fails, IdleInv
<1>3. ASSUME NEW p \in Level, idle' \in Level, idle' + p <= Budget, Affords(todo', p, 0) PROVE IdleInv'
    BY <1>3 DEF IdleInv
(* A token is read: it is not the end of the file.                         *)
<1>4. ASSUME NEW fold, NextToken(fold), peek # "eof", Affords(Rest, Budget, 0) \/ \E q \in Level : Affords(Rest, q, 0),
             IF peek' = ErrorToken THEN Fails ELSE Goes(Rest)
      PROVE  IdleInv'
  <2>1. idle' = 0 /\ idle' \in Level
      BY <1>4 DEF NextToken, Level, Budget
  <2>2. PICK q \in Level : Affords(Rest, q, 0)
      BY <1>4 DEF Level, Budget
  <2>3. CASE Fails
      BY <1>2, <2>1, <2>3
  <2>4. CASE Goes(Rest)
      BY <1>3, <2>1, <2>2, <2>4 DEF Goes, Level, Budget
  <2>5. QED
      BY <1>4, <2>3, <2>4
<1>5. CASE Start
  <2>1. Parsing /\ Op = "init" /\ NextToken(FALSE)
      BY <1>5 DEF Start
  <2>2. \/ todo = <<<<"init", 2>>>> /\ peek # "eof"
        \/ todo = <<<<"init", 1>>>> /\ idle = 0
    <3>1. todo \in Seq(Entry) /\ todo # <<>> /\ outcome = "parsing"
        BY <2>1, EntriesOnTop DEF CommentsInv, Parsing
    <3>2. ASSUME NEW p \in Level, Affords(todo, p, 0) PROVE FALSE
      <4>1. PICK q \in Level : <<Head(todo), p, q>> \in IdleSteps
          BY <3>1, <3>2, ChainHead DEF Affords
      <4>2. QED
          BY <2>1, <4>1, TakesASteps DEF IdleSteps, Op
    <3>3. todo # <<<<"top", 0>>>>
        BY <2>1 DEF Op
    <3>4. QED
        BY <3>1, <3>2, <3>3 DEF IdleInv
  <2>3. CASE peek' = ErrorToken
    <3>1. Fails /\ idle' \in Level
        BY <1>1, <1>5, <2>1, <2>2, <2>3 DEF Start, NextToken, Level, Budget, AtEof
    <3>2. QED
        BY <1>2, <3>1
  <2>4. CASE peek' # ErrorToken /\ todo = <<<<"init", 2>>>>
    <3>1. todo' = <<<<"init", 1>>>>
        BY <1>5, <2>4 DEF Start, Goes, Arg
    <3>2. idle' = 0
        BY <2>1, <2>2, <2>4 DEF NextToken
    <3>3. QED
        BY <3>1, <3>2 DEF IdleInv, Level, Budget
  <2>5. CASE peek' # ErrorToken /\ todo = <<<<"init", 1>>>>
    <3>1. todo' = <<<<"top", 0>>>>
        BY <1>5, <2>5 DEF Start, Goes, Arg
    <3>2. idle' \in 0 .. 1 /\ (cur' # "eof" => idle' = 0)
        BY <2>1, <2>2, <2>5 DEF NextToken
    <3>3. idle' \in Level /\ idle' < Budget
        BY <3>2 DEF Level, Budget
    <3>4. QED
        BY <3>1, <3>2, <3>3, Zenon DEF IdleInv
  <2>6. QED
      BY <2>2, <2>3, <2>4, <2>5
<1>6. CASE Parse
  <2>1. Parsing /\ Op = "top" /\ idle' = idle + 1 /\ todo # <<>> /\ outcome = "parsing"
      BY <1>6 DEF Parse, Parsing
  <2>2. idle < Budget /\ (cur # "eof" => idle = 0)
    <3>1. todo \in Seq(Entry)
        BY EntriesOnTop DEF CommentsInv
    <3>2. ASSUME NEW p \in Level, Affords(todo, p, 0) PROVE FALSE
      <4>1. PICK q \in Level : <<Head(todo), p, q>> \in IdleSteps
          BY <2>1, <3>1, <3>2, ChainHead DEF Affords
      <4>2. QED
          BY <2>1, <4>1, TakesASteps DEF IdleSteps, Op
    <3>3. todo # <<<<"init", 2>>>> /\ todo # <<<<"init", 1>>>>
        BY <2>1 DEF Op
    <3>4. QED
        BY <2>1, <3>2, <3>3 DEF IdleInv
  <2>3. idle' \in Level
      BY <1>1, <2>1, <2>2 DEF Level, Budget
  <2>4. CASE cur = "eof"
    <3>1. outcome' = "ast"
        BY <1>6, <2>4 DEF Parse
    <3>2. QED
        BY <2>3, <3>1 DEF IdleInv
  <2>5. CASE cur # "eof"
    <3>1. todo' = Statement \o <<<<"next", 0>>>>
        BY <1>6, <2>5 DEF Parse, Goes
    <3>2. Affords(<<<<"next", 0>>>>, 2, 0) /\ <<<<"next", 0>>>> \in Seq(Entry)
      <4>1. <<"next", 0>> \in Entry
          BY Entries DEF Entry
      <4>2. 0 <= Left(<<"next", 0>>, 2)
          BY DEF Left, Cost, Back, ReadsToken, Budget
      <4>3. QED
          BY <4>1, <4>2, Affords1 DEF Level, Budget
    <3>3. Affords(todo', Budget - 1, 0)
        BY <3>1, <3>2, AffordsStatement, ChainJoin, Zenon DEF Affords
    <3>4. Budget - 1 \in Level /\ idle' + (Budget - 1) <= Budget
        BY <2>1, <2>2, <2>5 DEF Level, Budget
    <3>5. QED
        BY <1>3, <2>3, <3>3, <3>4
  <2>6. QED
      BY <2>4, <2>5
<1>7. ASSUME Parsing, Op \notin {"init", "top"}
      PROVE  \E p, q \in Level : /\ idle + p <= Budget /\ q <= Left(Head(todo), p) /\ Affords(Rest, q, 0)
                                 /\ p >= 1 /\ (Op = "next" => p >= 2)
    BY <1>7, IdleTop
<1>8. CASE NextStatement
  <2>1. Parsing /\ Op = "next" /\ NextToken(FALSE)
      BY <1>8 DEF NextStatement
  <2>2. idle + 2 <= Budget
      BY <1>1, <1>7, <2>1 DEF Level, Budget
  <2>3. idle' \in Level /\ idle' < Budget /\ (cur' # "eof" => idle' = 0)
      BY <1>1, <2>1, <2>2 DEF NextToken, Level, Budget
  <2>4. CASE Fails
      BY <1>2, <2>3, <2>4
  <2>5. CASE Goes(<<<<"top", 0>>>>)
      BY <2>3, <2>5 DEF Goes, IdleInv
  <2>6. QED
      BY <1>8, <2>4, <2>5 DEF NextStatement
<1>9. CASE Call
  <2>1. Parsing /\ Op = "do" /\ Arg \notin {"panic", "unexpected"} /\ idle' = idle + 1
      BY <1>9 DEF Call
  <2>2. PICK breaks : Goes(Body(Arg, breaks) \o Rest)
      BY <1>9 DEF Call
  <2>3. PICK p, q \in Level : /\ idle + p <= Budget /\ q <= Left(Head(todo), p) /\ Affords(Rest, q, 0) /\ p >= 1
      BY <1>7, <2>1
  <2>4. Arg \in ParseFunction /\ Rest \in Seq(Entry) /\ Head(todo) = Do(Arg)
    <3>1. OnTop(todo) /\ todo # <<>>
        BY <2>1 DEF CommentsInv, Parsing
    <3>2. Arg \in Callable /\ Rest \in Stack
        BY <2>1, <3>1, TopIs
    <3>3. Head(todo) \in Entry
        BY <3>1, EntriesOnTop, HeadTailProperties
    <3>4. Head(todo) = Do(Arg)
        BY <2>1, <3>3, SkipIs DEF Entry, StackEntry, Do, Op, Arg
    <3>5. QED
        BY <2>1, <3>2, <3>4 DEF Callable, Stack, Entry
  <2>5. PICK r \in Level : r < p /\ Affords(Body(Arg, breaks), r, q)
      BY <2>3, <2>4, FitsBody DEF Fits
  <2>6. Body(Arg, breaks) \in Seq(Entry)
      BY <2>4, BodyStack, EntriesOnTop
  <2>7. Affords(todo', r, 0)
      BY <2>2, <2>3, <2>4, <2>5, <2>6, ChainJoin DEF Affords, Goes
  <2>8. idle' \in Level /\ idle' + r <= Budget
      BY <1>1, <2>1, <2>3, <2>5 DEF Level, Budget
  <2>9. QED
      BY <1>3, <2>7, <2>8
<1>10. CASE Panic
  <2>1. Parsing /\ Op = "do" /\ outcome' = "panic" /\ idle' = idle + 1
      BY <1>10 DEF Panic, Idles
  <2>2. idle' \in Level
      BY <1>1, <1>7, <2>1 DEF Level, Budget
  <2>3. QED
      BY <2>1, <2>2 DEF IdleInv
<1>11. CASE Take
  <2>1. Parsing /\ Op \in {"advance", "fold", "drop"} /\ peek \in Arg /\ NextToken(Op # "advance")
      BY <1>11 DEF Take
  <2>2. peek # "eof"
    <3>1. Head(todo) \in Entry /\ todo # <<>>
        BY <2>1, EntriesOnTop, HeadTailProperties DEF CommentsInv, Parsing
    <3>2. Arg \subseteq Readable
        <4>1. Textual \subseteq Readable
            BY DEF Textual, Readable, Token, Ident, GoKeyword, Opening, Closing, Punct, Other
        <4>2. QED
            BY <2>1, <3>1, <4>1, SkipIs DEF Entry, StackEntry, Op, Arg
    <3>3. QED
        BY <2>1, <3>2 DEF Readable
  <2>3. \E q \in Level : Affords(Rest, q, 0)
      BY <1>7, <2>1
  <2>4. QED
      BY <1>4, <1>11, <2>1, <2>2, <2>3 DEF Take
<1>12. CASE SkipSemicolon
  <2>1. Parsing /\ Op = "skip" /\ NextToken(TRUE) /\ Goes(Rest)
      BY <1>12 DEF SkipSemicolon
  <2>2. peek # "eof"
    <3>1. peek \in Semicolons
        BY <2>1, TopIs DEF CommentsInv, Parsing
    <3>2. QED
        BY <3>1, Zenon DEF Semicolons
  <2>3. PICK q \in Level : Affords(Rest, q, 0)
      BY <1>7, <2>1
  <2>4. idle' = 0 /\ todo' = Rest
      BY <2>1, <2>2 DEF NextToken, Goes
  <2>5. QED
      BY <1>3, <2>3, <2>4 DEF Level, Budget
<1>13. ASSUME Parsing, Op \in {"look", "check", "node"}, Goes(Rest), idle' = idle + 1 PROVE IdleInv'
  <2>1. PICK p, q \in Level : /\ idle + p <= Budget /\ q <= Left(Head(todo), p) /\ Affords(Rest, q, 0) /\ p >= 1
      BY <1>7, <1>13
  <2>2. Head(todo) \in Idling
    <3>1. Head(todo) \in Entry
        BY <1>13, EntriesOnTop, HeadTailProperties DEF CommentsInv, Parsing
    <3>2. QED
        BY <1>13, <3>1 DEF Idling, Op
  <2>3. q <= p - 1
      BY <2>1, <2>2, IdlingLeft DEF Level, Budget
  <2>4. idle' \in Level /\ idle' + q <= Budget /\ Affords(todo', q, 0)
      BY <1>1, <1>13, <2>1, <2>3 DEF Level, Budget, Goes
  <2>5. QED
      BY <1>3, <2>4
<1>14. CASE Pass
  <2>1. Op \in {"look", "check"}
      BY <1>14 DEF Pass, NotKeyword, NoComment, Op
  <2>2. QED
      BY <1>13, <1>14, <2>1 DEF Pass, Idles
<1>15. CASE FoldTokens
    BY <1>13, <1>15 DEF FoldTokens
<1>16. CASE SyntaxError
  <2>1. Parsing /\ Fails /\ idle' = idle + 1 /\ Op \notin {"init", "top"}
      BY <1>16 DEF SyntaxError, Idles, NotKeyword, NoComment, Op
  <2>2. idle' \in Level
      BY <1>1, <1>7, <2>1 DEF Level, Budget
  <2>3. QED
      BY <1>2, <2>1, <2>2
<1>17. CASE UNCHANGED parserVars
    BY <1>17 DEF parserVars, IdleInv
<1>18. QED
    BY <1>5, <1>6, <1>8, <1>9, <1>10, <1>11, <1>12, <1>14, <1>15, <1>16, <1>17 DEF ParserNext

-----------------------------------------------------------------------------
(* ApiParser: brackets.                                                    *)

(* How far the brackets of a statement are when an entry of the stack is   *)
(* its turn: those that are open, and whether the entry takes a token that *)
(* was looked at and is no ")", or a "}" may stand for the handler.        *)
Spot == Seq(Opening) \X {"plain", "sure", "handler"}
Plain(o) == <<o, "plain">>
Sure(o) == <<o, "sure">>
Handling(o) == <<o, "handler">>

Calm == Readable \ (Opening \cup Closing)
CalmFunction == Callable \ {"bodyRest", "length", "serverKV", "handler"}
Quiet == {x \in Entry :
            \/ x[1] \in {"look", "check", "node", "skip"}
            \/ x[1] \in {"advance", "fold", "drop"} /\ x[2] \subseteq Calm
            \/ x[1] = "do" /\ x[2] \in CalmFunction}

Paren == "("
Square == "["
EndParen == ")"
Brace == "}"
NameOrStop == {")"} \cup Ident
HandlerOrBrace == {"@handler", "}"}
NextEntry == <<"next", 0>>

(* An entry of the stack opens a bracket, or closes the last one, or has   *)
(* in the end done neither.                                                *)
Moves(x, p, q) ==
  \E o \in Seq(Opening) :
    \/ x \in Quiet /\ p = Plain(o) /\ q = Plain(o)
    \/ \E c \in Closing : x = Advance({Closes(c)}) /\ p = Plain(o) /\ q = Plain(Append(o, Closes(c)))
    \/ \E c \in Closing : x = Advance({c}) /\ p = Plain(Append(o, Closes(c))) /\ q = Plain(o)
    \/ x = Do("bodyRest") /\ p = Plain(Append(o, Paren)) /\ q = Plain(o)
    \/ x = Do("length") /\ p = Plain(Append(o, Square)) /\ q = Plain(o)
    \/ x \in {Do("serverKV"), Advance(NameOrStop)} /\ p = Sure(o) /\ q = Plain(o)
    \/ x = Advance(HandlerOrBrace) /\ p = Plain(o) /\ q = Handling(o)
    \/ x = Do("handler") /\ p = Handling(o) /\ q = Plain(o)
    \/ x = NextEntry /\ p = Plain(<<>>) /\ q = Plain(<<>>)
BracketSteps == {t \in Entry \X Spot \X Spot : Moves(t[1], t[2], t[3])}
Passes(s, p, q) == Chained(BracketSteps, Spot, s, p, q)

LEMMA Brackets ==
  /\ \A c \in Closing : Closes(c) \in Opening /\ c \notin Opening /\ {c} \subseteq Readable /\ {Closes(c)} \subseteq Readable
  /\ \A c \in Opening : c \notin Closing
<1>1. EndParen \in Closing /\ Brace \in Closing /\ "]" \in Closing /\ \A c \in Closing : c \in {EndParen, Brace, "]"}
    BY Zenon DEF Closing, EndParen, Brace
<1>2. Closes(EndParen) = Paren /\ Closes("]") = Square /\ Closes(Brace) = "{"
    BY Zenon DEF Closes, EndParen, Brace, Paren, Square
<1>3. \A c \in Closing : Closes(c) \in Opening
    BY <1>1, <1>2, Zenon DEF Opening, Paren, Square
<1>4. \A c \in Opening : c \notin Closing
    BY Zenon DEF Opening, Closing
<1>5. \A c \in Opening \cup Closing : c \in Readable
    BY Zenon DEF Opening, Closing, Readable, Token
<1>6. QED
    BY <1>3, <1>4, <1>5

LEMMA Pairs ==
  /\ EndParen \in Closing /\ Closes(EndParen) = Paren /\ Paren \in Opening
  /\ "]" \in Closing /\ Closes("]") = Square /\ Square \in Opening
  /\ Brace \in Closing /\ Closes(Brace) = "{" /\ "{" \in Opening
BY Zenon DEF Closing, EndParen, Brace, Closes, Paren, Square, Opening

LEMMA Places ==
  ASSUME NEW o \in Seq(Opening)
  PROVE  /\ Plain(o) \in Spot /\ Sure(o) \in Spot /\ Handling(o) \in Spot
         /\ \A c \in Opening : Append(o, c) \in Seq(Opening) /\ Plain(Append(o, c)) \in Spot
<1>1. \A r \in Seq(Opening) : Plain(r) \in Spot /\ Sure(r) \in Spot /\ Handling(r) \in Spot
    BY Zenon DEF Spot, Plain, Sure, Handling
<1>2. \A c \in Opening : Append(o, c) \in Seq(Opening)
    OBVIOUS
<1>3. QED
    BY <1>1, <1>2

LEMMA NoneOpen == <<>> \in Seq(Opening) /\ Plain(<<>>) \in Spot
<1>1. <<>> \in Seq(Opening)
    OBVIOUS
<1>2. QED
    BY <1>1, Places

LEMMA StepOf ==
  ASSUME NEW x \in Entry, NEW p \in Spot, NEW q \in Spot, Moves(x, p, q)
  PROVE  <<x, p, q>> \in BracketSteps
BY DEF BracketSteps

(* What each entry does to the brackets.                                   *)
LEMMA Steps ==
  ASSUME NEW o \in Seq(Opening)
  PROVE  /\ \A x \in Quiet : <<x, Plain(o), Plain(o)>> \in BracketSteps
         /\ \A c \in Closing :
              /\ <<Advance({Closes(c)}), Plain(o), Plain(Append(o, Closes(c)))>> \in BracketSteps
              /\ <<Advance({c}), Plain(Append(o, Closes(c))), Plain(o)>> \in BracketSteps
         /\ <<Do("bodyRest"), Plain(Append(o, Paren)), Plain(o)>> \in BracketSteps
         /\ <<Do("length"), Plain(Append(o, Square)), Plain(o)>> \in BracketSteps
         /\ <<Do("serverKV"), Sure(o), Plain(o)>> \in BracketSteps
         /\ <<Advance(NameOrStop), Sure(o), Plain(o)>> \in BracketSteps
         /\ <<Advance(HandlerOrBrace), Plain(o), Handling(o)>> \in BracketSteps
         /\ <<Do("handler"), Handling(o), Plain(o)>> \in BracketSteps
<1>1. \A x \in Quiet : x \in Entry
    BY DEF Quiet
<1>2. /\ Do("bodyRest") \in Entry /\ Do("length") \in Entry /\ Do("serverKV") \in Entry /\ Do("handler") \in Entry
      /\ \A T : T \subseteq Readable => Advance(T) \in Entry
    BY Entries, Functions DEF Entry
<1>3. NameOrStop \subseteq Readable /\ HandlerOrBrace \subseteq Readable
    BY TokenSets, Zenon DEF NameOrStop, HandlerOrBrace
<1>4. \A x \in Quiet : Moves(x, Plain(o), Plain(o))
    BY Zenon DEF Moves
<1>5. \A c \in Closing : /\ Moves(Advance({Closes(c)}), Plain(o), Plain(Append(o, Closes(c))))
                         /\ Moves(Advance({c}), Plain(Append(o, Closes(c))), Plain(o))
    BY Zenon DEF Moves
<1>6. Moves(Do("bodyRest"), Plain(Append(o, Paren)), Plain(o)) /\ Moves(Do("length"), Plain(Append(o, Square)), Plain(o))
    BY Zenon DEF Moves
<1>7. /\ Moves(Do("serverKV"), Sure(o), Plain(o)) /\ Moves(Advance(NameOrStop), Sure(o), Plain(o))
      /\ Moves(Advance(HandlerOrBrace), Plain(o), Handling(o)) /\ Moves(Do("handler"), Handling(o), Plain(o))
    BY Zenon DEF Moves
<1>8. \A x \in Quiet : <<x, Plain(o), Plain(o)>> \in BracketSteps
    BY <1>1, <1>4, Places, StepOf
<1>9. ASSUME NEW c \in Closing
      PROVE  /\ <<Advance({Closes(c)}), Plain(o), Plain(Append(o, Closes(c)))>> \in BracketSteps
             /\ <<Advance({c}), Plain(Append(o, Closes(c))), Plain(o)>> \in BracketSteps
  <2>1. Closes(c) \in Opening /\ Advance({c}) \in Entry /\ Advance({Closes(c)}) \in Entry
      BY <1>2, Brackets
  <2>2. Plain(o) \in Spot /\ Plain(Append(o, Closes(c))) \in Spot
      BY <2>1, Places
  <2>3. QED
      BY <1>5, <2>1, <2>2, StepOf
<1>10. QED
    BY <1>2, <1>3, <1>6, <1>7, <1>8, <1>9, Places, Pairs, StepOf

(* Entries that touch no bracket: a token that is none, a look at one, a   *)
(* function that gives back the brackets as it found them.                 *)
LEMMA QuietEntries ==
  /\ \A T : T \subseteq Calm => Advance(T) \in Quiet
  /\ \A T : T \subseteq Readable => Look(T) \in Quiet
  /\ \A T : T \subseteq Textual \cap Calm => Fold(T) \in Quiet /\ Drop(T) \in Quiet
  /\ \A f \in CalmFunction : Do(f) \in Quiet
  /\ NotKeyword \in Quiet /\ NoComment \in Quiet /\ MakeNode \in Quiet /\ Skip \in Quiet
<1>1. /\ \A T : /\ Advance(T)[1] = "advance" /\ Advance(T)[2] = T /\ Look(T)[1] = "look"
                /\ Fold(T)[1] = "fold" /\ Fold(T)[2] = T /\ Drop(T)[1] = "drop" /\ Drop(T)[2] = T
      /\ \A f : Do(f)[1] = "do" /\ Do(f)[2] = f
      /\ NotKeyword[1] = "check" /\ NoComment[1] = "check" /\ MakeNode[1] = "node"
    BY DEF Advance, Look, Fold, Drop, Do, NotKeyword, NoComment, MakeNode
<1>2. \A T : T \subseteq Calm => T \subseteq Readable
    BY DEF Calm
<1>3. \A T : T \subseteq Textual \cap Calm => T \subseteq Textual /\ T \subseteq Calm
    OBVIOUS
<1>4. \A f \in CalmFunction : Do(f) \in StackEntry
    BY DEF CalmFunction, StackEntry, Do
<1>5. \A T : T \subseteq Calm => Advance(T) \in Quiet
  <2>1. \A T : T \subseteq Calm => Advance(T) \in Entry
      BY <1>2, Entries DEF Entry
  <2>2. QED
      BY <1>1, <2>1, ZenonT(40) DEF Quiet
<1>6. \A T : T \subseteq Readable => Look(T) \in Quiet
    BY <1>1, Entries, Zenon DEF Quiet, Entry
<1>7. \A T : T \subseteq Textual \cap Calm => Fold(T) \in Quiet /\ Drop(T) \in Quiet
  <2>1. \A T : T \subseteq Textual \cap Calm => Fold(T) \in Entry /\ Drop(T) \in Entry
      BY <1>3, Entries DEF Entry
  <2>2. ASSUME NEW T, T \subseteq Textual \cap Calm
        PROVE  Fold(T) \in Quiet /\ Drop(T) \in Quiet
    <3>1. /\ Fold(T) \in Entry /\ Fold(T)[1] = "fold" /\ Fold(T)[2] \subseteq Calm
          /\ Drop(T) \in Entry /\ Drop(T)[1] = "drop" /\ Drop(T)[2] \subseteq Calm
        BY <1>1, <1>3, <2>1, <2>2
    <3>2. QED
        BY <3>1, Zenon DEF Quiet
  <2>3. QED
      BY <2>2
<1>8. \A f \in CalmFunction : Do(f) \in Quiet
    BY <1>1, <1>4, Zenon DEF Quiet, Entry
<1>9. NotKeyword \in Quiet /\ NoComment \in Quiet /\ MakeNode \in Quiet
    BY <1>1, Entries, Zenon DEF Quiet, Entry
<1>10. Skip \in Quiet
    BY SkipIs, Zenon DEF Quiet, Entry
<1>11. QED
    BY <1>5, <1>6, <1>7, <1>8, <1>9, <1>10

LEMMA CalmSets ==
  /\ Ident \subseteq Calm /\ {":"} \subseteq Calm /\ {"string", "raw"} \cup Ident \subseteq Calm
  /\ {"string"} \subseteq Calm /\ {"="} \subseteq Calm /\ {"@doc"} \subseteq Calm /\ HttpMethods \subseteq Calm
  /\ {"returns"} \subseteq Calm /\ {"*"} \subseteq Calm /\ {"*"} \cup Ident \subseteq Calm
  /\ {"any"} \subseteq Calm /\ {"map"} \subseteq Calm /\ {"interface{}"} \subseteq Calm
  /\ {"int", "..."} \subseteq Calm /\ {"raw"} \subseteq Calm /\ {"service"} \subseteq Calm
BY ZenonT(40) DEF Calm, Readable, Token, Ident, GoKeyword, Opening, Closing, Punct, Other, HttpMethods

LEMMA CalmFolds ==
  LET C == Textual \cap Calm
  IN  /\ Ident \subseteq C /\ {"-"} \subseteq C /\ {"api"} \subseteq C /\ {"/"} \subseteq C /\ {":"} \subseteq C
      /\ {"int"} \cup Ident \subseteq C /\ {","} \subseteq C /\ {"-", "."} \subseteq C
      /\ peek \in {"duration", "int", "string"} => {peek} \subseteq C
BY ZenonT(40) DEF Calm, Readable, Token, Ident, GoKeyword, Opening, Closing, Punct, Other, Textual

LEMMA CalmFunctions ==
  /\ "kvs" \in CalmFunction /\ "imports" \in CalmFunction
  /\ "serviceName" \in CalmFunction /\ "items" \in CalmFunction
  /\ "item" \in CalmFunction /\ "afterItem" \in CalmFunction /\ "atDoc" \in CalmFunction
  /\ "route" \in CalmFunction /\ "path" \in CalmFunction
  /\ "pathRest" \in CalmFunction /\ "segment" \in CalmFunction
  /\ "pathItem" \in CalmFunction /\ "afterPath" \in CalmFunction
  /\ "returns" \in CalmFunction /\ "semicolon" \in CalmFunction
  /\ "body" \in CalmFunction /\ "bodyExpr" \in CalmFunction /\ "bodyElem" \in CalmFunction
  /\ "serverKVs" \in CalmFunction
  /\ "serverValue" \in CalmFunction /\ "joined" \in CalmFunction
  /\ "commas" \in CalmFunction /\ "dashes" \in CalmFunction /\ "oneDash" \in CalmFunction
  /\ "slashes" \in CalmFunction /\ "typeList" \in CalmFunction
  /\ "typeExpr" \in CalmFunction /\ "assign" \in CalmFunction
  /\ "dataType" \in CalmFunction /\ "elems" \in CalmFunction
  /\ "elem" \in CalmFunction /\ "elemRest" \in CalmFunction /\ "names" \in CalmFunction
  /\ "tag" \in CalmFunction /\ "panic" \in CalmFunction /\ "unexpected" \in CalmFunction
BY DEF CalmFunction, Callable, ParseFunction

LEMMA QuietShort ==
  /\ <<>> \in Seq(Quiet)
  /\ \A a \in Quiet : <<a>> \in Seq(Quiet)
  /\ \A a, b \in Quiet : <<a, b>> \in Seq(Quiet)
  /\ \A a, b, c \in Quiet : <<a, b, c>> \in Seq(Quiet)
  /\ \A a, b, c, d \in Quiet : <<a, b, c, d>> \in Seq(Quiet)
  /\ \A a, b, c, d, e \in Quiet : <<a, b, c, d, e>> \in Seq(Quiet)
  /\ \A s, t \in Seq(Quiet) : s \o t \in Seq(Quiet)
OBVIOUS

(* A sequence of quiet entries leaves the brackets as they are.            *)
LEMMA QuietPasses ==
  ASSUME NEW s \in Seq(Quiet), NEW o \in Seq(Opening)
  PROVE  Passes(s, Plain(o), Plain(o))
<1> DEFINE e == [i \in 1 .. Len(s) + 1 |-> Plain(o)]
<1>1. e \in [1 .. Len(s) + 1 -> Spot] /\ e[1] = Plain(o) /\ e[Len(s) + 1] = Plain(o)
    BY Places
<1>2. ASSUME NEW i \in 1 .. Len(s) PROVE <<s[i], e[i], e[i + 1]>> \in BracketSteps
  <2>1. s[i] \in Quiet /\ e[i] = Plain(o) /\ e[i + 1] = Plain(o)
      OBVIOUS
  <2>2. QED
      BY <2>1, Steps
<1> HIDE DEF e
<1>3. QED
    BY <1>1, <1>2 DEF Passes, Chained

LEMMA PassesOn ==
  ASSUME NEW s \in Seq(Entry), NEW x \in Entry, NEW p, NEW q \in Spot, NEW r \in Spot,
         Passes(s, p, q), <<x, q, r>> \in BracketSteps
  PROVE  Passes(Append(s, x), p, r)
<1>1. Passes(<<x>>, q, r)
    BY ChainOne DEF Passes
<1>2. <<x>> \in Seq(Entry) /\ Append(s, x) = s \o <<x>>
    OBVIOUS
<1>3. QED
    BY <1>1, <1>2, ChainJoin DEF Passes

LEMMA Passes2 ==
  ASSUME NEW x \in Entry, NEW y \in Entry, NEW p \in Spot, NEW q \in Spot, NEW r \in Spot,
         <<x, p, q>> \in BracketSteps, <<y, q, r>> \in BracketSteps
  PROVE  Passes(<<x, y>>, p, r)
<1>1. Passes(<<x>>, p, q)
    BY ChainOne DEF Passes
<1>2. <<x>> \in Seq(Entry) /\ <<x, y>> = Append(<<x>>, y)
    OBVIOUS
<1>3. Passes(Append(<<x>>, y), p, r)
    BY <1>1, <1>2, PassesOn, Zenon
<1>4. QED
    BY <1>2, <1>3, Zenon

LEMMA Passes3 ==
  ASSUME NEW x \in Entry, NEW y \in Entry, NEW z \in Entry,
         NEW p \in Spot, NEW q \in Spot, NEW r \in Spot, NEW s \in Spot,
         <<x, p, q>> \in BracketSteps, <<y, q, r>> \in BracketSteps, <<z, r, s>> \in BracketSteps
  PROVE  Passes(<<x, y, z>>, p, s)
<1>1. Passes(<<x, y>>, p, r)
    BY Passes2, Zenon
<1>2. <<x, y>> \in Seq(Entry) /\ <<x, y, z>> = Append(<<x, y>>, z)
    OBVIOUS
<1>3. Passes(Append(<<x, y>>, z), p, s)
    BY <1>1, <1>2, PassesOn, Zenon
<1>4. QED
    BY <1>2, <1>3, Zenon

LEMMA Passes4 ==
  ASSUME NEW w \in Entry, NEW x \in Entry, NEW y \in Entry, NEW z \in Entry,
         NEW p \in Spot, NEW q \in Spot, NEW r \in Spot, NEW s \in Spot, NEW t \in Spot,
         <<w, p, q>> \in BracketSteps, <<x, q, r>> \in BracketSteps,
         <<y, r, s>> \in BracketSteps, <<z, s, t>> \in BracketSteps
  PROVE  Passes(<<w, x, y, z>>, p, t)
<1>1. Passes(<<w, x, y>>, p, s)
    BY Passes3, Zenon
<1>2. <<w, x, y>> \in Seq(Entry) /\ <<w, x, y, z>> = Append(<<w, x, y>>, z)
    OBVIOUS
<1>3. Passes(Append(<<w, x, y>>, z), p, t)
    BY <1>1, <1>2, PassesOn, Zenon
<1>4. QED
    BY <1>2, <1>3, Zenon

LEMMA Passes5 ==
  ASSUME NEW v \in Entry, NEW w \in Entry, NEW x \in Entry, NEW y \in Entry, NEW z \in Entry,
         NEW p \in Spot, NEW q \in Spot, NEW r \in Spot, NEW s \in Spot, NEW t \in Spot, NEW u \in Spot,
         <<v, p, q>> \in BracketSteps, <<w, q, r>> \in BracketSteps, <<x, r, s>> \in BracketSteps,
         <<y, s, t>> \in BracketSteps, <<z, t, u>> \in BracketSteps
  PROVE  Passes(<<v, w, x, y, z>>, p, u)
<1>1. Passes(<<v, w, x, y>>, p, t)
    BY Passes4, Zenon
<1>2. <<v, w, x, y>> \in Seq(Entry) /\ <<v, w, x, y, z>> = Append(<<v, w, x, y>>, z)
    OBVIOUS
<1>3. Passes(Append(<<v, w, x, y>>, z), p, u)
    BY <1>1, <1>2, PassesOn, Zenon
<1>4. QED
    BY <1>2, <1>3, Zenon

(* Brackets around quiet entries.                                          *)
LEMMA Enclosed ==
  ASSUME NEW c \in Closing, NEW o \in Seq(Opening)
  PROVE  /\ \A x \in Quiet : Passes(<<Advance({Closes(c)}), x, Advance({c})>>, Plain(o), Plain(o))
         /\ \A x, y \in Quiet : /\ Passes(<<Advance({Closes(c)}), x, y, Advance({c})>>, Plain(o), Plain(o))
                                /\ Passes(<<x, Advance({Closes(c)}), y, Advance({c}), y>>, Plain(o), Plain(o))
         /\ \A x \in Quiet : Passes(<<Advance({Closes(c)}), Advance({c}), x>>, Plain(o), Plain(o))
<1> DEFINE t == Advance({Closes(c)})
           u == Advance({c})
           p == Plain(o)
           q == Plain(Append(o, Closes(c)))
<1>1. Closes(c) \in Opening /\ Append(o, Closes(c)) \in Seq(Opening)
    BY Brackets, Places
<1>2. p \in Spot /\ q \in Spot
    BY <1>1, Places
<1>3. t \in Entry /\ u \in Entry /\ \A x \in Quiet : x \in Entry
    BY Entries, Brackets DEF Quiet, Entry
<1>4. <<t, p, q>> \in BracketSteps /\ <<u, q, p>> \in BracketSteps
    BY Steps
<1>5. \A x \in Quiet : <<x, p, p>> \in BracketSteps /\ <<x, q, q>> \in BracketSteps
    BY <1>1, Steps
<1> HIDE DEF t, u, p, q
<1>6. \A x \in Quiet : Passes(<<t, x, u>>, p, p)
    BY <1>2, <1>3, <1>4, <1>5, Passes3, Zenon
<1>7. \A x, y \in Quiet : Passes(<<t, x, y, u>>, p, p)
    BY <1>2, <1>3, <1>4, <1>5, Passes4, Zenon
<1>8. \A x, y \in Quiet : Passes(<<x, t, y, u, y>>, p, p)
    BY <1>2, <1>3, <1>4, <1>5, Passes5, Zenon
<1>9. \A x \in Quiet : Passes(<<t, u, x>>, p, p)
    BY <1>2, <1>3, <1>4, <1>5, Passes3, Zenon
<1>10. QED
    BY <1>6, <1>7, <1>8, <1>9, Zenon DEF t, u, p, q

(* Functions that touch no bracket themselves.                             *)
LEMMA QuietServices ==
  /\ KVs \in Seq(Quiet) /\ Imports \in Seq(Quiet) /\ ParseSyntaxStmt \in Seq(Quiet)
  /\ ParseServiceNameExpr \in Seq(Quiet) /\ ParseServiceItemsStmt \in Seq(Quiet)
  /\ AfterItem \in Seq(Quiet) /\ HandlerAndRoute \in Seq(Quiet)
<1>1. ParseKVExpression \in Seq(Quiet)
    BY QuietShort, QuietEntries, CalmSets, Zenon DEF ParseKVExpression
<1>2. KVs \in Seq(Quiet) /\ Imports \in Seq(Quiet) /\ ParseSyntaxStmt \in Seq(Quiet)
    BY <1>1, QuietShort, QuietEntries, CalmSets, CalmFunctions, TokenSets, ZenonT(30)
       DEF KVs, Imports, ParseSyntaxStmt, Until
<1>3. ParseServiceNameExpr \in Seq(Quiet)
    BY QuietShort, QuietEntries, CalmFolds, ZenonT(30) DEF ParseServiceNameExpr
<1>4. ParseServiceItemsStmt \in Seq(Quiet) /\ AfterItem \in Seq(Quiet) /\ HandlerAndRoute \in Seq(Quiet)
    BY QuietShort, QuietEntries, CalmSets, CalmFunctions, TokenSets, ZenonT(30)
       DEF ParseServiceItemsStmt, AfterItem, HandlerAndRoute, Until
<1>5. QED
    BY <1>2, <1>3, <1>4

LEMMA QuietRoutes ==
  /\ ParseRouteStmt \in Seq(Quiet) /\ ParsePathExpr \in Seq(Quiet) /\ PathRest \in Seq(Quiet)
  /\ Segment \in Seq(Quiet) /\ ParsePathItem \in Seq(Quiet) /\ AfterPath \in Seq(Quiet)
  /\ Returns \in Seq(Quiet) /\ Semicolon \in Seq(Quiet) /\ BodyElem \in Seq(Quiet)
<1>1. ParseRouteStmt \in Seq(Quiet) /\ ParsePathExpr \in Seq(Quiet)
    BY QuietShort, QuietEntries, CalmSets, CalmFunctions, ZenonT(30) DEF ParseRouteStmt, ParsePathExpr
<1>2. PathRest \in Seq(Quiet) /\ ParsePathItem \in Seq(Quiet)
    BY QuietShort, QuietEntries, CalmFolds, CalmFunctions, ZenonT(30) DEF PathRest, ParsePathItem
<1>3. Segment \in Seq(Quiet)
    BY QuietShort, QuietEntries, CalmFolds, CalmFunctions, TokenSets, ZenonT(30) DEF Segment
<1>4. AfterPath \in Seq(Quiet) /\ Returns \in Seq(Quiet) /\ Semicolon \in Seq(Quiet)
    BY QuietShort, QuietEntries, CalmSets, CalmFunctions, TokenSets, ZenonT(30) DEF AfterPath, Returns, Semicolon
<1>5. BodyElem \in Seq(Quiet)
    BY QuietShort, QuietEntries, CalmSets, ZenonT(30) DEF BodyElem
<1>6. QED
    BY <1>1, <1>2, <1>3, <1>4, <1>5

LEMMA QuietValues ==
  /\ Joined \in Seq(Quiet) /\ Commas \in Seq(Quiet) /\ Dashes \in Seq(Quiet)
  /\ OneDash \in Seq(Quiet) /\ Slashes \in Seq(Quiet) /\ ServerValue \in Seq(Quiet)
<1>1. /\ Joined \in Seq(Quiet) /\ Commas \in Seq(Quiet) /\ Dashes \in Seq(Quiet)
      /\ OneDash \in Seq(Quiet) /\ Slashes \in Seq(Quiet)
    BY QuietShort, QuietEntries, CalmFolds, CalmFunctions, ZenonT(30)
       DEF Joined, Commas, Dashes, OneDash, Slashes
<1>2. ServerValue \in Seq(Quiet)
    BY QuietShort, QuietEntries, CalmFolds, CalmFunctions, ZenonT(30) DEF ServerValue
<1>3. QED
    BY <1>1, <1>2

LEMMA QuietTypes ==
  ASSUME NEW breaks
  PROVE
  /\ ParseTypeExprList \in Seq(Quiet) /\ ParseTypeExpr \in Seq(Quiet) /\ Assign \in Seq(Quiet)
  /\ ParseElemExprList \in Seq(Quiet) /\ ParseElemExpr \in Seq(Quiet)
  /\ ElemRest(breaks) \in Seq(Quiet) /\ Names \in Seq(Quiet) /\ Tag \in Seq(Quiet)
<1>1. /\ ParseTypeExprList \in Seq(Quiet) /\ ParseTypeExpr \in Seq(Quiet) /\ Assign \in Seq(Quiet)
      /\ ParseElemExprList \in Seq(Quiet) /\ ParseElemExpr \in Seq(Quiet)
    BY QuietShort, QuietEntries, CalmSets, CalmFunctions, TokenSets, ZenonT(30)
       DEF ParseTypeExprList, ParseTypeExpr, Assign, ParseElemExprList, ParseElemExpr
<1>2. ElemRest(breaks) \in Seq(Quiet)
    BY QuietShort, QuietEntries, CalmSets, CalmFunctions, TokenSets, ZenonT(30) DEF ElemRest
<1>3. Names \in Seq(Quiet) /\ Tag \in Seq(Quiet)
    BY QuietShort, QuietEntries, CalmSets, CalmFolds, CalmFunctions, ZenonT(30) DEF Names, Tag
<1>4. QED
    BY <1>1, <1>2, <1>3

(* Functions that open a bracket or close one.                             *)
LEMMA DocPasses ==
  ASSUME NEW o \in Seq(Opening)
  PROVE  Passes(ParseAtDocStmt, Plain(o), Plain(o))
<1>1. Passes(<<Advance({"("}), Do("kvs"), Advance({")"})>>, Plain(o), Plain(o))
    BY Pairs, Enclosed, QuietEntries, CalmFunctions, Zenon DEF EndParen, Paren
<1>2. Passes(<<Look({"(", "string"}), Advance({"string"})>>, Plain(o), Plain(o))
    BY QuietPasses, QuietShort, QuietEntries, CalmSets, TokenSets, Zenon
<1>3. QED
    BY <1>1, <1>2, Zenon DEF ParseAtDocStmt

LEMMA ItemPasses ==
  ASSUME NEW o \in Seq(Opening)
  PROVE  Passes(ParseServiceItemStmt, Plain(o), Plain(o))
<1> DEFINE d == IF peek = "@doc" THEN <<Advance({"@doc"}), Do("atDoc")>> ELSE <<>>
           h == <<Advance(HandlerOrBrace), Do("handler")>>
<1>1. d \in Seq(Quiet)
    BY QuietShort, QuietEntries, CalmSets, CalmFunctions, Zenon
<1>2. Passes(d, Plain(o), Plain(o)) /\ d \in Seq(Entry)
  <2>1. \A s \in Seq(Quiet) : s \in Seq(Entry)
      BY DEF Quiet
  <2>2. QED
      BY <1>1, <2>1, QuietPasses
<1>3. Passes(h, Plain(o), Plain(o)) /\ h \in Seq(Entry)
  <2>1. Advance(HandlerOrBrace) \in Entry /\ Do("handler") \in Entry
      BY Entries, Functions, TokenSets, Zenon DEF Entry, HandlerOrBrace
  <2>2. h \in Seq(Entry)
      BY <2>1
  <2>3. QED
      BY <2>1, <2>2, Steps, Places, Passes2, Zenon
<1>4. ParseServiceItemStmt = d \o h
    BY Zenon DEF ParseServiceItemStmt, HandlerOrBrace
<1> HIDE DEF d, h
<1>5. QED
    BY <1>2, <1>3, <1>4, ChainJoin, Zenon DEF Passes

LEMMA BodiesPass ==
  ASSUME NEW o \in Seq(Opening)
  PROVE  /\ Passes(ParseBodyStmt, Plain(o), Plain(o)) /\ Passes(ParseBodyExpr, Plain(o), Plain(o))
         /\ Passes(BodyRest, Plain(Append(o, Paren)), Plain(o))
<1>1. Plain(o) \in Spot /\ Append(o, Paren) \in Seq(Opening) /\ Plain(Append(o, Paren)) \in Spot
    BY Pairs, Places
<1>2. /\ Advance({"("}) \in Entry /\ Advance({")"}) \in Entry
      /\ Do("bodyRest") \in Entry /\ Do("bodyExpr") \in Entry
    BY Entries, Functions, TokenSets, Zenon DEF Entry
<1>3. /\ <<Advance({"("}), Plain(o), Plain(Append(o, Paren))>> \in BracketSteps
      /\ <<Advance({")"}), Plain(Append(o, Paren)), Plain(o)>> \in BracketSteps
    BY Steps, Pairs, Zenon DEF EndParen, Paren
<1>4. Passes(ParseBodyStmt, Plain(o), Plain(o))
  <2>1. <<Do("bodyRest"), Plain(Append(o, Paren)), Plain(o)>> \in BracketSteps
      BY Steps
  <2>2. QED
      BY <1>1, <1>2, <1>3, <2>1, Passes2, Zenon DEF ParseBodyStmt
<1>5. Passes(BodyRest, Plain(Append(o, Paren)), Plain(o))
  <2>1. <<Do("bodyExpr"), Plain(Append(o, Paren)), Plain(Append(o, Paren))>> \in BracketSteps
      BY <1>1, Steps, QuietEntries, CalmFunctions, Zenon
  <2>2. Passes(<<Do("bodyExpr"), Advance({")"})>>, Plain(Append(o, Paren)), Plain(o))
      BY <1>1, <1>2, <1>3, <2>1, Passes2, Zenon
  <2>3. Passes(<<Advance({")"})>>, Plain(Append(o, Paren)), Plain(o))
      BY <1>1, <1>3, ChainOne, Zenon DEF Passes
  <2>4. QED
      BY <2>2, <2>3, Zenon DEF BodyRest
<1>6. Passes(ParseBodyExpr, Plain(o), Plain(o))
  <2>1. Passes(<<Advance({"["}), Advance({"]"}), Do("bodyElem")>>, Plain(o), Plain(o))
      BY Pairs, Enclosed, QuietEntries, CalmFunctions, Zenon DEF Square
  <2>2. Passes(BodyElem, Plain(o), Plain(o))
      BY QuietRoutes, QuietPasses
  <2>3. QED
      BY <2>1, <2>2, Zenon DEF ParseBodyExpr
<1>7. QED
    BY <1>4, <1>5, <1>6

LEMMA ValuesPass ==
  ASSUME NEW o \in Seq(Opening)
  PROVE  /\ IF peek = EndParen THEN Passes(ServerKVs, Plain(o), Plain(o)) ELSE Passes(ServerKVs, Sure(o), Plain(o))
         /\ Passes(ParseAtServerKVExpression, Sure(o), Plain(o))
<1>1. Plain(o) \in Spot /\ Sure(o) \in Spot
    BY Places
<1>2. \A x \in Quiet : x \in Entry /\ <<x, Plain(o), Plain(o)>> \in BracketSteps
    BY Steps DEF Quiet
<1>3. Passes(<<>>, Plain(o), Plain(o))
    BY QuietShort, QuietPasses
<1>4. ASSUME NEW x \in Quiet, NEW y \in Quiet
      PROVE  Passes(<<Do("serverKV"), x>> \o <<y>>, Sure(o), Plain(o))
  <2>1. Do("serverKV") \in Entry /\ <<Do("serverKV"), Sure(o), Plain(o)>> \in BracketSteps
      BY Entries, Functions, Steps DEF Entry
  <2>2. Passes(<<Do("serverKV"), x, y>>, Sure(o), Plain(o))
      BY <1>1, <1>2, <2>1, Passes3, Zenon
  <2>3. QED
      BY <1>2, <2>1, <2>2, Join21, Zenon
<1>5. IF peek = EndParen THEN Passes(ServerKVs, Plain(o), Plain(o)) ELSE Passes(ServerKVs, Sure(o), Plain(o))
  <2>1. Look({")"} \cup Ident) \in Quiet /\ Do("serverKVs") \in Quiet
      BY QuietEntries, TokenSets, CalmFunctions, Zenon
  <2>2. Passes(<<Do("serverKV"), Look({")"} \cup Ident)>> \o <<Do("serverKVs")>>, Sure(o), Plain(o))
      BY <1>4, <2>1, Zenon
  <2>3. IF peek = EndParen THEN ServerKVs = <<>> ELSE ServerKVs = <<Do("serverKV"), Look({")"} \cup Ident)>> \o <<Do("serverKVs")>>
      BY Zenon DEF ServerKVs, Until, EndParen
  <2>4. QED
      BY <1>3, <2>2, <2>3, Zenon
<1>6. Passes(ParseAtServerKVExpression, Sure(o), Plain(o))
  <2>1. /\ Advance({":"}) \in Quiet /\ Look({"/", "duration", "int", "string"} \cup Ident) \in Quiet
        /\ Do("serverValue") \in Quiet /\ MakeNode \in Quiet
      BY QuietEntries, CalmSets, TokenSets, CalmFunctions, Zenon
  <2>2. Advance(NameOrStop) \in Entry /\ <<Advance(NameOrStop), Sure(o), Plain(o)>> \in BracketSteps
    <3>1. Advance(NameOrStop) \in Entry
        BY Entries, TokenSets, Zenon DEF Entry, NameOrStop
    <3>2. QED
        BY <3>1, Steps
  <2>3. ParseAtServerKVExpression =
          <<Advance(NameOrStop), Advance({":"}), Look({"/", "duration", "int", "string"} \cup Ident), Do("serverValue"), MakeNode>>
      BY Zenon DEF ParseAtServerKVExpression, NameOrStop
  <2>4. \A v, x, y, z \in Quiet : Passes(<<Advance(NameOrStop), v, x, y, z>>, Sure(o), Plain(o))
      BY <1>1, <1>2, <2>2, Passes5, Zenon
  <2>5. QED
      BY <2>1, <2>3, <2>4, Zenon
<1>7. QED
    BY <1>5, <1>6

LEMMA TypesPass ==
  ASSUME NEW o \in Seq(Opening)
  PROVE  /\ Passes(ParseDataType, Plain(o), Plain(o)) /\ Passes(ParseTypeStmt, Plain(o), Plain(o))
         /\ Passes(Length, Plain(Append(o, Square)), Plain(o))
<1>1. Plain(o) \in Spot /\ Append(o, Square) \in Seq(Opening) /\ Plain(Append(o, Square)) \in Spot
    BY Pairs, Places
<1>2. /\ Advance({"["}) \in Entry /\ Advance({"]"}) \in Entry /\ Do("length") \in Entry /\ Do("dataType") \in Entry
    BY Entries, Functions, TokenSets, Zenon DEF Entry
<1>3. /\ <<Advance({"["}), Plain(o), Plain(Append(o, Square))>> \in BracketSteps
      /\ <<Advance({"]"}), Plain(Append(o, Square)), Plain(o)>> \in BracketSteps
      /\ <<Do("length"), Plain(Append(o, Square)), Plain(o)>> \in BracketSteps
      /\ <<Do("dataType"), Plain(o), Plain(o)>> \in BracketSteps
    BY Steps, Pairs, QuietEntries, CalmFunctions, Zenon DEF Square
<1>4. Passes(ParseDataType, Plain(o), Plain(o))
  <2>1. /\ Advance({"any"}) \in Quiet /\ Advance({"map"}) \in Quiet /\ Advance(Ident) \in Quiet
        /\ NotKeyword \in Quiet /\ Advance({"interface{}"}) \in Quiet /\ Advance({"*"}) \in Quiet
        /\ Do("elems") \in Quiet /\ Do("dataType") \in Quiet
      BY QuietEntries, CalmSets, CalmFunctions, Zenon
  <2>2. /\ Look({"*", "}"} \cup Ident) \in Quiet /\ Look({"[", "interface{}", "*"} \cup Ident) \in Quiet
        /\ Look({"[", "interface{}", "*", "{"} \cup Ident) \in Quiet
      BY QuietEntries, TokenSets, Zenon
  <2>3. Passes(<<Advance({"{"}), Look({"*", "}"} \cup Ident), Do("elems"), Advance({"}"})>>, Plain(o), Plain(o))
      BY <2>1, <2>2, Pairs, Enclosed, Zenon DEF Brace
  <2>4. Passes(<<Advance({"map"}), Advance({"["}), Do("dataType"), Advance({"]"}), Do("dataType")>>, Plain(o), Plain(o))
      BY <2>1, Pairs, Enclosed, Zenon DEF Square
  <2>5. Passes(<<Advance({"["}), Do("length")>>, Plain(o), Plain(o))
      BY <1>1, <1>2, <1>3, Passes2, Zenon
  <2>6. \A x, y, z \in Quiet : /\ Passes(<<x>>, Plain(o), Plain(o)) /\ Passes(<<x, y>>, Plain(o), Plain(o))
                               /\ Passes(<<x, y, z>>, Plain(o), Plain(o))
      BY QuietShort, QuietPasses
  <2>7. QED
      BY <2>1, <2>2, <2>3, <2>4, <2>5, <2>6, ZenonT(30) DEF ParseDataType
<1>5. Passes(ParseTypeStmt, Plain(o), Plain(o))
  <2>1. /\ Look({")"} \cup Ident) \in Quiet /\ Look({"("} \cup Ident) \in Quiet
        /\ Do("typeList") \in Quiet /\ Do("typeExpr") \in Quiet
      BY QuietEntries, TokenSets, CalmFunctions, Zenon
  <2>2. Passes(<<Advance({"("}), Look({")"} \cup Ident), Do("typeList"), Advance({")"})>>, Plain(o), Plain(o))
      BY <2>1, Pairs, Enclosed, Zenon DEF EndParen, Paren
  <2>3. \A x \in Quiet : Passes(<<x>>, Plain(o), Plain(o))
      BY QuietShort, QuietPasses
  <2>4. QED
      BY <2>1, <2>2, <2>3, Zenon DEF ParseTypeStmt
<1>6. Passes(Length, Plain(Append(o, Square)), Plain(o))
  <2> DEFINE n == IF peek \in {"int", "..."} THEN <<Advance({"int", "..."})>> ELSE <<>>
             r == <<Advance({"]"}), Do("dataType")>>
  <2>1. n \in Seq(Quiet)
      BY QuietShort, QuietEntries, CalmSets, Zenon
  <2>2. r \in Seq(Entry)
      BY <1>2
  <2>3. Passes(r, Plain(Append(o, Square)), Plain(o))
      BY <1>1, <1>2, <1>3, Passes2, Zenon
  <2>4. Length = n \o r
      BY Zenon DEF Length
  <2> HIDE DEF n, r
  <2>5. n \in Seq(Entry) /\ Passes(n, Plain(Append(o, Square)), Plain(Append(o, Square)))
    <3>1. \A s \in Seq(Quiet) : s \in Seq(Entry)
        BY DEF Quiet
    <3>2. QED
        BY <1>1, <2>1, <3>1, QuietPasses
  <2>6. QED
      BY <2>2, <2>3, <2>4, <2>5, ChainJoin, Zenon DEF Passes
<1>7. QED
    BY <1>4, <1>5, <1>6

LEMMA StatementPasses ==
  ASSUME NEW o \in Seq(Opening)
  PROVE  Statement \in Seq(Entry) /\ Passes(Statement, Plain(o), Plain(o))
<1>1. \A x \in Quiet : x \in Entry
    BY DEF Quiet
<1>2. \A s \in Seq(Quiet) : s \in Seq(Entry)
    BY DEF Quiet
<1>3. Passes(ParseSyntaxStmt, Plain(o), Plain(o)) /\ Passes(<<Do("unexpected")>>, Plain(o), Plain(o))
    BY QuietServices, QuietPasses, QuietShort, QuietEntries, CalmFunctions
<1>4. Passes(ParseInfoStmt, Plain(o), Plain(o))
    BY Pairs, Enclosed, QuietEntries, CalmFunctions, Zenon DEF EndParen, Paren, ParseInfoStmt
<1>5. Passes(ParseImportStmt, Plain(o), Plain(o))
  <2>1. Passes(<<Advance({"("}), Do("imports"), Advance({")"})>>, Plain(o), Plain(o))
      BY Pairs, Enclosed, QuietEntries, CalmFunctions, Zenon DEF EndParen, Paren
  <2>2. Passes(<<Look({"(", "string"}), Advance({"string"})>>, Plain(o), Plain(o))
      BY QuietPasses, QuietShort, QuietEntries, CalmSets, TokenSets, Zenon
  <2>3. QED
      BY <2>1, <2>2, Zenon DEF ParseImportStmt
<1>6. Passes(ServiceRest, Plain(o), Plain(o)) /\ ServiceRest \in Seq(Entry)
  <2> DEFINE x == Fold(Ident)
             y == Do("serviceName")
             t == Advance({"{"})
             z == Do("items")
             u == Advance({"}"})
  <2>1. x \in Quiet /\ y \in Quiet /\ MakeNode \in Quiet /\ z \in Quiet
      BY QuietEntries, CalmFolds, CalmFunctions, Zenon
  <2>2. Passes(<<t, z, u>>, Plain(o), Plain(o))
      BY <2>1, Pairs, Enclosed, Zenon DEF Brace
  <2>3. t \in Entry /\ u \in Entry
      BY Entries, TokenSets, Zenon DEF Entry
  <2>4. ServiceRest = <<x, y, MakeNode, t, z, u>>
      BY Zenon DEF ServiceRest
  <2> HIDE DEF x, y, z, t, u
  <2>5. Passes(<<x, y, MakeNode>>, Plain(o), Plain(o)) /\ <<x, y, MakeNode>> \in Seq(Entry)
      BY <1>2, <2>1, QuietShort, QuietPasses
  <2>6. /\ <<t, z, u>> \in Seq(Entry) /\ <<x, y, MakeNode, t, z, u>> = <<x, y, MakeNode>> \o <<t, z, u>>
        /\ <<x, y, MakeNode, t, z, u>> \in Seq(Entry)
      BY <1>1, <2>1, <2>3
  <2>7. Passes(<<x, y, MakeNode>> \o <<t, z, u>>, Plain(o), Plain(o))
      BY <2>2, <2>5, <2>6, ChainJoin, Zenon DEF Passes
  <2>8. QED
      BY <2>4, <2>6, <2>7, Zenon
<1>7. Passes(ParseService, Plain(o), Plain(o))
  <2> DEFINE s == <<Advance({"("}), Do("serverKVs"), Advance({")"})>>
             v == <<Advance({"service"})>>
  <2>1. Passes(s, Plain(o), Plain(o))
      BY Pairs, Enclosed, QuietEntries, CalmFunctions, Zenon DEF EndParen, Paren
  <2>2. v \in Seq(Quiet) /\ Passes(v, Plain(o), Plain(o))
      BY QuietPasses, QuietShort, QuietEntries, CalmSets, Zenon
  <2>3. Advance({"("}) \in Entry /\ Advance({")"}) \in Entry /\ Do("serverKVs") \in Entry
      BY Entries, Functions, TokenSets, Zenon DEF Entry
  <2>4. s \in Seq(Entry)
      BY <2>3
  <2>5. ParseService = ServiceRest \/ ParseService = (s \o v) \o ServiceRest
      BY Zenon DEF ParseService, ParseAtServerStmt
  <2> HIDE DEF s, v
  <2>6. Passes(s \o v, Plain(o), Plain(o)) /\ s \o v \in Seq(Entry)
    <3>1. v \in Seq(Entry)
        BY <1>2, <2>2
    <3>2. s \o v \in Seq(Entry)
        BY <2>4, <3>1
    <3>3. QED
        BY <2>1, <2>2, <2>4, <3>1, <3>2, ChainJoin, Zenon DEF Passes
  <2>7. Passes((s \o v) \o ServiceRest, Plain(o), Plain(o))
      BY <1>6, <2>6, ChainJoin, Zenon DEF Passes
  <2>8. QED
      BY <1>6, <2>5, <2>7, Zenon
<1>8. Passes(Statement, Plain(o), Plain(o))
    BY <1>3, <1>4, <1>5, <1>7, TypesPass, Zenon DEF Statement
<1>9. QED
    BY <1>8, AffordsStatement

LEMMA QuietCalls ==
  ASSUME NEW f
  PROVE  /\ Do(f) \in Quiet => f \in CalmFunction
         /\ \A T : Do(f) # Advance(T)
         /\ Do(f) # NextEntry
         /\ \A g : Do(f) = Do(g) => f = g
<1>1. Do(f)[1] = "do" /\ Do(f)[2] = f
    BY DEF Do
<1>2. Do(f) \in Quiet => f \in CalmFunction
    BY <1>1 DEF Quiet
<1>3. \A T : Advance(T)[1] = "advance"
    BY DEF Advance
<1>4. NextEntry[1] = "next"
    BY DEF NextEntry
<1>5. \A g : Do(g)[2] = g
    BY DEF Do
<1>6. QED
    BY <1>1, <1>2, <1>3, <1>4, <1>5

(* The body of a function does to the brackets what the call of it does.   *)
LEMMA BodyPasses ==
  ASSUME NEW f \in ParseFunction, NEW breaks, NEW p, NEW q, Moves(Do(f), p, q),
         p[2] = "sure" => peek # EndParen
  PROVE  \E r \in Spot : /\ r[1] = p[1] /\ r[2] # "handler" /\ (r[2] = "sure" => peek # EndParen)
                         /\ p[2] = "handler" => f = "handler"
                         /\ Passes(Body(f, breaks), r, q)
<1>1. PICK o \in Seq(Opening) :
        \/ f \in CalmFunction /\ p = Plain(o) /\ q = Plain(o)
        \/ f = "bodyRest" /\ p = Plain(Append(o, Paren)) /\ q = Plain(o)
        \/ f = "length" /\ p = Plain(Append(o, Square)) /\ q = Plain(o)
        \/ f = "serverKV" /\ p = Sure(o) /\ q = Plain(o)
        \/ f = "handler" /\ p = Handling(o) /\ q = Plain(o)
    BY QuietCalls DEF Moves
<1>2. /\ \A s : /\ Plain(s)[1] = s /\ Plain(s)[2] = "plain" /\ Sure(s)[1] = s /\ Sure(s)[2] = "sure"
                /\ Handling(s)[1] = s /\ Handling(s)[2] = "handler"
    BY DEF Plain, Sure, Handling
<1>3. /\ Plain(o) \in Spot /\ Sure(o) \in Spot
      /\ Plain(Append(o, Paren)) \in Spot /\ Plain(Append(o, Square)) \in Spot
    BY Places, Pairs
<1>4. CASE f = "bodyRest"
  <2>1. p = Plain(Append(o, Paren)) /\ q = Plain(o)
      BY <1>1, <1>4 DEF CalmFunction
  <2>2. Body(f, breaks) = BodyRest
      BY <1>4 DEF Body
  <2>3. Passes(Body(f, breaks), p, q)
      BY <2>1, <2>2, BodiesPass
  <2>4. QED
      BY <1>2, <1>3, <2>1, <2>3
<1>5. CASE f = "length"
  <2>1. p = Plain(Append(o, Square)) /\ q = Plain(o)
      BY <1>1, <1>5 DEF CalmFunction
  <2>2. Body(f, breaks) = Length
      BY <1>5 DEF Body
  <2>3. Passes(Body(f, breaks), p, q)
      BY <2>1, <2>2, TypesPass
  <2>4. QED
      BY <1>2, <1>3, <2>1, <2>3
<1>6. CASE f = "serverKV"
  <2>1. p = Sure(o) /\ q = Plain(o)
      BY <1>1, <1>6 DEF CalmFunction
  <2>2. Body(f, breaks) = ParseAtServerKVExpression
      BY <1>6 DEF Body
  <2>3. Passes(Body(f, breaks), p, q)
      BY <2>1, <2>2, ValuesPass
  <2>4. QED
      BY <1>2, <1>3, <2>1, <2>3
<1>7. CASE f = "handler"
  <2>1. p = Handling(o) /\ q = Plain(o)
      BY <1>1, <1>7 DEF CalmFunction
  <2>2. Body(f, breaks) = HandlerAndRoute
      BY <1>7 DEF Body
  <2>3. Passes(Body(f, breaks), Plain(o), q)
      BY <2>1, <2>2, QuietServices, QuietPasses
  <2>4. QED
      BY <1>2, <1>3, <1>7, <2>1, <2>3
<1>8. CASE f \notin {"bodyRest", "length", "serverKV", "handler"}
  <2>1. p = Plain(o) /\ q = Plain(o)
      BY <1>1, <1>8
  <2>2. CASE f = "serverKVs"
    <3>1. Body(f, breaks) = ServerKVs
        BY <2>2 DEF Body
    <3>2. CASE peek = EndParen
      <4>1. Passes(Body(f, breaks), Plain(o), q)
          BY <2>1, <3>1, <3>2, ValuesPass
      <4>2. QED
          BY <1>2, <1>3, <2>1, <4>1
    <3>3. CASE peek # EndParen
      <4>1. Passes(Body(f, breaks), Sure(o), q)
          BY <2>1, <3>1, <3>3, ValuesPass
      <4>2. QED
          BY <1>2, <1>3, <2>1, <3>3, <4>1
    <3>4. QED
        BY <3>2, <3>3
  <2>3. CASE f # "serverKVs"
    <3>1. \A s \in Seq(Quiet) : Passes(s, Plain(o), Plain(o))
        BY QuietPasses
    <3>2. ASSUME f \in {"kvs", "imports", "serviceName", "items", "afterItem"} PROVE Passes(Body(f, breaks), Plain(o), Plain(o))
        BY <3>1, <3>2, QuietServices DEF Body
    <3>3. ASSUME f \in {"item", "atDoc", "body", "bodyExpr", "dataType"} PROVE Passes(Body(f, breaks), Plain(o), Plain(o))
        BY <3>3, ItemPasses, DocPasses, BodiesPass, TypesPass DEF Body
    <3>4. ASSUME f \in {"route", "path", "pathRest", "segment", "pathItem", "afterPath", "returns", "semicolon", "bodyElem"} PROVE Passes(Body(f, breaks), Plain(o), Plain(o))
        BY <3>1, <3>4, QuietRoutes DEF Body
    <3>5. ASSUME f \in {"serverValue", "joined", "commas", "dashes", "oneDash", "slashes"} PROVE Passes(Body(f, breaks), Plain(o), Plain(o))
        BY <3>1, <3>5, QuietValues DEF Body
    <3>6. ASSUME f \in {"typeList", "typeExpr", "assign", "elems", "elem", "elemRest", "names", "tag"} PROVE Passes(Body(f, breaks), Plain(o), Plain(o))
        BY <3>1, <3>6, QuietTypes DEF Body
    <3>7. Passes(Body(f, breaks), Plain(o), Plain(o))
        BY <1>8, <2>3, <3>2, <3>3, <3>4, <3>5, <3>6 DEF ParseFunction
    <3>8. QED
        BY <1>2, <1>3, <2>1, <3>7
  <2>4. QED
      BY <2>2, <2>3
<1>9. QED
    BY <1>4, <1>5, <1>6, <1>7, <1>8

(* The brackets that are open are those that the stack goes on to close.   *)
OpenAt(p) ==
  /\ p[1] = open \/ (p[2] = "handler" /\ cur = Brace)
  /\ p[2] = "sure" => peek # EndParen
Between == {<<<<"init", 2>>>>, <<<<"init", 1>>>>, <<<<"top", 0>>>>}
BracketsInv ==
  \/ slip
  \/ todo = <<>> /\ outcome # "parsing"
  \/ todo \in Between
  \/ \E p \in Spot : OpenAt(p) /\ Passes(todo, p, Plain(<<>>))

(* A token that an entry of the stack may read.                            *)
LEMMA TokenMoves ==
  ASSUME NEW p \in Spot, NEW q \in Spot, Moves(Head(todo), p, q), ~slip, OpenAt(p),
         Op \in {"advance", "fold", "drop"}, peek \in Arg
  PROVE  (q[1] = Opened(peek) \/ (q[2] = "handler" /\ peek = Brace)) /\ q[2] # "sure"
<1>1. PICK o \in Seq(Opening) :
        \/ Head(todo) \in Quiet /\ p = Plain(o) /\ q = Plain(o)
        \/ \E c \in Closing : Head(todo) = Advance({Closes(c)}) /\ p = Plain(o) /\ q = Plain(Append(o, Closes(c)))
        \/ \E c \in Closing : Head(todo) = Advance({c}) /\ p = Plain(Append(o, Closes(c))) /\ q = Plain(o)
        \/ Head(todo) = Advance(NameOrStop) /\ p = Sure(o) /\ q = Plain(o)
        \/ Head(todo) = Advance(HandlerOrBrace) /\ p = Plain(o) /\ q = Handling(o)
  <2>1. \A f : Do(f)[1] = "do"
      BY DEF Do
  <2>2. NextEntry[1] = "next"
      BY DEF NextEntry
  <2>3. QED
      BY <2>1, <2>2 DEF Moves, Op
<1>2. /\ \A s : /\ Plain(s)[1] = s /\ Plain(s)[2] = "plain" /\ Sure(s)[1] = s /\ Sure(s)[2] = "sure"
                /\ Handling(s)[1] = s /\ Handling(s)[2] = "handler"
    BY DEF Plain, Sure, Handling
<1>3. \A T : Advance(T)[2] = T
    BY DEF Advance
<1>4. peek \notin Opening \cup Closing => Opened(peek) = open
    BY Zenon DEF Opened
<1>5. CASE Head(todo) \in Quiet /\ p = Plain(o) /\ q = Plain(o)
  <2>1. peek \in Calm
      BY <1>5 DEF Quiet, Op, Arg
  <2>2. p[1] = open
      BY <1>2, <1>5 DEF OpenAt
  <2>3. QED
      BY <1>2, <1>4, <1>5, <2>1, <2>2 DEF Calm
<1>6. ASSUME NEW c \in Closing, Head(todo) = Advance({Closes(c)}), p = Plain(o), q = Plain(Append(o, Closes(c)))
      PROVE  q[1] = Opened(peek) /\ q[2] # "sure"
  <2>1. peek = Closes(c) /\ peek \in Opening /\ peek \notin Closing /\ open = o
      BY <1>2, <1>3, <1>6, Brackets DEF Arg, OpenAt
  <2>2. Opened(peek) = Append(open, peek)
      BY <2>1, Zenon DEF Opened
  <2>3. QED
      BY <1>2, <1>6, <2>1, <2>2
<1>7. ASSUME NEW c \in Closing, Head(todo) = Advance({c}), p = Plain(Append(o, Closes(c))), q = Plain(o)
      PROVE  q[1] = Opened(peek) /\ q[2] # "sure"
  <2>1. peek = c /\ open = Append(o, Closes(c)) /\ Closes(c) \in Opening
    <3>1. Arg = {c}
        BY <1>3, <1>7 DEF Arg
    <3>2. p[1] = Append(o, Closes(c)) /\ p[2] = "plain"
        BY <1>2, <1>7
    <3>3. open = p[1]
        BY <3>2 DEF OpenAt
    <3>4. QED
        BY <1>7, <3>1, <3>2, <3>3, Brackets
  <2>2. open # <<>> /\ open[Len(open)] = Closes(c) /\ SubSeq(open, 1, Len(open) - 1) = o
    <3>1. \A x \in Opening : /\ Append(o, x) # <<>> /\ Append(o, x)[Len(Append(o, x))] = x
                             /\ SubSeq(Append(o, x), 1, Len(Append(o, x)) - 1) = o
        OBVIOUS
    <3>2. QED
        BY <2>1, <3>1
  <2>3. Opened(peek) = SubSeq(open, 1, Len(open) - 1)
      BY <2>1, <2>2, Zenon DEF Opened
  <2>4. QED
      BY <1>2, <1>7, <2>2, <2>3
<1>8. CASE Head(todo) = Advance(NameOrStop) /\ p = Sure(o) /\ q = Plain(o)
  <2>1. peek \in NameOrStop /\ peek # EndParen /\ open = o
      BY <1>2, <1>3, <1>8 DEF Arg, OpenAt
  <2>2. peek \in Ident
      BY <2>1, Zenon DEF NameOrStop, EndParen
  <2>3. peek \in Calm
      BY <2>2, CalmSets
  <2>4. QED
      BY <1>2, <1>4, <1>8, <2>1, <2>3 DEF Calm
<1>9. CASE Head(todo) = Advance(HandlerOrBrace) /\ p = Plain(o) /\ q = Handling(o)
  <2>1. peek \in HandlerOrBrace /\ open = o
      BY <1>2, <1>3, <1>9 DEF Arg, OpenAt
  <2>2. peek = Brace \/ peek \notin Opening \cup Closing
      BY <2>1, Zenon DEF HandlerOrBrace, Brace, Opening, Closing
  <2>3. QED
      BY <1>2, <1>4, <1>9, <2>1, <2>2
<1>10. QED
    BY <1>1, <1>5, <1>6, <1>7, <1>8, <1>9

LEMMA BracketsTop ==
  ASSUME CommentsInv, BracketsInv, Parsing, ~slip, Op \notin {"init", "top"}
  PROVE  /\ Rest \in Seq(Entry)
         /\ \E p, q \in Spot : OpenAt(p) /\ Moves(Head(todo), p, q) /\ Passes(Rest, q, Plain(<<>>))
<1>1. todo # <<>> /\ outcome = "parsing" /\ todo \in Seq(Entry)
    BY EntriesOnTop DEF Parsing, CommentsInv
<1>2. todo \notin Between
    BY DEF Between, Op
<1>3. PICK p \in Spot : OpenAt(p) /\ Passes(todo, p, Plain(<<>>))
    BY <1>1, <1>2 DEF BracketsInv
<1>4. PICK q \in Spot : <<Head(todo), p, q>> \in BracketSteps /\ Passes(Rest, q, Plain(<<>>))
    BY <1>1, <1>3, ChainHead DEF Passes, Rest
<1>5. Moves(Head(todo), p, q)
    BY <1>4 DEF BracketSteps
<1>6. Rest \in Seq(Entry)
    BY <1>1, HeadTailProperties DEF Rest
<1>7. QED
    BY <1>3, <1>4, <1>5, <1>6

Over == outcome # "parsing" => todo = <<>>

LEMMA OverStep == Over /\ [ParserNext]_parserVars => Over'
BY DEF Over, ParserNext, parserVars, Start, Parse, NextStatement, Call, Panic, Take, SkipSemicolon,
       Pass, FoldTokens, SyntaxError, Goes, Fails, Parsing

LEMMA BracketsInitInv == ParserInit => BracketsInv
BY DEF ParserInit, BracketsInv, Between

(* An entry that looks, or makes a node, is quiet.                         *)
LEMMA QuietOps ==
  ASSUME NEW x, NEW p, NEW q, Moves(x, p, q), x[1] \in {"look", "check", "node", "skip"}
  PROVE  p = q /\ p[2] = "plain"
<1>1. /\ \A f : Do(f)[1] = "do"
      /\ \A T : Advance(T)[1] = "advance"
      /\ NextEntry[1] = "next"
    BY DEF Do, Advance, NextEntry
<1>2. PICK o \in Seq(Opening) : p = Plain(o) /\ q = Plain(o)
    BY <1>1 DEF Moves
<1>3. QED
    BY <1>2 DEF Plain

LEMMA BracketsStep == CommentsInv /\ BracketsInv /\ [ParserNext]_parserVars => BracketsInv'
<1> SUFFICES ASSUME CommentsInv, BracketsInv, [ParserNext]_parserVars PROVE BracketsInv'
    OBVIOUS
<1>1. ASSUME slip' PROVE BracketsInv'
    BY <1>1 DEF BracketsInv
<1>2. ASSUME Fails, Parsing PROVE BracketsInv'
    BY <1>2 DEF Fails, BracketsInv
<1>3. ASSUME NEW p \in Spot, OpenAt(p)', Passes(todo', p, Plain(<<>>)) PROVE BracketsInv'
    BY <1>3 DEF BracketsInv
<1>4. ASSUME Goes(<<<<"top", 0>>>>) \/ Goes(<<<<"init", 1>>>>) PROVE BracketsInv'
    BY <1>4 DEF Goes, Between, BracketsInv
<1>5. ASSUME ~slip, Parsing, Op \notin {"init", "top"}
      PROVE  /\ Rest \in Seq(Entry)
             /\ \E p, q \in Spot : OpenAt(p) /\ Moves(Head(todo), p, q) /\ Passes(Rest, q, Plain(<<>>))
    BY <1>5, BracketsTop
<1>6. CASE Start
    BY <1>2, <1>4, <1>6 DEF Start
<1>7. CASE Parse
  <2>1. CASE cur = "eof"
    <3>1. todo' = <<>> /\ outcome' = "ast"
        BY <1>7, <2>1 DEF Parse
    <3>2. QED
        BY <3>1 DEF BracketsInv
  <2>2. CASE cur # "eof"
    <3>1. todo' = Statement \o <<NextEntry>> /\ open' = <<>>
        BY <1>7, <2>2 DEF Parse, Goes, NextEntry
    <3>2. Passes(<<NextEntry>>, Plain(<<>>), Plain(<<>>)) /\ <<NextEntry>> \in Seq(Entry)
      <4>1. NextEntry \in Entry
          BY Entries DEF Entry, NextEntry
      <4>2. Moves(NextEntry, Plain(<<>>), Plain(<<>>))
          BY NoneOpen, Zenon DEF Moves
      <4>3. <<NextEntry, Plain(<<>>), Plain(<<>>)>> \in BracketSteps
          BY <4>1, <4>2, NoneOpen, StepOf
      <4>4. <<NextEntry>> \in Seq(Entry)
          BY <4>1
      <4>5. QED
          BY <4>3, <4>4, NoneOpen, ChainOne, Zenon DEF Passes
    <3>3. Passes(todo', Plain(<<>>), Plain(<<>>))
        BY <3>1, <3>2, NoneOpen, StatementPasses, ChainJoin, Zenon DEF Passes
    <3>4. OpenAt(Plain(<<>>))'
        BY <3>1 DEF OpenAt, Plain
    <3>5. QED
        BY <1>3, <3>3, <3>4, NoneOpen
  <2>3. QED
      BY <2>1, <2>2
<1>8. CASE NextStatement
    BY <1>2, <1>4, <1>8 DEF NextStatement
<1>9. CASE Call
  <2>1. Parsing /\ Op = "do" /\ Arg \notin {"panic", "unexpected"} /\ UNCHANGED <<cur, peek, open>>
        /\ slip' = (slip \/ (Arg = "handler" /\ Brace \in {cur, peek}))
      BY <1>9 DEF Call, Brace
  <2>2. PICK breaks : todo' = Body(Arg, breaks) \o Rest
      BY <1>9 DEF Call, Goes
  <2>3. CASE slip'
      BY <1>1, <2>3
  <2>4. CASE ~slip'
    <3>1. ~slip /\ ~(Arg = "handler" /\ cur = Brace)
        BY <2>1, <2>4
    <3>2. PICK p, q \in Spot : OpenAt(p) /\ Moves(Head(todo), p, q) /\ Passes(Rest, q, Plain(<<>>))
        BY <1>5, <2>1, <3>1
    <3>3. Arg \in ParseFunction /\ Head(todo) = Do(Arg)
      <4>1. OnTop(todo) /\ todo # <<>>
          BY <2>1 DEF CommentsInv, Parsing
      <4>2. Arg \in Callable
          BY <2>1, <4>1, TopIs
      <4>3. Head(todo) \in Entry
          BY <4>1, EntriesOnTop, HeadTailProperties
      <4>4. Head(todo) = Do(Arg)
          BY <2>1, <4>3, SkipIs DEF Entry, StackEntry, Do, Op, Arg
      <4>5. QED
          BY <2>1, <4>2, <4>4 DEF Callable
    <3>3a. Moves(Do(Arg), p, q) /\ (p[2] = "sure" => peek # EndParen)
        BY <3>2, <3>3 DEF OpenAt
    <3>4. PICK r \in Spot : /\ r[1] = p[1] /\ r[2] # "handler" /\ (r[2] = "sure" => peek # EndParen)
                            /\ p[2] = "handler" => Arg = "handler"
                            /\ Passes(Body(Arg, breaks), r, q)
        BY <3>3, <3>3a, BodyPasses, Zenon
    <3>5. OpenAt(r)'
      <4>1. r[1] = open
          BY <3>1, <3>2, <3>4 DEF OpenAt
      <4>2. QED
          BY <2>1, <3>4, <4>1 DEF OpenAt
    <3>6. Passes(todo', r, Plain(<<>>))
      <4>1. Body(Arg, breaks) \in Seq(Entry) /\ Rest \in Seq(Entry)
          BY <1>5, <2>1, <3>1, <3>3, BodyStack, EntriesOnTop
      <4>2. QED
          BY <2>2, <3>2, <3>4, <4>1, ChainJoin, Zenon DEF Passes
    <3>7. QED
        BY <1>3, <3>5, <3>6
  <2>5. QED
      BY <2>3, <2>4
<1>10. CASE Panic
    BY <1>10 DEF Panic, BracketsInv
<1>11. CASE Take
  <2>1. Parsing /\ Op \in {"advance", "fold", "drop"} /\ peek \in Arg /\ NextToken(Op # "advance") /\ slip' = slip
      BY <1>11 DEF Take
  <2>2. CASE Fails
      BY <1>2, <2>1, <2>2
  <2>3. CASE Goes(Rest) /\ ~slip
    <3>1. PICK p, q \in Spot : OpenAt(p) /\ Moves(Head(todo), p, q) /\ Passes(Rest, q, Plain(<<>>))
        BY <1>5, <2>1, <2>3
    <3>2. (q[1] = Opened(peek) \/ (q[2] = "handler" /\ peek = Brace)) /\ q[2] # "sure"
        BY <2>1, <2>3, <3>1, TokenMoves
    <3>3. cur' = peek /\ open' = Opened(peek) /\ todo' = Rest
        BY <2>1, <2>3 DEF NextToken, Goes
    <3>4. OpenAt(q)'
        BY <3>2, <3>3 DEF OpenAt
    <3>5. QED
        BY <1>3, <3>1, <3>3, <3>4
  <2>4. CASE slip
      BY <1>1, <2>1, <2>4
  <2>5. QED
      BY <1>11, <2>2, <2>3, <2>4 DEF Take
<1>12. CASE SkipSemicolon
  <2>1. Parsing /\ Op = "skip" /\ NextToken(TRUE) /\ todo' = Rest /\ slip' = slip
      BY <1>12 DEF SkipSemicolon, Goes
  <2>2. CASE slip
      BY <1>1, <2>1, <2>2
  <2>3. CASE ~slip
    <3>1. PICK p, q \in Spot : OpenAt(p) /\ Moves(Head(todo), p, q) /\ Passes(Rest, q, Plain(<<>>))
        BY <1>5, <2>1, <2>3
    <3>2. p = q /\ p[2] = "plain"
        BY <2>1, <3>1, QuietOps DEF Op
    <3>3. peek \notin Opening \cup Closing
      <4>1. peek \in Semicolons
          BY <2>1, TopIs DEF CommentsInv, Parsing
      <4>2. QED
          BY <4>1, Zenon DEF Semicolons, Opening, Closing
    <3>4. open' = open
      <4>1. open' = Opened(peek)
          BY <2>1 DEF NextToken
      <4>2. QED
          BY <3>3, <4>1, Zenon DEF Opened
    <3>5. OpenAt(p)'
        BY <3>1, <3>2, <3>4 DEF OpenAt
    <3>6. QED
        BY <1>3, <2>1, <3>1, <3>2, <3>5
  <2>4. QED
      BY <2>2, <2>3
<1>13. ASSUME Parsing, Op \in {"look", "check", "node"}, Goes(Rest), UNCHANGED <<cur, peek, open, slip>>
       PROVE  BracketsInv'
  <2>1. CASE slip
      BY <1>1, <1>13, <2>1
  <2>2. CASE ~slip
    <3>1. PICK p, q \in Spot : OpenAt(p) /\ Moves(Head(todo), p, q) /\ Passes(Rest, q, Plain(<<>>))
        BY <1>5, <1>13, <2>2
    <3>2. p = q
        BY <1>13, <3>1, QuietOps DEF Op
    <3>3. OpenAt(p)'
        BY <1>13, <3>1 DEF OpenAt
    <3>4. QED
        BY <1>3, <1>13, <3>1, <3>2, <3>3 DEF Goes
  <2>3. QED
      BY <2>1, <2>2
<1>14. CASE Pass
  <2>1. Op \in {"look", "check"} /\ UNCHANGED <<cur, peek, open, slip>>
      BY <1>14 DEF Pass, NotKeyword, NoComment, Op, Idles, tokenVars
  <2>2. QED
      BY <1>13, <1>14, <2>1 DEF Pass
<1>15. CASE FoldTokens
    BY <1>13, <1>15 DEF FoldTokens
<1>16. CASE SyntaxError
    BY <1>2, <1>16 DEF SyntaxError
<1>17. CASE UNCHANGED parserVars
    BY <1>17 DEF parserVars, BracketsInv, OpenAt
<1>18. QED
    BY <1>6, <1>7, <1>8, <1>9, <1>10, <1>11, <1>12, <1>14, <1>15, <1>16, <1>17 DEF ParserNext

(* Whatever tokens the scanner hands out, nested however deep: no loop of  *)
(* the parse functions goes round without reading a token (18 steps are    *)
(* the most between two tokens), every statement has closed each bracket   *)
(* that it opened by its like when Parse reads the token after it, unless  *)
(* an item took a "}" for its @handler, and a comment of an accepted file  *)
(* is in its tree.                                                         *)
THEOREM ParserAlwaysSound == ParserSpec => []ParserSound
<1>1. CommentsInv /\ IdleInv /\ BracketsInv /\ Over => StatementsEnd
  <2> SUFFICES ASSUME CommentsInv, IdleInv, BracketsInv, Over PROVE StatementsEnd
      OBVIOUS
  <2>1. idle < MaxIdle
      BY ParserAssumption DEF IdleInv, Level, Budget
  <2>2. ASSUME todo # <<>>, Op = "next", ~slip PROVE open = <<>>
    <3>1. outcome = "parsing"
        BY <2>2 DEF Over
    <3>2. Parsing
        BY <2>1, <2>2, <3>1 DEF Parsing
    <3>3. PICK p, q \in Spot : OpenAt(p) /\ Moves(Head(todo), p, q)
        BY <2>2, <3>2, BracketsTop
    <3>4. /\ \A f : Do(f)[1] = "do"
          /\ \A T : Advance(T)[1] = "advance"
          /\ \A x \in Quiet : x[1] # "next"
        BY DEF Do, Advance, Quiet
    <3>5. p = Plain(<<>>)
        BY <2>2, <3>3, <3>4 DEF Moves, Op
    <3>6. QED
        BY <3>3, <3>5 DEF OpenAt, Plain
  <2>3. QED
      BY <2>1, <2>2 DEF StatementsEnd
<1>2. ParserSpec => [](CommentsInv /\ IdleInv /\ BracketsInv /\ Over)
  <2>1. ParserInit => CommentsInv /\ IdleInv /\ BracketsInv /\ Over
    <3>1. ParserInit => Over
        BY DEF ParserInit, Over
    <3>2. QED
        BY <3>1, CommentsInitInv, IdleInitInv, BracketsInitInv
  <2>2. CommentsInv /\ IdleInv /\ BracketsInv /\ Over /\ [ParserNext]_parserVars
          => (CommentsInv /\ IdleInv /\ BracketsInv /\ Over)'
      BY CommentsStep, IdleStep, BracketsStep, OverStep
  <2>3. QED
      BY <2>1, <2>2, PTL DEF ParserSpec
<1>3. QED
    BY <1>1, <1>2, CommentsAlwaysKept, PTL DEF ParserSound

-----------------------------------------------------------------------------
(* ApiImports, for every set of files and of syntax values and any number  *)
(* of imports.                                                             *)

UnderWay == {frames[i].file : i \in 1 .. Len(frames)}
(* The imports that have returned.                                         *)
Done == importSet \ UnderWay

(* The files under way are a path of imports from the root.                *)
OnPath ==
  /\ frames[1].file = Root /\ Root \notin importSet
  /\ \A i, j \in 1 .. Len(frames) : frames[i].file = frames[j].file => i = j
  /\ \A i \in 2 .. Len(frames) : frames[i].file \in importSet
  /\ \A i \in 1 .. Len(frames) - 1 : frames[i + 1].file \in imports[frames[i].file]
  /\ \A i \in 1 .. Len(frames) : frames[i].left \subseteq imports[frames[i].file]
  /\ \A f \in File : f \notin importSet /\ f # Root => imports[f] = {}

(* An import that was looked at has returned, or is the next file under    *)
(* way.                                                                    *)
LookedInto ==
  \A i \in 1 .. Len(frames) : \A f \in imports[frames[i].file] :
    \/ f \in frames[i].left \/ f \in Done
    \/ i < Len(frames) /\ f = frames[i + 1].file

(* What has returned imports nothing else and has no cycle.                *)
NoCycleIn(D) == \A S \in SUBSET D : S # {} => \E f \in S : imports[f] \cap S = {}
DoneClosed == (\A f \in Done : imports[f] \subseteq Done) /\ NoCycleIn(Done)

(* The syntax of a file that has returned was that of the file it was      *)
(* merged into, or is that of a file in a list.                            *)
SyntaxKept ==
  /\ \A i \in 1 .. Len(frames) : frames[i].list \subseteq Done
  /\ \A f \in Done : \E i \in 1 .. Len(frames) : \E g \in frames[i].list : syntax[f] = syntax[g]

ImportsInv ==
  /\ ImportsTypeOK /\ OnPath
  /\ result = "running" => LookedInto /\ DoneClosed /\ SyntaxKept
  /\ CyclesRefused /\ OneSyntax

LEMMA ImportsInitInv == ImportsInit => ImportsInv
<1> SUFFICES ASSUME ImportsInit PROVE ImportsInv
    OBVIOUS
<1> USE ImportsAssumption
<1>1. PICK I \in SUBSET File :
        /\ imports = [f \in File |-> IF f = Root THEN I ELSE {}]
        /\ frames = <<NewAPI(Root, I)>>
    BY DEF ImportsInit
<1>2. importSet = {} /\ result = "running" /\ syntax \in [File -> Syntax]
    BY DEF ImportsInit
<1>3. /\ NewAPI(Root, I) \in Frame /\ NewAPI(Root, I).file = Root
      /\ NewAPI(Root, I).left = I /\ NewAPI(Root, I).list = {}
    BY DEF NewAPI, Frame
<1> DEFINE a == NewAPI(Root, I)
<1> HIDE DEF a
<1>4. frames \in Seq(Frame) /\ Len(frames) = 1 /\ frames[1] = a /\ frames # <<>>
      /\ a.file = Root /\ a.left = I /\ a.list = {}
    BY <1>1, <1>3 DEF a
<1>5. ImportsTypeOK
    BY <1>1, <1>2, <1>4 DEF ImportsTypeOK
<1>6. OnPath
    BY <1>1, <1>2, <1>4 DEF OnPath
<1>7. LookedInto
    BY <1>1, <1>4 DEF LookedInto
<1>8. DoneClosed /\ SyntaxKept
    BY <1>2, <1>4 DEF DoneClosed, SyntaxKept, NoCycleIn, Done
<1>9. QED
    BY <1>2, <1>5, <1>6, <1>7, <1>8 DEF ImportsInv, CyclesRefused, OneSyntax

-----------------------------------------------------------------------------
(* The top frame, and the frames under it.                                 *)
LEMMA TopFacts ==
  ASSUME ImportsInv
  PROVE  /\ Len(frames) \in Nat \ {0} /\ Len(frames) \in 1 .. Len(frames)
         /\ frames \in Seq(Frame) /\ Top = frames[Len(frames)] /\ Top \in Frame
         /\ \A i \in 1 .. Len(frames) : frames[i] \in Frame
         /\ Under \in Seq(Frame) /\ Len(Under) = Len(frames) - 1
         /\ \A i \in 1 .. Len(frames) - 1 : Under[i] = frames[i]
<1>1. frames \in Seq(Frame) /\ Len(frames) \in Nat \ {0}
    BY DEF ImportsInv, ImportsTypeOK
<1>2. \A i \in 1 .. Len(frames) : frames[i] \in Frame
    BY <1>1
<1>3. DOMAIN frames = 1 .. Len(frames) /\ Len(frames) \in 1 .. Len(frames)
    BY <1>1
<1>4. \A i \in 1 .. Len(frames) - 1 : frames[i] \in Frame
    BY <1>1, <1>2
<1>5. Under \in Seq(Frame) /\ Len(Under) = Len(frames) - 1
      /\ \A i \in 1 .. Len(frames) - 1 : Under[i] = frames[i]
    BY <1>1, <1>3, <1>4 DEF Under
<1>6. QED
    BY <1>1, <1>2, <1>3, <1>5 DEF Top

(* A file that is on the stack: OnStack ranges over the same indices.      *)
LEMMA OnStackIsUnderWay ==
  ASSUME ImportsInv, NEW f
  PROVE  OnStack(f) <=> f \in UnderWay
<1>1. DOMAIN frames = 1 .. Len(frames)
    BY DEF ImportsInv, ImportsTypeOK
<1>2. QED
    BY <1>1 DEF OnStack, UnderWay

(* Looking at an import takes it from the top frame.                       *)
LEMMA LookedAtFacts ==
  ASSUME ImportsInv, NEW f
  PROVE  LET s == Append(Under, LookedAt(f)) IN
         /\ s \in Seq(Frame) /\ Len(s) = Len(frames)
         /\ \A i \in 1 .. Len(frames) :
              /\ s[i].file = frames[i].file /\ s[i].list = frames[i].list
              /\ s[i].left = IF i = Len(frames) THEN frames[i].left \ {f} ELSE frames[i].left
<1> DEFINE e == LookedAt(f)
<1>1. /\ e \in Frame /\ e.file = Top.file /\ e.list = Top.list /\ e.left = Top.left \ {f}
    BY TopFacts DEF LookedAt, Frame
<1> HIDE DEF e
<1>2. /\ Len(frames) \in Nat \ {0} /\ Under \in Seq(Frame) /\ Len(Under) = Len(frames) - 1
      /\ \A i \in 1 .. Len(frames) - 1 : Under[i] = frames[i]
    BY TopFacts
<1>3. /\ Append(Under, e) \in Seq(Frame) /\ Len(Append(Under, e)) = Len(frames)
      /\ Append(Under, e)[Len(frames)] = e
      /\ \A i \in 1 .. Len(frames) - 1 : Append(Under, e)[i] = frames[i]
    BY <1>1, <1>2
<1>4. ASSUME NEW i \in 1 .. Len(frames)
      PROVE  i = Len(frames) \/ i \in 1 .. Len(frames) - 1
    BY <1>2
<1>5. Top = frames[Len(frames)]
    BY DEF Top
<1>6. QED
    BY <1>1, <1>2, <1>3, <1>4, <1>5 DEF e

-----------------------------------------------------------------------------
(* The files from the one that is imported again up to the top are a cycle.*)
LEMMA RefuseCycleInv ==
  ASSUME ImportsInv, result = "running", NEW f \in Top.left, RefuseCycle(f)
  PROVE  ImportsInv'
<1>1. OnStack(f) /\ result' = "cycle" /\ UNCHANGED <<imports, syntax, frames, importSet>>
    BY DEF RefuseCycle
<1>2. PICK i \in 1 .. Len(frames) : frames[i].file = f
    BY <1>1, OnStackIsUnderWay DEF UnderWay
<1>3. /\ Len(frames) \in Nat \ {0} /\ Top = frames[Len(frames)] /\ OnPath
      /\ Len(frames) \in 1 .. Len(frames) /\ \A j \in 1 .. Len(frames) : frames[j].file \in File
    BY TopFacts DEF ImportsInv, Frame
<1> DEFINE S == {frames[j].file : j \in i .. Len(frames)}
<1>4. S \in SUBSET File /\ f \in S
    BY <1>2, <1>3
<1>5. ASSUME NEW j \in i .. Len(frames) PROVE imports[frames[j].file] \cap S # {}
  <2>1. CASE j = Len(frames)
    <3>1. f \in imports[frames[j].file]
        BY <1>3, <2>1 DEF OnPath
    <3>2. QED
        BY <1>4, <3>1
  <2>2. CASE j \in i .. Len(frames) - 1
    <3>1. j \in 1 .. Len(frames) - 1 /\ j + 1 \in i .. Len(frames)
        BY <1>2, <1>3, <2>2
    <3>2. frames[j + 1].file \in imports[frames[j].file]
        BY <1>3, <3>1 DEF OnPath
    <3>3. QED
        BY <3>1, <3>2
  <2>3. QED
      BY <1>2, <1>3, <2>1, <2>2
<1>6. HasCycle
  <2>1. \A g \in S : imports[g] \cap S # {}
      BY <1>5
  <2> HIDE DEF S
  <2>2. QED
      BY <1>4, <2>1 DEF HasCycle
<1>7. ImportsTypeOK' /\ OnPath'
    BY <1>1 DEF ImportsInv, ImportsTypeOK, OnPath
<1>8. CyclesRefused' /\ OneSyntax'
    BY <1>1, <1>6 DEF CyclesRefused, OneSyntax, HasCycle
<1>9. QED
    BY <1>1, <1>7, <1>8 DEF ImportsInv

(* The import was taken up before and has returned.                        *)
LEMMA SkipKnownInv ==
  ASSUME ImportsInv, result = "running", NEW f \in Top.left, SkipKnown(f)
  PROVE  ImportsInv'
<1>1. /\ ~OnStack(f) /\ f \in importSet /\ frames' = Append(Under, LookedAt(f))
      /\ UNCHANGED <<imports, syntax, importSet, result>>
    BY DEF SkipKnown
<1>2. /\ frames' \in Seq(Frame) /\ Len(frames') = Len(frames)
      /\ \A i \in 1 .. Len(frames) :
           /\ frames'[i].file = frames[i].file /\ frames'[i].list = frames[i].list
           /\ frames'[i].left = IF i = Len(frames) THEN frames[i].left \ {f} ELSE frames[i].left
    BY <1>1, LookedAtFacts
<1>3. Len(frames) \in Nat \ {0} /\ f \in Done
    BY <1>1, TopFacts, OnStackIsUnderWay DEF Done
<1>same. UNCHANGED <<imports, syntax, importSet, result>>
    BY <1>1
<1>shape. /\ Len(frames') = Len(frames)
          /\ \A i \in 1 .. Len(frames) :
               /\ frames'[i].file = frames[i].file /\ frames'[i].list = frames[i].list
               /\ frames'[i].left \subseteq frames[i].left
               /\ \A g \in frames[i].left : g # f => g \in frames'[i].left
    BY <1>2
<1>4. UnderWay' = UnderWay /\ Done' = Done
  <2>1. UnderWay' = UnderWay
      BY <1>shape DEF UnderWay
  <2>2. QED
      BY <1>same, <2>1 DEF Done
<1>5. ImportsTypeOK' /\ frames' # <<>>
    BY <1>1, <1>2, <1>3 DEF ImportsInv, ImportsTypeOK
<1>6. OnPath'
  <2>1. \A i \in 1 .. Len(frames) - 1 : i \in 1 .. Len(frames) /\ i + 1 \in 1 .. Len(frames)
      BY <1>3
  <2>2. \A i \in 2 .. Len(frames) : i \in 1 .. Len(frames)
      BY <1>3
  <2>3. 1 \in 1 .. Len(frames) /\ OnPath
      BY <1>3 DEF ImportsInv
  <2>4. \A i \in 1 .. Len(frames) : frames'[i].left \subseteq imports[frames[i].file]
      BY <1>shape, <2>3 DEF OnPath
  <2>5. QED
      BY <1>same, <1>shape, <2>1, <2>2, <2>3, <2>4 DEF OnPath
<1>7. LookedInto'
  <2>0. /\ Len(frames') = Len(frames) /\ Done' = Done
        /\ \A i \in 1 .. Len(frames) : imports'[frames'[i].file] = imports[frames[i].file]
      BY <1>same, <1>shape, <1>4
  <2> SUFFICES ASSUME NEW i \in 1 .. Len(frames'), NEW g \in imports'[frames'[i].file]
               PROVE  \/ g \in frames'[i].left \/ g \in Done'
                      \/ i < Len(frames') /\ g = frames'[i + 1].file
      BY DEF LookedInto
  <2>1. /\ i \in 1 .. Len(frames)
        /\ g \in frames[i].left \/ g \in Done \/ (i < Len(frames) /\ g = frames[i + 1].file)
    <3>1. LookedInto
        BY DEF ImportsInv
    <3>2. i \in 1 .. Len(frames) /\ g \in imports[frames[i].file]
        BY <2>0
    <3>3. QED
        BY <3>1, <3>2 DEF LookedInto
  <2>2. g \in frames[i].left => g \in frames'[i].left \/ g \in Done
      BY <1>3, <1>shape, <2>1
  <2>3. i < Len(frames) => i + 1 \in 1 .. Len(frames)
      BY <1>3
  <2>4. QED
      BY <1>shape, <2>0, <2>1, <2>2, <2>3
<1>8. DoneClosed'
    BY <1>same, <1>4 DEF ImportsInv, DoneClosed, NoCycleIn
<1>9. SyntaxKept'
    BY <1>same, <1>shape, <1>4 DEF ImportsInv, SyntaxKept
<1>10. CyclesRefused' /\ OneSyntax'
    BY <1>same DEF CyclesRefused, OneSyntax
<1>11. QED
    BY <1>same, <1>5, <1>6, <1>7, <1>8, <1>9, <1>10 DEF ImportsInv

LEMMA EnterInv ==
  ASSUME ImportsInv, result = "running", NEW f \in Top.left, Enter(f)
  PROVE  ImportsInv'
<1>1. ~OnStack(f) /\ f \notin importSet /\ importSet' = importSet \cup {f}
    BY DEF Enter
<1>2. /\ Len(frames) \in Nat \ {0} /\ Top = frames[Len(frames)] /\ Top \in Frame
      /\ \A i \in 1 .. Len(frames) : frames[i] \in Frame
    BY TopFacts
<1>3. /\ f \in File /\ f \notin UnderWay /\ f # Root
      /\ importSet \subseteq File /\ importSet' \subseteq File
      /\ \A i \in 1 .. Len(frames) : frames[i].file # f /\ frames[i].file \in File
  <2>1. f \in File /\ importSet \subseteq File
      BY <1>2 DEF Frame, ImportsInv, ImportsTypeOK
  <2>2. f \notin UnderWay
      BY <1>1, OnStackIsUnderWay
  <2>3. Root \in UnderWay
      BY <1>2 DEF ImportsInv, OnPath, UnderWay
  <2>4. \A i \in 1 .. Len(frames) : frames[i].file \in File
      BY <1>2 DEF Frame
  <2>5. QED
      BY <1>1, <2>1, <2>2, <2>3, <2>4 DEF UnderWay
<1>4. CASE result' = "error" /\ UNCHANGED <<imports, syntax, frames>>
  <2>1. ImportsTypeOK'
      BY <1>3, <1>4 DEF ImportsInv, ImportsTypeOK
  <2>2. OnPath'
      BY <1>1, <1>3, <1>4 DEF ImportsInv, OnPath
  <2>3. QED
      BY <1>4, <2>1, <2>2 DEF ImportsInv, CyclesRefused, OneSyntax
<1>5. ASSUME NEW I \in SUBSET File, NEW s \in Syntax,
             imports' = [imports EXCEPT ![f] = I], syntax' = [syntax EXCEPT ![f] = s],
             frames' = Append(Append(Under, LookedAt(f)), NewAPI(f, I)), UNCHANGED result
      PROVE  ImportsInv'
  <2> DEFINE t == Append(Under, LookedAt(f))
  <2>1. /\ t \in Seq(Frame) /\ Len(t) = Len(frames)
        /\ \A i \in 1 .. Len(frames) :
             /\ t[i].file = frames[i].file /\ t[i].list = frames[i].list
             /\ t[i].left = IF i = Len(frames) THEN frames[i].left \ {f} ELSE frames[i].left
      BY LookedAtFacts
  <2> DEFINE new == NewAPI(f, I)
  <2>2. new \in Frame /\ new.file = f /\ new.left = I /\ new.list = {}
      BY <1>3 DEF NewAPI, Frame
  <2> HIDE DEF t, new
  <2>3. /\ frames' \in Seq(Frame) /\ Len(frames') = Len(frames) + 1
        /\ frames'[Len(frames) + 1] = new
        /\ \A i \in 1 .. Len(frames) : frames'[i] = t[i]
    <3>1. frames' = Append(t, new)
        BY <1>5 DEF t, new
    <3>2. QED
        BY <1>2, <2>1, <2>2, <3>1
  <2>shape. /\ Len(frames') = Len(frames) + 1
            /\ frames'[Len(frames) + 1].file = f /\ frames'[Len(frames) + 1].left = I
            /\ frames'[Len(frames) + 1].list = {}
            /\ \A i \in 1 .. Len(frames) :
                 /\ frames'[i].file = frames[i].file /\ frames'[i].list = frames[i].list
                 /\ frames'[i].left \subseteq frames[i].left
                 /\ \A g \in frames[i].left : i # Len(frames) \/ g # f => g \in frames'[i].left
      BY <2>1, <2>2, <2>3
  <2>len. Len(frames) \in Nat \ {0}
      BY <1>2
  <2>4. \A g \in File : /\ imports'[g] = IF g = f THEN I ELSE imports[g]
                        /\ syntax'[g] = IF g = f THEN s ELSE syntax[g]
      BY <1>3, <1>5 DEF ImportsInv, ImportsTypeOK
  <2>5. \A i \in 1 .. Len(frames) + 1 : i \in 1 .. Len(frames) \/ i = Len(frames) + 1
      BY <2>len
  <2>6. UnderWay' = UnderWay \cup {f}
    <3>1. ASSUME NEW i \in 1 .. Len(frames) + 1 PROVE frames'[i].file \in UnderWay \cup {f}
        BY <2>shape, <2>5 DEF UnderWay
    <3>2. f \in UnderWay'
      <4>1. Len(frames) + 1 \in 1 .. Len(frames') /\ frames'[Len(frames) + 1].file = f
          BY <2>len, <2>shape
      <4>2. QED
          BY <4>1 DEF UnderWay
    <3>3. ASSUME NEW i \in 1 .. Len(frames) PROVE frames[i].file \in UnderWay'
      <4>1. i \in 1 .. Len(frames') /\ frames'[i].file = frames[i].file
          BY <2>len, <2>shape
      <4>2. QED
          BY <4>1 DEF UnderWay
    <3>4. ASSUME NEW x \in UnderWay' PROVE x \in UnderWay \cup {f}
      <4>1. PICK i \in 1 .. Len(frames') : x = frames'[i].file
          BY DEF UnderWay
      <4>2. i \in 1 .. Len(frames) + 1
          BY <4>1, <2>shape
      <4>3. QED
          BY <3>1, <4>1, <4>2
    <3>5. ASSUME NEW x \in UnderWay PROVE x \in UnderWay'
        BY <3>3 DEF UnderWay
    <3>6. QED
        BY <3>2, <3>4, <3>5
  <2>7. Done' = Done /\ f \notin Done /\ Done \subseteq File
      BY <1>1, <1>3, <2>6 DEF Done
  <2>8. ImportsTypeOK'
    <3>1. imports' \in [File -> SUBSET File] /\ syntax' \in [File -> Syntax]
        BY <1>3, <1>5 DEF ImportsInv, ImportsTypeOK
    <3>2. frames' # <<>>
        BY <2>len, <2>shape
    <3>3. QED
        BY <1>3, <1>5, <2>3, <3>1, <3>2 DEF ImportsInv, ImportsTypeOK
  <2>9. OnPath /\ LookedInto /\ DoneClosed /\ SyntaxKept
      BY DEF ImportsInv
  <2>10. OnPath'
    <3>1. frames'[1].file = Root /\ Root \notin importSet'
        BY <1>1, <2>len, <1>3, <2>shape, <2>9 DEF OnPath
    <3>2. ASSUME NEW i \in 1 .. Len(frames'), NEW j \in 1 .. Len(frames'),
                 frames'[i].file = frames'[j].file
          PROVE  i = j
        BY <1>3, <2>shape, <2>5, <2>9, <3>2 DEF OnPath
    <3>3. ASSUME NEW i \in 2 .. Len(frames') PROVE frames'[i].file \in importSet'
      <4>1. i \in 2 .. Len(frames) \/ i = Len(frames) + 1
          BY <2>len, <2>shape
      <4>2. QED
          BY <1>1, <2>len, <2>shape, <2>9, <4>1 DEF OnPath
    <3>4. ASSUME NEW i \in 1 .. Len(frames') - 1
          PROVE  frames'[i + 1].file \in imports'[frames'[i].file]
      <4>1. CASE i = Len(frames)
        <5>1. f \in imports[frames[i].file]
            BY <1>2, <2>9, <4>1 DEF OnPath
        <5>2. QED
            BY <2>len, <1>3, <2>shape, <2>4, <4>1, <5>1
      <4>2. CASE i \in 1 .. Len(frames) - 1
        <5>1. frames[i + 1].file \in imports[frames[i].file]
            BY <2>9, <4>2 DEF OnPath
        <5>2. i \in 1 .. Len(frames) /\ i + 1 \in 1 .. Len(frames)
            BY <2>len, <4>2
        <5>3. QED
            BY <1>3, <2>shape, <2>4, <5>1, <5>2
      <4>3. QED
          BY <2>len, <2>shape, <4>1, <4>2
    <3>5. ASSUME NEW i \in 1 .. Len(frames')
          PROVE  frames'[i].left \subseteq imports'[frames'[i].file]
      <4>1. CASE i = Len(frames) + 1
          BY <1>3, <2>shape, <2>4, <4>1
      <4>2. CASE i \in 1 .. Len(frames)
        <5>1. frames[i].left \subseteq imports[frames[i].file]
            BY <2>9, <4>2 DEF OnPath
        <5>2. QED
            BY <1>3, <2>shape, <2>4, <4>2, <5>1
      <4>3. QED
          BY <2>shape, <2>5, <4>1, <4>2
    <3>6. \A g \in File : g \notin importSet' /\ g # Root => imports'[g] = {}
        BY <1>1, <2>4, <2>9 DEF OnPath
    <3>7. QED
        BY <3>1, <3>2, <3>3, <3>4, <3>5, <3>6 DEF OnPath
  <2>11. LookedInto'
    <3> SUFFICES ASSUME NEW i \in 1 .. Len(frames'), NEW g \in imports'[frames'[i].file]
                 PROVE  \/ g \in frames'[i].left \/ g \in Done
                        \/ i < Len(frames') /\ g = frames'[i + 1].file
        BY <2>7 DEF LookedInto
    <3>1. CASE i = Len(frames) + 1
        BY <1>3, <2>shape, <2>4, <3>1
    <3>2. CASE i \in 1 .. Len(frames)
      <4>1. g \in imports[frames[i].file]
          BY <1>3, <2>shape, <2>4, <3>2
      <4>2. \/ g \in frames[i].left \/ g \in Done
            \/ i < Len(frames) /\ g = frames[i + 1].file
          BY <2>9, <3>2, <4>1 DEF LookedInto
      <4>3. CASE g \in frames[i].left
        <5>1. CASE g \in frames'[i].left
            BY <5>1
        <5>2. CASE g \notin frames'[i].left
          <6>1. i = Len(frames) /\ g = f
              BY <2>shape, <3>2, <4>3, <5>2
          <6>2. QED
              BY <2>len, <2>shape, <6>1
        <5>3. QED
            BY <5>1, <5>2
      <4>4. CASE i < Len(frames) /\ g = frames[i + 1].file
        <5>1. i + 1 \in 1 .. Len(frames) /\ i < Len(frames')
            BY <2>len, <2>shape, <4>4
        <5>2. QED
            BY <2>shape, <4>4, <5>1
      <4>5. QED
          BY <4>2, <4>3, <4>4
    <3>3. QED
        BY <2>shape, <2>5, <3>1, <3>2
  <2>12. DoneClosed'
    <3>1. \A g \in Done : imports'[g] = imports[g]
        BY <2>4, <2>7
    <3>2. NoCycleIn(Done)'
      <4>1. SUFFICES ASSUME NEW S \in SUBSET Done, S # {} PROVE \E g \in S : imports'[g] \cap S = {}
          BY <2>7 DEF NoCycleIn
      <4>2. PICK g \in S : imports[g] \cap S = {}
          BY <2>9, <4>1 DEF DoneClosed, NoCycleIn
      <4>3. QED
          BY <3>1, <4>2
    <3>3. QED
        BY <2>7, <2>9, <3>1, <3>2 DEF DoneClosed
  <2>13. SyntaxKept'
    <3>1. ASSUME NEW i \in 1 .. Len(frames') PROVE frames'[i].list \subseteq Done
        BY <2>shape, <2>5, <2>9 DEF SyntaxKept
    <3>2. ASSUME NEW g \in Done
          PROVE  \E i \in 1 .. Len(frames') : \E h \in frames'[i].list : syntax'[g] = syntax'[h]
      <4>0. PICK i \in 1 .. Len(frames) : \E h \in frames[i].list : syntax[g] = syntax[h]
          BY <2>9 DEF SyntaxKept
      <4>1. PICK h \in frames[i].list : syntax[g] = syntax[h]
          BY <4>0
      <4>2. h \in Done
          BY <2>9 DEF SyntaxKept
      <4>3. syntax'[g] = syntax'[h]
          BY <2>4, <2>7, <4>1, <4>2
      <4>4. i \in 1 .. Len(frames') /\ h \in frames'[i].list
          BY <2>len, <2>shape
      <4>5. QED
          BY <4>3, <4>4
    <3>3. QED
        BY <2>7, <3>1, <3>2 DEF SyntaxKept
  <2>14. CyclesRefused' /\ OneSyntax'
      BY <1>5 DEF CyclesRefused, OneSyntax
  <2>15. QED
      BY <2>8, <2>10, <2>11, <2>12, <2>13, <2>14 DEF ImportsInv
<1>6. QED
    BY <1>4, <1>5 DEF Enter

-----------------------------------------------------------------------------
(* When nothing is left of the top file, what it imports has returned.     *)
LEMMA TopReturns ==
  ASSUME ImportsInv, result = "running", Top.left = {}
  PROVE  /\ imports[Top.file] \subseteq Done /\ Top.file \in File /\ Top.file \notin Done
         /\ NoCycleIn(Done \cup {Top.file})
<1>1. /\ Len(frames) \in Nat \ {0} /\ Len(frames) \in 1 .. Len(frames)
      /\ Top = frames[Len(frames)] /\ Top \in Frame
    BY TopFacts
<1>2. OnPath /\ LookedInto /\ DoneClosed
    BY DEF ImportsInv
<1>3. imports[Top.file] \subseteq Done
    BY <1>1, <1>2 DEF LookedInto
<1>4. Top.file \in File /\ Top.file \notin Done
    BY <1>1 DEF Frame, Done, UnderWay
<1>5. NoCycleIn(Done \cup {Top.file})
  <2> SUFFICES ASSUME NEW S \in SUBSET (Done \cup {Top.file}), S # {}
               PROVE  \E f \in S : imports[f] \cap S = {}
      BY DEF NoCycleIn
  <2>1. CASE S \ {Top.file} = {}
      BY <1>3, <1>4, <2>1
  <2>2. CASE S \ {Top.file} # {}
    <3>1. S \ {Top.file} \in SUBSET Done
        OBVIOUS
    <3>2. PICK f \in S \ {Top.file} : imports[f] \cap (S \ {Top.file}) = {}
        BY <1>2, <2>2, <3>1 DEF DoneClosed, NoCycleIn
    <3>3. imports[f] \subseteq Done
        BY <1>2, <3>1, <3>2 DEF DoneClosed
    <3>4. QED
        BY <1>4, <3>2, <3>3
  <2>3. QED
      BY <2>1, <2>2
<1>6. QED
    BY <1>3, <1>4, <1>5

(* The root is done: nothing that was read is in a cycle, and what was     *)
(* never compared with the root has its syntax.                            *)
LEMMA RootReturns ==
  ASSUME ImportsInv, result = "running", Top.left = {}, Merges, Len(frames) = 1
  PROVE  ~HasCycle /\ \A f \in importSet : syntax[f] = syntax[Root]
<1>1. /\ Top = frames[1] /\ Top.file = Root /\ 1 \in 1 .. Len(frames)
      /\ OnPath /\ SyntaxKept /\ importSet \subseteq File
    BY DEF ImportsInv, Top, OnPath, ImportsTypeOK
<1>2. UnderWay = {Root}
    BY <1>1 DEF UnderWay
<1>3. Done = importSet
    BY <1>1, <1>2 DEF Done, OnPath
<1>4. NoCycleIn(importSet \cup {Root})
    BY <1>1, <1>3, TopReturns
<1>5. ~HasCycle
  <2> SUFFICES ASSUME NEW S \in SUBSET File, S # {}, \A f \in S : imports[f] \cap S # {}
               PROVE  FALSE
      BY DEF HasCycle
  <2>1. S \subseteq importSet \cup {Root}
      BY <1>1 DEF OnPath
  <2>2. QED
      BY <1>4, <2>1 DEF NoCycleIn
<1>6. ASSUME NEW f \in importSet PROVE syntax[f] = syntax[Root]
  <2>1. PICK i \in 1 .. Len(frames) : \E g \in frames[i].list : syntax[f] = syntax[g]
      BY <1>1, <1>3 DEF SyntaxKept
  <2>2. i = 1
      OBVIOUS
  <2>3. QED
      BY <1>1, <2>1, <2>2 DEF Merges
<1>7. QED
    BY <1>5, <1>6

(* What mergeAPI makes of the file that takes in another.                  *)
LEMMA MergedFacts ==
  ASSUME Top \in Frame, NEW r \in Frame
  PROVE  /\ WithMerged(r) \in Frame /\ WithMerged(r).file = r.file /\ WithMerged(r).left = r.left
         /\ WithMerged(r).list = r.list \cup {Top.file}
         /\ \A f \in File : WithMerged(r).holds[f]
                             = r.holds[f] + Top.holds[f] + IF f = Top.file THEN 1 ELSE 0
<1> DEFINE H == [f \in File |-> r.holds[f] + Top.holds[f] + IF f = Top.file THEN 1 ELSE 0]
           g == WithMerged(r)
<1>1. H \in [File -> Nat]
  <2>1. r.holds \in [File -> Nat] /\ Top.holds \in [File -> Nat]
      BY DEF Frame
  <2>2. QED
      BY <2>1
<1>2. g = [[r EXCEPT !.list = r.list \cup {Top.file}] EXCEPT !.holds = H]
    BY DEF WithMerged, Frame
<1>3. \A f \in File : H[f] = r.holds[f] + Top.holds[f] + IF f = Top.file THEN 1 ELSE 0
    OBVIOUS
<1> HIDE DEF H, g
<1>4. r.list \cup {Top.file} \in SUBSET File
    BY DEF Frame
<1>5. /\ g \in Frame /\ g.file = r.file /\ g.left = r.left
      /\ g.list = r.list \cup {Top.file} /\ g.holds = H
    BY <1>1, <1>2, <1>4 DEF Frame
<1>6. QED
    BY <1>3, <1>5 DEF g

LEMMA Prefix ==
  ASSUME NEW S, NEW s \in Seq(S), NEW k \in Nat, k <= Len(s)
  PROVE  /\ SubSeq(s, 1, k) \in Seq(S) /\ Len(SubSeq(s, 1, k)) = k
         /\ \A i \in 1 .. k : SubSeq(s, 1, k)[i] = s[i]
<1>1. Len(s) \in Nat /\ DOMAIN s = 1 .. Len(s) /\ \A i \in 1 .. k : s[i] \in S
    OBVIOUS
<1>2. QED
    BY <1>1

LEMMA OneOrMore == ASSUME NEW m \in Nat, m # 0 PROVE m = 1 \/ (m > 1 /\ m - 1 \in Nat \ {0})
    OBVIOUS

(* The file that returns leaves the stack and is in the list of the file   *)
(* that imports it, or ends the parse.                                     *)
LEMMA ReturnInv == ASSUME ImportsInv, Return PROVE ImportsInv'
<1>1. /\ result = "running" /\ Top.left = {} /\ UNCHANGED <<imports, syntax, importSet>>
    BY DEF Return
<1>2. /\ Len(frames) \in Nat \ {0} /\ Len(frames) \in 1 .. Len(frames)
      /\ Top = frames[Len(frames)] /\ Top \in Frame /\ frames \in Seq(Frame)
      /\ \A i \in 1 .. Len(frames) : frames[i] \in Frame
    BY TopFacts
<1>3. /\ imports[Top.file] \subseteq Done /\ Top.file \in File /\ Top.file \notin Done
      /\ NoCycleIn(Done \cup {Top.file})
    BY <1>1, TopReturns
<1>4. OnPath /\ LookedInto /\ DoneClosed /\ SyntaxKept /\ ImportsTypeOK
    BY <1>1 DEF ImportsInv
<1>5. CASE ~(Merges /\ Len(frames) > 1)
  <2>1. UNCHANGED frames /\ result' \in IF Merges THEN {"ok", "error"} ELSE {"error"}
      BY <1>5 DEF Return
  <2>2. Merges => Len(frames) = 1
    <3>1. Len(frames) > 1 \/ Len(frames) = 1
      <4>1. Len(frames) \in Nat /\ Len(frames) # 0
          BY <1>2
      <4>2. QED
          BY <4>1, OneOrMore
    <3>2. QED
        BY <1>5, <3>1
  <2>3. result' = "ok" => ~HasCycle /\ \A f \in importSet : syntax[f] = syntax[Root]
      BY <1>1, <2>1, <2>2, RootReturns
  <2>4. ImportsTypeOK' /\ OnPath'
      BY <1>1, <1>4, <2>1 DEF ImportsTypeOK, OnPath
  <2>5. result' \in {"ok", "error"}
      BY <2>1
  <2>6. CyclesRefused' /\ OneSyntax'
      BY <1>1, <2>3, <2>5 DEF CyclesRefused, OneSyntax, HasCycle
  <2>7. QED
      BY <2>4, <2>5, <2>6 DEF ImportsInv
<1>6. CASE Merges /\ Len(frames) > 1
  <2> DEFINE n == Len(frames) - 1
             g == WithMerged(frames[n])
  <2>1. /\ n \in Nat \ {0} /\ n \in 1 .. Len(frames) /\ Len(frames) = n + 1 /\ n \in 1 .. n
        /\ \A i \in 1 .. n : i \in 1 .. Len(frames)
      BY <1>2, <1>6
  <2>2. frames' = Append(SubSeq(frames, 1, n - 1), g) /\ UNCHANGED result
    <3>1. Len(frames) - 2 = n - 1
        BY <1>2
    <3>2. QED
        BY <1>6, <3>1 DEF Return
  <2>3. /\ g \in Frame /\ g.file = frames[n].file /\ g.left = frames[n].left
        /\ g.list = frames[n].list \cup {Top.file}
    <3>1. frames[n] \in Frame
        BY <1>2, <2>1
    <3>2. QED
        BY <1>2, <3>1, MergedFacts
  <2> HIDE DEF g
  <2>4. /\ frames' \in Seq(Frame) /\ Len(frames') = n /\ frames'[n] = g
        /\ \A i \in 1 .. n - 1 : frames'[i] = frames[i]
    <3> DEFINE u == SubSeq(frames, 1, n - 1)
    <3> HIDE DEF n
    <3>2. /\ u \in Seq(Frame) /\ Len(u) = n - 1 /\ \A i \in 1 .. n - 1 : u[i] = frames[i]
      <4>1. n - 1 \in Nat /\ n - 1 <= Len(frames)
          BY <2>1
      <4>2. frames \in Seq(Frame)
          BY <1>2
      <4>3. QED
          BY <4>1, <4>2, Prefix
    <3> HIDE DEF u
    <3>3. frames' = Append(u, g)
        BY <2>2 DEF u
    <3>4. n \in Nat \ {0} /\ Len(u) + 1 = n /\ g \in Frame /\ u \in Seq(Frame)
      <4>1. n \in Nat \ {0} /\ g \in Frame
          BY <2>1, <2>3
      <4>2. Len(u) = n - 1 /\ u \in Seq(Frame)
          BY <3>2
      <4>3. n - 1 + 1 = n
          BY <4>1
      <4>4. QED
          BY <4>1, <4>2, <4>3
    <3>5. /\ Append(u, g) \in Seq(Frame) /\ Len(Append(u, g)) = n /\ Append(u, g)[n] = g
          /\ \A i \in 1 .. Len(u) : Append(u, g)[i] = u[i]
        BY <3>4
    <3>6. frames' \in Seq(Frame) /\ Len(frames') = n /\ frames'[n] = g
        BY <3>3, <3>5
    <3>7. ASSUME NEW i \in 1 .. n - 1 PROVE frames'[i] = frames[i]
        BY <3>2, <3>3, <3>5
    <3>8. QED
        BY <3>6, <3>7
  <2> HIDE DEF n
  <2>shape. /\ Len(frames') = n /\ Len(frames) = n + 1 /\ n \in Nat \ {0} /\ n \in 1 .. n
            /\ \A i \in 1 .. n : /\ frames'[i].file = frames[i].file
                                /\ frames'[i].left = frames[i].left
                                /\ frames[i].list \subseteq frames'[i].list
                                /\ i \in 1 .. n + 1
            /\ Top.file \in frames'[n].list
            /\ \A i \in 1 .. n : frames'[i].list \subseteq frames[i].list \cup {Top.file}
    <3>1. \A i \in 1 .. n : i = n \/ i \in 1 .. n - 1
        BY <2>1
    <3>2. QED
        BY <2>1, <2>3, <2>4, <3>1
  <2>top. Top.file = frames[n + 1].file /\ n + 1 \in 1 .. n + 1
      BY <1>2, <2>shape
  <2>5. UnderWay' = UnderWay \ {Top.file}
    <3>1. ASSUME NEW i \in 1 .. n PROVE frames'[i].file \in UnderWay \ {Top.file}
      <4>1. frames[i].file # frames[n + 1].file
          BY <1>4, <2>shape, <2>top DEF OnPath
      <4>2. QED
          BY <2>shape, <2>top, <4>1 DEF UnderWay
    <3>2. ASSUME NEW i \in 1 .. n + 1, frames[i].file # Top.file PROVE frames[i].file \in UnderWay'
      <4>1. i \in 1 .. n
          BY <2>shape, <2>top, <3>2
      <4>2. QED
          BY <2>shape, <4>1 DEF UnderWay
    <3>3. UnderWay' \subseteq UnderWay \ {Top.file}
        BY <2>shape, <3>1 DEF UnderWay
    <3>4. UnderWay \ {Top.file} \subseteq UnderWay'
        BY <2>shape, <3>2 DEF UnderWay
    <3>5. QED
        BY <3>3, <3>4
  <2>6. Top.file \in importSet
    <3>1. n + 1 \in 2 .. Len(frames)
        BY <2>shape
    <3>2. QED
        BY <1>4, <2>top, <3>1 DEF OnPath
  <2>7. Done' = Done \cup {Top.file}
      BY <1>1, <2>5, <2>6 DEF Done
  <2>8. ImportsTypeOK'
    <3>1. frames' # <<>>
        BY <2>1, <2>4
    <3>2. QED
        BY <1>1, <1>4, <2>2, <2>4, <3>1 DEF ImportsTypeOK
  <2>9. OnPath'
    <3>1. /\ \A i \in 1 .. n - 1 : i \in 1 .. n /\ i + 1 \in 1 .. n /\ i \in 1 .. n + 1 - 1
          /\ \A i \in 2 .. n : i \in 2 .. n + 1 /\ i \in 1 .. n
          /\ 1 \in 1 .. n
      <4>1. n \in Nat \ {0}
          BY <2>shape
      <4>2. QED
          BY <4>1
    <3>2. UNCHANGED <<imports, importSet>>
        BY <1>1
    <3>3. frames'[1].file = Root /\ Root \notin importSet'
        BY <1>4, <2>shape, <3>1, <3>2 DEF OnPath
    <3>4. \A i, j \in 1 .. n : frames'[i].file = frames'[j].file => i = j
      <4>1. \A i, j \in 1 .. Len(frames) : frames[i].file = frames[j].file => i = j
          BY <1>4 DEF OnPath
      <4>2. \A i \in 1 .. n : i \in 1 .. Len(frames) /\ frames'[i].file = frames[i].file
          BY <2>shape
      <4>3. QED
          BY <4>1, <4>2
    <3>5. \A i \in 2 .. n : frames'[i].file \in importSet
        BY <1>4, <2>shape, <3>1 DEF OnPath
    <3>6. \A i \in 1 .. n - 1 : frames'[i + 1].file \in imports[frames'[i].file]
        BY <1>4, <2>shape, <3>1 DEF OnPath
    <3>7. \A i \in 1 .. n : frames'[i].left \subseteq imports[frames'[i].file]
        BY <1>4, <2>shape DEF OnPath
    <3>8. \A f \in File : f \notin importSet /\ f # Root => imports[f] = {}
        BY <1>4 DEF OnPath
    <3>9. Len(frames') = n
        BY <2>shape
    <3>10. QED
        BY <3>2, <3>3, <3>4, <3>5, <3>6, <3>7, <3>8, <3>9 DEF OnPath
  <2>10. LookedInto'
    <3> SUFFICES ASSUME NEW i \in 1 .. Len(frames'), NEW f \in imports'[frames'[i].file]
                 PROVE  \/ f \in frames'[i].left \/ f \in Done'
                        \/ i < Len(frames') /\ f = frames'[i + 1].file
        BY DEF LookedInto
    <3>1. i \in 1 .. n /\ i \in 1 .. Len(frames) /\ f \in imports[frames[i].file]
        BY <1>1, <2>shape
    <3>2. f \in frames[i].left \/ f \in Done \/ (i < Len(frames) /\ f = frames[i + 1].file)
        BY <1>4, <3>1 DEF LookedInto
    <3>3. CASE i = n
        BY <2>7, <2>shape, <2>top, <3>1, <3>2, <3>3
    <3>4. CASE i < n
      <4>1. i + 1 \in 1 .. n
          BY <2>shape, <3>1, <3>4
      <4>2. QED
          BY <2>7, <2>shape, <3>1, <3>2, <3>4, <4>1
    <3>5. QED
        BY <2>shape, <3>1, <3>3, <3>4
  <2>11. DoneClosed'
    <3>1. imports' = imports
        BY <1>1
    <3>2. \A f \in Done' : imports'[f] \subseteq Done'
        BY <1>3, <1>4, <2>7, <3>1 DEF DoneClosed
    <3>3. NoCycleIn(Done)'
        BY <1>3, <2>7, <3>1 DEF NoCycleIn
    <3>4. QED
        BY <3>2, <3>3 DEF DoneClosed
  <2>12. SyntaxKept'
    <3>1. ASSUME NEW i \in 1 .. Len(frames') PROVE frames'[i].list \subseteq Done'
        BY <1>4, <2>7, <2>shape DEF SyntaxKept
    <3>2. ASSUME NEW f \in Done'
          PROVE  \E i \in 1 .. Len(frames') : \E h \in frames'[i].list : syntax'[f] = syntax'[h]
      <4>1. CASE f = Top.file
          BY <1>1, <2>shape, <4>1
      <4>2. CASE f \in Done
        <5>1. PICK i \in 1 .. Len(frames) : \E h \in frames[i].list : syntax[f] = syntax[h]
            BY <1>4, <4>2 DEF SyntaxKept
        <5>2. PICK h \in frames[i].list : syntax[f] = syntax[h]
            BY <5>1
        <5>3. CASE i \in 1 .. n
            BY <1>1, <2>shape, <5>2, <5>3
        <5>4. CASE i = n + 1
          <6>1. h \in Top.list
              BY <1>2, <2>shape, <5>2, <5>4
          <6>2. syntax[h] = syntax[Top.file]
              BY <1>6, <6>1 DEF Merges
          <6>3. QED
              BY <1>1, <2>shape, <5>2, <6>2
        <5>5. QED
            BY <2>shape, <5>3, <5>4
      <4>3. QED
          BY <2>7, <4>1, <4>2
    <3>3. QED
        BY <3>1, <3>2 DEF SyntaxKept
  <2>13. CyclesRefused' /\ OneSyntax'
      BY <1>1, <2>2 DEF CyclesRefused, OneSyntax
  <2>14. QED
      BY <2>8, <2>9, <2>10, <2>11, <2>12, <2>13 DEF ImportsInv
<1>7. QED
    BY <1>5, <1>6

LEMMA ImportsKept == ASSUME ImportsInv, [ImportsNext]_importVars PROVE ImportsInv'
<1>1. CASE UNCHANGED importVars
  <2>1. UNCHANGED <<imports, syntax, frames, importSet, result>>
      BY <1>1 DEF importVars
  <2>2. UnderWay' = UnderWay /\ Done' = Done
      BY <2>1 DEF UnderWay, Done
  <2>3. ImportsTypeOK' /\ OnPath' /\ CyclesRefused' /\ OneSyntax'
      BY <2>1 DEF ImportsInv, ImportsTypeOK, OnPath, CyclesRefused, OneSyntax, HasCycle
  <2>4. (LookedInto => LookedInto') /\ (DoneClosed => DoneClosed') /\ (SyntaxKept => SyntaxKept')
      BY <2>1, <2>2 DEF LookedInto, DoneClosed, NoCycleIn, SyntaxKept
  <2>5. QED
      BY <2>1, <2>3, <2>4 DEF ImportsInv
<1>2. CASE Import
    BY <1>2, RefuseCycleInv, SkipKnownInv, EnterInv DEF Import
<1>3. CASE Return
    BY <1>3, ReturnInv
<1>4. QED
    BY <1>1, <1>2, <1>3 DEF ImportsNext

-----------------------------------------------------------------------------
(* A file that has returned is held by one file under way, once; others    *)
(* are held by none.  Only files that the root leads to are taken up.      *)
HeldOnce(f) ==
  \E i \in 1 .. Len(frames) :
    /\ frames[i].holds[f] = 1
    /\ \A j \in 1 .. Len(frames) : j # i => frames[j].holds[f] = 0
HeldByNone(f) == \A i \in 1 .. Len(frames) : frames[i].holds[f] = 0
Held ==
  /\ \A f \in Done : HeldOnce(f)
  /\ \A f \in File \ Done : HeldByNone(f)
Reached == \A S \in SUBSET File : Closed(S) => importSet \subseteq S

OnceInv == Reached /\ (result = "running" => Held) /\ EachFileOnce

LEMMA OnceInitInv == ImportsInit => OnceInv
<1> SUFFICES ASSUME ImportsInit PROVE OnceInv
    OBVIOUS
<1>1. PICK I \in SUBSET File : frames = <<NewAPI(Root, I)>>
    BY DEF ImportsInit
<1>2. importSet = {} /\ result = "running"
    BY DEF ImportsInit
<1>3. Len(frames) = 1 /\ \A f \in File : frames[1].holds[f] = 0
    BY <1>1 DEF NewAPI
<1>4. Held
    BY <1>2, <1>3 DEF Held, HeldByNone, Done
<1>5. QED
    BY <1>2, <1>4 DEF OnceInv, Reached, EachFileOnce

(* Looking at an import changes nothing that is held.                      *)
LEMMA LookKeepsHolds ==
  ASSUME ImportsInv, NEW f
  PROVE  \A i \in 1 .. Len(frames) : Append(Under, LookedAt(f))[i].holds = frames[i].holds
<1> DEFINE e == LookedAt(f)
<1>1. e \in Frame /\ e.holds = Top.holds
    BY TopFacts DEF LookedAt, Frame
<1> HIDE DEF e
<1>2. /\ Len(frames) \in Nat \ {0} /\ Under \in Seq(Frame) /\ Len(Under) = Len(frames) - 1
      /\ \A i \in 1 .. Len(frames) - 1 : Under[i] = frames[i]
    BY TopFacts
<1>3. /\ Append(Under, e)[Len(frames)] = e
      /\ \A i \in 1 .. Len(frames) - 1 : Append(Under, e)[i] = frames[i]
    BY <1>1, <1>2
<1>4. ASSUME NEW i \in 1 .. Len(frames)
      PROVE  i = Len(frames) \/ i \in 1 .. Len(frames) - 1
    BY <1>2
<1>5. QED
    BY <1>1, <1>3, <1>4 DEF Top, e

LEMMA OnceSkip ==
  ASSUME ImportsInv, OnceInv, result = "running", NEW f \in Top.left, SkipKnown(f)
  PROVE  OnceInv'
<1>1. frames' = Append(Under, LookedAt(f)) /\ UNCHANGED <<imports, syntax, importSet, result>>
    BY DEF SkipKnown
<1>2. Len(frames') = Len(frames) /\ \A i \in 1 .. Len(frames) : frames'[i].file = frames[i].file
    BY <1>1, LookedAtFacts
<1>3. \A i \in 1 .. Len(frames) : frames'[i].holds = frames[i].holds
    BY <1>1, LookKeepsHolds
<1>4. Done' = Done
    BY <1>1, <1>2 DEF Done, UnderWay
<1>5. Held'
    BY <1>2, <1>3, <1>4 DEF OnceInv, Held, HeldOnce, HeldByNone
<1>6. Reached'
    BY <1>1 DEF OnceInv, Reached, Closed
<1>7. QED
    BY <1>1, <1>5, <1>6 DEF OnceInv, EachFileOnce

LEMMA FirstOrLater == ASSUME NEW m \in Nat \ {0} PROVE m = 1 \/ m \in 2 .. m
    OBVIOUS

(* What is taken up is imported by a file that was.                        *)
LEMMA EnterReached ==
  ASSUME ImportsInv, OnceInv, result = "running", NEW f \in Top.left, Enter(f)
  PROVE  Reached'
<1>1. /\ Top \in Frame /\ Len(frames) \in 1 .. Len(frames) /\ Top = frames[Len(frames)]
      /\ Len(frames) \in Nat \ {0}
    BY TopFacts
<1>2. OnPath /\ imports \in [File -> SUBSET File]
    BY DEF ImportsInv, ImportsTypeOK
<1>3. /\ f \in imports[Top.file] /\ f \in File /\ Top.file \in File
      /\ Top.file \in importSet \cup {Root}
  <2>1. Len(frames) = 1 \/ Len(frames) \in 2 .. Len(frames)
      BY <1>1, FirstOrLater
  <2>2. QED
      BY <1>1, <1>2, <2>1 DEF OnPath, Frame
<1>4. f \notin importSet /\ importSet' = importSet \cup {f} /\ ~OnStack(f)
    BY DEF Enter
<1>5. f # Top.file /\ f # Root
  <2>1. f \notin UnderWay
      BY <1>4, OnStackIsUnderWay
  <2>2. QED
      BY <1>1, <1>2, <2>1 DEF UnderWay, OnPath
<1>6. imports[f] = {}
    BY <1>2, <1>3, <1>4, <1>5 DEF OnPath
<1>7. \A h \in File : imports[h] \subseteq imports'[h]
  <2>1. UNCHANGED imports \/ \E I \in SUBSET File : imports' = [imports EXCEPT ![f] = I]
      BY DEF Enter
  <2>2. QED
      BY <1>2, <1>6, <2>1
<1>8. SUFFICES ASSUME NEW S \in SUBSET File, Closed(S)' PROVE importSet' \subseteq S
    BY DEF Reached
<1>9. Closed(S)
    BY <1>7, <1>8 DEF Closed
<1>10. importSet \cup {Root} \subseteq S
    BY <1>9 DEF OnceInv, Reached, Closed
<1>11. QED
    BY <1>3, <1>4, <1>9, <1>10 DEF Closed

LEMMA OnceEnter ==
  ASSUME ImportsInv, OnceInv, result = "running", NEW f \in Top.left, Enter(f)
  PROVE  OnceInv'
<1>1. Reached'
    BY EnterReached
<1>2. CASE result' = "error"
    BY <1>1, <1>2 DEF OnceInv, EachFileOnce
<1>3. ASSUME NEW I \in SUBSET File,
             frames' = Append(Append(Under, LookedAt(f)), NewAPI(f, I)), UNCHANGED result
      PROVE  OnceInv'
  <2> DEFINE t == Append(Under, LookedAt(f))
             new == NewAPI(f, I)
  <2>1. /\ t \in Seq(Frame) /\ Len(t) = Len(frames) /\ Len(frames) \in Nat \ {0}
        /\ \A i \in 1 .. Len(frames) : t[i].file = frames[i].file /\ t[i].holds = frames[i].holds
      BY LookedAtFacts, LookKeepsHolds, TopFacts
  <2>2. new.file = f /\ \A h \in File : new.holds[h] = 0
      BY DEF NewAPI
  <2> HIDE DEF t, new
  <2>3. /\ Len(frames') = Len(frames) + 1 /\ frames'[Len(frames) + 1] = new
        /\ \A i \in 1 .. Len(frames) : frames'[i] = t[i]
    <3>1. frames' = Append(t, new)
        BY <1>3 DEF t, new
    <3>2. QED
        BY <2>1, <3>1
  <2>4. \A i \in 1 .. Len(frames') : i \in 1 .. Len(frames) \/ i = Len(frames) + 1
      BY <2>1, <2>3
  <2>5. \A i \in 1 .. Len(frames) : i \in 1 .. Len(frames') /\ i # Len(frames) + 1
      BY <2>1, <2>3
  <2>6. Len(frames) + 1 \in 1 .. Len(frames')
      BY <2>1, <2>3
  <2>7. UnderWay' = UnderWay \cup {f}
      BY <2>1, <2>2, <2>3, <2>4, <2>5, <2>6 DEF UnderWay
  <2>8. Done' = Done
    <3>1. importSet' = importSet \cup {f} /\ f \notin importSet
        BY DEF Enter
    <3>2. QED
        BY <2>7, <3>1 DEF Done
  <2>9. Done \subseteq File
      BY DEF Done, ImportsInv, ImportsTypeOK
  <2>10. Held
      BY <1>3 DEF OnceInv
  <2>11. ASSUME NEW h \in Done PROVE HeldOnce(h)'
    <3>1. PICK i \in 1 .. Len(frames) :
            /\ frames[i].holds[h] = 1
            /\ \A j \in 1 .. Len(frames) : j # i => frames[j].holds[h] = 0
        BY <2>10 DEF Held, HeldOnce
    <3>2. i \in 1 .. Len(frames') /\ frames'[i].holds[h] = 1
        BY <2>1, <2>3, <2>5, <3>1
    <3>3. \A j \in 1 .. Len(frames') : j # i => frames'[j].holds[h] = 0
        BY <2>1, <2>2, <2>3, <2>4, <2>9, <3>1
    <3>4. QED
        BY <3>2, <3>3 DEF HeldOnce
  <2>12. ASSUME NEW h \in File \ Done PROVE HeldByNone(h)'
      BY <2>1, <2>2, <2>3, <2>4, <2>10 DEF Held, HeldByNone
  <2>13. Held'
      BY <2>8, <2>11, <2>12 DEF Held
  <2>14. QED
      BY <1>1, <1>3, <2>13 DEF OnceInv, EachFileOnce
<1>4. QED
    BY <1>2, <1>3 DEF Enter

(* The root has returned: it holds what was taken up, which is what the    *)
(* files that it leads to are.                                             *)
LEMMA RootHolds ==
  ASSUME ImportsInv, OnceInv, result = "running", Top.left = {}, Len(frames) = 1
  PROVE  \A f \in File \ {Root} :
           Top.holds[f] = IF \A S \in SUBSET File : Closed(S) => f \in S THEN 1 ELSE 0
<1>1. /\ Top = frames[1] /\ Top.file = Root /\ 1 \in 1 .. Len(frames)
      /\ OnPath /\ DoneClosed /\ importSet \subseteq File /\ Root \notin importSet
    BY DEF ImportsInv, Top, OnPath, ImportsTypeOK
<1>2. Done = importSet
    BY <1>1 DEF Done, UnderWay
<1>3. imports[Root] \subseteq Done
    BY <1>1, TopReturns
<1>4. Closed(importSet \cup {Root})
    BY <1>1, <1>2, <1>3 DEF Closed, DoneClosed
<1>5. importSet \cup {Root} \in SUBSET File
    BY <1>1, ImportsAssumption
<1>6. TAKE f \in File \ {Root}
<1>7. CASE f \in importSet
  <2>1. HeldOnce(f)
      BY <1>2, <1>7 DEF OnceInv, Held
  <2>2. Top.holds[f] = 1
      BY <1>1, <2>1 DEF HeldOnce
  <2>3. \A S \in SUBSET File : Closed(S) => f \in S
      BY <1>7 DEF OnceInv, Reached
  <2>4. QED
      BY <2>2, <2>3
<1>8. CASE f \notin importSet
  <2>1. Top.holds[f] = 0
      BY <1>1, <1>2, <1>8 DEF OnceInv, Held, HeldByNone
  <2>2. ~ \A S \in SUBSET File : Closed(S) => f \in S
      BY <1>4, <1>5, <1>6, <1>8
  <2>3. QED
      BY <2>1, <2>2
<1>9. QED
    BY <1>7, <1>8

(* The file that returns hands what it holds, and itself, to the one below.*)
LEMMA MergeHeld ==
  ASSUME ImportsInv, OnceInv, result = "running", Top.left = {}, UNCHANGED <<imports, importSet>>,
         NEW n \in Nat \ {0}, Len(frames) = n + 1, Len(frames') = n,
         \A i \in 1 .. n : frames'[i].file = frames[i].file,
         \A i \in 1 .. n : i # n => frames'[i].holds = frames[i].holds,
         \A f \in File : frames'[n].holds[f]
                           = frames[n].holds[f] + Top.holds[f] + IF f = Top.file THEN 1 ELSE 0
  PROVE  Held'
<1>1. /\ Top = frames[n + 1] /\ Top.file \in File /\ Top.file \notin Done
      /\ OnPath /\ Held /\ Done \subseteq File
    BY TopReturns DEF Top, ImportsInv, ImportsTypeOK, OnceInv, Done
<1>2. /\ \A i \in 1 .. n + 1 : i \in 1 .. n \/ i = n + 1
      /\ \A i \in 1 .. n : i \in 1 .. n + 1 /\ i # n + 1
      /\ n + 1 \in 2 .. n + 1 /\ n + 1 \in 1 .. n + 1 /\ n \in 1 .. n
    OBVIOUS
<1>3. UnderWay = UnderWay' \cup {Top.file} /\ Top.file \notin UnderWay'
  <2>1. UnderWay = UnderWay' \cup {Top.file}
      BY <1>1, <1>2 DEF UnderWay
  <2>2. \A i \in 1 .. n : frames[i].file # Top.file
      BY <1>1, <1>2 DEF OnPath
  <2>3. QED
      BY <1>2, <2>1, <2>2 DEF UnderWay
<1>4. Top.file \in importSet
    BY <1>1, <1>2 DEF OnPath
<1>5. Done' = Done \cup {Top.file}
    BY <1>3, <1>4 DEF Done
<1>6. \A f \in File : (\A i \in 1 .. n + 1 : frames[i].holds[f] = 0) =>
        /\ \A i \in 1 .. n : i # n => frames'[i].holds[f] = 0
        /\ frames'[n].holds[f] = IF f = Top.file THEN 1 ELSE 0
  <2> TAKE f \in File
  <2> HAVE \A i \in 1 .. n + 1 : frames[i].holds[f] = 0
  <2>1. \A i \in 1 .. n : i # n => frames'[i].holds[f] = 0
      BY <1>2
  <2>2. frames[n].holds[f] = 0 /\ Top.holds[f] = 0
      BY <1>1, <1>2
  <2>3. frames'[n].holds[f] = 0 + 0 + IF f = Top.file THEN 1 ELSE 0
      BY <2>2
  <2>4. QED
      BY <2>1, <2>3
<1>7. ASSUME NEW d \in File, d = Top.file PROVE HeldOnce(d)'
  <2>1. HeldByNone(d)
      BY <1>1, <1>7 DEF Held
  <2>2. /\ \A i \in 1 .. n : i # n => frames'[i].holds[d] = 0
        /\ frames'[n].holds[d] = 1
      BY <1>1, <1>6, <1>7, <2>1 DEF HeldByNone
  <2>3. QED
      BY <1>2, <2>2 DEF HeldOnce
<1>8. ASSUME NEW f \in Done PROVE HeldOnce(f)'
  <2>1. PICK i \in 1 .. n + 1 :
          /\ frames[i].holds[f] = 1
          /\ \A j \in 1 .. n + 1 : j # i => frames[j].holds[f] = 0
      BY <1>1 DEF Held, HeldOnce
  <2>2. f \in File /\ f # Top.file
      BY <1>1
  <2>3. CASE i = n \/ i = n + 1
    <3>1. frames'[n].holds[f] = 1
        BY <1>1, <1>2, <2>1, <2>2, <2>3
    <3>2. \A j \in 1 .. n : j # n => frames'[j].holds[f] = 0
        BY <1>2, <2>1, <2>3
    <3>3. QED
        BY <1>2, <3>1, <3>2 DEF HeldOnce
  <2>4. CASE i # n /\ i # n + 1
    <3>1. i \in 1 .. n /\ frames'[i].holds[f] = 1
        BY <1>2, <2>1, <2>4
    <3>2. frames'[n].holds[f] = 0
        BY <1>1, <1>2, <2>1, <2>2, <2>4
    <3>3. \A j \in 1 .. n : j # i => frames'[j].holds[f] = 0
        BY <1>2, <2>1, <3>2
    <3>4. QED
        BY <3>1, <3>3 DEF HeldOnce
  <2>5. QED
      BY <2>3, <2>4
<1>9. ASSUME NEW f \in File \ (Done \cup {Top.file}) PROVE HeldByNone(f)'
  <2>1. \A i \in 1 .. n + 1 : frames[i].holds[f] = 0
      BY <1>1 DEF Held, HeldByNone
  <2>2. QED
      BY <1>6, <2>1 DEF HeldByNone
<1>10. QED
    BY <1>1, <1>5, <1>7, <1>8, <1>9 DEF Held

LEMMA OnceReturn == ASSUME ImportsInv, OnceInv, Return PROVE OnceInv'
<1>1. /\ result = "running" /\ Top.left = {} /\ UNCHANGED <<imports, syntax, importSet>>
    BY DEF Return
<1>2. /\ Len(frames) \in Nat \ {0} /\ Top = frames[Len(frames)] /\ Top \in Frame
      /\ frames \in Seq(Frame) /\ \A i \in 1 .. Len(frames) : frames[i] \in Frame
    BY TopFacts
<1>3. Reached'
    BY <1>1 DEF OnceInv, Reached, Closed
<1>4. CASE ~(Merges /\ Len(frames) > 1)
  <2>1. UNCHANGED frames /\ result' \in IF Merges THEN {"ok", "error"} ELSE {"error"}
      BY <1>4 DEF Return
  <2>2. Merges => Len(frames) = 1
    <3>1. Len(frames) > 1 \/ Len(frames) = 1
      <4>1. Len(frames) \in Nat /\ Len(frames) # 0
          BY <1>2
      <4>2. QED
          BY <4>1, OneOrMore
    <3>2. QED
        BY <1>4, <3>1
  <2>3. result' \in {"ok", "error"} /\ (result' = "ok" => Merges)
      BY <2>1
  <2>4. ASSUME result' = "ok"
        PROVE  \A f \in File \ {Root} :
                 Top.holds[f] = IF \A S \in SUBSET File : Closed(S) => f \in S THEN 1 ELSE 0
      BY <1>1, <2>2, <2>3, <2>4, RootHolds
  <2>5. EachFileOnce'
      BY <1>1, <2>1, <2>4 DEF EachFileOnce, Top, Closed
  <2>6. QED
      BY <1>3, <2>3, <2>5 DEF OnceInv
<1>5. CASE Merges /\ Len(frames) > 1
  <2> DEFINE n == Len(frames) - 1
             g == WithMerged(frames[n])
  <2>1. /\ n \in Nat \ {0} /\ n \in 1 .. Len(frames) /\ Len(frames) = n + 1 /\ n \in 1 .. n
        /\ \A i \in 1 .. n : i # n => i \in 1 .. n - 1
        /\ n - 1 \in Nat /\ n - 1 <= Len(frames)
      BY <1>2, <1>5
  <2>2. frames' = Append(SubSeq(frames, 1, n - 1), g) /\ UNCHANGED result
    <3>1. Len(frames) - 2 = n - 1
        BY <1>2
    <3>2. QED
        BY <1>5, <3>1 DEF Return
  <2>3. frames[n] \in Frame
      BY <1>2, <2>1
  <2>4. /\ g \in Frame /\ g.file = frames[n].file
        /\ \A f \in File : g.holds[f] = frames[n].holds[f] + Top.holds[f] + IF f = Top.file THEN 1 ELSE 0
      BY <1>2, <2>3, MergedFacts
  <2> DEFINE u == SubSeq(frames, 1, n - 1)
  <2> HIDE DEF g
  <2>5. u \in Seq(Frame) /\ Len(u) = n - 1 /\ \A i \in 1 .. n - 1 : u[i] = frames[i]
      BY <1>2, <2>1, Prefix
  <2>6. /\ Len(frames') = n /\ frames'[n] = g
        /\ \A i \in 1 .. n - 1 : frames'[i] = frames[i]
    <3>1. frames' = Append(u, g)
        BY <2>2
    <3> HIDE DEF u, n
    <3>2. QED
        BY <2>1, <2>4, <2>5, <3>1
  <2>7. /\ \A i \in 1 .. n : frames'[i].file = frames[i].file
        /\ \A i \in 1 .. n : i # n => frames'[i].holds = frames[i].holds
        /\ \A f \in File : frames'[n].holds[f]
                             = frames[n].holds[f] + Top.holds[f] + IF f = Top.file THEN 1 ELSE 0
      BY <2>1, <2>4, <2>6
  <2> HIDE DEF n
  <2>8. Held'
      BY <1>1, <2>1, <2>6, <2>7, MergeHeld
  <2>9. QED
      BY <1>1, <1>3, <2>2, <2>8 DEF OnceInv, EachFileOnce
<1>6. QED
    BY <1>4, <1>5

LEMMA OnceStep == ASSUME ImportsInv, OnceInv, [ImportsNext]_importVars PROVE OnceInv'
<1>1. CASE UNCHANGED importVars
  <2>1. UNCHANGED <<imports, syntax, frames, importSet, result>>
      BY <1>1 DEF importVars
  <2>2. Held => Held'
      BY <2>1 DEF Held, HeldOnce, HeldByNone, Done, UnderWay
  <2>3. Reached' /\ EachFileOnce'
      BY <2>1 DEF OnceInv, Reached, Closed, EachFileOnce, Top
  <2>4. QED
      BY <2>1, <2>2, <2>3 DEF OnceInv
<1>2. ASSUME result = "running", NEW f \in Top.left, RefuseCycle(f) PROVE OnceInv'
  <2>1. result' = "cycle" /\ UNCHANGED <<imports, importSet>>
      BY <1>2 DEF RefuseCycle
  <2>2. QED
      BY <2>1 DEF OnceInv, Reached, Closed, EachFileOnce
<1>3. CASE Return
    BY <1>3, OnceReturn
<1>4. CASE Import
    BY <1>2, <1>4, OnceSkip, OnceEnter DEF Import
<1>5. QED
    BY <1>1, <1>3, <1>4 DEF ImportsNext

(* "import cycle not allowed": in whatever order the imports come, an API  *)
(* is put together of files without a cycle, and what is refused as a      *)
(* cycle is one (importstack, parseImportedAPI).                           *)
THEOREM OnlyCyclesRefused == ImportsSpec => []CyclesRefused
<1>1. ImportsSpec => []ImportsInv
    BY ImportsInitInv, ImportsKept, PTL DEF ImportsSpec
<1>2. QED
    BY <1>1, PTL DEF ImportsInv

(* Every file of an API has the syntax of the root, those too that mergeAPI*)
(* never compared with it.                                                 *)
THEOREM SyntaxOfTheRoot == ImportsSpec => []OneSyntax
<1>1. ImportsSpec => []ImportsInv
    BY ImportsInitInv, ImportsKept, PTL DEF ImportsSpec
<1>2. QED
    BY <1>1, PTL DEF ImportsInv

(* The API that is put together has the statements of every file that the  *)
(* root leads to, once, and of no other, in whatever order the imports     *)
(* come and however they meet (parseImportedAPI, importSet, mergeAPI).     *)
THEOREM FilesMergedOnce == ImportsSpec => []EachFileOnce
<1>1. ImportsInit => ImportsInv /\ OnceInv
    BY ImportsInitInv, OnceInitInv
<1>2. ImportsInv /\ OnceInv /\ [ImportsNext]_importVars => (ImportsInv /\ OnceInv)'
    BY ImportsKept, OnceStep
<1>3. ImportsSpec => [](ImportsInv /\ OnceInv)
    BY <1>1, <1>2, PTL DEF ImportsSpec
<1>4. QED
    BY <1>3, PTL DEF OnceInv

-----------------------------------------------------------------------------
(* CallGraphWalk, for every call graph, depth and set of methods that      *)
(* count as IO.                                                            *)

(* The activations are a path of the call graph from the Logic method, one *)
(* function deeper each.                                                   *)
OnCallPath ==
  /\ Len(trail) > 0 => trail[1].func = LogicEntry
  /\ \A i \in 1 .. Len(trail) :
       /\ trail[i].func \in visited
       /\ trail[i].left \subseteq calls[trail[i].func]
       /\ trail[i].depth = Depth + 1 - i /\ trail[i].depth > 0
  /\ \A i \in 1 .. Len(trail) - 1 : trail[i + 1].func \in calls[trail[i].func]

(* The call of g in f is still to be looked at.                            *)
Pending(f, g) == \E i \in 1 .. Len(trail) : trail[i].func = f /\ g \in trail[i].left
Recorded(f, g) == \E c \in recorded : Len(c) > 1 /\ c[Len(c) - 1] = f /\ c[Len(c)] = g

Complete ==
  \A f \in visited : \A g \in calls[f] :
    /\ g \in Internal => g \in visited \/ Pending(f, g)
    /\ g \in IOCall => Recorded(f, g) \/ Pending(f, g)

WalkInv ==
  /\ WalkTypeOK
  /\ \A f \in Function \ visited : calls[f] = {}
  /\ OnCallPath
  /\ ChainsAreCalls
  /\ ~cut => Complete

LEMMA WalkInitInv == WalkInit => WalkInv
<1> SUFFICES ASSUME WalkInit PROVE WalkInv
    OBVIOUS
<1> USE WalkAssumption
<1>1. PICK C \in SUBSET Function :
        /\ calls = [f \in Function |-> IF f = LogicEntry THEN C ELSE {}]
        /\ trail = <<[func |-> LogicEntry, left |-> C, depth |-> Depth]>>
    BY DEF WalkInit
<1>2. visited = {LogicEntry} /\ recorded = {} /\ cut = FALSE /\ LogicEntry \in Function
    BY DEF WalkInit, Internal
<1> DEFINE a == [func |-> LogicEntry, left |-> C, depth |-> Depth]
<1>3. a \in Activation /\ a.func = LogicEntry /\ a.left = C /\ a.depth = Depth
    BY <1>2 DEF Activation
<1> HIDE DEF a
<1>4. trail \in Seq(Activation) /\ Len(trail) = 1 /\ trail[1] = a
    BY <1>1, <1>3 DEF a
<1>5. WalkTypeOK
    BY <1>1, <1>2, <1>4 DEF WalkTypeOK
<1>6. OnCallPath
    BY <1>1, <1>2, <1>3, <1>4 DEF OnCallPath
<1>7. Complete
  <2> SUFFICES ASSUME NEW f \in visited, NEW g \in calls[f] PROVE Pending(f, g)
      BY DEF Complete
  <2>1. f = LogicEntry /\ g \in C
      BY <1>1, <1>2
  <2>2. 1 \in 1 .. Len(trail)
      BY <1>4
  <2>3. QED
      BY <1>3, <1>4, <2>1, <2>2 DEF Pending
<1>8. QED
    BY <1>1, <1>2, <1>5, <1>6, <1>7 DEF WalkInv, ChainsAreCalls

(* Looking at the call of g takes it from the activation on top.           *)
LEMMA WalkLooked ==
  ASSUME WalkTypeOK, Len(trail) # 0, NEW g
  PROVE  /\ Len(trail) \in Nat \ {0}
         /\ LookAt(g) \in Seq(Activation) /\ Len(LookAt(g)) = Len(trail)
         /\ \A i \in 1 .. Len(trail) :
              /\ LookAt(g)[i].func = trail[i].func /\ LookAt(g)[i].depth = trail[i].depth
              /\ LookAt(g)[i].left \subseteq trail[i].left
              /\ trail[i].left \ {g} \subseteq LookAt(g)[i].left
              /\ i # Len(trail) => LookAt(g)[i] = trail[i]
<1>1. trail \in Seq(Activation) /\ Len(trail) \in Nat \ {0}
    BY DEF WalkTypeOK
<1>2. trail[Len(trail)] \in Activation
    BY <1>1
<1> DEFINE e == [trail[Len(trail)] EXCEPT !.left = @ \ {g}]
<1>3. /\ e \in Activation /\ e.func = trail[Len(trail)].func
      /\ e.left = trail[Len(trail)].left \ {g} /\ e.depth = trail[Len(trail)].depth
    BY <1>2 DEF Activation
<1>4. LookAt(g) = [trail EXCEPT ![Len(trail)] = e]
    BY <1>1 DEF LookAt
<1> HIDE DEF e
<1>5. /\ LookAt(g) \in Seq(Activation) /\ Len(LookAt(g)) = Len(trail)
      /\ \A i \in 1 .. Len(trail) :
           LookAt(g)[i] = IF i = Len(trail) THEN e ELSE trail[i]
    BY <1>1, <1>3, <1>4
<1>6. QED
    BY <1>1, <1>3, <1>5

(* A step that only looks at a call: what was pending still is, but that   *)
(* call.                                                                   *)
LEMMA OnlyLooks ==
  ASSUME WalkInv, Len(trail) # 0, NEW g \in Here.left, trail' = LookAt(g),
         UNCHANGED <<calls, visited>>
  PROVE  /\ trail' \in Seq(Activation) /\ OnCallPath'
         /\ \A f, h : Pending(f, h) => Pending(f, h)' \/ (f = Here.func /\ h = g)
<1>1. /\ Len(trail) \in Nat \ {0}
      /\ trail' \in Seq(Activation) /\ Len(trail') = Len(trail)
      /\ \A i \in 1 .. Len(trail) :
           /\ trail'[i].func = trail[i].func /\ trail'[i].depth = trail[i].depth
           /\ trail'[i].left \subseteq trail[i].left
           /\ trail[i].left \ {g} \subseteq trail'[i].left
           /\ i # Len(trail) => trail'[i] = trail[i]
    BY WalkLooked DEF WalkInv
<1>2. OnCallPath /\ \A i \in 1 .. Len(trail) - 1 : i \in 1 .. Len(trail) /\ i + 1 \in 1 .. Len(trail)
    BY <1>1 DEF WalkInv
<1>3. OnCallPath'
  <2>1. Len(trail') > 0 => trail'[1].func = LogicEntry
      BY <1>1, <1>2 DEF OnCallPath
  <2>2. ASSUME NEW i \in 1 .. Len(trail')
        PROVE  /\ trail'[i].func \in visited'
               /\ trail'[i].left \subseteq calls'[trail'[i].func]
               /\ trail'[i].depth = Depth + 1 - i /\ trail'[i].depth > 0
      BY <1>1, <1>2, <2>2 DEF OnCallPath
  <2>3. ASSUME NEW i \in 1 .. Len(trail') - 1
        PROVE  trail'[i + 1].func \in calls'[trail'[i].func]
      BY <1>1, <1>2, <2>3 DEF OnCallPath
  <2>4. QED
      BY <2>1, <2>2, <2>3 DEF OnCallPath
<1>4. ASSUME NEW f, NEW h, Pending(f, h), ~(f = Here.func /\ h = g) PROVE Pending(f, h)'
  <2>1. PICK i \in 1 .. Len(trail) : trail[i].func = f /\ h \in trail[i].left
      BY <1>4 DEF Pending
  <2>2. trail'[i].func = f /\ h \in trail'[i].left /\ i \in 1 .. Len(trail')
    <3>1. CASE h # g
        BY <1>1, <2>1, <3>1
    <3>2. CASE f # Here.func
        BY <1>1, <2>1, <3>2 DEF Here
    <3>3. QED
        BY <1>4, <3>1, <3>2
  <2>3. QED
      BY <2>2 DEF Pending
<1>5. QED
    BY <1>1, <1>3, <1>4

(* The call that is looked at is one of the function on top.               *)
LEMMA HereCalls ==
  ASSUME WalkInv, Len(trail) # 0
  PROVE  /\ Here \in Activation /\ Here = trail[Len(trail)]
         /\ Len(trail) \in Nat \ {0} /\ Len(trail) \in 1 .. Len(trail)
         /\ Here.func \in visited /\ Here.left \subseteq calls[Here.func]
         /\ Here.depth = Depth + 1 - Len(trail) /\ Here.depth > 0
<1>1. trail \in Seq(Activation) /\ Len(trail) \in Nat \ {0} /\ OnCallPath
    BY DEF WalkInv, WalkTypeOK
<1>2. Len(trail) \in 1 .. Len(trail) /\ trail[Len(trail)] \in Activation
    BY <1>1
<1>3. QED
    BY <1>1, <1>2 DEF OnCallPath, Here

(* What is still pending after a step, with what was visited and recorded. *)
LEMMA CompleteAfterLook ==
  ASSUME WalkInv, NEW g, NEW caller, caller = Here.func,
         \A f, h : Pending(f, h) => Pending(f, h)' \/ (f = Here.func /\ h = g),
         ~cut, UNCHANGED <<calls, visited>>, recorded \subseteq recorded',
         g \notin Internal \/ g \in visited,
         g \in IOCall => Recorded(caller, g)'
  PROVE  Complete'
<1> SUFFICES ASSUME NEW f \in visited, NEW h \in calls[f]
             PROVE  /\ h \in Internal => h \in visited \/ Pending(f, h)'
                    /\ h \in IOCall => Recorded(f, h)' \/ Pending(f, h)'
    BY DEF Complete
<1>1. /\ h \in Internal => h \in visited \/ Pending(f, h)
      /\ h \in IOCall => Recorded(f, h) \/ Pending(f, h)
    BY DEF WalkInv, Complete
<1>2. Recorded(f, h) => Recorded(f, h)'
    BY DEF Recorded
<1>3. QED
    BY <1>1, <1>2

LEMMA RecordIOInv == ASSUME WalkInv, Len(trail) # 0, RecordIO PROVE WalkInv'
<1>1. PICK g \in Here.left \cap IOCall :
        /\ recorded' = recorded \cup {Append(Chain, g)}
        /\ trail' = LookAt(g) /\ UNCHANGED <<calls, visited, cut>>
    BY DEF RecordIO
<1>2. /\ trail' \in Seq(Activation) /\ OnCallPath'
      /\ \A f, h : Pending(f, h) => Pending(f, h)' \/ (f = Here.func /\ h = g)
    BY <1>1, OnlyLooks
<1>3. /\ Len(trail) \in Nat \ {0} /\ Len(trail) \in 1 .. Len(trail)
      /\ Here = trail[Len(trail)] /\ Here.left \subseteq calls[Here.func] /\ g \in Function
      /\ Here.depth = Depth + 1 - Len(trail) /\ Here.depth > 0
      /\ trail \in Seq(Activation) /\ OnCallPath
    BY HereCalls, <1>1, WalkAssumption DEF WalkInv, WalkTypeOK
<1> DEFINE c == Append(Chain, g)
<1>4. /\ c \in Seq(Function) /\ Len(c) = Len(trail) + 1 /\ c[Len(c)] = g
      /\ \A i \in 1 .. Len(trail) : c[i] = trail[i].func
  <2>1. \A i \in 1 .. Len(trail) : trail[i].func \in Function
    <3>1. \A i \in 1 .. Len(trail) : trail[i] \in Activation
        BY <1>3
    <3>2. QED
        BY <3>1 DEF Activation
  <2>2. Chain \in Seq(Function) /\ Len(Chain) = Len(trail)
        /\ \A i \in 1 .. Len(trail) : Chain[i] = trail[i].func
      BY <1>3, <2>1 DEF Chain
  <2>3. QED
      BY <1>3, <2>2
<1>caller. PICK caller : caller = Here.func
    OBVIOUS
<1> HIDE DEF c
<1>5. c[1] = LogicEntry /\ c[Len(c)] \in IOCall /\ Len(c) - 1 \in 1 .. Depth
    BY <1>1, <1>3, <1>4, WalkAssumption DEF OnCallPath
<1>6. ASSUME NEW i \in 1 .. Len(c) - 1 PROVE c[i + 1] \in calls[c[i]]
  <2>1. CASE i = Len(trail)
      BY <1>1, <1>3, <1>4, <2>1
  <2>2. CASE i \in 1 .. Len(trail) - 1
    <3>1. trail[i + 1].func \in calls[trail[i].func]
        BY <1>3, <2>2 DEF OnCallPath
    <3>2. i \in 1 .. Len(trail) /\ i + 1 \in 1 .. Len(trail)
        BY <1>3, <2>2
    <3>3. QED
        BY <1>4, <3>1, <3>2
  <2>3. QED
      BY <1>3, <1>4, <2>1, <2>2
<1>7. ChainsAreCalls'
  <2>1. recorded' = recorded \cup {c} /\ calls' = calls
      BY <1>1 DEF c
  <2>2. ChainsAreCalls
      BY DEF WalkInv
  <2>3. QED
      BY <2>1, <2>2, <1>5, <1>6 DEF ChainsAreCalls
<1>8. ASSUME ~cut PROVE Complete'
  <2>1. g \notin Internal
      BY <1>1 DEF Internal
  <2>2. Recorded(caller, g)'
    <3>1. c \in recorded' /\ c[Len(c) - 1] = caller /\ c[Len(c)] = g /\ Len(c) > 1
        BY <1>1, <1>3, <1>4, <1>caller DEF c
    <3>2. QED
        BY <3>1 DEF Recorded
  <2>3. QED
      BY <1>1, <1>2, <1>8, <1>caller, <2>1, <2>2, CompleteAfterLook
<1>9. WalkTypeOK'
    BY <1>1, <1>2, <1>4 DEF WalkInv, WalkTypeOK, c
<1>10. QED
    BY <1>1, <1>2, <1>7, <1>8, <1>9 DEF WalkInv

LEMMA PassForeignInv == ASSUME WalkInv, Len(trail) # 0, PassForeign PROVE WalkInv'
<1>1. PICK g \in Here.left \cap Foreign :
        trail' = LookAt(g) /\ UNCHANGED <<calls, visited, recorded, cut>>
    BY DEF PassForeign
<1>2. /\ trail' \in Seq(Activation) /\ OnCallPath'
      /\ \A f, h : Pending(f, h) => Pending(f, h)' \/ (f = Here.func /\ h = g)
    BY <1>1, OnlyLooks
<1>3. g \notin Internal /\ g \notin IOCall
    BY <1>1, WalkAssumption DEF Internal
<1>4. ASSUME ~cut PROVE Complete'
    BY <1>1, <1>2, <1>3, <1>4, CompleteAfterLook
<1>5. QED
    BY <1>1, <1>2, <1>4 DEF WalkInv, WalkTypeOK, ChainsAreCalls

LEMMA TurnBackInv == ASSUME WalkInv, Len(trail) # 0, TurnBack PROVE WalkInv'
<1>1. PICK g \in Here.left \cap Internal :
        /\ trail' = LookAt(g) /\ cut' = (cut \/ g \notin visited)
        /\ UNCHANGED <<calls, visited, recorded>>
    BY DEF TurnBack
<1>2. /\ trail' \in Seq(Activation) /\ OnCallPath'
      /\ \A f, h : Pending(f, h) => Pending(f, h)' \/ (f = Here.func /\ h = g)
    BY <1>1, OnlyLooks
<1>3. ASSUME ~cut' PROVE Complete'
  <2>1. ~cut /\ g \in visited /\ g \notin IOCall
      BY <1>1, <1>3 DEF Internal
  <2>2. QED
      BY <1>1, <1>2, <2>1, CompleteAfterLook
<1>4. cut' \in BOOLEAN
    BY <1>1 DEF WalkInv, WalkTypeOK
<1>5. QED
    BY <1>1, <1>2, <1>3, <1>4 DEF WalkInv, WalkTypeOK, ChainsAreCalls

(* A function that the walk has not been in calls nothing yet, so that the *)
(* chains recorded before do not go through it.                            *)
LEMMA DescendInv == ASSUME WalkInv, Len(trail) # 0, Descend PROVE WalkInv'
<1>1. PICK g \in Here.left \cap Internal, C \in Callees :
        /\ g \notin visited /\ Here.depth > 1 /\ visited' = visited \cup {g}
        /\ calls' = [calls EXCEPT ![g] = C]
        /\ trail' = Append(LookAt(g), [func |-> g, left |-> C, depth |-> Here.depth - 1])
        /\ UNCHANGED <<recorded, cut>>
    BY DEF Descend
<1>2. /\ Len(trail) \in Nat \ {0} /\ Len(trail) \in 1 .. Len(trail)
      /\ Here \in Activation /\ Here = trail[Len(trail)] /\ Here.func \in visited
      /\ Here.left \subseteq calls[Here.func]
      /\ Here.depth = Depth + 1 - Len(trail)
    BY HereCalls
<1>3. g \in Function /\ C \in SUBSET Function /\ Depth \in Nat
      /\ \A f \in Function : calls'[f] = IF f = g THEN C ELSE calls[f]
    BY <1>1, WalkAssumption DEF Callees, Internal, WalkInv, WalkTypeOK
<1>4. calls \in [Function -> SUBSET Function] /\ visited \subseteq Function /\ calls[g] = {}
    BY <1>1, <1>3 DEF WalkInv, WalkTypeOK, Internal
<1> DEFINE new == [func |-> g, left |-> C, depth |-> Here.depth - 1]
<1>5. /\ new \in Activation /\ new.func = g /\ new.left = C
      /\ new.depth = Depth - Len(trail) /\ new.depth > 0
    BY <1>1, <1>2, <1>3 DEF Activation
<1> HIDE DEF new
<1>6. /\ LookAt(g) \in Seq(Activation) /\ Len(LookAt(g)) = Len(trail)
      /\ \A i \in 1 .. Len(trail) :
           /\ LookAt(g)[i].func = trail[i].func /\ LookAt(g)[i].depth = trail[i].depth
           /\ LookAt(g)[i].left \subseteq trail[i].left
           /\ trail[i].left \ {g} \subseteq LookAt(g)[i].left
    BY WalkLooked DEF WalkInv
<1>7. trail' = Append(LookAt(g), new)
    BY <1>1 DEF new
<1>8. /\ trail' \in Seq(Activation) /\ Len(trail') = Len(trail) + 1
      /\ trail'[Len(trail) + 1] = new
      /\ \A i \in 1 .. Len(trail) :
           /\ trail'[i].func = trail[i].func /\ trail'[i].depth = trail[i].depth
           /\ trail'[i].left \subseteq trail[i].left
           /\ trail[i].left \ {g} \subseteq trail'[i].left
    BY <1>2, <1>5, <1>6, <1>7
<1>9. \A i \in 1 .. Len(trail) :
        /\ trail[i].func \in visited /\ trail[i].left \subseteq calls[trail[i].func]
        /\ trail[i].depth = Depth + 1 - i /\ trail[i].depth > 0
    BY DEF WalkInv, OnCallPath
<1>10. OnCallPath'
  <2>1. trail'[1].func = LogicEntry
      BY <1>2, <1>8 DEF WalkInv, OnCallPath
  <2>2. ASSUME NEW i \in 1 .. Len(trail) + 1
        PROVE  /\ trail'[i].func \in visited'
               /\ trail'[i].left \subseteq calls'[trail'[i].func]
               /\ trail'[i].depth = Depth + 1 - i /\ trail'[i].depth > 0
    <3>1. CASE i = Len(trail) + 1
        BY <1>1, <1>2, <1>3, <1>5, <1>8, <3>1
    <3>2. CASE i \in 1 .. Len(trail)
      <4>1. trail[i].func \in visited /\ trail[i].func # g
          BY <1>1, <1>9, <3>2
      <4>2. QED
          BY <1>1, <1>3, <1>4, <1>8, <1>9, <3>2, <4>1
    <3>3. QED
        BY <1>2, <3>1, <3>2
  <2>3. ASSUME NEW i \in 1 .. Len(trail) PROVE trail'[i + 1].func \in calls'[trail'[i].func]
    <3>1. trail[i].func \in visited /\ trail[i].func # g
        BY <1>1, <1>9
    <3>2. CASE i = Len(trail)
        BY <1>1, <1>2, <1>3, <1>4, <1>5, <1>8, <3>1, <3>2
    <3>3. CASE i \in 1 .. Len(trail) - 1
      <4>1. trail[i + 1].func \in calls[trail[i].func]
          BY <3>3 DEF WalkInv, OnCallPath
      <4>2. i + 1 \in 1 .. Len(trail)
          BY <1>2, <3>3
      <4>3. QED
          BY <1>3, <1>4, <1>8, <3>1, <4>1, <4>2
    <3>4. QED
        BY <1>2, <3>2, <3>3
  <2>4. Len(trail') - 1 = Len(trail)
      BY <1>2, <1>8
  <2>5. QED
      BY <1>8, <2>1, <2>2, <2>3, <2>4 DEF OnCallPath
<1>11. ChainsAreCalls'
  <2>1. ASSUME NEW c \in recorded, NEW i \in 1 .. Len(c) - 1
        PROVE  c[i + 1] \in calls'[c[i]]
    <3>1. c \in Seq(Function) /\ c[i + 1] \in calls[c[i]]
        BY DEF WalkInv, WalkTypeOK, ChainsAreCalls
    <3>2. c[i] \in Function
        BY <3>1
    <3>3. QED
        BY <1>3, <1>4, <3>1, <3>2
  <2>2. recorded' = recorded /\ ChainsAreCalls
      BY <1>1 DEF WalkInv
  <2>3. QED
      BY <2>1, <2>2 DEF ChainsAreCalls
<1>12. ASSUME ~cut PROVE Complete'
  <2> SUFFICES ASSUME NEW f \in visited', NEW h \in calls'[f]
               PROVE  /\ h \in Internal => h \in visited' \/ Pending(f, h)'
                      /\ h \in IOCall => Recorded(f, h)' \/ Pending(f, h)'
      BY DEF Complete
  <2>1. CASE f = g
    <3>1. Len(trail) + 1 \in 1 .. Len(trail') /\ trail'[Len(trail) + 1].func = f
          /\ h \in trail'[Len(trail) + 1].left
        BY <1>2, <1>3, <1>5, <1>8, <2>1
    <3>2. Pending(f, h)'
        BY <3>1 DEF Pending
    <3>3. QED
        BY <3>2
  <2>2. CASE f # g
    <3>1. f \in visited /\ h \in calls[f]
        BY <1>1, <1>3, <1>4, <2>2
    <3>2. /\ h \in Internal => h \in visited \/ Pending(f, h)
          /\ h \in IOCall => Recorded(f, h) \/ Pending(f, h)
        BY <1>12, <3>1 DEF WalkInv, Complete
    <3>3. Recorded(f, h) => Recorded(f, h)'
        BY <1>1 DEF Recorded
    <3>4. Pending(f, h) /\ h # g => Pending(f, h)'
      <4>1. SUFFICES ASSUME NEW i \in 1 .. Len(trail), trail[i].func = f, h \in trail[i].left,
                            h # g
                     PROVE  Pending(f, h)'
          BY DEF Pending
      <4>2. i \in 1 .. Len(trail') /\ trail'[i].func = f /\ h \in trail'[i].left
          BY <1>2, <1>8, <4>1
      <4>3. QED
          BY <4>2 DEF Pending
    <3>5. h = g => h \in visited' /\ h \notin IOCall
        BY <1>1 DEF Internal
    <3>6. visited \subseteq visited'
        BY <1>1
    <3>7. QED
        BY <3>2, <3>3, <3>4, <3>5, <3>6
  <2>3. QED
      BY <2>1, <2>2
<1>13. WalkTypeOK' /\ \A f \in Function \ visited' : calls'[f] = {}
  <2>1. \A f \in Function \ visited : calls[f] = {}
      BY DEF WalkInv
  <2>2. QED
      BY <1>1, <1>3, <1>4, <1>8, <2>1 DEF WalkInv, WalkTypeOK
<1>14. QED
    BY <1>1, <1>10, <1>11, <1>12, <1>13 DEF WalkInv

LEMMA AscendInv == ASSUME WalkInv, Len(trail) # 0, Ascend PROVE WalkInv'
<1>1. /\ Here.left = {} /\ trail' = SubSeq(trail, 1, Len(trail) - 1)
      /\ UNCHANGED <<calls, visited, recorded, cut>>
    BY DEF Ascend
<1>2. trail \in Seq(Activation) /\ Len(trail) \in Nat \ {0} /\ OnCallPath
    BY DEF WalkInv, WalkTypeOK
<1>3. /\ trail' \in Seq(Activation) /\ Len(trail') = Len(trail) - 1
      /\ \A i \in 1 .. Len(trail) - 1 : trail'[i] = trail[i]
  <2> DEFINE n == Len(trail)
  <2>1. n \in Nat \ {0} /\ trail' = SubSeq(trail, 1, n - 1)
      BY <1>1, <1>2
  <2>2. /\ SubSeq(trail, 1, n - 1) \in Seq(Activation) /\ Len(SubSeq(trail, 1, n - 1)) = n - 1
        /\ \A i \in 1 .. n - 1 : SubSeq(trail, 1, n - 1)[i] = trail[i]
    <3>1. 1 \in 1 .. n + 1 /\ n - 1 \in 1 - 1 .. n /\ (n - 1) - 1 + 1 = n - 1
        BY <2>1
    <3>2. /\ SubSeq(trail, 1, n - 1) \in Seq(Activation) /\ Len(SubSeq(trail, 1, n - 1)) = (n - 1) - 1 + 1
          /\ \A i \in 1 .. (n - 1) - 1 + 1 : SubSeq(trail, 1, n - 1)[i] = trail[1 + i - 1]
        BY <1>2, <3>1, SubSeqProperties
    <3> HIDE DEF n
    <3>3. \A i \in 1 .. n - 1 : 1 + i - 1 = i
        BY <2>1
    <3> QED BY <3>1, <3>2, <3>3
  <2>3. QED
      BY <2>1, <2>2
<1>4. OnCallPath'
  <2>1. \A i \in 1 .. Len(trail) - 1 : i \in 1 .. Len(trail)
      BY <1>2
  <2>2. \A i \in 1 .. Len(trail') - 1 : i \in 1 .. Len(trail) - 1 /\ i + 1 \in 1 .. Len(trail) - 1
      BY <1>2, <1>3
  <2>3. Len(trail') > 0 => 1 \in 1 .. Len(trail) - 1
      BY <1>2, <1>3
  <2>4. \A i \in 1 .. Len(trail') : i \in 1 .. Len(trail) /\ trail'[i] = trail[i]
      BY <1>2, <1>3
  <2>5. Len(trail') > 0 => trail'[1].func = LogicEntry
      BY <1>2, <1>3, <2>3 DEF OnCallPath
  <2>6. \A i \in 1 .. Len(trail') :
          /\ trail'[i].func \in visited'
          /\ trail'[i].left \subseteq calls'[trail'[i].func]
          /\ trail'[i].depth = Depth + 1 - i /\ trail'[i].depth > 0
      BY <1>1, <1>2, <2>4 DEF OnCallPath
  <2>7. \A i \in 1 .. Len(trail') - 1 : trail'[i + 1].func \in calls'[trail'[i].func]
      BY <1>1, <1>2, <1>3, <2>1, <2>2 DEF OnCallPath
  <2>8. QED
      BY <2>5, <2>6, <2>7 DEF OnCallPath
<1>5. ASSUME NEW f, NEW h, Pending(f, h) PROVE Pending(f, h)'
  <2>1. PICK i \in 1 .. Len(trail) : trail[i].func = f /\ h \in trail[i].left
      BY <1>5 DEF Pending
  <2>2. i # Len(trail)
      BY <1>1, <2>1 DEF Here
  <2>3. i \in 1 .. Len(trail') /\ trail'[i].func = f /\ h \in trail'[i].left
      BY <1>2, <1>3, <2>1, <2>2
  <2>4. QED
      BY <2>3 DEF Pending
<1>6. ASSUME ~cut PROVE Complete'
  <2>1. Complete /\ visited' = visited /\ calls' = calls
      BY <1>1, <1>6 DEF WalkInv
  <2>2. \A f, h : Recorded(f, h) => Recorded(f, h)'
      BY <1>1 DEF Recorded
  <2>3. QED
      BY <1>5, <2>1, <2>2 DEF Complete
<1>7. QED
    BY <1>1, <1>3, <1>4, <1>6 DEF WalkInv, WalkTypeOK, ChainsAreCalls

LEMMA WalkKept == ASSUME WalkInv, [WalkNext]_walkVars PROVE WalkInv'
<1>1. CASE UNCHANGED walkVars
  <2>1. UNCHANGED <<calls, trail, visited, recorded, cut>>
      BY <1>1 DEF walkVars
  <2>2. OnCallPath' /\ ChainsAreCalls' /\ WalkTypeOK'
      BY <2>1 DEF WalkInv, WalkTypeOK, OnCallPath, ChainsAreCalls
  <2>3. \A f, g : (Pending(f, g) => Pending(f, g)') /\ (Recorded(f, g) => Recorded(f, g)')
      BY <2>1 DEF Pending, Recorded
  <2>4. Complete => Complete'
      BY <2>1, <2>3 DEF Complete
  <2>5. QED
      BY <2>1, <2>2, <2>4 DEF WalkInv
<1>2. CASE WalkNext
  <2>1. Len(trail) # 0
      BY <1>2 DEF WalkNext, WalkInv, WalkTypeOK
  <2>2. QED
      BY <1>2, <2>1, RecordIOInv, PassForeignInv, TurnBackInv, DescendInv, AscendInv
      DEF WalkNext
<1>3. QED
    BY <1>1, <1>2

LEMMA InvCompletes == WalkInv => CompleteUnlessCut
<1> SUFFICES ASSUME WalkInv, trail = <<>>, ~cut, NEW f \in visited
             PROVE  /\ calls[f] \cap Internal \subseteq visited
                    /\ \A g \in calls[f] \cap IOCall : Recorded(f, g)
    BY DEF CompleteUnlessCut, Recorded
<1>1. Complete /\ \A g : ~Pending(f, g)
    BY DEF WalkInv, Pending
<1>2. QED
    BY <1>1 DEF Complete

(* "BFS from each entry ... record reachable IO nodes" (bfsIO): every call *)
(* chain in a report is a chain of calls from the Logic method to IO, no   *)
(* deeper than the bound.                                                  *)
THEOREM ReportedChainsAreCalls == WalkSpec => []ChainsAreCalls
<1>1. WalkSpec => []WalkInv
    BY WalkInitInv, WalkKept, PTL DEF WalkSpec
<1>2. QED
    BY <1>1, PTL DEF WalkInv

(* A walk that was never turned back for its depth alone misses no IO of   *)
(* any function that the Logic method leads to (bfsIO).                    *)
THEOREM WalkMissesNothing == WalkSpec => []CompleteUnlessCut
<1>1. WalkSpec => []WalkInv
    BY WalkInitInv, WalkKept, PTL DEF WalkSpec
<1>2. QED
    BY <1>1, InvCompletes, PTL

-----------------------------------------------------------------------------
(* The types of the parts, and the parts in one process.                   *)

BracketSeq == Seq(Opening \cup Closing)
TokensTyped ==
  /\ {cur, peek} \subseteq Token \cup {"", ErrorToken}
  /\ errors \in BOOLEAN /\ slip \in BOOLEAN
  /\ outcome \in {"parsing", "ast", "nil", "panic"}
  /\ open \in BracketSeq

LEMMA NoBracket == <<>> \in BracketSeq
BY EmptySeq DEF BracketSeq

LEMMA OpenedTyped ==
  ASSUME open \in BracketSeq, NEW t
  PROVE  Opened(t) \in BracketSeq
<1>1. CASE t \notin Opening \cup Closing \/ slip
    BY <1>1 DEF Opened
<1>2. CASE ~slip /\ t \in Closing /\ open # <<>> /\ open[Len(open)] = Closes(t)
  <2>1. Opened(t) = SubSeq(open, 1, Len(open) - 1)
      BY <1>2 DEF Opened
  <2>2. Len(open) \in Nat /\ \A i \in 1 .. Len(open) - 1 : open[i] \in Opening \cup Closing
      BY DEF BracketSeq
  <2>3. QED
      BY <2>1, <2>2 DEF BracketSeq
<1>3. CASE /\ ~slip /\ t \in Opening \cup Closing
           /\ ~(t \in Closing /\ open # <<>> /\ open[Len(open)] = Closes(t))
  <2>1. Opened(t) = Append(open, t)
      BY <1>3 DEF Opened
  <2>2. QED
      BY <1>3, <2>1 DEF BracketSeq
<1>4. QED
    BY <1>1, <1>2, <1>3

LEMMA NextTokenTyped ==
  ASSUME TokensTyped, NEW fold, NextToken(fold)
  PROVE  /\ {cur', peek'} \subseteq Token \cup {"", ErrorToken}
         /\ errors' \in BOOLEAN /\ open' \in BracketSeq
<1>1. open' \in BracketSeq
    BY OpenedTyped DEF NextToken, TokensTyped
<1>2. Scanned \subseteq Token
    BY DEF Scanned
<1>3. QED
    BY <1>1, <1>2 DEF NextToken, TokensTyped, AtEof

LEMMA TokensStep == TokensTyped /\ [ParserNext]_parserVars => TokensTyped'
<1> SUFFICES ASSUME TokensTyped, [ParserNext]_parserVars PROVE TokensTyped'
    OBVIOUS
<1>1. ASSUME NEW fold, NextToken(fold), UNCHANGED slip, UNCHANGED outcome \/ outcome' = "nil"
      PROVE  TokensTyped'
    BY <1>1, NextTokenTyped DEF TokensTyped
<1>2. CASE Start \/ NextStatement \/ Take \/ SkipSemicolon
    BY <1>1, <1>2 DEF Start, NextStatement, Take, SkipSemicolon, Goes, Fails
<1>3. CASE Parse
  <2>1. /\ open' = <<>> /\ slip' = FALSE /\ UNCHANGED <<cur, peek, errors>>
        /\ outcome' = "ast" \/ UNCHANGED outcome
      BY <1>3 DEF Parse, Goes
  <2>2. QED
      BY <2>1, NoBracket DEF TokensTyped
<1>4. CASE Call
    BY <1>4 DEF Call, Goes, TokensTyped
<1>5. CASE Panic \/ Pass \/ FoldTokens \/ SyntaxError \/ UNCHANGED parserVars
    BY <1>5 DEF Panic, Pass, FoldTokens, SyntaxError, Goes, Fails, Idles, tokenVars, parserVars, TokensTyped
<1>6. QED
    BY <1>2, <1>3, <1>4, <1>5 DEF ParserNext

LEMMA ParserTyped == ParserSpec => []ParserTypeOK
<1>1. ParserInit => TokensTyped
    BY NoBracket DEF ParserInit, TokensTyped
<1>2. ParserSpec => [](CommentsInv /\ IdleInv /\ TokensTyped)
    BY <1>1, CommentsInitInv, CommentsStep, IdleInitInv, IdleStep, TokensStep, PTL DEF ParserSpec
<1>3. CommentsInv /\ IdleInv /\ TokensTyped => ParserTypeOK
  <2> SUFFICES ASSUME CommentsInv, IdleInv, TokensTyped PROVE ParserTypeOK
      OBVIOUS
  <2>1. folded \in BOOLEAN /\ note \in Note
      BY DEF CommentsInv
  <2>2. idle \in 0 .. MaxIdle
      BY ParserAssumption DEF IdleInv, Level, Budget
  <2>3. QED
      BY <2>1, <2>2 DEF TokensTyped, BracketSeq, ParserTypeOK
<1>4. QED
    BY <1>2, <1>3, PTL

LEMMA MergeTyped == MergeSpec => []MergeTypeOK
<1>1. MergeInv => MergeTypeOK
    BY DEF MergeInv, Nesting, BlockKind, BracesTyped, MergeTypeOK
<1>2. QED
    BY <1>1, MergeInvariant, PTL

(* A process that runs one of the parts runs it as its own specification   *)
(* says, and leaves the others where they start.                           *)
THEOREM PartsRunAlone ==
  Spec => /\ ParserSpec /\ ImportsSpec /\ WalkSpec /\ MergeSpec
          /\ ProtoSpec /\ GenSpec /\ DaoSpec /\ MigrateSpec
<1>1. Init => /\ ParserInit /\ ImportsInit /\ WalkInit /\ MergeInit
              /\ ProtoInit /\ GenInit /\ DaoInit /\ MigrateInit
    BY DEF Init
<1>2. [Next]_vars => /\ [ParserNext]_parserVars /\ [ImportsNext]_importVars
                     /\ [WalkNext]_walkVars /\ [MergeNext]_mergeVars
                     /\ [ProtoNext]_protoVars /\ [GenNext]_genVars
                     /\ [DaoNext]_daoVars /\ [MigrateNext]_migrateVars
    BY DEF Next, vars, ParserStep, ImportsStep, WalkStep, MergeStep, ProtosStep, ProjectStep,
           DaoCallsStep, MigrateStep
<1>3. QED
    BY <1>1, <1>2, PTL
    DEF Spec, ParserSpec, ImportsSpec, WalkSpec, MergeSpec, ProtoSpec, GenSpec, DaoSpec, MigrateSpec

(* Every variable of the parts keeps its type, for all values of their     *)
(* constants: no step leaves the frames, stacks, tokens, rows, files and   *)
(* verdicts that the code has.                                             *)
THEOREM TypesAlwaysOK == Spec => []TypesOK
<1>1. ImportsSpec => []ImportsTypeOK
  <2>1. ImportsInv => ImportsTypeOK
      BY DEF ImportsInv
  <2>2. QED
      BY <2>1, ImportsInitInv, ImportsKept, PTL DEF ImportsSpec
<1>2. WalkSpec => []WalkTypeOK
  <2>1. WalkInv => WalkTypeOK
      BY DEF WalkInv
  <2>2. QED
      BY <2>1, WalkInitInv, WalkKept, PTL DEF WalkSpec
<1>3. ProtoSpec => []ProtoTypeOK
  <2>1. ProtoInv => ProtoTypeOK
      BY DEF ProtoInv
  <2>2. QED
      BY <2>1, ProtoInitInv, ProtoStep, PTL DEF ProtoSpec
<1>4. GenSpec => []GenTypeOK
  <2>1. GenInit => GenTypeOK
      BY GenInitInv DEF GenInv
  <2>2. QED
      BY <2>1, GenTypeStep, PTL DEF GenSpec
<1>5. DaoSpec => []DaoTypeOK
  <2>1. DaoInv => DaoTypeOK
      BY DEF DaoInv
  <2>2. QED
      BY <2>1, DaoInitInv, DaoStep, PTL DEF DaoSpec
<1>6. MigrateSpec => []MigrateTypeOK
  <2>1. MigrateInv => MigrateTypeOK
      BY DEF MigrateInv
  <2>2. QED
      BY <2>1, MigrateInitInv, MigrateStepInv, PTL DEF MigrateSpec
<1>7. QED
    BY <1>1, <1>2, <1>3, <1>4, <1>5, <1>6, ParserTyped, MergeTyped, PartsRunAlone, PTL DEF TypesOK
=============================================================================
