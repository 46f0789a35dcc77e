-------------------------- MODULE RepoCacheProofs --------------------------
(***************************************************************************)
(* Proofs about RepoCache for every set of rows, processes and goroutines, *)
(* every bound on the number of writes and every set of faults.            *)
(***************************************************************************)
EXTENDS RepoCache, TLAPS

-----------------------------------------------------------------------------
(* What the helpers return.                                                *)

LEMMA OverlayType ==
  ASSUME NEW S, NEW f \in [Key -> S], NEW g \in [Key -> Staged], Value \subseteq S
  PROVE  Overlay(f, g) \in [Key -> S]
BY DEF Overlay, Staged

LEMMA OnlyType ==
  ASSUME NEW K \in SUBSET Key, NEW v \in Value
  PROVE  Only(K, v) \in [Key -> Staged]
BY DEF Only, Staged

LEMMA ContentsType ==
  ASSUME TypeOK, version < MaxVersion
  PROVE  Contents \subseteq Value /\ version + 1 \in 1 .. MaxVersion
BY ConstantsAssumption DEF TypeOK, Contents, Value, Absent

LEMMA NilFacts == Nil \notin Value /\ Absent \in Value /\ Absent # Nil
BY ConstantsAssumption DEF Nil, Value, Absent

(* A goroutine in evict has deletes to run.                                *)
Busy == \A c \in Client : pc[c] = "evict" => todo[c] # <<>>

(* A goroutine has deletes to run only where the code runs or queues them, *)
(* and holds contents only between a load and the end of its read.         *)
Tidy ==
  /\ \A c \in Client : pc[c] \notin {"tx", "evict"} => todo[c] = <<>>
  /\ \A c \in Client :
       pc[c] \notin {"loaded", "publish", "through"} => val[c] = Nil
  /\ \A c \in Client : erred[c] # {} => "late" \in Faults

-----------------------------------------------------------------------------
LEMMA InitType == Init => TypeOK /\ Busy
<1> SUFFICES ASSUME Init PROVE TypeOK /\ Busy
    OBVIOUS
<1>1. (CHOOSE k \in Key : TRUE) \in Key
    BY ConstantsAssumption
<1>2. {Absent, 1} \subseteq Value
    BY ConstantsAssumption DEF Absent, Value
<1>3. QED
    BY <1>1, <1>2, ConstantsAssumption
    DEF Init, TypeOK, Busy, Staged, NoWrites, PC, KeySets

LEMMA ReadType ==
  ASSUME TypeOK, Busy, NEW c \in Client, NEW k \in Key,
         GetHit(c, k) \/ GetMiss(c, k) \/ ReadThrough(c, k) \/ TxRead(c, k)
  PROVE  TypeOK' /\ Busy'
<1>1. CASE GetHit(c, k)
    BY <1>1 DEF GetHit, TypeOK, Busy, Staged
<1>2. CASE GetMiss(c, k)
    BY <1>2 DEF GetMiss, Start, TypeOK, Busy, PC
<1>3. CASE ReadThrough(c, k)
  <2>1. db[k] \in Value
      BY DEF TypeOK
  <2>2. answer' \in [Client -> {<<>>} \cup (Key \X Value)]
      BY <1>3, <2>1 DEF ReadThrough, TypeOK
  <2>3. val' \in [Client -> Staged] /\ pc' \in [Client -> PC] /\ Busy'
      BY <1>3, <2>1 DEF ReadThrough, Start, TypeOK, Busy, PC, Staged
  <2>4. QED
      BY <1>3, <2>2, <2>3 DEF ReadThrough, TypeOK
<1>4. CASE TxRead(c, k)
  <2>1. Overlay(db, buf[c]) \in [Key -> Value]
      BY OverlayType DEF TypeOK
  <2>2. QED
      BY <1>4, <2>1 DEF TxRead, InTxView, TypeOK, Busy
<1>5. QED
    BY <1>1, <1>2, <1>3, <1>4

LEMMA ProceedType ==
  ASSUME TypeOK, Busy, NEW c \in Client, Proceed(c)
  PROVE  TypeOK' /\ Busy'
<1>1. CASE Join(c)
    BY <1>1 DEF Join, Start, TypeOK, Busy, PC
<1>2. CASE Lead(c)
    BY <1>2, ConstantsAssumption DEF Lead, Start, TypeOK, Busy, PC
<1>3. CASE Load(c)
    BY <1>3 DEF Load, Start, TypeOK, Busy, PC, Staged
<1>4. CASE Setex(c)
    BY <1>4 DEF Setex, Cache, Start, TypeOK, Busy, PC
<1>5. CASE Publish(c)
  <2>1. answer' \in [Client -> {<<>>} \cup (Key \X Value)]
      BY <1>5 DEF Publish, TypeOK, Staged
  <2>2. QED
      BY <1>5, <2>1, ConstantsAssumption DEF Publish, TypeOK, Busy, PC, Staged
<1>6. CASE WriteThrough(c)
    BY <1>6 DEF WriteThrough, Cache, Start, TypeOK, Busy, PC, Staged
<1>7. CASE DoubleDelete(c)
  <2>1. todo[c] \in Seq(KeySets) /\ todo[c] # <<>>
      BY <1>7 DEF DoubleDelete, TypeOK, Busy
  <2>2. Head(todo[c]) \in KeySets /\ Tail(todo[c]) \in Seq(KeySets)
      BY <2>1
  <2>3. redis' \in [Key -> Staged]
      BY <1>7 DEF DoubleDelete, Del, TypeOK, Staged
  <2>4. timers' \in [Node -> [KeySets -> Nat]]
    <3>1. Home[c] \in Node
        BY ConstantsAssumption
    <3>2. timers[Home[c]] \in [KeySets -> Nat]
        BY <3>1 DEF TypeOK
    <3>3. timers' = [timers EXCEPT ![Home[c]] =
                      [timers[Home[c]] EXCEPT ![Head(todo[c])] = @ + 1]]
        BY <1>7 DEF DoubleDelete, Scheduled
    <3>4. [timers[Home[c]] EXCEPT ![Head(todo[c])] = @ + 1] \in [KeySets -> Nat]
        BY <2>2, <3>2
    <3>5. QED
        BY <3>1, <3>3, <3>4 DEF TypeOK
  <2>5. todo' \in [Client -> Seq(KeySets)] /\ pc' \in [Client -> PC] /\ Busy'
      BY <1>7, <2>2 DEF DoubleDelete, Rest, Start, TypeOK, Busy, PC
  <2>6. QED
      BY <1>7, <2>3, <2>4, <2>5 DEF DoubleDelete, TypeOK
<1>8. QED
    BY <1>1, <1>2, <1>3, <1>4, <1>5, <1>6, <1>7 DEF Proceed

LEMMA WriteType ==
  ASSUME TypeOK, Busy, NEW c \in Client, NEW K \in KeySets, NEW v \in Contents,
         Write(c, K, v) \/ WriteErrsLate(c, K, v) \/ TxWrite(c, K, v) \/ TxWriteErrsLate(c, K, v)
  PROVE  TypeOK' /\ Busy'
<1>1. v \in Value /\ version + 1 \in 1 .. MaxVersion
    BY ContentsType DEF Write, WriteErrsLate, TxWrite, TxWriteErrsLate, Writable
<1>2. Only(K, v) \in [Key -> Staged]
    BY <1>1, OnlyType DEF KeySets
<1>3. Overlay(db, Only(K, v)) \in [Key -> Value]
    BY <1>2, OverlayType DEF TypeOK
<1>4. CASE Write(c, K, v)
  <2>1. <<K>> \in Seq(KeySets) /\ <<K>> # <<>>
      OBVIOUS
  <2>2. todo' \in [Client -> Seq(KeySets)] /\ pc' \in [Client -> PC] /\ Busy'
      BY <1>4, <2>1 DEF Write, Start, TypeOK, Busy, PC
  <2>3. QED
      BY <1>1, <1>3, <1>4, <2>2 DEF Write, TypeOK
<1>5. CASE WriteErrsLate(c, K, v)
    BY <1>1, <1>3, <1>5 DEF WriteErrsLate, TypeOK, Busy
<1>6. CASE TxWrite(c, K, v)
  <2>1. Overlay(buf[c], Only(K, v)) \in [Key -> Staged]
      BY <1>2, OverlayType DEF TypeOK, Staged
  <2>2. Append(todo[c], K) \in Seq(KeySets)
      BY DEF TypeOK
  <2>3. QED
      BY <1>1, <1>6, <2>1, <2>2 DEF TxWrite, Queued, TypeOK, Busy
<1>7. CASE TxWriteErrsLate(c, K, v)
  <2>1. Overlay(buf[c], Only(K, v)) \in [Key -> Staged]
      BY <1>2, OverlayType DEF TypeOK, Staged
  <2>2. K \in SUBSET Key
      BY DEF KeySets
  <2>3. QED
      BY <1>1, <1>7, <2>1, <2>2 DEF TxWriteErrsLate, TypeOK, Busy
<1>8. QED
    BY <1>4, <1>5, <1>6, <1>7

LEMMA TxType ==
  ASSUME TypeOK, Busy, NEW c \in Client,
         TxBegin(c) \/ TxCommit(c) \/ TxCommitErrsLate(c) \/ TxRollback(c)
  PROVE  TypeOK' /\ Busy'
<1>1. Overlay(db, buf[c]) \in [Key -> Value]
    BY OverlayType DEF TypeOK
<1>2. Closed(c) \in [Client -> [Key -> Staged]]
    BY DEF Closed, NoWrites, TypeOK, Staged
<1>3. CASE TxBegin(c)
    BY <1>3 DEF TxBegin, Start, TypeOK, Busy, PC
<1>4. CASE TxCommit(c)
    BY <1>1, <1>2, <1>4 DEF TxCommit, AfterCommit, Start, TypeOK, Busy, PC
<1>5. CASE TxCommitErrsLate(c)
  <2>1. todo' \in [Client -> Seq(KeySets)] /\ pc' \in [Client -> PC] /\ Busy'
      BY <1>5 DEF TxCommitErrsLate, Start, TypeOK, Busy, PC
  <2>2. QED
      BY <1>1, <1>2, <1>5, <2>1 DEF TxCommitErrsLate, TypeOK
<1>6. CASE TxRollback(c)
    BY <1>2, <1>6 DEF TxRollback, Start, TypeOK, Busy, PC
<1>7. QED
    BY <1>3, <1>4, <1>5, <1>6

LEMMA EnvironmentType ==
  ASSUME TypeOK, Busy,
         \/ \E n \in Node : \E K \in KeySets : SecondDelete(n, K)
         \/ \E k \in Key : Expire(k)
         \/ \E n \in Node : Crash(n)
  PROVE  TypeOK' /\ Busy'
<1>1. ASSUME NEW n \in Node, NEW K \in KeySets, SecondDelete(n, K)
      PROVE  TypeOK' /\ Busy'
  <2>1. redis' \in [Key -> Staged]
      BY <1>1 DEF SecondDelete, Del, TypeOK, Staged
  <2>2. timers' \in [Node -> [KeySets -> Nat]]
    <3>1. timers[n] \in [KeySets -> Nat] /\ timers[n][K] - 1 \in Nat
        BY <1>1 DEF SecondDelete, Due, TypeOK
    <3>2. [timers[n] EXCEPT ![K] = @ - 1] \in [KeySets -> Nat]
        BY <3>1
    <3>3. timers' = [timers EXCEPT ![n] = [timers[n] EXCEPT ![K] = @ - 1]]
        BY <1>1 DEF SecondDelete
    <3>4. QED
        BY <3>2, <3>3 DEF TypeOK
  <2>3. QED
      BY <1>1, <2>1, <2>2 DEF SecondDelete, TypeOK, Busy
<1>2. ASSUME NEW k \in Key, Expire(k) PROVE TypeOK' /\ Busy'
    BY <1>2 DEF Expire, TypeOK, Busy, Staged
<1>3. ASSUME NEW n \in Node, Crash(n) PROVE TypeOK' /\ Busy'
  <2>1. pc' \in [Client -> PC] /\ val' \in [Client -> Staged]
      BY <1>3 DEF Crash, TypeOK, Staged, PC
  <2>2. answer' \in [Client -> {<<>>} \cup (Key \X Value)]
      BY <1>3 DEF Crash, TypeOK
  <2>3. buf' \in [Client -> [Key -> Staged]]
      BY <1>3 DEF Crash, TypeOK, NoWrites, Staged
  <2>4. todo' \in [Client -> Seq(KeySets)] /\ Busy'
      BY <1>3 DEF Crash, TypeOK, Busy
  <2>5. timers' \in [Node -> [KeySets -> Nat]]
      BY <1>3 DEF Crash, TypeOK
  <2>6. flight' \in [Node -> [Key -> Client \cup {NoClient}]]
      BY <1>3 DEF Crash, TypeOK
  <2>7. QED
      BY <1>3, <2>1, <2>2, <2>3, <2>4, <2>5, <2>6 DEF Crash, TypeOK
<1>4. QED
    BY <1>1, <1>2, <1>3

LEMMA StepType == TypeOK /\ Busy /\ [Next]_vars => TypeOK' /\ Busy'
<1> SUFFICES ASSUME TypeOK, Busy, [Next]_vars PROVE TypeOK' /\ Busy'
    OBVIOUS
<1>1. CASE UNCHANGED vars
    BY <1>1 DEF vars, TypeOK, Busy
<1>2. CASE Next
    BY <1>2, ReadType, ProceedType, WriteType, TxType, EnvironmentType DEF Next
<1>3. QED
    BY <1>1, <1>2

(* Every variable stays in its domain, whatever fails and however many     *)
(* goroutines and rows there are.                                          *)
THEOREM TypeCorrect == Spec => []TypeOK
<1>1. Init => TypeOK /\ Busy
    BY InitType
<1>2. (TypeOK /\ Busy) /\ [Next]_vars => (TypeOK /\ Busy)'
    BY StepType
<1>3. QED
    BY <1>1, <1>2, PTL DEF Spec

-----------------------------------------------------------------------------
(* The queues of deletes.                                                  *)

(* Only an open transaction holds writes: the first half of LocksSound.    *)
OnlyTxWrites == \A c \in Client : pc[c] # "tx" => buf[c] = NoWrites

QInv == TypeOK /\ Busy /\ Tidy /\ OnlyTxWrites /\ BoxMatches

LEMMA AppendDeletes ==
  ASSUME NEW s \in Seq(KeySets), NEW K \in KeySets, NEW k \in Key
  PROVE  (\E i \in DOMAIN Append(s, K) : k \in Append(s, K)[i])
           <=> (k \in K \/ \E i \in DOMAIN s : k \in s[i])
<1>1. /\ DOMAIN Append(s, K) = 1 .. Len(s) + 1
      /\ DOMAIN s = 1 .. Len(s)
      /\ Append(s, K)[Len(s) + 1] = K
      /\ \A i \in 1 .. Len(s) : Append(s, K)[i] = s[i]
    OBVIOUS
<1>2. Len(s) \in Nat
    OBVIOUS
<1>3. ASSUME NEW i \in DOMAIN Append(s, K), k \in Append(s, K)[i]
      PROVE  k \in K \/ \E j \in DOMAIN s : k \in s[j]
    BY <1>1, <1>2, <1>3
<1>4. ASSUME k \in K PROVE \E i \in DOMAIN Append(s, K) : k \in Append(s, K)[i]
    BY <1>1, <1>2, <1>4
<1>5. ASSUME NEW i \in DOMAIN s, k \in s[i]
      PROVE  \E j \in DOMAIN Append(s, K) : k \in Append(s, K)[j]
    BY <1>1, <1>2, <1>5
<1>6. QED
    BY <1>3, <1>4, <1>5

LEMMA TailDeletes ==
  ASSUME NEW s \in Seq(KeySets), s # <<>>, NEW k
  PROVE  (\E i \in DOMAIN s : k \in s[i])
           => k \in Head(s) \/ \E i \in DOMAIN Tail(s) : k \in Tail(s)[i]
<1> SUFFICES ASSUME NEW i \in DOMAIN s, k \in s[i], k \notin Head(s)
             PROVE  \E j \in DOMAIN Tail(s) : k \in Tail(s)[j]
    OBVIOUS
<1>1. /\ DOMAIN s = 1 .. Len(s) /\ Len(s) \in Nat \ {0} /\ Head(s) = s[1]
      /\ DOMAIN Tail(s) = 1 .. Len(s) - 1
      /\ \A j \in 1 .. Len(s) - 1 : Tail(s)[j] = s[j + 1]
    OBVIOUS
<1>2. i # 1 /\ i - 1 \in DOMAIN Tail(s) /\ Tail(s)[i - 1] = s[i]
    BY <1>1
<1>3. QED
    BY <1>2

LEMMA InitQueue == Init => QInv
BY InitType DEF Init, QInv, Tidy, OnlyTxWrites, BoxMatches

LEMMA ReadQueue ==
  ASSUME QInv, TypeOK', Busy', NEW c \in Client, NEW k \in Key,
         GetHit(c, k) \/ GetMiss(c, k) \/ ReadThrough(c, k) \/ TxRead(c, k)
  PROVE  QInv'
<1> USE DEF QInv, TypeOK, Tidy, OnlyTxWrites, BoxMatches, Deletes
<1>1. CASE GetHit(c, k)
    BY <1>1 DEF GetHit
<1>2. CASE GetMiss(c, k)
    BY <1>2 DEF GetMiss, Start
<1>3. CASE ReadThrough(c, k)
  <2>1. /\ buf' = buf /\ todo' = todo /\ erred' = erred /\ pc[c] = "idle"
        /\ \/ pc' = pc /\ val' = val
           \/ /\ pc' = [pc EXCEPT ![c] = "through"]
              /\ val' = [val EXCEPT ![c] = db[k]]
      BY <1>3 DEF ReadThrough, Start
  <2>2. \A d \in Client : \/ pc'[d] = pc[d] /\ val'[d] = val[d]
                          \/ pc'[d] = "through" /\ d = c
      BY <2>1
  <2>3. Tidy'
      BY <2>1, <2>2
  <2>4. OnlyTxWrites'
      BY <2>1, <2>2
  <2>5. BoxMatches'
      BY <2>1, <2>2
  <2>6. QED
      BY <2>3, <2>4, <2>5
<1>4. CASE TxRead(c, k)
    BY <1>4 DEF TxRead
<1>5. QED
    BY <1>1, <1>2, <1>3, <1>4

LEMMA ProceedQueue ==
  ASSUME QInv, TypeOK', Busy', NEW c \in Client, Proceed(c)
  PROVE  QInv'
<1> USE DEF QInv, TypeOK, Tidy, OnlyTxWrites, BoxMatches, Deletes
<1>1. CASE Join(c)
    BY <1>1 DEF Join, Start
<1>2. CASE Lead(c)
    BY <1>2 DEF Lead, Start
<1>3. CASE Load(c)
  <2>1. /\ buf' = buf /\ todo' = todo /\ erred' = erred /\ pc[c] = "load"
        /\ pc'[c] \in {"loaded", "publish"}
        /\ \A d \in Client \ {c} : pc'[d] = pc[d] /\ val'[d] = val[d]
      BY <1>3 DEF Load, Start
  <2>2. Tidy'
      BY <2>1
  <2>3. OnlyTxWrites' /\ BoxMatches'
      BY <2>1
  <2>4. QED
      BY <2>2, <2>3
<1>4. CASE Setex(c)
    BY <1>4 DEF Setex, Start
<1>5. CASE Publish(c)
    BY <1>5 DEF Publish, Audience
<1>6. CASE WriteThrough(c)
    BY <1>6 DEF WriteThrough, Start
<1>7. CASE DoubleDelete(c)
    BY <1>7 DEF DoubleDelete, Rest, Start
<1>8. QED
    BY <1>1, <1>2, <1>3, <1>4, <1>5, <1>6, <1>7 DEF Proceed

LEMMA WriteQueue ==
  ASSUME QInv, TypeOK', Busy', NEW c \in Client, NEW K \in KeySets,
         NEW v \in Contents,
         Write(c, K, v) \/ WriteErrsLate(c, K, v) \/ TxWrite(c, K, v) \/ TxWriteErrsLate(c, K, v)
  PROVE  QInv'
<1> USE DEF QInv, TypeOK, Tidy, OnlyTxWrites, BoxMatches
<1>1. CASE Write(c, K, v)
    BY <1>1 DEF Write, Start, Deletes
<1>2. CASE WriteErrsLate(c, K, v)
    BY <1>2 DEF WriteErrsLate, Deletes
<1>3. CASE TxWrite(c, K, v)
  <2>1. v # Nil
      BY <1>3, ContentsType, NilFacts DEF TxWrite, Writable
  <2>2. \A k \in Key : buf'[c][k] # Nil <=> k \in K \/ buf[c][k] # Nil
      BY <1>3, <2>1 DEF TxWrite, Overlay, Only
  <2>3. \A k \in Key : Deletes(c, k)' <=> k \in K \/ Deletes(c, k)
    <3>1. todo[c] \in Seq(KeySets) /\ todo'[c] = Append(todo[c], K)
        BY <1>3 DEF TxWrite, Queued
    <3>2. TAKE k \in Key
    <3>3. (\E i \in DOMAIN Append(todo[c], K) : k \in Append(todo[c], K)[i])
            <=> (k \in K \/ \E i \in DOMAIN todo[c] : k \in todo[c][i])
        BY <3>1, AppendDeletes
    <3>4. QED
        BY <3>1, <3>3 DEF Deletes
  <2>4. \A d \in Client \ {c} : \A k \in Key :
          buf'[d] = buf[d] /\ (Deletes(d, k)' <=> Deletes(d, k))
      BY <1>3 DEF TxWrite, Deletes
  <2>5. BoxMatches'
      BY <1>3, <2>2, <2>3, <2>4 DEF TxWrite
  <2>6. QED
      BY <1>3, <2>5 DEF TxWrite
<1>4. CASE TxWriteErrsLate(c, K, v)
  <2>1. v # Nil
      BY <1>4, ContentsType, NilFacts DEF TxWriteErrsLate, Writable
  <2>2. \A k \in Key : buf'[c][k] # Nil <=> k \in K \/ buf[c][k] # Nil
      BY <1>4, <2>1 DEF TxWriteErrsLate, Overlay, Only
  <2>3. todo' = todo /\ pc' = pc /\ pc[c] = "tx" /\ "late" \in Faults
      BY <1>4 DEF TxWriteErrsLate, RereadFails
  <2>4. \A d \in Client : erred'[d] = IF d = c THEN erred[d] \cup K ELSE erred[d]
      BY <1>4 DEF TxWriteErrsLate
  <2>5. \A d \in Client \ {c} : buf'[d] = buf[d]
      BY <1>4 DEF TxWriteErrsLate
  <2>6. QED
      BY <1>4, <2>2, <2>3, <2>4, <2>5 DEF TxWriteErrsLate, Deletes
<1>5. QED
    BY <1>1, <1>2, <1>3, <1>4

LEMMA TxQueue ==
  ASSUME QInv, TypeOK', Busy', NEW c \in Client,
         TxBegin(c) \/ TxCommit(c) \/ TxCommitErrsLate(c) \/ TxRollback(c)
  PROVE  QInv'
<1> USE DEF QInv, TypeOK, Tidy, OnlyTxWrites, BoxMatches, Deletes
<1>1. CASE TxBegin(c)
    BY <1>1 DEF TxBegin, Start, NoWrites
<1>2. CASE TxCommit(c)
    BY <1>2 DEF TxCommit, AfterCommit, Closed, Start
<1>3. CASE TxCommitErrsLate(c)
    BY <1>3 DEF TxCommitErrsLate, Closed, Start
<1>4. CASE TxRollback(c)
    BY <1>4 DEF TxRollback, Closed, Start
<1>5. QED
    BY <1>1, <1>2, <1>3, <1>4

LEMMA EnvironmentQueue ==
  ASSUME QInv, TypeOK', Busy',
         \/ \E n \in Node : \E K \in KeySets : SecondDelete(n, K)
         \/ \E k \in Key : Expire(k)
         \/ \E n \in Node : Crash(n)
  PROVE  QInv'
<1> USE DEF QInv, TypeOK, Tidy, OnlyTxWrites, BoxMatches, Deletes
<1>1. ASSUME NEW n \in Node, NEW K \in KeySets, SecondDelete(n, K) PROVE QInv'
    BY <1>1 DEF SecondDelete
<1>2. ASSUME NEW k \in Key, Expire(k) PROVE QInv'
    BY <1>2 DEF Expire
<1>3. ASSUME NEW n \in Node, Crash(n) PROVE QInv'
    BY <1>3 DEF Crash
<1>4. QED
    BY <1>1, <1>2, <1>3

LEMMA StepQueue == QInv /\ [Next]_vars => QInv'
<1> SUFFICES ASSUME QInv, [Next]_vars PROVE QInv'
    OBVIOUS
<1>1. TypeOK' /\ Busy'
    BY StepType DEF QInv
<1>2. CASE UNCHANGED vars
    BY <1>1, <1>2 DEF vars, QInv, Tidy, OnlyTxWrites, BoxMatches, Deletes
<1>3. CASE Next
    BY <1>1, <1>3, ReadQueue, ProceedQueue, WriteQueue, TxQueue, EnvironmentQueue
    DEF Next
<1>4. QED
    BY <1>2, <1>3

(* The afterCommitBox holds a delete for exactly the rows the transaction  *)
(* has written.                                                            *)
THEOREM BoxAlwaysMatches == Spec => []BoxMatches
<1>1. QInv => BoxMatches
    BY DEF QInv
<1>2. QED
    BY <1>1, InitQueue, StepQueue, PTL DEF Spec

-----------------------------------------------------------------------------
(* Singleflight.                                                           *)

FInv == TypeOK /\ FlightsSound

(* A step that leaves the flights alone, starts nobody waiting or leading  *)
(* and moves leaders along is harmless.                                    *)
LEMMA FlightFrame ==
  ASSUME FInv, TypeOK', flight' = flight,
         \A d \in Client : \/ pc'[d] = pc[d] /\ key'[d] = key[d]
                           \/ ~Leading(d) /\ ~Leading(d)' /\ pc'[d] # "wait"
                           \/ Leading(d) /\ Leading(d)' /\ key'[d] = key[d]
  PROVE  FlightsSound'
<1> USE DEF FInv, FlightsSound
<1>1. ASSUME NEW d \in Client, NEW n \in Node, NEW k \in Key
      PROVE  flight'[n][k] = d <=> Leading(d)' /\ Home[d] = n /\ key'[d] = k
    BY DEF Leading
<1>2. \A d \in Client : pc'[d] = "wait" => flight'[Home[d]][key'[d]] # NoClient
    BY DEF Leading
<1>3. QED
    BY <1>1, <1>2

LEMMA LeadFlight ==
  ASSUME FInv, TypeOK', NEW c \in Client, Lead(c)
  PROVE  FlightsSound'
<1> DEFINE n == Home[c]
           k == key[c]
<1>1. n \in Node /\ k \in Key /\ flight[n][k] = NoClient
    BY ConstantsAssumption DEF FInv, TypeOK, Lead, InFlight
<1>2. /\ flight'[n][k] = c /\ key' = key /\ pc' = [pc EXCEPT ![c] = "load"]
      /\ \A m \in Node, j \in Key :
           m # n \/ j # k => flight'[m][j] = flight[m][j]
    BY <1>1 DEF FInv, TypeOK, Lead, Start
<1>3. ~Leading(c) /\ Leading(c)' /\ pc' [c] = "load"
    BY <1>2 DEF Leading, Lead, FInv, TypeOK
<1>4. \A d \in Client \ {c} : pc'[d] = pc[d] /\ Leading(d)' = Leading(d)
    BY <1>2 DEF Leading, FInv, TypeOK
<1>5. \A d \in Client : Home[d] \in Node /\ key[d] \in Key
    BY ConstantsAssumption DEF FInv, TypeOK
<1>6. ASSUME NEW d \in Client, NEW m \in Node, NEW j \in Key
      PROVE  flight'[m][j] = d <=> Leading(d)' /\ Home[d] = m /\ key'[d] = j
  <2>1. CASE d = c
      BY <1>1, <1>2, <1>3, <2>1 DEF FInv, FlightsSound
  <2>2. CASE d # c /\ m = n /\ j = k
    <3>1. ~(Leading(d) /\ Home[d] = m /\ key[d] = j)
        BY <1>1, <2>2, ConstantsAssumption DEF FInv, FlightsSound
    <3>2. QED
        BY <1>2, <1>4, <2>2, <3>1
  <2>3. CASE d # c /\ (m # n \/ j # k)
      BY <1>2, <1>4, <2>3 DEF FInv, FlightsSound
  <2>4. QED
      BY <2>1, <2>2, <2>3
<1>8. \A d \in Client : pc'[d] = "wait" => flight'[Home[d]][key'[d]] # NoClient
  <2> SUFFICES ASSUME NEW d \in Client, pc'[d] = "wait"
               PROVE  flight'[Home[d]][key'[d]] # NoClient
      OBVIOUS
  <2>1. d # c /\ pc[d] = "wait"
      BY <1>3, <1>4
  <2>2. flight[Home[d]][key[d]] # NoClient
      BY <2>1 DEF FInv, FlightsSound
  <2>3. QED
      BY <1>1, <1>2, <1>5, <2>2
<1>9. QED
    BY <1>6, <1>8 DEF FlightsSound

LEMMA PublishFlight ==
  ASSUME FInv, TypeOK', NEW c \in Client, Publish(c)
  PROVE  FlightsSound'
<1> DEFINE n == Home[c]
           k == key[c]
<1>1. /\ n \in Node /\ k \in Key /\ Leading(c) /\ flight[n][k] = c
      /\ \A d \in Client : Home[d] \in Node /\ key[d] \in Key
  <2>1. \A d \in Client : Home[d] \in Node /\ key[d] \in Key
      BY ConstantsAssumption DEF FInv, TypeOK
  <2>2. Leading(c)
      BY DEF Publish, Leading
  <2>3. QED
      BY <2>1, <2>2 DEF FInv, FlightsSound
<1>2. /\ flight'[n][k] = NoClient /\ key' = key
      /\ \A m \in Node, j \in Key :
           m # n \/ j # k => flight'[m][j] = flight[m][j]
      /\ \A d \in Client : pc'[d] = IF d \in Audience(c) THEN "idle" ELSE pc[d]
    BY <1>1 DEF FInv, TypeOK, Publish
<1>3. c \in Audience(c) /\ \A d \in Audience(c) : d = c \/ ~Leading(d)
    BY DEF Audience, Leading
<1>4. \A d \in Client : Leading(d)' => Leading(d) /\ d # c
    BY <1>2, <1>3 DEF Leading
<1>5. \A d \in Client : Leading(d) /\ d # c => Leading(d)'
    BY <1>2, <1>3 DEF Leading
<1>6. ASSUME NEW d \in Client, NEW m \in Node, NEW j \in Key
      PROVE  flight'[m][j] = d <=> Leading(d)' /\ Home[d] = m /\ key'[d] = j
  <2>1. CASE m = n /\ j = k
    <3>1. Leading(d) /\ Home[d] = m /\ key[d] = j => d = c
        BY <1>1, <2>1 DEF FInv, FlightsSound
    <3>2. QED
        BY <1>2, <1>4, <2>1, <3>1, ConstantsAssumption
  <2>2. CASE m # n \/ j # k
    <3>1. flight'[m][j] = d <=> Leading(d) /\ Home[d] = m /\ key[d] = j
        BY <1>2, <2>2 DEF FInv, FlightsSound
    <3>2. Home[d] = m /\ key[d] = j => d # c
        BY <2>2
    <3>3. QED
        BY <1>2, <1>4, <1>5, <3>1, <3>2
  <2>3. QED
      BY <2>1, <2>2
<1>8. \A d \in Client : pc'[d] = "wait" => flight'[Home[d]][key'[d]] # NoClient
  <2> SUFFICES ASSUME NEW d \in Client, pc'[d] = "wait"
               PROVE  flight'[Home[d]][key'[d]] # NoClient
      OBVIOUS
  <2>1. d \notin Audience(c) /\ pc[d] = "wait"
      BY <1>2
  <2>2. Home[d] # n \/ key[d] # k
      BY <2>1 DEF Audience
  <2>3. flight[Home[d]][key[d]] # NoClient
      BY <2>1 DEF FInv, FlightsSound
  <2>4. QED
      BY <1>1, <1>2, <2>2, <2>3
<1>9. QED
    BY <1>6, <1>8 DEF FlightsSound

LEMMA CrashFlight ==
  ASSUME FInv, TypeOK', NEW n \in Node, Crash(n)
  PROVE  FlightsSound'
<1>1. /\ key' = key
      /\ \A d \in Client : pc'[d] = IF Home[d] = n THEN "idle" ELSE pc[d]
      /\ \A m \in Node \ {n} : flight'[m] = flight[m]
      /\ \A k \in Key : flight'[n][k] = NoClient
    BY DEF Crash, FInv, TypeOK
<1>2. \A d \in Client : Home[d] \in Node /\ key[d] \in Key
    BY ConstantsAssumption DEF FInv, TypeOK
<1>3. \A d \in Client : Leading(d)' <=> Leading(d) /\ Home[d] # n
    BY <1>1 DEF Leading
<1>4. ASSUME NEW d \in Client, NEW m \in Node, NEW j \in Key
      PROVE  flight'[m][j] = d <=> Leading(d)' /\ Home[d] = m /\ key'[d] = j
  <2>1. CASE m = n
      BY <1>1, <1>3, <2>1, ConstantsAssumption
  <2>2. CASE m # n
      BY <1>1, <1>3, <2>2 DEF FInv, FlightsSound
  <2>3. QED
      BY <2>1, <2>2
<1>6. \A d \in Client : pc'[d] = "wait" => flight'[Home[d]][key'[d]] # NoClient
    BY <1>1, <1>2 DEF FInv, FlightsSound
<1>7. QED
    BY <1>4, <1>6 DEF FlightsSound

LEMMA StepFlight == FInv /\ TypeOK' /\ [Next]_vars => FlightsSound'
<1> SUFFICES ASSUME FInv, TypeOK', [Next]_vars PROVE FlightsSound'
    OBVIOUS
<1> USE DEF FInv, TypeOK
<1>1. CASE UNCHANGED vars
    BY <1>1, FlightFrame DEF vars
<1>2. ASSUME NEW c \in Client, Proceed(c) PROVE FlightsSound'
  <2>1. CASE Join(c)
      BY <2>1, ConstantsAssumption DEF Join, InFlight, Start, FlightsSound, Leading
  <2>2. CASE Lead(c)
      BY <2>2, LeadFlight
  <2>3. CASE Load(c)
      BY <2>3, FlightFrame DEF Load, Start, Leading
  <2>4. CASE Setex(c)
      BY <2>4, FlightFrame DEF Setex, Start, Leading
  <2>5. CASE Publish(c)
      BY <2>5, PublishFlight
  <2>6. CASE WriteThrough(c)
      BY <2>6, FlightFrame DEF WriteThrough, Start, Leading
  <2>7. CASE DoubleDelete(c)
      BY <2>7, FlightFrame DEF DoubleDelete, Start, Leading
  <2>8. QED
      BY <1>2, <2>1, <2>2, <2>3, <2>4, <2>5, <2>6, <2>7 DEF Proceed
<1>3. ASSUME NEW c \in Client, NEW k \in Key,
             GetHit(c, k) \/ GetMiss(c, k) \/ ReadThrough(c, k) \/ TxRead(c, k)
      PROVE  FlightsSound'
    BY <1>3, FlightFrame DEF GetHit, GetMiss, ReadThrough, TxRead, Start, Leading
<1>4. ASSUME NEW c \in Client, NEW K \in KeySets, NEW v \in Contents,
             Write(c, K, v) \/ WriteErrsLate(c, K, v) \/ TxWrite(c, K, v) \/ TxWriteErrsLate(c, K, v)
      PROVE  FlightsSound'
    BY <1>4, FlightFrame DEF Write, WriteErrsLate, TxWrite, TxWriteErrsLate, Start, Leading
<1>5. ASSUME NEW c \in Client,
             TxBegin(c) \/ TxCommit(c) \/ TxCommitErrsLate(c) \/ TxRollback(c)
      PROVE  FlightsSound'
    BY <1>5, FlightFrame
    DEF TxBegin, TxCommit, TxCommitErrsLate, TxRollback, Start, Leading
<1>6. ASSUME NEW n \in Node, NEW K \in KeySets, SecondDelete(n, K)
      PROVE  FlightsSound'
    BY <1>6, FlightFrame DEF SecondDelete
<1>7. ASSUME NEW k \in Key, Expire(k) PROVE FlightsSound'
    BY <1>7, FlightFrame DEF Expire
<1>8. ASSUME NEW n \in Node, Crash(n) PROVE FlightsSound'
    BY <1>8, CrashFlight
<1>9. QED
    BY <1>1, <1>2, <1>3, <1>4, <1>5, <1>6, <1>7, <1>8 DEF Next

LEMMA InitFlight == Init => FlightsSound
<1> SUFFICES ASSUME Init PROVE FlightsSound
    OBVIOUS
<1>1. \A n \in Node, k \in Key : flight[n][k] = NoClient
    BY DEF Init
<1>2. \A c \in Client : ~Leading(c) /\ pc[c] # "wait"
    BY DEF Init, Leading
<1>3. QED
    BY <1>1, <1>2, ConstantsAssumption DEF FlightsSound, Init

(* In one process at most one goroutine per row runs the loader, and every *)
(* waiter has a leader that will wake it, even across failures.            *)
THEOREM FlightsAlwaysSound == Spec => []FlightsSound
<1>1. Init => TypeOK /\ Busy /\ FlightsSound
    BY InitType, InitFlight
<1>2. (TypeOK /\ Busy /\ FlightsSound) /\ [Next]_vars
        => (TypeOK /\ Busy /\ FlightsSound)'
    BY StepType, StepFlight DEF FInv
<1>3. QED
    BY <1>1, <1>2, PTL DEF Spec
-----------------------------------------------------------------------------
(* The delayed double delete covers stale copies: no step but the faults   *)
(* of FaultStep leaves a stale key without a delete to come, and without   *)
(* faults there is never such a key.                                       *)

(* A step that neither drops a delete nor makes a copy stale.              *)

LEMMA CoverKept ==
  ASSUME NEW k \in Key, timers' = timers,
         \A d \in Client : pc[d] = "evict" => pc'[d] = "evict" /\ todo'[d] = todo[d],
         Covered(k)
  PROVE  Covered(k)'
<1>1. CASE \E d \in Client : pc[d] = "evict" /\ Deletes(d, k)
  <2>1. PICK d \in Client : pc[d] = "evict" /\ Deletes(d, k)
      BY <1>1
  <2>2. pc'[d] = "evict" /\ Deletes(d, k)'
      BY <2>1 DEF Deletes
  <2>3. QED
      BY <2>2 DEF Covered
<1>2. CASE \E n \in Node : Ticking(n, k)
    BY <1>2 DEF Covered, Ticking
<1>3. QED
    BY <1>1, <1>2 DEF Covered

LEMMA StaleKept ==
  ASSUME NEW k \in Key, db'[k] = db[k],
         redis'[k] = redis[k] \/ redis'[k] = Nil,
         \A d \in Client : /\ Holds(d, k)'
                           /\ val'[d] # Nil
                           /\ val'[d] # db[k]
                           => Holds(d, k) /\ val[d] = val'[d],
         Stale(k)'
  PROVE  Stale(k)
<1>1. CASE StaleEntry(k)'
    BY <1>1 DEF StaleEntry, Stale
<1>2. CASE StaleLoad(k)'
  <2>1. PICK d \in Client : Holds(d, k)' /\ val'[d] \notin {Nil, db'[k]}
      BY <1>2 DEF StaleLoad
  <2>2. Holds(d, k) /\ val[d] \notin {Nil, db[k]}
      BY <2>1
  <2>3. QED
      BY <2>2 DEF StaleLoad, Stale
<1>3. QED
    BY <1>1, <1>2 DEF Stale

-----------------------------------------------------------------------------
LEMMA ReadCovers ==
  ASSUME QInv, NEW c \in Client, NEW j \in Key,
         GetHit(c, j) \/ GetMiss(c, j) \/ ReadThrough(c, j) \/ TxRead(c, j),
         NEW k \in Key, Uncovered(k)'
  PROVE  Uncovered(k)
<1> USE DEF QInv, TypeOK
<1>1. \A d \in Client : pc[d] = "evict" => pc'[d] = "evict" /\ todo'[d] = todo[d]
    BY DEF GetHit, GetMiss, ReadThrough, TxRead, Start
<1>2. timers' = timers /\ db' = db /\ redis' = redis
    BY DEF GetHit, GetMiss, ReadThrough, TxRead
<1>3. ASSUME NEW d \in Client, Holds(d, k)', val'[d] # Nil, val'[d] # db[k]
      PROVE  Holds(d, k) /\ val[d] = val'[d]
  <2>1. CASE d # c
      BY <1>3, <2>1 DEF GetHit, GetMiss, ReadThrough, TxRead, Start, Holds
  <2>2. CASE d = c /\ (GetHit(c, j) \/ GetMiss(c, j) \/ TxRead(c, j))
      BY <1>3, <2>2 DEF GetHit, GetMiss, TxRead, Start, Holds
  <2>3. CASE d = c /\ ReadThrough(c, j) /\ db[j] = Absent
      BY <1>3, <2>3 DEF ReadThrough, Holds
  <2>4. CASE d = c /\ ReadThrough(c, j) /\ db[j] # Absent
      BY <1>3, <2>4 DEF ReadThrough, Start, Holds
  <2>5. QED
      BY <2>1, <2>2, <2>3, <2>4
<1>4. QED
    BY <1>1, <1>2, <1>3, CoverKept, StaleKept DEF Uncovered

LEMMA ProceedCovers ==
  ASSUME QInv, NEW c \in Client, Proceed(c),
         NEW k \in Key, Uncovered(k)'
  PROVE  Uncovered(k)
<1> USE DEF QInv, TypeOK
<1>1. CASE Join(c) \/ Lead(c) \/ Publish(c)
  <2>1. /\ timers' = timers /\ db' = db /\ redis' = redis
        /\ \A d \in Client :
             pc[d] = "evict" => pc'[d] = "evict" /\ todo'[d] = todo[d]
      BY <1>1 DEF Join, Lead, Publish, Start, Audience
  <2>2. ASSUME NEW d \in Client, Holds(d, k)'
        PROVE  Holds(d, k) /\ val[d] = val'[d]
    <3>1. CASE Join(c) \/ Lead(c)
        BY <2>2, <3>1 DEF Join, Lead, Start, Holds
    <3>2. CASE Publish(c)
      <4>1. d \notin Audience(c) /\ d # c
          BY <2>2, <3>2 DEF Publish, Holds, Audience
      <4>2. QED
          BY <2>2, <3>2, <4>1 DEF Publish, Holds
    <3>3. QED
        BY <1>1, <3>1, <3>2
  <2>3. QED
      BY <2>1, <2>2, CoverKept, StaleKept DEF Uncovered
<1>2. CASE Load(c)
  <2>1. /\ timers' = timers /\ db' = db /\ redis' = redis
        /\ \A d \in Client :
             pc[d] = "evict" => pc'[d] = "evict" /\ todo'[d] = todo[d]
      BY <1>2 DEF Load, Start
  <2>2. ASSUME NEW d \in Client, Holds(d, k)', val'[d] # Nil, val'[d] # db[k]
        PROVE  Holds(d, k) /\ val[d] = val'[d]
      BY <1>2, <2>2 DEF Load, Start, Holds, Tidy
  <2>3. QED
      BY <2>1, <2>2, CoverKept, StaleKept DEF Uncovered
<1>3. CASE Setex(c) \/ WriteThrough(c)
  <2>1. /\ timers' = timers /\ db' = db /\ Holds(c, key[c])
        /\ \A d \in Client :
             pc[d] = "evict" => pc'[d] = "evict" /\ todo'[d] = todo[d]
      BY <1>3 DEF Setex, WriteThrough, Start, Holds
  <2>2. ~Covered(k)
      BY <2>1, CoverKept DEF Uncovered
  <2>3. CASE StaleEntry(k)'
    <3>1. StaleEntry(k) \/ (k = key[c] /\ redis'[k] = val[c])
        BY <1>3, <2>1, <2>3 DEF Setex, WriteThrough, Cache, StaleEntry
    <3>2. StaleEntry(k) \/ StaleLoad(k)
        BY <2>1, <2>3, <3>1 DEF StaleEntry, StaleLoad
    <3>3. QED
        BY <2>2, <3>2 DEF Stale, Uncovered
  <2>4. CASE StaleLoad(k)'
    <3>1. PICK d \in Client : Holds(d, k)' /\ val'[d] \notin {Nil, db'[k]}
        BY <2>4 DEF StaleLoad
    <3>2. Holds(d, k) /\ val[d] = val'[d]
        BY <1>3, <3>1 DEF Setex, WriteThrough, Start, Holds
    <3>3. QED
        BY <2>1, <2>2, <3>1, <3>2 DEF StaleLoad, Stale, Uncovered
  <2>5. QED
      BY <2>3, <2>4 DEF Uncovered, Stale
<1>4. CASE DoubleDelete(c)
  <2> DEFINE K == Head(todo[c])
             n == Home[c]
  <2>1. /\ pc[c] = "evict" /\ todo[c] \in Seq(KeySets) /\ todo[c] # <<>>
        /\ n \in Node
      BY <1>4, ConstantsAssumption DEF DoubleDelete, Busy
  <2>2. K \in KeySets
      BY <2>1
  <2>3. /\ timers'[n][K] > 0
        /\ \A m \in Node, J \in KeySets : timers[m][J] > 0 => timers'[m][J] > 0
    <3>1. /\ timers'[n][K] = timers[n][K] + 1
          /\ \A m \in Node, J \in KeySets :
               m # n \/ J # K => timers'[m][J] = timers[m][J]
        BY <1>4, <2>1, <2>2 DEF DoubleDelete, Scheduled
    <3>2. timers[n][K] \in Nat
        BY <2>1, <2>2
    <3>3. timers'[n][K] > 0
        BY <3>1, <3>2
    <3>4. ASSUME NEW m \in Node, NEW J \in KeySets, timers[m][J] > 0
          PROVE  timers'[m][J] > 0
        BY <3>1, <3>3, <3>4
    <3>5. QED
        BY <3>3, <3>4
  <2>4. Covered(k) => Covered(k)'
    <3>1. CASE \E m \in Node : Ticking(m, k)
      <4>1. PICK m \in Node, J \in KeySets : k \in J /\ timers[m][J] > 0
          BY <3>1 DEF Ticking
      <4>2. timers'[m][J] > 0
          BY <2>3, <4>1
      <4>3. QED
          BY <4>1, <4>2 DEF Covered, Ticking
    <3>2. ASSUME NEW d \in Client, d # c, pc[d] = "evict", Deletes(d, k)
          PROVE  Covered(k)'
      <4>1. pc'[d] = "evict" /\ todo'[d] = todo[d]
          BY <1>4, <3>2 DEF DoubleDelete, Start
      <4>2. QED
          BY <3>2, <4>1 DEF Covered, Deletes
    <3>3. CASE Deletes(c, k)
      <4>1. k \in K \/ \E i \in DOMAIN Tail(todo[c]) : k \in Tail(todo[c])[i]
          BY <2>1, <3>3, TailDeletes DEF Deletes
      <4>2. CASE k \in K
          BY <2>1, <2>2, <2>3, <4>2 DEF Covered, Ticking
      <4>3. CASE \E i \in DOMAIN Tail(todo[c]) : k \in Tail(todo[c])[i]
        <5>1. Tail(todo[c]) # <<>> /\ todo'[c] = Tail(todo[c])
            BY <1>4, <4>3 DEF DoubleDelete, Rest
        <5>2. pc'[c] = "evict"
            BY <1>4, <5>1 DEF DoubleDelete, Rest, Start
        <5>3. QED
            BY <4>3, <5>1, <5>2 DEF Covered, Deletes
      <4>4. QED
          BY <4>1, <4>2, <4>3
    <3>4. QED
        BY <3>1, <3>2, <3>3 DEF Covered
  <2>5. Stale(k)' => Stale(k)
    <3>1. db' = db /\ (redis'[k] = redis[k] \/ redis'[k] = Nil)
        BY <1>4 DEF DoubleDelete, Del
    <3>2. ASSUME NEW d \in Client, Holds(d, k)'
          PROVE  Holds(d, k) /\ val[d] = val'[d]
        BY <1>4, <3>2 DEF DoubleDelete, Start, Holds
    <3>3. QED
        BY <3>1, <3>2, StaleKept
  <2>6. QED
      BY <2>4, <2>5 DEF Uncovered
<1>5. QED
    BY <1>1, <1>2, <1>3, <1>4 DEF Proceed

LEMMA WriteCovers ==
  ASSUME QInv, NEW c \in Client, NEW K \in KeySets, NEW v \in Contents,
         Write(c, K, v) \/ TxWrite(c, K, v) \/ TxWriteErrsLate(c, K, v),
         NEW k \in Key, Uncovered(k)'
  PROVE  Uncovered(k)
<1> USE DEF QInv, TypeOK
<1>1. /\ timers' = timers /\ redis' = redis
      /\ \A d \in Client :
           pc[d] = "evict" => pc'[d] = "evict" /\ todo'[d] = todo[d]
    BY DEF Write, TxWrite, TxWriteErrsLate, Start
<1>2. \A d \in Client : Holds(d, k)' => Holds(d, k) /\ val[d] = val'[d]
    BY DEF Write, TxWrite, TxWriteErrsLate, Start, Holds
<1>3. CASE db'[k] = db[k]
    BY <1>1, <1>2, <1>3, CoverKept, StaleKept DEF Uncovered
<1>4. CASE db'[k] # db[k]
  <2>1. Write(c, K, v) /\ k \in K
      BY <1>4 DEF Write, TxWrite, TxWriteErrsLate, Overlay, Only
  <2>2. pc'[c] = "evict" /\ todo'[c] = <<K>>
      BY <2>1 DEF Write, Start
  <2>3. Deletes(c, k)'
    <3>1. 1 \in DOMAIN <<K>> /\ <<K>>[1] = K
        OBVIOUS
    <3>2. QED
        BY <2>1, <2>2, <3>1 DEF Deletes
  <2>4. QED
      BY <2>2, <2>3 DEF Covered, Uncovered
<1>5. QED
    BY <1>3, <1>4

LEMMA TxCovers ==
  ASSUME QInv, NEW c \in Client,
         TxBegin(c) \/ TxCommit(c) \/ TxRollback(c),
         TxCommit(c) => erred[c] = {},
         NEW k \in Key, Uncovered(k)'
  PROVE  Uncovered(k)
<1> USE DEF QInv, TypeOK
<1>1. /\ timers' = timers /\ redis' = redis
      /\ \A d \in Client :
           pc[d] = "evict" => pc'[d] = "evict" /\ todo'[d] = todo[d]
    BY DEF TxBegin, TxCommit, AfterCommit, TxRollback, Start
<1>2. \A d \in Client : Holds(d, k)' => Holds(d, k) /\ val[d] = val'[d]
    BY DEF TxBegin, TxCommit, TxRollback, Start, Holds
<1>3. CASE db'[k] = db[k]
    BY <1>1, <1>2, <1>3, CoverKept, StaleKept DEF Uncovered
<1>4. CASE db'[k] # db[k]
  <2>1. TxCommit(c)
      BY <1>4 DEF TxBegin, TxRollback
  <2>2. buf[c][k] # Nil
      BY <1>4, <2>1 DEF TxCommit, Overlay
  <2>3. Deletes(c, k)
      BY <2>1, <2>2 DEF TxCommit, BoxMatches
  <2>4. todo[c] # <<>>
      BY <2>3 DEF Deletes
  <2>5. pc'[c] = "evict" /\ todo'[c] = todo[c]
      BY <2>1, <2>4 DEF TxCommit, AfterCommit, Start
  <2>6. Covered(k)'
      BY <2>3, <2>5 DEF Covered, Deletes
  <2>7. QED
      BY <2>6 DEF Uncovered
<1>5. QED
    BY <1>3, <1>4

(* The last delete of a key to fire removes its entry, and no load is      *)
(* still holding a stale copy then.                                        *)
LEMMA SecondDeleteCovers ==
  ASSUME QInv, NEW n \in Node, NEW K \in KeySets, SecondDelete(n, K),
         Faults \cap {"slow", "del"} = {},
         NEW k \in Key, Uncovered(k)'
  PROVE  Uncovered(k)
<1> USE DEF QInv, TypeOK
<1>1. /\ db' = db /\ pc' = pc /\ todo' = todo /\ key' = key /\ val' = val
      /\ redis' = [j \in Key |-> IF j \in K THEN Nil ELSE redis[j]]
    BY DEF SecondDelete, Del
<1>2. Stale(k)
  <2>1. \A d \in Client : Holds(d, k)' => Holds(d, k) /\ val[d] = val'[d]
      BY <1>1 DEF Holds
  <2>2. QED
      BY <1>1, <2>1, StaleKept DEF Uncovered
<1>3. CASE k \in K
  <2>1. ~StaleEntry(k)'
      BY <1>1, <1>3 DEF StaleEntry
  <2>2. StaleLoad(k)'
      BY <2>1 DEF Uncovered, Stale
  <2>3. StaleLoad(k)
      BY <1>1, <2>2 DEF StaleLoad, Holds
  <2>4. Covered(k)'
      BY <1>3, <2>3 DEF SecondDelete
  <2>5. QED
      BY <2>4 DEF Uncovered
<1>4. CASE k \notin K
  <2>1. Covered(k) => Covered(k)'
    <3>1. CASE \E d \in Client : pc[d] = "evict" /\ Deletes(d, k)
        BY <1>1, <3>1 DEF Covered, Deletes
    <3>2. CASE \E m \in Node : Ticking(m, k)
      <4>1. PICK m \in Node, J \in KeySets : k \in J /\ timers[m][J] > 0
          BY <3>2 DEF Ticking
      <4>2. J # K
          BY <1>4, <4>1
      <4>3. timers'[m][J] = timers[m][J]
          BY <4>2 DEF SecondDelete
      <4>4. QED
          BY <4>1, <4>3 DEF Covered, Ticking
    <3>3. QED
        BY <3>1, <3>2 DEF Covered
  <2>2. QED
      BY <1>2, <2>1 DEF Uncovered
<1>5. QED
    BY <1>3, <1>4

LEMMA ExpireCovers ==
  ASSUME QInv, NEW j \in Key, Expire(j), NEW k \in Key, Uncovered(k)'
  PROVE  Uncovered(k)
<1> USE DEF QInv, TypeOK
<1>1. /\ db' = db /\ timers' = timers /\ pc' = pc /\ todo' = todo
      /\ redis'[k] = redis[k] \/ redis'[k] = Nil
      /\ \A d \in Client : Holds(d, k)' => Holds(d, k) /\ val[d] = val'[d]
    BY DEF Expire, Holds
<1>2. QED
    BY <1>1, CoverKept, StaleKept DEF Uncovered

-----------------------------------------------------------------------------
LEMMA StepCovers ==
  ASSUME QInv, [Next]_vars, ~FaultStep, NEW k \in Key, Uncovered(k)'
  PROVE  Uncovered(k)
<1>1. CASE UNCHANGED vars
    BY <1>1 DEF vars, Uncovered, Stale, StaleEntry, StaleLoad, Holds, Covered,
                Deletes, Ticking
<1>2. CASE Next
  <2>1. CASE \E c \in Client : Proceed(c)
      BY <2>1, ProceedCovers
  <2>2. CASE \E c \in Client : \E j \in Key :
               GetHit(c, j) \/ GetMiss(c, j) \/ ReadThrough(c, j) \/ TxRead(c, j)
      BY <2>2, ReadCovers
  <2>3. CASE \E c \in Client : \E K \in KeySets : \E v \in Contents :
               Write(c, K, v) \/ WriteErrsLate(c, K, v) \/ TxWrite(c, K, v) \/ TxWriteErrsLate(c, K, v)
      BY <2>3, WriteCovers DEF FaultStep
  <2>4. CASE \E c \in Client :
               TxBegin(c) \/ TxCommit(c) \/ TxCommitErrsLate(c) \/ TxRollback(c)
      BY <2>4, TxCovers DEF FaultStep
  <2>5. CASE \E n \in Node : \E K \in KeySets : SecondDelete(n, K)
      BY <2>5, SecondDeleteCovers DEF FaultStep
  <2>6. CASE \E j \in Key : Expire(j)
      BY <2>6, ExpireCovers
  <2>7. CASE \E n \in Node : Crash(n)
      BY <2>7 DEF FaultStep
  <2>8. QED
      BY <1>2, <2>1, <2>2, <2>3, <2>4, <2>5, <2>6, <2>7 DEF Next
<1>3. QED
    BY <1>1, <1>2

(* Whatever fails, only the faults that FaultStep names ever leave a stale *)
(* key without a delete to come.                                           *)
THEOREM OnlyFaultsEverUncover == Spec => OnlyFaultsUncover
<1>1. QInv /\ [Next]_vars
        => [\A k \in Key : Uncovered(k)' /\ ~Uncovered(k) => FaultStep]_vars
    BY StepCovers
<1>2. QED
    BY <1>1, InitQueue, StepQueue, PTL DEF Spec, OnlyFaultsUncover

(* When nothing fails and loads are over before the second delete, every   *)
(* copy that differs from the database has a delete to come.               *)
THEOREM StaleAlwaysCovered ==
  ASSUME Faults = {}
  PROVE  Spec => []StaleIsCovered
<1>1. QInv => ~FaultStep
    BY DEF FaultStep, WriteErrsLate, RereadFails, TxCommitErrsLate, Crash, QInv, Tidy
<1>2. Init => StaleIsCovered
  <2> SUFFICES ASSUME Init, NEW k \in Key PROVE ~Stale(k)
      BY DEF StaleIsCovered, Uncovered
  <2>1. ~StaleEntry(k)
      BY DEF Init, StaleEntry
  <2>2. ~StaleLoad(k)
      BY DEF Init, StaleLoad
  <2>3. QED
      BY <2>1, <2>2 DEF Stale
<1>3. StaleIsCovered /\ QInv /\ [Next]_vars => StaleIsCovered'
    BY <1>1, StepCovers DEF StaleIsCovered
<1>4. QED
    BY <1>2, <1>3, InitQueue, StepQueue, PTL DEF Spec

-----------------------------------------------------------------------------
(***************************************************************************)
(* Proof that what a transaction has staged stays its own: contents that   *)
(* are not committed never get into redis, into a load or into the answer  *)
(* of another goroutine, whatever fails.  The argument follows contents,   *)
(* which name the write that made them, from place to place.  After that,  *)
(* that the layer implements RepoContract.                                 *)
(***************************************************************************)

(* Contents x of row k are outside the transactions: committed, cached,    *)
(* held by a load, or given to a goroutine of C.                           *)
At(k, x, C) ==
  \/ db[k] = x
  \/ redis[k] = x
  \/ \E d \in Client : Holds(d, k) /\ val[d] = x
  \/ \E d \in C : answer[d] = <<k, x>>

(* No contents are those of a write that has not happened yet.             *)
PastOnly ==
  \A k \in Key :
    /\ \A x \in Value : x > version => ~At(k, x, Client)
    /\ \A c \in Client : buf[c][k] <= version

(* Staged contents are nowhere but in their transaction, and with whoever  *)
(* runs it.                                                                *)
StagedApart ==
  \A c \in Client : \A k \in Key :
    buf[c][k] \notin {Nil, Absent} => ~At(k, buf[c][k], Client \ {c})

(* Row locks keep open transactions apart.                                 *)
OneWriter ==
  \A c, d \in Client : \A k \in Key :
    buf[c][k] # Nil /\ buf[d][k] # Nil => c = d

IsolationInv == QInv /\ OneWriter /\ PastOnly /\ StagedApart

-----------------------------------------------------------------------------
(* How contents move.  A step may give x to others only if they had it, if *)
(* it is new, or if a transaction gives it to its own goroutine or ends.   *)
Moves(k, x, C) ==
  At(k, x, C)' =>
    \/ At(k, x, C)
    \/ buf' = buf /\ x = version + 1 /\ version' = version + 1
    \/ \E d \in Client : buf[d][k] = x /\ (d \in C \/ buf'[d] = NoWrites)

LEMMA ReadMoves ==
  ASSUME QInv, NEW c \in Client, NEW j \in Key,
         GetHit(c, j) \/ GetMiss(c, j) \/ ReadThrough(c, j) \/ TxRead(c, j),
         NEW k \in Key, NEW x \in Value, x # Absent, NEW C \in SUBSET Client
  PROVE  Moves(k, x, C)
<1> USE NilFacts DEF QInv, TypeOK
<1>1. CASE GetHit(c, j)
    BY <1>1 DEF GetHit, Moves, At, Holds
<1>2. CASE GetMiss(c, j)
    BY <1>2 DEF GetMiss, Start, Moves, At, Holds
<1>3. CASE ReadThrough(c, j)
  <2>1. /\ UNCHANGED <<db, redis>>
        /\ key' = [key EXCEPT ![c] = j]
        /\ answer' = [answer EXCEPT ![c] = <<j, db[j]>>]
        /\ \/ UNCHANGED <<pc, val>>
           \/ pc' = [pc EXCEPT ![c] = "through"] /\ val' = [val EXCEPT ![c] = db[j]]
      BY <1>3 DEF ReadThrough, Start
  <2>2. ASSUME NEW d \in Client, Holds(d, k)', val'[d] = x PROVE At(k, x, C)
      BY <1>3, <2>1, <2>2 DEF ReadThrough, At, Holds
  <2>3. ASSUME NEW d \in C, answer'[d] = <<k, x>> PROVE At(k, x, C)
      BY <2>1, <2>3 DEF At
  <2>4. QED
      BY <2>1, <2>2, <2>3 DEF Moves, At
<1>4. CASE TxRead(c, j)
    BY <1>4 DEF TxRead, InTxView, Overlay, Moves, At, Holds
<1>5. QED
    BY <1>1, <1>2, <1>3, <1>4

LEMMA ProceedMoves ==
  ASSUME QInv, NEW c \in Client, Proceed(c),
         NEW k \in Key, NEW x \in Value, x # Absent, NEW C \in SUBSET Client
  PROVE  Moves(k, x, C)
<1> USE NilFacts DEF QInv, TypeOK
<1>1. CASE Join(c) \/ Lead(c)
    BY <1>1 DEF Join, Lead, Start, Moves, At, Holds
<1>2. CASE Load(c)
    BY <1>2 DEF Load, Start, Tidy, Moves, At, Holds
<1>3. CASE Setex(c) \/ WriteThrough(c)
    BY <1>3 DEF Setex, WriteThrough, Cache, Start, Moves, At, Holds
<1>4. CASE Publish(c)
    BY <1>4 DEF Publish, Audience, Moves, At, Holds
<1>5. CASE DoubleDelete(c)
    BY <1>5 DEF DoubleDelete, Del, Start, Moves, At, Holds
<1>6. QED
    BY <1>1, <1>2, <1>3, <1>4, <1>5 DEF Proceed

LEMMA WriteMoves ==
  ASSUME QInv, NEW c \in Client, NEW K \in KeySets, NEW v \in Contents,
         Write(c, K, v) \/ WriteErrsLate(c, K, v) \/ TxWrite(c, K, v) \/ TxWriteErrsLate(c, K, v),
         NEW k \in Key, NEW x \in Value, x # Absent, NEW C \in SUBSET Client
  PROVE  Moves(k, x, C)
<1> USE NilFacts DEF QInv, TypeOK
<1>1. CASE Write(c, K, v) \/ WriteErrsLate(c, K, v)
  <2>1. /\ buf' = buf /\ redis' = redis /\ val' = val /\ answer' = answer
        /\ key' = key /\ pc' \in {pc, [pc EXCEPT ![c] = "evict"]}
      BY <1>1 DEF Write, WriteErrsLate, Start
  <2>2. \A d \in Client : Holds(d, k)' => Holds(d, k)
      BY <2>1 DEF Holds
  <2>3. version' = version + 1
      BY <1>1 DEF Write, WriteErrsLate
  <2>4. db'[k] \in {db[k], version + 1, Absent}
      BY <1>1 DEF Write, WriteErrsLate, Overlay, Only, Contents
  <2>5. db'[k] = x => db[k] = x \/ x = version + 1
      BY <2>4, x # Absent
  <2>6. QED
      BY <2>1, <2>2, <2>3, <2>5 DEF Moves, At
<1>2. CASE TxWrite(c, K, v)
    BY <1>2 DEF TxWrite, Moves, At, Holds
<1>3. CASE TxWriteErrsLate(c, K, v)
    BY <1>3 DEF TxWriteErrsLate, Moves, At, Holds
<1>4. QED
    BY <1>1, <1>2, <1>3

LEMMA TxMoves ==
  ASSUME QInv, NEW c \in Client,
         TxBegin(c) \/ TxCommit(c) \/ TxCommitErrsLate(c) \/ TxRollback(c),
         NEW k \in Key, NEW x \in Value, x # Absent, NEW C \in SUBSET Client
  PROVE  Moves(k, x, C)
<1> USE NilFacts DEF QInv, TypeOK
<1>1. CASE TxBegin(c)
    BY <1>1 DEF TxBegin, Start, Moves, At, Holds
<1>2. CASE TxCommit(c)
    BY <1>2 DEF TxCommit, Overlay, Closed, AfterCommit, Start, Moves, At, Holds
<1>3. CASE TxCommitErrsLate(c)
    BY <1>3 DEF TxCommitErrsLate, Overlay, Closed, Start, Moves, At, Holds
<1>4. CASE TxRollback(c)
    BY <1>4 DEF TxRollback, Start, Moves, At, Holds
<1>5. QED
    BY <1>1, <1>2, <1>3, <1>4

LEMMA EnvironmentMoves ==
  ASSUME QInv,
         \/ \E n \in Node : \E K \in KeySets : SecondDelete(n, K)
         \/ \E j \in Key : Expire(j)
         \/ \E n \in Node : Crash(n),
         NEW k \in Key, NEW x \in Value, x # Absent, NEW C \in SUBSET Client
  PROVE  Moves(k, x, C)
<1> USE NilFacts DEF QInv, TypeOK
<1>1. ASSUME NEW n \in Node, NEW K \in KeySets, SecondDelete(n, K)
      PROVE  Moves(k, x, C)
    BY <1>1 DEF SecondDelete, Del, Moves, At, Holds
<1>2. ASSUME NEW j \in Key, Expire(j) PROVE Moves(k, x, C)
    BY <1>2 DEF Expire, Moves, At, Holds
<1>3. ASSUME NEW n \in Node, Crash(n) PROVE Moves(k, x, C)
    BY <1>3 DEF Crash, Moves, At, Holds
<1>4. QED
    BY <1>1, <1>2, <1>3

LEMMA StepMoves ==
  ASSUME QInv, [Next]_vars,
         NEW k \in Key, NEW x \in Value, x # Absent, NEW C \in SUBSET Client
  PROVE  Moves(k, x, C)
<1>1. CASE UNCHANGED vars
    BY <1>1 DEF vars, Moves, At, Holds
<1>2. CASE Next
    BY <1>2, ReadMoves, ProceedMoves, WriteMoves, TxMoves, EnvironmentMoves DEF Next
<1>3. QED
    BY <1>1, <1>2

-----------------------------------------------------------------------------
(* How staged contents change: a row of a transaction is as it was, or it  *)
(* is dropped or deleted, or the step writes it and nobody else has it.    *)
Stages ==
  \A c \in Client : \A k \in Key :
    \/ buf'[c][k] = buf[c][k]
    \/ buf'[c][k] = Nil
    \/ /\ buf'[c][k] \in {version + 1, Absent}
       /\ version' = version + 1
       /\ \A d \in Client \ {c} : buf'[d] = buf[d] /\ buf[d][k] = Nil

LEMMA TxWriteStages ==
  ASSUME TypeOK, NEW c \in Client, NEW K \in KeySets, NEW v \in Contents,
         TxWrite(c, K, v) \/ TxWriteErrsLate(c, K, v)
  PROVE  Stages
<1>1. /\ version' = version + 1 /\ v \in {version + 1, Absent}
      /\ \A d \in Client \ {c} : buf'[d] = buf[d] /\ \A k \in K : buf[d][k] = Nil
      /\ \A k \in Key \ K : buf'[c][k] = buf[c][k]
      /\ \A k \in K : buf'[c][k] \in {v, buf[c][k]}
    BY DEF TxWrite, TxWriteErrsLate, Writable, Unlocked, Overlay, Only, Contents, TypeOK, KeySets
<1>2. QED
    BY <1>1 DEF Stages

LEMMA StepStages == TypeOK /\ [Next]_vars => Stages /\ version' >= version
<1> SUFFICES ASSUME TypeOK, [Next]_vars PROVE Stages /\ version' >= version
    OBVIOUS
<1>0. version \in Nat
    BY ConstantsAssumption DEF TypeOK
<1>1. CASE buf' = buf /\ version' \in {version, version + 1}
    BY <1>0, <1>1 DEF Stages
<1>2. ASSUME NEW c \in Client, NEW K \in KeySets, NEW v \in Contents,
             TxWrite(c, K, v) \/ TxWriteErrsLate(c, K, v)
      PROVE  Stages /\ version' >= version
  <2>1. Stages
      BY <1>2, TxWriteStages
  <2>2. QED
      BY <1>0, <1>2, <2>1 DEF TxWrite, TxWriteErrsLate
<1>3. ASSUME NEW c \in Client, TxCommit(c) \/ TxCommitErrsLate(c) \/ TxRollback(c)
      PROVE  Stages /\ version' >= version
  <2>1. version' = version /\ buf' = [buf EXCEPT ![c] = NoWrites]
      BY <1>3 DEF TxCommit, TxCommitErrsLate, TxRollback, Closed
  <2>2. \A d \in Client : buf'[d] = IF d = c THEN NoWrites ELSE buf[d]
      BY <2>1 DEF TypeOK
  <2>3. QED
      BY <1>0, <2>1, <2>2 DEF NoWrites, Stages
<1>4. ASSUME NEW n \in Node, Crash(n) PROVE Stages /\ version' >= version
    BY <1>0, <1>4 DEF Crash, NoWrites, Stages
<1>5. ASSUME NEW c \in Client, Proceed(c) \/ TxBegin(c)
      PROVE  buf' = buf /\ version' = version
    BY <1>5 DEF Proceed, Join, Lead, Load, Setex, Publish, WriteThrough,
                DoubleDelete, TxBegin
<1>6. ASSUME NEW c \in Client, NEW k \in Key,
             GetHit(c, k) \/ GetMiss(c, k) \/ ReadThrough(c, k) \/ TxRead(c, k)
      PROVE  buf' = buf /\ version' = version
    BY <1>6 DEF GetHit, GetMiss, ReadThrough, TxRead
<1>7. ASSUME NEW c \in Client, NEW K \in KeySets, NEW v \in Contents,
             Write(c, K, v) \/ WriteErrsLate(c, K, v)
      PROVE  buf' = buf /\ version' = version + 1
    BY <1>7 DEF Write, WriteErrsLate
<1>8. ASSUME \/ \E n \in Node : \E K \in KeySets : SecondDelete(n, K)
             \/ \E k \in Key : Expire(k)
             \/ UNCHANGED vars
      PROVE  buf' = buf /\ version' = version
    BY <1>8 DEF SecondDelete, Expire, vars
<1>9. QED
    BY <1>1, <1>2, <1>3, <1>4, <1>5, <1>6, <1>7, <1>8 DEF Next

-----------------------------------------------------------------------------
LEMMA StepOneWriter ==
  ASSUME TypeOK, OneWriter, Stages PROVE OneWriter'
<1> SUFFICES ASSUME NEW c \in Client, NEW d \in Client, NEW k \in Key,
                    buf'[c][k] # Nil, buf'[d][k] # Nil, c # d
             PROVE  FALSE
    BY DEF OneWriter
<1>1. buf[c][k] = Nil \/ buf[d][k] = Nil
    BY DEF OneWriter
<1>2. QED
    BY <1>1 DEF Stages

LEMMA StepPastOnly ==
  ASSUME IsolationInv, [Next]_vars, Stages, version' >= version, TypeOK'
  PROVE  PastOnly'
<1> USE NilFacts DEF IsolationInv, QInv, TypeOK
<1>1. ASSUME NEW k \in Key, NEW x \in Value, x > version'
      PROVE  ~At(k, x, Client)'
  <2>1. x > version /\ x # Absent
      BY <1>1, ConstantsAssumption DEF Value, Absent
  <2>2. ~At(k, x, Client) /\ \A d \in Client : buf[d][k] # x
      BY <2>1 DEF PastOnly, Staged, Value, Nil
  <2>3. Moves(k, x, Client)
      BY <2>1, StepMoves
  <2>4. QED
      BY <1>1, <2>2, <2>3 DEF Moves
<1>2. ASSUME NEW k \in Key, NEW c \in Client PROVE buf'[c][k] <= version'
  <2>1. /\ buf[c][k] <= version /\ buf[c][k] \in Int
        /\ version \in Nat /\ version' \in Nat
      BY <1>2, ConstantsAssumption DEF PastOnly, Staged, Value, Nil
  <2>2. \/ buf'[c][k] = buf[c][k]
        \/ buf'[c][k] = Nil
        \/ buf'[c][k] \in {version', Absent}
      BY <1>2 DEF Stages
  <2>3. QED
      BY <2>1, <2>2 DEF Nil, Absent
<1>3. QED
    BY <1>1, <1>2 DEF PastOnly

LEMMA StepStagedApart ==
  ASSUME IsolationInv, [Next]_vars, Stages, TypeOK'
  PROVE  StagedApart'
<1> USE NilFacts DEF IsolationInv, QInv, TypeOK
<1> SUFFICES ASSUME NEW c \in Client, NEW k \in Key,
                    NEW x, x = buf'[c][k], x \notin {Nil, Absent}
             PROVE  ~At(k, x, Client \ {c})'
    BY DEF StagedApart
<1>1. x \in Value /\ x # Absent
    BY DEF Staged
<1>2. Moves(k, x, Client \ {c})
    BY <1>1, StepMoves
<1>3. CASE x = buf[c][k]
  <2>1. ~At(k, x, Client \ {c}) /\ x <= version
      BY <1>3 DEF StagedApart, PastOnly
  <2>2. ASSUME NEW d \in Client, buf[d][k] = x
        PROVE  d = c /\ buf'[d] # NoWrites
    <3>1. x # Nil
        BY <1>1
    <3>2. d = c
        BY <1>3, <2>2, <3>1 DEF OneWriter
    <3>3. buf'[d][k] # NoWrites[k]
        BY <3>1, <3>2 DEF NoWrites
    <3>4. QED
        BY <3>2, <3>3
  <2>3. x # version + 1
      BY <2>1, <1>1, ConstantsAssumption DEF Value
  <2>4. QED
      BY <1>2, <2>1, <2>2, <2>3 DEF Moves
<1>4. CASE x # buf[c][k]
  <2>1. x = version + 1
      BY <1>1, <1>4 DEF Stages
  <2>2. buf' # buf /\ \A d \in Client : buf[d][k] <= version
      BY <1>4 DEF PastOnly
  <2>3. x > version /\ \A d \in Client : buf[d][k] # x
      BY <2>1, <2>2, ConstantsAssumption DEF Staged, Value, Nil
  <2>4. ~At(k, x, Client)
      BY <1>1, <2>3 DEF PastOnly
  <2>5. QED
      BY <1>2, <2>2, <2>3, <2>4 DEF Moves, At
<1>5. QED
    BY <1>3, <1>4

-----------------------------------------------------------------------------
LEMMA InitIsolation == Init => IsolationInv
<1> SUFFICES ASSUME Init PROVE IsolationInv
    OBVIOUS
<1>1. QInv
    BY InitQueue
<1>2. /\ version = 1 /\ \A k \in Key : db[k] \in {Absent, 1} /\ redis[k] = Nil
      /\ \A c \in Client : /\ val[c] = Nil /\ answer[c] = <<>> /\ pc[c] = "idle"
                          /\ \A k \in Key : buf[c][k] = Nil
    BY DEF Init, NoWrites
<1>3. PastOnly
    BY <1>2 DEF PastOnly, At, Holds, Value, Absent, Nil
<1>4. OneWriter /\ StagedApart
    BY <1>2 DEF OneWriter, StagedApart
<1>5. QED
    BY <1>1, <1>3, <1>4 DEF IsolationInv

LEMMA StepIsolation == IsolationInv /\ [Next]_vars => IsolationInv'
<1> SUFFICES ASSUME IsolationInv, [Next]_vars PROVE IsolationInv'
    OBVIOUS
<1>1. QInv' /\ TypeOK /\ TypeOK'
    BY StepQueue DEF IsolationInv, QInv
<1>2. Stages /\ version' >= version
    BY <1>1, StepStages
<1>3. QED
    BY <1>1, <1>2, StepOneWriter, StepPastOnly, StepStagedApart DEF IsolationInv

(* Open transactions never hold writes of one row, and nothing but an open *)
(* transaction holds any.                                                  *)
THEOREM LocksAlwaysSound == Spec => []LocksSound
<1>1. IsolationInv => LocksSound
    BY DEF IsolationInv, QInv, OnlyTxWrites, OneWriter, LocksSound
<1>2. QED
    BY <1>1, InitIsolation, StepIsolation, PTL DEF Spec

(* Staged contents are not in redis, not in a load, and given to nobody    *)
(* but their own goroutine, with any fault.                                *)
THEOREM NeverDirtyRead == Spec => []NoDirtyRead
<1>1. IsolationInv => NoDirtyRead
    BY DEF IsolationInv, StagedApart, At, NoDirtyRead
<1>2. QED
    BY <1>1, InitIsolation, StepIsolation, PTL DEF Spec
-----------------------------------------------------------------------------
(* The layer against RepoContract.                                         *)

Open == {c \in Client : pc[c] = "tx"}

LEMMA VisibleFacts ==
  ASSUME NEW k \in Key
  PROVE  /\ db[k] \in VisibleNow[k]
         /\ redis[k] # Nil => redis[k] \in VisibleNow[k]
         /\ \A c \in Client : Holds(c, k) /\ val[c] # Nil => val[c] \in VisibleNow[k]
BY DEF VisibleNow

(* Every copy that is there after the step was visible before it, or is    *)
(* what the database holds now.                                            *)
Inherits ==
  \A k \in Key :
    /\ redis'[k] \in {Nil, db'[k]} \cup VisibleNow[k]
    /\ \A c \in Client : Holds(c, k)' => val'[c] \in {Nil, db'[k]} \cup VisibleNow[k]

LEMMA InheritsDrift == Inherits => Contract!Drift
<1> SUFFICES ASSUME Inherits, NEW k \in Key
             PROVE  /\ db'[k] \in VisibleNow'[k]
                    /\ VisibleNow'[k] \subseteq VisibleNow[k] \cup {db'[k]}
    BY DEF Contract!Drift
<1>1. VisibleNow'[k] = {db'[k]} \cup ({redis'[k]} \ {Nil})
                       \cup {val'[c] : c \in {d \in Client : Holds(d, k)' /\ val'[d] # Nil}}
    BY DEF VisibleNow
<1>2. QED
    BY <1>1 DEF Inherits

(* Nothing a reader could be given changes, except in the caches.          *)
LEMMA Forgets ==
  ASSUME Inherits, UNCHANGED <<db, buf, answer>>, Open' = Open
  PROVE  Contract!Next
BY InheritsDrift DEF Contract!Next, Contract!Forget, Open

(* No entry and no load is added.                                          *)
LEMMA NothingAdded ==
  ASSUME \A k \in Key : redis'[k] \in {Nil, redis[k]},
         \A k \in Key : \A c \in Client :
           Holds(c, k)' => val'[c] = Nil \/ (Holds(c, k) /\ val'[c] = val[c])
  PROVE  Inherits
<1> SUFFICES ASSUME NEW k \in Key
             PROVE  /\ redis'[k] \in {Nil, db'[k]} \cup VisibleNow[k]
                    /\ \A c \in Client : Holds(c, k)' => val'[c] \in {Nil, db'[k]} \cup VisibleNow[k]
    BY DEF Inherits
<1>1. QED
    BY VisibleFacts

LEMMA ReadImplements ==
  ASSUME QInv, NEW c \in Client, NEW k \in Key,
         GetHit(c, k) \/ GetMiss(c, k) \/ ReadThrough(c, k) \/ TxRead(c, k)
  PROVE  Contract!Next
<1> USE DEF QInv, TypeOK
<1>1. CASE GetHit(c, k)
  <2>1. Inherits
      BY <1>1, NothingAdded DEF GetHit, Holds
  <2>2. Contract!Answer({c}, k, redis[k])
      BY <1>1, VisibleFacts DEF GetHit, Contract!Answer
  <2>3. redis[k] \in VisibleNow[k]
      BY <1>1, VisibleFacts DEF GetHit
  <2>4. QED
      BY <2>1, <2>2, <2>3, InheritsDrift DEF Contract!Next
<1>2. CASE GetMiss(c, k)
  <2>1. Inherits
      BY <1>2, NothingAdded DEF GetMiss, Start, Holds
  <2>2. Contract!Ask(c)
      BY <1>2 DEF GetMiss, Start, Contract!Ask
  <2>3. QED
      BY <2>1, <2>2, InheritsDrift DEF Contract!Next
<1>3. CASE ReadThrough(c, k)
  <2>1. Inherits
    <3>1. \A j \in Key : redis'[j] = redis[j]
        BY <1>3 DEF ReadThrough
    <3>2. ASSUME NEW d \in Client, NEW j \in Key, Holds(d, j)'
          PROVE  val'[d] \in {Nil, db'[j]} \cup VisibleNow[j]
      <4>1. CASE d = c
          BY <1>3, <3>2, <4>1, VisibleFacts DEF ReadThrough, Start, Holds
      <4>2. CASE d # c
          BY <1>3, <3>2, <4>2, VisibleFacts DEF ReadThrough, Start, Holds
      <4>3. QED
          BY <4>1, <4>2
    <3>3. QED
        BY <3>1, <3>2, VisibleFacts DEF Inherits
  <2>2. Contract!Answer({c}, k, db[k]) /\ db[k] \in VisibleNow[k]
      BY <1>3, VisibleFacts DEF ReadThrough, Start, Contract!Answer
  <2>3. QED
      BY <2>1, <2>2, InheritsDrift DEF Contract!Next
<1>4. CASE TxRead(c, k)
  <2>1. Inherits
      BY <1>4, NothingAdded DEF TxRead, Holds
  <2>2. Contract!AnswerInTx(c, k)
      BY <1>4 DEF TxRead, InTxView, Overlay, Contract!AnswerInTx
  <2>3. QED
      BY <2>1, <2>2, InheritsDrift DEF Contract!Next
<1>5. QED
    BY <1>1, <1>2, <1>3, <1>4

LEMMA ProceedImplements ==
  ASSUME QInv, NEW c \in Client, Proceed(c)
  PROVE  Contract!Next
<1> USE DEF QInv, TypeOK
<1>1. CASE Join(c) \/ Lead(c)
  <2>1. Inherits
      BY <1>1, NothingAdded DEF Join, Lead, Start, Holds
  <2>2. QED
      BY <1>1, <2>1, Forgets DEF Join, Lead, Start, Open
<1>2. CASE Load(c)
  <2>1. ASSUME NEW d \in Client, NEW j \in Key, Holds(d, j)'
        PROVE  val'[d] \in {Nil, db'[j]} \cup VisibleNow[j]
    <3>1. CASE d = c
        BY <1>2, <2>1, <3>1 DEF Load, Start, Holds, Tidy
    <3>2. CASE d # c
        BY <1>2, <2>1, <3>2, VisibleFacts DEF Load, Start, Holds
    <3>3. QED
        BY <3>1, <3>2
  <2>2. Inherits
      BY <1>2, <2>1, VisibleFacts DEF Load, Inherits
  <2>3. QED
      BY <1>2, <2>2, Forgets DEF Load, Start, Open
<1>3. CASE Setex(c) \/ WriteThrough(c)
  <2>1. Holds(c, key[c])
      BY <1>3 DEF Setex, WriteThrough, Holds
  <2>2. \A k \in Key : redis'[k] \in {Nil} \cup VisibleNow[k]
    <3>1. ASSUME NEW k \in Key PROVE redis'[k] \in {redis[k]} \cup {x \in {val[c]} : k = key[c]}
        BY <1>3 DEF Setex, WriteThrough, Cache
    <3>2. val[c] \in {Nil} \cup VisibleNow[key[c]]
        BY <2>1, VisibleFacts
    <3>3. QED
        BY <3>1, <3>2, VisibleFacts
  <2>3. \A k \in Key : \A d \in Client :
          Holds(d, k)' => Holds(d, k) /\ val'[d] = val[d]
      BY <1>3 DEF Setex, WriteThrough, Start, Holds
  <2>4. Inherits
      BY <2>2, <2>3, VisibleFacts DEF Inherits
  <2>5. QED
      BY <1>3, <2>4, Forgets DEF Setex, WriteThrough, Start, Open
<1>4. CASE Publish(c)
  <2>1. Inherits
      BY <1>4, NothingAdded DEF Publish, Audience, Holds
  <2>2. Open' = Open
      BY <1>4 DEF Publish, Audience, Open
  <2>3. CASE val[c] = Nil
    <3>1. answer' = answer
        BY <1>4, <2>3 DEF Publish
    <3>2. QED
        BY <1>4, <2>1, <2>2, <3>1, Forgets DEF Publish
  <2>4. CASE val[c] # Nil
    <3>1. Audience(c) \in SUBSET Client /\ Audience(c) \cap Open = {}
        BY <1>4 DEF Audience, Publish, Open
    <3>2. val[c] \in VisibleNow[key[c]]
        BY <1>4, <2>4, VisibleFacts DEF Publish, Holds
    <3>3. answer' = [d \in Client |-> IF d \in Audience(c) THEN <<key[c], val[c]>> ELSE answer[d]]
        BY <1>4, <2>4 DEF Publish
    <3>4. Contract!Answer(Audience(c), key[c], val[c])
        BY <1>4, <2>2, <3>1, <3>2, <3>3 DEF Publish, Contract!Answer, Open
    <3>5. key[c] \in Key
        OBVIOUS
    <3>6. QED
        BY <2>1, <3>1, <3>2, <3>4, <3>5, InheritsDrift DEF Contract!Next
  <2>5. QED
      BY <2>3, <2>4
<1>5. CASE DoubleDelete(c)
  <2>1. Inherits
      BY <1>5, NothingAdded DEF DoubleDelete, Del, Start, Holds
  <2>2. QED
      BY <1>5, <2>1, Forgets DEF DoubleDelete, Start, Open
<1>6. QED
    BY <1>1, <1>2, <1>3, <1>4, <1>5 DEF Proceed

LEMMA WriteImplements ==
  ASSUME QInv, NEW c \in Client, NEW K \in KeySets, NEW v \in Contents,
         Write(c, K, v) \/ WriteErrsLate(c, K, v) \/ TxWrite(c, K, v) \/ TxWriteErrsLate(c, K, v)
  PROVE  Contract!Next
<1> USE DEF QInv, TypeOK
<1>1. v \in Value /\ v # Nil /\ K \in SUBSET Key
    BY ContentsType, NilFacts DEF Write, WriteErrsLate, TxWrite, TxWriteErrsLate, Writable, KeySets
<1>2. Inherits
    BY NothingAdded DEF Write, WriteErrsLate, TxWrite, TxWriteErrsLate, Start, Holds
<1>3. CASE Write(c, K, v) \/ WriteErrsLate(c, K, v)
  <2>1. db' = [k \in Key |-> IF k \in K THEN v ELSE db[k]]
      BY <1>1, <1>3 DEF Write, WriteErrsLate, Overlay, Only
  <2>2. Contract!Put(K, v)
      BY <1>3, <2>1 DEF Write, WriteErrsLate, Start, Contract!Put
  <2>3. QED
      BY <1>1, <1>2, <2>2, InheritsDrift DEF Contract!Next
<1>4. CASE TxWrite(c, K, v) \/ TxWriteErrsLate(c, K, v)
  <2>1. Overlay(buf[c], Only(K, v)) = [k \in Key |-> IF k \in K THEN v ELSE buf[c][k]]
      BY <1>1 DEF Overlay, Only
  <2>2. Contract!Stage(c, K, v)
      BY <1>4, <2>1 DEF TxWrite, TxWriteErrsLate, Contract!Stage
  <2>3. QED
      BY <1>1, <1>2, <2>2, InheritsDrift DEF Contract!Next
<1>5. QED
    BY <1>3, <1>4

LEMMA TxImplements ==
  ASSUME QInv, NEW c \in Client,
         TxBegin(c) \/ TxCommit(c) \/ TxCommitErrsLate(c) \/ TxRollback(c)
  PROVE  Contract!Next
<1> USE DEF QInv, TypeOK
<1>1. Inherits
    BY NothingAdded DEF TxBegin, TxCommit, TxCommitErrsLate, TxRollback, Start, Holds
<1>2. CASE TxBegin(c)
  <2>1. Open' = Open \cup {c}
      BY <1>2 DEF TxBegin, Start, Open
  <2>2. Contract!Begin(c)
      BY <1>2, <2>1 DEF TxBegin, Contract!Begin, Open
  <2>3. QED
      BY <1>1, <2>2, InheritsDrift DEF Contract!Next
<1>3. CASE TxCommit(c) \/ TxCommitErrsLate(c)
  <2>1. Open' = Open \ {c}
      BY <1>3 DEF TxCommit, TxCommitErrsLate, Start, Open
  <2>2. Contract!Commit(c)
      BY <1>3, <2>1 DEF TxCommit, TxCommitErrsLate, Overlay, Closed, NoWrites,
                        Contract!Commit, Open
  <2>3. QED
      BY <1>1, <2>2, InheritsDrift DEF Contract!Next
<1>4. CASE TxRollback(c)
  <2>1. Open' = Open \ {c}
      BY <1>4 DEF TxRollback, Start, Open
  <2>2. Contract!Abort(c)
      BY <1>4, <2>1 DEF TxRollback, Closed, NoWrites, Contract!Abort, Open
  <2>3. QED
      BY <1>1, <2>2, InheritsDrift DEF Contract!Next
<1>5. QED
    BY <1>2, <1>3, <1>4

LEMMA EnvironmentImplements ==
  ASSUME QInv,
         \/ \E n \in Node : \E K \in KeySets : SecondDelete(n, K)
         \/ \E j \in Key : Expire(j)
         \/ \E n \in Node : Crash(n)
  PROVE  Contract!Next
<1> USE DEF QInv, TypeOK
<1>1. ASSUME NEW n \in Node, NEW K \in KeySets, SecondDelete(n, K) PROVE Contract!Next
  <2>1. Inherits
      BY <1>1, NothingAdded DEF SecondDelete, Del, Holds
  <2>2. QED
      BY <1>1, <2>1, Forgets DEF SecondDelete, Open
<1>2. ASSUME NEW j \in Key, Expire(j) PROVE Contract!Next
  <2>1. Inherits
      BY <1>2, NothingAdded DEF Expire, Holds
  <2>2. QED
      BY <1>2, <2>1, Forgets DEF Expire, Open
<1>3. ASSUME NEW n \in Node, Crash(n) PROVE Contract!Next
  <2> DEFINE Dead == {c \in Client : Home[c] = n}
  <2>1. Inherits
      BY <1>3, NothingAdded DEF Crash, Holds
  <2>2. Open' = Open \ Dead
      BY <1>3 DEF Crash, Open
  <2>3. Contract!Die(Dead)
      BY <1>3, <2>2 DEF Crash, NoWrites, Contract!Die, Open
  <2>4. Dead \in SUBSET Client
      OBVIOUS
  <2> HIDE DEF Dead
  <2>5. QED
      BY <2>1, <2>3, <2>4, InheritsDrift DEF Contract!Next
<1>4. QED
    BY <1>1, <1>2, <1>3

LEMMA StepImplements ==
  QInv /\ [Next]_vars => [Contract!Next]_(Contract!vars)
<1> SUFFICES ASSUME QInv, [Next]_vars PROVE [Contract!Next]_(Contract!vars)
    OBVIOUS
<1>1. CASE UNCHANGED vars
  <2>1. VisibleNow' = VisibleNow
      BY <1>1 DEF vars, VisibleNow, Holds
  <2>2. QED
      BY <1>1, <2>1 DEF vars, Contract!vars
<1>2. CASE Next
    BY <1>2, ReadImplements, ProceedImplements, WriteImplements, TxImplements,
       EnvironmentImplements DEF Next
<1>3. QED
    BY <1>1, <1>2

LEMMA InitImplements == Init => Contract!Init
<1> SUFFICES ASSUME Init PROVE Contract!Init
    OBVIOUS
<1>1. TypeOK
    BY InitType
<1>2. VisibleNow = [k \in Key |-> {db[k]}]
    BY DEF Init, VisibleNow, Holds
<1>3. QED
    BY <1>1, <1>2 DEF Init, TypeOK, NoWrites, Contract!Init

(* No caller can tell the layer from one that answers with a value still   *)
(* visible: every step of redis, singleflight, the timers and the          *)
(* transactions, and every fault of them, is a step of RepoContract.       *)
THEOREM LayerKeepsContract == Spec => ImplementsContract
<1>1. QInv /\ [Next]_vars => QInv'
    BY StepQueue
<1>2. QED
    BY <1>1, InitQueue, InitImplements, StepImplements, PTL
    DEF Spec, ImplementsContract, Contract!Spec
=============================================================================
