------------------------------ MODULE RepoCache ------------------------------
(***************************************************************************)
(* The cache-aware repository layer that zctl emits into a service: the    *)
(* shared repo.Base (read-through with singleflight, delayed double        *)
(* delete), the generated <Model>Repo methods on top of it, and the        *)
(* transaction manager entx that defers invalidation until after commit.   *)
(* Several processes (Node) run goroutines (Client) over one database and  *)
(* one redis.                                                              *)
(*                                                                         *)
(* A step is what happens between two calls that leave the process: a      *)
(* database statement, a redis command, or a critical section of           *)
(* singleflight.  A row's contents is the number of the write that made    *)
(* them (0: no row), so two writes never write the same contents.          *)
(***************************************************************************)
EXTENDS Integers, Sequences, FiniteSets

CONSTANTS Key,          \* primary keys of the table
          Node,         \* processes of the service
          Client,       \* goroutines that call the repo
          Home,         \* Home[c]: the process c runs in
          MaxVersion,   \* bound: the number of writes, for model checking
          Faults        \* which of FaultKinds may happen

(* get, setex, del: a redis command fails.  load: the dao's read fails.    *)
(* late: the dao's read of a row after its UPDATE fails.  lost: the reply  *)
(* to a statement is lost.  commit: so is the reply to tx.Commit.  slow: a *)
(* load outlives the second delete.  crash: a process dies.                *)
FaultKinds ==
  {"get", "setex", "del", "load", "late", "lost", "commit", "slow", "crash"}

NoClient == "none"      \* no goroutine leads the flight
Nil    == -1            \* no cached entry, nothing staged, nothing loaded
Absent == 0             \* the row does not exist
Value  == 0 .. MaxVersion

KeySets == (SUBSET Key) \ {{}}     \* what one write may touch

ASSUME ConstantsAssumption ==
  /\ Key # {}
  /\ Home \in [Client -> Node]
  /\ MaxVersion \in Nat \ {0}
  /\ Faults \subseteq FaultKinds
  /\ NoClient \notin Client

VARIABLES
  db,       \* db[k]: the committed contents of row k
  redis,    \* redis[k]: the entry under row k's cache key
  version,  \* the number of the last write
  pc,       \* pc[c]: where c is
  key,      \* key[c]: the row c's current read is about
  val,      \* val[c]: what c has loaded and not yet let go of
  answer,   \* answer[c]: <<row, contents>> that c's last read returned
  buf,      \* buf[c][k]: what c's open transaction wrote to k
  todo,     \* todo[c]: key sets to double-delete: the afterCommitBox of an
            \* open tx, or the deletes c has begun to run
  erred,    \* erred[c]: rows that a write of c's open tx changed and
            \* reported an error for
  timers,   \* timers[n][K]: n's pending second deletes of the key set K
  flight    \* flight[n][k]: the leader of n's singleflight call for k

vars == <<db, redis, version, pc, key, val, answer, buf, todo, erred, timers, flight>>

PC == {"idle",    \* no call in progress
       "miss",    \* GetOrLoad found no entry; about to enter sf.Do
       "wait",    \* in sf.Do, behind another goroutine's call
       "load",    \* in sf.Do, leading: about to call the loader
       "loaded",  \* loaded; about to SETEX
       "publish", \* sf.Do's function returned; its call not yet removed
       "through", \* read a row by other means; about to WriteThrough
       "tx",      \* inside entx.WithTx
       "evict"}   \* write persisted; running the double deletes in todo

NoWrites == [k \in Key |-> Nil]

Init ==
  /\ db \in [Key -> {Absent, 1}]
  /\ redis = [k \in Key |-> Nil]
  /\ version = 1
  /\ pc = [c \in Client |-> "idle"]
  /\ key \in [Client -> {CHOOSE k \in Key : TRUE}]
  /\ val = [c \in Client |-> Nil]
  /\ answer = [c \in Client |-> <<>>]
  /\ buf = [c \in Client |-> NoWrites]
  /\ todo = [c \in Client |-> <<>>]
  /\ erred = [c \in Client |-> {}]
  /\ timers = [n \in Node |-> [K \in KeySets |-> 0]]
  /\ flight = [n \in Node |-> [k \in Key |-> NoClient]]

-----------------------------------------------------------------------------
(* Reads outside a transaction: GetOrLoad and GetOrLoadList.  A list that  *)
(* is empty is a row that is Absent: it is answered and never cached.      *)

Start(c, where) == pc' = [pc EXCEPT ![c] = where]

(* GET finds an entry: the read ends here.                                 *)
GetHit(c, k) ==
  /\ pc[c] = "idle"
  /\ redis[k] # Nil
  /\ key' = [key EXCEPT ![c] = k]
  /\ answer' = [answer EXCEPT ![c] = <<k, redis[k]>>]
  /\ UNCHANGED <<db, redis, version, pc, val, buf, todo, erred, timers, flight>>

(* GET finds nothing, or fails and the read falls back on the database.    *)
GetMiss(c, k) ==
  /\ pc[c] = "idle"
  /\ redis[k] = Nil \/ "get" \in Faults
  /\ Start(c, "miss")
  /\ key' = [key EXCEPT ![c] = k]
  /\ answer' = [answer EXCEPT ![c] = <<>>]
  /\ UNCHANGED <<db, redis, version, val, buf, todo, erred, timers, flight>>

(* Somebody in c's process leads a call for the key c reads.               *)
InFlight(c) == flight[Home[c]][key[c]] # NoClient

(* sf.Do: join the call in progress for this key, or make one.             *)
Join(c) ==
  /\ pc[c] = "miss"
  /\ InFlight(c)
  /\ Start(c, "wait")
  /\ UNCHANGED <<db, redis, version, key, val, answer, buf, todo, erred, timers, flight>>

Lead(c) ==
  /\ pc[c] = "miss"
  /\ ~InFlight(c)
  /\ Start(c, "load")
  /\ flight' = [flight EXCEPT ![Home[c]][key[c]] = c]
  /\ UNCHANGED <<db, redis, version, key, val, answer, buf, todo, erred, timers>>

(* The loader reads the database.  A missing row and a failed query end    *)
(* the call without a SETEX.                                               *)
Load(c) ==
  /\ pc[c] = "load"
  /\ \/ /\ val' = [val EXCEPT ![c] = db[key[c]]]
        /\ Start(c, IF db[key[c]] = Absent THEN "publish" ELSE "loaded")
     \/ /\ "load" \in Faults
        /\ val' = val
        /\ Start(c, "publish")
  /\ UNCHANGED <<db, redis, version, key, answer, buf, todo, erred, timers, flight>>

(* SETEX of what c holds; a failure is logged and swallowed.               *)
Cache(c) ==
  \/ redis' = [redis EXCEPT ![key[c]] = val[c]]
  \/ "setex" \in Faults /\ redis' = redis

Setex(c) ==
  /\ pc[c] = "loaded"
  /\ Cache(c)
  /\ Start(c, "publish")
  /\ UNCHANGED <<db, version, key, val, answer, buf, todo, erred, timers, flight>>

(* The goroutines that get the result of the call c leads.                 *)
AudienceOfLeader(c) == {c}    \* wrong: the waiters are not woken
Audience(c) ==
  {c} \cup {d \in Client : /\ pc[d] = "wait"
                           /\ Home[d] = Home[c]
                           /\ key[d] = key[c]}

(* sf.Do removes the call and wakes the waiters; all return its result.    *)
Publish(c) ==
  /\ pc[c] = "publish"
  /\ pc' = [d \in Client |-> IF d \in Audience(c) THEN "idle" ELSE pc[d]]
  /\ answer' = [d \in Client |->
                  IF d \in Audience(c) /\ val[c] # Nil
                  THEN <<key[c], val[c]>> ELSE answer[d]]
  /\ val' = [val EXCEPT ![c] = Nil]
  /\ flight' = [flight EXCEPT ![Home[c]][key[c]] = NoClient]
  /\ UNCHANGED <<db, redis, version, key, buf, todo, erred, timers>>

(* A Get by another column: the dao is read directly and the row is cached *)
(* under its primary key with WriteThrough.                                *)
ReadThrough(c, k) ==
  /\ pc[c] = "idle"
  /\ key' = [key EXCEPT ![c] = k]
  /\ answer' = [answer EXCEPT ![c] = <<k, db[k]>>]
  /\ IF db[k] = Absent
     THEN UNCHANGED <<pc, val>>
     ELSE Start(c, "through") /\ val' = [val EXCEPT ![c] = db[k]]
  /\ UNCHANGED <<db, redis, version, buf, todo, erred, timers, flight>>

WriteThrough(c) ==
  /\ pc[c] = "through"
  /\ Cache(c)
  /\ Start(c, "idle")
  /\ val' = [val EXCEPT ![c] = Nil]
  /\ UNCHANGED <<db, version, key, answer, buf, todo, erred, timers, flight>>
-----------------------------------------------------------------------------
(* Staleness: a copy of a row outside the database that differs from it,   *)
(* and the deletes that are on their way to remove such copies.            *)

StaleEntry(k) == redis[k] \notin {Nil, db[k]}

Holds(c, k) == pc[c] \in {"loaded", "publish", "through"} /\ key[c] = k

StaleLoad(k) == \E c \in Client : Holds(c, k) /\ val[c] \notin {Nil, db[k]}

Stale(k) == StaleEntry(k) \/ StaleLoad(k)

Deletes(c, k) == \E i \in DOMAIN todo[c] : k \in todo[c][i]

Ticking(n, k) == \E K \in KeySets : k \in K /\ timers[n][K] > 0

(* A delete of k is still to come.                                         *)
Covered(k) ==
  \/ \E c \in Client : pc[c] = "evict" /\ Deletes(c, k)
  \/ \E n \in Node : Ticking(n, k)

Uncovered(k) == Stale(k) /\ ~Covered(k)
-----------------------------------------------------------------------------
(* Writes outside a transaction: Create, Update*, Delete* and the batch    *)
(* forms.  The statement is one auto-committed step of the database, which *)
(* makes it wait for the rows that open transactions have written.         *)

Unlocked(c, K) ==
  \A d \in Client \ {c} : \A k \in K : buf[d][k] = Nil

(* The new contents: those of write number version + 1, or none.           *)
Contents == {version + 1, Absent}

Exists(c, K) ==
  \E k \in K : IF buf[c][k] # Nil THEN buf[c][k] # Absent ELSE db[k] # Absent

Writable(c, K, v) ==
  /\ version < MaxVersion
  /\ Unlocked(c, K)
  /\ v = Absent => Exists(c, K)

Overlay(f, g) == [k \in Key |-> IF g[k] # Nil THEN g[k] ELSE f[k]]

Only(K, v) == [k \in Key |-> IF k \in K THEN v ELSE Nil]

Write(c, K, v) ==
  /\ pc[c] = "idle"
  /\ Writable(c, K, v)
  /\ version' = version + 1
  /\ db' = Overlay(db, Only(K, v))
  /\ Start(c, "evict")
  /\ todo' = [todo EXCEPT ![c] = <<K>>]
  /\ UNCHANGED <<redis, key, val, answer, buf, erred, timers, flight>>

(* UpdateByID of a soft-deletable row reads the row again after its        *)
(* UPDATE; that read fails.                                                *)
RereadFails(c, K, v) ==
  "late" \in Faults /\ v # Absent /\ \E k \in Key : K = {k} /\ Exists(c, K)

(* The statement took effect and the dao still returns an error: the read  *)
(* after it fails, or its reply is lost.  The repo returns the error and   *)
(* invalidates nothing.                                                    *)
WriteErrsLate(c, K, v) ==
  /\ RereadFails(c, K, v) \/ "lost" \in Faults
  /\ pc[c] = "idle"
  /\ Writable(c, K, v)
  /\ version' = version + 1
  /\ db' = Overlay(db, Only(K, v))
  /\ UNCHANGED <<redis, pc, key, val, answer, buf, todo, erred, timers, flight>>
-----------------------------------------------------------------------------
(* entx.WithTx: the function it is given calls repo.WithTx(tx) methods.    *)

TxBegin(c) ==
  /\ pc[c] = "idle"
  /\ Start(c, "tx")
  /\ UNCHANGED <<db, redis, version, key, val, answer, buf, todo, erred, timers, flight>>

(* InvalidateAfterWrite inside a tx queues the double delete.              *)
QueuedLast(c, K) == <<K>>    \* wrong: keeps the last callback only
Queued(c, K) == Append(todo[c], K)

TxWrite(c, K, v) ==
  /\ pc[c] = "tx"
  /\ Writable(c, K, v)
  /\ version' = version + 1
  /\ buf' = [buf EXCEPT ![c] = Overlay(@, Only(K, v))]
  /\ todo' = [todo EXCEPT ![c] = Queued(c, K)]
  /\ UNCHANGED <<db, redis, pc, key, val, answer, erred, timers, flight>>

(* The read after the UPDATE fails in a tx: nothing is queued.  The        *)
(* function is told the error, and may go on to a commit.                  *)
TxWriteErrsLate(c, K, v) ==
  /\ RereadFails(c, K, v)
  /\ pc[c] = "tx"
  /\ Writable(c, K, v)
  /\ version' = version + 1
  /\ buf' = [buf EXCEPT ![c] = Overlay(@, Only(K, v))]
  /\ erred' = [erred EXCEPT ![c] = @ \cup K]
  /\ UNCHANGED <<db, redis, pc, key, val, answer, todo, timers, flight>>

(* What c sees of row k: its own write, else the committed contents.       *)
InTxViewCached(c, k) ==      \* wrong: the cache is asked first
  IF redis[k] # Nil THEN redis[k] ELSE Overlay(db, buf[c])[k]
InTxView(c, k) == Overlay(db, buf[c])[k]

(* Wrong: the row is cached although it was read in a tx.                  *)
TxReadPublishes(c, k) ==
  LET v == InTxView(c, k) IN
  /\ pc[c] = "tx"
  /\ key' = [key EXCEPT ![c] = k]
  /\ answer' = [answer EXCEPT ![c] = <<k, v>>]
  /\ redis' = [redis EXCEPT ![k] = IF v = Absent THEN @ ELSE v]
  /\ UNCHANGED <<db, version, pc, val, buf, todo, erred, timers, flight>>

(* GetOrLoad inside a tx calls the loader and nothing else.                *)
TxRead(c, k) ==
  /\ pc[c] = "tx"
  /\ key' = [key EXCEPT ![c] = k]
  /\ answer' = [answer EXCEPT ![c] = <<k, InTxView(c, k)>>]
  /\ UNCHANGED <<db, redis, version, pc, val, buf, todo, erred, timers, flight>>

(* What ends a transaction, one way or another.                            *)
Closed(c) == [buf EXCEPT ![c] = NoWrites]

(* The callbacks WithTx runs after a commit: all that were queued.         *)
AfterCommit(c) == todo[c]

(* tx.Commit succeeds: the queued callbacks run next, in order.            *)
TxCommit(c) ==
  /\ pc[c] = "tx"
  /\ db' = Overlay(db, buf[c])
  /\ buf' = Closed(c)
  /\ erred' = [erred EXCEPT ![c] = {}]
  /\ todo' = [todo EXCEPT ![c] = AfterCommit(c)]
  /\ Start(c, IF AfterCommit(c) = <<>> THEN "idle" ELSE "evict")
  /\ UNCHANGED <<redis, version, key, val, answer, timers, flight>>

(* tx.Commit took effect and still returns an error: the queue is dropped. *)
TxCommitErrsLate(c) ==
  /\ "commit" \in Faults
  /\ pc[c] = "tx"
  /\ db' = Overlay(db, buf[c])
  /\ buf' = Closed(c)
  /\ erred' = [erred EXCEPT ![c] = {}]
  /\ todo' = [todo EXCEPT ![c] = <<>>]
  /\ Start(c, "idle")
  /\ UNCHANGED <<redis, version, key, val, answer, timers, flight>>

(* The function errs or panics, or tx.Commit fails with no effect.         *)
TxRollback(c) ==
  /\ pc[c] = "tx"
  /\ buf' = Closed(c)
  /\ erred' = [erred EXCEPT ![c] = {}]
  /\ todo' = [todo EXCEPT ![c] = <<>>]
  /\ Start(c, "idle")
  /\ UNCHANGED <<db, redis, version, key, val, answer, timers, flight>>
-----------------------------------------------------------------------------
(* doubleDelete.                                                           *)

(* DEL of the keys in K; a failure is logged and swallowed.                *)
Del(K) ==
  \/ redis' = [k \in Key |-> IF k \in K THEN Nil ELSE redis[k]]
  \/ "del" \in Faults /\ redis' = redis

(* time.AfterFunc.                                                         *)
ScheduledNot(n, K) == timers              \* wrong: a single delete
Scheduled(n, K) == [timers EXCEPT ![n][K] = @ + 1]

Due(n, K) == timers[n][K] > 0

(* The callbacks still to run once the first one has.                      *)
RestNone(c) == <<>>                       \* wrong: only the first one runs
Rest(c) == Tail(todo[c])

(* The synchronous delete, after which the second one is scheduled.        *)
DoubleDelete(c) ==
  LET K == Head(todo[c]) IN
  /\ pc[c] = "evict"
  /\ Del(K)
  /\ timers' = Scheduled(Home[c], K)
  /\ todo' = [todo EXCEPT ![c] = Rest(c)]
  /\ Start(c, IF Rest(c) = <<>> THEN "idle" ELSE "evict")
  /\ UNCHANGED <<db, version, key, val, answer, buf, erred, flight>>

(* The timer fires.  Unless loads may be slow, a load that was running     *)
(* when the write committed is over when the last delete for it fires: the *)
(* read and its SETEX together take less than secondDelay.                 *)
SecondDelete(n, K) ==
  /\ Due(n, K)
  /\ Del(K)
  /\ timers' = [timers EXCEPT ![n][K] = @ - 1]
  /\ UNCHANGED <<db, version, pc, key, val, answer, buf, todo, erred, flight>>
  /\ "slow" \in Faults \/ \A k \in K : StaleLoad(k) => Covered(k)'
-----------------------------------------------------------------------------
(* Wrong: SET without a TTL.                                               *)
ExpireNever(k) == redis[k] # Nil /\ UNCHANGED vars

(* The entry's TTL runs out.                                               *)
Expire(k) ==
  /\ redis[k] # Nil
  /\ redis' = [redis EXCEPT ![k] = Nil]
  /\ UNCHANGED <<db, version, pc, key, val, answer, buf, todo, erred, timers, flight>>

(* Process n dies: its goroutines, timers and calls are gone, the database *)
(* rolls its transactions back.                                            *)
Crash(n) ==
  LET here(c) == Home[c] = n IN
  /\ "crash" \in Faults
  /\ pc' = [c \in Client |-> IF here(c) THEN "idle" ELSE pc[c]]
  /\ val' = [c \in Client |-> IF here(c) THEN Nil ELSE val[c]]
  /\ answer' = [c \in Client |-> IF here(c) THEN <<>> ELSE answer[c]]
  /\ buf' = [c \in Client |-> IF here(c) THEN NoWrites ELSE buf[c]]
  /\ todo' = [c \in Client |-> IF here(c) THEN <<>> ELSE todo[c]]
  /\ erred' = [c \in Client |-> IF here(c) THEN {} ELSE erred[c]]
  /\ timers' = [timers EXCEPT ![n] = [K \in KeySets |-> 0]]
  /\ flight' = [flight EXCEPT ![n] = [k \in Key |-> NoClient]]
  /\ UNCHANGED <<db, redis, version, key>>
-----------------------------------------------------------------------------
(* A goroutine of the service takes a step it has already begun.           *)
Proceed(c) ==
  \/ Join(c) \/ Lead(c) \/ Load(c) \/ Setex(c) \/ Publish(c)
  \/ WriteThrough(c) \/ DoubleDelete(c)

Next ==
  \/ \E c \in Client : Proceed(c)
  \/ \E c \in Client : \E k \in Key :
        GetHit(c, k) \/ GetMiss(c, k) \/ ReadThrough(c, k) \/ TxRead(c, k)
  \/ \E c \in Client : \E K \in KeySets : \E v \in Contents :
        Write(c, K, v) \/ WriteErrsLate(c, K, v)
        \/ TxWrite(c, K, v) \/ TxWriteErrsLate(c, K, v)
  \/ \E c \in Client :
        TxBegin(c) \/ TxCommit(c) \/ TxCommitErrsLate(c) \/ TxRollback(c)
  \/ \E n \in Node : \E K \in KeySets : SecondDelete(n, K)
  \/ \E k \in Key : Expire(k)
  \/ \E n \in Node : Crash(n)

Spec == Init /\ [][Next]_vars

(* The scheduler runs every goroutine that can run, and the runtime fires  *)
(* every timer.  Callers need not start calls, and nothing is assumed of   *)
(* the function given to WithTx.                                           *)
Fairness ==
  /\ \A c \in Client : WF_vars(Proceed(c))
  /\ \A n \in Node : \A K \in KeySets : WF_vars(SecondDelete(n, K))

FairSpec == Spec /\ Fairness

(* Redis also lets every entry expire.                                     *)
ExpirySpec == FairSpec /\ \A k \in Key : WF_vars(Expire(k))
-----------------------------------------------------------------------------
Staged == Value \cup {Nil}

(* Every variable stays in its domain.                                     *)
TypeOK ==
  /\ db \in [Key -> Value]
  /\ redis \in [Key -> Staged]
  /\ version \in 1 .. MaxVersion
  /\ pc \in [Client -> PC]
  /\ key \in [Client -> Key]
  /\ val \in [Client -> Staged]
  /\ answer \in [Client -> {<<>>} \cup (Key \X Value)]
  /\ buf \in [Client -> [Key -> Staged]]
  /\ todo \in [Client -> Seq(KeySets)]
  /\ erred \in [Client -> SUBSET Key]
  /\ timers \in [Node -> [KeySets -> Nat]]
  /\ flight \in [Node -> [Key -> Client \cup {NoClient}]]

(* Delayed double delete at work: whenever a cached entry, or a load that  *)
(* may yet be cached or handed to a waiter, differs from the database, a   *)
(* delete of that key is still to come.  Holds when nothing fails and a    *)
(* load is over before the second delete (gen.go, doubleDelete).           *)
StaleIsCovered == \A k \in Key : ~Uncovered(k)

(* What the header of base.go says of the second delete: it evicts any     *)
(* entry that was rebuilt concurrently, so a stale entry in redis always   *)
(* has a delete ahead of it.                                               *)
RebuiltEntriesEvicted == \A k \in Key : StaleEntry(k) => Covered(k)

(* Single flight: in one process at most one goroutine per key is between  *)
(* the miss and the end of the load, it is the one the flight names, and   *)
(* whoever waits waits for a goroutine that is there to wake it.           *)
Leading(c) == pc[c] \in {"load", "loaded", "publish"}

FlightsSound ==
  /\ \A c \in Client : \A n \in Node : \A k \in Key :
       flight[n][k] = c <=> Leading(c) /\ Home[c] = n /\ key[c] = k
  /\ \A c \in Client : pc[c] = "wait" => flight[Home[c]][key[c]] # NoClient

(* The afterCommitBox of an open transaction holds a delete for every row  *)
(* the transaction has written, but for those whose write told the         *)
(* function of an error: a commit can forget no other.                     *)
BoxMatches ==
  \A c \in Client : \A k \in Key : pc[c] = "tx" =>
    /\ Deletes(c, k) => buf[c][k] # Nil
    /\ buf[c][k] # Nil => Deletes(c, k) \/ k \in erred[c]

(* Two open transactions never hold writes of one row, and only an open    *)
(* transaction holds any (external: row locks).                            *)
LocksSound ==
  /\ \A c \in Client : pc[c] # "tx" => buf[c] = NoWrites
  /\ \A c, d \in Client : \A k \in Key :
       buf[c][k] # Nil /\ buf[d][k] # Nil => c = d

(* Isolation: contents that are staged in an open transaction are not in   *)
(* redis, not in any load, and nobody else has been given them.            *)
NoDirtyRead ==
  \A c \in Client : \A k \in Key : buf[c][k] \notin {Nil, Absent} =>
    /\ redis[k] # buf[c][k]
    /\ \A d \in Client : /\ Holds(d, k) => val[d] # buf[c][k]
                         /\ d # c => answer[d] # <<k, buf[c][k]>>

(* The steps that may lose the last delete of a stale key: a failed second *)
(* delete, one that a load outlived, an error reported after the fact, the *)
(* commit of a transaction that was told of one, the death of a process.   *)
FaultStep ==
  \/ \E n \in Node : \E K \in KeySets :
       SecondDelete(n, K) /\ Faults \cap {"slow", "del"} # {}
  \/ \E c \in Client : \E K \in KeySets : \E v \in Contents : WriteErrsLate(c, K, v)
  \/ \E c \in Client : TxCommitErrsLate(c)
  \/ \E c \in Client : TxCommit(c) /\ erred[c] # {}
  \/ \E n \in Node : Crash(n)

(* Every write, in a transaction or not, has deletes ahead of it as soon   *)
(* as the database shows it: what "write-then-double-delete" says.         *)
WritesInvalidate ==
  [][\A k \in Key : db'[k] # db[k] => Covered(k)']_vars

(* Nothing but these faults ever leaves a stale key without a delete:      *)
(* neither a failed first delete, a failed GET, SETEX or query, a rollback *)
(* nor any interleaving of reads, writes and timers.                       *)
OnlyFaultsUncover ==
  [][\A k \in Key : Uncovered(k)' /\ ~Uncovered(k) => FaultStep]_vars
-----------------------------------------------------------------------------
(* The layer implements RepoContract: a reader may still be given the      *)
(* current contents, those in redis, and those in a load.                  *)
VisibleNow ==
  [k \in Key |-> {db[k]} \cup ({redis[k]} \ {Nil})
                 \cup {val[c] : c \in {d \in Client : Holds(d, k) /\ val[d] # Nil}}]

Contract == INSTANCE RepoContract WITH
              cur <- db, visible <- VisibleNow, own <- buf,
              open <- {c \in Client : pc[c] = "tx"}, answer <- answer

(* No caller can tell the layer from one that answers with a value still   *)
(* visible: what left the caches and loads never comes back, staged and    *)
(* rolled-back contents are never seen, and a transaction reads its own    *)
(* writes and otherwise the database (GetOrLoad, WithTx).                  *)
ImplementsContract == Contract!Spec

(* Every GetOrLoad returns, whether it leads or waits.                     *)
ReadsReturn ==
  \A c \in Client :
    pc[c] \in {"miss", "wait", "load", "loaded", "publish"} ~> pc[c] = "idle"

(* Once writes stop, every copy of every row becomes current and stays so. *)
(* Under FairSpec only the double delete can do it; under ExpirySpec the   *)
(* TTL does it whatever has failed ("stale entries are bounded by TTL").   *)
Settles == \A k \in Key : <>[]~Stale(k)
=============================================================================
