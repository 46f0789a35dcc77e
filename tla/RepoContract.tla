---------------------------- MODULE RepoContract ----------------------------
(***************************************************************************)
(* What a caller of a generated <Model>Repo may rely on, with no mention   *)
(* of redis, of singleflight or of timers.  Every row has a current value, *)
(* the set of values a reader may still be given, and the values staged by *)
(* transactions that have not committed.  A value a reader can no longer   *)
(* be given never comes back, and a value that is only staged is never     *)
(* given to anybody but the transaction that staged it.                    *)
(***************************************************************************)
CONSTANTS Key,      \* primary keys of the table
          Client,   \* goroutines that call the repo
          Value,    \* contents of a row, a missing row's among them
          Nil       \* no value: not in Value

VARIABLES cur,      \* cur[k]: the committed value of row k
          visible,  \* visible[k]: the values a reader outside a tx may get
          own,      \* own[c][k]: what c's open transaction wrote to k
          open,     \* the callers that are in a transaction
          answer    \* answer[c]: the row of c's last read, <<>> when none

vars == <<cur, visible, own, open, answer>>

Init ==
  /\ cur \in [Key -> Value]
  /\ visible = [k \in Key |-> {cur[k]}]
  /\ own = [c \in Client |-> [k \in Key |-> Nil]]
  /\ open = {}
  /\ answer = [c \in Client |-> <<>>]

(* Readers may at any moment lose sight of values that are not current,    *)
(* and gain sight of nothing but the current one.                          *)
Drift ==
  \A k \in Key : /\ cur'[k] \in visible'[k]
                 /\ visible'[k] \subseteq visible[k] \cup {cur'[k]}

(* The rows of K take a new value at once.                                 *)
Put(K, v) ==
  /\ cur' = [k \in Key |-> IF k \in K THEN v ELSE cur[k]]
  /\ UNCHANGED <<own, open, answer>>

Begin(c) ==
  /\ open' = open \cup {c}
  /\ UNCHANGED <<cur, own, answer>>

(* A transaction writes: nobody else can see it.                           *)
Stage(c, K, v) ==
  /\ c \in open
  /\ own' = [own EXCEPT ![c] = [k \in Key |-> IF k \in K THEN v ELSE @[k]]]
  /\ UNCHANGED <<cur, open, answer>>

Commit(c) ==
  /\ c \in open
  /\ cur' = [k \in Key |-> IF own[c][k] # Nil THEN own[c][k] ELSE cur[k]]
  /\ own' = [own EXCEPT ![c] = [k \in Key |-> Nil]]
  /\ open' = open \ {c}
  /\ UNCHANGED answer

Abort(c) ==
  /\ own' = [own EXCEPT ![c] = [k \in Key |-> Nil]]
  /\ open' = open \ {c}
  /\ UNCHANGED <<cur, answer>>

(* A process dies: its transactions are gone, its callers get nothing.     *)
Die(C) ==
  /\ own' = [c \in Client |-> IF c \in C THEN [k \in Key |-> Nil] ELSE own[c]]
  /\ open' = open \ C
  /\ answer' = [c \in Client |-> IF c \in C THEN <<>> ELSE answer[c]]
  /\ UNCHANGED cur

Ask(c) ==
  /\ answer' = [answer EXCEPT ![c] = <<>>]
  /\ UNCHANGED <<cur, own, open>>

(* The callers in C, who asked for the same row outside a transaction, get *)
(* the same value.                                                         *)
Answer(C, k, v) ==
  /\ C \cap open = {}
  /\ v \in visible[k]
  /\ answer' = [c \in Client |-> IF c \in C THEN <<k, v>> ELSE answer[c]]
  /\ UNCHANGED <<cur, own, open>>

(* A transaction reads its own write, or else the current value: never a   *)
(* value that is merely still visible.                                     *)
AnswerInTx(c, k) ==
  /\ c \in open
  /\ answer' = [answer EXCEPT ![c] =
                  <<k, IF own[c][k] # Nil THEN own[c][k] ELSE cur[k]>>]
  /\ UNCHANGED <<cur, own, open>>

Forget == UNCHANGED <<cur, own, open, answer>>

Next ==
  /\ Drift
  /\ \/ \E K \in SUBSET Key : \E v \in Value : Put(K, v)
     \/ \E c \in Client : \E K \in SUBSET Key : \E v \in Value : Stage(c, K, v)
     \/ \E c \in Client : Begin(c) \/ Commit(c) \/ Abort(c) \/ Ask(c)
     \/ \E C \in SUBSET Client : Die(C)
     \/ \E C \in SUBSET Client : \E k \in Key : \E v \in visible[k] : Answer(C, k, v)
     \/ \E c \in Client : \E k \in Key : AnswerInTx(c, k)
     \/ Forget

Spec == Init /\ [][Next]_vars
=============================================================================
