---------------------------- MODULE SequenceFacts ----------------------------
(***************************************************************************)
(* Facts about FlattenSeq and FoldLeft of SequencesExt, which the models   *)
(* use where code appends to a list in a loop and where it reads lines one *)
(* after the other, about the least and the greatest member of a set, and  *)
(* about a sequence in front of another.  FlattenSeq and FoldLeft are      *)
(* defined by a recursive function: that it is a function at all, and what *)
(* it computes, is shown here by a least counterexample.                   *)
(***************************************************************************)
EXTENDS Naturals, Sequences, SequencesExt, SequenceTheorems, WellFoundedInduction, TLAPS

(* A set of naturals that is not empty has a least member: what the facts  *)
(* below are proved by, a least counterexample at a time.                  *)
LEMMA LeastFacts ==
  ASSUME NEW S, S \subseteq Nat, S # {}
  PROVE  \E x \in S : \A y \in S : x <= y
<1>1. PICK x \in S : \A y \in S : ~(<<y, x>> \in OpToRel(<, Nat))
    BY NatLessThanWellFounded, WFMin
<1>2. \A y \in S : ~(y < x)
    BY <1>1 DEF OpToRel
<1>3. QED
    BY <1>2

(* What FlattenSeq has made of the first i sequences, for each i.          *)
Flat(ss) == CHOOSE f : f = [i \in 1..Len(ss) |-> IF i = 1 THEN ss[i] ELSE f[i-1] \o ss[i]]

LEMMA FlatSeq == ASSUME NEW ss PROVE FlattenSeq(ss) = IF Len(ss) = 0 THEN ss ELSE Flat(ss)[Len(ss)]
BY Zenon DEF FlattenSeq, Flat

LEMMA FlatExists ==
  ASSUME NEW S, NEW ss \in Seq(Seq(S))
  PROVE  \E f \in [1 .. Len(ss) -> Seq(S)] :
           f = [i \in 1 .. Len(ss) |-> IF i = 1 THEN ss[i] ELSE f[i-1] \o ss[i]]
<1> DEFINE Good(n) == \E f \in [1 .. n -> Seq(S)] :
                        \A i \in 1 .. n : f[i] = IF i = 1 THEN ss[i] ELSE f[i-1] \o ss[i]
           Bad == {n \in 0 .. Len(ss) : ~Good(n)}
<1>0. Len(ss) \in Nat /\ \A i \in 1 .. Len(ss) : ss[i] \in Seq(S)
    BY LenProperties, ElementOfSeq
<1> HIDE DEF Good
<1>1. Bad = {}
    <2>1. SUFFICES ASSUME Bad # {} PROVE FALSE
        OBVIOUS
    <2>2. Bad \subseteq Nat
        BY <1>0
    <2>3. PICK m \in Bad : \A n \in Bad : m <= n
        BY <2>1, <2>2, LeastFacts
    <2>4. m # 0
        <3> DEFINE e == [i \in 1 .. 0 |-> ss[i]]
        <3>1. e \in [1 .. 0 -> Seq(S)] /\ \A i \in 1 .. 0 : FALSE
            OBVIOUS
        <3>2. Good(0)
            BY <3>1 DEF Good
        <3> QED
            BY <3>2
    <2>5. m - 1 \in 0 .. Len(ss) /\ m \in 1 .. Len(ss) /\ ~(m <= m - 1)
        BY <1>0, <2>4
    <2>6. Good(m - 1)
        BY <2>3, <2>5
    <2>7. PICK f \in [1 .. m - 1 -> Seq(S)] :
                 \A i \in 1 .. m - 1 : f[i] = IF i = 1 THEN ss[i] ELSE f[i-1] \o ss[i]
        BY <2>6 DEF Good
    <2> DEFINE g == [i \in 1 .. m |-> IF i < m THEN f[i] ELSE IF m = 1 THEN ss[m] ELSE f[m-1] \o ss[m]]
    <2>8. g \in [1 .. m -> Seq(S)]
        <3>1. ASSUME m # 1 PROVE f[m-1] \o ss[m] \in Seq(S)
            <4>1. f[m-1] \in Seq(S) /\ ss[m] \in Seq(S)
                BY <2>5, <1>0, <3>1
            <4> QED
                BY <4>1, ConcatProperties
        <3> QED
            BY <3>1, <2>5, <1>0
    <2>9. ASSUME NEW i \in 1 .. m
          PROVE  g[i] = IF i = 1 THEN ss[i] ELSE g[i-1] \o ss[i]
        <3>1. CASE i < m
            <4>1. i \in 1 .. m - 1 /\ (i # 1 => i - 1 \in 1 .. m - 1 /\ i - 1 < m /\ i - 1 \in 1 .. m)
                BY <3>1, <2>5
            <4>2. g[i] = f[i] /\ (i # 1 => g[i-1] = f[i-1])
                BY <4>1, <3>1
            <4>3. f[i] = IF i = 1 THEN ss[i] ELSE f[i-1] \o ss[i]
                BY <4>1, <2>7
            <4> HIDE DEF g
            <4> QED
                BY <4>2, <4>3
        <3>2. CASE i = m
            <4>1. i # 1 => i - 1 \in 1 .. m - 1 /\ i - 1 < m /\ i - 1 \in 1 .. m
                BY <3>2, <2>5
            <4> QED
                BY <4>1, <2>5, <3>2
        <3> QED
            BY <3>1, <3>2, <2>5
    <2>10. Good(m)
        BY <2>8, <2>9 DEF Good
    <2> QED
        BY <2>10, <2>3
<1>2. Good(Len(ss))
    BY <1>1, <1>0
<1>3. PICK f \in [1 .. Len(ss) -> Seq(S)] :
             \A i \in 1 .. Len(ss) : f[i] = IF i = 1 THEN ss[i] ELSE f[i-1] \o ss[i]
    BY <1>2 DEF Good
<1>4. f = [i \in 1 .. Len(ss) |-> IF i = 1 THEN ss[i] ELSE f[i-1] \o ss[i]]
    BY <1>3
<1> QED
    BY <1>4

LEMMA FlatFacts ==
  ASSUME NEW S, NEW ss \in Seq(Seq(S))
  PROVE  /\ Flat(ss) \in [1 .. Len(ss) -> Seq(S)]
         /\ \A i \in 1 .. Len(ss) : Flat(ss)[i] = IF i = 1 THEN ss[i] ELSE Flat(ss)[i-1] \o ss[i]
<1> DEFINE P(f) == f = [i \in 1 .. Len(ss) |-> IF i = 1 THEN ss[i] ELSE f[i-1] \o ss[i]]
<1>1. \E f : P(f)
    <2>1. PICK f \in [1 .. Len(ss) -> Seq(S)] :
                 f = [i \in 1 .. Len(ss) |-> IF i = 1 THEN ss[i] ELSE f[i-1] \o ss[i]]
        BY FlatExists
    <2> QED
        BY <2>1, Zenon
<1>2. P(Flat(ss))
    BY <1>1, Zenon DEF Flat
<1>3. \A i \in 1 .. Len(ss) : Flat(ss)[i] = IF i = 1 THEN ss[i] ELSE Flat(ss)[i-1] \o ss[i]
    BY <1>2
<1> DEFINE Bad == {n \in 1 .. Len(ss) : Flat(ss)[n] \notin Seq(S)}
<1>0. Len(ss) \in Nat /\ \A i \in 1 .. Len(ss) : ss[i] \in Seq(S)
    BY LenProperties, ElementOfSeq
<1>4. Bad = {}
    <2>1. SUFFICES ASSUME Bad # {} PROVE FALSE
        OBVIOUS
    <2>2. Bad \subseteq Nat
        BY <1>0
    <2>3. PICK m \in Bad : \A n \in Bad : m <= n
        BY <2>1, <2>2, LeastFacts
    <2>4. m # 1
        BY <1>3, <1>0
    <2>5. m - 1 \in 1 .. Len(ss) /\ m \in 1 .. Len(ss)
        BY <2>4, <1>0
    <2>6. Flat(ss)[m-1] \in Seq(S)
        BY <2>5, <2>3
    <2>7. Flat(ss)[m] = Flat(ss)[m-1] \o ss[m]
        BY <2>4, <2>5, <1>3
    <2> QED
        BY <2>6, <2>7, <2>5, <1>0, ConcatProperties
<1>5. Flat(ss) \in [1 .. Len(ss) -> Seq(S)]
    <2>1. Flat(ss) = [i \in 1 .. Len(ss) |-> IF i = 1 THEN ss[i] ELSE Flat(ss)[i-1] \o ss[i]]
        BY <1>2
    <2>2. \A i \in 1 .. Len(ss) : Flat(ss)[i] \in Seq(S)
        BY <1>4
    <2> HIDE <1>2
    <2> QED
        BY <2>1, <2>2
<1> QED
    BY <1>3, <1>5

(* A sequence of sequences over S becomes a sequence over S.               *)
LEMMA FlattenSequence ==
  ASSUME NEW S, NEW ss \in Seq(Seq(S))
  PROVE  FlattenSeq(ss) \in Seq(S)
<1>0. Len(ss) \in Nat
    BY LenProperties
<1>1. CASE Len(ss) = 0
    <2>1. ss = <<>>
        BY <1>1, EmptySeq
    <2>2. FlattenSeq(ss) = ss
        BY <1>1, FlatSeq
    <2> QED
        BY <2>1, <2>2, EmptySeq
<1>2. CASE Len(ss) # 0
    <2>1. FlattenSeq(ss) = Flat(ss)[Len(ss)]
        BY <1>2, FlatSeq
    <2> QED
        BY <2>1, <1>0, <1>2, FlatFacts
<1> QED
    BY <1>1, <1>2

(* What a flattened sequence has is what one of the sequences has.         *)
LEMMA FlattenRange ==
  ASSUME NEW S, NEW ss \in Seq(Seq(S))
  PROVE  Range(FlattenSeq(ss)) = UNION {Range(ss[i]) : i \in 1 .. Len(ss)}
<1>0. Len(ss) \in Nat /\ \A i \in 1 .. Len(ss) : ss[i] \in Seq(S)
    BY LenProperties, ElementOfSeq
<1>1. CASE Len(ss) = 0
    <2>1. ss = <<>>
        BY <1>1, EmptySeq
    <2>2. FlattenSeq(ss) = <<>>
        BY <1>1, <2>1, FlatSeq
    <2> QED
        BY <2>2, <1>1 DEF Range
<1>2. CASE Len(ss) # 0
    <2> DEFINE Of(n) == UNION {Range(ss[i]) : i \in 1 .. n}
               Bad == {n \in 1 .. Len(ss) : Range(Flat(ss)[n]) # Of(n)}
    <2>1. Bad = {}
        <3>1. SUFFICES ASSUME Bad # {} PROVE FALSE
            OBVIOUS
        <3>2. Bad \subseteq Nat
            BY <1>0
        <3> HIDE DEF Of
        <3>3. PICK m \in Bad : \A n \in Bad : m <= n
            BY <3>1, <3>2, LeastFacts
        <3>4. m \in 1 .. Len(ss) /\ Range(Flat(ss)[m]) # Of(m)
            OBVIOUS
        <3>5. CASE m = 1
            <4>1. Flat(ss)[1] = ss[1]
                BY <3>4, <3>5, FlatFacts
            <4>2. Of(1) = Range(ss[1])
                BY DEF Of
            <4> QED
                BY <4>1, <4>2, <3>4, <3>5
        <3>6. CASE m # 1
            <4>1. m - 1 \in 1 .. Len(ss) /\ ~(m <= m - 1)
                BY <3>4, <3>6, <1>0
            <4>2. Range(Flat(ss)[m-1]) = Of(m-1)
                BY <4>1, <3>3
            <4>3. Flat(ss)[m] = Flat(ss)[m-1] \o ss[m] /\ Flat(ss)[m-1] \in Seq(S)
                BY <4>1, <3>4, <3>6, FlatFacts
            <4>4. Range(Flat(ss)[m]) = Range(Flat(ss)[m-1]) \cup Range(ss[m])
                BY <4>3, <3>4, <1>0, RangeConcatenation
            <4>5. 1 .. m = (1 .. m - 1) \cup {m}
                BY <4>1
            <4>6. Of(m) = Of(m-1) \cup Range(ss[m])
                BY <4>5 DEF Of
            <4> QED
                BY <4>2, <4>4, <4>6, <3>4
        <3> QED
            BY <3>5, <3>6
    <2>2. FlattenSeq(ss) = Flat(ss)[Len(ss)]
        BY <1>2, FlatSeq
    <2>3. Len(ss) \in 1 .. Len(ss)
        BY <1>2, <1>0
    <2> QED
        BY <2>1, <2>2, <2>3
<1> QED
    BY <1>1, <1>2

-----------------------------------------------------------------------------
(* What holds of 0, and of k whenever of k - 1, holds up to n.             *)
LEMMA UpTo ==
  ASSUME NEW n \in Nat, NEW Q, 0 \in Q, \A k \in 1 .. n : k - 1 \in Q => k \in Q
  PROVE  0 .. n \subseteq Q
<1> DEFINE Bad == {k \in 0 .. n : k \notin Q}
<1>1. SUFFICES ASSUME Bad # {} PROVE FALSE
    OBVIOUS
<1>2. Bad \subseteq Nat
    OBVIOUS
<1>3. PICK m \in Bad : \A k \in Bad : m <= k
    BY <1>1, <1>2, LeastFacts
<1>4. m \in 1 .. n /\ m - 1 \in 0 .. n /\ ~(m <= m - 1)
    OBVIOUS
<1>5. m - 1 \in Q
    BY <1>3, <1>4
<1> QED
    BY <1>3, <1>4, <1>5

(* A function of 0 .. n that goes on from value to value.                  *)
Iterates(f, X, x0, n, next) == f \in [0 .. n -> X] /\ f[0] = x0 /\ \A k \in 1 .. n : f[k] = next[k][f[k-1]]

LEMMA StepByStep ==
  ASSUME NEW X, NEW x0 \in X, NEW n \in Nat, NEW next \in [1 .. n -> [X -> X]]
  PROVE  \E f : Iterates(f, X, x0, n, next)
<1> DEFINE Good(m) == \E f \in [0 .. m -> X] : f[0] = x0 /\ \A k \in 1 .. m : f[k] = next[k][f[k-1]]
           Q == {m \in 0 .. n : Good(m)}
<1>1. Good(0)
    <2> DEFINE f == [i \in 0 .. 0 |-> x0]
    <2>1. f \in [0 .. 0 -> X] /\ f[0] = x0 /\ \A k \in 1 .. 0 : FALSE
        OBVIOUS
    <2> QED
        BY <2>1
<1>2. ASSUME NEW m \in 1 .. n, m - 1 \in Q PROVE m \in Q
    <2>0. m \in Nat /\ m - 1 \in Nat /\ m \in 0 .. n
        OBVIOUS
    <2>1. PICK f \in [0 .. m - 1 -> X] : f[0] = x0 /\ \A k \in 1 .. m - 1 : f[k] = next[k][f[k-1]]
        BY <1>2
    <2> DEFINE g == [i \in 0 .. m |-> IF i = m THEN next[m][f[m-1]] ELSE f[i]]
    <2>2. next[m][f[m-1]] \in X
        BY <2>0
    <2>3. g \in [0 .. m -> X]
        BY <2>2, <2>0
    <2>4. g[0] = x0
        BY <2>0, <2>1
    <2>5. ASSUME NEW k \in 1 .. m PROVE g[k] = next[k][g[k-1]]
        <3>1. k \in 0 .. m /\ k - 1 \in 0 .. m /\ k - 1 # m /\ g[k-1] = f[k-1]
            BY <2>0
        <3>2. CASE k = m
            BY <3>1, <3>2
        <3>3. CASE k # m
            <4>1. k \in 1 .. m - 1 /\ g[k] = f[k]
                BY <3>1, <3>3, <2>0
            <4> HIDE DEF g
            <4> QED
                BY <2>1, <4>1, <3>1
        <3> QED
            BY <3>2, <3>3
    <2>6. Good(m)
        BY <2>3, <2>4, <2>5
    <2> QED
        BY <2>0, <2>6
<1> HIDE DEF Good
<1>3. 0 \in Q
    BY <1>1
<1>4. 0 .. n \subseteq Q
    BY <1>2, <1>3, UpTo
<1>5. Good(n)
    BY <1>4
<1> QED
    BY <1>5 DEF Good, Iterates

LEMMA MaxOf ==
  ASSUME NEW n \in Nat, NEW I \in SUBSET (1 .. n), I # {}
  PROVE  Max(I) \in I /\ \A i \in I : i <= Max(I)
<1> DEFINE up == {n - i : i \in I}
<1>0. PICK i \in I : TRUE
    OBVIOUS
<1>1. up \subseteq Nat /\ n - i \in up
    OBVIOUS
<1>2. PICK d \in up : \A e \in up : d <= e
    BY <1>1, LeastFacts
<1>3. PICK x \in I : d = n - x
    BY <1>2
<1>4. \A y \in I : x >= y
    BY <1>2, <1>3
<1>5. \E top \in I : \A y \in I : top >= y
    BY <1>4
<1>6. Max(I) \in I /\ \A y \in I : Max(I) >= y
    BY <1>5, Zenon DEF Max
<1> QED
    BY <1>6

(* What FoldLeft builds up over the set of places of a sequence: a value   *)
(* for each set of places, from the values of smaller sets.                *)
FoldsOver(it, T, base, step, n, s) ==
  /\ it \in [SUBSET (1 .. n) -> T]
  /\ \A I \in SUBSET (1 .. n) : it[I] = IF I = {} THEN base ELSE step[<<it[I \ {Max(I)}], s[Max(I)]>>]

LEMMA FoldExists ==
  ASSUME NEW T, NEW S, NEW base \in T, NEW step \in [T \X S -> T], NEW n \in Nat, NEW s \in [1 .. n -> S]
  PROVE  \E it : FoldsOver(it, T, base, step, n, s)
<1> DEFINE D == SUBSET (1 .. n)
           X == [D -> T]
           x0 == [I \in D |-> base]
           Then(k, f) == [I \in D |-> IF k \in I THEN step[<<f[I], s[k]>>] ELSE f[I]]
           next == [k \in 1 .. n |-> [f \in X |-> Then(k, f)]]
<1>1. x0 \in X
    OBVIOUS
<1>2. next \in [1 .. n -> [X -> X]]
    <2>1. ASSUME NEW k \in 1 .. n, NEW f \in X PROVE Then(k, f) \in X
        <3>1. ASSUME NEW I \in D PROVE (IF k \in I THEN step[<<f[I], s[k]>>] ELSE f[I]) \in T
            <4>1. f[I] \in T /\ s[k] \in S
                OBVIOUS
            <4>2. <<f[I], s[k]>> \in T \X S
                BY <4>1
            <4> QED
                BY <4>1, <4>2
        <3> QED
            BY <3>1
    <2> HIDE DEF X, Then
    <2> QED
        BY <2>1
<1>3. PICK h \in [0 .. n -> X] : h[0] = x0 /\ \A k \in 1 .. n : h[k] = next[k][h[k-1]]
    <2> HIDE DEF X, x0, next, D, Then
    <2>1. \E f : Iterates(f, X, x0, n, next)
        BY <1>1, <1>2, StepByStep, Zenon
    <2> QED
        BY <2>1, Zenon DEF Iterates
<1>4. ASSUME NEW k \in 1 .. n, NEW I \in D
      PROVE  /\ h[k-1] \in X
             /\ k \in I => h[k][I] = step[<<h[k-1][I], s[k]>>]
             /\ k \notin I => h[k][I] = h[k-1][I]
    <2>1. k - 1 \in 0 .. n
        OBVIOUS
    <2>2. h[k-1] \in X
        BY <2>1
    <2>3. h[k] = Then(k, h[k-1])
        <3> HIDE DEF X, Then
        <3> QED
            BY <1>3, <2>2
    <2> QED
        BY <2>2, <2>3
<1>0. \A I \in D : h[0][I] = base
    BY <1>3
<1> HIDE DEF X, x0, Then, next
<1>5. ASSUME NEW I \in D, NEW J \in D, NEW m \in 0 .. n, \A i \in 1 .. m : i \in I <=> i \in J
      PROVE  h[m][I] = h[m][J]
    <2>0. m \in Nat /\ m <= n
        OBVIOUS
    <2> DEFINE Q == {k \in 0 .. m : h[k][I] = h[k][J]}
    <2>1. 0 \in Q
        BY <1>0
    <2>2. ASSUME NEW k \in 1 .. m, k - 1 \in Q PROVE k \in Q
        <3>1. k \in 1 .. n /\ k \in 0 .. m /\ (k \in I <=> k \in J)
            BY <1>5, <2>0
        <3>2. h[k-1][I] = h[k-1][J]
            BY <2>2
        <3>3. CASE k \in I
            <4>1. h[k][I] = step[<<h[k-1][I], s[k]>>] /\ h[k][J] = step[<<h[k-1][J], s[k]>>]
                BY <3>1, <3>3, <1>4
            <4> QED
                BY <3>1, <3>2, <4>1
        <3>4. CASE k \notin I
            <4>1. h[k][I] = h[k-1][I] /\ h[k][J] = h[k-1][J]
                BY <3>1, <3>4, <1>4
            <4> QED
                BY <3>1, <3>2, <4>1
        <3> QED
            BY <3>1, <3>2, <3>3, <3>4
    <2> HIDE DEF Q
    <2>3. 0 .. m \subseteq Q
        BY <2>0, <2>1, <2>2, UpTo
    <2> QED
        BY <2>0, <2>3 DEF Q
<1>6. ASSUME NEW I \in D, NEW m \in 0 .. n, \A i \in I : i <= m
      PROVE  h[n][I] = h[m][I]
    <2> DEFINE Q == {k \in 0 .. n : k <= m \/ h[k][I] = h[m][I]}
    <2>1. 0 \in Q
        OBVIOUS
    <2>2. ASSUME NEW k \in 1 .. n, k - 1 \in Q PROVE k \in Q
        <3>1. CASE k <= m
            BY <3>1
        <3>2. CASE k - 1 = m
            <4>1. k \notin I
                BY <3>2, <1>6
            <4>2. h[k][I] = h[k-1][I]
                BY <4>1, <1>4
            <4> QED
                BY <4>2, <3>2
        <3>3. CASE k - 1 > m
            <4>1. k \notin I /\ h[k-1][I] = h[m][I]
                BY <3>3, <1>6, <2>2
            <4>2. h[k][I] = h[k-1][I]
                BY <4>1, <1>4
            <4> QED
                BY <4>1, <4>2
        <3> QED
            BY <3>1, <3>2, <3>3
    <2> HIDE DEF Q
    <2>3. 0 .. n \subseteq Q
        BY <2>1, <2>2, UpTo
    <2>4. n \in Q
        BY <2>3
    <2>5. n <= m => m = n
        OBVIOUS
    <2> QED
        BY <2>4, <2>5 DEF Q
<1> DEFINE it == h[n]
<1>7. it \in [D -> T]
    BY n \in 0 .. n DEF X
<1>8. it[{}] = base
    <2>1. h[n][{}] = h[0][{}]
        BY <1>6
    <2> QED
        BY <2>1, <1>0
<1>9. ASSUME NEW I \in D, I # {}
      PROVE  it[I] = step[<<it[I \ {Max(I)}], s[Max(I)]>>]
    <2> DEFINE m == Max(I)
    <2>1. m \in I /\ \A i \in I : i <= m
        BY <1>9, MaxOf
    <2> HIDE DEF m
    <2>2. m \in 1 .. n /\ m \in 0 .. n /\ m - 1 \in 0 .. n /\ I \ {m} \in D
        BY <2>1
    <2>3. h[n][I] = h[m][I]
        BY <2>1, <2>2, <1>6
    <2>4. h[m][I] = step[<<h[m-1][I], s[m]>>]
        BY <2>1, <2>2, <1>4
    <2>5. h[m-1][I] = h[m-1][I \ {m}]
        <3>1. \A i \in 1 .. m - 1 : i \in I <=> i \in I \ {m}
            BY <2>2
        <3> QED
            BY <3>1, <2>2, <1>5
    <2>6. h[n][I \ {m}] = h[m-1][I \ {m}]
        <3>1. \A i \in I \ {m} : i <= m - 1
            BY <2>1, <2>2
        <3> QED
            BY <3>1, <2>2, <1>6
    <2> QED
        BY <2>3, <2>4, <2>5, <2>6 DEF m
<1> HIDE DEF it
<1>10. FoldsOver(it, T, base, step, n, s)
    BY <1>7, <1>8, <1>9 DEF FoldsOver
<1> QED
    BY <1>10

LEMMA UpToMax ==
  ASSUME NEW k \in Nat, k # 0
  PROVE  Max(1 .. k) = k /\ (1 .. k) \ {k} = 1 .. k - 1 /\ 1 .. k # {}
<1>1. 1 .. k # {} /\ k \in 1 .. k
    OBVIOUS
<1>2. Max(1 .. k) \in 1 .. k /\ k <= Max(1 .. k)
    BY <1>1, MaxOf
<1> QED
    BY <1>1, <1>2

(* A fold along a sequence, place by place.                                *)
FoldsAlong(f, T, base, step, s, last) ==
  /\ f \in [0 .. Len(s) -> T] /\ f[0] = base /\ f[Len(s)] = last
  /\ \A k \in 1 .. Len(s) : f[k] = step[<<f[k-1], s[k]>>]

(* What a value for each set of places says of the places in their order,  *)
(* when it is known to be a step only as long as values have their type.   *)
StepsWithin(c, T, base, step, s) ==
  /\ c[{}] = base
  /\ \A I \in SUBSET DOMAIN s :
       I # {} /\ c[I \ {Max(I)}] \in T => c[I] = step[<<c[I \ {Max(I)}], s[Max(I)]>>]

LEMMA FoldPlaces ==
  ASSUME NEW T, NEW S, NEW base \in T, NEW step \in [T \X S -> T], NEW s \in Seq(S), NEW c,
         StepsWithin(c, T, base, step, s)
  PROVE  \E f : FoldsAlong(f, T, base, step, s, c[DOMAIN s])
<1> DEFINE n == Len(s)
           f == [k \in 0 .. n |-> c[1 .. k]]
           Q == {k \in 0 .. n : c[1 .. k] \in T}
<1>0. n \in Nat /\ DOMAIN s = 1 .. n /\ \A k \in 1 .. n : s[k] \in S
    OBVIOUS
<1> HIDE DEF n
<1>1. ASSUME NEW k \in 1 .. n, c[1 .. k - 1] \in T
      PROVE  c[1 .. k] = step[<<c[1 .. k - 1], s[k]>>]
    <2>1. k \in Nat /\ k # 0 /\ 1 .. k \in SUBSET DOMAIN s
        BY <1>0
    <2>2. Max(1 .. k) = k /\ (1 .. k) \ {k} = 1 .. k - 1 /\ 1 .. k # {}
        BY <2>1, UpToMax
    <2> QED
        BY <1>1, <2>1, <2>2 DEF StepsWithin
<1>2. 0 \in Q
    BY <1>0 DEF StepsWithin
<1>3. ASSUME NEW k \in 1 .. n, k - 1 \in Q PROVE k \in Q
    <2>1. c[1 .. k] = step[<<c[1 .. k - 1], s[k]>>]
        BY <1>1, <1>3
    <2>2. <<c[1 .. k - 1], s[k]>> \in T \X S
        BY <1>0, <1>3
    <2> QED
        BY <1>0, <2>1, <2>2
<1>4. 0 .. n \subseteq Q
    <2> HIDE DEF Q
    <2> QED
        BY <1>0, <1>2, <1>3, UpTo
<1>5. f \in [0 .. n -> T] /\ f[0] = base /\ f[n] = c[DOMAIN s]
    BY <1>0, <1>4 DEF StepsWithin
<1>6. ASSUME NEW k \in 1 .. n PROVE f[k] = step[<<f[k-1], s[k]>>]
    <2>1. k - 1 \in 0 .. n /\ k \in 0 .. n
        BY <1>0
    <2> QED
        BY <2>1, <1>1, <1>4
<1> HIDE DEF f
<1>7. FoldsAlong(f, T, base, step, s, c[DOMAIN s])
    BY <1>5, <1>6 DEF n, FoldsAlong
<1> QED
    BY <1>7, Zenon

-----------------------------------------------------------------------------
(* What FlattenSeq has made of the first k sequences.                      *)
Made(ss, k) == IF k = 0 THEN <<>> ELSE Flat(ss)[k]

MadeOf(ss, S) ==
  /\ Len(ss) \in Nat
  /\ Made(ss, 0) = <<>>
  /\ Made(ss, Len(ss)) = FlattenSeq(ss)
  /\ \A k \in 0 .. Len(ss) : Made(ss, k) \in Seq(S)
  /\ \A k \in 1 .. Len(ss) : Made(ss, k) = Made(ss, k - 1) \o ss[k] /\ ss[k] \in Seq(S)

LEMMA MadeFacts == ASSUME NEW S, NEW ss \in Seq(Seq(S)) PROVE MadeOf(ss, S)
<1>1. Len(ss) \in Nat /\ \A i \in 1 .. Len(ss) : ss[i] \in Seq(S)
    BY LenProperties, ElementOfSeq
<1>0. /\ Flat(ss) \in [1 .. Len(ss) -> Seq(S)]
      /\ \A i \in 1 .. Len(ss) : Flat(ss)[i] = IF i = 1 THEN ss[i] ELSE Flat(ss)[i-1] \o ss[i]
    BY FlatFacts, Zenon
<1>2. Made(ss, 0) = <<>>
    BY DEF Made
<1>3. Made(ss, Len(ss)) = FlattenSeq(ss)
    <2>1. CASE Len(ss) = 0
        BY <2>1, FlatSeq, EmptySeq DEF Made
    <2>2. CASE Len(ss) # 0
        BY <2>2, FlatSeq DEF Made
    <2> QED
        BY <2>1, <2>2
<1>4. \A k \in 0 .. Len(ss) : Made(ss, k) \in Seq(S)
    <2> TAKE k \in 0 .. Len(ss)
    <2>1. CASE k = 0
        BY <2>1 DEF Made
    <2>2. CASE k # 0
        <3>1. k \in 1 .. Len(ss)
            BY <1>1, <2>2
        <3>2. Flat(ss)[k] \in Seq(S)
            BY <1>0, <3>1
        <3> QED
            BY <2>2, <3>2 DEF Made
    <2> QED
        BY <2>1, <2>2
<1>5. ASSUME NEW k \in 1 .. Len(ss)
      PROVE  Made(ss, k) = Made(ss, k - 1) \o ss[k] /\ ss[k] \in Seq(S)
    <2>1. CASE k = 1
        <3>1. Made(ss, k) = ss[k] /\ Made(ss, k - 1) = <<>> /\ ss[k] \in Seq(S)
            <4>1. k # 0 /\ k - 1 = 0 /\ 1 \in 1 .. Len(ss)
                BY <1>1, <2>1
            <4>2. Flat(ss)[1] = ss[1]
                BY <1>0, <4>1, Zenon
            <4> QED
                BY <1>1, <2>1, <4>1, <4>2, Zenon DEF Made
        <3> QED
            BY <3>1, ConcatEmptySeq, Zenon
    <2>2. CASE k # 1
        <3>1. k # 0 /\ k - 1 # 0
            BY <1>1, <2>2
        <3>2. Made(ss, k) = Flat(ss)[k] /\ Made(ss, k - 1) = Flat(ss)[k - 1]
            BY <3>1, Zenon DEF Made
        <3>3. Flat(ss)[k] = Flat(ss)[k - 1] \o ss[k] /\ ss[k] \in Seq(S)
            BY <1>0, <1>1, <2>2, Zenon
        <3> QED
            BY <3>2, <3>3, Zenon
    <2> QED
        BY <2>1, <2>2
<1> QED
    BY <1>1, <1>2, <1>3, <1>4, <1>5 DEF MadeOf

(* The sequence that goes on by one more.                                  *)
LEMMA FlattenAppend ==
  ASSUME NEW S, NEW ss \in Seq(Seq(S)), NEW p \in Seq(S)
  PROVE  FlattenSeq(Append(ss, p)) = FlattenSeq(ss) \o p
<1> DEFINE tt == Append(ss, p)
           Q == {k \in 0 .. Len(ss) : Made(tt, k) = Made(ss, k)}
<1>1. Len(ss) \in Nat /\ tt \in Seq(Seq(S)) /\ Len(tt) = Len(ss) + 1 /\ tt[Len(ss) + 1] = p
      /\ \A k \in 1 .. Len(ss) : tt[k] = ss[k]
    BY AppendProperties, LenProperties
<1> HIDE DEF tt
<1>0. MadeOf(ss, S) /\ MadeOf(tt, S)
    BY <1>1, MadeFacts
<1>2. 0 \in Q
    BY <1>0, <1>1 DEF MadeOf
<1>3. ASSUME NEW k \in 1 .. Len(ss), k - 1 \in Q PROVE k \in Q
    <2>0. k \in 1 .. Len(tt) /\ k \in 0 .. Len(ss)
        BY <1>1
    <2>1. Made(tt, k) = Made(tt, k - 1) \o tt[k] /\ Made(ss, k) = Made(ss, k - 1) \o ss[k]
        BY <1>0, <2>0, Zenon DEF MadeOf
    <2>2. Made(tt, k - 1) = Made(ss, k - 1) /\ tt[k] = ss[k]
        BY <1>1, <1>3
    <2>3. Made(tt, k) = Made(ss, k)
        BY <2>1, <2>2, Zenon
    <2> QED
        BY <2>0, <2>3
<1>4. 0 .. Len(ss) \subseteq Q
    BY <1>1, <1>2, <1>3, UpTo
<1>5. Made(tt, Len(ss)) = Made(ss, Len(ss))
    <2>0. Len(ss) \in 0 .. Len(ss)
        BY <1>1
    <2>1. Len(ss) \in Q
        BY <1>4, <2>0, Zenon
    <2> QED
        BY <2>1, Zenon
<1>6. Made(tt, Len(ss) + 1) = Made(tt, Len(ss)) \o p
    <2>1. PICK m : m = Len(ss) + 1
        OBVIOUS
    <2>2. m \in 1 .. Len(tt) /\ m - 1 = Len(ss) /\ tt[m] = p
        BY <1>1, <2>1
    <2>3. Made(tt, m) = Made(tt, m - 1) \o tt[m]
        BY <1>0, <2>2, Zenon DEF MadeOf
    <2> QED
        BY <2>1, <2>2, <2>3, Zenon
<1> QED
    BY <1>0, <1>1, <1>5, <1>6 DEF MadeOf, tt

(* Sequences of as many members each, flattened to one, are the same.      *)
LEMMA FlattenApart ==
  ASSUME NEW S, NEW ss \in Seq(Seq(S)), NEW tt \in Seq(Seq(S)), Len(ss) = Len(tt),
         \A k \in 1 .. Len(ss) : Len(ss[k]) = Len(tt[k]), FlattenSeq(ss) = FlattenSeq(tt)
  PROVE  \A k \in 1 .. Len(ss) : ss[k] = tt[k]
<1> DEFINE n == Len(ss)
           Q == {k \in 0 .. n : Made(ss, n - k) = Made(tt, n - k)}
<1>0. MadeOf(ss, S) /\ MadeOf(tt, S)
    BY MadeFacts
<1>1. n \in Nat /\ n = Len(tt)
    BY <1>0 DEF MadeOf
<1>2. ASSUME NEW k \in 1 .. n, Made(ss, k) = Made(tt, k)
      PROVE  Made(ss, k - 1) = Made(tt, k - 1) /\ ss[k] = tt[k]
    <2> DEFINE a == Made(ss, k - 1)
               b == Made(tt, k - 1)
    <2>1. /\ k - 1 \in 0 .. n /\ a \in Seq(S) /\ b \in Seq(S) /\ ss[k] \in Seq(S) /\ tt[k] \in Seq(S)
          /\ Made(ss, k) = a \o ss[k] /\ Made(tt, k) = b \o tt[k]
        <3>1. k - 1 \in 0 .. n /\ k - 1 \in 0 .. Len(tt) /\ k \in 1 .. Len(tt)
            BY <1>1
        <3> QED
            BY <1>0, <3>1, Zenon DEF MadeOf
    <2> HIDE DEF a, b
    <2>2. a \o ss[k] = b \o tt[k] /\ Len(ss[k]) = Len(tt[k])
        BY <1>2, <2>1
    <2>3. /\ Len(a) \in Nat /\ Len(b) \in Nat /\ Len(ss[k]) \in Nat
          /\ Len(a \o ss[k]) = Len(a) + Len(ss[k]) /\ Len(b \o tt[k]) = Len(b) + Len(tt[k])
        BY <2>1, ConcatProperties, LenProperties
    <2>4. Len(a) = Len(b)
        BY <2>2, <2>3
    <2>5. a = b
        <3>1. \A i \in 1 .. Len(a) : a[i] = (a \o ss[k])[i] /\ b[i] = (b \o tt[k])[i]
            BY <2>1, <2>3, <2>4, ConcatProperties
        <3> QED
            BY <2>1, <2>2, <2>4, <3>1, SeqEqual
    <2>6. ss[k] = tt[k]
        <3>1. ASSUME NEW i \in 1 .. Len(ss[k]) PROVE ss[k][i] = tt[k][i]
            <4>1. Len(a) + i \in 1 .. Len(a) + Len(ss[k]) /\ ~(Len(a) + i <= Len(a)) /\ Len(a) + i - Len(a) = i
                BY <2>3
            <4>2. (a \o ss[k])[Len(a) + i] = ss[k][i]
                BY <2>1, <2>3, <4>1, ConcatProperties
            <4>3. (b \o tt[k])[Len(a) + i] = tt[k][i]
                BY <2>1, <2>2, <2>3, <2>4, <4>1, ConcatProperties
            <4> QED
                BY <2>2, <4>2, <4>3
        <3> QED
            BY <2>1, <2>2, <3>1, SeqEqual
    <2> QED
        BY <2>5, <2>6 DEF a, b
<1>3. 0 \in Q
    BY <1>0, <1>1 DEF MadeOf
<1>4. ASSUME NEW k \in 1 .. n, k - 1 \in Q PROVE k \in Q
    <2>1. n - (k - 1) \in 1 .. n /\ n - (k - 1) - 1 = n - k /\ k \in 0 .. n
        BY <1>1
    <2>2. Made(ss, n - (k - 1)) = Made(tt, n - (k - 1))
        BY <1>4
    <2>3. Made(ss, n - (k - 1) - 1) = Made(tt, n - (k - 1) - 1)
        BY <1>2, <2>1, <2>2
    <2> QED
        BY <2>1, <2>3
<1>5. 0 .. n \subseteq Q
    BY <1>1, <1>3, <1>4, UpTo
<1>6. ASSUME NEW k \in 1 .. n PROVE Made(ss, k) = Made(tt, k)
    <2>1. n - k \in 0 .. n /\ n - (n - k) = k
        BY <1>1
    <2> QED
        BY <1>5, <2>1
<1> QED
    BY <1>2, <1>6

(* A reader looks at each member of a sequence and at the one before it,   *)
(* or at none: what it makes of the members, one after the other.          *)
Before(v, i, none) == IF i = 1 THEN none ELSE v[i - 1]
ReadPieces(h, none, v) == [i \in 1 .. Len(v) |-> h[Before(v, i, none)][v[i]]]
ReadBy(h, none, v) == FlattenSeq(ReadPieces(h, none, v))
EndOf(v, none) == IF v = <<>> THEN none ELSE v[Len(v)]
ReadsLetters(h, S, none) == h \in [S \cup {none} -> [S -> Seq(S)]]

LEMMA ReadPiecesTyped ==
  ASSUME NEW S, NEW none, NEW h, ReadsLetters(h, S, none), NEW v \in Seq(S)
  PROVE  ReadPieces(h, none, v) \in Seq(Seq(S)) /\ Len(ReadPieces(h, none, v)) = Len(v)
<1>1. Len(v) \in Nat /\ \A i \in 1 .. Len(v) : v[i] \in S
    BY LenProperties, ElementOfSeq
<1>2. ASSUME NEW i \in 1 .. Len(v) PROVE h[Before(v, i, none)][v[i]] \in Seq(S)
    <2>1. CASE i = 1
        BY <1>1, <2>1 DEF Before, ReadsLetters
    <2>2. CASE i # 1
        <3>1. i - 1 \in 1 .. Len(v)
            BY <1>1, <2>2
        <3> QED
            BY <1>1, <2>2, <3>1 DEF Before, ReadsLetters
    <2> QED
        BY <2>1, <2>2
<1>3. ReadPieces(h, none, v) \in [1 .. Len(v) -> Seq(S)]
    BY <1>2 DEF ReadPieces
<1> QED
    BY <1>1, <1>3

LEMMA ReadsNothing == ASSUME NEW h, NEW none PROVE ReadBy(h, none, <<>>) = <<>>
<1>1. ReadPieces(h, none, <<>>) = <<>>
    BY DEF ReadPieces
<1> QED
    BY <1>1, FlatSeq DEF ReadBy

ReadsOn(h, none, v, x) == ReadBy(h, none, Append(v, x)) = ReadBy(h, none, v) \o h[EndOf(v, none)][x]

LEMMA ReadsAppend ==
  ASSUME NEW S, NEW none, NEW h, ReadsLetters(h, S, none), NEW v \in Seq(S), NEW x \in S
  PROVE  ReadsOn(h, none, v, x)
<1> DEFINE w == Append(v, x)
           n == Len(v)
<1>1. /\ n \in Nat /\ w \in Seq(S) /\ Len(w) = n + 1 /\ w[n + 1] = x /\ \A i \in 1 .. n : w[i] = v[i]
    BY AppendProperties, LenProperties
<1> HIDE DEF w
<1>2. /\ ReadPieces(h, none, v) \in Seq(Seq(S)) /\ Len(ReadPieces(h, none, v)) = n
      /\ ReadPieces(h, none, w) \in Seq(Seq(S)) /\ Len(ReadPieces(h, none, w)) = n + 1
    BY <1>1, ReadPiecesTyped
<1>3. h[EndOf(v, none)][x] = ReadPieces(h, none, w)[n + 1]
    <2>1. n + 1 \in 1 .. n + 1 /\ n + 1 - 1 = n
        BY <1>1
    <2>2. Before(w, n + 1, none) = EndOf(v, none)
        <3>1. CASE n = 0
            <4>1. v = <<>>
                BY <3>1, EmptySeq
            <4> QED
                BY <3>1, <4>1 DEF Before, EndOf
        <3>2. CASE n # 0
            <4>1. v # <<>> /\ n \in 1 .. n
                BY <1>1, <3>2
            <4> QED
                BY <1>1, <2>1, <3>2, <4>1 DEF Before, EndOf
        <3> QED
            BY <3>1, <3>2
    <2> QED
        BY <1>1, <2>1, <2>2 DEF ReadPieces
<1>4. h[EndOf(v, none)][x] \in Seq(S)
    <2>1. n + 1 \in 1 .. n + 1
        BY <1>1
    <2> QED
        BY <1>2, <1>3, <2>1, ElementOfSeq
<1>5. ReadPieces(h, none, w) = Append(ReadPieces(h, none, v), h[EndOf(v, none)][x])
    <2> DEFINE a == ReadPieces(h, none, v)
               b == ReadPieces(h, none, w)
               y == h[EndOf(v, none)][x]
    <2>1. Append(a, y) \in Seq(Seq(S)) /\ Len(Append(a, y)) = n + 1 /\ Append(a, y)[n + 1] = y
          /\ \A i \in 1 .. n : Append(a, y)[i] = a[i]
        BY <1>2, <1>4, AppendProperties
    <2>2. ASSUME NEW i \in 1 .. n PROVE b[i] = a[i]
        <3>1. i \in 1 .. n + 1 /\ (i # 1 => i - 1 \in 1 .. n)
            BY <1>1
        <3>2. Before(w, i, none) = Before(v, i, none) /\ w[i] = v[i]
            BY <1>1, <3>1 DEF Before
        <3> QED
            BY <1>1, <3>1, <3>2 DEF ReadPieces
    <2> HIDE DEF a, b, y
    <2>3. ASSUME NEW i \in 1 .. n + 1 PROVE b[i] = Append(a, y)[i]
        <3>1. i = n + 1 \/ i \in 1 .. n
            BY <1>1
        <3> QED
            BY <1>3, <2>1, <2>2, <3>1 DEF b, y
    <2>4. b \in Seq(Seq(S)) /\ Len(b) = n + 1
        BY <1>2 DEF b
    <2>5. b = Append(a, y)
        BY <2>1, <2>3, <2>4, SeqEqual
    <2> QED
        BY <2>5 DEF a, b, y
<1> QED
    BY <1>2, <1>4, <1>5, FlattenAppend DEF ReadBy, ReadsOn, w

-----------------------------------------------------------------------------
(* Pieces of one member, or of a separator and a member, put together: the *)
(* separator is never at the end.                                          *)
PieceOf(p, S, sep) == p = <<>> \/ \E l \in S \ {sep} : p = <<l>> \/ p = <<sep, l>>
EndKept(ss, S, sep, none, k) ==
  /\ EndOf(Made(ss, k), none) \in (S \ {sep}) \cup {none}
  /\ k > 0 /\ ss[1] # <<>> => EndOf(Made(ss, k), none) # none

Glued(g, S, sep, l, none) ==
  /\ g \o <<l>> = Append(g, l) /\ Append(g, l) \in Seq(S) /\ EndOf(Append(g, l), none) = l
  /\ g \o <<sep, l>> = Append(Append(g, sep), l)
  /\ Append(g, sep) \in Seq(S) /\ EndOf(Append(g, sep), none) = sep
  /\ EndOf(Append(Append(g, sep), l), none) = l

LEMMA Concatenated ==
  ASSUME NEW S, NEW g \in Seq(S), NEW sep \in S, NEW l \in S, NEW none
  PROVE  Glued(g, S, sep, l, none)
<1>2. ASSUME NEW v \in Seq(S), NEW x \in S PROVE EndOf(Append(v, x), none) = x /\ Append(v, x) \in Seq(S)
    BY AppendProperties DEF EndOf
<1>3. g \o <<l>> = Append(g, l)
    OBVIOUS
<1>4. g \o <<sep, l>> = Append(Append(g, sep), l)
    OBVIOUS
<1> QED
    BY <1>2, <1>3, <1>4, AppendProperties DEF Glued

Associates(a, b, c) == (a \o b) \o c = a \o (b \o c)

LEMMA JoinedTwice ==
  ASSUME NEW S, NEW a \in Seq(S), NEW b \in Seq(S), NEW c \in Seq(S)
  PROVE  Associates(a, b, c)
BY SMT DEF Associates

LEMMA PiecesEnd ==
  ASSUME NEW S, NEW sep \in S, NEW none, none \notin S, NEW ss \in Seq(Seq(S)),
         \A k \in 1 .. Len(ss) : PieceOf(ss[k], S, sep)
  PROVE  \A k \in 0 .. Len(ss) : EndKept(ss, S, sep, none, k)
<1> DEFINE Q == {k \in 0 .. Len(ss) : EndKept(ss, S, sep, none, k)}
<1>1. MadeOf(ss, S)
    BY MadeFacts
<1>2. Len(ss) \in Nat /\ Made(ss, 0) = <<>> /\ \A k \in 0 .. Len(ss) : Made(ss, k) \in Seq(S)
    BY <1>1, Zenon DEF MadeOf
<1>3. 0 \in Q
    BY <1>2 DEF EndKept, EndOf
<1>4. ASSUME NEW k \in 1 .. Len(ss), k - 1 \in Q PROVE k \in Q
    <2> DEFINE g == Made(ss, k - 1)
    <2>1. Made(ss, k) = g \o ss[k]
        BY <1>1, Zenon DEF MadeOf
    <2>2. /\ k - 1 \in 0 .. Len(ss) /\ k \in 0 .. Len(ss) /\ k > 0 /\ (k - 1 > 0 \/ k = 1)
        BY <1>2
    <2>3. g \in Seq(S) /\ EndKept(ss, S, sep, none, k - 1)
        BY <1>2, <1>4, <2>2
    <2> HIDE DEF g
    <2>4. CASE ss[k] = <<>>
        <3>1. Made(ss, k) = g
            BY <2>1, <2>3, <2>4, ConcatEmptySeq, Zenon
        <3>2. EndOf(Made(ss, k), none) \in (S \ {sep}) \cup {none}
            BY <2>3, <3>1, Zenon DEF EndKept, g
        <3>3. ss[1] # <<>> => k # 1
            BY <2>4
        <3>4. ss[1] # <<>> => EndOf(Made(ss, k), none) # none
            BY <2>2, <2>3, <3>1, <3>3, Zenon DEF EndKept, g
        <3> QED
            BY <2>2, <3>2, <3>4, Zenon DEF EndKept
    <2>5. ASSUME NEW l \in S \ {sep}, ss[k] = <<l>> \/ ss[k] = <<sep, l>> PROVE k \in Q
        <3>1. EndOf(g \o <<l>>, none) = l /\ EndOf(g \o <<sep, l>>, none) = l
            <4>1. l \in S
                OBVIOUS
            <4>2. Glued(g, S, sep, l, none)
                BY <2>3, <4>1, Concatenated, Zenon
            <4> QED
                BY <4>2, Zenon DEF Glued
        <3>2. EndOf(Made(ss, k), none) = l
            BY <2>1, <2>5, <3>1, Zenon
        <3>3. l # none
            OBVIOUS
        <3>4. EndKept(ss, S, sep, none, k)
            BY <3>2, <3>3, Zenon DEF EndKept
        <3> QED
            BY <2>2, <3>4
    <2>6. PieceOf(ss[k], S, sep)
        OBVIOUS
    <2>7. ss[k] = <<>> => k \in Q
        BY <2>2, <2>4
    <2> QED
        BY <2>5, <2>6, <2>7, Zenon DEF PieceOf
<1>5. 0 .. Len(ss) \subseteq Q
    BY <1>2, <1>3, <1>4, UpTo
<1> QED
    BY <1>5

(* What a reader makes of the pieces put together, piece by piece.         *)
ReadAs(h, none, sep, g, S, p, t) ==
  \/ p = <<>> /\ t = <<>>
  \/ \E l \in S \ {sep} : p = <<l>> /\ t = h[EndOf(g, none)][l]
  \/ \E l \in S \ {sep} : p = <<sep, l>> /\ t = h[EndOf(g, none)][sep] \o h[sep][l]

AllReadAs(h, none, sep, S, ss, tt) ==
  /\ Len(tt) = Len(ss)
  /\ \A k \in 1 .. Len(ss) : ReadAs(h, none, sep, Made(ss, k - 1), S, ss[k], tt[k])

LEMMA PiecesRead ==
  ASSUME NEW S, NEW none, NEW h, ReadsLetters(h, S, none), NEW sep \in S,
         NEW ss \in Seq(Seq(S)), NEW tt \in Seq(Seq(S)), AllReadAs(h, none, sep, S, ss, tt)
  PROVE  ReadBy(h, none, FlattenSeq(ss)) = FlattenSeq(tt)
<1> DEFINE Q == {k \in 0 .. Len(ss) : ReadBy(h, none, Made(ss, k)) = Made(tt, k)}
<1>0. Len(tt) = Len(ss) /\ \A k \in 1 .. Len(ss) : ReadAs(h, none, sep, Made(ss, k - 1), S, ss[k], tt[k])
    BY DEF AllReadAs
<1>1. MadeOf(ss, S) /\ MadeOf(tt, S)
    BY MadeFacts
<1>2. Len(ss) \in Nat /\ Made(ss, 0) = <<>> /\ Made(tt, 0) = <<>>
    BY <1>1, Zenon DEF MadeOf
<1>3. 0 \in Q
    BY <1>2, ReadsNothing
<1>4. ASSUME NEW k \in 1 .. Len(ss), k - 1 \in Q PROVE k \in Q
    <2> DEFINE g == Made(ss, k - 1)
               t == Made(tt, k - 1)
    <2>1. k - 1 \in 0 .. Len(ss) /\ k \in 0 .. Len(ss) /\ k \in 1 .. Len(tt) /\ k - 1 \in 0 .. Len(tt)
        BY <1>0, <1>2
    <2>2. Made(ss, k) = g \o ss[k] /\ Made(tt, k) = t \o tt[k] /\ g \in Seq(S) /\ t \in Seq(S)
        BY <1>1, <2>1, Zenon DEF MadeOf
    <2>3. ReadBy(h, none, g) = t
        BY <1>4
    <2>4. ReadAs(h, none, sep, g, S, ss[k], tt[k])
        BY <1>0
    <2> HIDE DEF g, t
    <2>5. ASSUME ss[k] = <<>>, tt[k] = <<>> PROVE ReadBy(h, none, Made(ss, k)) = Made(tt, k)
        <3>1. g \o ss[k] = g /\ t \o tt[k] = t
            BY <2>2, <2>5, ConcatEmptySeq, Zenon
        <3> QED
            BY <2>2, <2>3, <3>1
    <2>6. ASSUME NEW l \in S \ {sep}, ss[k] = <<l>>, tt[k] = h[EndOf(g, none)][l]
          PROVE  ReadBy(h, none, Made(ss, k)) = Made(tt, k)
        <3>0. l \in S
            OBVIOUS
        <3>1. Glued(g, S, sep, l, none) /\ ReadsOn(h, none, g, l)
            BY <2>2, <3>0, Concatenated, ReadsAppend, Zenon
        <3>2. g \o <<l>> = Append(g, l) /\ ReadBy(h, none, Append(g, l)) = ReadBy(h, none, g) \o h[EndOf(g, none)][l]
            BY <3>1, Zenon DEF Glued, ReadsOn
        <3> QED
            BY <2>2, <2>3, <2>6, <3>1, <3>2, Zenon
    <2>7. ASSUME NEW l \in S \ {sep}, ss[k] = <<sep, l>>, tt[k] = h[EndOf(g, none)][sep] \o h[sep][l]
          PROVE  ReadBy(h, none, Made(ss, k)) = Made(tt, k)
        <3>0. l \in S
            OBVIOUS
        <3>1. Glued(g, S, sep, l, none) /\ ReadsOn(h, none, g, sep)
            BY <2>2, <3>0, Concatenated, ReadsAppend, Zenon
        <3>2. /\ g \o <<sep, l>> = Append(Append(g, sep), l) /\ Append(g, sep) \in Seq(S)
              /\ EndOf(Append(g, sep), none) = sep
              /\ ReadBy(h, none, Append(g, sep)) = t \o h[EndOf(g, none)][sep]
            BY <2>3, <3>1, Zenon DEF Glued, ReadsOn
        <3>6. ReadsOn(h, none, Append(g, sep), l)
            BY <3>0, <3>2, ReadsAppend, Zenon
        <3>3. ReadBy(h, none, Append(Append(g, sep), l)) = ReadBy(h, none, Append(g, sep)) \o h[sep][l]
            BY <3>2, <3>6, Zenon DEF ReadsOn
        <3>4. h[EndOf(g, none)][sep] \in Seq(S) /\ h[sep][l] \in Seq(S)
            <4>1. EndOf(g, none) \in S \cup {none}
                BY <2>2, LenProperties, EmptySeq, ElementOfSeq DEF EndOf
            <4> QED
                BY <3>0, <4>1 DEF ReadsLetters
        <3>5. (t \o h[EndOf(g, none)][sep]) \o h[sep][l] = t \o (h[EndOf(g, none)][sep] \o h[sep][l])
            <4> DEFINE x == h[EndOf(g, none)][sep]
                       y == h[sep][l]
            <4>1. x \in Seq(S) /\ y \in Seq(S) /\ t \in Seq(S)
                BY <2>2, <3>4
            <4> HIDE DEF x, y
            <4>2. Associates(t, x, y)
                BY <4>1, JoinedTwice, Zenon
            <4> QED
                BY <4>2, SMT DEF Associates, x, y
        <3> QED
            BY <2>2, <2>7, <3>2, <3>3, <3>5, Zenon
    <2>8. ReadBy(h, none, Made(ss, k)) = Made(tt, k)
        BY <2>4, <2>5, <2>6, <2>7, Zenon DEF ReadAs
    <2> QED
        BY <2>1, <2>8
<1>5. 0 .. Len(ss) \subseteq Q
    BY <1>2, <1>3, <1>4, UpTo
<1>6. Len(ss) \in 0 .. Len(ss) /\ Made(ss, Len(ss)) = FlattenSeq(ss) /\ Made(tt, Len(tt)) = FlattenSeq(tt)
    BY <1>1, <1>2 DEF MadeOf
<1>7. Len(ss) \in Q
    BY <1>5, <1>6, Zenon
<1> QED
    BY <1>0, <1>6, <1>7, Zenon

(* One sequence in front of another.                                       *)
LEMMA FrontIsPrefix ==
  ASSUME NEW S, NEW a \in Seq(S), NEW s \in Seq(S)
  PROVE  IsPrefix(a, a \o s)
BY DEF IsPrefix

LEMMA FrontsMeet ==
  ASSUME NEW S, NEW a \in Seq(S), NEW b \in Seq(S), NEW s \in Seq(S), NEW t \in Seq(S), a \o s = b \o t
  PROVE  IsPrefix(a, b) \/ IsPrefix(b, a)
<1> DEFINE c == a \o s
<1>1. Len(a) \in Nat /\ Len(b) \in Nat /\ c \in Seq(S) /\ Len(a) <= Len(c) /\ Len(b) <= Len(c)
    BY Len(b \o t) = Len(b) + Len(t)
<1>2. \A i \in 1 .. Len(a) : c[i] = a[i]
    OBVIOUS
<1>3. \A i \in 1 .. Len(b) : c[i] = b[i]
    OBVIOUS
<1> HIDE DEF c
<1>4. CASE Len(a) <= Len(b)
    BY <1>1, <1>2, <1>3, <1>4 DEF IsPrefix
<1>5. CASE Len(b) <= Len(a)
    BY <1>1, <1>2, <1>3, <1>5 DEF IsPrefix
<1> QED
    BY <1>1, <1>4, <1>5

LEMMA SameFront ==
  ASSUME NEW S, NEW a \in Seq(S), NEW s \in Seq(S), NEW t \in Seq(S), a \o s = a \o t
  PROVE  s = t
<1>1. Len(a) \in Nat /\ Len(s) \in Nat /\ Len(t) \in Nat /\ Len(a \o s) = Len(a) + Len(s) /\ Len(a \o t) = Len(a) + Len(t)
    OBVIOUS
<1>2. Len(s) = Len(t)
    BY <1>1
<1>3. \A i \in 1 .. Len(s) : s[i] = t[i]
    <2> TAKE i \in 1 .. Len(s)
    <2>1. (a \o s)[Len(a) + i] = s[i] /\ (a \o t)[Len(a) + i] = t[i]
        BY <1>1, <1>2
    <2> QED
        BY <2>1
<1> QED
    BY <1>2, <1>3, SeqEqual

(* A fold along a sequence that has one more member.                       *)
FoldedTo(T, S, base, step, s, y) ==
  /\ base \in T /\ step \in [T \X S -> T] /\ s \in Seq(S)
  /\ \E c : StepsWithin(c, T, base, step, s) /\ y = c[DOMAIN s]
Onward(step, y, x) == step[<<y, x>>]

LEMMA FoldsAppend ==
  ASSUME NEW T, NEW S, NEW base, NEW step, NEW s, NEW x \in S, NEW y, NEW z,
         FoldedTo(T, S, base, step, s, y), FoldedTo(T, S, base, step, Append(s, x), z)
  PROVE  y \in T /\ z = Onward(step, y, x)
<1>b. PICK c : StepsWithin(c, T, base, step, s) /\ y = c[DOMAIN s]
    BY Zenon DEF FoldedTo
<1>c. PICK d : StepsWithin(d, T, base, step, Append(s, x)) /\ z = d[DOMAIN Append(s, x)]
    BY Zenon DEF FoldedTo
<1> DEFINE n == Len(s)
           t == Append(s, x)
<1>a. /\ base \in T /\ step \in [T \X S -> T] /\ s \in Seq(S)
      /\ StepsWithin(c, T, base, step, s) /\ StepsWithin(d, T, base, step, t)
    BY <1>b, <1>c DEF FoldedTo
<1>0. n \in Nat /\ t \in Seq(S) /\ Len(t) = n + 1 /\ t[n + 1] = x /\ \A k \in 1 .. n : t[k] = s[k]
    BY <1>a
<1> HIDE DEF t
<1>1. PICK f : FoldsAlong(f, T, base, step, s, c[DOMAIN s])
    BY <1>a, FoldPlaces, Zenon
<1>2. PICK g : FoldsAlong(g, T, base, step, t, d[DOMAIN t])
    BY <1>a, <1>0, FoldPlaces, Zenon DEF t
<1> HIDE DEF n
<1>3. f[0] = g[0] /\ f[n] = c[DOMAIN s] /\ g[n + 1] = d[DOMAIN t] /\ f[n] \in T
    BY <1>0, <1>1, <1>2 DEF FoldsAlong, n
<1>4. ASSUME NEW k \in 1 .. n, f[k - 1] = g[k - 1] PROVE f[k] = g[k]
    <2>1. f[k] = step[<<f[k - 1], s[k]>>]
        BY <1>1 DEF FoldsAlong, n
    <2>2. k \in 1 .. Len(t) /\ t[k] = s[k]
        BY <1>0
    <2>3. g[k] = step[<<g[k - 1], t[k]>>]
        BY <1>2, <2>2 DEF FoldsAlong
    <2> QED
        BY <1>4, <2>1, <2>2, <2>3, Zenon
<1> DEFINE Q == {k \in 0 .. n : f[k] = g[k]}
<1>5. 0 .. n \subseteq Q
    <2>1. 0 \in Q
        BY <1>0, <1>3
    <2>2. ASSUME NEW k \in 1 .. n, k - 1 \in Q PROVE k \in Q
        BY <1>4, <2>2
    <2> HIDE DEF Q
    <2> QED
        BY <1>0, <2>1, <2>2, UpTo
<1>6. f[n] = g[n]
    BY <1>0, <1>5
<1>7. g[n + 1] = step[<<g[n], x>>]
    <2>1. n + 1 \in 1 .. Len(t) /\ n + 1 - 1 = n
        BY <1>0
    <2> QED
        BY <1>0, <1>2, <2>1 DEF FoldsAlong
<1> QED
    BY <1>b, <1>c, <1>3, <1>6, <1>7 DEF t, Onward

(* A sequence, what stands in front of it and what is put behind it.       *)
LEMMA BehindFacts ==
  ASSUME NEW S, NEW a \in Seq(S), NEW x \in S
  PROVE  /\ Append(a, x) \in Seq(S) /\ Append(a, x) # <<>> /\ Len(Append(a, x)) = Len(a) + 1
         /\ Last(Append(a, x)) = x /\ Front(Append(a, x)) = a
         /\ IsStrictPrefix(a, Append(a, x)) /\ ~IsPrefix(Append(a, x), a)
<1> DEFINE b == Append(a, x)
<1>1. /\ b \in Seq(S) /\ Len(b) = Len(a) + 1 /\ b[Len(a) + 1] = x /\ Len(a) \in Nat
      /\ \A i \in 1 .. Len(a) : b[i] = a[i]
    OBVIOUS
<1> HIDE DEF b
<1>2. SubSeq(b, 1, Len(a)) = a
    BY <1>1
<1>3. b # <<>> /\ b # a
    BY <1>1
<1>4. Last(b) = x /\ Front(b) = a
    BY <1>1, <1>2 DEF Last, Front
<1>5. IsStrictPrefix(a, b) /\ ~IsPrefix(b, a)
    BY <1>1, <1>2, <1>3 DEF IsStrictPrefix, IsPrefix
<1> QED
    BY <1>1, <1>3, <1>4, <1>5 DEF b

LEMMA FrontFacts ==
  ASSUME NEW S, NEW a \in Seq(S), a # <<>>
  PROVE  /\ Front(a) \in Seq(S) /\ Last(a) \in S /\ a = Append(Front(a), Last(a))
         /\ Front(a) # <<>> <=> Len(a) > 1
         /\ IsStrictPrefix(Front(a), a)
<1> DEFINE f == Front(a)
<1>1. Len(a) \in Nat /\ Len(a) > 0
    BY DEF Front
<1>2. f = SubSeq(a, 1, Len(a) - 1)
    BY DEF Front
<1>3. f \in Seq(S) /\ Len(f) = Len(a) - 1 /\ \A i \in 1 .. Len(a) - 1 : f[i] = a[i]
    <2> DEFINE k == Len(a) - 1
    <2>1. k \in Nat /\ k <= Len(a)
        BY <1>1
    <2> HIDE DEF k, f
    <2>2. SubSeq(a, 1, k) \in Seq(S) /\ Len(SubSeq(a, 1, k)) = k /\ \A i \in 1 .. k : SubSeq(a, 1, k)[i] = a[i]
        BY <2>1
    <2> QED
        BY <1>2, <2>2 DEF k
<1>4. Last(a) = a[Len(a)] /\ Last(a) \in S
    BY <1>1 DEF Last
<1> HIDE DEF f
<1>5. a = Append(f, Last(a))
    <2> DEFINE b == Append(f, Last(a))
    <2>1. /\ b \in Seq(S) /\ Len(b) = Len(a) /\ b[Len(a)] = a[Len(a)]
          /\ \A i \in 1 .. Len(a) - 1 : b[i] = a[i]
        BY <1>1, <1>3, <1>4
    <2> HIDE DEF b
    <2>2. \A i \in 1 .. Len(a) : b[i] = a[i]
        BY <1>1, <2>1
    <2>3. a = b
        BY <2>1, <2>2, SeqEqual
    <2> QED
        BY <2>3 DEF b
<1>6. f # <<>> <=> Len(a) > 1
    BY <1>1, <1>3
<1>7. IsStrictPrefix(f, a)
    BY <1>3, <1>4, <1>5, BehindFacts
<1> QED
    BY <1>3, <1>4, <1>5, <1>6, <1>7 DEF f

LEMMA PrefixBehind ==
  ASSUME NEW S, NEW a \in Seq(S), NEW b \in Seq(S), NEW x \in S
  PROVE  IsPrefix(a, Append(b, x)) <=> IsPrefix(a, b) \/ a = Append(b, x)
<1> DEFINE c == Append(b, x)
<1>1. /\ c \in Seq(S) /\ Len(c) = Len(b) + 1 /\ Len(a) \in Nat /\ Len(b) \in Nat
      /\ \A i \in 1 .. Len(b) : c[i] = b[i]
    OBVIOUS
<1> HIDE DEF c
<1>2. ASSUME Len(a) <= Len(b) PROVE SubSeq(c, 1, Len(a)) = SubSeq(b, 1, Len(a))
    BY <1>1, <1>2
<1>3. CASE Len(a) <= Len(b)
    <2>1. a # c
        BY <1>1, <1>3
    <2> QED
        BY <1>1, <1>2, <1>3, <2>1 DEF IsPrefix, c
<1>4. CASE Len(a) = Len(c)
    <2>1. SubSeq(c, 1, Len(c)) = c /\ SubSeq(a, 1, Len(a)) = a
        BY <1>1
    <2> QED
        BY <1>1, <1>4, <2>1 DEF IsPrefix, c
<1>5. CASE Len(a) > Len(c)
    <2>1. a # c
        BY <1>1, <1>5
    <2> QED
        BY <1>1, <1>5, <2>1 DEF IsPrefix, c
<1> QED
    BY <1>1, <1>3, <1>4, <1>5

LEMMA PrefixMembers ==
  ASSUME NEW S, NEW a \in Seq(S), NEW b \in Seq(S)
  PROVE  IsPrefix(a, b) <=> Len(a) <= Len(b) /\ \A i \in 1 .. Len(a) : a[i] = b[i]
<1>1. SubSeq(a, 1, Len(a)) = a
    OBVIOUS
<1>2. ASSUME Len(a) <= Len(b)
      PROVE  /\ SubSeq(b, 1, Len(a)) \in Seq(S) /\ Len(SubSeq(b, 1, Len(a))) = Len(a)
             /\ \A i \in 1 .. Len(a) : SubSeq(b, 1, Len(a))[i] = b[i]
    BY <1>2
<1>3. CASE Len(a) <= Len(b)
    <2>1. PICK c \in Seq(S) : c = SubSeq(b, 1, Len(a))
        BY <1>2, <1>3
    <2>2. Len(c) = Len(a) /\ \A i \in 1 .. Len(a) : c[i] = b[i]
        BY <1>2, <1>3, <2>1
    <2>3. ASSUME \A i \in 1 .. Len(a) : a[i] = c[i] PROVE a = c
        BY <2>2, <2>3, SeqEqual
    <2> QED
        BY <1>1, <1>3, <2>1, <2>2, <2>3 DEF IsPrefix
<1>4. CASE ~(Len(a) <= Len(b))
    BY <1>4 DEF IsPrefix
<1> QED
    BY <1>3, <1>4

LEMMA PrefixAgain ==
  ASSUME NEW S, NEW a \in Seq(S), NEW b \in Seq(S), NEW x \in S, NEW y \in S
  PROVE  /\ IsPrefix(a, a)
         /\ IsPrefix(Append(a, x), b) => IsPrefix(a, b)
         /\ IsPrefix(Append(a, x), Append(a, y)) => x = y
<1> DEFINE c == Append(a, x)
<1>1. /\ c \in Seq(S) /\ Len(c) = Len(a) + 1 /\ Len(a) \in Nat /\ Len(b) \in Nat
      /\ c[Len(a) + 1] = x /\ \A i \in 1 .. Len(a) : c[i] = a[i]
    OBVIOUS
<1> HIDE DEF c
<1>2. IsPrefix(a, a)
    BY PrefixMembers, <1>1
<1>3. ASSUME IsPrefix(c, b) PROVE IsPrefix(a, b)
    <2>1. Len(c) <= Len(b) /\ \A i \in 1 .. Len(c) : c[i] = b[i]
        BY <1>1, <1>3, PrefixMembers
    <2>2. Len(a) <= Len(b) /\ \A i \in 1 .. Len(a) : a[i] = b[i]
        BY <1>1, <2>1
    <2> QED
        BY <2>2, PrefixMembers
<1>4. ASSUME IsPrefix(c, Append(a, y)) PROVE x = y
    <2> DEFINE d == Append(a, y)
    <2>1. d \in Seq(S) /\ Len(d) = Len(a) + 1 /\ d[Len(a) + 1] = y
        OBVIOUS
    <2> HIDE DEF d
    <2>2. \A i \in 1 .. Len(c) : c[i] = d[i]
        <3>1. IsPrefix(c, d)
            BY <1>4 DEF d
        <3> QED
            BY <1>1, <2>1, <3>1, PrefixMembers
    <2> QED
        BY <1>1, <2>1, <2>2
<1> QED
    BY <1>2, <1>3, <1>4 DEF c

(* A slice of a sequence, one member longer.                               *)
LEMMA SliceGrows ==
  ASSUME NEW S, NEW s \in Seq(S), NEW n \in Nat, n < Len(s), NEW h \in 0 .. n
  PROVE  /\ SubSeq(s, h + 1, n) \in Seq(S)
         /\ SubSeq(s, h + 1, n + 1) = Append(SubSeq(s, h + 1, n), s[n + 1])
<1> DEFINE a == SubSeq(s, h + 1, n)
           b == SubSeq(s, h + 1, n + 1)
           c == Append(a, s[n + 1])
<1>0. Len(s) \in Nat /\ s[n + 1] \in S /\ h \in Nat
    OBVIOUS
<1>1. a \in Seq(S) /\ Len(a) = n - h /\ \A i \in 1 .. n - h : a[i] = s[i + h]
    BY <1>0
<1>2. b \in Seq(S) /\ Len(b) = n + 1 - h /\ \A i \in 1 .. n + 1 - h : b[i] = s[i + h]
    BY <1>0
<1> HIDE DEF a, b
<1>3. /\ c \in Seq(S) /\ Len(c) = n + 1 - h /\ c[n + 1 - h] = s[n + 1]
      /\ \A i \in 1 .. n - h : c[i] = a[i]
    BY <1>0, <1>1
<1> HIDE DEF c
<1>4. \A i \in 1 .. n + 1 - h : b[i] = c[i]
    BY <1>0, <1>1, <1>2, <1>3
<1>5. b = c
    BY <1>2, <1>3, <1>4, SeqEqual
<1> QED
    BY <1>1, <1>5 DEF a, b, c

LEMMA NoSlice == ASSUME NEW S, NEW s \in Seq(S), NEW h \in Nat PROVE SubSeq(s, h + 1, h) = <<>>
OBVIOUS

(* What is in a sequence.                                                 *)
LEMMA RangeTyped == ASSUME NEW S, NEW s \in Seq(S) PROVE Range(s) \subseteq S
BY DEF Range

LEMMA AppendRange ==
  ASSUME NEW S, NEW s \in Seq(S), NEW x
  PROVE  Range(Append(s, x)) = Range(s) \cup {x}
<1>1. DOMAIN s = 1 .. Len(s) /\ DOMAIN Append(s, x) = 1 .. Len(s) + 1 /\ Len(s) \in Nat
    OBVIOUS
<1>2. Append(s, x)[Len(s) + 1] = x /\ \A i \in 1 .. Len(s) : Append(s, x)[i] = s[i]
    OBVIOUS
<1>3. \A i \in 1 .. Len(s) + 1 : i \in 1 .. Len(s) \/ i = Len(s) + 1
    BY <1>1
<1>4. Len(s) + 1 \in 1 .. Len(s) + 1 /\ \A i \in 1 .. Len(s) : i \in 1 .. Len(s) + 1
    BY <1>1
<1> QED
    BY <1>1, <1>2, <1>3, <1>4, Zenon DEF Range
=============================================================================
