------------------------------- MODULE RpcProofs ------------------------------
(***************************************************************************)
(* Proofs about what zctl rpc writes for a service: RpcNames, for names of *)
(* any length, RpcCode, for any service and any number of rpcs, and        *)
(* ProtoDoc, for any proto, request and depth of its messages.             *)
(*                                                                         *)
(* A conversion of a name writes a piece per letter and puts the pieces    *)
(* together.  What one conversion makes of another's result is computed by *)
(* a reader, which needs of what it has read only the last letter          *)
(* (SequenceFacts!PiecesRead): the dashes, and the snake names.            *)
(*                                                                         *)
(* A document is a search of the messages below the request, the fields of *)
(* the last message found first.  Its proof has two parts: what the lines  *)
(* so far make of messages and rules (LinesInv), and that every field has  *)
(* a row or is below a field that waits for its own (RowsKnown).           *)
(***************************************************************************)
EXTENDS RpcCode, ProtoDoc, SequenceFacts, FiniteSetTheorems

-----------------------------------------------------------------------------
(* The types of the names and of the code.                                 *)
LEMMA NamesInitTyped == NamesInit => NamesTypeOK
<1> SUFFICES ASSUME NamesInit PROVE NamesTypeOK
    OBVIOUS
<1>1. one = <<>> /\ other = <<>> /\ MaxLetters \in Nat
    BY NamesAssumption, Zenon DEF NamesInit
<1>2. one \in Seq(NameLetter) /\ other \in Seq(NameLetter) /\ Len(one) = 0 /\ Len(other) = 0
    BY <1>1
<1> QED
    BY <1>1, <1>2 DEF NamesTypeOK

LEMMA NamesStepTyped == NamesTypeOK /\ [NamesNext]_namesVars => NamesTypeOK'
<1> SUFFICES ASSUME NamesTypeOK, [NamesNext]_namesVars
             PROVE  NamesTypeOK'
    OBVIOUS
<1>1. one \in Seq(NameLetter) /\ other \in Seq(NameLetter) /\ MaxLetters \in Nat
    BY NamesAssumption, Zenon DEF NamesTypeOK
<1>2. CASE Spell
    <2>1. PICK c \in NameLetter : \/ one' = Append(one, c) /\ other' = other
                                  \/ other' = Append(other, c) /\ one' = one
        BY <1>2 DEF Spell
    <2>2. Len(one) + Len(other) < MaxLetters
        BY <1>2 DEF Spell
    <2>3. CASE one' = Append(one, c) /\ other' = other
        <3>1. one' \in Seq(NameLetter) /\ Len(one') = Len(one) + 1
            BY <1>1, <2>3
        <3> QED
            BY <1>1, <2>2, <2>3, <3>1 DEF NamesTypeOK
    <2>4. CASE other' = Append(other, c) /\ one' = one
        <3>1. other' \in Seq(NameLetter) /\ Len(other') = Len(other) + 1
            BY <1>1, <2>4
        <3> QED
            BY <1>1, <2>2, <2>4, <3>1 DEF NamesTypeOK
    <2> QED
        BY <2>1, <2>3, <2>4
<1>3. CASE UNCHANGED namesVars
    BY <1>3 DEF namesVars, NamesTypeOK
<1> QED
    BY <1>2, <1>3 DEF NamesNext

RpcTyped == RpcCodeTypeOK /\ rpcs \in Seq(Rpc)

LEMMA RpcInitTyped == RpcCodeInit => RpcTyped
<1> SUFFICES ASSUME RpcCodeInit PROVE RpcTyped
    OBVIOUS
<1>1. rpcs = <<>> /\ built = NotBuilt /\ MaxRpcs \in Nat
    BY RpcCodeAssumption DEF RpcCodeInit
<1>2. rpcs \in Seq(Rpc) /\ Range(rpcs) = {} /\ Len(rpcs) = 0
    BY <1>1 DEF Range
<1>3. {built.server, built.client, built.main} \subseteq BOOLEAN
    BY <1>1 DEF NotBuilt
<1> QED
    BY <1>1, <1>2, <1>3 DEF RpcTyped, RpcCodeTypeOK, RpcCodeInit

LEMMA RpcStepTyped == RpcTyped /\ [RpcCodeNext]_rpcCodeVars => RpcTyped'
<1> SUFFICES ASSUME RpcTyped, [RpcCodeNext]_rpcCodeVars
             PROVE  RpcTyped'
    OBVIOUS
<1>1. rpcs \in Seq(Rpc) /\ MaxRpcs \in Nat
    BY RpcCodeAssumption DEF RpcTyped
<1>2. CASE DeclareRpc
    <2>1. PICK r \in Rpc : rpcs' = Append(rpcs, r)
        BY <1>2 DEF DeclareRpc
    <2>2. Len(rpcs) < MaxRpcs /\ UNCHANGED <<service, message, multiple, built>>
        BY <1>2 DEF DeclareRpc
    <2>3. rpcs' \in Seq(Rpc) /\ Len(rpcs') = Len(rpcs) + 1
        BY <1>1, <2>1
    <2>4. Range(rpcs') \subseteq Rpc
        BY <2>3 DEF Range
    <2> QED
        BY <1>1, <2>2, <2>3, <2>4 DEF RpcTyped, RpcCodeTypeOK
<1>3. CASE GenerateCode
    <2>1. ServerCompiles \in BOOLEAN
        BY DEF ServerCompiles
    <2>2. ClientCompiles \in BOOLEAN
        BY DEF ClientCompiles
    <2>3. MainCompiles \in BOOLEAN
        BY DEF MainCompiles
    <2>4. /\ built'.server = ServerCompiles /\ built'.client = ClientCompiles /\ built'.main = MainCompiles
          /\ UNCHANGED <<service, message, multiple, rpcs>>
        BY <1>3 DEF GenerateCode
    <2>5. {built'.server, built'.client, built'.main} \subseteq BOOLEAN
        BY <2>1, <2>2, <2>3, <2>4
    <2> QED
        BY <2>4, <2>5 DEF RpcTyped, RpcCodeTypeOK
<1>4. CASE UNCHANGED rpcCodeVars
    BY <1>4 DEF rpcCodeVars, RpcTyped, RpcCodeTypeOK
<1> QED
    BY <1>2, <1>3, <1>4 DEF RpcCodeNext

-----------------------------------------------------------------------------
(* RpcNames: the letters, and what each conversion makes of a letter.      *)
Under == "_"
Dash == "-"
One == "1"
NoSign == ""
Small == {"a", "s"}
Capital == {"A", "S"}
Lows == Small \cup {One, Under}
Signs == Letters \cup {Dash}

LetterRules ==
  /\ Letters = Small \cup Capital \cup {One, Under} /\ Signs = Letters \cup {Dash}
  /\ \A c \in Small : Lowered(c) = c /\ Raised(c) \in Capital /\ c \notin Capital /\ c # One /\ c # Under
  /\ \A c \in Capital : Raised(c) = c /\ Lowered(c) \in Small /\ Raised(Lowered(c)) = c /\ c # One /\ c # Under
  /\ Raised(One) = One /\ Lowered(One) = One /\ One # Under
  /\ Raised(Under) = Under /\ Lowered(Under) = Under /\ Raised(Dash) = Dash
  /\ Dash \notin Letters /\ NoSign \notin Signs

LEMMA LettersAre == LetterRules
<1>1. \A c \in Small : Lowered(c) = c /\ Raised(c) \in Capital /\ c \notin Capital /\ c # One /\ c # Under
    BY Zenon DEF Small, Capital, Lowered, Raised, One, Under
<1>2. \A c \in Capital : Raised(c) = c /\ Lowered(c) \in Small /\ Raised(Lowered(c)) = c /\ c # One /\ c # Under
    BY Zenon DEF Small, Capital, Lowered, Raised, One, Under
<1>3. /\ Raised(One) = One /\ Lowered(One) = One /\ One # Under
      /\ Raised(Under) = Under /\ Lowered(Under) = Under /\ Raised(Dash) = Dash
    BY Zenon DEF Lowered, Raised, One, Under, Dash
<1>4. Dash \notin Letters /\ NoSign \notin Signs
    BY Zenon DEF Signs, Letters, Dash, NoSign
<1>5. Letters = Small \cup Capital \cup {One, Under} /\ Signs = Letters \cup {Dash}
    BY Zenon DEF Letters, Signs, Small, Capital, One, Under, Dash
<1> QED
    BY <1>1, <1>2, <1>3, <1>4, <1>5, Zenon DEF LetterRules

SignsOf(w) ==
  \A i : /\ IsLower(w, i) <=> i \in 1 .. Len(w) /\ w[i] \in Small
         /\ IsUpper(w, i) <=> i \in 1 .. Len(w) /\ w[i] \in Capital
         /\ IsDigit(w, i) <=> i \in 1 .. Len(w) /\ w[i] = One
         /\ IsUnder(w, i) <=> i \in 1 .. Len(w) /\ w[i] = Under

LEMMA SignsAre == ASSUME NEW S, NEW w \in Seq(S) PROVE SignsOf(w)
<1>1. DOMAIN w = 1 .. Len(w)
    BY LenProperties
<1> QED
    BY <1>1, Zenon DEF SignsOf, IsLower, IsUpper, IsDigit, IsUnder, Small, Capital, One, Under

SnakePieces(w) ==
  [i \in DOMAIN w |-> IF IsUnder(w, i) THEN <<>>
                      ELSE IF Cut(w, i) THEN <<Under, Lowered(w[i])>> ELSE <<Lowered(w[i])>>]
CamelPieces(w) ==
  [i \in DOMAIN w |-> IF IsUnder(w, i) /\ IsLower(w, i + 1) THEN <<>>
                      ELSE IF i = 1 \/ IsUnder(w, i - 1) \/ IsDigit(w, i - 1) THEN <<Raised(w[i])>>
                      ELSE <<w[i]>>]
IdentPieces(w) ==
  [i \in DOMAIN w |-> IF IsUnder(w, i) THEN <<>>
                      ELSE IF i = 1 \/ IsUnder(w, i - 1) \/ (IsUpper(w, i) /\ IsLower(w, i - 1))
                      THEN <<Raised(w[i])>> ELSE <<Lowered(w[i])>>]
PkgPieces(w) == [i \in DOMAIN w |-> IF IsUnder(w, i) THEN <<>> ELSE <<Lowered(w[i])>>]
Lettered(w) == {i \in DOMAIN w : ~IsUnder(w, i)}
DashedAt(w, i) == \/ IsUnder(w, i - 1) /\ \E j \in Lettered(w) : j < i
                  \/ IsUpper(w, i) /\ IsLower(w, i - 1)
DashPieces(w) ==
  [i \in DOMAIN w |-> IF i \notin Lettered(w) THEN <<>>
                      ELSE IF DashedAt(w, i) THEN <<Dash, Lowered(w[i])>> ELSE <<Lowered(w[i])>>]

LEMMA NamePieces ==
  ASSUME NEW w
  PROVE  /\ FileSnake(w) = FlattenSeq(SnakePieces(w))
         /\ CamelCase(w) = FlattenSeq(CamelPieces(w))
         /\ ServiceGoIdent(w) = FlattenSeq(IdentPieces(w))
         /\ ProtoPkg(w) = FlattenSeq(PkgPieces(w))
         /\ DashName(w) = FlattenSeq(DashPieces(w))
         /\ Undashed(w) = FlattenSeq([i \in DOMAIN w |-> IF w[i] = Dash THEN <<>> ELSE <<w[i]>>])
<1>1. FileSnake(w) = FlattenSeq(SnakePieces(w))
    BY Zenon DEF FileSnake, Spelled, SnakePieces, Under
<1>2. CamelCase(w) = FlattenSeq(CamelPieces(w))
    BY Zenon DEF CamelCase, Spelled, CamelPieces
<1>3. ServiceGoIdent(w) = FlattenSeq(IdentPieces(w))
    BY Zenon DEF ServiceGoIdent, Spelled, IdentPieces
<1>4. ProtoPkg(w) = FlattenSeq(PkgPieces(w))
    BY Zenon DEF ProtoPkg, Spelled, PkgPieces
<1>5. DashName(w) = FlattenSeq(DashPieces(w))
    BY Zenon DEF DashName, Spelled, DashPieces, DashedAt, Lettered, Dash
<1>6. Undashed(w) = FlattenSeq([i \in DOMAIN w |-> IF w[i] = Dash THEN <<>> ELSE <<w[i]>>])
    BY Zenon DEF Undashed, Spelled, Dash
<1> QED
    BY <1>1, <1>2, <1>3, <1>4, <1>5, <1>6, Zenon

LEMMA PiecesAreTyped ==
  ASSUME NEW w \in Seq(Letters)
  PROVE  /\ SnakePieces(w) \in Seq(Seq(Lows)) /\ Len(SnakePieces(w)) = Len(w)
         /\ CamelPieces(w) \in Seq(Seq(Letters)) /\ Len(CamelPieces(w)) = Len(w)
         /\ IdentPieces(w) \in Seq(Seq(Small \cup Capital \cup {One})) /\ Len(IdentPieces(w)) = Len(w)
         /\ PkgPieces(w) \in Seq(Seq(Lows)) /\ Len(PkgPieces(w)) = Len(w)
         /\ DashPieces(w) \in Seq(Seq(Signs)) /\ Len(DashPieces(w)) = Len(w)
<1>1. Len(w) \in Nat /\ DOMAIN w = 1 .. Len(w) /\ \A i \in 1 .. Len(w) : w[i] \in Letters
    BY LenProperties, ElementOfSeq
<1>2. SignsOf(w)
    BY SignsAre, Zenon
<1>3. \A i \in 1 .. Len(w) : /\ Raised(w[i]) \in Letters /\ Lowered(w[i]) \in Lows
                             /\ ~IsUnder(w, i) => /\ Raised(w[i]) \in Small \cup Capital \cup {One}
                                                  /\ Lowered(w[i]) \in Small \cup Capital \cup {One}
    BY <1>1, <1>2, LettersAre DEF LetterRules, SignsOf, Lows
<1>4. SnakePieces(w) \in [1 .. Len(w) -> Seq(Lows)]
    <2>1. Under \in Lows
        BY DEF Lows
    <2>2. \A i \in 1 .. Len(w) : Lowered(w[i]) \in Lows
        BY <1>3
    <2> QED
        BY <1>1, <2>1, <2>2 DEF SnakePieces
<1>5. CamelPieces(w) \in [1 .. Len(w) -> Seq(Letters)]
    BY <1>1, <1>3 DEF CamelPieces
<1>6. IdentPieces(w) \in [1 .. Len(w) -> Seq(Small \cup Capital \cup {One})]
    <2>1. ASSUME NEW i \in 1 .. Len(w) PROVE IdentPieces(w)[i] \in Seq(Small \cup Capital \cup {One})
        <3> DEFINE T == Small \cup Capital \cup {One}
        <3>1. ~IsUnder(w, i) => <<Raised(w[i])>> \in Seq(T) /\ <<Lowered(w[i])>> \in Seq(T)
            <4>1. ~IsUnder(w, i) => Raised(w[i]) \in T /\ Lowered(w[i]) \in T
                BY <1>3
            <4> HIDE DEF T
            <4> QED
                BY <4>1
        <3>2. \/ IsUnder(w, i) /\ IdentPieces(w)[i] = <<>>
              \/ ~IsUnder(w, i) /\ IdentPieces(w)[i] = <<Raised(w[i])>>
              \/ ~IsUnder(w, i) /\ IdentPieces(w)[i] = <<Lowered(w[i])>>
            BY <1>1, Zenon DEF IdentPieces
        <3>3. <<>> \in Seq(T)
            OBVIOUS
        <3> QED
            BY <3>1, <3>2, <3>3, Zenon
    <2>2. IdentPieces(w) = [i \in 1 .. Len(w) |-> IdentPieces(w)[i]]
        BY <1>1 DEF IdentPieces
    <2> QED
        BY <2>1, <2>2
<1>7. PkgPieces(w) \in [1 .. Len(w) -> Seq(Lows)]
    BY <1>1, <1>3 DEF PkgPieces
<1>8. DashPieces(w) \in [1 .. Len(w) -> Seq(Signs)]
    <2>1. \A i \in 1 .. Len(w) : Lowered(w[i]) \in Signs /\ Dash \in Signs
        BY <1>3, LettersAre DEF LetterRules, Lows
    <2> QED
        BY <1>1, <2>1 DEF DashPieces
<1>9. ASSUME NEW T, NEW f \in [1 .. Len(w) -> T] PROVE f \in Seq(T) /\ Len(f) = Len(w)
    BY <1>1
<1> QED
    BY <1>4, <1>5, <1>6, <1>7, <1>8, <1>9

(* Readers of a name that zctl has made: one leaves out a separator, one   *)
(* writes "_" in front of what stands behind one, one a capital there.     *)
Strip(sep) == [p \in Signs \cup {NoSign} |-> [c \in Signs |-> IF c = sep THEN <<>> ELSE <<c>>]]
Split ==
  [p \in Signs \cup {NoSign} |->
     [c \in Signs |-> IF c = Under THEN <<>> ELSE IF p = Under THEN <<Under, c>> ELSE <<c>>]]
Join ==
  [p \in Signs \cup {NoSign} |->
     [c \in Signs |-> IF c = Under THEN <<>> ELSE IF p \in {NoSign, Under} THEN <<Raised(c)>> ELSE <<c>>]]

LEMMA ReadersAre ==
  /\ \A sep : ReadsLetters(Strip(sep), Signs, NoSign)
  /\ ReadsLetters(Split, Signs, NoSign) /\ ReadsLetters(Join, Signs, NoSign)
<1>1. Under \in Signs /\ \A c \in Signs : Raised(c) \in Signs
    BY LettersAre DEF LetterRules
<1>2. \A sep : ReadsLetters(Strip(sep), Signs, NoSign)
    BY DEF ReadsLetters, Strip
<1>3. ReadsLetters(Split, Signs, NoSign)
    BY <1>1 DEF ReadsLetters, Split
<1>4. ReadsLetters(Join, Signs, NoSign)
    BY <1>1 DEF ReadsLetters, Join
<1> QED
    BY <1>2, <1>3, <1>4, Zenon

LEMMA WiderSeq == ASSUME NEW S, NEW T, S \subseteq T PROVE Seq(S) \subseteq Seq(T)
OBVIOUS

LEMMA LowsAreSigns == Lows \subseteq Signs /\ Letters \subseteq Signs /\ Dash \in Signs /\ Under \in Signs /\ NoSign \notin Signs
BY LettersAre DEF LetterRules, Lows

(* Letters of a name that are no "_" become small.                         *)
LEMMA Lowers ==
  ASSUME NEW w \in Seq(Letters), NEW i \in 1 .. Len(w), ~IsUnder(w, i)
  PROVE  Lowered(w[i]) \in Signs \ {Under} /\ Lowered(w[i]) \in Signs \ {Dash}
<1>1. w[i] \in Letters /\ w[i] # Under
    BY SignsAre, ElementOfSeq DEF SignsOf
<1> QED
    BY <1>1, LettersAre DEF LetterRules

SnakeTyped(w) ==
  /\ SnakePieces(w) \in Seq(Seq(Signs)) /\ Len(SnakePieces(w)) = Len(w)
  /\ \A k \in 1 .. Len(w) : PieceOf(SnakePieces(w)[k], Signs, Under)
  /\ FileSnake(w) \in Seq(Lows)

LEMMA SnakesAre == ASSUME NEW w \in Seq(Letters) PROVE SnakeTyped(w)
<1>1. SnakePieces(w) \in Seq(Seq(Lows)) /\ Len(SnakePieces(w)) = Len(w)
    BY PiecesAreTyped
<1>2. Seq(Seq(Lows)) \subseteq Seq(Seq(Signs))
    BY WiderSeq, LowsAreSigns, Zenon
<1>3. FileSnake(w) \in Seq(Lows)
    BY <1>1, NamePieces, FlattenSequence
<1>4. ASSUME NEW k \in 1 .. Len(w) PROVE PieceOf(SnakePieces(w)[k], Signs, Under)
    <2>1. DOMAIN w = 1 .. Len(w)
        BY LenProperties
    <2>2. \/ IsUnder(w, k) /\ SnakePieces(w)[k] = <<>>
          \/ ~IsUnder(w, k) /\ SnakePieces(w)[k] \in {<<Under, Lowered(w[k])>>, <<Lowered(w[k])>>}
        BY <2>1, Zenon DEF SnakePieces
    <2> QED
        BY <2>2, Lowers, Zenon DEF PieceOf
<1> QED
    BY <1>1, <1>2, <1>3, <1>4, Zenon DEF SnakeTyped

(* The proto package of a name is its file without "_".                    *)
LEMMA PkgOfSnake ==
  ASSUME NEW w \in Seq(Letters)
  PROVE  ProtoPkg(w) = ReadBy(Strip(Under), NoSign, FileSnake(w))
<1> DEFINE ss == SnakePieces(w)
           tt == PkgPieces(w)
           h == Strip(Under)
<1>1. SnakeTyped(w)
    BY SnakesAre
<1>2. tt \in Seq(Seq(Signs)) /\ Len(tt) = Len(w)
    <2>1. tt \in Seq(Seq(Lows)) /\ Len(tt) = Len(w)
        BY PiecesAreTyped
    <2>2. Seq(Seq(Lows)) \subseteq Seq(Seq(Signs))
        BY WiderSeq, LowsAreSigns, Zenon
    <2> QED
        BY <2>1, <2>2
<1>3. ss \in Seq(Seq(Signs)) /\ Len(ss) = Len(w) /\ \A k \in 1 .. Len(ss) : PieceOf(ss[k], Signs, Under)
    BY <1>1 DEF SnakeTyped
<1>4. \A k \in 0 .. Len(ss) : EndKept(ss, Signs, Under, NoSign, k)
    BY <1>3, PiecesEnd, LowsAreSigns, Zenon
<1>5. ASSUME NEW k \in 1 .. Len(ss) PROVE ReadAs(h, NoSign, Under, Made(ss, k - 1), Signs, ss[k], tt[k])
    <2> DEFINE g == Made(ss, k - 1)
               l == Lowered(w[k])
    <2>1. k - 1 \in 0 .. Len(ss) /\ k \in 1 .. Len(w) /\ DOMAIN w = 1 .. Len(w)
        BY <1>3
    <2>2. EndOf(g, NoSign) \in Signs \cup {NoSign}
        BY <1>4, <2>1 DEF EndKept
    <2>3. CASE IsUnder(w, k)
        BY <2>1, <2>3, Zenon DEF ReadAs, SnakePieces, PkgPieces
    <2>4. CASE ~IsUnder(w, k)
        <3>1. l \in Signs \ {Under} /\ l \in Signs
            BY <2>1, <2>4, Lowers
        <3>2. tt[k] = <<l>> /\ ss[k] \in {<<Under, l>>, <<l>>}
            BY <2>1, <2>4, Zenon DEF SnakePieces, PkgPieces
        <3>3. h[EndOf(g, NoSign)][l] = <<l>> /\ h[EndOf(g, NoSign)][Under] = <<>> /\ h[Under][l] = <<l>>
            BY <2>2, <3>1, LowsAreSigns DEF Strip
        <3>4. h[EndOf(g, NoSign)][Under] \o h[Under][l] = <<l>>
            BY <3>3
        <3> HIDE DEF l, h
        <3> QED
            BY <3>1, <3>2, <3>3, <3>4, Zenon DEF ReadAs
    <2> QED
        BY <2>3, <2>4
<1> HIDE DEF h
<1>6. ReadsLetters(h, Signs, NoSign)
    BY ReadersAre DEF h
<1>7. ReadBy(h, NoSign, FlattenSeq(ss)) = FlattenSeq(tt)
    <2>1. Len(tt) = Len(ss) /\ Under \in Signs
        BY <1>2, <1>3, LowsAreSigns, Zenon
    <2> HIDE DEF ss, tt
    <2>2. AllReadAs(h, NoSign, Under, Signs, ss, tt)
        BY <1>5, <2>1, Zenon DEF AllReadAs
    <2> QED
        BY <1>2, <1>3, <1>6, <2>1, <2>2, PiecesRead, Zenon
<1> QED
    BY <1>7, NamePieces, Zenon DEF h

(* What is snake case has no capitals, and is split where it was.          *)
LEMMA SnakeOfSnake ==
  ASSUME NEW w \in Seq(Letters)
  PROVE  FileSnake(FileSnake(w)) = FileSnake(w)
<1> DEFINE ss == SnakePieces(w)
           v == FileSnake(w)
<1>1. SnakeTyped(w)
    BY SnakesAre
<1>3. ss \in Seq(Seq(Signs)) /\ Len(ss) = Len(w) /\ \A k \in 1 .. Len(ss) : PieceOf(ss[k], Signs, Under)
    BY <1>1 DEF SnakeTyped
<1>4. \A k \in 0 .. Len(ss) : EndKept(ss, Signs, Under, NoSign, k)
    BY <1>3, PiecesEnd, LowsAreSigns, Zenon
<1>5. ASSUME NEW k \in 1 .. Len(ss) PROVE ReadAs(Split, NoSign, Under, Made(ss, k - 1), Signs, ss[k], ss[k])
    <2> DEFINE g == Made(ss, k - 1)
    <2>1. k - 1 \in 0 .. Len(ss)
        BY <1>3
    <2>2. EndOf(g, NoSign) \in Signs \cup {NoSign} /\ EndOf(g, NoSign) # Under
        BY <1>4, <2>1, LowsAreSigns DEF EndKept
    <2> HIDE DEF g
    <2>3. ASSUME NEW l \in Signs \ {Under}
          PROVE  /\ Split[EndOf(g, NoSign)][l] = <<l>> /\ Split[EndOf(g, NoSign)][Under] = <<>>
                 /\ Split[Under][l] = <<Under, l>>
        BY <2>2, LowsAreSigns DEF Split
    <2>4. ASSUME NEW l \in Signs \ {Under}
          PROVE  Split[EndOf(g, NoSign)][Under] \o Split[Under][l] = <<Under, l>>
        <3>1. Split[EndOf(g, NoSign)][Under] = <<>> /\ Split[Under][l] = <<Under, l>>
            BY <2>3
        <3>2. <<Under, l>> \in Seq(Signs)
            BY LowsAreSigns
        <3> QED
            BY <3>1, <3>2, ConcatEmptySeq, Zenon
    <2>5. PieceOf(ss[k], Signs, Under)
        BY <1>3
    <2> QED
        BY <2>3, <2>4, <2>5, Zenon DEF ReadAs, PieceOf, g
<1>6. ReadBy(Split, NoSign, v) = v
    <2>1. ReadsLetters(Split, Signs, NoSign) /\ Under \in Signs /\ Len(ss) = Len(ss)
        BY ReadersAre, LowsAreSigns, Zenon
    <2> HIDE DEF ss
    <2>2. AllReadAs(Split, NoSign, Under, Signs, ss, ss)
        BY <1>5, <2>1, Zenon DEF AllReadAs
    <2>3. ReadBy(Split, NoSign, FlattenSeq(ss)) = FlattenSeq(ss)
        BY <1>3, <2>1, <2>2, PiecesRead, Zenon
    <2> QED
        BY <2>3, NamePieces, Zenon DEF ss
<1>7. FileSnake(v) = ReadBy(Split, NoSign, v)
    <2>1. v \in Seq(Lows)
        BY <1>1 DEF SnakeTyped
    <2> HIDE DEF v
    <2>2. Len(v) \in Nat /\ DOMAIN v = 1 .. Len(v) /\ SignsOf(v)
        BY <2>1, SignsAre, LenProperties
    <2>3. ASSUME NEW i \in 1 .. Len(v)
          PROVE  SnakePieces(v)[i] = ReadPieces(Split, NoSign, v)[i]
        <3>1. v[i] \in Lows /\ v[i] \in Signs
            BY <2>1, ElementOfSeq, LowsAreSigns
        <3>2. Lowered(v[i]) = v[i] /\ ~IsUpper(v, i)
            BY <2>2, <3>1, LettersAre DEF LetterRules, Lows, SignsOf
        <3>3. Cut(v, i) <=> IsUnder(v, i - 1)
            BY <3>2, Zenon DEF Cut
        <3>4. Before(v, i, NoSign) \in Signs \cup {NoSign}
            <4>1. i # 1 => i - 1 \in 1 .. Len(v)
                BY <2>2
            <4>2. i # 1 => v[i - 1] \in Lows
                BY <2>1, <4>1, ElementOfSeq
            <4> QED
                BY <4>2, LowsAreSigns DEF Before
        <3>5. IsUnder(v, i - 1) <=> Before(v, i, NoSign) = Under
            <4>1. i # 1 <=> i - 1 \in 1 .. Len(v)
                BY <2>2
            <4> QED
                BY <2>2, <4>1, LowsAreSigns DEF Before, SignsOf
        <3>6. ReadPieces(Split, NoSign, v)[i] = Split[Before(v, i, NoSign)][v[i]]
            BY DEF ReadPieces
        <3>7. Split[Before(v, i, NoSign)][v[i]]
                = IF v[i] = Under THEN <<>> ELSE IF Before(v, i, NoSign) = Under THEN <<Under, v[i]>> ELSE <<v[i]>>
            BY <3>1, <3>4, Zenon DEF Split
        <3>8. SnakePieces(v)[i] = IF IsUnder(v, i) THEN <<>>
                                  ELSE IF Cut(v, i) THEN <<Under, Lowered(v[i])>> ELSE <<Lowered(v[i])>>
            BY <2>2, Zenon DEF SnakePieces
        <3>9. IsUnder(v, i) <=> v[i] = Under
            BY <2>2 DEF SignsOf
        <3> QED
            BY <3>2, <3>3, <3>5, <3>6, <3>7, <3>8, <3>9, Zenon
    <2>4. SnakePieces(v) = ReadPieces(Split, NoSign, v)
        <3>1. DOMAIN SnakePieces(v) = 1 .. Len(v) /\ DOMAIN ReadPieces(Split, NoSign, v) = 1 .. Len(v)
            BY <2>2 DEF SnakePieces, ReadPieces
        <3>2. /\ SnakePieces(v) = [i \in DOMAIN SnakePieces(v) |-> SnakePieces(v)[i]]
              /\ ReadPieces(Split, NoSign, v) = [i \in DOMAIN ReadPieces(Split, NoSign, v) |-> ReadPieces(Split, NoSign, v)[i]]
            BY DEF SnakePieces, ReadPieces
        <3> QED
            BY <2>3, <3>1, <3>2
    <2> QED
        BY <2>4, NamePieces, Zenon DEF ReadBy
<1> QED
    BY <1>6, <1>7, Zenon

(* The dashed name without dashes is the proto package.                    *)
LEMMA PkgOfDash ==
  ASSUME NEW w \in Seq(Letters)
  PROVE  Undashed(DashName(w)) = ProtoPkg(w)
<1> DEFINE ss == DashPieces(w)
           tt == PkgPieces(w)
           h == Strip(Dash)
<1>1. ss \in Seq(Seq(Signs)) /\ Len(ss) = Len(w)
    BY PiecesAreTyped
<1>2. tt \in Seq(Seq(Signs)) /\ Len(tt) = Len(w)
    <2>1. tt \in Seq(Seq(Lows)) /\ Len(tt) = Len(w)
        BY PiecesAreTyped
    <2>2. Seq(Seq(Lows)) \subseteq Seq(Seq(Signs))
        BY WiderSeq, LowsAreSigns, Zenon
    <2> QED
        BY <2>1, <2>2
<1>3. ASSUME NEW k \in 1 .. Len(ss)
      PROVE  \/ ss[k] = <<>> /\ tt[k] = <<>>
             \/ \E l \in Signs \ {Dash} : tt[k] = <<l>> /\ ss[k] \in {<<Dash, l>>, <<l>>}
    <2>1. k \in 1 .. Len(w) /\ DOMAIN w = 1 .. Len(w)
        BY <1>1
    <2>2. k \notin Lettered(w) <=> IsUnder(w, k)
        BY <2>1 DEF Lettered
    <2>3. CASE IsUnder(w, k)
        BY <2>1, <2>2, <2>3, Zenon DEF DashPieces, PkgPieces
    <2>4. CASE ~IsUnder(w, k)
        <3>1. Lowered(w[k]) \in Signs \ {Dash}
            BY <2>1, <2>4, Lowers
        <3>2. tt[k] = <<Lowered(w[k])>> /\ ss[k] \in {<<Dash, Lowered(w[k])>>, <<Lowered(w[k])>>}
            BY <2>1, <2>2, <2>4, Zenon DEF DashPieces, PkgPieces
        <3> QED
            BY <3>1, <3>2, Zenon
    <2> QED
        BY <2>3, <2>4
<1>4. \A k \in 1 .. Len(ss) : PieceOf(ss[k], Signs, Dash)
    BY <1>3, Zenon DEF PieceOf
<1>5. \A k \in 0 .. Len(ss) : EndKept(ss, Signs, Dash, NoSign, k)
    BY <1>1, <1>4, PiecesEnd, LowsAreSigns, Zenon
<1>6. ASSUME NEW k \in 1 .. Len(ss) PROVE ReadAs(h, NoSign, Dash, Made(ss, k - 1), Signs, ss[k], tt[k])
    <2> DEFINE g == Made(ss, k - 1)
    <2>1. k - 1 \in 0 .. Len(ss)
        BY <1>1
    <2>2. EndOf(g, NoSign) \in Signs \cup {NoSign}
        BY <1>5, <2>1 DEF EndKept
    <2> HIDE DEF g
    <2>3. ASSUME NEW l \in Signs \ {Dash}
          PROVE  h[EndOf(g, NoSign)][l] = <<l>> /\ h[EndOf(g, NoSign)][Dash] = <<>> /\ h[Dash][l] = <<l>>
        BY <2>2, LowsAreSigns DEF Strip
    <2>4. ASSUME NEW l \in Signs \ {Dash} PROVE h[EndOf(g, NoSign)][Dash] \o h[Dash][l] = <<l>>
        <3>1. h[EndOf(g, NoSign)][Dash] = <<>> /\ h[Dash][l] = <<l>>
            BY <2>3
        <3>2. <<l>> \in Seq(Signs)
            OBVIOUS
        <3> QED
            BY <3>1, <3>2, ConcatEmptySeq, Zenon
    <2> HIDE DEF h, ss, tt
    <2> QED
        BY <1>3, <2>3, <2>4, Zenon DEF ReadAs, g
<1>7. ReadBy(h, NoSign, FlattenSeq(ss)) = FlattenSeq(tt)
    <2>1. Len(tt) = Len(ss) /\ Dash \in Signs /\ ReadsLetters(h, Signs, NoSign)
        BY <1>1, <1>2, LowsAreSigns, ReadersAre, Zenon
    <2> HIDE DEF ss, tt, h
    <2>2. AllReadAs(h, NoSign, Dash, Signs, ss, tt)
        BY <1>6, <2>1, Zenon DEF AllReadAs
    <2> QED
        BY <1>1, <1>2, <2>1, <2>2, PiecesRead, Zenon
<1>8. ASSUME NEW v \in Seq(Signs)
      PROVE  Undashed(v) = ReadBy(h, NoSign, v)
    <2> DEFINE uu == [i \in DOMAIN v |-> IF v[i] = Dash THEN <<>> ELSE <<v[i]>>]
    <2>1. Len(v) \in Nat /\ DOMAIN v = 1 .. Len(v)
        BY LenProperties
    <2>2. ASSUME NEW i \in 1 .. Len(v) PROVE uu[i] = h[Before(v, i, NoSign)][v[i]]
        <3>1. v[i] \in Signs
            BY ElementOfSeq
        <3>2. Before(v, i, NoSign) \in Signs \cup {NoSign}
            <4>1. i # 1 => i - 1 \in 1 .. Len(v)
                BY <2>1
            <4>2. i # 1 => v[i - 1] \in Signs
                BY <4>1, ElementOfSeq
            <4> QED
                BY <4>2 DEF Before
        <3> QED
            BY <2>1, <3>1, <3>2, Zenon DEF Strip
    <2>3. uu = ReadPieces(h, NoSign, v)
        <3>1. uu = [i \in 1 .. Len(v) |-> uu[i]]
            BY <2>1
        <3> HIDE DEF uu, h
        <3> QED
            BY <2>2, <3>1, Zenon DEF ReadPieces
    <2> QED
        BY <2>3, NamePieces, Zenon DEF ReadBy
<1>9. DashName(w) = FlattenSeq(ss) /\ ProtoPkg(w) = FlattenSeq(tt) /\ FlattenSeq(ss) \in Seq(Signs)
    BY <1>1, NamePieces, FlattenSequence, Zenon
<1> QED
    BY <1>7, <1>8, <1>9, Zenon

(* What stands at a place of a name, and the letter there.                 *)
OneSign(w, k) ==
  /\ w[k] \in Letters /\ Raised(Lowered(w[k])) = Raised(w[k])
  /\ IsUpper(w, k) => w[k] \in Capital /\ Raised(w[k]) = w[k] /\ ~IsLower(w, k) /\ ~IsDigit(w, k) /\ ~IsUnder(w, k)
  /\ IsLower(w, k) => Lowered(w[k]) = w[k] /\ ~IsDigit(w, k) /\ ~IsUnder(w, k)
  /\ IsDigit(w, k) => w[k] = One /\ Lowered(w[k]) = One /\ Raised(w[k]) = One /\ ~IsUnder(w, k)
  /\ IsUnder(w, k) => w[k] = Under /\ Raised(w[k]) = Under
  /\ IsUpper(w, k) \/ IsLower(w, k) \/ IsDigit(w, k) \/ IsUnder(w, k)

LEMMA OneSigns == ASSUME NEW w \in Seq(Letters), NEW k \in 1 .. Len(w) PROVE OneSign(w, k)
<1>1. w[k] \in Letters /\ SignsOf(w)
    BY SignsAre, ElementOfSeq
<1> QED
    BY <1>1, LettersAre DEF LetterRules, SignsOf, OneSign

NoSignAt(w, k) == ~IsUpper(w, k) /\ ~IsLower(w, k) /\ ~IsDigit(w, k) /\ ~IsUnder(w, k)

LEMMA Outside == ASSUME NEW w \in Seq(Letters) PROVE NoSignAt(w, 0)
<1>1. SignsOf(w) /\ 0 \notin 1 .. Len(w)
    BY SignsAre
<1> QED
    BY <1>1, Zenon DEF NoSignAt, SignsOf

(* A plain name is split where protoc writes a capital.                    *)
LEMMA CamelOfSnake ==
  ASSUME NEW w \in Seq(Letters), Legal(w), PlainName(w)
  PROVE  CamelCase(w) = ReadBy(Join, NoSign, FileSnake(w))
<1> DEFINE ss == SnakePieces(w)
           tt == CamelPieces(w)
<1>1. SnakeTyped(w)
    BY SnakesAre
<1>2. tt \in Seq(Seq(Signs)) /\ Len(tt) = Len(w)
    <2>1. tt \in Seq(Seq(Letters)) /\ Len(tt) = Len(w)
        BY PiecesAreTyped
    <2>2. Seq(Seq(Letters)) \subseteq Seq(Seq(Signs))
        BY WiderSeq, LowsAreSigns, Zenon
    <2> QED
        BY <2>1, <2>2
<1>3. ss \in Seq(Seq(Signs)) /\ Len(ss) = Len(w) /\ \A k \in 1 .. Len(ss) : PieceOf(ss[k], Signs, Under)
    BY <1>1 DEF SnakeTyped
<1>4. \A k \in 0 .. Len(ss) : EndKept(ss, Signs, Under, NoSign, k)
    BY <1>3, PiecesEnd, LowsAreSigns, Zenon
<1>5. Len(w) \in Nat /\ DOMAIN w = 1 .. Len(w) /\ NoSignAt(w, 0)
    BY LenProperties, Outside
<1>6. 1 \in 1 .. Len(w) /\ ~IsUnder(w, 1)
    <2>1. 1 \in DOMAIN w
        BY Zenon DEF Legal, IsLower, IsUpper
    <2> QED
        BY <1>5, <2>1, OneSigns DEF Legal, OneSign
<1>7. ss[1] = <<Lowered(w[1])>> /\ ss[1] # <<>>
    <2>1. ~Cut(w, 1)
        BY <1>5 DEF Cut, NoSignAt
    <2> QED
        BY <1>5, <1>6, <2>1 DEF SnakePieces
<1>8. ASSUME NEW k \in 1 .. Len(ss) PROVE ReadAs(Join, NoSign, Under, Made(ss, k - 1), Signs, ss[k], tt[k])
    <2> DEFINE g == Made(ss, k - 1)
               l == Lowered(w[k])
    <2>1. k - 1 \in 0 .. Len(ss) /\ k \in 1 .. Len(w)
        BY <1>3
    <2>2. OneSign(w, k) /\ (k # 1 => OneSign(w, k - 1))
        <3>1. k # 1 => k - 1 \in 1 .. Len(w)
            BY <1>3
        <3> QED
            BY <2>1, <3>1, OneSigns
    <2>3. EndOf(g, NoSign) \in Signs \ {Under} \/ (k = 1 /\ EndOf(g, NoSign) = NoSign)
        <3>1. CASE k = 1
            <4>1. g = <<>>
                BY <3>1 DEF Made
            <4> QED
                BY <3>1, <4>1 DEF EndOf
        <3>2. CASE k # 1
            <4>1. k - 1 > 0
                BY <1>3, <3>2
            <4> QED
                BY <1>4, <1>7, <2>1, <4>1, Zenon DEF EndKept
        <3> QED
            BY <3>1, <3>2
    <2>4. CASE IsUnder(w, k)
        <3>1. IsLower(w, k + 1)
            BY <1>5, <2>1, <2>4, Zenon DEF PlainName
        <3> QED
            BY <1>5, <2>1, <2>4, <3>1, Zenon DEF ReadAs, SnakePieces, CamelPieces
    <2>5. CASE ~IsUnder(w, k)
        <3>1. l \in Signs \ {Under} /\ l \in Signs
            BY <2>1, <2>5, Lowers
        <3>2. /\ EndOf(g, NoSign) \in Signs \cup {NoSign} /\ EndOf(g, NoSign) # Under
              /\ (k # 1 => EndOf(g, NoSign) # NoSign) /\ (k = 1 => EndOf(g, NoSign) = NoSign)
            <4>1. k = 1 => EndOf(g, NoSign) = NoSign
                BY DEF EndOf, Made
            <4> QED
                BY <2>3, <4>1, LowsAreSigns
        <3>3. /\ Join[EndOf(g, NoSign)][Under] = <<>> /\ Join[Under][l] = <<Raised(l)>>
              /\ Join[EndOf(g, NoSign)][l] = IF k = 1 THEN <<Raised(l)>> ELSE <<l>>
            BY <3>1, <3>2, LowsAreSigns DEF Join
        <3>4. Join[EndOf(g, NoSign)][Under] \o Join[Under][l] = <<Raised(l)>>
            <4>1. Raised(l) \in Signs
                BY <3>1, LettersAre DEF LetterRules
            <4>2. <<Raised(l)>> \in Seq(Signs)
                BY <4>1
            <4> QED
                BY <3>3, <4>2, ConcatEmptySeq, Zenon
        <3>5. /\ ss[k] = IF Cut(w, k) THEN <<Under, l>> ELSE <<l>>
              /\ tt[k] = IF k = 1 \/ IsUnder(w, k - 1) \/ IsDigit(w, k - 1) THEN <<Raised(w[k])>> ELSE <<w[k]>>
            BY <1>5, <2>1, <2>5, Zenon DEF SnakePieces, CamelPieces
        <3>6. Raised(l) = Raised(w[k])
            BY <2>2 DEF OneSign
        <3>7. CASE k = 1
            <4>1. ss[k] = <<l>> /\ tt[k] = <<Raised(l)>>
                BY <1>7, <3>5, <3>6, <3>7
            <4> QED
                BY <3>1, <3>3, <3>7, <4>1, Zenon DEF ReadAs
        <3>8. CASE k # 1
            <4>0. /\ IsUpper(w, k - 1) => ~IsUpper(w, k)
                  /\ IsDigit(w, k - 1) => ~IsUpper(w, k) /\ ~IsLower(w, k)
                <5>1. k - 1 \in DOMAIN w /\ k - 1 + 1 = k
                    BY <1>3, <1>5, <3>8
                <5> QED
                    BY <5>1 DEF PlainName
            <4>1. CASE IsUnder(w, k - 1)
                <5>1. ss[k] = <<Under, l>> /\ tt[k] = <<Raised(l)>>
                    BY <3>5, <3>6, <4>1 DEF Cut
                <5> QED
                    BY <3>1, <3>4, <5>1, Zenon DEF ReadAs
            <4>2. CASE ~IsUnder(w, k - 1) /\ IsDigit(w, k - 1)
                <5>1. IsDigit(w, k) /\ w[k] = One /\ l = One /\ Raised(w[k]) = One
                    BY <2>2, <2>5, <4>0, <4>2 DEF OneSign
                <5>2. ss[k] = <<l>> /\ tt[k] = <<l>>
                    BY <3>5, <4>0, <4>2, <5>1 DEF Cut
                <5> QED
                    BY <3>1, <3>3, <3>8, <5>2, Zenon DEF ReadAs
            <4>3. CASE ~IsUnder(w, k - 1) /\ ~IsDigit(w, k - 1) /\ IsUpper(w, k)
                <5>1. IsLower(w, k - 1) /\ Raised(w[k]) = w[k]
                    BY <2>2, <3>8, <4>0, <4>3 DEF OneSign
                <5>2. ss[k] = <<Under, l>> /\ tt[k] = <<Raised(l)>>
                    BY <3>5, <3>6, <3>8, <4>3, <5>1 DEF Cut
                <5> QED
                    BY <3>1, <3>4, <5>2, Zenon DEF ReadAs
            <4>4. CASE ~IsUnder(w, k - 1) /\ ~IsDigit(w, k - 1) /\ ~IsUpper(w, k)
                <5>1. w[k] = l
                    BY <2>2, <2>5, <4>4 DEF OneSign
                <5>2. ss[k] = <<l>> /\ tt[k] = <<l>>
                    BY <3>5, <3>8, <4>4, <5>1 DEF Cut
                <5> QED
                    BY <3>1, <3>3, <3>8, <5>2, Zenon DEF ReadAs
            <4> QED
                BY <4>1, <4>2, <4>3, <4>4
        <3> QED
            BY <3>7, <3>8
    <2> QED
        BY <2>4, <2>5
<1>9. ReadBy(Join, NoSign, FlattenSeq(ss)) = FlattenSeq(tt)
    <2>1. Len(tt) = Len(ss) /\ Under \in Signs /\ ReadsLetters(Join, Signs, NoSign)
        BY <1>2, <1>3, LowsAreSigns, ReadersAre, Zenon
    <2> HIDE DEF ss, tt
    <2>2. AllReadAs(Join, NoSign, Under, Signs, ss, tt)
        BY <1>8, <2>1, Zenon DEF AllReadAs
    <2> QED
        BY <1>2, <1>3, <2>1, <2>2, PiecesRead, Zenon
<1> QED
    BY <1>9, NamePieces, Zenon

(* What the two make of the k-th letter.                                   *)
Idented(w, k) ==
  IF IsUnder(w, k) THEN <<>>
  ELSE IF k = 1 \/ IsUnder(w, k - 1) \/ (IsUpper(w, k) /\ IsLower(w, k - 1)) THEN <<Raised(w[k])>> ELSE <<Lowered(w[k])>>
Cameled(w, k) ==
  IF IsUnder(w, k) /\ IsLower(w, k + 1) THEN <<>>
  ELSE IF k = 1 \/ IsUnder(w, k - 1) \/ IsDigit(w, k - 1) THEN <<Raised(w[k])>> ELSE <<w[k]>>

LEMMA IdentOfPlain ==
  ASSUME NEW w \in Seq(Letters), PlainName(w)
  PROVE  ServiceGoIdent(w) = CamelCase(w)
<1>1. Len(w) \in Nat /\ DOMAIN w = 1 .. Len(w)
    BY LenProperties
<1>2. ASSUME NEW k \in 1 .. Len(w) PROVE Idented(w, k) = Cameled(w, k)
    <2>1. OneSign(w, k) /\ (k # 1 => OneSign(w, k - 1))
        <3>1. k # 1 => k - 1 \in 1 .. Len(w)
            BY <1>1
        <3> QED
            BY <3>1, OneSigns
    <2>2. /\ IsUnder(w, k) => IsLower(w, k + 1)
          /\ k # 1 => /\ IsUpper(w, k - 1) => ~IsUpper(w, k)
                      /\ IsDigit(w, k - 1) => ~IsUpper(w, k) /\ ~IsLower(w, k)
        <3>1. IsUnder(w, k) => IsLower(w, k + 1)
            BY <1>1 DEF PlainName
        <3>2. k # 1 => k - 1 \in DOMAIN w /\ k - 1 + 1 = k
            BY <1>1
        <3> QED
            BY <3>1, <3>2 DEF PlainName
    <2>3. CASE IsUnder(w, k)
        BY <2>2, <2>3 DEF Idented, Cameled
    <2>4. CASE ~IsUnder(w, k) /\ (k = 1 \/ IsUnder(w, k - 1))
        BY <2>4 DEF Idented, Cameled
    <2>5. CASE ~IsUnder(w, k) /\ k # 1 /\ ~IsUnder(w, k - 1) /\ IsUpper(w, k)
        <3>1. IsLower(w, k - 1) /\ ~IsDigit(w, k - 1)
            BY <2>1, <2>2, <2>5 DEF OneSign
        <3> QED
            BY <2>1, <2>5, <3>1 DEF Idented, Cameled, OneSign
    <2>6. CASE ~IsUnder(w, k) /\ k # 1 /\ ~IsUnder(w, k - 1) /\ ~IsUpper(w, k)
        <3>1. Lowered(w[k]) = w[k]
            BY <2>1, <2>6 DEF OneSign
        <3>2. IsDigit(w, k - 1) => Raised(w[k]) = w[k]
            BY <2>1, <2>2, <2>6 DEF OneSign
        <3> QED
            BY <2>6, <3>1, <3>2 DEF Idented, Cameled
    <2> QED
        BY <2>3, <2>4, <2>5, <2>6
<1>3. IdentPieces(w) = CamelPieces(w)
    BY <1>1, <1>2, Zenon DEF IdentPieces, CamelPieces, Idented, Cameled
<1> QED
    BY <1>3, NamePieces, Zenon

LEMMA OnesAlike == ASSUME NEW x, NEW y, <<x>> = <<y>> PROVE x = y
<1>1. <<x>>[1] = x /\ <<y>>[1] = y
    OBVIOUS
<1> QED
    BY <1>1

LEMMA PlainOfIdent ==
  ASSUME NEW w \in Seq(Letters), Legal(w), ServiceGoIdent(w) = CamelCase(w)
  PROVE  PlainName(w)
<1> DEFINE T == Small \cup Capital \cup {One}
           ss == IdentPieces(w)
           tt == CamelPieces(w)
<1>1. Len(w) \in Nat /\ DOMAIN w = 1 .. Len(w)
    BY LenProperties
<1>2. ss \in Seq(Seq(T)) /\ Len(ss) = Len(w) /\ tt \in Seq(Seq(Letters)) /\ Len(tt) = Len(w)
    BY PiecesAreTyped
<1>3. T \subseteq Letters /\ Under \notin T
    BY LettersAre DEF LetterRules
<1>4. \A k \in 1 .. Len(w) : ss[k] = Idented(w, k) /\ tt[k] = Cameled(w, k)
    BY <1>1, Zenon DEF IdentPieces, CamelPieces, Idented, Cameled
<1>5. FlattenSeq(ss) = FlattenSeq(tt)
    BY NamePieces, Zenon
<1> HIDE DEF ss, tt, T
<1>6. Under \notin Range(FlattenSeq(tt))
    <2>1. FlattenSeq(ss) \in Seq(T)
        BY <1>2, FlattenSequence
    <2> QED
        BY <1>3, <1>5, <2>1 DEF Range
<1>7. ASSUME NEW k \in 1 .. Len(w), IsUnder(w, k) PROVE IsLower(w, k + 1)
    <2>1. SUFFICES ASSUME ~IsLower(w, k + 1) PROVE FALSE
        OBVIOUS
    <2>2. w[k] = Under /\ Raised(w[k]) = Under
        BY <1>7, OneSigns DEF OneSign
    <2>3. tt[k] = <<Under>>
        BY <1>4, <2>1, <2>2 DEF Cameled
    <2>4. Under \in Range(tt[k])
        BY <2>3 DEF Range
    <2>5. Range(FlattenSeq(tt)) = UNION {Range(tt[i]) : i \in 1 .. Len(tt)}
        BY <1>2, FlattenRange
    <2> QED
        BY <1>2, <1>6, <2>4, <2>5
<1>8. \A k \in 1 .. Len(w) : Idented(w, k) = Cameled(w, k)
    <2>1. ASSUME NEW k \in 1 .. Len(w) PROVE Len(Idented(w, k)) = Len(Cameled(w, k))
        <3>1. CASE IsUnder(w, k)
            BY <1>7, <3>1 DEF Idented, Cameled
        <3>2. CASE ~IsUnder(w, k)
            BY <3>2 DEF Idented, Cameled
        <3> QED
            BY <3>1, <3>2
    <2>2. Seq(Seq(T)) \subseteq Seq(Seq(Letters))
        BY <1>3, WiderSeq, Zenon
    <2>3. ss \in Seq(Seq(Letters)) /\ Len(ss) = Len(tt) /\ \A k \in 1 .. Len(ss) : Len(ss[k]) = Len(tt[k])
        BY <1>2, <1>4, <2>1, <2>2
    <2>4. \A k \in 1 .. Len(ss) : ss[k] = tt[k]
        BY <1>2, <1>5, <2>3, FlattenApart
    <2> QED
        BY <1>2, <1>4, <2>4
<1>9. ASSUME NEW k \in 1 .. Len(w), k + 1 \in 1 .. Len(w)
      PROVE  /\ IsUpper(w, k) => ~IsUpper(w, k + 1)
             /\ IsDigit(w, k) => ~IsUpper(w, k + 1) /\ ~IsLower(w, k + 1)
    <2> DEFINE n == k + 1
    <2>1. OneSign(w, n) /\ OneSign(w, k) /\ n - 1 = k /\ n # 1
        BY <1>9, OneSigns
    <2>2. Idented(w, n) = Cameled(w, n)
        BY <1>8, <1>9
    <2> HIDE DEF n
    <2>3. CASE IsUpper(w, k) /\ IsUpper(w, n)
        <3>1. Idented(w, n) = <<Lowered(w[n])>> /\ Cameled(w, n) = <<w[n]>>
            BY <2>1, <2>3 DEF Idented, Cameled, OneSign
        <3>2. Lowered(w[n]) # w[n]
            BY <2>1, <2>3, LettersAre DEF OneSign, LetterRules
        <3> QED
            BY <2>2, <3>1, <3>2, OnesAlike, Zenon
    <2>4. CASE IsDigit(w, k) /\ (IsUpper(w, n) \/ IsLower(w, n))
        <3>1. ~IsUnder(w, n) /\ ~IsUnder(w, k) /\ ~IsLower(w, k)
            BY <2>1, <2>4 DEF OneSign
        <3>2. Idented(w, n) = <<Lowered(w[n])>> /\ Cameled(w, n) = <<Raised(w[n])>>
            BY <2>1, <2>4, <3>1 DEF Idented, Cameled
        <3>3. w[n] \in Letters /\ SignsOf(w)
            BY <2>1, SignsAre DEF OneSign
        <3>4. w[n] \in Capital \/ w[n] \in Small
            BY <2>4, <3>3 DEF SignsOf
        <3>5. Lowered(w[n]) # Raised(w[n])
            BY <3>4, LettersAre DEF LetterRules
        <3> QED
            BY <2>2, <3>2, <3>5, OnesAlike, Zenon
    <2> QED
        BY <2>3, <2>4 DEF n
<1> SUFFICES ASSUME NEW k \in DOMAIN w
             PROVE  /\ IsUpper(w, k) => ~IsUpper(w, k + 1)
                    /\ IsDigit(w, k) => ~IsUpper(w, k + 1) /\ ~IsLower(w, k + 1)
                    /\ IsUnder(w, k) => IsLower(w, k + 1)
    BY Zenon DEF PlainName
<1>10. CASE k + 1 \in 1 .. Len(w)
    BY <1>1, <1>7, <1>9, <1>10
<1>11. CASE k + 1 \notin 1 .. Len(w)
    <2>1. ~IsUpper(w, k + 1) /\ ~IsLower(w, k + 1)
        BY <1>1, <1>11 DEF IsUpper, IsLower
    <2> QED
        BY <1>1, <1>7, <2>1
<1> QED
    BY <1>10, <1>11

LEMMA NamesAre == ASSUME NamesTypeOK PROVE NamesKnown
<1>1. one \in Seq(Letters) /\ other \in Seq(Letters)
    <2>1. NameLetter \subseteq Letters /\ one \in Seq(NameLetter) /\ other \in Seq(NameLetter)
        BY NamesAssumption, Zenon DEF NamesTypeOK
    <2> QED
        BY <2>1, WiderSeq
<1>2. Legal(one) => (ServiceGoIdent(one) = CamelCase(one) <=> PlainName(one))
    BY <1>1, IdentOfPlain, PlainOfIdent, Zenon
<1>3. FileSnake(one) = FileSnake(other) => ProtoPkg(one) = ProtoPkg(other)
    BY <1>1, PkgOfSnake, Zenon
<1>4. ASSUME Legal(one), Legal(other), FileSnake(one) = FileSnake(other), PlainName(one), PlainName(other)
      PROVE  CamelCase(one) = CamelCase(other)
    BY <1>1, <1>4, CamelOfSnake, Zenon
<1>5. FileSnake(FileSnake(one)) = FileSnake(one) /\ Undashed(DashName(one)) = ProtoPkg(one)
    BY <1>1, SnakeOfSnake, PkgOfDash, Zenon
<1> QED
    BY <1>2, <1>3, <1>4, <1>5, Zenon DEF NamesKnown

(* Of all names, of any length: what ServiceGoIdent makes of a service is  *)
(* what protoc calls it exactly when the name is plain; plain names that   *)
(* protoc tells apart never share a file (FileSnake); two names that do    *)
(* differ in case and "_" only; a snake name stays as it is; and a dashed  *)
(* name is the proto package with dashes.                                  *)
THEOREM NamesAlwaysKnown == NamesInit /\ [][NamesNext]_namesVars => []NamesKnown
<1>1. NamesInit => NamesTypeOK
    BY NamesInitTyped
<1>2. NamesTypeOK /\ [NamesNext]_namesVars => NamesTypeOK'
    BY NamesStepTyped
<1>3. NamesTypeOK => NamesKnown
    BY NamesAre
<1> QED
    BY <1>1, <1>2, <1>3, PTL

-----------------------------------------------------------------------------
(* RpcCode: what the generated files are made of.                          *)
CodeNow ==
  [logic |-> [i \in DOMAIN rpcs |-> First(i) => LogicCompiles(rpcs[i])],
   server |-> ServerCompiles, client |-> ClientCompiles, main |-> MainCompiles]

CodeInv ==
  /\ rpcs \in Seq(Rpc) /\ service \in ServiceName /\ message \in ServiceName /\ multiple \in BOOLEAN
  /\ \A i, j \in DOMAIN rpcs : i # j => CamelCase(rpcs[i].name) # CamelCase(rpcs[j].name)
  /\ \/ built = NotBuilt
     \/ built = CodeNow

LEMMA CodeInitially == RpcCodeInit => CodeInv
BY DEF RpcCodeInit, CodeInv

CodeSame == UNCHANGED <<service, message, multiple, rpcs>>
LEMMA CodeOfSame == ASSUME CodeSame PROVE CodeNow' = CodeNow
<1>1. service' = service /\ message' = message /\ multiple' = multiple /\ rpcs' = rpcs
    BY DEF CodeSame
<1>2. \A i : First(i)' <=> First(i)
    BY <1>1 DEF First, LogicFile, LogicPlace, Lenders
<1>3. MainCompiles' = MainCompiles
    BY <1>1 DEF MainCompiles, SameIdent
<1>4. ServerCompiles' = ServerCompiles
    BY <1>1 DEF ServerCompiles, SameIdent, Ambiguous, Places, Alias, Extra, ExtraUsed, HasLogic, Kept,
                LogicFile, First, LogicPlace, Lenders, Borrows
<1>5. ClientCompiles' = ClientCompiles
    BY <1>1 DEF ClientCompiles, SameIdent, Extra, ExtraUsed, ClientName, MessageAlias, AllTypes
<1>6. [i \in DOMAIN rpcs' |-> First(i)' => LogicCompiles(rpcs'[i])] = [i \in DOMAIN rpcs |-> First(i) => LogicCompiles(rpcs[i])]
    BY <1>1, <1>2
<1>7. CodeNow' = [logic |-> [i \in DOMAIN rpcs' |-> First(i)' => LogicCompiles(rpcs'[i])],
                  server |-> ServerCompiles', client |-> ClientCompiles', main |-> MainCompiles']
    BY Zenon DEF CodeNow, LogicCompiles, LogicImports, LogicUses, Mentioned, Unary, ImportPath, PackageOf
<1> QED
    BY <1>3, <1>4, <1>5, <1>6, <1>7, Zenon DEF CodeNow

LEMMA CodeKept == CodeInv /\ [RpcCodeNext]_rpcCodeVars => CodeInv'
<1> SUFFICES ASSUME CodeInv, [RpcCodeNext]_rpcCodeVars PROVE CodeInv'
    OBVIOUS
<1>1. CASE DeclareRpc
    <2>1. PICK r \in Rpc : /\ \A i \in DOMAIN rpcs : CamelCase(rpcs[i].name) # CamelCase(r.name)
                           /\ rpcs' = Append(rpcs, r)
        BY <1>1 DEF DeclareRpc
    <2>2. rpcs \in Seq(Rpc) /\ built' = NotBuilt /\ UNCHANGED <<service, message, multiple>>
        BY <1>1 DEF DeclareRpc, CodeInv
    <2>3. /\ rpcs' \in Seq(Rpc) /\ DOMAIN rpcs = 1 .. Len(rpcs) /\ DOMAIN rpcs' = 1 .. Len(rpcs) + 1 /\ Len(rpcs) \in Nat
          /\ \A i \in DOMAIN rpcs : rpcs'[i] = rpcs[i]
          /\ rpcs'[Len(rpcs) + 1] = r
        BY <2>1, <2>2
    <2>4. \A i, j \in DOMAIN rpcs' : i # j => CamelCase(rpcs'[i].name) # CamelCase(rpcs'[j].name)
        <3> TAKE i, j \in DOMAIN rpcs'
        <3> HAVE i # j
        <3>1. CASE i \in DOMAIN rpcs /\ j \in DOMAIN rpcs
            BY <2>3, <3>1 DEF CodeInv
        <3>2. CASE i \in DOMAIN rpcs /\ j = Len(rpcs) + 1
            BY <2>1, <2>3, <3>2
        <3>3. CASE j \in DOMAIN rpcs /\ i = Len(rpcs) + 1
            BY <2>1, <2>3, <3>3
        <3> QED
            BY <2>3, <3>1, <3>2, <3>3
    <2>5. (\A i, j \in DOMAIN rpcs : i # j => CamelCase(rpcs[i].name) # CamelCase(rpcs[j].name))'
        BY <2>4, Zenon DEF CamelCase, Spelled, IsUnder, IsLower, IsDigit, Raised
    <2> QED
        BY <2>2, <2>3, <2>5 DEF CodeInv
<1>2. CASE GenerateCode
    <2>1. CodeSame
        BY <1>2 DEF GenerateCode, CodeSame
    <2>2. built' = CodeNow /\ CodeNow' = CodeNow
        BY <1>2, <2>1, CodeOfSame DEF GenerateCode, CodeNow
    <2>3. rpcs' = rpcs /\ service' = service /\ message' = message /\ multiple' = multiple
        BY <2>1 DEF CodeSame
    <2> QED
        BY <2>2, <2>3 DEF CodeInv
<1>3. CASE UNCHANGED rpcCodeVars
    <2>1. CodeSame /\ built' = built /\ rpcs' = rpcs /\ service' = service /\ message' = message /\ multiple' = multiple
        BY <1>3 DEF rpcCodeVars, CodeSame
    <2>2. CodeNow' = CodeNow
        BY <2>1, CodeOfSame
    <2> QED
        BY <2>1, <2>2 DEF CodeInv
<1> QED
    BY <1>1, <1>2, <1>3 DEF RpcCodeNext

LEMMA RpcsTyped ==
  ASSUME NEW r \in Rpc
  PROVE  r.req \in TypeRef /\ r.resp \in TypeRef /\ r.sends \in BOOLEAN /\ r.receives \in BOOLEAN
BY RpcCodeAssumption, Zenon

(* The logic file of an rpc.                                               *)
LEMMA LogicFits ==
  ASSUME NEW r \in Rpc, ~Wrong(r)
  PROVE  LogicCompiles(r) <=> ~(r.receives /\ ~r.sends /\ r.req \in {"foreign", "empty"})
<1>1. r.req \in TypeRef /\ r.resp \in TypeRef /\ r.sends \in BOOLEAN /\ r.receives \in BOOLEAN
    BY RpcsTyped
<1>2. /\ ~r.sends => r.req \notin {"unknown", "dotted"}
      /\ Unary(r) => r.resp \notin {"unknown", "dotted"}
    BY DEF Wrong, Mentioned, Spelt
<1>3. "dotted" \notin Mentioned(r) /\ (Unary(r) => r.resp # "unknown")
    BY <1>2 DEF Mentioned, Unary
<1>4. CASE Unary(r)
    <2>1. Mentioned(r) = {r.req, r.resp} /\ ~r.sends /\ ~r.receives
        BY <1>4 DEF Mentioned, Unary
    <2>2. LogicUses(r) = PackageOf(r.req) \cup PackageOf(r.resp)
        BY <1>4, <2>1 DEF LogicUses
    <2>3. ASSUME NEW t, t \notin {"unknown", "dotted"}
          PROVE  PackageOf(t) = ImportPath(t) \cup (IF ImportPath(t) = {} THEN {"pb"} ELSE {})
        BY <2>3 DEF PackageOf
    <2>4. LogicImports(r) = LogicUses(r)
        BY <1>2, <1>4, <2>1, <2>2, <2>3 DEF LogicImports
    <2> QED
        BY <1>3, <2>1, <2>4 DEF LogicCompiles
<1>5. CASE ~Unary(r) /\ r.sends
    <2>1. Mentioned(r) = {}
        BY <1>5 DEF Mentioned
    <2>2. LogicUses(r) = {"pb"} /\ LogicImports(r) = {"pb"}
        BY <1>5, <2>1 DEF LogicUses, LogicImports
    <2> QED
        BY <1>3, <1>5, <2>2 DEF LogicCompiles
<1>6. CASE ~Unary(r) /\ ~r.sends
    <2>1. Mentioned(r) = {r.req} /\ r.receives
        BY <1>1, <1>6 DEF Mentioned, Unary
    <2>2. LogicUses(r) = PackageOf(r.req) \cup {"pb"} /\ LogicImports(r) = {"pb"}
        BY <1>6, <2>1 DEF LogicUses, LogicImports
    <2>3. PackageOf(r.req) \subseteq {"pb"} <=> r.req \notin {"foreign", "empty"}
        BY <1>2, <1>6 DEF PackageOf, ImportPath
    <2> QED
        BY <1>3, <1>6, <2>1, <2>2, <2>3 DEF LogicCompiles
<1> QED
    BY <1>4, <1>5, <1>6

(* One name for two packages.                                              *)
ServerTakes == {"svc", "pb"} \cup Extra \cup (IF \E i \in DOMAIN rpcs : Unary(rpcs[i]) THEN {"context"} ELSE {})

SomeUnary == \E i \in DOMAIN rpcs : Unary(rpcs[i])
LEMMA ServerTakesAre ==
  \A m : m \in ServerTakes <=>
    m \in {"svc", "pb"} \/ m \in Extra \/ (m = "context" /\ SomeUnary)
BY DEF ServerTakes, SomeUnary

PlaceRules ==
  /\ \A p \in Places : p = Nowhere \/ (p.group # NoSign /\ p.model # NoSign)
  /\ \A p, q \in Places : p.group = q.group /\ p.model = q.model => p = q
  /\ Nowhere.group = NoSign /\ Nowhere.model = NoSign

LEMMA PlacesAre == ASSUME CodeInv PROVE PlaceRules
<1>1. \A i \in DOMAIN rpcs : rpcs[i] \in Rpc
    BY DEF CodeInv
<1>2. \A r \in Rpc : r.place = Nowhere \/ (r.place.group # NoSign /\ r.place.model # NoSign)
    BY RpcCodeAssumption, Zenon DEF NoSign
<1>3. \A r \in Rpc : r.place \in [group : STRING, model : STRING]
    BY RpcCodeAssumption, Zenon
<1>4. \A p, q \in [group : STRING, model : STRING] : p.group = q.group /\ p.model = q.model => p = q
    OBVIOUS
<1>5. Nowhere.group = NoSign /\ Nowhere.model = NoSign
    BY Zenon DEF Nowhere, NoSign
<1>6. \A p \in Places : p \in [group : STRING, model : STRING] /\ (p = Nowhere \/ (p.group # NoSign /\ p.model # NoSign))
    BY <1>1, <1>2, <1>3, Zenon DEF Places
<1> QED
    BY <1>4, <1>5, <1>6, Zenon DEF PlaceRules

Single(p) == \A q \in Places : q.model = p.model => q = p

LEMMA AliasesAre ==
  ASSUME CodeInv, NEW p \in Places
  PROVE  /\ p = Nowhere => Alias(p) = <<NoSign, "logic">>
         /\ p # Nowhere /\ Single(p) => Alias(p) = <<NoSign, p.model>>
         /\ p # Nowhere /\ ~Single(p) => Alias(p) = <<p.group, p.model>> /\ p.group # NoSign
<1>1. Single(p) <=> ~\E q \in Places \ {p} : q.model = p.model
    BY Zenon DEF Single
<1>2. PlaceRules
    BY PlacesAre
<1> QED
    BY <1>1, <1>2, Zenon DEF Alias, PlaceRules, NoSign

LEMMA PairsAlike == \A a, b, c, d : <<a, b>> = <<c, d>> <=> a = c /\ b = d
OBVIOUS

ExtraAre ==
  \A x : x \in Extra <=> (x = "common" /\ "foreign" \in AllTypes) \/ (x = "emptypb" /\ "empty" \in AllTypes)

LEMMA ExtraTypes == ExtraAre
<1>1. \A x : x \in Extra <=> \E i \in DOMAIN rpcs : x \in ImportPath(rpcs[i].req) \/ x \in ImportPath(rpcs[i].resp)
    BY DEF Extra
<1>2. \A t : t \in AllTypes <=> \E i \in DOMAIN rpcs : t = rpcs[i].req \/ t = rpcs[i].resp
    BY DEF AllTypes
<1>3. \A x, t : x \in ImportPath(t) <=> (x = "common" /\ t = "foreign") \/ (x = "emptypb" /\ t = "empty")
    BY DEF ImportPath
<1>4. \A x : x \in Extra <=> \E t \in AllTypes : x \in ImportPath(t)
    BY <1>1, <1>2, Zenon
<1> QED
    BY <1>3, <1>4, Zenon DEF ExtraAre

LEMMA ShadowsAre ==
  ASSUME CodeInv, ~multiple
  PROVE  Ambiguous(ServerTakes) <=> Shadowing
<1>0. PlaceRules
    BY PlacesAre
<1>1. \A p \in Places : Alias(p) \in {NoSign} \X ServerTakes <=>
                          p # Nowhere /\ Single(p) /\ p.model \in ServerTakes
    <2> TAKE p \in Places
    <2>1. CASE p = Nowhere
        <3>1. Alias(p) = <<NoSign, "logic">>
            BY <2>1, AliasesAre
        <3>2. "logic" \notin ServerTakes
            BY ExtraTypes, ServerTakesAre DEF ExtraAre
        <3> QED
            BY <2>1, <3>1, <3>2
    <2>2. CASE p # Nowhere /\ Single(p)
        <3>1. Alias(p) = <<NoSign, p.model>>
            BY <2>2, AliasesAre
        <3> QED
            BY <2>2, <3>1
    <2>3. CASE p # Nowhere /\ ~Single(p)
        <3>1. Alias(p) = <<p.group, p.model>> /\ p.group # NoSign
            BY <2>3, AliasesAre
        <3> QED
            BY <2>3, <3>1
    <2> QED
        BY <2>1, <2>2, <2>3
<1>2. \A p, q \in Places : p # q /\ Alias(p) = Alias(q) =>
        \/ p = Nowhere /\ q # Nowhere /\ Single(q) /\ q.model = "logic"
        \/ q = Nowhere /\ p # Nowhere /\ Single(p) /\ p.model = "logic"
    <2> TAKE p, q \in Places
    <2> HAVE p # q /\ Alias(p) = Alias(q)
    <2>1. CASE p = Nowhere
        <3>1. Alias(q) = <<NoSign, "logic">> /\ q # Nowhere
            BY <2>1, AliasesAre
        <3> QED
            BY <2>1, <3>1, AliasesAre, PairsAlike
    <2>2. CASE q = Nowhere
        <3>1. Alias(p) = <<NoSign, "logic">> /\ p # Nowhere
            BY <2>2, AliasesAre
        <3> QED
            BY <2>2, <3>1, AliasesAre, PairsAlike
    <2>3. CASE p # Nowhere /\ q # Nowhere
        <3>1. p.model = q.model
            BY <2>3, AliasesAre, PairsAlike
        <3>2. ~Single(p) /\ ~Single(q)
            BY <3>1 DEF Single
        <3>3. p.group = q.group
            BY <2>3, <3>2, AliasesAre, PairsAlike
        <3> QED
            BY <1>0, <3>1, <3>3 DEF PlaceRules
    <2> QED
        BY <2>1, <2>2, <2>3
<1>3. \A q \in Places : Nowhere \in Places /\ q # Nowhere /\ Single(q) /\ q.model = "logic" =>
        Alias(Nowhere) = Alias(q)
    BY AliasesAre
<1>4. Ambiguous(ServerTakes) <=>
        \/ \E p \in Places : p # Nowhere /\ Single(p) /\ p.model \in ServerTakes
        \/ \E p \in Places : p # Nowhere /\ Single(p) /\ p.model = "logic" /\ Nowhere \in Places
    <2>1. Ambiguous(ServerTakes) <=>
                                \/ \E p \in Places : Alias(p) \in {NoSign} \X ServerTakes
                                \/ \E p, q \in Places : p # q /\ Alias(p) = Alias(q)
        BY Zenon DEF Ambiguous, NoSign
    <2> QED
        BY <1>1, <1>2, <1>3, <2>1, Zenon
<1>5. Shadowing <=>
        \E p \in Places \ {Nowhere} :
          /\ Single(p)
          /\ \/ p.model \in {"svc", "pb"}
             \/ p.model = "common" /\ "foreign" \in AllTypes
             \/ p.model = "emptypb" /\ "empty" \in AllTypes
             \/ p.model = "context" /\ SomeUnary
             \/ p.model = "logic" /\ Nowhere \in Places
    BY Zenon DEF Shadowing, Single, SomeUnary
<1>6. \A m : m \in ServerTakes <=>
                              \/ m \in {"svc", "pb"}
                              \/ m = "common" /\ "foreign" \in AllTypes
                              \/ m = "emptypb" /\ "empty" \in AllTypes
                              \/ m = "context" /\ SomeUnary
    <2>1. \A m : m \in Extra <=> (m = "common" /\ "foreign" \in AllTypes) \/ (m = "emptypb" /\ "empty" \in AllTypes)
        BY ExtraTypes, Zenon DEF ExtraAre
    <2> TAKE m
    <2>2. m \in ServerTakes <=>
            m \in {"svc", "pb"} \/ m \in Extra \/ (m = "context" /\ SomeUnary)
        BY ServerTakesAre, Zenon
    <2>3. m \in Extra <=> (m = "common" /\ "foreign" \in AllTypes) \/ (m = "emptypb" /\ "empty" \in AllTypes)
        BY <2>1, Zenon
    <2> QED
        BY <2>2, <2>3
<1>7. \A p \in Places :
        (/\ p # Nowhere /\ Single(p)
         /\ \/ p.model \in {"svc", "pb"}
            \/ p.model = "common" /\ "foreign" \in AllTypes
            \/ p.model = "emptypb" /\ "empty" \in AllTypes
            \/ p.model = "context" /\ SomeUnary
            \/ p.model = "logic" /\ Nowhere \in Places)
        <=> \/ p # Nowhere /\ Single(p) /\ p.model \in ServerTakes
            \/ p # Nowhere /\ Single(p) /\ p.model = "logic" /\ Nowhere \in Places
    <2> TAKE p \in Places
    <2>1. p.model \in ServerTakes <=>
                                    \/ p.model \in {"svc", "pb"}
                                    \/ p.model = "common" /\ "foreign" \in AllTypes
                                    \/ p.model = "emptypb" /\ "empty" \in AllTypes
                                    \/ p.model = "context" /\ SomeUnary
        BY <1>6, Zenon
    <2> QED
        BY <2>1
<1>8. Shadowing <=>
        \E p \in Places :
            \/ p # Nowhere /\ Single(p) /\ p.model \in ServerTakes
            \/ p # Nowhere /\ Single(p) /\ p.model = "logic" /\ Nowhere \in Places
    BY <1>5, <1>7
<1> QED
    BY <1>4, <1>8, Zenon

(* One file for two rpcs.                                                  *)
FileOf(i) == LogicFile(rpcs[i])
LEMMA FirstIs == \A i : First(i) <=> \A j \in DOMAIN rpcs : FileOf(j) = FileOf(i) => i <= j
BY DEF First, FileOf

LEMMA FirstFound ==
  ASSUME CodeInv, NEW i \in DOMAIN rpcs
  PROVE  \E k \in DOMAIN rpcs : /\ FileOf(k) = FileOf(i) /\ First(k)
                                /\ Kept(i) = rpcs[k]
                                /\ \A j \in DOMAIN rpcs : FileOf(j) = FileOf(i) => k <= j
<1> DEFINE P(j) == j \in DOMAIN rpcs /\ FileOf(j) = FileOf(i) /\ First(j)
           S == {j \in DOMAIN rpcs : FileOf(j) = FileOf(i)}
<1>1. DOMAIN rpcs \subseteq Nat
    BY DEF CodeInv
<1>2. S \subseteq Nat /\ i \in S
    BY <1>1
<1>3. \E k \in S : \A j \in S : k <= j
    <2> HIDE DEF S
    <2> QED
        BY <1>2, LeastFacts
<1>4. \E k \in DOMAIN rpcs : FileOf(k) = FileOf(i) /\ First(k)
    <2>1. PICK k \in S : \A j \in S : k <= j
        BY <1>3
    <2>2. k \in DOMAIN rpcs /\ FileOf(k) = FileOf(i) /\ \A j \in DOMAIN rpcs : FileOf(j) = FileOf(i) => k <= j
        BY <2>1
    <2> QED
        BY <2>2, FirstIs
<1> DEFINE c == CHOOSE j \in DOMAIN rpcs : FileOf(j) = FileOf(i) /\ First(j)
<1>5. c \in DOMAIN rpcs /\ FileOf(c) = FileOf(i) /\ First(c)
    BY <1>4
<1>6. Kept(i) = rpcs[c]
    BY Zenon DEF Kept, FileOf
<1> HIDE DEF c
<1>7. \A j \in DOMAIN rpcs : FileOf(j) = FileOf(i) => c <= j
    BY <1>5, FirstIs
<1> QED
    BY <1>5, <1>6, <1>7

Differs == \A i, j \in DOMAIN rpcs : i # j => CamelCase(rpcs[i].name) # CamelCase(rpcs[j].name)

LEMMA AllHaveLogic ==
  ASSUME CodeInv
  PROVE  (\A i \in DOMAIN rpcs : HasLogic(i)) <=> ~OneFile
<1>0. DOMAIN rpcs \subseteq Nat
    BY DEF CodeInv
<1>1. Differs
    BY Zenon DEF CodeInv, Differs
<1>2. OneFile <=> \E i, j \in DOMAIN rpcs : i # j /\ FileOf(i) = FileOf(j)
    BY Zenon DEF OneFile, FileOf
<1>3. \A i \in DOMAIN rpcs : \E k \in DOMAIN rpcs :
        FileOf(k) = FileOf(i) /\ Kept(i) = rpcs[k] /\ \A j \in DOMAIN rpcs : FileOf(j) = FileOf(i) => k <= j
    BY FirstFound
<1>4. ASSUME ~OneFile, NEW i \in DOMAIN rpcs PROVE HasLogic(i)
    <2>1. PICK k \in DOMAIN rpcs : FileOf(k) = FileOf(i) /\ Kept(i) = rpcs[k]
        BY <1>3
    <2>2. k = i
        BY <1>2, <1>4, <2>1
    <2> QED
        BY <2>1, <2>2, Zenon DEF HasLogic
<1>5. ASSUME OneFile, \A i \in DOMAIN rpcs : HasLogic(i) PROVE FALSE
    <2>1. \A i \in DOMAIN rpcs : \E k \in DOMAIN rpcs :
            i = k /\ \A j \in DOMAIN rpcs : FileOf(j) = FileOf(i) => k <= j
        <3> TAKE i \in DOMAIN rpcs
        <3>1. PICK k \in DOMAIN rpcs : Kept(i) = rpcs[k] /\ \A j \in DOMAIN rpcs : FileOf(j) = FileOf(i) => k <= j
            BY <1>3
        <3>2. CamelCase(Kept(i).name) = CamelCase(rpcs[i].name)
            BY <1>5, Zenon DEF HasLogic
        <3>3. CamelCase(rpcs[k].name) = CamelCase(rpcs[i].name)
            BY <3>1, <3>2, Zenon
        <3>4. k = i
            BY <1>1, <3>3, Zenon DEF Differs
        <3> QED
            BY <3>1, <3>4
    <2>2. PICK i, j \in DOMAIN rpcs : i # j /\ FileOf(i) = FileOf(j)
        BY <1>2, <1>5
    <2>3. i <= j /\ j <= i
        BY <2>1, <2>2
    <2> QED
        BY <1>0, <2>2, <2>3
<1> QED
    BY <1>4, <1>5

(* Imports that nothing needs.                                             *)
LEMMA ExtraIsUsed ==
  Extra = ExtraUsed <=> ~Needless(AllTypes)
<1> DEFINE Used == UNION {Mentioned(rpcs[i]) : i \in DOMAIN rpcs}
<1>1. \A x : x \in Extra <=> \E t \in AllTypes : x \in ImportPath(t)
    BY DEF Extra, AllTypes
<1>2. \A x : x \in ExtraUsed <=> \E t \in Used : x \in ImportPath(t)
    BY DEF ExtraUsed
<1>3. \A t : t \in Used <=> \E i \in DOMAIN rpcs : t \in Mentioned(rpcs[i])
    OBVIOUS
<1>4. Used \subseteq AllTypes
    BY <1>3 DEF Mentioned, AllTypes
<1>5. Needless(AllTypes) <=> \E t \in AllTypes : ImportPath(t) # {} /\ t \notin Used
    BY <1>3, Zenon DEF Needless
<1>6. \A t, u, x : x \in ImportPath(t) /\ x \in ImportPath(u) => t = u
    BY DEF ImportPath
<1> HIDE DEF Used
<1>7. ASSUME Extra = ExtraUsed, Needless(AllTypes) PROVE FALSE
    <2>1. PICK t \in AllTypes : ImportPath(t) # {} /\ t \notin Used
        BY <1>5, <1>7
    <2>2. PICK x : x \in ImportPath(t)
        BY <2>1
    <2>3. x \in ExtraUsed
        BY <1>1, <1>7, <2>1, <2>2
    <2> QED
        BY <1>2, <1>6, <2>1, <2>2, <2>3
<1>8. ASSUME ~Needless(AllTypes) PROVE Extra = ExtraUsed
    <2>1. \A t \in AllTypes : ImportPath(t) # {} => t \in Used
        BY <1>5, <1>8
    <2>2. \A x : x \in Extra <=> x \in ExtraUsed
        BY <1>1, <1>2, <1>4, <2>1
    <2> QED
        BY <2>2
<1> QED
    BY <1>7, <1>8

LEMMA NamesAlike == ASSUME CodeInv PROVE SameIdent <=> PlainName(service)
<1>1. service \in Seq(Letters) /\ Legal(service)
    BY RpcCodeAssumption, Zenon DEF CodeInv
<1>2. PlainName(service) => ServiceGoIdent(service) = CamelCase(service)
    BY <1>1, IdentOfPlain, Zenon
<1>3. ServiceGoIdent(service) = CamelCase(service) => PlainName(service)
    BY <1>1, PlainOfIdent, Zenon
<1> QED
    BY <1>2, <1>3, Zenon DEF SameIdent

LEMMA NoneDotted ==
  ASSUME ~AnyWrong, NEW i \in DOMAIN rpcs
  PROVE  ~Wrong(rpcs[i]) /\ Mentioned(rpcs[i]) \cap {"unknown", "dotted"} = {}
<1>1. ~Wrong(rpcs[i])
    BY Zenon DEF AnyWrong
<1>2. \A t \in Mentioned(rpcs[i]) : t \notin {"unknown", "dotted"}
    BY <1>1, Zenon DEF Wrong, Spelt
<1> QED
    BY <1>1, <1>2

LEMMA ServerIs == ASSUME CodeInv, ~AnyWrong PROVE ServerCompiles <=> ServerFits
<1>1. SameIdent <=> PlainName(service)
    BY NamesAlike
<1>2. Ambiguous(ServerTakes) <=> ~multiple /\ Shadowing
    <2>1. CASE multiple
        BY <2>1, Zenon DEF Ambiguous
    <2>2. CASE ~multiple
        BY <2>2, ShadowsAre
    <2> QED
        BY <2>1, <2>2
<1>3. Extra = ExtraUsed <=> ~Needless(AllTypes)
    BY ExtraIsUsed
<1>4. (\A i \in DOMAIN rpcs : HasLogic(i)) <=> ~OneFile
    BY AllHaveLogic
<1>5. \A i \in DOMAIN rpcs : "dotted" \notin Mentioned(rpcs[i])
    BY NoneDotted
<1>6. ServerCompiles <=> /\ SameIdent /\ ~Ambiguous(ServerTakes) /\ Extra = ExtraUsed
                         /\ \A i \in DOMAIN rpcs : HasLogic(i) /\ "dotted" \notin Mentioned(rpcs[i])
                         /\ \A i \in DOMAIN rpcs : ~Borrows(rpcs[i])
    BY Zenon DEF ServerCompiles, ServerTakes
<1> QED
    BY <1>1, <1>2, <1>3, <1>4, <1>5, <1>6, Zenon DEF ServerFits

(* The client's own name and the alias of the messages.                    *)
LEMMA ClientNameApart == ASSUME CodeInv PROVE CamelCase(message) # <<"zrpc", "client">>
<1>1. message \in Seq(Letters)
    BY RpcCodeAssumption, Zenon DEF CodeInv
<1>2. CamelPieces(message) \in Seq(Seq(Letters))
    BY <1>1, PiecesAreTyped
<1>3. CamelCase(message) = FlattenSeq(CamelPieces(message))
    BY NamePieces, Zenon
<1>4. CamelCase(message) \in Seq(Letters)
    BY <1>2, <1>3, FlattenSequence
<1>5. "zrpc" \notin Letters
    BY Zenon DEF Letters
<1>6. <<"zrpc", "client">> \notin Seq(Letters)
    <2>1. <<"zrpc", "client">>[1] = "zrpc" /\ 1 \in 1 .. Len(<<"zrpc", "client">>)
        OBVIOUS
    <2> QED
        BY <1>5, <2>1, ElementOfSeq
<1> QED
    BY <1>4, <1>6

LEMMA ClientIs == ASSUME CodeInv, ~AnyWrong PROVE ClientCompiles <=> ClientFits
<1>1. SameIdent <=> PlainName(service)
    BY NamesAlike
<1>2. Extra = ExtraUsed <=> ~Needless(AllTypes)
    BY ExtraIsUsed
<1>3. \A i \in DOMAIN rpcs :
        Mentioned(rpcs[i]) \cap {"sibling", "unknown", "dotted"} = {} <=> "sibling" \notin Mentioned(rpcs[i])
    BY NoneDotted
<1>4. ClientName \notin MessageAlias <=>
        (CamelCase(message) = ServiceGoIdent(service) =>
           message = ServiceGoIdent(service) \/ (multiple /\ "own" \notin AllTypes))
    <2>1. CASE multiple /\ "own" \notin AllTypes
        <3>1. MessageAlias = {}
            BY <2>1, Zenon DEF MessageAlias
        <3> QED
            BY <2>1, <3>1
    <2>2. CASE ~(multiple /\ "own" \notin AllTypes)
        <3>1. MessageAlias = {CamelCase(message)}
            BY <2>2, Zenon DEF MessageAlias
        <3>2. ClientName \notin MessageAlias <=> ClientName # CamelCase(message)
            BY <3>1
        <3>3. CASE ServiceGoIdent(service) = message
            <4>1. ClientName = <<"zrpc", "client">>
                BY <3>3, Zenon DEF ClientName
            <4> QED
                BY <3>2, <3>3, <4>1, ClientNameApart
        <3>4. CASE ServiceGoIdent(service) # message
            <4>1. ClientName = ServiceGoIdent(service)
                BY <3>4, Zenon DEF ClientName
            <4> QED
                BY <2>2, <3>2, <3>4, <4>1
        <3> QED
            BY <3>3, <3>4
    <2> QED
        BY <2>1, <2>2
<1> QED
    BY <1>1, <1>2, <1>3, <1>4, Zenon DEF ClientCompiles, ClientFits

LEMMA MainIs ==
  ASSUME CodeInv
  PROVE  /\ ~AnyWrong => (MainCompiles <=> PlainName(service))
         /\ MainCompiles => ~AnyWrong
<1>1. AnyWrong <=> \E i \in DOMAIN rpcs : \E t \in Mentioned(rpcs[i]) : ~Spelt(t)
    BY Zenon DEF AnyWrong, Wrong
<1>2. MainCompiles <=> SameIdent /\ \A i \in DOMAIN rpcs : \A t \in Mentioned(rpcs[i]) : Spelt(t)
    BY Zenon DEF MainCompiles
<1> QED
    BY <1>1, <1>2, NamesAlike, Zenon

LEMMA CodeIsKnown == CodeInv => CodeKnown
<1> SUFFICES ASSUME CodeInv PROVE CodeKnown
    OBVIOUS
<1>1. CASE built = NotBuilt
    <2>1. built.main = FALSE /\ DOMAIN built.logic = {}
        BY <1>1 DEF NotBuilt
    <2> QED
        BY <1>1, <2>1, Zenon DEF CodeKnown, LogicKnown
<1>2. CASE built = CodeNow
    <2>1. /\ built.server = ServerCompiles /\ built.client = ClientCompiles /\ built.main = MainCompiles
          /\ built.logic = [i \in DOMAIN rpcs |-> First(i) => LogicCompiles(rpcs[i])]
        BY <1>2, Zenon DEF CodeNow
    <2>2. DOMAIN built.logic = DOMAIN rpcs
        BY <2>1, Zenon
    <2>3. ASSUME NEW i \in DOMAIN rpcs, ~Wrong(rpcs[i]), First(i)
          PROVE  built.logic[i] <=> ~(rpcs[i].receives /\ ~rpcs[i].sends /\ rpcs[i].req \in {"foreign", "empty"})
        <3>1. rpcs[i] \in Rpc
            BY DEF CodeInv
        <3>2. built.logic[i] = (First(i) => LogicCompiles(rpcs[i]))
            BY <2>1, Zenon
        <3>3. LogicCompiles(rpcs[i]) <=> ~(rpcs[i].receives /\ ~rpcs[i].sends /\ rpcs[i].req \in {"foreign", "empty"})
            BY <2>3, <3>1, LogicFits
        <3> QED
            BY <2>3, <3>2, <3>3, Zenon
    <2>4. LogicKnown
        BY <2>2, <2>3, Zenon DEF LogicKnown
    <2>5. ~AnyWrong => /\ built.server <=> ServerFits
                       /\ built.client <=> ClientFits
                       /\ built.main <=> PlainName(service)
        BY <2>1, ServerIs, ClientIs, MainIs, Zenon
    <2>6. built.main => ~AnyWrong
        BY <2>1, MainIs, Zenon
    <2> QED
        BY <2>4, <2>5, <2>6, Zenon DEF CodeKnown
<1> QED
    BY <1>1, <1>2, Zenon DEF CodeInv

(* The logic, server, client and main that zctl rpc generates for a        *)
(* service compile in all but the cases that are named, for any service    *)
(* name, messages, places of desc/ and number of rpcs.                     *)
THEOREM CodeAlwaysKnown == RpcCodeInit /\ [][RpcCodeNext]_rpcCodeVars => []CodeKnown
BY CodeInitially, CodeKept, CodeIsKnown, PTL

-----------------------------------------------------------------------------
(* ProtoDoc: what protoc makes of the lines, and the rows to come.  Lines  *)
(* and paths are folded, so what a fold gives for one member more is shown *)
(* for each: DocAppend, RuleAppend, PathAppend.                            *)
NamedSets == {W \in SUBSET (Seq(DocName) \ {<<>>}) : IsFiniteSet(W)}
DocMessages == UNION {[W -> Seq(DocField)] : W \in NamedSets}
DocParsing == [at : Seq(DocName), fields : DocMessages]
DocRow == [path : Seq(STRING), field : DocField, msg : DocName]
NoMessages == [at |-> <<>>, fields |-> <<>>]

LEMMA NoMessagesTyped == NoMessages \in DocParsing
<1>1. <<>> \in [{} -> Seq(DocField)] /\ {} \in NamedSets
    BY FS_EmptySet DEF NamedSets
<1>2. <<>> \in DocMessages
    BY <1>1 DEF DocMessages
<1>3. <<>> \in Seq(DocName)
    OBVIOUS
<1> QED
    BY <1>2, <1>3 DEF DocParsing, NoMessages

LEMMA DocParseTyped ==
  ASSUME NEW p \in DocParsing, NEW l \in DocLine
  PROVE  DocParse(p, l) \in DocParsing
<1>1. PICK W \in NamedSets : p.fields \in [W -> Seq(DocField)]
    BY DEF DocParsing, DocMessages
<1>2. p.at \in Seq(DocName)
    BY DEF DocParsing
<1>3. CASE l.is = "field"
    <2>1. l.field \in DocField
        BY <1>3 DEF DocLine
    <2> DEFINE more == [p.fields EXCEPT ![p.at] = Append(@, l.field)]
    <2>2. more \in [W -> Seq(DocField)]
        <3>1. ASSUME p.at \in W PROVE Append(p.fields[p.at], l.field) \in Seq(DocField)
            BY <1>1, <2>1, <3>1
        <3> QED
            BY <1>1, <3>1
    <2>3. more \in DocMessages
        BY <2>2 DEF DocMessages
    <2> HIDE DEF more
    <2>4. [p EXCEPT !.fields = more] \in DocParsing
        BY <2>3 DEF DocParsing
    <2> QED
        BY <1>3, <2>4 DEF DocParse, more
<1>4. CASE l.is = "close"
    <2>1. Front(p.at) \in Seq(DocName)
        <3>1. CASE p.at = <<>>
            BY <3>1 DEF Front
        <3>2. CASE p.at # <<>>
            BY <1>2, <3>2 DEF Front
        <3> QED
            BY <3>1, <3>2
    <2> QED
        BY <1>4, <2>1 DEF DocParse, DocParsing
<1>5. CASE l.is \notin {"field", "close"}
    <2>1. l.name \in DocName
        BY <1>5 DEF DocLine
    <2> DEFINE m == Append(p.at, l.name)
               more == [x \in DOMAIN p.fields \cup {m} |-> IF x = m THEN <<>> ELSE p.fields[x]]
    <2>2. m \in Seq(DocName) /\ m # <<>>
        BY <1>2, <2>1
    <2> HIDE DEF m
    <2>3. more \in [W \cup {m} -> Seq(DocField)] /\ W \cup {m} \in NamedSets
        <3>1. IsFiniteSet(W \cup {m})
            BY FS_AddElement DEF NamedSets
        <3> QED
            BY <1>1, <2>2, <3>1 DEF NamedSets
    <2>4. more \in DocMessages
        BY <2>3 DEF DocMessages
    <2> HIDE DEF more
    <2>5. DocParse(p, l) = [at |-> IF l.is = "message" THEN m ELSE p.at, fields |-> more]
        BY <1>5 DEF DocParse, m, more
    <2> QED
        BY <1>2, <2>2, <2>4, <2>5 DEF DocParsing
<1> QED
    BY <1>3, <1>4, <1>5

DocSteps == [x \in DocParsing \X DocLine |-> DocParse(x[1], x[2])]

LEMMA DocFolds ==
  ASSUME NEW read \in Seq(DocLine)
  PROVE  FoldedTo(DocParsing, DocLine, NoMessages, DocSteps, read, FoldLeft(DocParse, NoMessages, read))
<1> DEFINE D == DOMAIN read
           Fits(it) == it = [I \in SUBSET D |-> IF I = {} THEN NoMessages
                                                ELSE DocParse(it[I \ {Max(I)}], read[Max(I)])]
           it == CHOOSE it : Fits(it)
<1>0. Len(read) \in Nat /\ D = 1 .. Len(read) /\ read \in [1 .. Len(read) -> DocLine]
    OBVIOUS
<1>1. FoldLeft(DocParse, NoMessages, read) = it[D]
    BY Zenon DEF FoldLeft, MapThenFoldSet
<1>2. DocSteps \in [DocParsing \X DocLine -> DocParsing] /\ NoMessages \in DocParsing
    BY DocParseTyped, NoMessagesTyped DEF DocSteps
<1>3. \A x \in DocParsing, l \in DocLine : DocSteps[<<x, l>>] = DocParse(x, l)
    BY DEF DocSteps
<1>4. Fits(it)
    <2>1. PICK fold : FoldsOver(fold, DocParsing, NoMessages, DocSteps, Len(read), read)
        BY <1>0, <1>2, FoldExists, Zenon
    <2>2. Fits(fold)
        BY <1>0, <1>3, <2>1, MaxOf DEF FoldsOver
    <2> QED
        BY <2>2, Zenon
<1> HIDE DEF it
<1>5. it[{}] = NoMessages
    BY <1>4
<1>6. ASSUME NEW I \in SUBSET D, I # {}, it[I \ {Max(I)}] \in DocParsing
      PROVE  it[I] = DocSteps[<<it[I \ {Max(I)}], read[Max(I)]>>]
    <2>1. read[Max(I)] \in DocLine
        BY <1>0, <1>6, MaxOf
    <2> QED
        BY <1>3, <1>4, <1>6, <2>1
<1>7. StepsWithin(it, DocParsing, NoMessages, DocSteps, read)
    BY <1>5, <1>6 DEF StepsWithin
<1> QED
    BY <1>1, <1>2, <1>7 DEF FoldedTo

LEMMA DocAppend ==
  ASSUME NEW read \in Seq(DocLine), NEW l \in DocLine
  PROVE  /\ FoldLeft(DocParse, NoMessages, read) \in DocParsing
         /\ FoldLeft(DocParse, NoMessages, Append(read, l)) = DocParse(FoldLeft(DocParse, NoMessages, read), l)
<1> DEFINE y == FoldLeft(DocParse, NoMessages, read)
           z == FoldLeft(DocParse, NoMessages, Append(read, l))
<1>1. FoldedTo(DocParsing, DocLine, NoMessages, DocSteps, read, y)
    BY DocFolds
<1>2. FoldedTo(DocParsing, DocLine, NoMessages, DocSteps, Append(read, l), z)
    BY Append(read, l) \in Seq(DocLine), DocFolds
<1> HIDE DEF y, z
<1>3. y \in DocParsing /\ z = Onward(DocSteps, y, l)
    BY <1>1, <1>2, FoldsAppend
<1>4. \A x \in DocParsing : Onward(DocSteps, x, l) = DocParse(x, l)
    BY DEF DocSteps, Onward
<1> QED
    BY <1>3, <1>4 DEF y, z

LEMMA DocNone == FoldLeft(DocParse, NoMessages, <<>>) = NoMessages
<1>1. <<>> \in Seq(DocLine) /\ DOMAIN <<>> = {}
    OBVIOUS
<1>2. PICK c : StepsWithin(c, DocParsing, NoMessages, DocSteps, <<>>) /\ c[{}] = FoldLeft(DocParse, NoMessages, <<>>)
    BY <1>1, DocFolds, Zenon DEF FoldedTo
<1> QED
    BY <1>2 DEF StepsWithin

LEMMA ParsedTyped ==
  ASSUME docLines \in Seq(DocLine)
  PROVE  /\ Parsed \in DocParsing
         /\ IsFiniteSet(Messages)
         /\ \A m \in Messages : /\ m \in Seq(DocName) /\ m # <<>> /\ Last(m) \in DocName
                                /\ Parsed.fields[m] \in Seq(DocField)
<1>1. Parsed = FoldLeft(DocParse, NoMessages, docLines)
    BY DEF Parsed, NoMessages
<1>4. Parsed \in DocParsing
    <2>1. CASE docLines = <<>>
        BY <1>1, <2>1, DocNone, NoMessagesTyped
    <2>2. CASE docLines # <<>>
        <3>1. docLines[1] \in DocLine
            BY <2>2
        <3> QED
            BY <1>1, <3>1, DocAppend
    <2> QED
        BY <2>1, <2>2
<1>5. PICK W \in NamedSets : Parsed.fields \in [W -> Seq(DocField)]
    BY <1>4 DEF DocParsing, DocMessages
<1>6. ASSUME NEW m \in Messages
      PROVE  m \in Seq(DocName) /\ m # <<>> /\ Parsed.fields[m] \in Seq(DocField)
    BY <1>5 DEF Messages, NamedSets
<1>8. IsFiniteSet(Messages)
    BY <1>5 DEF Messages, NamedSets
<1>7. ASSUME NEW m \in Seq(DocName), m # <<>> PROVE Last(m) \in DocName
    BY <1>7 DEF Last
<1> QED
    BY <1>4, <1>6, <1>7, <1>8

DocTyped ==
  /\ docLines \in Seq(DocLine) /\ docStep \in {"edit", "rows", "done"}
  /\ docTodo \in Seq(DocRow) /\ protoSeen \in BOOLEAN
  /\ docStep # "edit" => /\ request \in Messages
                         /\ \A n \in DOMAIN msgMap : msgMap[n] \in Messages

LEMMA TypedDoc == ASSUME DocTyped PROVE ProtoDocTypeOK
<1>1. Range(docLines) \subseteq DocLine
    BY DEF DocTyped, Range
<1>2. \A i \in DOMAIN docTodo : docTodo[i] \in DocRow
    BY DEF DocTyped
<1>3. docStep # "edit" => Range(msgMap) \subseteq Messages
    BY DEF DocTyped, Range
<1> QED
    BY <1>1, <1>2, <1>3 DEF DocTyped, ProtoDocTypeOK, DocRow

LEMMA DocInitTyped == ProtoDocInit => DocTyped
BY DEF ProtoDocInit, DocTyped

LEMMA RowsTyped ==
  ASSUME docLines \in Seq(DocLine), NEW m \in Messages, NEW prefix \in Seq(STRING)
  PROVE  RowsOf(prefix, m) \in Seq(DocRow)
<1> DEFINE fields == Parsed.fields[m]
<1>1. fields \in Seq(DocField) /\ Last(m) \in DocName
    BY ParsedTyped
<1> HIDE DEF fields
<1>2. ASSUME NEW i \in DOMAIN fields
      PROVE  [path |-> Append(prefix, fields[i].name), field |-> fields[i], msg |-> Last(m)] \in DocRow
    <2>1. fields[i] \in DocField
        BY <1>1
    <2>2. fields[i].name \in STRING
        BY <2>1, ProtoDocAssumption
    <2>3. Append(prefix, fields[i].name) \in Seq(STRING)
        BY <2>2
    <2> QED
        BY <1>1, <2>1, <2>3 DEF DocRow
<1>3. DOMAIN fields = 1 .. Len(fields) /\ Len(fields) \in Nat
    BY <1>1
<1>4. RowsOf(prefix, m) = [i \in 1 .. Len(fields) |->
                             [path |-> Append(prefix, fields[i].name), field |-> fields[i], msg |-> Last(m)]]
    BY <1>3 DEF RowsOf, fields
<1>5. RowsOf(prefix, m) \in [1 .. Len(fields) -> DocRow]
    BY <1>2, <1>3, <1>4
<1> QED
    BY <1>3, <1>5, SeqDef

LEMMA DocStepTyped == DocTyped /\ [ProtoDocNext]_protoDocVars => DocTyped'
<1> SUFFICES ASSUME DocTyped, [ProtoDocNext]_protoDocVars
             PROVE  DocTyped'
    OBVIOUS
<1>0. docLines' = docLines => Messages' = Messages
    BY DEF Messages, Parsed
<1>1. CASE WriteDocLine
    BY <1>1 DEF WriteDocLine, DocTyped
<1>2. CASE CloseDocLine
    <2>1. [is |-> "close"] \in DocLine
        BY DEF DocLine
    <2> QED
        BY <1>2, <2>1 DEF CloseDocLine, DocTyped
<1>3. CASE StartDoc
    <2>1. PICK map \in [{Last(m) : m \in Messages} -> Messages], r \in Messages :
            msgMap' = map /\ request' = r /\ docTodo' = RowsOf(<<>>, map[Last(r)])
        BY <1>3 DEF StartDoc
    <2>2. map[Last(r)] \in Messages /\ <<>> \in Seq(STRING)
        OBVIOUS
    <2>3. docTodo' \in Seq(DocRow)
        BY <2>1, <2>2, RowsTyped DEF DocTyped
    <2> QED
        BY <1>0, <1>3, <2>1, <2>3 DEF StartDoc, DocTyped
<1>4. CASE WriteFieldRow
    <2> DEFINE todo == Head(docTodo)
               below == IF LookupMsg(todo.field) = {} THEN <<>>
                        ELSE RowsOf(todo.path, msgMap[Last(todo.field.type)])
    <2>1. todo \in DocRow /\ Tail(docTodo) \in Seq(DocRow)
        BY <1>4 DEF WriteFieldRow, DocTyped
    <2>2. docTodo' = below \o Tail(docTodo)
        BY <1>4 DEF WriteFieldRow
    <2> HIDE DEF todo
    <2>3. below \in Seq(DocRow)
        <3>1. CASE LookupMsg(todo.field) = {}
            BY <3>1
        <3>2. CASE LookupMsg(todo.field) # {}
            <4>1. msgMap[Last(todo.field.type)] \in Messages
                BY <1>4, <3>2 DEF LookupMsg, WriteFieldRow, DocTyped
            <4>2. todo.path \in Seq(STRING)
                BY <2>1 DEF DocRow
            <4> QED
                BY <3>2, <4>1, <4>2, RowsTyped DEF DocTyped
        <3> QED
            BY <3>1, <3>2
    <2> HIDE DEF below
    <2>4. docTodo' \in Seq(DocRow)
        BY <2>1, <2>2, <2>3
    <2> QED
        BY <1>0, <1>4, <2>4 DEF WriteFieldRow, DocTyped
<1>5. CASE WriteDoc
    BY <1>0, <1>5 DEF WriteDoc, DocTyped
<1>6. CASE UNCHANGED protoDocVars
    BY <1>0, <1>6 DEF protoDocVars, DocTyped
<1> QED
    BY <1>1, <1>2, <1>3, <1>4, <1>5, <1>6 DEF ProtoDocNext

(* The rules of the fields, as the lines of the proto tell them.           *)
Validating == [current : Seq(STRING), keys : SUBSET (STRING \X STRING)]
NoRules == [current |-> <<>>, keys |-> {}]

LEMMA NoRulesTyped == NoRules \in Validating
BY DEF NoRules, Validating

LEMMA ValidateTyped ==
  ASSUME NEW p \in Validating, NEW l \in DocLine
  PROVE  ValidateLine(p, l) \in Validating
<1>1. CASE l.is \in {"message", "empty"}
    <2>1. l.name \in STRING
        BY <1>1, ProtoDocAssumption DEF DocLine
    <2>2. <<l.name>> \in Seq(STRING)
        BY <2>1
    <2> QED
        BY <1>1, <2>2 DEF ValidateLine, Validating
<1>2. CASE l.is = "close"
    <2>1. <<>> \in Seq(STRING)
        OBVIOUS
    <2> QED
        BY <1>2, <2>1 DEF ValidateLine, Validating
<1>3. CASE l.is = "field"
    <2>1. l.field.name \in STRING
        BY <1>3, ProtoDocAssumption DEF DocLine
    <2>2. p.current # <<>> => p.current[1] \in STRING
        BY DEF Validating
    <2> QED
        BY <1>3, <2>1, <2>2 DEF ValidateLine, Validating
<1> QED
    BY <1>1, <1>2, <1>3 DEF DocLine

RuleSteps == [x \in Validating \X DocLine |-> ValidateLine(x[1], x[2])]

LEMMA RuleFolds ==
  ASSUME NEW read \in Seq(DocLine)
  PROVE  FoldedTo(Validating, DocLine, NoRules, RuleSteps, read, FoldLeft(ValidateLine, NoRules, read))
<1> DEFINE D == DOMAIN read
           Fits(it) == it = [I \in SUBSET D |-> IF I = {} THEN NoRules
                                                ELSE ValidateLine(it[I \ {Max(I)}], read[Max(I)])]
           it == CHOOSE it : Fits(it)
<1>0. Len(read) \in Nat /\ D = 1 .. Len(read) /\ read \in [1 .. Len(read) -> DocLine]
    OBVIOUS
<1>1. FoldLeft(ValidateLine, NoRules, read) = it[D]
    BY Zenon DEF FoldLeft, MapThenFoldSet
<1>2. RuleSteps \in [Validating \X DocLine -> Validating] /\ NoRules \in Validating
    BY ValidateTyped, NoRulesTyped DEF RuleSteps
<1>3. \A x \in Validating, l \in DocLine : RuleSteps[<<x, l>>] = ValidateLine(x, l)
    BY DEF RuleSteps
<1>4. Fits(it)
    <2>1. PICK fold : FoldsOver(fold, Validating, NoRules, RuleSteps, Len(read), read)
        BY <1>0, <1>2, FoldExists, Zenon
    <2>2. Fits(fold)
        BY <1>0, <1>3, <2>1, MaxOf DEF FoldsOver
    <2> QED
        BY <2>2, Zenon
<1> HIDE DEF it
<1>5. it[{}] = NoRules
    BY <1>4
<1>6. ASSUME NEW I \in SUBSET D, I # {}, it[I \ {Max(I)}] \in Validating
      PROVE  it[I] = RuleSteps[<<it[I \ {Max(I)}], read[Max(I)]>>]
    <2>1. read[Max(I)] \in DocLine
        BY <1>0, <1>6, MaxOf
    <2> QED
        BY <1>3, <1>4, <1>6, <2>1
<1>7. StepsWithin(it, Validating, NoRules, RuleSteps, read)
    BY <1>5, <1>6 DEF StepsWithin
<1> QED
    BY <1>1, <1>2, <1>7 DEF FoldedTo

LEMMA RuleAppend ==
  ASSUME NEW read \in Seq(DocLine), NEW l \in DocLine
  PROVE  /\ FoldLeft(ValidateLine, NoRules, read) \in Validating
         /\ FoldLeft(ValidateLine, NoRules, Append(read, l)) = ValidateLine(FoldLeft(ValidateLine, NoRules, read), l)
<1> DEFINE y == FoldLeft(ValidateLine, NoRules, read)
           z == FoldLeft(ValidateLine, NoRules, Append(read, l))
<1>1. FoldedTo(Validating, DocLine, NoRules, RuleSteps, read, y)
    BY RuleFolds
<1>2. FoldedTo(Validating, DocLine, NoRules, RuleSteps, Append(read, l), z)
    BY Append(read, l) \in Seq(DocLine), RuleFolds
<1> HIDE DEF y, z
<1>3. y \in Validating /\ z = Onward(RuleSteps, y, l)
    BY <1>1, <1>2, FoldsAppend
<1>4. \A x \in Validating : Onward(RuleSteps, x, l) = ValidateLine(x, l)
    BY DEF RuleSteps, Onward
<1> QED
    BY <1>3, <1>4 DEF y, z

LEMMA RuleNone ==
  FoldLeft(ValidateLine, NoRules, <<>>) = NoRules
<1>1. <<>> \in Seq(DocLine) /\ DOMAIN <<>> = {}
    OBVIOUS
<1>2. PICK c : StepsWithin(c, Validating, NoRules, RuleSteps, <<>>) /\ c[{}] = FoldLeft(ValidateLine, NoRules, <<>>)
    BY <1>1, RuleFolds, Zenon DEF FoldedTo
<1> QED
    BY <1>2 DEF StepsWithin

(* The place of a path in the proto.                                       *)
ProtoPlaces ==
  {[msg |-> <<>>, type |-> t] : t \in Seq(DocName)}
  \cup {[msg |-> m, type |-> f.type, field |-> f] : m \in Seq(DocName) \ {<<>>}, f \in DocField}
Top == [msg |-> <<>>, type |-> request]

LEMMA TopTyped == ASSUME docLines \in Seq(DocLine), request \in Messages PROVE Top \in ProtoPlaces
BY ParsedTyped DEF Top, ProtoPlaces

(* Follow finds a field of the name, or nothing.                           *)
NamedField(at, name, f) == at.type \in Messages /\ f \in FieldsOf(at.type) /\ f.name = name
LEMMA FollowIs ==
  ASSUME NEW at, NEW name
  PROVE  \/ /\ \A f : ~NamedField(at, name, f)
            /\ Follow(at, name) = [msg |-> <<>>, type |-> <<>>]
         \/ \E f : NamedField(at, name, f) /\ Follow(at, name) = [msg |-> at.type, type |-> f.type, field |-> f]
<1> DEFINE found == IF at.type \in Messages THEN {f \in FieldsOf(at.type) : f.name = name} ELSE {}
           f == CHOOSE f \in found : TRUE
<1>1. \A g : g \in found <=> NamedField(at, name, g)
    BY DEF NamedField
<1>2. Follow(at, name) = IF found = {} THEN [msg |-> <<>>, type |-> <<>>]
                         ELSE [msg |-> at.type, type |-> f.type, field |-> f]
    BY DEF Follow
<1>3. found # {} => f \in found
    BY Zenon
<1> HIDE DEF found, f
<1> QED
    BY <1>1, <1>2, <1>3

LEMMA FollowTyped ==
  ASSUME docLines \in Seq(DocLine), NEW at \in ProtoPlaces, NEW name \in STRING
  PROVE  Follow(at, name) \in ProtoPlaces
<1>1. CASE Follow(at, name) = [msg |-> <<>>, type |-> <<>>]
    <2>1. <<>> \in Seq(DocName)
        OBVIOUS
    <2>2. [msg |-> <<>>, type |-> <<>>] \in {[msg |-> <<>>, type |-> t] : t \in Seq(DocName)}
        BY <2>1
    <2>3. \A x : x \in {[msg |-> <<>>, type |-> t] : t \in Seq(DocName)} => x \in ProtoPlaces
        BY DEF ProtoPlaces
    <2> QED
        BY <1>1, <2>2, <2>3, Zenon
<1>2. CASE \E f : NamedField(at, name, f) /\ Follow(at, name) = [msg |-> at.type, type |-> f.type, field |-> f]
    <2>1. PICK f : NamedField(at, name, f) /\ Follow(at, name) = [msg |-> at.type, type |-> f.type, field |-> f]
        BY <1>2
    <2>2. at.type \in Messages /\ f \in Range(Parsed.fields[at.type])
        BY <2>1 DEF NamedField, FieldsOf
    <2>3. at.type \in Seq(DocName) \ {<<>>} /\ Parsed.fields[at.type] \in Seq(DocField)
        BY <2>2, ParsedTyped
    <2>4. f \in DocField
        BY <2>2, <2>3 DEF Range
    <2> QED
        BY <2>1, <2>3, <2>4 DEF ProtoPlaces
<1> QED
    BY <1>1, <1>2, FollowIs

(* A name along a path; the provers take the set as it is.                 *)
PathName == STRING
PathSteps == [x \in ProtoPlaces \X PathName |-> Follow(x[1], x[2])]

LEMMA PathFolds ==
  ASSUME docLines \in Seq(DocLine), request \in Messages,
         NEW read \in Seq(PathName)
  PROVE  FoldedTo(ProtoPlaces, PathName, Top, PathSteps, read, FoldLeft(Follow, Top, read))
<1> DEFINE D == DOMAIN read
           Fits(it) == it = [I \in SUBSET D |-> IF I = {} THEN Top
                                                ELSE Follow(it[I \ {Max(I)}], read[Max(I)])]
           it == CHOOSE it : Fits(it)
<1>0. Len(read) \in Nat /\ D = 1 .. Len(read) /\ read \in [1 .. Len(read) -> PathName]
    OBVIOUS
<1>1. FoldLeft(Follow, Top, read) = it[D]
    BY Zenon DEF FoldLeft, MapThenFoldSet
<1>2. PathSteps \in [ProtoPlaces \X PathName -> ProtoPlaces] /\ Top \in ProtoPlaces
    BY FollowTyped, TopTyped DEF PathSteps, PathName
<1>3. \A x \in ProtoPlaces, l \in PathName : PathSteps[<<x, l>>] = Follow(x, l)
    BY DEF PathSteps
<1>4. Fits(it)
    <2>1. PICK fold : FoldsOver(fold, ProtoPlaces, Top, PathSteps, Len(read), read)
        BY <1>0, <1>2, FoldExists, Zenon
    <2>2. Fits(fold)
        BY <1>0, <1>3, <2>1, MaxOf DEF FoldsOver
    <2> QED
        BY <2>2, Zenon
<1> HIDE DEF it
<1>5. it[{}] = Top
    BY <1>4
<1>6. ASSUME NEW I \in SUBSET D, I # {}, it[I \ {Max(I)}] \in ProtoPlaces
      PROVE  it[I] = PathSteps[<<it[I \ {Max(I)}], read[Max(I)]>>]
    <2>1. read[Max(I)] \in PathName
        BY <1>0, <1>6, MaxOf
    <2> QED
        BY <1>3, <1>4, <1>6, <2>1
<1>7. StepsWithin(it, ProtoPlaces, Top, PathSteps, read)
    BY <1>5, <1>6 DEF StepsWithin
<1> QED
    BY <1>1, <1>2, <1>7 DEF FoldedTo

LEMMA PathAppend ==
  ASSUME docLines \in Seq(DocLine), request \in Messages,
         NEW read \in Seq(PathName), NEW l \in PathName
  PROVE  /\ FoldLeft(Follow, Top, read) \in ProtoPlaces
         /\ FoldLeft(Follow, Top, Append(read, l)) = Follow(FoldLeft(Follow, Top, read), l)
<1> DEFINE y == FoldLeft(Follow, Top, read)
           z == FoldLeft(Follow, Top, Append(read, l))
<1>1. FoldedTo(ProtoPlaces, PathName, Top, PathSteps, read, y)
    BY PathFolds
<1>2. FoldedTo(ProtoPlaces, PathName, Top, PathSteps, Append(read, l), z)
    BY Append(read, l) \in Seq(PathName), PathFolds
<1> HIDE DEF y, z
<1>3. y \in ProtoPlaces /\ z = Onward(PathSteps, y, l)
    BY <1>1, <1>2, FoldsAppend
<1>4. \A x \in ProtoPlaces : Onward(PathSteps, x, l) = Follow(x, l)
    BY DEF PathSteps, Onward
<1> QED
    BY <1>3, <1>4 DEF y, z

LEMMA PathNone ==
  ASSUME docLines \in Seq(DocLine), request \in Messages
  PROVE  FoldLeft(Follow, Top, <<>>) = Top
<1>1. <<>> \in Seq(PathName) /\ DOMAIN <<>> = {}
    OBVIOUS
<1>2. PICK c : StepsWithin(c, ProtoPlaces, Top, PathSteps, <<>>) /\ c[{}] = FoldLeft(Follow, Top, <<>>)
    BY <1>1, PathFolds, Zenon DEF FoldedTo
<1> QED
    BY <1>2 DEF StepsWithin

(* What is known of the proto, its messages and its rules when its last    *)
(* line is written.                                                        *)
Rules == FoldLeft(ValidateLine, NoRules, docLines)
ReadTo(i) == FoldLeft(DocParse, NoMessages, SubSeq(docLines, 1, i - 1))
Begins(i) == docLines[i].is \in {"message", "empty"}
Begun(i) == Append(ReadTo(i).at, docLines[i].name)
InnerBy(k, m) == \E j \in 1 .. k : Begins(j) /\ IsStrictPrefix(m, Begun(j))
Left(m) == Parsed.fields[m] = <<>> /\ ~IsPrefix(m, Parsed.at)

MessageLines == \A m \in Messages : \E j \in DOMAIN docLines : Begins(j) /\ Begun(j) = m
FieldLines ==
  \A m \in Messages : \A f \in FieldsOf(m) :
    \E i \in DOMAIN docLines : ReadTo(i).at = m /\ docLines[i].is = "field" /\ docLines[i].field = f
NamesOnce ==
  \A m \in Messages : \A i, j \in DOMAIN Parsed.fields[m] :
    Parsed.fields[m][i].name = Parsed.fields[m][j].name => i = j
CurrentKnown ==
  Rules.current # <<>> => \E c \in Messages : Last(c) = Rules.current[1] /\ (c = Parsed.at \/ Left(c))
RulesOfFields ==
  \A key \in Rules.keys : \E m \in Messages :
    /\ Last(m) = key[1]
    /\ Left(m) \/ \E f \in FieldsOf(m) : f.name = key[2] /\ f.validated = "line"
CurrentRight ==
  Parsed.at # <<>> /\ ~InnerBy(Len(docLines), Parsed.at) => Rules.current = <<Last(Parsed.at)>>
KeysThere ==
  \A i \in DOMAIN docLines :
    docLines[i].is = "field" /\ docLines[i].field.validated = "line" /\ ~InnerBy(i, ReadTo(i).at)
      => <<Last(ReadTo(i).at), docLines[i].field.name>> \in Rules.keys

LinesInv ==
  /\ docLines \in Seq(DocLine)
  /\ Parsed.at = <<>> \/ Parsed.at \in Messages
  /\ \A m \in Messages : Len(m) > 1 => Front(m) \in Messages
  /\ MessageLines /\ FieldLines /\ NamesOnce
  /\ CurrentKnown /\ RulesOfFields /\ CurrentRight /\ KeysThere

LEMMA LineAdded ==
  ASSUME docLines \in Seq(DocLine), NEW l \in DocLine, docLines' = Append(docLines, l),
         NEW n, n = Len(docLines)
  PROVE  /\ n \in Nat /\ DOMAIN docLines = 1 .. n
         /\ docLines' \in Seq(DocLine) /\ Len(docLines') = n + 1
         /\ DOMAIN docLines' = 1 .. n + 1 /\ docLines'[n + 1] = l
         /\ Parsed' = DocParse(Parsed, l) /\ Rules' = ValidateLine(Rules, l)
         /\ Rules \in Validating
         /\ \A i \in DOMAIN docLines : docLines'[i] = docLines[i] /\ ReadTo(i)' = ReadTo(i)
         /\ ReadTo(n + 1)' = Parsed
<1>1. /\ n \in Nat /\ DOMAIN docLines = 1 .. n /\ docLines' \in Seq(DocLine) /\ Len(docLines') = n + 1
      /\ DOMAIN docLines' = 1 .. n + 1 /\ docLines'[n + 1] = l /\ \A i \in 1 .. n : docLines'[i] = docLines[i]
    OBVIOUS
<1>2. Parsed = FoldLeft(DocParse, NoMessages, docLines) /\ Parsed' = FoldLeft(DocParse, NoMessages, docLines')
    BY DEF Parsed, NoMessages
<1>3. Parsed' = DocParse(Parsed, l)
    BY <1>2, DocAppend
<1>4. Rules' = ValidateLine(Rules, l) /\ Rules \in Validating
    <2>1. Rules' = FoldLeft(ValidateLine, NoRules, docLines')
        BY DEF Rules
    <2> QED
        BY <2>1, RuleAppend DEF Rules
<1>5. ASSUME NEW i \in 1 .. n PROVE ReadTo(i)' = ReadTo(i)
    <2>1. SubSeq(docLines', 1, i - 1) = SubSeq(docLines, 1, i - 1)
        <3>1. i - 1 \in Int /\ i - 1 <= n /\ i - 1 <= n + 1
            BY <1>1
        <3>2. \A k \in 1 .. i - 1 : docLines'[k] = docLines[k]
            BY <1>1
        <3> QED
            BY <1>1, <3>1, <3>2
    <2> QED
        BY <2>1 DEF ReadTo
<1>6. ReadTo(n + 1)' = Parsed
    <2>1. SubSeq(docLines', 1, n + 1 - 1) = docLines
        BY <1>1
    <2>2. ReadTo(n + 1)' = FoldLeft(DocParse, NoMessages, SubSeq(docLines', 1, n + 1 - 1))
        BY DEF ReadTo
    <2> QED
        BY <1>2, <2>1, <2>2
<1> QED
    BY <1>1, <1>3, <1>4, <1>5, <1>6

LEMMA InnerAdded ==
  ASSUME docLines \in Seq(DocLine), NEW l \in DocLine, docLines' = Append(docLines, l),
         NEW n, n = Len(docLines), NEW m
  PROVE  /\ \A k \in 0 .. n : InnerBy(k, m)' <=> InnerBy(k, m)
         /\ InnerBy(n + 1, m)' <=>
              \/ InnerBy(n, m)
              \/ l.is \in {"message", "empty"} /\ IsStrictPrefix(m, Append(Parsed.at, l.name))
<1>1. /\ n \in Nat /\ DOMAIN docLines = 1 .. n /\ docLines'[n + 1] = l
      /\ \A i \in DOMAIN docLines : docLines'[i] = docLines[i] /\ ReadTo(i)' = ReadTo(i)
      /\ ReadTo(n + 1)' = Parsed
    BY LineAdded
<1>2. ASSUME NEW j \in 1 .. n PROVE (Begins(j)' <=> Begins(j)) /\ Begun(j)' = Begun(j)
    BY <1>1 DEF Begins, Begun
<1>3. (Begins(n + 1)' <=> l.is \in {"message", "empty"}) /\ Begun(n + 1)' = Append(Parsed.at, l.name)
    BY <1>1 DEF Begins, Begun
<1>4. \A k : InnerBy(k, m)' <=> \E j \in 1 .. k : Begins(j)' /\ IsStrictPrefix(m, Begun(j)')
    BY DEF InnerBy
<1>5. ASSUME NEW k \in 0 .. n PROVE InnerBy(k, m)' <=> InnerBy(k, m)
    <2>1. \A j \in 1 .. k : j \in 1 .. n
        BY <1>1
    <2> QED
        BY <1>2, <1>4, <2>1, Zenon DEF InnerBy
<1>6. InnerBy(n + 1, m)' <=> \/ InnerBy(n, m)
                             \/ l.is \in {"message", "empty"} /\ IsStrictPrefix(m, Append(Parsed.at, l.name))
    <2>1. \A j : j \in 1 .. n + 1 <=> j \in 1 .. n \/ j = n + 1
        BY <1>1
    <2> QED
        BY <1>2, <1>3, <1>4, <2>1, Zenon DEF InnerBy
<1> QED
    BY <1>5, <1>6

(* What protoc takes behind what is written.                               *)
LineFits(l) ==
  /\ l.is \in {"message", "empty"} => Append(Parsed.at, l.name) \notin Messages
  /\ l.is = "field" => Parsed.at # <<>> /\ \A f \in FieldsOf(Parsed.at) : f.name # l.field.name
  /\ l.is = "close" => Parsed.at # <<>>

LEMMA LinesTyped ==
  ASSUME LinesInv
  PROVE  /\ Parsed \in DocParsing /\ Parsed.at \in Seq(DocName)
         /\ \A m \in Messages : /\ m \in Seq(DocName) /\ m # <<>> /\ Last(m) \in DocName
                                /\ Parsed.fields[m] \in Seq(DocField)
         /\ DOMAIN Parsed.fields = Messages
BY ParsedTyped DEF LinesInv, DocParsing, Messages

LEMMA LinesOpen ==
  ASSUME LinesInv, NEW l \in DocLine, docLines' = Append(docLines, l), LineFits(l), l.is \in {"message", "empty"}
  PROVE  LinesInv'
<1>1. PICK n, at, fields, m :
        n = Len(docLines) /\ at = Parsed.at /\ fields = Parsed.fields /\ m = Append(at, l.name)
    OBVIOUS
<1>2. /\ n \in Nat /\ DOMAIN docLines = 1 .. n /\ docLines' \in Seq(DocLine) /\ Len(docLines') = n + 1
      /\ DOMAIN docLines' = 1 .. n + 1 /\ docLines'[n + 1] = l
      /\ Parsed' = DocParse(Parsed, l) /\ Rules' = ValidateLine(Rules, l)
      /\ \A i \in DOMAIN docLines : docLines'[i] = docLines[i] /\ ReadTo(i)' = ReadTo(i)
      /\ ReadTo(n + 1)' = Parsed
    BY <1>1, LineAdded DEF LinesInv
<1>3. /\ at \in Seq(DocName) /\ l.name \in DocName /\ (at = <<>> \/ at \in Messages) /\ DOMAIN fields = Messages
      /\ \A x \in Messages : x \in Seq(DocName) /\ x # <<>> /\ fields[x] \in Seq(DocField)
    BY <1>1, LinesTyped DEF LinesInv, DocLine
<1>4. /\ m \in Seq(DocName) /\ m # <<>> /\ Last(m) = l.name /\ Front(m) = at
      /\ IsStrictPrefix(at, m) /\ ~IsPrefix(m, at) /\ m \notin Messages /\ Len(m) = Len(at) + 1
    BY <1>1, <1>3, BehindFacts DEF LineFits
<1>5. \A x \in Messages : IsPrefix(x, m) <=> IsPrefix(x, at)
    <2> SUFFICES ASSUME NEW x \in Messages PROVE IsPrefix(x, m) <=> IsPrefix(x, at)
        OBVIOUS
    <2>1. IsPrefix(x, Append(at, l.name)) <=> IsPrefix(x, at) \/ x = Append(at, l.name)
        BY <1>3, PrefixBehind
    <2> QED
        BY <1>1, <1>4, <2>1
<1>6. /\ Parsed.at' = (IF l.is = "message" THEN m ELSE at)
      /\ Parsed.fields' = [x \in Messages \cup {m} |-> IF x = m THEN <<>> ELSE fields[x]]
    BY <1>1, <1>2 DEF DocParse, Messages
<1>7. Rules.current' = <<l.name>> /\ Rules.keys' = Rules.keys
    <2>1. Rules \in Validating
        BY <1>1, LineAdded DEF LinesInv
    <2> QED
        BY <1>2, <2>1 DEF ValidateLine, Validating
<1>8. /\ Messages' = Messages \cup {m} /\ Parsed.fields'[m] = <<>>
      /\ \A x \in Messages : Parsed.fields'[x] = fields[x]
    BY <1>4, <1>6 DEF Messages
<1>9. /\ \A x : \A k \in 0 .. n : InnerBy(k, x)' <=> InnerBy(k, x)
      /\ \A x : InnerBy(n + 1, x)' <=> InnerBy(n, x) \/ IsStrictPrefix(x, m)
    BY <1>1, InnerAdded DEF LinesInv
<1>10. /\ \A x \in Messages : FieldsOf(x)' = FieldsOf(x) /\ (Left(x) => Left(x)')
       /\ FieldsOf(m)' = {} /\ (l.is = "empty" => Left(m)')
    <2>1. \A x : FieldsOf(x)' = Range(Parsed.fields'[x])
        BY DEF FieldsOf
    <2>2. \A x : Left(x)' <=> Parsed.fields'[x] = <<>> /\ ~IsPrefix(x, Parsed.at')
        BY DEF Left
    <2>3. \A x : Left(x) <=> fields[x] = <<>> /\ ~IsPrefix(x, at)
        BY <1>1 DEF Left
    <2>4. \A x \in Messages : FieldsOf(x)' = FieldsOf(x)
        BY <1>1, <1>8, <2>1 DEF FieldsOf
    <2>5. \A x \in Messages : Left(x) => Left(x)'
        BY <1>5, <1>6, <1>8, <2>2, <2>3
    <2>6. FieldsOf(m)' = {}
        BY <1>8, <2>1 DEF Range
    <2>7. l.is = "empty" => Left(m)'
        BY <1>4, <1>6, <1>8, <2>2
    <2> QED
        BY <2>4, <2>5, <2>6, <2>7
<1>11. Parsed.at' = <<>> \/ Parsed.at' \in Messages'
    BY <1>3, <1>6, <1>8
<1>12. \A x \in Messages' : Len(x) > 1 => Front(x) \in Messages'
    <2>1. Len(m) > 1 => at # <<>>
        BY <1>4
    <2> QED
        BY <1>3, <1>4, <1>8, <2>1 DEF LinesInv
<1>13. MessageLines'
    <2>1. \A j \in 1 .. n : (Begins(j)' <=> Begins(j)) /\ Begun(j)' = Begun(j)
        BY <1>2 DEF Begins, Begun
    <2>2. Begins(n + 1)' /\ Begun(n + 1)' = m
        BY <1>1, <1>2 DEF Begins, Begun
    <2>3. \A x \in Messages' : \E j \in 1 .. n + 1 : Begins(j)' /\ Begun(j)' = x
        <3>1. \A x \in Messages : \E j \in 1 .. n : Begins(j) /\ Begun(j) = x
            BY <1>2 DEF LinesInv, MessageLines
        <3>2. n + 1 \in 1 .. n + 1 /\ \A j \in 1 .. n : j \in 1 .. n + 1
            BY <1>2
        <3> QED
            BY <1>8, <2>1, <2>2, <3>1, <3>2
    <2> QED
        BY <1>2, <2>3 DEF MessageLines
<1>14. FieldLines'
    <2>1. ASSUME NEW x \in Messages', NEW f \in FieldsOf(x)'
          PROVE  \E i \in 1 .. n + 1 : ReadTo(i)'.at = x /\ docLines'[i].is = "field" /\ docLines'[i].field = f
        <3>1. x \in Messages /\ f \in FieldsOf(x)
            BY <1>8, <1>10
        <3>2. PICK i \in 1 .. n : ReadTo(i).at = x /\ docLines[i].is = "field" /\ docLines[i].field = f
            BY <1>2, <3>1 DEF LinesInv, FieldLines
        <3> QED
            BY <1>2, <3>2
    <2> QED
        BY <1>2, <2>1 DEF FieldLines
<1>15. NamesOnce'
    <2>1. \A x \in Messages : \A i, j \in DOMAIN fields[x] : fields[x][i].name = fields[x][j].name => i = j
        BY <1>1 DEF LinesInv, NamesOnce
    <2>2. \A x \in Messages' : \A i, j \in DOMAIN Parsed.fields'[x] :
            Parsed.fields'[x][i].name = Parsed.fields'[x][j].name => i = j
        BY <1>8, <2>1
    <2> QED
        BY <2>2 DEF NamesOnce
<1>16. CurrentKnown'
    <2>1. m \in Messages' /\ Last(m) = Rules.current'[1] /\ (m = Parsed.at' \/ Left(m)')
        BY <1>4, <1>6, <1>7, <1>8, <1>10
    <2> QED
        BY <2>1 DEF CurrentKnown
<1>17. RulesOfFields'
    <2>1. ASSUME NEW key \in Rules.keys
          PROVE  \E x \in Messages' : /\ Last(x) = key[1]
                                      /\ Left(x)' \/ \E f \in FieldsOf(x)' : f.name = key[2] /\ f.validated = "line"
        <3>1. PICK x \in Messages : /\ Last(x) = key[1]
                                    /\ Left(x) \/ \E f \in FieldsOf(x) : f.name = key[2] /\ f.validated = "line"
            BY DEF LinesInv, RulesOfFields
        <3>2. x \in Messages' /\ FieldsOf(x)' = FieldsOf(x) /\ (Left(x) => Left(x)')
            BY <1>8, <1>10
        <3> QED
            BY <3>1, <3>2
    <2> QED
        BY <1>7, <2>1 DEF RulesOfFields
<1>18. CurrentRight'
    <2>1. Parsed.at' = m => Rules.current' = <<Last(Parsed.at')>>
        BY <1>4, <1>7
    <2>2. \A x : x = at => InnerBy(n + 1, x)'
        BY <1>4, <1>9
    <2>3. \A x : x = Parsed.at' /\ ~InnerBy(n + 1, x)' => Rules.current' = <<Last(x)>>
        BY <1>6, <2>1, <2>2
    <2>4. \A x : InnerBy(n + 1, x)' <=> \E j \in 1 .. n + 1 : Begins(j)' /\ IsStrictPrefix(x, Begun(j)')
        BY DEF InnerBy
    <2>5. (InnerBy(Len(docLines), Parsed.at))' <=>
            \E j \in 1 .. n + 1 : Begins(j)' /\ IsStrictPrefix(Parsed.at', Begun(j)')
        BY <1>2 DEF InnerBy
    <2> QED
        BY <2>3, <2>4, <2>5 DEF CurrentRight
<1>19. KeysThere'
    <2>1. ASSUME NEW i \in 1 .. n + 1, docLines'[i].is = "field", docLines'[i].field.validated = "line",
                 ~(InnerBy(i, ReadTo(i).at))'
          PROVE  <<Last(ReadTo(i)'.at), docLines'[i].field.name>> \in Rules.keys'
        <3>1. i \in 1 .. n
            BY <1>2, <2>1
        <3>2. ~InnerBy(i, ReadTo(i).at)
            <4>1. ReadTo(i)' = ReadTo(i) /\ i \in 0 .. n
                BY <1>2, <3>1
            <4>2. \A x : x = ReadTo(i).at => (InnerBy(i, x)' <=> InnerBy(i, x))
                BY <1>9, <4>1
            <4>3. (InnerBy(i, ReadTo(i).at))' <=> \E j \in 1 .. i : Begins(j)' /\ IsStrictPrefix(ReadTo(i)'.at, Begun(j)')
                BY DEF InnerBy
            <4>4. \A x : InnerBy(i, x)' <=> \E j \in 1 .. i : Begins(j)' /\ IsStrictPrefix(x, Begun(j)')
                BY DEF InnerBy
            <4> QED
                BY <2>1, <4>1, <4>2, <4>3, <4>4
        <3>3. <<Last(ReadTo(i).at), docLines[i].field.name>> \in Rules.keys
            BY <1>2, <2>1, <3>1, <3>2 DEF LinesInv, KeysThere
        <3> QED
            BY <1>2, <1>7, <3>1, <3>3
    <2> QED
        BY <1>2, <2>1 DEF KeysThere
<1> QED
    BY <1>2, <1>11, <1>12, <1>13, <1>14, <1>15, <1>16, <1>17, <1>18, <1>19 DEF LinesInv

LEMMA LinesField ==
  ASSUME LinesInv, NEW l \in DocLine, docLines' = Append(docLines, l), LineFits(l), l.is = "field"
  PROVE  LinesInv'
<1>1. PICK n, at, fields, f :
        n = Len(docLines) /\ at = Parsed.at /\ fields = Parsed.fields /\ f = l.field
    OBVIOUS
<1>2. /\ n \in Nat /\ DOMAIN docLines = 1 .. n /\ docLines' \in Seq(DocLine) /\ Len(docLines') = n + 1
      /\ DOMAIN docLines' = 1 .. n + 1 /\ docLines'[n + 1] = l
      /\ Parsed' = DocParse(Parsed, l) /\ Rules' = ValidateLine(Rules, l) /\ Rules \in Validating
      /\ \A i \in DOMAIN docLines : docLines'[i] = docLines[i] /\ ReadTo(i)' = ReadTo(i)
      /\ ReadTo(n + 1)' = Parsed
    BY <1>1, LineAdded DEF LinesInv
<1>3. /\ at \in Seq(DocName) /\ f \in DocField /\ at # <<>> /\ at \in Messages /\ DOMAIN fields = Messages
      /\ \A x \in Messages : fields[x] \in Seq(DocField)
      /\ \A g \in FieldsOf(at) : g.name # f.name
    BY <1>1, LinesTyped DEF LinesInv, DocLine, LineFits
<1>4. /\ Parsed.at' = at
      /\ Parsed.fields' = [fields EXCEPT ![at] = Append(@, f)]
    <2>1. Parsed' = [Parsed EXCEPT !.fields[Parsed.at] = Append(@, l.field)]
        BY <1>2 DEF DocParse
    <2>2. Parsed \in DocParsing
        BY LinesTyped
    <2> QED
        BY <1>1, <2>1, <2>2 DEF DocParsing
<1>5. /\ Messages' = Messages /\ Parsed.fields'[at] = Append(fields[at], f)
      /\ \A x \in Messages : x # at => Parsed.fields'[x] = fields[x]
    BY <1>3, <1>4 DEF Messages
<1>6. /\ Rules.current' = Rules.current
      /\ Rules.keys' = (IF Rules.current # <<>> /\ f.validated = "line"
                        THEN Rules.keys \cup {<<Rules.current[1], f.name>>} ELSE Rules.keys)
    BY <1>1, <1>2 DEF ValidateLine, Validating
<1>7. \A x : \A k \in 0 .. n : InnerBy(k, x)' <=> InnerBy(k, x)
    BY <1>1, InnerAdded DEF LinesInv
<1>8. \A x : InnerBy(n + 1, x)' <=> InnerBy(n, x)
    BY <1>1, InnerAdded DEF LinesInv
<1>9. /\ \A x \in Messages : Left(x) => x # at /\ Left(x)'
      /\ \A x \in Messages : FieldsOf(x)' = FieldsOf(x) \cup (IF x = at THEN {f} ELSE {})
    <2>1. \A x : FieldsOf(x)' = Range(Parsed.fields'[x]) /\ FieldsOf(x) = Range(fields[x])
        BY <1>1 DEF FieldsOf
    <2>2. \A x : Left(x)' <=> Parsed.fields'[x] = <<>> /\ ~IsPrefix(x, at)
        BY <1>4 DEF Left
    <2>3. \A x : Left(x) <=> fields[x] = <<>> /\ ~IsPrefix(x, at)
        BY <1>1 DEF Left
    <2>4. IsPrefix(at, at)
        BY <1>3 DEF IsPrefix
    <2>5. \A x \in Messages : Left(x) => x # at /\ Left(x)'
        BY <1>5, <2>2, <2>3, <2>4
    <2>6. Range(Append(fields[at], f)) = Range(fields[at]) \cup {f}
        <3> DEFINE s == fields[at]
        <3>1. s \in Seq(DocField)
            BY <1>3
        <3> HIDE DEF s
        <3>2. /\ Len(s) \in Nat /\ DOMAIN s = 1 .. Len(s) /\ DOMAIN Append(s, f) = 1 .. Len(s) + 1
              /\ Append(s, f)[Len(s) + 1] = f /\ \A i \in 1 .. Len(s) : Append(s, f)[i] = s[i]
            BY <1>3, <3>1
        <3>3. Range(Append(s, f)) = Range(s) \cup {f}
            BY <3>2 DEF Range
        <3> QED
            BY <3>3 DEF s
    <2>7. ASSUME NEW x \in Messages PROVE FieldsOf(x)' = FieldsOf(x) \cup (IF x = at THEN {f} ELSE {})
        <3>1. CASE x = at
            BY <1>5, <2>1, <2>6, <3>1
        <3>2. CASE x # at
            <4>1. Parsed.fields'[x] = fields[x]
                BY <1>5, <3>2
            <4> QED
                BY <2>1, <3>2, <4>1
        <3> QED
            BY <3>1, <3>2
    <2> QED
        BY <2>5, <2>7
<1>10. Parsed.at' = <<>> \/ Parsed.at' \in Messages'
    BY <1>3, <1>4, <1>5
<1>11. \A x \in Messages' : Len(x) > 1 => Front(x) \in Messages'
    BY <1>5 DEF LinesInv
<1>12. MessageLines'
    <2>1. \A j \in 1 .. n : (Begins(j)' <=> Begins(j)) /\ Begun(j)' = Begun(j)
        BY <1>2 DEF Begins, Begun
    <2>2. \A x \in Messages : \E j \in 1 .. n : Begins(j) /\ Begun(j) = x
        BY <1>2 DEF LinesInv, MessageLines
    <2>3. \A j \in 1 .. n : j \in 1 .. n + 1
        BY <1>2
    <2>4. \A x \in Messages' : \E j \in 1 .. n + 1 : Begins(j)' /\ Begun(j)' = x
        BY <1>5, <2>1, <2>2, <2>3
    <2> QED
        BY <1>2, <2>4 DEF MessageLines
<1>13. FieldLines'
    <2>1. ASSUME NEW x \in Messages', NEW g \in FieldsOf(x)'
          PROVE  \E i \in 1 .. n + 1 : ReadTo(i)'.at = x /\ docLines'[i].is = "field" /\ docLines'[i].field = g
        <3>1. x \in Messages /\ (g \in FieldsOf(x) \/ (x = at /\ g = f))
            BY <1>5, <1>9
        <3>2. CASE g \in FieldsOf(x)
            <4>1. PICK i \in 1 .. n : ReadTo(i).at = x /\ docLines[i].is = "field" /\ docLines[i].field = g
                BY <1>2, <3>1, <3>2 DEF LinesInv, FieldLines
            <4> QED
                BY <1>2, <4>1
        <3>3. CASE x = at /\ g = f
            <4>1. n + 1 \in 1 .. n + 1
                BY <1>2
            <4> QED
                BY <1>1, <1>2, <3>3, <4>1
        <3> QED
            BY <3>1, <3>2, <3>3
    <2> QED
        BY <1>2, <2>1 DEF FieldLines
<1>14. NamesOnce'
    <2>1. \A x \in Messages : \A i, j \in DOMAIN fields[x] : fields[x][i].name = fields[x][j].name => i = j
        BY <1>1 DEF LinesInv, NamesOnce
    <2>2. \A x \in Messages : x # at => \A i, j \in DOMAIN Parsed.fields'[x] :
            Parsed.fields'[x][i].name = Parsed.fields'[x][j].name => i = j
        BY <1>5, <2>1
    <2>3. \A i, j \in DOMAIN Parsed.fields'[at] : Parsed.fields'[at][i].name = Parsed.fields'[at][j].name => i = j
        <3>1. PICK s : s = fields[at]
            OBVIOUS
        <3>2. /\ s \in Seq(DocField)
              /\ \A i, j \in DOMAIN s : s[i].name = s[j].name => i = j
            BY <1>3, <2>1, <3>1
        <3>3. \A i \in DOMAIN s : s[i].name # f.name
            BY <1>1, <1>3, <3>1 DEF FieldsOf, Range
        <3>4. /\ Len(s) \in Nat /\ DOMAIN s = 1 .. Len(s) /\ DOMAIN Append(s, f) = 1 .. Len(s) + 1
              /\ Append(s, f)[Len(s) + 1] = f /\ \A i \in 1 .. Len(s) : Append(s, f)[i] = s[i]
            BY <1>3, <3>2
        <3>5. \A i, j \in DOMAIN Append(s, f) : Append(s, f)[i].name = Append(s, f)[j].name => i = j
            <4> SUFFICES ASSUME NEW i \in 1 .. Len(s) + 1, NEW j \in 1 .. Len(s) + 1,
                                Append(s, f)[i].name = Append(s, f)[j].name
                         PROVE  i = j
                BY <3>4
            <4>1. \A k \in 1 .. Len(s) + 1 : k \in 1 .. Len(s) \/ k = Len(s) + 1
                BY <3>4
            <4> QED
                BY <3>2, <3>3, <3>4, <4>1
        <3> QED
            BY <1>5, <3>1, <3>5
    <2> QED
        BY <1>5, <2>2, <2>3 DEF NamesOnce
<1>15. CurrentKnown'
    <2>1. ASSUME Rules.current # <<>>
          PROVE  \E c \in Messages : Last(c) = Rules.current[1] /\ (c = Parsed.at' \/ Left(c)')
        <3>1. PICK c \in Messages : Last(c) = Rules.current[1] /\ (c = at \/ Left(c))
            BY <1>1, <2>1 DEF LinesInv, CurrentKnown
        <3> QED
            BY <1>4, <1>9, <3>1
    <2> QED
        BY <1>5, <1>6, <2>1 DEF CurrentKnown
<1>16. RulesOfFields'
    <2>1. ASSUME NEW key \in Rules.keys'
          PROVE  \E x \in Messages' : /\ Last(x) = key[1]
                                      /\ Left(x)' \/ \E g \in FieldsOf(x)' : g.name = key[2] /\ g.validated = "line"
        <3>1. CASE key \in Rules.keys
            <4>1. PICK x \in Messages : /\ Last(x) = key[1]
                                        /\ Left(x) \/ \E g \in FieldsOf(x) : g.name = key[2] /\ g.validated = "line"
                BY <3>1 DEF LinesInv, RulesOfFields
            <4>2. x \in Messages' /\ FieldsOf(x) \subseteq FieldsOf(x)' /\ (Left(x) => Left(x)')
                BY <1>5, <1>9
            <4> QED
                BY <4>1, <4>2
        <3>2. CASE key \notin Rules.keys
            <4>1. Rules.current # <<>> /\ f.validated = "line" /\ key[1] = Rules.current[1] /\ key[2] = f.name
                BY <1>6, <2>1, <3>2
            <4>2. PICK c \in Messages : Last(c) = Rules.current[1] /\ (c = at \/ Left(c))
                BY <1>1, <4>1 DEF LinesInv, CurrentKnown
            <4>3. c \in Messages' /\ (Left(c) => Left(c)') /\ (c = at => f \in FieldsOf(c)')
                BY <1>5, <1>9
            <4> QED
                BY <4>1, <4>2, <4>3
        <3> QED
            BY <3>1, <3>2
    <2> QED
        BY <2>1 DEF RulesOfFields
<1>17. CurrentRight'
    <2>1. \A x : x = at /\ ~InnerBy(n + 1, x)' => Rules.current' = <<Last(x)>>
        BY <1>1, <1>3, <1>6, <1>8 DEF LinesInv, CurrentRight
    <2>2. \A x : InnerBy(n + 1, x)' <=> \E j \in 1 .. n + 1 : Begins(j)' /\ IsStrictPrefix(x, Begun(j)')
        BY DEF InnerBy
    <2>3. (InnerBy(Len(docLines), Parsed.at))' <=>
            \E j \in 1 .. n + 1 : Begins(j)' /\ IsStrictPrefix(Parsed.at', Begun(j)')
        BY <1>2 DEF InnerBy
    <2> QED
        BY <1>4, <2>1, <2>2, <2>3 DEF CurrentRight
<1>18. KeysThere'
    <2>1. ASSUME NEW i \in 1 .. n + 1, docLines'[i].is = "field", docLines'[i].field.validated = "line",
                 ~(InnerBy(i, ReadTo(i).at))'
          PROVE  <<Last(ReadTo(i)'.at), docLines'[i].field.name>> \in Rules.keys'
        <3>1. (InnerBy(i, ReadTo(i).at))' <=> \E j \in 1 .. i : Begins(j)' /\ IsStrictPrefix(ReadTo(i)'.at, Begun(j)')
            BY DEF InnerBy
        <3>2. \A x : InnerBy(i, x)' <=> \E j \in 1 .. i : Begins(j)' /\ IsStrictPrefix(x, Begun(j)')
            BY DEF InnerBy
        <3>3. \A x : x = ReadTo(i)'.at => ~InnerBy(i, x)'
            BY <2>1, <3>1, <3>2
        <3>4. CASE i \in 1 .. n
            <4>1. ReadTo(i)' = ReadTo(i) /\ i \in 0 .. n
                BY <1>2, <3>4
            <4>2. ~InnerBy(i, ReadTo(i).at)
                BY <1>7, <3>3, <4>1
            <4>3. <<Last(ReadTo(i).at), docLines[i].field.name>> \in Rules.keys
                BY <1>2, <2>1, <3>4, <4>2 DEF LinesInv, KeysThere
            <4> QED
                BY <1>2, <1>6, <3>4, <4>1, <4>3
        <3>5. CASE i = n + 1
            <4>1. ReadTo(i)' = Parsed /\ docLines'[i].field = f
                BY <1>1, <1>2, <3>5
            <4>2. ~InnerBy(n, at)
                BY <1>1, <1>8, <3>3, <3>5, <4>1
            <4>3. Rules.current = <<Last(at)>>
                BY <1>1, <1>3, <4>2 DEF LinesInv, CurrentRight
            <4>4. Rules.current # <<>> /\ Rules.current[1] = Last(at)
                BY <4>3
            <4> QED
                BY <1>1, <1>6, <2>1, <4>1, <4>4
        <3>6. i \in 1 .. n \/ i = n + 1
            BY <1>2
        <3> QED
            BY <3>4, <3>5, <3>6
    <2> QED
        BY <1>2, <2>1 DEF KeysThere
<1> QED
    BY <1>2, <1>10, <1>11, <1>12, <1>13, <1>14, <1>15, <1>16, <1>17, <1>18 DEF LinesInv

LEMMA LinesClose ==
  ASSUME LinesInv, NEW l \in DocLine, docLines' = Append(docLines, l), LineFits(l), l.is = "close"
  PROVE  LinesInv'
<1>1. PICK n, at, up : n = Len(docLines) /\ at = Parsed.at /\ up = Front(at)
    OBVIOUS
<1>2. /\ n \in Nat /\ DOMAIN docLines = 1 .. n /\ docLines' \in Seq(DocLine) /\ Len(docLines') = n + 1
      /\ DOMAIN docLines' = 1 .. n + 1 /\ docLines'[n + 1] = l
      /\ Parsed' = DocParse(Parsed, l) /\ Rules' = ValidateLine(Rules, l) /\ Rules \in Validating
      /\ \A i \in DOMAIN docLines : docLines'[i] = docLines[i] /\ ReadTo(i)' = ReadTo(i)
      /\ ReadTo(n + 1)' = Parsed
    BY <1>1, LineAdded DEF LinesInv
<1>3. /\ at \in Seq(DocName) /\ at # <<>> /\ at \in Messages
      /\ \A x \in Messages : x \in Seq(DocName)
    BY <1>1, LinesTyped DEF LinesInv, LineFits
<1>4. /\ up \in Seq(DocName) /\ Last(at) \in DocName /\ at = Append(up, Last(at))
      /\ (up # <<>> <=> Len(at) > 1) /\ IsStrictPrefix(up, at)
    BY <1>1, <1>3, FrontFacts
<1>5. Parsed.at' = up /\ Parsed.fields' = Parsed.fields
    <2>1. Parsed' = [Parsed EXCEPT !.at = Front(Parsed.at)]
        BY <1>2 DEF DocParse
    <2>2. Parsed \in DocParsing
        BY LinesTyped
    <2> QED
        BY <1>1, <2>1, <2>2 DEF DocParsing
<1>6. Messages' = Messages /\ \A x : FieldsOf(x)' = FieldsOf(x)
    BY <1>5 DEF Messages, FieldsOf
<1>7. Rules.current' = <<>> /\ Rules.keys' = Rules.keys
    BY <1>2 DEF ValidateLine, Validating
<1>8. /\ \A x : \A k \in 0 .. n : InnerBy(k, x)' <=> InnerBy(k, x)
      /\ \A x : InnerBy(n + 1, x)' <=> InnerBy(n, x)
    BY <1>1, InnerAdded DEF LinesInv
<1>9. \A x \in Messages : Left(x) => Left(x)'
    <2> SUFFICES ASSUME NEW x \in Messages, Left(x) PROVE Left(x)'
        OBVIOUS
    <2>1. Parsed.fields[x] = <<>> /\ ~IsPrefix(x, at)
        BY <1>1 DEF Left
    <2>2. IsPrefix(x, up) => IsPrefix(x, Append(up, Last(at)))
        BY <1>3, <1>4, PrefixBehind
    <2> QED
        BY <1>4, <1>5, <2>1, <2>2 DEF Left
<1>10. Parsed.at' = <<>> \/ Parsed.at' \in Messages'
    BY <1>1, <1>3, <1>4, <1>5, <1>6 DEF LinesInv
<1>11. \A x \in Messages' : Len(x) > 1 => Front(x) \in Messages'
    BY <1>6 DEF LinesInv
<1>12. MessageLines'
    <2>1. \A j \in 1 .. n : (Begins(j)' <=> Begins(j)) /\ Begun(j)' = Begun(j)
        BY <1>2 DEF Begins, Begun
    <2>2. \A x \in Messages : \E j \in 1 .. n : Begins(j) /\ Begun(j) = x
        BY <1>2 DEF LinesInv, MessageLines
    <2>3. \A j \in 1 .. n : j \in 1 .. n + 1
        BY <1>2
    <2>4. \A x \in Messages' : \E j \in 1 .. n + 1 : Begins(j)' /\ Begun(j)' = x
        BY <1>6, <2>1, <2>2, <2>3
    <2> QED
        BY <1>2, <2>4 DEF MessageLines
<1>13. FieldLines'
    <2>1. ASSUME NEW x \in Messages', NEW g \in FieldsOf(x)'
          PROVE  \E i \in 1 .. n + 1 : ReadTo(i)'.at = x /\ docLines'[i].is = "field" /\ docLines'[i].field = g
        <3>1. PICK i \in 1 .. n : ReadTo(i).at = x /\ docLines[i].is = "field" /\ docLines[i].field = g
            BY <1>2, <1>6, <2>1 DEF LinesInv, FieldLines
        <3> QED
            BY <1>2, <3>1
    <2> QED
        BY <1>2, <2>1 DEF FieldLines
<1>14. NamesOnce'
    BY <1>5, <1>6 DEF NamesOnce, LinesInv
<1>15. CurrentKnown'
    BY <1>7 DEF CurrentKnown
<1>16. RulesOfFields'
    <2>1. ASSUME NEW key \in Rules.keys
          PROVE  \E x \in Messages' : /\ Last(x) = key[1]
                                      /\ Left(x)' \/ \E g \in FieldsOf(x)' : g.name = key[2] /\ g.validated = "line"
        <3>1. PICK x \in Messages : /\ Last(x) = key[1]
                                    /\ Left(x) \/ \E g \in FieldsOf(x) : g.name = key[2] /\ g.validated = "line"
            BY DEF LinesInv, RulesOfFields
        <3> QED
            BY <1>6, <1>9, <3>1
    <2> QED
        BY <1>7, <2>1 DEF RulesOfFields
<1>17. CurrentRight'
    <2>1. PICK j \in 1 .. n : Begins(j) /\ Begun(j) = at
        BY <1>2, <1>3 DEF LinesInv, MessageLines
    <2>2. \A x : x = up => InnerBy(n + 1, x)'
        BY <1>4, <1>8, <2>1 DEF InnerBy
    <2>3. \A x : InnerBy(n + 1, x)' <=> \E i \in 1 .. n + 1 : Begins(i)' /\ IsStrictPrefix(x, Begun(i)')
        BY DEF InnerBy
    <2>4. (InnerBy(Len(docLines), Parsed.at))' <=>
            \E i \in 1 .. n + 1 : Begins(i)' /\ IsStrictPrefix(Parsed.at', Begun(i)')
        BY <1>2 DEF InnerBy
    <2> QED
        BY <1>5, <2>2, <2>3, <2>4 DEF CurrentRight
<1>18. KeysThere'
    <2>1. ASSUME NEW i \in 1 .. n + 1, docLines'[i].is = "field", docLines'[i].field.validated = "line",
                 ~(InnerBy(i, ReadTo(i).at))'
          PROVE  <<Last(ReadTo(i)'.at), docLines'[i].field.name>> \in Rules.keys'
        <3>1. (InnerBy(i, ReadTo(i).at))' <=> \E j \in 1 .. i : Begins(j)' /\ IsStrictPrefix(ReadTo(i)'.at, Begun(j)')
            BY DEF InnerBy
        <3>2. \A x : InnerBy(i, x)' <=> \E j \in 1 .. i : Begins(j)' /\ IsStrictPrefix(x, Begun(j)')
            BY DEF InnerBy
        <3>3. \A x : x = ReadTo(i)'.at => ~InnerBy(i, x)'
            BY <2>1, <3>1, <3>2
        <3>4. i \in 1 .. n
            BY <1>2, <2>1
        <3>5. ReadTo(i)' = ReadTo(i) /\ i \in 0 .. n
            BY <1>2, <3>4
        <3>6. ~InnerBy(i, ReadTo(i).at)
            BY <1>8, <3>3, <3>5
        <3>7. <<Last(ReadTo(i).at), docLines[i].field.name>> \in Rules.keys
            BY <1>2, <2>1, <3>4, <3>6 DEF LinesInv, KeysThere
        <3> QED
            BY <1>2, <1>7, <3>4, <3>5, <3>7
    <2> QED
        BY <1>2, <2>1 DEF KeysThere
<1> QED
    BY <1>2, <1>10, <1>11, <1>12, <1>13, <1>14, <1>15, <1>16, <1>17, <1>18 DEF LinesInv

(* The types of fields and the map of messages, once the table is begun.   *)
TypesKnown == \A m \in Messages : \A f \in FieldsOf(m) : f.type \in Messages \/ Last(f.type) \in Scalars
MapKnown ==
  /\ DOMAIN msgMap = {Last(m) : m \in Messages}
  /\ \A n \in DOMAIN msgMap : msgMap[n] \in Messages /\ Last(msgMap[n]) = n
Tables == LinesInv /\ request \in Messages /\ TypesKnown /\ MapKnown /\ ~Namesakes

LEMMA FieldTyped ==
  ASSUME LinesInv, NEW m \in Messages, NEW f \in FieldsOf(m)
  PROVE  /\ f \in DocField /\ f.name \in PathName /\ f.name \in STRING
         /\ f.type # <<>> /\ (f.type \in Seq(DocName) \/ \E t \in Scalars : f.type = <<t>>)
         /\ f.label \in {"", "optional", "repeated"} /\ f.validated \in {"line", "below", "none"}
         /\ f.demanded \in BOOLEAN /\ (f.demanded => f.validated # "none")
<1>1. Parsed.fields[m] \in Seq(DocField)
    BY LinesTyped
<1>2. f \in DocField
    BY <1>1 DEF FieldsOf, Range
<1>3. f \in [name : STRING, type : (Seq(DocName) \ {<<>>}) \cup {<<t>> : t \in Scalars},
             label : {"", "optional", "repeated"}, validated : {"line", "below", "none"}, demanded : BOOLEAN]
    BY <1>2, ProtoDocAssumption
<1>6. f.demanded => f.validated # "none"
    BY <1>2, ProtoDocAssumption
<1>4. f.type \in (Seq(DocName) \ {<<>>}) \cup {<<t>> : t \in Scalars}
    BY <1>3
<1>5. f.type # <<>> /\ (f.type \in Seq(DocName) \/ \E t \in Scalars : f.type = <<t>>)
    BY <1>4
<1> QED
    BY <1>2, <1>3, <1>5, <1>6 DEF PathName

(* The message of a field is found, and nothing for one without.           *)
LEMMA LookedUp ==
  ASSUME Tables, NEW m \in Messages, NEW f \in FieldsOf(m)
  PROVE  \/ f.type \in Messages /\ Last(f.type) \notin Scalars /\ LookupMsg(f) = {f.type} /\ msgMap[Last(f.type)] = f.type
         \/ f.type \notin Messages /\ Last(f.type) \in Scalars /\ LookupMsg(f) = {}
<1>1. \A x \in Messages : Last(x) \in DocName /\ Last(x) \notin Scalars
    BY LinesTyped, ProtoDocAssumption DEF Tables
<1>2. CASE f.type \in Messages
    <2>1. Last(f.type) \in DOMAIN msgMap
        BY <1>2 DEF Tables, MapKnown
    <2>2. msgMap[Last(f.type)] \in Messages /\ Last(msgMap[Last(f.type)]) = Last(f.type)
        BY <2>1 DEF Tables, MapKnown
    <2>3. msgMap[Last(f.type)] = f.type
        BY <1>2, <2>2 DEF Tables, Namesakes
    <2> QED
        BY <1>1, <1>2, <2>1, <2>3 DEF LookupMsg
<1>3. CASE f.type \notin Messages
    <2>1. Last(f.type) \in Scalars
        BY <1>3 DEF Tables, TypesKnown
    <2>2. Last(f.type) \notin DOMAIN msgMap
        BY <1>1, <2>1 DEF Tables, MapKnown
    <2> QED
        BY <1>3, <2>1, <2>2 DEF LookupMsg
<1> QED
    BY <1>2, <1>3

(* A field of the request, or of a message in it.                          *)
Whole(m, f) == [msg |-> m, type |-> f.type, field |-> f]
IsField(path, msg, f) ==
  /\ path \in Seq(PathName) /\ path # <<>>
  /\ \E m \in Messages : f \in FieldsOf(m) /\ Last(m) = msg /\ FieldAt(path) = Whole(m, f)

LEMMA OnPaths ==
  docLines \in Seq(DocLine) /\ request \in Messages =>
    /\ FieldAt(<<>>) = Top
    /\ \A p \in Seq(PathName) : FieldAt(p) \in ProtoPlaces
    /\ \A p \in Seq(PathName), name \in PathName : FieldAt(Append(p, name)) = Follow(FieldAt(p), name)
<1> SUFFICES ASSUME docLines \in Seq(DocLine), request \in Messages
             PROVE  /\ FieldAt(<<>>) = Top
                    /\ \A p \in Seq(PathName) : FieldAt(p) \in ProtoPlaces
                    /\ \A p \in Seq(PathName), name \in PathName : FieldAt(Append(p, name)) = Follow(FieldAt(p), name)
    OBVIOUS
<1>1. \A p : FieldAt(p) = FoldLeft(Follow, Top, p)
    BY Zenon DEF FieldAt, Top
<1>2. FieldAt(<<>>) = Top
    BY <1>1, PathNone
<1>3. ASSUME NEW p \in Seq(PathName), NEW name \in PathName
      PROVE  FieldAt(p) \in ProtoPlaces /\ FieldAt(Append(p, name)) = Follow(FieldAt(p), name)
    BY <1>1, PathAppend, Zenon
<1>4. ASSUME NEW p \in Seq(PathName)
      PROVE  FieldAt(p) \in ProtoPlaces
    <2>1. CASE p = <<>>
        BY <1>2, <2>1, TopTyped
    <2>2. CASE p # <<>>
        <3>1. Last(p) \in PathName
            BY <2>2, FrontFacts
        <3> QED
            BY <1>3, <3>1
    <2> QED
        BY <2>1, <2>2
<1> QED
    BY <1>2, <1>3, <1>4

(* From a place, the fields of its message are found by their names.       *)
LEMMA FoundBelow ==
  ASSUME Tables, NEW at, NEW name
  PROVE  /\ at.type \notin Messages => Follow(at, name) = [msg |-> <<>>, type |-> <<>>]
         /\ Follow(at, name).msg # <<>> =>
              at.type \in Messages /\ \E f \in FieldsOf(at.type) : f.name = name /\ Follow(at, name) = Whole(at.type, f)
         /\ \A f : at.type \in Messages /\ f \in FieldsOf(at.type) /\ f.name = name => Follow(at, name) = Whole(at.type, f)
<1>1. CASE /\ \A f : ~NamedField(at, name, f)
           /\ Follow(at, name) = [msg |-> <<>>, type |-> <<>>]
    BY <1>1 DEF NamedField
<1>2. CASE \E f : NamedField(at, name, f) /\ Follow(at, name) = [msg |-> at.type, type |-> f.type, field |-> f]
    <2>1. PICK f : NamedField(at, name, f) /\ Follow(at, name) = [msg |-> at.type, type |-> f.type, field |-> f]
        BY <1>2
    <2>2. at.type \in Messages /\ f \in FieldsOf(at.type) /\ f.name = name /\ Follow(at, name) = Whole(at.type, f)
        BY <2>1 DEF NamedField, Whole
    <2>3. ASSUME NEW g \in FieldsOf(at.type), g.name = name PROVE g = f
        <3>1. PICK i \in DOMAIN Parsed.fields[at.type] : f = Parsed.fields[at.type][i]
            BY <2>2 DEF FieldsOf, Range
        <3>2. PICK j \in DOMAIN Parsed.fields[at.type] : g = Parsed.fields[at.type][j]
            BY <2>3 DEF FieldsOf, Range
        <3> QED
            BY <2>2, <2>3, <3>1, <3>2 DEF Tables, LinesInv, NamesOnce
    <2> QED
        BY <2>2, <2>3
<1> QED
    BY <1>1, <1>2, FollowIs

(* A path that is found, in front of it and behind it.                     *)
LEMMA FoundBehind ==
  ASSUME Tables, NEW q \in Seq(PathName), NEW name \in PathName, FieldAt(Append(q, name)).msg # <<>>
  PROVE  /\ FieldAt(q).type \in Messages
         /\ \E f \in FieldsOf(FieldAt(q).type) : f.name = name /\ FieldAt(Append(q, name)) = Whole(FieldAt(q).type, f)
         /\ q = <<>> \/ FieldAt(q).msg # <<>>
<1>1. docLines \in Seq(DocLine) /\ request \in Messages
    BY DEF Tables, LinesInv
<1>2. FieldAt(Append(q, name)) = Follow(FieldAt(q), name)
    BY <1>1, OnPaths
<1>3. /\ FieldAt(q).type \in Messages
      /\ \E f \in FieldsOf(FieldAt(q).type) : f.name = name /\ FieldAt(Append(q, name)) = Whole(FieldAt(q).type, f)
    <2>1. Follow(FieldAt(q), name).msg # <<>>
        BY <1>2
    <2>2. /\ FieldAt(q).type \in Messages
          /\ \E f \in FieldsOf(FieldAt(q).type) : f.name = name /\ Follow(FieldAt(q), name) = Whole(FieldAt(q).type, f)
        BY <2>1, FoundBelow, Zenon
    <2> QED
        BY <1>2, <2>2
<1>4. q = <<>> \/ FieldAt(q).msg # <<>>
    <2>1. CASE q = <<>>
        BY <2>1
    <2>2. CASE q # <<>>
        <3>1. PICK r \in Seq(PathName), n \in PathName : q = Append(r, n)
            BY <2>2, FrontFacts
        <3>2. FieldAt(q) = Follow(FieldAt(r), n)
            BY <1>1, <3>1, OnPaths
        <3>3. \A m \in Messages : m # <<>>
            BY LinesTyped DEF Tables
        <3>4. FieldAt(q).type # <<>>
            BY <1>3, <3>3
        <3>5. CASE \E f : NamedField(FieldAt(r), n, f) /\ FieldAt(q) = [msg |-> FieldAt(r).type, type |-> f.type, field |-> f]
            <4>1. FieldAt(r).type \in Messages /\ FieldAt(q).msg = FieldAt(r).type
                BY <3>5 DEF NamedField
            <4> QED
                BY <3>3, <4>1
        <3>6. CASE FieldAt(q) = [msg |-> <<>>, type |-> <<>>]
            BY <3>4, <3>6
        <3>7. \/ Follow(FieldAt(r), n) = [msg |-> <<>>, type |-> <<>>]
              \/ \E f : /\ NamedField(FieldAt(r), n, f)
                       /\ Follow(FieldAt(r), n) = [msg |-> FieldAt(r).type, type |-> f.type, field |-> f]
            BY FollowIs, Zenon
        <3> QED
            BY <3>2, <3>5, <3>6, <3>7
    <2> QED
        BY <2>1, <2>2
<1> QED
    BY <1>3, <1>4

(* The fields of the request and of the messages in it, with their paths,  *)
(* as the command writes them.                                             *)
FieldsPlaced ==
  {x \in [path : Seq(PathName), field : DocField, msg : DocName] :
     /\ x.path # <<>>
     /\ \E m \in Messages : x.field \in FieldsOf(m) /\ Last(m) = x.msg /\ FieldAt(x.path) = Whole(m, x.field)}

LEMMA PlacedFound ==
  ASSUME Tables
  PROVE  /\ \A x \in FieldsPlaced : x.path \in Seq(PathName) /\ x.path # <<>> /\ FieldAt(x.path).msg # <<>>
         /\ \A p \in Seq(PathName) : p # <<>> /\ FieldAt(p).msg # <<>> => \E x \in FieldsPlaced : x.path = p
<1>1. \A m \in Messages : m # <<>> /\ Last(m) \in DocName
    BY LinesTyped DEF Tables
<1>2. ASSUME NEW x \in FieldsPlaced
      PROVE  x.path \in Seq(PathName) /\ x.path # <<>> /\ FieldAt(x.path).msg # <<>>
    <2>1. PICK m \in Messages : FieldAt(x.path) = Whole(m, x.field)
        BY DEF FieldsPlaced
    <2> QED
        BY <1>1, <2>1 DEF FieldsPlaced, Whole
<1>3. ASSUME NEW p \in Seq(PathName), p # <<>>, FieldAt(p).msg # <<>>
      PROVE  \E x \in FieldsPlaced : x.path = p
    <2>0. Front(p) \in Seq(PathName) /\ Last(p) \in PathName /\ p = Append(Front(p), Last(p))
        BY <1>3, FrontFacts
    <2>a. PICK q, n : q = Front(p) /\ n = Last(p)
        OBVIOUS
    <2>1. q \in Seq(PathName) /\ n \in PathName /\ p = Append(q, n)
        BY <2>0, <2>a
    <2>b. PICK m \in Messages : \E f \in FieldsOf(m) : FieldAt(p) = Whole(m, f)
        BY <1>3, <2>1, FoundBehind
    <2>2. PICK f \in FieldsOf(m) : FieldAt(p) = Whole(m, f)
        BY <2>b
    <2>3. f \in DocField
        BY <2>2, FieldTyped DEF Tables
    <2> DEFINE x == [path |-> p, field |-> f, msg |-> Last(m)]
    <2>4. x \in [path : Seq(PathName), field : DocField, msg : DocName] /\ x.path = p /\ x.field = f /\ x.msg = Last(m)
        BY <1>1, <2>2, <2>3
    <2> HIDE DEF x
    <2>5. x \in FieldsPlaced
        BY <1>3, <2>2, <2>4 DEF FieldsPlaced
    <2> QED
        BY <2>4, <2>5
<1> QED
    BY <1>2, <1>3

(* The rows of the fields of a message are those of its fields.            *)
RowsFor(q, m, rows) ==
  /\ rows \in Seq(FieldsPlaced)
  /\ \A i \in DOMAIN rows : rows[i].path = Append(q, rows[i].field.name) /\ rows[i].field.name \in PathName
  /\ \A f \in FieldsOf(m) : \E i \in DOMAIN rows : rows[i].field = f
  /\ \A i, j \in DOMAIN rows : rows[i].field.name = rows[j].field.name => i = j

LEMMA RowsPlaced ==
  ASSUME Tables, NEW q \in Seq(PathName), NEW m \in Messages, FieldAt(q).type = m
  PROVE  RowsFor(q, m, RowsOf(q, m))
<1>1. PICK fields : fields = Parsed.fields[m]
    OBVIOUS
<1>2. fields \in Seq(DocField) /\ Last(m) \in DocName
    BY <1>1, LinesTyped DEF Tables
<1>3. RowsOf(q, m) = [i \in DOMAIN fields |-> [path |-> Append(q, fields[i].name), field |-> fields[i], msg |-> Last(m)]]
    BY <1>1 DEF RowsOf
<1>4. ASSUME NEW i \in DOMAIN fields
      PROVE  fields[i].name \in PathName /\ RowsOf(q, m)[i] \in FieldsPlaced
    <2>1. fields[i] \in FieldsOf(m)
        BY <1>1, <1>2 DEF FieldsOf, Range
    <2>2. fields[i] \in DocField /\ fields[i].name \in PathName
        BY <2>1, FieldTyped DEF Tables
    <2>3. FieldAt(Append(q, fields[i].name)) = Follow(FieldAt(q), fields[i].name)
        BY <2>2, OnPaths DEF Tables, LinesInv
    <2>4. FieldAt(Append(q, fields[i].name)) = Whole(m, fields[i])
        BY <2>1, <2>3, FoundBelow
    <2>5. PICK p, f, x : p = Append(q, fields[i].name) /\ f = fields[i] /\ x = RowsOf(q, m)[i]
        OBVIOUS
    <2>6. p \in Seq(PathName) /\ p # <<>>
        BY <2>2, <2>5, BehindFacts
    <2>7. x = [path |-> p, field |-> f, msg |-> Last(m)]
        BY <1>3, <2>5
    <2>8. x \in [path : Seq(PathName), field : DocField, msg : DocName]
        BY <1>2, <2>2, <2>5, <2>6, <2>7
    <2>9. x \in FieldsPlaced
        <3>1. f \in FieldsOf(m) /\ FieldAt(p) = Whole(m, f)
            BY <2>1, <2>4, <2>5
        <3>2. x.path = p /\ x.field = f /\ x.msg = Last(m)
            BY <2>7
        <3> QED
            BY <2>6, <2>8, <3>1, <3>2 DEF FieldsPlaced
    <2> QED
        BY <2>2, <2>5, <2>9
<1>5. DOMAIN RowsOf(q, m) = DOMAIN fields /\ Len(fields) \in Nat /\ DOMAIN fields = 1 .. Len(fields)
    BY <1>2, <1>3
<1>6. \A i \in DOMAIN fields : RowsOf(q, m)[i].path = Append(q, fields[i].name) /\ RowsOf(q, m)[i].field = fields[i]
    BY <1>3
<1>7. RowsOf(q, m) \in Seq(FieldsPlaced)
    <2>1. RowsOf(q, m) \in [1 .. Len(fields) -> FieldsPlaced]
        BY <1>3, <1>4, <1>5
    <2> QED
        BY <1>5, <2>1
<1>8. \A f \in FieldsOf(m) : \E i \in DOMAIN fields : fields[i] = f
    BY <1>1 DEF FieldsOf, Range
<1>9. \A i, j \in DOMAIN fields : fields[i].name = fields[j].name => i = j
    BY <1>1 DEF Tables, LinesInv, NamesOnce
<1> QED
    BY <1>4, <1>5, <1>6, <1>7, <1>8, <1>9 DEF RowsFor

(* What is in front of a path that is found is found.                      *)
LEMMA FoundFront ==
  ASSUME Tables, NEW p \in Seq(PathName), FieldAt(p).msg # <<>>
  PROVE  \A k \in 1 .. Len(p) : FieldAt(SubSeq(p, 1, k)).msg # <<>>
<1> DEFINE n == Len(p)
           Q == {j \in 0 .. n : j = n \/ FieldAt(SubSeq(p, 1, n - j)).msg # <<>>}
<1>1. n \in Nat /\ SubSeq(p, 1, n) = p
    OBVIOUS
<1> HIDE DEF n
<1>2. 0 \in Q
    <2>1. 0 \in 0 .. n /\ n - 0 = n
        BY <1>1
    <2> QED
        BY <1>1, <2>1
<1>3. ASSUME NEW j \in 1 .. n, j - 1 \in Q PROVE j \in Q
    <2>1. CASE j = n
        BY <1>1, <2>1
    <2>2. CASE j # n
        <3>1. PICK k \in Nat : k = n - j
            BY <1>1
        <3>2. k # 0 /\ k + 1 = n - (j - 1) /\ k + 1 <= n /\ j - 1 # n /\ j \in 0 .. n
            BY <1>1, <2>2, <3>1
        <3>3. FieldAt(SubSeq(p, 1, k + 1)).msg # <<>>
            BY <1>3, <3>2
        <3>4. /\ SubSeq(p, 1, k) \in Seq(PathName) /\ p[k + 1] \in PathName /\ Len(SubSeq(p, 1, k)) = k
              /\ SubSeq(p, 1, k + 1) = Append(SubSeq(p, 1, k), p[k + 1])
            BY <1>1, <3>2 DEF n
        <3>5. SubSeq(p, 1, k) = <<>> \/ FieldAt(SubSeq(p, 1, k)).msg # <<>>
            BY <3>3, <3>4, FoundBehind
        <3>6. SubSeq(p, 1, k) # <<>>
            <4>1. Len(<<>>) = 0
                OBVIOUS
            <4> QED
                BY <3>2, <3>4, <4>1
        <3> QED
            BY <3>1, <3>2, <3>5, <3>6
    <2> QED
        BY <2>1, <2>2
<1>4. 0 .. n \subseteq Q
    BY <1>1, <1>2, <1>3, UpTo
<1>5. ASSUME NEW k \in 1 .. n PROVE FieldAt(SubSeq(p, 1, k)).msg # <<>>
    <2>1. n - k \in 0 .. n /\ n - k # n /\ n - (n - k) = k
        BY <1>1
    <2>2. n - k \in Q
        BY <1>4, <2>1
    <2> QED
        BY <2>1, <2>2
<1> QED
    BY <1>5 DEF n

LEMMA FoundNext ==
  ASSUME Tables, NEW p \in Seq(PathName), FieldAt(p).msg # <<>>, NEW q \in Seq(PathName), IsPrefix(q, p), q # p
  PROVE  \E name \in PathName : FieldAt(Append(q, name)).msg # <<>> /\ IsPrefix(Append(q, name), p)
<1>1. PICK k \in Nat, n \in Nat : k = Len(q) /\ n = Len(p)
    OBVIOUS
<1>2. k <= n /\ \A i \in 1 .. k : q[i] = p[i]
    BY <1>1, PrefixMembers
<1>3. k # n
    BY <1>1, <1>2, SeqEqual
<1>4. k + 1 \in 1 .. n /\ p[k + 1] \in PathName
    BY <1>1, <1>2, <1>3
<1>5. PICK c : c = Append(q, p[k + 1])
    OBVIOUS
<1>6. c \in Seq(PathName) /\ Len(c) = k + 1 /\ \A i \in 1 .. k + 1 : c[i] = p[i]
    <2>1. c \in Seq(PathName) /\ Len(c) = k + 1 /\ c[k + 1] = p[k + 1] /\ \A i \in 1 .. k : c[i] = q[i]
        BY <1>1, <1>4, <1>5
    <2> QED
        BY <1>2, <2>1
<1>7. IsPrefix(c, p)
    BY <1>1, <1>4, <1>6, PrefixMembers
<1>8. c = SubSeq(p, 1, k + 1)
    <2>1. PICK d : d = SubSeq(p, 1, k + 1)
        OBVIOUS
    <2>2. d \in Seq(PathName) /\ Len(d) = k + 1 /\ \A i \in 1 .. k + 1 : d[i] = p[i]
        BY <1>1, <1>4, <2>1
    <2> QED
        BY <1>6, <2>1, <2>2, SeqEqual
<1>9. FieldAt(c).msg # <<>>
    BY <1>1, <1>4, <1>8, FoundFront
<1> QED
    BY <1>4, <1>5, <1>7, <1>9

(* What is known of the fields without a row and of the rows.              *)
RowFor(x) ==
  [path |-> x.path, type |-> DocMapType(x.field), example |-> DocExampleValue(x.field),
   required |-> DocRequired(x.field, x.msg)]
WrittenRows == {RowFor(x) : x \in FieldsPlaced}
AllAhead(todo, rows) ==
  \A x \in FieldsPlaced : \/ \E i \in DOMAIN rows : rows[i].path = x.path
                    \/ \E i \in DOMAIN todo : IsPrefix(todo[i].path, x.path)
TodoApart(todo) == \A i, j \in DOMAIN todo : IsPrefix(todo[i].path, todo[j].path) => i = j
NotYet(todo, rows) == \A i \in DOMAIN todo, j \in DOMAIN rows : ~IsPrefix(todo[i].path, rows[j].path)
RowsOnce(rows) == \A i, j \in DOMAIN rows : rows[i].path = rows[j].path => i = j
RowsKnown(todo, rows) ==
  /\ todo \in Seq(FieldsPlaced) /\ rows \in Seq(WrittenRows)
  /\ \A i \in DOMAIN rows : Len(rows[i].path) <= Cardinality(Messages)
  /\ AllAhead(todo, rows) /\ TodoApart(todo) /\ NotYet(todo, rows) /\ RowsOnce(rows)

(* The fields below a path are below the rows of its message, each of them *)
(* below one.                                                              *)
LEMMA NextAhead ==
  ASSUME Tables, NEW q \in Seq(PathName), NEW x \in FieldsPlaced, IsPrefix(q, x.path), q # x.path
  PROVE  /\ FieldAt(q).type \in Messages
         /\ \E i \in DOMAIN RowsOf(q, FieldAt(q).type) : IsPrefix(RowsOf(q, FieldAt(q).type)[i].path, x.path)
<1>1. x.path \in Seq(PathName) /\ FieldAt(x.path).msg # <<>>
    BY PlacedFound
<1>2. PICK name \in PathName : FieldAt(Append(q, name)).msg # <<>> /\ IsPrefix(Append(q, name), x.path)
    BY <1>1, FoundNext
<1>3. PICK m : m = FieldAt(q).type
    OBVIOUS
<1>4. m \in Messages /\ \E f \in FieldsOf(m) : f.name = name
    BY <1>2, <1>3, FoundBehind
<1>5. PICK f \in FieldsOf(m) : f.name = name
    BY <1>4
<1>6. PICK rows : rows = RowsOf(q, m)
    OBVIOUS
<1>7. RowsFor(q, m, rows)
    BY <1>3, <1>4, <1>6, RowsPlaced
<1>8. PICK i \in DOMAIN rows : rows[i].field = f /\ rows[i].path = Append(q, f.name)
    BY <1>5, <1>7 DEF RowsFor
<1> QED
    BY <1>2, <1>3, <1>4, <1>5, <1>6, <1>8

LEMMA NextApart ==
  ASSUME Tables, NEW q \in Seq(PathName), NEW m \in Messages, FieldAt(q).type = m
  PROVE  TodoApart(RowsOf(q, m))
<1>1. PICK rows : rows = RowsOf(q, m)
    OBVIOUS
<1>2. RowsFor(q, m, rows)
    BY <1>1, RowsPlaced
<1> SUFFICES ASSUME NEW i \in DOMAIN rows, NEW j \in DOMAIN rows, IsPrefix(rows[i].path, rows[j].path)
             PROVE  i = j
    BY <1>1 DEF TodoApart
<1>3. PICK a, b : a = rows[i].field.name /\ b = rows[j].field.name
    OBVIOUS
<1>4. a \in PathName /\ b \in PathName /\ rows[i].path = Append(q, a) /\ rows[j].path = Append(q, b)
    BY <1>2, <1>3 DEF RowsFor
<1>5. IsPrefix(Append(q, a), Append(q, b))
    BY <1>4
<1>6. a = b
    BY <1>4, <1>5, PrefixAgain
<1> QED
    BY <1>2, <1>3, <1>6 DEF RowsFor

LEMMA RowsBegin ==
  Tables => RowsKnown(RowsOf(<<>>, request), <<>>)
<1> SUFFICES ASSUME Tables PROVE RowsKnown(RowsOf(<<>>, request), <<>>)
    OBVIOUS
<1>1. <<>> \in Seq(PathName) /\ <<>> \in Seq(WrittenRows) /\ DOMAIN <<>> = {}
    OBVIOUS
<1>2. request \in Messages /\ FieldAt(<<>>).type = request
    BY OnPaths DEF Tables, LinesInv, Top
<1>3. RowsOf(<<>>, request) \in Seq(FieldsPlaced) /\ TodoApart(RowsOf(<<>>, request))
    BY <1>1, <1>2, RowsPlaced, NextApart DEF RowsFor
<1>4. ASSUME NEW x \in FieldsPlaced
      PROVE  \E i \in DOMAIN RowsOf(<<>>, request) : IsPrefix(RowsOf(<<>>, request)[i].path, x.path)
    <2>1. x.path \in Seq(PathName) /\ x.path # <<>>
        BY PlacedFound
    <2>2. IsPrefix(<<>>, x.path)
        <3>1. PICK e \in Seq(PathName) : e = <<>> /\ Len(e) = 0
            BY <1>1
        <3>2. Len(e) <= Len(x.path) /\ \A i \in 1 .. Len(e) : e[i] = x.path[i]
            BY <2>1, <3>1
        <3> QED
            BY <2>1, <3>1, <3>2, PrefixMembers
    <2> QED
        BY <1>1, <1>2, <2>1, <2>2, NextAhead
<1> QED
    BY <1>1, <1>3, <1>4 DEF RowsKnown, AllAhead, NotYet, RowsOnce

(* A row is written: the fields of its message come before the others.     *)
LEMMA RowsNext ==
  ASSUME Tables, NEW todo, NEW rows, RowsKnown(todo, rows), todo # <<>>,
         Len(Head(todo).path) <= Cardinality(Messages), NEW new,
         new = IF LookupMsg(Head(todo).field) = {} THEN <<>>
               ELSE RowsOf(Head(todo).path, msgMap[Last(Head(todo).field.type)])
  PROVE  RowsKnown(new \o Tail(todo), Append(rows, RowFor(Head(todo))))
<1>1. PICK n, k, r, x, q, then, more :
        /\ n = Len(todo) /\ k = Len(new) /\ r = Len(rows) /\ x = Head(todo) /\ q = x.path
        /\ then = new \o Tail(todo) /\ more = Append(rows, RowFor(x))
    OBVIOUS
<1>2. /\ n \in Nat /\ n > 0 /\ r \in Nat /\ todo \in Seq(FieldsPlaced) /\ rows \in Seq(WrittenRows)
      /\ DOMAIN todo = 1 .. n /\ DOMAIN rows = 1 .. r /\ x = todo[1]
    BY <1>1 DEF RowsKnown
<1>3. x \in FieldsPlaced /\ q \in Seq(PathName) /\ RowFor(x) \in WrittenRows /\ RowFor(x).path = q
    <2>1. x \in FieldsPlaced
        BY <1>2
    <2> QED
        BY <1>1, <2>1, PlacedFound DEF WrittenRows, RowFor
<1>4. /\ new \in Seq(FieldsPlaced) /\ TodoApart(new)
      /\ \A i \in DOMAIN new : \E a \in PathName : new[i].path = Append(q, a)
      /\ \A y \in FieldsPlaced : IsPrefix(q, y.path) /\ q # y.path => \E i \in DOMAIN new : IsPrefix(new[i].path, y.path)
    <2>1. PICK m \in Messages : x.field \in FieldsOf(m) /\ FieldAt(q) = Whole(m, x.field)
        BY <1>1, <1>3 DEF FieldsPlaced
    <2>2. FieldAt(q).type = x.field.type
        BY <2>1 DEF Whole
    <2>3. CASE x.field.type \in Messages /\ LookupMsg(x.field) = {x.field.type} /\ msgMap[Last(x.field.type)] = x.field.type
        <3>1. new = RowsOf(q, x.field.type)
            BY <1>1, <2>3
        <3>2. RowsFor(q, x.field.type, new) /\ TodoApart(new)
            BY <1>3, <2>2, <2>3, <3>1, RowsPlaced, NextApart
        <3>3. \A i \in DOMAIN new : \E a \in PathName : new[i].path = Append(q, a)
            <4> TAKE i \in DOMAIN new
            <4>1. new[i].field.name \in PathName /\ new[i].path = Append(q, new[i].field.name)
                BY <3>2 DEF RowsFor
            <4>2. PICK a : a = new[i].field.name
                OBVIOUS
            <4> QED
                BY <4>1, <4>2
        <3>4. ASSUME NEW y \in FieldsPlaced, IsPrefix(q, y.path), q # y.path
              PROVE  \E i \in DOMAIN new : IsPrefix(new[i].path, y.path)
            BY <1>3, <2>2, <3>1, <3>4, NextAhead
        <3> QED
            BY <3>2, <3>3, <3>4 DEF RowsFor
    <2>4. CASE x.field.type \notin Messages /\ LookupMsg(x.field) = {}
        <3>1. new = <<>> /\ new \in Seq(FieldsPlaced) /\ DOMAIN new = {}
            BY <1>1, <2>4
        <3>2. \A y \in FieldsPlaced : ~(IsPrefix(q, y.path) /\ q # y.path)
            BY <1>3, <2>2, <2>4, NextAhead
        <3> QED
            BY <3>1, <3>2 DEF TodoApart
    <2> QED
        BY <2>1, <2>3, <2>4, LookedUp
<1>5. k \in Nat /\ DOMAIN new = 1 .. k
    <2>1. new \in Seq(FieldsPlaced) /\ k = Len(new)
        BY <1>1, <1>4
    <2> QED
        BY <2>1
<1>6. /\ then \in Seq(FieldsPlaced) /\ DOMAIN then = 1 .. (k + (n - 1))
      /\ \A i \in 1 .. k : then[i] = new[i]
      /\ \A i \in 2 .. n : then[k + (i - 1)] = todo[i]
    <2>1. PICK tail \in Seq(FieldsPlaced) : tail = Tail(todo) /\ Len(tail) = n - 1 /\ \A i \in 1 .. n - 1 : tail[i] = todo[i + 1]
        <3>1. Tail(todo) \in Seq(FieldsPlaced) /\ Len(Tail(todo)) = n - 1 /\ \A i \in 1 .. n - 1 : Tail(todo)[i] = todo[i + 1]
            <4>1. todo \in Seq(FieldsPlaced) /\ n = Len(todo) /\ n > 0
                BY <1>1, <1>2
            <4> QED
                BY <4>1
        <3> QED
            BY <3>1
    <2>2. /\ then \in Seq(FieldsPlaced) /\ Len(then) = k + (n - 1) /\ \A i \in 1 .. k : then[i] = new[i]
          /\ \A i \in 1 .. n - 1 : then[k + i] = tail[i]
        <3>1. then = new \o tail /\ new \in Seq(FieldsPlaced) /\ Len(new) = k
            BY <1>1, <1>4, <2>1
        <3>2. /\ new \o tail \in Seq(FieldsPlaced) /\ Len(new \o tail) = Len(new) + Len(tail)
              /\ \A i \in 1 .. Len(new) : (new \o tail)[i] = new[i]
            BY <2>1, <3>1
        <3>3. ASSUME NEW i \in 1 .. Len(tail) PROVE (new \o tail)[Len(new) + i] = tail[i]
            BY <2>1, <3>1
        <3> QED
            BY <2>1, <3>1, <3>2, <3>3
    <2>3. ASSUME NEW i \in 2 .. n PROVE then[k + (i - 1)] = todo[i]
        <3>1. i - 1 \in 1 .. n - 1 /\ (i - 1) + 1 = i
            BY <1>2
        <3> QED
            BY <2>1, <2>2, <3>1
    <2> QED
        BY <2>2, <2>3
<1>7. \A i \in DOMAIN then : \/ i \in 1 .. k /\ then[i] = new[i]
                             \/ \E h \in 2 .. n : i = k + (h - 1) /\ then[i] = todo[h]
    <2> SUFFICES ASSUME NEW i \in 1 .. (k + (n - 1)), i \notin 1 .. k
                 PROVE  \E h \in 2 .. n : i = k + (h - 1) /\ then[i] = todo[h]
        BY <1>6
    <2>1. (i - k) + 1 \in 2 .. n /\ i = k + (((i - k) + 1) - 1)
        BY <1>2, <1>5
    <2> QED
        BY <1>6, <2>1
<1>8. /\ more \in Seq(WrittenRows) /\ DOMAIN more = 1 .. r + 1 /\ more[r + 1].path = q
      /\ \A i \in 1 .. r : more[i] = rows[i]
    <2>1. more \in Seq(WrittenRows) /\ Len(more) = r + 1 /\ more[r + 1] = RowFor(x) /\ \A i \in 1 .. r : more[i] = rows[i]
        BY <1>1, <1>2, <1>3
    <2> QED
        BY <1>3, <2>1
<1>9. \A i \in DOMAIN more : \/ i = r + 1 /\ more[i].path = q
                             \/ i \in 1 .. r /\ more[i] = rows[i]
    BY <1>2, <1>8
<1>10. \A i \in DOMAIN more : Len(more[i].path) <= Cardinality(Messages)
    BY <1>1, <1>2, <1>9 DEF RowsKnown
<1>11. /\ \A y \in FieldsPlaced : y.path \in Seq(PathName)
       /\ \A i \in 1 .. n : todo[i] \in FieldsPlaced
       /\ \A i \in 1 .. r : rows[i].path \in Seq(PathName)
    <2>1. \A y \in FieldsPlaced : y.path \in Seq(PathName)
        BY PlacedFound
    <2>2. \A w \in WrittenRows : w.path \in Seq(PathName)
        BY <2>1 DEF WrittenRows, RowFor
    <2> QED
        BY <1>2, <2>1, <2>2
<1>12. \A i \in 1 .. k : new[i] \in FieldsPlaced
    <2>1. \A s \in Seq(FieldsPlaced) : \A i \in DOMAIN s : s[i] \in FieldsPlaced
        OBVIOUS
    <2> QED
        BY <1>4, <1>5, <2>1, Zenon
<1>13. AllAhead(then, more)
    <2> SUFFICES ASSUME NEW y \in FieldsPlaced
                 PROVE  \/ \E i \in DOMAIN more : more[i].path = y.path
                        \/ \E i \in DOMAIN then : IsPrefix(then[i].path, y.path)
        BY DEF AllAhead
    <2>1. CASE \E i \in DOMAIN rows : rows[i].path = y.path
        <3>1. PICK i \in 1 .. r : rows[i].path = y.path
            BY <1>2, <2>1
        <3>2. i \in DOMAIN more /\ more[i].path = y.path
            BY <1>2, <1>8, <3>1
        <3> QED
            BY <3>2
    <2>2. CASE q = y.path
        <3>1. r + 1 \in DOMAIN more /\ more[r + 1].path = y.path
            BY <1>2, <1>8, <2>2
        <3> QED
            BY <3>1
    <2>3. CASE q # y.path /\ IsPrefix(q, y.path)
        <3>1. PICK i \in 1 .. k : IsPrefix(new[i].path, y.path)
            BY <1>4, <1>5, <2>3
        <3>2. i \in DOMAIN then /\ then[i] = new[i]
            BY <1>2, <1>5, <1>6, <3>1
        <3> QED
            BY <3>1, <3>2
    <2>4. CASE \E i \in 2 .. n : IsPrefix(todo[i].path, y.path)
        <3>1. PICK i \in 2 .. n : IsPrefix(todo[i].path, y.path)
            BY <2>4
        <3>2. k + (i - 1) \in DOMAIN then /\ then[k + (i - 1)] = todo[i]
            BY <1>2, <1>5, <1>6, <3>1
        <3> QED
            BY <3>1, <3>2
    <2>5. (\E i \in DOMAIN rows : rows[i].path = y.path) \/ \E i \in DOMAIN todo : IsPrefix(todo[i].path, y.path)
        BY DEF RowsKnown, AllAhead
    <2>6. \A i \in DOMAIN todo : i = 1 \/ i \in 2 .. n
        BY <1>2
    <2> QED
        BY <1>1, <1>2, <2>1, <2>2, <2>3, <2>4, <2>5, <2>6
<1>14. TodoApart(then)
    <2> SUFFICES ASSUME NEW i \in DOMAIN then, NEW j \in DOMAIN then, IsPrefix(then[i].path, then[j].path)
                 PROVE  i = j
        BY DEF TodoApart
    <2>1. \A h, g \in 1 .. n : IsPrefix(todo[h].path, todo[g].path) => h = g
        BY <1>2 DEF RowsKnown, TodoApart
    <2>2. CASE i \in 1 .. k /\ then[i] = new[i] /\ j \in 1 .. k /\ then[j] = new[j]
        BY <1>4, <1>5, <2>2 DEF TodoApart
    <2>3. ASSUME NEW h \in 2 .. n, NEW g \in 2 .. n, i = k + (h - 1), then[i] = todo[h], j = k + (g - 1), then[j] = todo[g]
          PROVE  i = j
        <3>1. h \in 1 .. n /\ g \in 1 .. n
            BY <1>2
        <3> QED
            BY <2>1, <2>3, <3>1
    <2>4. ASSUME i \in 1 .. k, then[i] = new[i], NEW g \in 2 .. n, then[j] = todo[g]
          PROVE  FALSE
        <3>1. PICK a \in PathName : new[i].path = Append(q, a)
            BY <1>4, <1>5, <2>4
        <3>2. 1 \in 1 .. n /\ g \in 1 .. n /\ g # 1
            BY <1>2
        <3>3. IsPrefix(Append(q, a), todo[g].path) /\ todo[g].path \in Seq(PathName)
            BY <1>11, <2>4, <3>1, <3>2
        <3>4. IsPrefix(q, todo[g].path)
            BY <1>3, <3>3, PrefixAgain
        <3> QED
            BY <1>1, <1>2, <2>1, <3>2, <3>4
    <2>5. ASSUME j \in 1 .. k, then[j] = new[j], NEW h \in 2 .. n, then[i] = todo[h]
          PROVE  FALSE
        <3>1. PICK a \in PathName : new[j].path = Append(q, a)
            BY <1>4, <1>5, <2>5
        <3>2. 1 \in 1 .. n /\ h \in 1 .. n /\ h # 1
            BY <1>2
        <3>3. IsPrefix(todo[h].path, Append(q, a)) /\ todo[h].path \in Seq(PathName)
            BY <1>11, <2>5, <3>1, <3>2
        <3>4. CASE IsPrefix(todo[h].path, q)
            BY <1>1, <1>2, <2>1, <3>2, <3>4
        <3>5. CASE todo[h].path = Append(q, a)
            <4>1. IsPrefix(q, todo[h].path)
                BY <1>3, <3>5, BehindFacts DEF IsStrictPrefix
            <4> QED
                BY <1>1, <1>2, <2>1, <3>2, <4>1
        <3> QED
            BY <1>3, <3>3, <3>4, <3>5, PrefixBehind
    <2> QED
        BY <1>7, <2>2, <2>3, <2>4, <2>5
<1>15. NotYet(then, more)
    <2> SUFFICES ASSUME NEW i \in DOMAIN then, NEW j \in DOMAIN more, IsPrefix(then[i].path, more[j].path)
                 PROVE  FALSE
        BY DEF NotYet
    <2>1. \A h \in 1 .. n, g \in 1 .. r : ~IsPrefix(todo[h].path, rows[g].path)
        BY <1>2 DEF RowsKnown, NotYet
    <2>2. 1 \in 1 .. n /\ \A h \in 2 .. n : h \in 1 .. n /\ h # 1
        BY <1>2
    <2>3. CASE i \in 1 .. k /\ then[i] = new[i]
        <3>1. PICK a \in PathName : new[i].path = Append(q, a)
            BY <1>4, <1>5, <2>3
        <3>2. CASE j \in 1 .. r /\ more[j] = rows[j]
            <4>0. IsPrefix(Append(q, a), rows[j].path) /\ rows[j].path \in Seq(PathName)
                BY <1>11, <2>3, <3>1, <3>2
            <4>1. IsPrefix(q, rows[j].path)
                BY <1>3, <4>0, PrefixAgain
            <4> QED
                BY <1>1, <1>2, <2>1, <2>2, <3>2, <4>1
        <3>3. CASE more[j].path = q
            <4>1. IsPrefix(Append(q, a), q)
                BY <2>3, <3>1, <3>3
            <4> QED
                BY <1>3, <4>1, BehindFacts
        <3> QED
            BY <1>9, <3>2, <3>3
    <2>4. ASSUME NEW h \in 2 .. n, then[i] = todo[h]
          PROVE  FALSE
        <3>1. CASE j \in 1 .. r /\ more[j] = rows[j]
            BY <2>1, <2>2, <2>4, <3>1
        <3>2. CASE more[j].path = q
            <4>1. IsPrefix(todo[h].path, todo[1].path)
                BY <1>1, <1>2, <2>4, <3>2
            <4> QED
                BY <1>2, <2>2, <4>1 DEF RowsKnown, TodoApart
        <3> QED
            BY <1>9, <3>1, <3>2
    <2> QED
        BY <1>7, <2>3, <2>4
<1>16. RowsOnce(more)
    <2> SUFFICES ASSUME NEW i \in DOMAIN more, NEW j \in DOMAIN more, more[i].path = more[j].path
                 PROVE  i = j
        BY DEF RowsOnce
    <2>1. \A g \in 1 .. r : rows[g].path # q
        <3> SUFFICES ASSUME NEW g \in 1 .. r, rows[g].path = q PROVE FALSE
            OBVIOUS
        <3>0. Len(q) \in Nat /\ Len(q) <= Len(q)
            BY <1>3
        <3>1. IsPrefix(todo[1].path, rows[g].path)
            <4>1. IsPrefix(q, q)
                BY <1>3, <3>0, PrefixMembers
            <4> QED
                BY <1>1, <1>2, <4>1
        <3>2. 1 \in DOMAIN todo /\ g \in DOMAIN rows
            BY <1>2
        <3> QED
            BY <3>1, <3>2 DEF RowsKnown, NotYet
    <2>2. \A g, h \in 1 .. r : rows[g].path = rows[h].path => g = h
        BY <1>2 DEF RowsKnown, RowsOnce
    <2> QED
        BY <1>9, <2>1, <2>2
<1> QED
    BY <1>1, <1>6, <1>8, <1>10, <1>13, <1>14, <1>15, <1>16 DEF RowsKnown

LEMMA FoundWhole ==
  ASSUME Tables, NEW p \in Seq(PathName), p # <<>>, FieldAt(p).msg # <<>>
  PROVE  /\ FieldAt(p).msg \in Messages
         /\ \E f \in FieldsOf(FieldAt(p).msg) : FieldAt(p) = Whole(FieldAt(p).msg, f)
<1>1. PICK x \in FieldsPlaced : x.path = p
    BY PlacedFound
<1>2. PICK m \in Messages : x.field \in FieldsOf(m) /\ FieldAt(p) = Whole(m, x.field)
    BY <1>1 DEF FieldsPlaced
<1>3. FieldAt(p).msg = m
    BY <1>2 DEF Whole
<1> QED
    BY <1>2, <1>3

(* Where no message has itself as a part, no path is longer than there are *)
(* messages.                                                               *)
LEMMA PathsShort ==
  ASSUME Tables, NEW c, c = Cardinality(Messages), NEW rank \in [Messages -> 1 .. c],
         \A m \in Messages : \A f \in FieldsOf(m) : f.type \in Messages => rank[f.type] < rank[m],
         NEW p \in Seq(PathName), p # <<>>, FieldAt(p).msg # <<>>
  PROVE  Len(p) <= c
<1>0. c \in Nat
    BY FS_CardinalityType, ParsedTyped DEF Tables, LinesInv
<1>1. PICK n \in Nat : n = Len(p) /\ n # 0 /\ SubSeq(p, 1, n) = p
    <2>1. Len(p) \in Nat /\ Len(p) # 0 /\ SubSeq(p, 1, Len(p)) = p
        OBVIOUS
    <2> QED
        BY <2>1
<1> DEFINE At(k) == FieldAt(SubSeq(p, 1, k))
           Q == {k \in 0 .. n : k = 0 \/ k + rank[At(k).msg] <= c + 1}
<1>2. \A k \in 1 .. n : At(k).msg \in Messages /\ \E f \in FieldsOf(At(k).msg) : At(k) = Whole(At(k).msg, f)
    <2> TAKE k \in 1 .. n
    <2>1. PICK q : q = SubSeq(p, 1, k)
        OBVIOUS
    <2>2. q \in Seq(PathName) /\ Len(q) = k
        BY <1>1, <2>1
    <2>3. q # <<>>
        BY <2>2
    <2>4. FieldAt(q).msg # <<>>
        BY <1>1, <2>1, FoundFront
    <2> QED
        BY <2>1, <2>2, <2>3, <2>4, FoundWhole
<1>3. ASSUME NEW k \in 1 .. n PROVE At(k).msg = At(k - 1).type
    <2>1. PICK q, r, name : q = SubSeq(p, 1, k) /\ r = SubSeq(p, 1, k - 1) /\ name = p[k]
        OBVIOUS
    <2>2. r \in Seq(PathName) /\ name \in PathName /\ q = Append(r, name)
        BY <1>1, <2>1
    <2>3. \A m \in Messages : m # <<>>
        BY LinesTyped DEF Tables
    <2>4. FieldAt(Append(r, name)).msg # <<>>
        BY <1>2, <2>1, <2>2, <2>3
    <2>5. PICK f \in FieldsOf(FieldAt(r).type) : FieldAt(Append(r, name)) = Whole(FieldAt(r).type, f)
        BY <2>2, <2>4, FoundBehind
    <2>6. FieldAt(Append(r, name)).msg = FieldAt(r).type
        BY <2>5 DEF Whole
    <2> QED
        BY <2>1, <2>2, <2>6
<1> HIDE DEF At
<1>4. 0 \in Q
    BY <1>1
<1>5. ASSUME NEW k \in 1 .. n, k - 1 \in Q PROVE k \in Q
    <2>1. rank[At(k).msg] \in 1 .. c
        BY <1>2
    <2>2. CASE k = 1
        BY <1>0, <2>1, <2>2
    <2>3. CASE k # 1
        <3>1. k - 1 \in 1 .. n /\ k - 1 # 0
            BY <2>3
        <3>2. PICK m, f : m = At(k - 1).msg /\ m \in Messages /\ f \in FieldsOf(m) /\ At(k - 1) = Whole(m, f)
            BY <1>2, <3>1
        <3>3. At(k).msg = f.type
            BY <1>3, <3>2 DEF Whole
        <3>4. rank[At(k).msg] < rank[m] /\ rank[m] \in 1 .. c
            BY <1>2, <3>2, <3>3
        <3>5. (k - 1) + rank[m] <= c + 1
            BY <1>5, <3>1, <3>2
        <3> QED
            BY <1>0, <2>1, <3>4, <3>5
    <2> QED
        BY <2>2, <2>3
<1>6. n \in Q
    <2>1. 0 .. n \subseteq Q
        BY <1>1, <1>4, <1>5, UpTo
    <2> QED
        BY <1>1, <2>1
<1>7. n \in 1 .. n
    BY <1>1
<1>8. rank[At(n).msg] \in 1 .. c /\ n + rank[At(n).msg] <= c + 1
    BY <1>1, <1>2, <1>6, <1>7
<1> QED
    BY <1>0, <1>1, <1>8

LEMMA RowsEnd ==
  ASSUME Tables, NEW todo, NEW rows, RowsKnown(todo, rows), PartsHaveNoCycle
  PROVE  \A i \in DOMAIN todo : Len(todo[i].path) <= Cardinality(Messages)
<1>1. PICK c : c = Cardinality(Messages)
    OBVIOUS
<1>2. PICK rank \in [Messages -> 1 .. c] :
        \A m \in Messages : \A f \in FieldsOf(m) : f.type \in Messages => rank[f.type] < rank[m]
    BY <1>1 DEF PartsHaveNoCycle
<1> TAKE i \in DOMAIN todo
<1>3. todo[i] \in FieldsPlaced
    BY DEF RowsKnown
<1>4. todo[i].path \in Seq(PathName) /\ todo[i].path # <<>> /\ FieldAt(todo[i].path).msg # <<>>
    BY <1>3, PlacedFound
<1> QED
    BY <1>1, <1>2, <1>4, PathsShort

(* The names along a path that is found are those of fields.               *)
LEMMA NamesAlong ==
  ASSUME Tables, NEW p \in Seq(PathName), FieldAt(p).msg # <<>>
  PROVE  p \in [1 .. Len(p) -> FieldNames]
<1>1. ASSUME NEW k \in 1 .. Len(p) PROVE p[k] \in FieldNames
    <2>1. PICK r, name : r = SubSeq(p, 1, k - 1) /\ name = p[k]
        OBVIOUS
    <2>2. r \in Seq(PathName) /\ name \in PathName /\ SubSeq(p, 1, k) = Append(r, name)
        BY <2>1
    <2>3. FieldAt(Append(r, name)).msg # <<>>
        BY <2>2, FoundFront
    <2>4. PICK m : m = FieldAt(r).type
        OBVIOUS
    <2>5. m \in Messages /\ \E f \in FieldsOf(m) : f.name = name
        BY <2>2, <2>3, <2>4, FoundBehind
    <2> QED
        BY <2>1, <2>5 DEF FieldNames
<1> QED
    BY <1>1

LEMMA RowsComplete ==
  ASSUME Tables, NEW rows, RowsKnown(<<>>, rows)
  PROVE  /\ {rows[i].path : i \in DOMAIN rows} = TruePaths
         /\ IsInjective([i \in DOMAIN rows |-> rows[i].path])
<1>0. PICK c \in Nat : c = Cardinality(Messages)
    BY FS_CardinalityType, ParsedTyped DEF Tables, LinesInv
<1>1. ASSUME NEW i \in DOMAIN rows PROVE rows[i].path \in TruePaths
    <2>1. PICK x \in FieldsPlaced : rows[i].path = x.path
        BY DEF RowsKnown, WrittenRows, RowFor
    <2>2. PICK p, n : p = x.path /\ n = Len(p)
        OBVIOUS
    <2>3. p \in Seq(PathName) /\ p # <<>> /\ FieldAt(p).msg # <<>>
        BY <2>2, PlacedFound
    <2>4. n \in Nat /\ n # 0
        BY <2>2, <2>3
    <2>5. n <= c
        BY <1>0, <2>1, <2>2 DEF RowsKnown
    <2>6. n \in 1 .. c /\ p \in [1 .. n -> FieldNames]
        BY <1>0, <2>2, <2>3, <2>4, <2>5, NamesAlong
    <2> QED
        BY <1>0, <2>1, <2>2, <2>3, <2>6 DEF TruePaths
<1>2. ASSUME NEW p \in TruePaths PROVE \E i \in DOMAIN rows : rows[i].path = p
    <2>1. PICK k \in 1 .. c : p \in [1 .. k -> FieldNames]
        BY <1>0 DEF TruePaths
    <2>2. FieldNames \subseteq PathName
        <3>1. \A m \in Messages : \A f \in FieldsOf(m) : f.name \in PathName
            BY FieldTyped DEF Tables
        <3> QED
            BY <3>1 DEF FieldNames
    <2>3. p \in Seq(PathName) /\ Len(p) = k
        <3>1. p \in [1 .. k -> PathName] /\ k \in Nat
            BY <2>1, <2>2
        <3> QED
            BY <3>1
    <2>4. p # <<>>
        BY <2>3
    <2>5. FieldAt(p).msg # <<>>
        BY DEF TruePaths
    <2>6. PICK x \in FieldsPlaced : x.path = p
        BY <2>3, <2>4, <2>5, PlacedFound
    <2>7. DOMAIN <<>> = {}
        OBVIOUS
    <2> QED
        BY <2>6, <2>7 DEF RowsKnown, AllAhead
<1>3. IsInjective([i \in DOMAIN rows |-> rows[i].path])
    BY DEF IsInjective, RowsKnown, RowsOnce
<1> QED
    BY <1>1, <1>2, <1>3

(* What a row says of its field.                                           *)
LEMMA ExampleRight ==
  ASSUME Tables, NEW x \in FieldsPlaced
  PROVE  \/ /\ RowFor(x).type.list = RowFor(x).example.list
            /\ (RowFor(x).type.base = "object") <=> (RowFor(x).example.value = "braces")
         \/ Last(FieldAt(x.path).type) \in {"bytes", "sint32"}
<1>1. PICK m \in Messages : x.field \in FieldsOf(m) /\ FieldAt(x.path) = Whole(m, x.field)
    BY DEF FieldsPlaced
<1>2. PICK f, t : f = x.field /\ t = Last(f.type)
    OBVIOUS
<1>3. FieldAt(x.path).type = f.type
    BY <1>1, <1>2 DEF Whole
<1>4. RowFor(x).type = DocMapType(f) /\ RowFor(x).example = DocExampleValue(f)
    BY <1>2 DEF RowFor
<1>5. DocMapType(f).list = DocExampleValue(f).list
    BY DEF DocMapType, DocExampleValue
<1>6. DocMapType(f).base = CASE t \in {"string", "bytes"} -> t [] t = "enum" -> "int32" [] OTHER -> "object"
    BY <1>2 DEF DocMapType
<1>7. DocExampleValue(f).value = IF LookupMsg(f) # {} THEN "braces" ELSE DocScalarExample(t)
    BY <1>2 DEF DocExampleValue
<1>8. CASE t \notin Scalars /\ LookupMsg(f) # {}
    BY <1>4, <1>5, <1>6, <1>7, <1>8 DEF Scalars
<1>9. CASE t \in Scalars /\ LookupMsg(f) = {}
    BY <1>2, <1>3, <1>4, <1>5, <1>6, <1>7, <1>9 DEF Scalars, DocScalarExample
<1>10. (t \notin Scalars /\ LookupMsg(f) # {}) \/ (t \in Scalars /\ LookupMsg(f) = {})
    BY <1>1, <1>2, LookedUp
<1> QED
    BY <1>8, <1>9, <1>10

LEMMA RequiredRight ==
  ASSUME Tables, NEW x \in FieldsPlaced, NEW true, true = FieldAt(x.path)
  PROVE  \/ RowFor(x).required = (true.field.demanded \/ true.field.label \notin {"optional", "repeated"})
         \/ /\ true.field.demanded /\ ~RowFor(x).required
            /\ true.field.validated = "below" \/ BehindInner(true.msg, true.field) \/ ~protoSeen
         \/ RowFor(x).required /\ true.field.validated = "line" /\ ~true.field.demanded
<1>1. PICK m \in Messages : x.field \in FieldsOf(m) /\ Last(m) = x.msg /\ true = Whole(m, x.field)
    BY DEF FieldsPlaced
<1>2. PICK f : f = x.field
    OBVIOUS
<1>3. f \in FieldsOf(m) /\ true.field = f /\ true.msg = m
    BY <1>1, <1>2 DEF Whole
<1>4. /\ f.validated \in {"line", "below", "none"} /\ f.demanded \in BOOLEAN
      /\ f.demanded => f.validated # "none"
    BY <1>3, FieldTyped DEF Tables
<1>5. BuildValidateMap = IF protoSeen THEN Rules.keys ELSE {}
    BY Zenon DEF BuildValidateMap, Rules, NoRules
<1> DEFINE Ruled == <<Last(m), f.name>> \in BuildValidateMap
<1>6. /\ RowFor(x).required <=> Ruled \/ f.label \notin {"optional", "repeated"}
      /\ RowFor(x).required \in BOOLEAN
    BY <1>1, <1>2 DEF RowFor, DocRequired
<1>7. ASSUME Ruled PROVE f.validated = "line"
    <2>1. PICK o \in Messages : /\ Last(o) = Last(m)
                                /\ Left(o) \/ \E g \in FieldsOf(o) : g.name = f.name /\ g.validated = "line"
        <3>1. PICK key : key = <<Last(m), f.name>>
            OBVIOUS
        <3>2. key \in Rules.keys /\ key[1] = Last(m) /\ key[2] = f.name
            BY <1>5, <1>7, <3>1
        <3>3. \E o \in Messages : /\ Last(o) = key[1]
                                  /\ Left(o) \/ \E g \in FieldsOf(o) : g.name = key[2] /\ g.validated = "line"
            BY <3>2, Zenon DEF Tables, LinesInv, RulesOfFields
        <3> QED
            BY <3>2, <3>3
    <2>2. o = m
        BY <2>1 DEF Tables, Namesakes
    <2>3. ~Left(m)
        BY <1>3 DEF Left, FieldsOf, Range
    <2>4. PICK g \in FieldsOf(m) : g.name = f.name /\ g.validated = "line"
        BY <2>1, <2>2, <2>3
    <2>5. PICK i \in DOMAIN Parsed.fields[m] : f = Parsed.fields[m][i]
        BY <1>3 DEF FieldsOf, Range
    <2>6. PICK j \in DOMAIN Parsed.fields[m] : g = Parsed.fields[m][j]
        BY <2>4 DEF FieldsOf, Range
    <2>7. f = g
        BY <2>4, <2>5, <2>6 DEF Tables, LinesInv, NamesOnce
    <2> QED
        BY <2>4, <2>7
<1>8. ASSUME f.validated = "line", ~BehindInner(m, f), protoSeen PROVE Ruled
    <2>1. \A i : FoldLeft(DocParse, [at |-> <<>>, fields |-> <<>>], SubSeq(docLines, 1, i - 1)) = ReadTo(i)
        BY DEF ReadTo, NoMessages
    <2> DEFINE IsLine(i) == ReadTo(i).at = m /\ docLines[i].is = "field" /\ docLines[i].field = f
               at == CHOOSE i \in DOMAIN docLines : IsLine(i)
    <2>2. \E i \in DOMAIN docLines : IsLine(i)
        BY <1>3 DEF Tables, LinesInv, FieldLines
    <2>3. at \in DOMAIN docLines /\ IsLine(at)
        BY <2>2, Zenon
    <2>4. LineOf(m, f) = at
        BY Zenon DEF LineOf, ReadTo, NoMessages
    <2>5. BehindInner(m, f) <=> InnerBy(at, m)
        BY <2>4, Zenon DEF BehindInner, InnerBy, Begins, Begun, ReadTo, NoMessages
    <2> HIDE DEF at
    <2>6. <<Last(m), f.name>> \in Rules.keys
        BY <1>8, <2>3, <2>5 DEF Tables, LinesInv, KeysThere
    <2> QED
        BY <1>5, <1>8, <2>6
<1> HIDE DEF Ruled
<1>9. CASE f.label \notin {"optional", "repeated"}
    BY <1>3, <1>4, <1>6, <1>9
<1>10. CASE f.label \in {"optional", "repeated"} /\ ~Ruled
    <2>1. ~RowFor(x).required
        BY <1>6, <1>10
    <2>2. f.demanded => f.validated = "below" \/ BehindInner(m, f) \/ ~protoSeen
        BY <1>4, <1>8, <1>10
    <2> QED
        BY <1>3, <1>4, <1>6, <1>10, <2>1, <2>2
<1>11. CASE f.label \in {"optional", "repeated"} /\ Ruled
    <2>1. RowFor(x).required /\ f.validated = "line"
        BY <1>6, <1>7, <1>11
    <2> QED
        BY <1>3, <1>4, <1>6, <1>11, <2>1
<1> QED
    BY <1>9, <1>10, <1>11

LEMMA LinesInit == ProtoDocInit => LinesInv
<1> SUFFICES ASSUME docLines = <<>> PROVE LinesInv
    BY DEF ProtoDocInit
<1>1. docLines \in Seq(DocLine) /\ DOMAIN docLines = {}
    OBVIOUS
<1>2. Parsed = NoMessages
    BY DocNone DEF Parsed, NoMessages
<1>3. Rules = NoRules
    BY RuleNone DEF Rules
<1>4. Messages = {} /\ Parsed.at = <<>> /\ Rules.current = <<>> /\ Rules.keys = {}
    BY <1>2, <1>3 DEF Messages, NoMessages, NoRules
<1>5. MessageLines /\ FieldLines /\ NamesOnce
    BY <1>4 DEF MessageLines, FieldLines, NamesOnce
<1>6. CurrentKnown /\ RulesOfFields /\ CurrentRight /\ KeysThere
    BY <1>1, <1>4 DEF CurrentKnown, RulesOfFields, CurrentRight, KeysThere
<1> QED
    BY <1>1, <1>4, <1>5, <1>6 DEF LinesInv

LEMMA LinesWritten ==
  ASSUME LinesInv, WriteDocLine \/ CloseDocLine
  PROVE  LinesInv'
<1>1. PICK l \in DocLine : docLines' = Append(docLines, l) /\ LineFits(l)
    <2>1. CASE WriteDocLine
        BY <2>1 DEF WriteDocLine, LineFits
    <2>2. CASE CloseDocLine
        <3>1. PICK l : l = [is |-> "close"]
            OBVIOUS
        <3>2. l \in DocLine
            BY <3>1 DEF DocLine
        <3> QED
            BY <2>2, <3>1, <3>2 DEF CloseDocLine, LineFits
    <2> QED
        BY <2>1, <2>2
<1>2. l.is \in {"message", "empty"} \/ l.is = "field" \/ l.is = "close"
    BY DEF DocLine
<1> QED
    BY <1>1, <1>2, LinesOpen, LinesField, LinesClose

(* Nothing of the proto changes while the table is written.                *)
LEMMA ProtoKept ==
  ASSUME docLines' = docLines
  PROVE  /\ Messages' = Messages /\ \A m : FieldsOf(m)' = FieldsOf(m)
         /\ Namesakes' <=> Namesakes
         /\ TypesKnown' <=> TypesKnown
         /\ LinesInv' <=> LinesInv
<1>1. Parsed' = Parsed /\ Rules' = Rules /\ \A i : ReadTo(i)' = ReadTo(i)
    BY DEF Parsed, Rules, ReadTo
<1>2. Messages' = Messages /\ \A m : FieldsOf(m)' = FieldsOf(m) /\ (Left(m)' <=> Left(m))
    BY <1>1 DEF Messages, FieldsOf, Left
<1>3. \A i : (Begins(i)' <=> Begins(i)) /\ Begun(i)' = Begun(i)
    BY <1>1 DEF Begins, Begun
<1>4. \A k, m : InnerBy(k, m)' <=> InnerBy(k, m)
    BY <1>3 DEF InnerBy
<1>5. (Namesakes' <=> Namesakes) /\ (TypesKnown' <=> TypesKnown)
    BY <1>2 DEF Namesakes, TypesKnown
<1>6. (MessageLines' <=> MessageLines) /\ (FieldLines' <=> FieldLines) /\ (NamesOnce' <=> NamesOnce)
    BY <1>1, <1>2, <1>3 DEF MessageLines, FieldLines, NamesOnce
<1>7. (CurrentKnown' <=> CurrentKnown) /\ (RulesOfFields' <=> RulesOfFields)
    BY <1>1, <1>2 DEF CurrentKnown, RulesOfFields
<1>8. (CurrentRight' <=> CurrentRight) /\ (KeysThere' <=> KeysThere)
    BY <1>1, <1>4 DEF CurrentRight, KeysThere
<1> QED
    BY <1>1, <1>2, <1>5, <1>6, <1>7, <1>8 DEF LinesInv

LEMMA PlacesKept ==
  ASSUME docLines \in Seq(DocLine), request \in Messages, UNCHANGED <<docLines, request>>
  PROVE  \A p \in Seq(PathName) : FieldAt(p)' = FieldAt(p)
<1>1. /\ FieldAt(<<>>) = Top
      /\ \A p \in Seq(PathName), name \in PathName : FieldAt(Append(p, name)) = Follow(FieldAt(p), name)
    BY OnPaths
<1>2. /\ FieldAt(<<>>)' = Top'
      /\ \A p \in Seq(PathName), name \in PathName : FieldAt(Append(p, name))' = Follow(FieldAt(p), name)'
    <2>1. (docLines \in Seq(DocLine) /\ request \in Messages)'
        BY ProtoKept
    <2>2. (docLines \in Seq(DocLine) /\ request \in Messages)' =>
            (/\ FieldAt(<<>>) = Top
             /\ \A p \in Seq(PathName) : FieldAt(p) \in ProtoPlaces
             /\ \A p \in Seq(PathName), name \in PathName : FieldAt(Append(p, name)) = Follow(FieldAt(p), name))'
        BY OnPaths, PTL
    <2> QED
        BY <2>1, <2>2
<1>3. Top' = Top /\ \A at, name : Follow(at, name)' = Follow(at, name)
    BY DEF Top, Follow, Messages, FieldsOf, Parsed
<1> TAKE p \in Seq(PathName)
<1> DEFINE Q == {k \in 0 .. Len(p) : \A q : q = SubSeq(p, 1, k) => FieldAt(q)' = FieldAt(q)}
<1>4. Len(p) \in Nat /\ SubSeq(p, 1, Len(p)) = p /\ SubSeq(p, 1, 0) = <<>>
    OBVIOUS
<1>5. 0 \in Q
    <2> SUFFICES ASSUME NEW q, q = <<>> PROVE FieldAt(q)' = FieldAt(q)
        BY <1>4
    <2> QED
        BY <1>1, <1>2, <1>3
<1>6. ASSUME NEW k \in 1 .. Len(p), k - 1 \in Q PROVE k \in Q
    <2> SUFFICES ASSUME NEW r, r = SubSeq(p, 1, k) PROVE FieldAt(r)' = FieldAt(r)
        OBVIOUS
    <2>1. PICK q, name : q = SubSeq(p, 1, k - 1) /\ name = p[k]
        OBVIOUS
    <2>2. q \in Seq(PathName) /\ name \in PathName /\ r = Append(q, name)
        BY <2>1
    <2>3. FieldAt(q)' = FieldAt(q)
        BY <1>6, <2>1
    <2>4. FieldAt(r)' = Follow(FieldAt(q), name)'
        BY <1>2, <2>2
    <2>5. FieldAt(r) = Follow(FieldAt(q), name)
        BY <1>1, <2>2
    <2> QED
        BY <1>3, <2>3, <2>4, <2>5
<1>7. 0 .. Len(p) \subseteq Q
    BY <1>4, <1>5, <1>6, UpTo
<1>8. Len(p) \in Q
    BY <1>4, <1>7
<1> QED
    BY <1>4, <1>8

LEMMA PlacedKept ==
  ASSUME Tables, UNCHANGED <<docLines, protoSeen, msgMap, request>>
  PROVE  FieldsPlaced' = FieldsPlaced /\ WrittenRows' = WrittenRows /\ Messages' = Messages
<1>1. \A p \in Seq(PathName) : FieldAt(p)' = FieldAt(p)
    BY PlacesKept DEF Tables, LinesInv
<1>2. Messages' = Messages /\ \A m : FieldsOf(m)' = FieldsOf(m)
    BY ProtoKept
<1>3. FieldsPlaced' = FieldsPlaced
    BY <1>1, <1>2 DEF FieldsPlaced
<1>4. \A x : RowFor(x)' = RowFor(x)
    BY DEF RowFor, DocExampleValue, LookupMsg, DocRequired, BuildValidateMap
<1> QED
    BY <1>2, <1>3, <1>4 DEF WrittenRows

LEMMA RowsKept ==
  ASSUME Tables, UNCHANGED <<docLines, protoSeen, msgMap, request>>, NEW todo, NEW rows, todo = docTodo', rows = docRows',
         RowsKnown(todo, rows)
  PROVE  RowsKnown(docTodo, docRows)'
<1>1. FieldsPlaced' = FieldsPlaced /\ WrittenRows' = WrittenRows /\ Messages' = Messages
    BY PlacedKept
<1>2. /\ docTodo' \in Seq(FieldsPlaced) /\ docRows' \in Seq(WrittenRows)
      /\ \A i \in DOMAIN docRows' : Len(docRows'[i].path) <= Cardinality(Messages)
    BY DEF RowsKnown
<1>3. AllAhead(docTodo, docRows)' /\ TodoApart(docTodo)' /\ NotYet(docTodo, docRows)' /\ RowsOnce(docRows)'
    BY <1>1 DEF RowsKnown, AllAhead, TodoApart, NotYet, RowsOnce
<1> QED
    BY <1>1, <1>2, <1>3 DEF RowsKnown

TablesKnown ==
  /\ TypesKnown /\ MapKnown
  /\ ~Namesakes => RowsKnown(docTodo, docRows)
DocInv ==
  /\ DocTyped /\ LinesInv
  /\ docStep = "edit" => docTodo = <<>> /\ docRows = <<>>
  /\ docStep # "edit" => TablesKnown
  /\ docStep = "done" => docTodo = <<>>

LEMMA TableBegun ==
  ASSUME DocInv, StartDoc, DocTyped'
  PROVE  DocInv'
<1>1. docStep = "edit" /\ docStep' = "rows" /\ docRows' = <<>> /\ docLines' = docLines /\ LinesInv
    BY DEF StartDoc, DocInv
<1>2. PICK map \in [{Last(m) : m \in Messages} -> Messages], r \in Messages :
        /\ \A n \in DOMAIN map : Last(map[n]) = n
        /\ msgMap' = map /\ request' = r
        /\ docTodo' = RowsOf(<<>>, map[Last(r)])
    BY DEF StartDoc
<1>3. TypesKnown
    BY DEF StartDoc, TypesKnown
<1>4. /\ Messages' = Messages /\ LinesInv' /\ TypesKnown' /\ (Namesakes' <=> Namesakes)
    BY <1>1, <1>3, ProtoKept
<1>5. MapKnown'
    BY <1>2, <1>4 DEF MapKnown
<1>6. ASSUME ~Namesakes PROVE RowsKnown(docTodo, docRows)'
    <2>1. map[Last(r)] \in Messages /\ Last(map[Last(r)]) = Last(r)
        BY <1>2
    <2>2. map[Last(r)] = r
        BY <1>2, <1>6, <2>1 DEF Namesakes
    <2>3. \A q, m : RowsOf(q, m)' = RowsOf(q, m)
        BY <1>1 DEF RowsOf, Parsed
    <2>4. Tables'
        BY <1>2, <1>4, <1>5, <1>6 DEF Tables
    <2>5. (Tables => RowsKnown(RowsOf(<<>>, request), <<>>))'
        BY RowsBegin, PTL
    <2>6. RowsKnown(RowsOf(<<>>, request), <<>>)'
        BY <2>4, <2>5
    <2>7. docTodo' = RowsOf(<<>>, request)'
        BY <1>2, <2>2, <2>3
    <2> QED
        BY <1>1, <2>6, <2>7 DEF RowsKnown, AllAhead, TodoApart, NotYet, RowsOnce
<1> QED
    BY <1>1, <1>4, <1>5, <1>6 DEF DocInv, TablesKnown

LEMMA RowWritten ==
  ASSUME DocInv, WriteFieldRow, DocTyped'
  PROVE  DocInv'
<1>1. /\ docStep = "rows" /\ docStep' = "rows" /\ docTodo # <<>> /\ TablesKnown /\ LinesInv /\ request \in Messages
      /\ UNCHANGED <<docLines, protoSeen, msgMap, request>> /\ Len(Head(docTodo).path) <= Cardinality(Messages)
    BY DEF WriteFieldRow, DocInv, DocTyped
<1>2. PICK new : new = IF LookupMsg(Head(docTodo).field) = {} THEN <<>>
                       ELSE RowsOf(Head(docTodo).path, msgMap[Last(Head(docTodo).field.type)])
    OBVIOUS
<1>3. docTodo' = new \o Tail(docTodo) /\ docRows' = Append(docRows, RowFor(Head(docTodo)))
    BY <1>2 DEF WriteFieldRow, RowFor
<1>4. /\ Messages' = Messages /\ LinesInv' /\ TypesKnown' /\ (Namesakes' <=> Namesakes)
    BY <1>1, ProtoKept DEF TablesKnown
<1>5. MapKnown'
    BY <1>1, <1>4 DEF MapKnown, TablesKnown
<1>6. ASSUME ~Namesakes PROVE RowsKnown(docTodo, docRows)'
    <2>1. Tables /\ RowsKnown(docTodo, docRows)
        BY <1>1, <1>6 DEF TablesKnown, Tables
    <2>2. RowsKnown(new \o Tail(docTodo), Append(docRows, RowFor(Head(docTodo))))
        BY <1>1, <1>2, <2>1, RowsNext
    <2>3. PICK todo, rows : todo = docTodo' /\ rows = docRows'
        OBVIOUS
    <2>4. RowsKnown(todo, rows)
        BY <1>3, <2>2, <2>3
    <2> QED
        BY <1>1, <2>1, <2>3, <2>4, RowsKept
<1> QED
    BY <1>1, <1>4, <1>5, <1>6 DEF DocInv, TablesKnown

LEMMA TableKept ==
  ASSUME DocInv, WriteDoc \/ UNCHANGED protoDocVars, DocTyped'
  PROVE  DocInv'
<1>1. UNCHANGED <<docLines, protoSeen, msgMap, request, docTodo, docRows>> /\ LinesInv
    BY DEF WriteDoc, protoDocVars, DocInv
<1>2. docStep' = docStep \/ (docStep = "rows" /\ docStep' = "done" /\ docTodo = <<>>)
    BY DEF WriteDoc, protoDocVars
<1>3. /\ Messages' = Messages /\ LinesInv' /\ (TypesKnown' <=> TypesKnown) /\ (Namesakes' <=> Namesakes)
    BY <1>1, ProtoKept
<1>4. MapKnown' <=> MapKnown
    BY <1>1, <1>3 DEF MapKnown
<1>5. ASSUME docStep # "edit" PROVE TablesKnown'
    <2>1. TablesKnown /\ request \in Messages
        BY <1>5 DEF DocInv, DocTyped
    <2>2. ASSUME ~Namesakes PROVE RowsKnown(docTodo, docRows)'
        <3>1. Tables /\ RowsKnown(docTodo, docRows)
            BY <1>1, <2>1, <2>2 DEF TablesKnown, Tables
        <3>2. PICK todo, rows : todo = docTodo' /\ rows = docRows'
            OBVIOUS
        <3>3. RowsKnown(todo, rows)
            BY <1>1, <3>1, <3>2
        <3> QED
            BY <1>1, <3>1, <3>2, <3>3, RowsKept
    <2> QED
        BY <1>3, <1>4, <2>1, <2>2 DEF TablesKnown
<1> QED
    BY <1>1, <1>2, <1>3, <1>5 DEF DocInv

LEMMA DocInvInit == ProtoDocInit => DocInv
BY DocInitTyped, LinesInit DEF ProtoDocInit, DocInv

LEMMA DocInvStep == DocInv /\ [ProtoDocNext]_protoDocVars => DocInv'
<1> SUFFICES ASSUME DocInv, [ProtoDocNext]_protoDocVars
             PROVE  DocInv'
    OBVIOUS
<1>1. DocTyped'
    BY DocStepTyped DEF DocInv
<1>2. CASE WriteDocLine \/ CloseDocLine
    <2>1. LinesInv'
        BY <1>2, LinesWritten DEF DocInv
    <2>2. docStep = "edit" /\ UNCHANGED <<docTodo, docRows, docStep>>
        BY <1>2 DEF WriteDocLine, CloseDocLine
    <2> QED
        BY <1>1, <2>1, <2>2 DEF DocInv
<1>3. CASE StartDoc
    BY <1>1, <1>3, TableBegun
<1>4. CASE WriteFieldRow
    BY <1>1, <1>4, RowWritten
<1>5. CASE WriteDoc \/ UNCHANGED protoDocVars
    BY <1>1, <1>5, TableKept
<1> QED
    BY <1>2, <1>3, <1>4, <1>5 DEF ProtoDocNext

(* DocKnown of ProtoDoc, from what is known of the proto and of the rows.  *)
LEMMA DocFits == DocInv => DocKnown
<1> SUFFICES ASSUME DocInv PROVE DocKnown
    OBVIOUS
<1>1. CASE docStep = "edit"
    <2>1. docTodo = <<>> /\ docRows = <<>> /\ DOMAIN <<>> = {}
        BY <1>1 DEF DocInv
    <2> QED
        BY <1>1, <2>1 DEF DocKnown, DocEnds, DocComplete, DocSaysRequired, DocExamplesFit
<1>2. CASE Namesakes
    BY <1>2 DEF DocKnown, DocEnds, DocComplete, DocSaysRequired, DocExamplesFit
<1>3. CASE docStep # "edit" /\ ~Namesakes
    <2>1. Tables /\ RowsKnown(docTodo, docRows)
        BY <1>3 DEF DocInv, DocTyped, TablesKnown, Tables
    <2>2. DocEnds
        <3>1. ASSUME PartsHaveNoCycle, NEW i \in DOMAIN docTodo PROVE Len(docTodo[i].path) <= Cardinality(Messages)
            BY <2>1, <3>1, RowsEnd
        <3>2. ASSUME NEW i \in DOMAIN docTodo PROVE Len(docTodo[i].path) \in Nat
            <4>1. docTodo[i] \in FieldsPlaced
                BY <2>1 DEF RowsKnown
            <4>2. docTodo[i].path \in Seq(PathName)
                BY <2>1, <4>1, PlacedFound
            <4> QED
                BY <4>2
        <3>3. Cardinality(Messages) \in Nat
            BY <2>1, FS_CardinalityType, ParsedTyped DEF Tables, LinesInv
        <3> QED
            BY <3>1, <3>2, <3>3 DEF DocEnds
    <2>3. DocComplete
        BY <2>1, RowsComplete DEF DocInv, DocComplete
    <2>4. ASSUME NEW i \in DOMAIN docRows
          PROVE  \E x \in FieldsPlaced : docRows[i] = RowFor(x) /\ docRows[i].path = x.path
        BY <2>1 DEF RowsKnown, WrittenRows, RowFor
    <2>5. DocSaysRequired
        <3> SUFFICES ASSUME NEW i \in DOMAIN docRows, NEW true, true = FieldAt(docRows[i].path)
                     PROVE  \/ docRows[i].required = (true.field.demanded
                                                      \/ true.field.label \notin {"optional", "repeated"})
                            \/ /\ true.field.demanded /\ ~docRows[i].required
                               /\ true.field.validated = "below" \/ BehindInner(true.msg, true.field) \/ ~protoSeen
                            \/ docRows[i].required /\ true.field.validated = "line" /\ ~true.field.demanded
            BY DEF DocSaysRequired
        <3>1. PICK x \in FieldsPlaced : docRows[i] = RowFor(x) /\ docRows[i].path = x.path
            BY <2>4
        <3> QED
            BY <2>1, <3>1, RequiredRight
    <2>6. DocExamplesFit
        <3> SUFFICES ASSUME NEW i \in DOMAIN docRows
                     PROVE  \/ /\ docRows[i].type.list = docRows[i].example.list
                               /\ (docRows[i].type.base = "object") <=> (docRows[i].example.value = "braces")
                            \/ Last(FieldAt(docRows[i].path).type) \in {"bytes", "sint32"}
            BY DEF DocExamplesFit
        <3>1. PICK x \in FieldsPlaced : docRows[i] = RowFor(x) /\ docRows[i].path = x.path
            BY <2>4
        <3> QED
            BY <2>1, <3>1, ExampleRight
    <2> QED
        BY <2>2, <2>3, <2>5, <2>6 DEF DocKnown
<1> QED
    BY <1>1, <1>2, <1>3

(* The document of a service, whatever messages and fields its proto has   *)
(* and whatever their rules and their lines: its rows come to an end where *)
(* no message has itself as a part; when it is done they are the fields of *)
(* the request and of the messages in it, each once; and each says of its  *)
(* field what the proto says, in all but the cases that are named.         *)
THEOREM DocAlwaysKnown == ProtoDocInit /\ [][ProtoDocNext]_protoDocVars => []DocKnown
BY DocInvInit, DocInvStep, DocFits, PTL
=============================================================================
