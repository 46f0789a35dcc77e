------------------------------- MODULE RpcNames -------------------------------
(***************************************************************************)
(* The names that zctl makes of the names of services and rpcs: of files   *)
(* (FileSnake), of Go types (ServiceGoIdent, ToCamel), of directories and  *)
(* deployments (ProtoPkg, DashName).  protoc makes its own of them         *)
(* (CamelCase), and the code of the two must meet.  A name is a sequence   *)
(* of letters; each conversion says what becomes of a letter by those      *)
(* around it.                                                              *)
(***************************************************************************)
EXTENDS Naturals, Sequences, SequencesExt, FiniteSets

CONSTANTS NameLetter, MaxLetters   \* bound: letters of two names together

(* Of the letters that are spelled alike the names have one, of the others *)
(* those that the conversions look at.                                     *)
Letters == {"a", "s", "A", "S", "_", "1"}
ASSUME NamesAssumption == MaxLetters \in Nat /\ NameLetter \subseteq Letters

Raised(c) == CASE c = "a" -> "A" [] c = "s" -> "S" [] OTHER -> c
Lowered(c) == CASE c = "A" -> "a" [] c = "S" -> "s" [] OTHER -> c
Spelled(letters(_), w) == FlattenSeq([i \in DOMAIN w |-> letters(i)])

(* What stands at a place of a name.                                       *)
IsLower(w, i) == i \in DOMAIN w /\ w[i] \in {"a", "s"}
IsUpper(w, i) == i \in DOMAIN w /\ w[i] \in {"A", "S"}
IsDigit(w, i) == i \in DOMAIN w /\ w[i] = "1"
IsUnder(w, i) == i \in DOMAIN w /\ w[i] = "_"

VARIABLES one, other   \* two names
namesVars == <<one, other>>

NamesInit == one = <<>> /\ other = <<>>
Spell ==
  /\ Len(one) + Len(other) < MaxLetters
  /\ \E c \in NameLetter : \/ one' = Append(one, c) /\ UNCHANGED other
                           \/ other' = Append(other, c) /\ UNCHANGED one
NamesNext == Spell

(* splitIdent: before a capital that follows a small letter, and before    *)
(* the last of several capitals when a small letter follows it, unless     *)
(* this is the s of a plural ("CIDs").                                     *)
PluralAfter(w, i) ==
  IsLower(w, i + 1) /\ w[i + 1] = "s" /\ (i + 2 > Len(w) \/ IsUnder(w, i + 2) \/ IsUpper(w, i + 2))
Cut(w, i) ==
  \/ IsUnder(w, i - 1)
  \/ IsUpper(w, i) /\ IsLower(w, i - 1)
  \/ IsUpper(w, i) /\ IsUpper(w, i - 1) /\ IsLower(w, i + 1) /\ ~PluralAfter(w, i)
FileSnake(w) ==
  Spelled(LAMBDA i : IF IsUnder(w, i) THEN <<>>
                     ELSE IF Cut(w, i) THEN <<"_", Lowered(w[i])>> ELSE <<Lowered(w[i])>>, w)

(* protoc's: a letter behind "_" or a digit, or the first, is a capital;   *)
(* "_" goes only when a small letter follows.                              *)
CamelCase(w) ==
  Spelled(LAMBDA i : IF IsUnder(w, i) /\ IsLower(w, i + 1) THEN <<>>
                     ELSE IF i = 1 \/ IsUnder(w, i - 1) \/ IsDigit(w, i - 1) THEN <<Raised(w[i])>>
                     ELSE <<w[i]>>, w)

(* Words begin with a capital and go on in small letters.                  *)
ServiceGoIdent(w) ==
  Spelled(LAMBDA i : IF IsUnder(w, i) THEN <<>>
                     ELSE IF i = 1 \/ IsUnder(w, i - 1) \/ (IsUpper(w, i) /\ IsLower(w, i - 1))
                     THEN <<Raised(w[i])>> ELSE <<Lowered(w[i])>>, w)
ToCamel(w) ==
  Spelled(LAMBDA i : IF IsUnder(w, i) THEN <<>>
                     ELSE IF i = 1 \/ IsUnder(w, i - 1) THEN <<Raised(w[i])>> ELSE <<w[i]>>, w)
ProtoPkg(w) == Spelled(LAMBDA i : IF IsUnder(w, i) THEN <<>> ELSE <<Lowered(w[i])>>, w)

(* Several "-" become one, and none is at an end.                          *)
DashName(w) ==
  LET letters == {i \in DOMAIN w : ~IsUnder(w, i)}
      Dashed(i) == \/ IsUnder(w, i - 1) /\ \E j \in letters : j < i
                   \/ IsUpper(w, i) /\ IsLower(w, i - 1)
  IN Spelled(LAMBDA i : IF i \notin letters THEN <<>>
                        ELSE IF Dashed(i) THEN <<"-", Lowered(w[i])>> ELSE <<Lowered(w[i])>>, w)
-----------------------------------------------------------------------------
NamesTypeOK == {one, other} \subseteq Seq(NameLetter) /\ Len(one) + Len(other) <= MaxLetters

(* A name of a proto file begins with a letter.  A plain one has no two    *)
(* capitals together, no digit before a letter, and "_" only before a      *)
(* small letter.                                                           *)
Legal(w) == IsLower(w, 1) \/ IsUpper(w, 1)
PlainName(w) ==
  \A i \in DOMAIN w :
    /\ IsUpper(w, i) => ~IsUpper(w, i + 1)
    /\ IsDigit(w, i) => ~IsUpper(w, i + 1) /\ ~IsLower(w, i + 1)
    /\ IsUnder(w, i) => IsLower(w, i + 1)

Undashed(w) == Spelled(LAMBDA i : IF w[i] = "-" THEN <<>> ELSE <<w[i]>>, w)

(* ServiceGoIdent's names "always match what the current                   *)
(* protoc-gen-go-grpc emits" for plain names, and for no other; plain      *)
(* names that protoc tells apart have files of their own; names that       *)
(* share a file differ in case and "_" only; what is snake case stays so;  *)
(* and the dashed name is the proto package with dashes.                   *)
NamesKnown ==
  /\ Legal(one) => (ServiceGoIdent(one) = CamelCase(one) <=> PlainName(one))
  /\ Legal(one) /\ Legal(other) /\ FileSnake(one) = FileSnake(other) =>
       /\ ProtoPkg(one) = ProtoPkg(other)
       /\ PlainName(one) /\ PlainName(other) => CamelCase(one) = CamelCase(other)
  /\ Legal(one) => FileSnake(FileSnake(one)) = FileSnake(one)
  /\ Legal(one) => Undashed(DashName(one)) = ProtoPkg(one)
=============================================================================
