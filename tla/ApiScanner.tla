----------------------------- MODULE ApiScanner -----------------------------
(***************************************************************************)
(* The scanner of api files (pkg/parser/api/scanner), rune by rune, next   *)
(* to what the runes are for a reader of the file: code, a comment, a      *)
(* string.  Words and punctuation are one class of runes each; interface{} *)
(* as one token is left out.                                               *)
(***************************************************************************)
EXTENDS Naturals, Sequences

CONSTANT MaxUnits   \* bound: units of one duration

ASSUME ScannerAssumption == MaxUnits \in Nat

Delims == {"quote", "backtick"}
(* A letter that is no unit, an underscore, a bracket or the like, and a   *)
(* rune that the grammar does not have; nul is where the file ends, or a   *)
(* rune zero in it.                                                        *)
Runes == {"/", "*", "newline", "space", ".", "@", "digit", "h", "m", "s", "micro", "n",
          "letter", "underscore", "punct", "odd", "nul"} \cup Delims
Letters == {"h", "m", "s", "n", "letter"}
(* The suffixes of a duration from long to short.                          *)
Units == <<"h", "m", "s", "ms", "micros", "ns">>

VARIABLES
  scan,      \* what the scanner is in: [in, of]
  units,     \* units of the duration it is in
  token,     \* the last token that is no bracket or the like: [type, units]
  truth,     \* what the last rune was for a reader
  stray      \* a star stood alone in this document ("star"); a slash came after
             \* one ("strayed"), once and for all

scannerVars == <<scan, units, token, truth, stray>>

In(what) == [in |-> what, of |-> "none"]
StringOf(delim) == [in |-> "string", of |-> delim]
NoToken == [type |-> "none", units |-> <<>>]

ScannerInit ==
  /\ scan = In("gap") /\ units = <<>> /\ token = NoToken
  /\ truth = In("gap") /\ stray = "no"

-----------------------------------------------------------------------------
(* What a reader sees: a document ends at the first star with a slash      *)
(* after it.                                                               *)
Begun(c) ==
  CASE c = "/" -> In("slash") [] c \in Delims -> StringOf(c) [] OTHER -> In("gap")
Seen(c) ==
  CASE truth.in = "comment" -> IF c = "newline" THEN In("gap") ELSE truth
    [] truth.in = "document" ->
         IF truth.of = "*" /\ c = "/" THEN In("gap") ELSE [in |-> "document", of |-> c]
    [] truth.in = "string" -> IF c = truth.of THEN In("gap") ELSE truth
    [] truth.in = "slash" ->
         CASE c = "/" -> In("comment") [] c = "*" -> In("document") [] OTHER -> Begun(c)
    [] OTHER -> Begun(c)
Strayed(c) ==
  CASE truth.of = "*" -> IF c \in {"*", "/"} THEN stray ELSE "star"
    [] OTHER -> IF stray = "star" /\ c = "/" THEN "strayed" ELSE stray
Reader(c) ==
  /\ truth' = Seen(c)
  /\ stray' = IF stray = "strayed" THEN stray
              ELSE IF truth.in # "document" THEN "no" ELSE Strayed(c)

-----------------------------------------------------------------------------
(* NextToken: the first rune of a token.  The parser ends at an illegal    *)
(* one.                                                                    *)
Starts(c) ==
  CASE c = "/" -> In("slash") [] c = "." -> In("dot") [] c = "@" -> In("at")
    [] c \in Delims -> StringOf(c)
    [] c \in Letters \cup {"underscore"} -> In("ident")
    [] c = "digit" -> In("int")
    [] c = "nul" -> In("end")
    [] c \in {"odd", "micro"} -> In("error")
    [] OTHER -> In("gap")

(* The token ended before this rune, which starts the next one.            *)
EndBefore(type, c) ==
  /\ token' = [type |-> type, units |-> units]
  /\ units' = <<>>
  /\ scan' = Starts(c)
(* The token ends with this rune.                                          *)
EndWith(type, all) ==
  /\ token' = [type |-> type, units |-> all]
  /\ units' = <<>>
  /\ scan' = In("gap")
Fails == scan' = In("error") /\ UNCHANGED <<units, token>>
Goes(what) == scan' = what /\ UNCHANGED <<units, token>>

Gap(c) ==
  /\ scan.in = "gap"
  /\ scan' = Starts(c)
  /\ UNCHANGED <<units, token>>

(* Two slashes, a slash and a star, or a slash alone.                      *)
Slash(c) ==
  /\ scan.in = "slash"
  /\ CASE c = "/" -> Goes(In("comment")) [] c = "*" -> Goes([in |-> "document", of |-> "open"])
       [] OTHER -> EndBefore("quo", c)

(* scanLineComment                                                         *)
LineComment(c) ==
  /\ scan.in = "comment"
  /\ IF c \in {"newline", "nul"} THEN EndBefore("comment", c) ELSE Goes(scan)

(* scanDocument: after a star any slash closes it.                         *)
DocumentModeOnce(c) ==   \* wrong: a second star opens it again
  CASE c = "*" -> IF scan.of = "open" THEN "halfClose" ELSE "open" [] OTHER -> scan.of
DocumentMode(c) == IF c = "*" THEN "halfClose" ELSE scan.of
ScanDocument(c) ==
  /\ scan.in = "document"
  /\ CASE c = "nul" -> Fails
       [] c = "/" /\ scan.of = "halfClose" -> EndWith("document", <<>>)
       [] OTHER -> Goes([in |-> "document", of |-> DocumentMode(c)])

(* scanString                                                              *)
ScanString(c) ==
  /\ scan.in = "string"
  /\ CASE c = scan.of -> EndWith("string", <<>>) [] c = "nul" -> Fails [] OTHER -> Goes(scan)

(* One dot, two (of which one is dropped), or an ellipsis.                 *)
Dots(c) ==
  /\ scan.in = "dot"
  /\ IF c # "." THEN EndBefore("dot", c)
     ELSE IF scan.of = "none" THEN Goes([in |-> "dot", of |-> "."])
     ELSE EndWith("ellipsis", <<>>)

(* scanAt: the word is @doc, @handler or @server.                          *)
ScanAt(c) ==
  /\ scan.in = "at"
  /\ IF c \in Letters THEN Goes([in |-> "at", of |-> "word"])
     ELSE IF scan.of = "none" THEN Fails
     ELSE EndBefore("at", c)
UnknownAt == scan.in = "at" /\ scan.of = "word" /\ Fails /\ UNCHANGED <<truth, stray>>

(* scanIdent                                                               *)
ScanIdent(c) ==
  /\ scan.in = "ident"
  /\ IF c \in Letters \cup {"underscore", "digit"} THEN Goes(scan) ELSE EndBefore("ident", c)

-----------------------------------------------------------------------------
(* scanIntOrDuration and scanHour to scanNanosecond.  After a number the   *)
(* suffix may be any that is shorter than the last one; a letter that may  *)
(* begin two suffixes, and one that begins a suffix of two runes, wait     *)
(* for the rune after it.                                                  *)
Rank(u) == CHOOSE i \in DOMAIN Units : Units[i] = u
MayFollowAny(u) == TRUE                          \* wrong: units in any order
MayFollow(u) == units = <<>> \/ Rank(u) > Rank(units[Len(units)])
WithUnit(u) == units' = Append(units, u) /\ UNCHANGED token

(* A suffix that nothing can follow ends the token at once.                *)
Suffix(u) ==
  IF u = "ns" THEN EndWith("duration", Append(units, u))
  ELSE scan' = In("unit") /\ WithUnit(u)

Number(c) ==
  /\ scan.in = "int" /\ Len(units) < MaxUnits
  /\ CASE c = "digit" -> Goes(scan)
       [] c \in {"h", "s"} -> IF MayFollow(c) THEN Suffix(c) ELSE Fails
       [] c = "m" -> IF MayFollow("ms") THEN Goes([in |-> "half", of |-> "m"]) ELSE Fails
       [] c = "micro" ->
            IF MayFollow("micros") THEN Goes([in |-> "half", of |-> "micro"]) ELSE Fails
       [] c = "n" -> Goes([in |-> "half", of |-> "n"])
       [] OTHER -> IF units = <<>> THEN EndBefore("int", c) ELSE Fails

(* The rune after an m, a micro sign or an n.                              *)
HalfSuffix(c) ==
  /\ scan.in = "half"
  /\ IF c = "s"
     THEN Suffix(CASE scan.of = "m" -> "ms" [] scan.of = "micro" -> "micros" [] OTHER -> "ns")
     ELSE IF scan.of # "m" \/ ~MayFollow("m") THEN Fails
     ELSE IF c = "digit" THEN scan' = In("int") /\ WithUnit("m")
     ELSE /\ token' = [type |-> "duration", units |-> Append(units, "m")]
          /\ units' = <<>> /\ scan' = Starts(c)

AfterSuffix(c) ==
  /\ scan.in = "unit"
  /\ IF c = "digit" THEN Goes(In("int")) ELSE EndBefore("duration", c)

ReadRune(c) ==
  /\ \/ Gap(c) \/ Slash(c) \/ LineComment(c) \/ ScanDocument(c) \/ ScanString(c)
     \/ Dots(c) \/ ScanAt(c) \/ ScanIdent(c) \/ Number(c) \/ HalfSuffix(c) \/ AfterSuffix(c)
  /\ Reader(c)

ScannerNext == (\E c \in Runes : ReadRune(c)) \/ UnknownAt

ScannerSpec == ScannerInit /\ [][ScannerNext]_scannerVars
-----------------------------------------------------------------------------
(* Also, the units of a duration go from long to short.                    *)
ScannerTypeOK ==
  /\ scan.in \in {"gap", "slash", "comment", "document", "string", "dot", "at", "ident", "int",
                  "half", "unit", "end", "error"}
  /\ Len(units) <= MaxUnits /\ Len(token.units) <= MaxUnits + 1
  /\ truth.in \in {"gap", "slash", "comment", "document", "string"}
  /\ stray \in {"no", "star", "strayed"}
  /\ token.type = "duration" <=> token.units # <<>>
  /\ \A i, j \in DOMAIN token.units : i < j => Rank(token.units[i]) < Rank(token.units[j])

Nested == {"comment", "document", "string"}

(* The scanner takes no code for a comment or a string: where it is in     *)
(* one, so is the reader, in the same.  It leaves none before its end      *)
(* either, but for a document in which a slash comes after a star that     *)
(* stands alone: it ends there, and the rest of it is read as code.        *)
InStep ==
  \/ stray = "strayed"
  \/ scan.in \in {"end", "error"}
  \/ /\ scan.in \in Nested => truth.in = scan.in /\ (scan.in = "string" => truth.of = scan.of)
     /\ truth.in \in Nested => scan.in = truth.in
=============================================================================
