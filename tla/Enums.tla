-------------------------------- MODULE Enums --------------------------------
(***************************************************************************)
(* The Go enums that zctl rpc writes: parseProtoEnums reads the protos of  *)
(* desc/ line by line, genEnumFile writes a file of package enums for each *)
(* enum, and zctl rpc enum writes one from a list of values.  All files    *)
(* are one Go package, and none is ever removed.  A name is a sequence of  *)
(* words and the style in which they are spelled.                          *)
(***************************************************************************)
EXTENDS Integers, Sequences, SequencesExt, FiniteSets

CONSTANTS EnumName,    \* [words, style]
          EnumValue,   \* [words, number], as in the proto
          MaxEnumLines \* bound: lines of the proto

ASSUME EnumsAssumption ==
  /\ MaxEnumLines \in Nat
  /\ EnumName \subseteq [words : Seq(STRING) \ {<<>>}, style : STRING]
  /\ EnumValue \subseteq [words : Seq(STRING) \ {<<>>}, number : Int]

(* A name that has its brace right behind it, as in enum Order{, is read   *)
(* with the brace.                                                         *)
OpenBrace == "{"
WithBrace(enum) == [enum EXCEPT !.words = Append(@, OpenBrace)]
NameRead == EnumName \cup {WithBrace(enum) : enum \in EnumName}

(* A line: the head of an enum, of one in a comment, of one with a value   *)
(* or without the brace, which is the next line, or an enum on one line; a *)
(* value; values that the expression for a line does not match (two of     *)
(* them, or a hexadecimal number); and braces, the last behind a value.    *)
EnumLine ==
  [is : {"head", "comment", "valued", "bare", "whole"}, enum : EnumName]
  \cup [is : {"tight"}, enum : {WithBrace(enum) : enum \in EnumName}]
  \cup [is : {"value"}, value : EnumValue] \cup [is : {"values", "option", "brace", "close", "last"}]

VARIABLES
  protoLines, \* the enums of desc/
  enumFiles,  \* pkg/enums: per file, the enum and its values
  enumsFrom   \* what the last command read: "none", "proto", "list"
enumsVars == <<protoLines, enumFiles, enumsFrom>>

(* protoEnumValueToName: the name without the enum's, in small letters.    *)
ValueName(enum, v) ==
  [name |-> IF IsStrictPrefix(enum.words, v.words) THEN SubSeq(v.words, Len(enum.words) + 1, Len(v.words))
            ELSE v.words,
   number |-> v.number]

Braces(l) ==
  CASE l.is \in {"head", "comment", "valued", "tight", "option", "brace"} -> 1
    [] l.is \in {"close", "last"} -> 0 - 1 [] OTHER -> 0
Heads(l) == l.is \in {"head", "comment", "valued", "tight", "whole"}

(* parseProtoEnums: values at depth one, up to the line where the braces   *)
(* are even.  The line behind a whole enum is read as one of its lines.    *)
Searching == [open |-> FALSE, depth |-> 0, enum |-> <<>>, values |-> <<>>, enums |-> <<>>]
Closed(p) ==
  [Searching EXCEPT !.enums = IF p.values = <<>> THEN p.enums
                              ELSE Append(p.enums, [enum |-> p.enum, values |-> p.values])]
ReadEnumLine(p, l) ==
  IF ~p.open
  THEN IF Heads(l) THEN [p EXCEPT !.open = TRUE, !.depth = Braces(l), !.enum = l.enum] ELSE p
  ELSE LET q == [p EXCEPT !.depth = @ + Braces(l),
                          !.values = IF p.depth = 1 /\ l.is = "value" THEN Append(@, ValueName(p.enum, l.value)) ELSE @]
       IN IF q.depth <= 0 THEN Closed(q) ELSE q
ParseProtoEnums(lines) ==
  LET p == FoldLeft(ReadEnumLine, Searching, lines)
  IN IF p.open THEN Closed(p).enums ELSE p.enums

(* genEnumFile: toSnake tells words apart, and no styles.                  *)
GenEnumFile(files, e) == [w \in DOMAIN files \cup {e.enum.words} |-> IF w = e.enum.words THEN e ELSE files[w]]

EnumsInit == protoLines = <<>> /\ enumFiles = <<>> /\ enumsFrom = "none"

(* What the developer writes is what protoc takes.                         *)
StartsEnum(l) == Heads(l) \/ l.is = "bare"
Odd(lines) == \E k \in DOMAIN lines : lines[k].is \in {"valued", "bare", "tight", "last"}
Deeper(depth, l) == depth + Braces(l)
Depth(lines) == FoldLeft(Deeper, 0, lines)
WriteProtoLine ==
  /\ Len(protoLines) < MaxEnumLines /\ enumsFrom = "none"
  /\ enumFiles # <<>> => Len(protoLines) < 3   \* bound: next to files, small protos
  /\ \E l \in EnumLine :
       /\ l.is = "brace" <=> protoLines # <<>> /\ Last(protoLines).is = "bare"
       /\ StartsEnum(l) \/ l.is = "brace" <=> Depth(protoLines) = 0
       /\ l.is \in {"value", "values", "option", "last"} => Depth(protoLines) = 1
       /\ Len(protoLines) >= 4 =>   \* bound: longer protos have two enums of the same words
            protoLines[4].is = "head" /\ protoLines[4].enum.words = protoLines[1].enum.words
       /\ Odd(Append(protoLines, l)) =>   \* bound: next to no files, small protos
            Len(protoLines) < 4 /\ enumFiles = <<>>
       /\ protoLines' = Append(protoLines, l)
  /\ enumsFrom' = "none" /\ UNCHANGED enumFiles

(* The developer begins desc/ anew.                                        *)
DropProto ==
  /\ enumsFrom = "proto"
  /\ Len(protoLines) = 3 /\ ~Odd(protoLines) /\ Cardinality(DOMAIN enumFiles) = 1   \* bound: one file of a plain proto
  /\ protoLines' = <<>> /\ enumsFrom' = "none" /\ UNCHANGED enumFiles

GenEnumsFromProto ==
  /\ Depth(protoLines) = 0 /\ enumsFrom = "none"
  /\ enumFiles' = FoldLeft(GenEnumFile, enumFiles, ParseProtoEnums(protoLines))
  /\ enumsFrom' = "proto" /\ UNCHANGED protoLines

(* zctl rpc enum: the values have their places for numbers.                *)
EnumGen ==
  /\ enumsFrom = "proto" /\ Len(protoLines) <= 3 /\ ~Odd(protoLines)   \* bound: next to small, plain protos
  /\ \E enum \in EnumName, v \in EnumValue :
       enumFiles' = GenEnumFile(enumFiles, [enum |-> enum, values |-> <<[name |-> v.words, number |-> 0]>>])
  /\ enumsFrom' = "list" /\ UNCHANGED protoLines

EnumsNext == WriteProtoLine \/ DropProto \/ GenEnumsFromProto \/ EnumGen
-----------------------------------------------------------------------------
EnumsTypeOK ==
  /\ Len(protoLines) <= MaxEnumLines /\ Range(protoLines) \subseteq EnumLine
  /\ \A w \in DOMAIN enumFiles : enumFiles[w].enum \in NameRead /\ enumFiles[w].enum.words = w
  /\ enumsFrom \in {"none", "proto", "list"}

(* The enums that the proto really has, with their first and last line.    *)
LastOf(i) ==
  IF protoLines[i].is = "whole" THEN i
  ELSE CHOOSE j \in i .. Len(protoLines) :
         /\ Depth(SubSeq(protoLines, 1, j)) = 0
         /\ \A k \in i .. j - 1 : Depth(SubSeq(protoLines, 1, k)) # 0
HeadLines == {i \in DOMAIN protoLines : StartsEnum(protoLines[i])}
Between(i) == SubSeq(protoLines, i + 1, LastOf(i) - 1)
WithValue(values, l) == IF l.is = "value" THEN Append(values, l.value) ELSE values
TrueValues(i) ==
  LET values == FoldLeft(WithValue, <<>>, Between(i))
  IN [k \in DOMAIN values |-> ValueName(protoLines[i].enum, values[k])]

(* "Parses: enum Xxx { VALUE_A = 0; VALUE_B = 1; ... }": right after a run *)
(* the file of an enum has its values, unless the enum stands on one line  *)
(* as in that comment, or behind such a one; its brace stands on the next  *)
(* line or right behind its name; some of its values share a line, or one  *)
(* shares that of a brace of the enum; it has none; or another enum that   *)
(* is found has its words, in a comment or not.  An enum on one line takes *)
(* the values of the enum behind it.                                       *)
Taken(i) == i - 1 \in HeadLines /\ protoLines[i - 1].is = "whole"
Namesake(i) ==
  \E j \in HeadLines \ {i} : Heads(protoLines[j]) /\ protoLines[j].enum.words = protoLines[i].enum.words
SharesLine(i) == \E k \in i .. LastOf(i) : protoLines[k].is \in {"valued", "values", "last"}
EnumsRead ==
  enumsFrom = "proto" =>
    \A i \in HeadLines :
      LET e == protoLines[i].enum IN
        \/ protoLines[i].is \in {"comment", "whole", "bare", "tight"}
        \/ TrueValues(i) = <<>> \/ Namesake(i) \/ Taken(i)
        \/ e.words \in DOMAIN enumFiles /\ enumFiles[e.words] = [enum |-> e, values |-> TrueValues(i)]
        \/ SharesLine(i)

(* The Go compiler on package enums.                                       *)
Identifier(e, words) == [style |-> e.enum.style, words |-> words]
Declarations(e) ==
  <<Identifier(e, e.enum.words), Identifier(e, Append(e.enum.words, "values")),
    Identifier(e, <<"parse">> \o e.enum.words)>>
  \o [k \in DOMAIN e.values |-> Identifier(e, e.enum.words \o e.values[k].name)]
Numbers(e) == {e.values[k].number : k \in DOMAIN e.values}
Int8 == -128 .. 127
EnumsCompile ==
  /\ \A w \in DOMAIN enumFiles :
       LET e == enumFiles[w] IN
         /\ Last(w) # OpenBrace /\ IsInjective(Declarations(e)) /\ Cardinality(Numbers(e)) = Len(e.values)
         /\ Numbers(e) \subseteq Int8
  /\ \A w, x \in DOMAIN enumFiles : w # x =>
       Range(Declarations(enumFiles[w])) \cap Range(Declarations(enumFiles[x])) = {}

(* It compiles, unless the brace of an enum stood right behind its name, a *)
(* value is beyond int8, two values of an enum are one (allow_alias, or an *)
(* enum that took another's values), or the words of an enum are those of  *)
(* another followed by those of a value of it, or by "values", or begin as *)
(* "parse" and those of another do - even if the proto has long lost one   *)
(* of the two.                                                             *)
EnumsFit ==
  \/ EnumsCompile \/ \E w \in DOMAIN enumFiles : Last(w) = OpenBrace
  \/ \E v \in EnumValue : v.number \notin Int8 /\ \E w \in DOMAIN enumFiles : v.number \in Numbers(enumFiles[w])
  \/ \E w \in DOMAIN enumFiles : \E j, k \in DOMAIN enumFiles[w].values :
       j # k /\ (\/ enumFiles[w].values[j].number = enumFiles[w].values[k].number
                 \/ enumFiles[w].values[j].name = enumFiles[w].values[k].name)
  \/ \E w \in DOMAIN enumFiles : \E k \in DOMAIN enumFiles[w].values : enumFiles[w].values[k].name = <<"values">>
  \/ \E w, x \in DOMAIN enumFiles : IsStrictPrefix(w, x) /\ enumFiles[w].enum.style = enumFiles[x].enum.style
  \/ \E w, x \in DOMAIN enumFiles :
       IsPrefix(w, <<"parse">> \o x) /\ enumFiles[w].enum.style = enumFiles[x].enum.style
EnumsKnown == EnumsRead /\ EnumsFit
=============================================================================
