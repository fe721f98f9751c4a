------------------------------ MODULE INIText ------------------------------
(***************************************************************************)
(* The texts of mINI's lines: what parseLine makes of one, and what the    *)
(* generator and the writer put into one.  A text is a sequence of         *)
(* characters; of those that mean nothing to the format only the letters   *)
(* and the blank are needed.                                               *)
(***************************************************************************)
EXTENDS Naturals, Sequences, SequencesExt

Blank == " "

TrimText(t) ==
    LET solid == {i \in DOMAIN t : t[i] # Blank}
    IN IF solid = {} THEN <<>> ELSE SubSeq(t, Min(solid), Max(solid))

Starts(t, c) == t # <<>> /\ t[1] = c
Ends(t, c) == t # <<>> /\ t[Len(t)] = c

(* An equals sign behind a backslash is part of a name. *)
IsEscape(t, i) == t[i] = "\\" /\ i < Len(t) /\ t[i + 1] = "="

EscapeText(t) == FlattenSeq([i \in DOMAIN t |-> IF t[i] = "=" THEN <<"\\", "=">> ELSE <<t[i]>>])
UnescapeText(t) == FlattenSeq([i \in DOMAIN t |-> IF IsEscape(t, i) THEN <<>> ELSE <<t[i]>>])

(* lineNorm: as long as the line, with blanks for what is escaped. *)
Norm(t) == [i \in DOMAIN t |->
               IF IsEscape(t, i) \/ (i > 1 /\ IsEscape(t, i - 1)) THEN Blank ELSE t[i]]

EqualsAt(t) == SelectInSeq(Norm(t), LAMBDA c : c = "=")

-----------------------------------------------------------------------------
(* INIParser::parseLine *)

Parsed(type, name, value) == [type |-> type, name |-> name, value |-> value]

ParseKey(t) ==
    LET equals == EqualsAt(t)
    IN IF equals = 0 THEN Parsed("unknown", <<>>, <<>>)
       ELSE Parsed("keyvalue", UnescapeText(TrimText(SubSeq(t, 1, equals - 1))),
                   TrimText(SubSeq(t, equals + 1, Len(t))))

(* A header may have a comment behind it; without a closing bracket the    *)
(* line is looked at as a key, and the comment is gone.                    *)
ParseHeader(t) ==
    LET comment == SelectInSeq(t, LAMBDA c : c = ";")
        rest == IF comment = 0 THEN t ELSE SubSeq(t, 1, comment - 1)
        closing == SelectLastInSeq(rest, LAMBDA c : c = "]")
    IN IF closing = 0 THEN ParseKey(rest)
       ELSE Parsed("section", TrimText(SubSeq(rest, 2, closing - 1)), <<>>)

ParseLine(line) ==
    LET t == TrimText(line)
    IN CASE t = <<>> -> Parsed("none", <<>>, <<>>)
         [] Starts(t, ";") -> Parsed("comment", <<>>, <<>>)
         [] Starts(t, "[") -> ParseHeader(t)
         [] OTHER -> ParseKey(t)

-----------------------------------------------------------------------------
(* INIGenerator and INIWriter *)

HeaderText(section) == <<"[">> \o section \o <<"]">>
KeyText(key, value) == EscapeText(key) \o <<"=">> \o TrimText(value)

(* The writer puts a new value behind the equals sign of the old line and  *)
(* the blanks there, among which it takes what is escaped for.             *)
ReplacedText(line, value) ==
    LET equals == EqualsAt(line)
        valueAt == SelectInSubSeq(Norm(line), equals + 1, Len(line), LAMBDA c : c # Blank)
    IN (IF valueAt = 0 THEN line ELSE SubSeq(line, 1, valueAt - 1)) \o TrimText(value)

(* A line of a file that has this key with this value: a blank keeps a     *)
(* backslash at the end of the key from the equals sign.                   *)
OldText(key, value) ==
    IF Ends(key, "\\") THEN EscapeText(key) \o <<Blank, "=">> \o value ELSE KeyText(key, value)

-----------------------------------------------------------------------------
(* The texts that are read back whatever is around them.                   *)

PlainSectionText(s) == \A i \in DOMAIN s : s[i] # ";"
PlainKeyText(k) == ~Starts(k, ";") /\ ~Starts(k, "[") /\ ~Ends(k, "\\")
PlainValueText(v) == ~(Len(v) > 1 /\ IsEscape(v, 1))

(* Trimmed texts of up to n characters. *)
Characters == {"a", "=", "\\", ";", "[", "]", Blank}
ShortTexts(n) == {t \in SeqOf(Characters, n) : TrimText(t) = t}

(* What is written for a section is read as that section just where its    *)
(* name is plain; a key, whatever its value, just where the key is; and a  *)
(* plain key keeps what is written over its value just where the old value *)
(* is plain.                                                               *)
SectionsReadBack(n) ==
    \A s \in ShortTexts(n) :
       PlainSectionText(s) <=> ParseLine(HeaderText(s)) = Parsed("section", s, <<>>)

KeysReadBack(n, m) ==
    \A k \in ShortTexts(n) :
       PlainKeyText(k)
       <=> \A v \in ShortTexts(m) : ParseLine(KeyText(k, v)) = Parsed("keyvalue", k, v)

ReplacedReadBack(n) ==
    \A k \in ShortTexts(n), u \in ShortTexts(n) :
       PlainKeyText(k) =>
          (PlainValueText(u)
           <=> \A v \in ShortTexts(n) :
                  ParseLine(ReplacedText(OldText(k, u), v)) = Parsed("keyvalue", k, v))
=============================================================================
