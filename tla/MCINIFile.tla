----------------------------- MODULE MCINIFile -----------------------------
(* INIFile for TLC: names and values with the texts they stand for, from   *)
(* which what is read of a line is computed.                               *)
EXTENDS INIFile, INIText, TLC

CONSTANTS s1, s2, oddSection, k1, oddKey, v1, padded, oddValue,
          MaxLines   \* bound: lines of the file at the start

(* The odd ones: a section that is read as s1, a key that hides its equals *)
(* sign, a value that the writer takes for blanks.                         *)
Text == s1 :> <<"s">> @@ s2 :> <<"t">> @@ oddSection :> <<"s", "]", ";">>
        @@ k1 :> <<"k", "=">> @@ oddKey :> <<"k", "\\">>
        @@ v1 :> <<"v">> @@ padded :> <<Blank, "v">> @@ oddValue :> <<"\\", "=", "v">>

Known(text, set) == \E x \in set : Text[x] = text
Named(text, set) == CHOOSE x \in set : Text[x] = text

MCTrim == [v \in Values |-> Named(TrimText(Text[v]), Values)]

(* What a line is read as, and whether its name and value are among those  *)
(* of the instance.                                                        *)
InBound(p) == /\ p.type = "section" => Known(p.name, Sections)
              /\ p.type = "keyvalue" => Known(p.name, Keys) /\ Known(p.value, Read)

As(line) ==
    LET p == ParseLine(line)
    IN CASE p.type = "section" /\ InBound(p) -> ParsedSection(Named(p.name, Sections))
         [] p.type = "keyvalue" /\ InBound(p) -> ParsedKey(Named(p.name, Keys), Named(p.value, Read))
         [] OTHER -> [type |-> IF p.type = "comment" THEN "comment" ELSE "unknown",
                      name |-> NoName, value |-> NoName]

MCHeaderAs == [s \in Sections |-> As(HeaderText(Text[s]))]
MCKeyAs == [k \in Keys |-> [v \in Read |-> As(KeyText(Text[k], Text[v]))]]
MCReplacedAs == [k \in Keys |-> [u \in Read |-> [v \in Read |->
                    As(ReplacedText(OldText(Text[k], Text[u]), Text[v]))]]]

MCPlainSections == {s \in Sections : PlainSectionText(Text[s])}
MCPlainKeys == {k \in Keys : PlainKeyText(Text[k])}
MCPlainValues == {v \in Read : PlainValueText(Text[v])}

(* The instance is closed: only a value that is replaced by itself, which  *)
(* the writer does not do, would give another one.                         *)
ASSUME ClosedAssumption ==
    /\ \A s \in Sections : InBound(ParseLine(HeaderText(Text[s])))
    /\ \A k \in Keys, v \in Read :
          /\ InBound(ParseLine(KeyText(Text[k], Text[v])))
          /\ \A u \in Read \ {v} : InBound(ParseLine(ReplacedText(OldText(Text[k], Text[u]), Text[v])))

(* What is plain is what is read back, for short texts.                    *)
ASSUME PlainIsReadBack == SectionsReadBack(3) /\ KeysReadBack(3, 2) /\ ReplacedReadBack(2)

(* All files of two lines, and those of up to MaxLines that begin with the *)
(* header of s1 and are made of headers, comments and one key line: with   *)
(* four, a section that is kept, one that is not and the first one again.  *)
(* No header has an odd name.                                              *)
LineByHand(type, name, value) == [type |-> type, name |-> name, value |-> value, byHand |-> TRUE]

ShortFiles == SeqOf({l \in Lines : l.byHand /\ l.name # oddSection}, 2)
LongFiles == {<<LineByHand("section", s1, NoName)>> \o rest :
                 rest \in SeqOf({LineByHand("section", s, NoName) : s \in MCPlainSections}
                                \cup {LineByHand("comment", NoName, NoName), LineByHand("keyvalue", k1, v1)},
                                MaxLines - 1)}
MCFiles == ShortFiles \cup LongFiles
=============================================================================
