----------------------------- MODULE INIFormat -----------------------------
(***************************************************************************)
(* What mINI reads from a file, generates and writes back into one.  A     *)
(* line stands for what INIParser::parseLine makes of its text, and every  *)
(* line the library puts into a file is the one it will be read as, which  *)
(* need not be the one that was meant; the texts themselves are in         *)
(* INIText.  Blanks, letters, the byte order mark and pretty-printing are  *)
(* left out.  byHand tells a line found in a file from one the library has *)
(* put there, so that what becomes of the former can be followed.          *)
(***************************************************************************)
EXTENDS Naturals, Sequences, SequencesExt

CONSTANTS Sections, Keys, Values,
          Trim,        \* INIStringUtil::trim on values
          NoName,      \* the name or value of a line that has none
          HeaderAs,    \* what is read of the header that is written for a section,
          KeyAs,       \* of the line that is written for a key and a value,
          ReplacedAs,  \* of the line of a key and a value when another value is put there
          PlainSections, PlainKeys, PlainValues  \* those with nothing the parser would look at

Read == {Trim[v] : v \in Values}   \* the values a file can have

(* What parseLine makes of a line that is not blank. *)
Parses == [type : {"comment", "unknown"}, name : {NoName}, value : {NoName}]
          \cup [type : {"section"}, name : Sections, value : {NoName}]
          \cup [type : {"keyvalue"}, name : Keys, value : Read]

ParsedSection(s) == [type |-> "section", name |-> s, value |-> NoName]
ParsedKey(k, v) == [type |-> "keyvalue", name |-> k, value |-> v]

ASSUME TrimAssumption == /\ Trim \in [Values -> Values]
                         /\ \A v \in Values : Trim[Trim[v]] = Trim[v]
ASSUME NoNameAssumption == NoName \notin Sections \cup Keys \cup Values
ASSUME TextsAssumption ==
    /\ HeaderAs \in [Sections -> Parses]
    /\ KeyAs \in [Keys -> [Read -> Parses]]
    /\ ReplacedAs \in [Keys -> [Read -> [Read -> Parses]]]
ASSUME PlainAssumption ==
    /\ \A s \in PlainSections \cap Sections : HeaderAs[s] = ParsedSection(s)
    /\ \A k \in PlainKeys \cap Keys, v \in Read :
          /\ KeyAs[k][v] = ParsedKey(k, v)
          /\ \A u \in PlainValues \cap Read : ReplacedAs[k][u][v] = ParsedKey(k, v)

PlainTexts == Sections \subseteq PlainSections /\ Keys \subseteq PlainKeys /\ Read \subseteq PlainValues

Lines == [type : {"none", "comment", "unknown"}, name : {NoName}, value : {NoName}, byHand : BOOLEAN]
         \cup [type : {"section"}, name : Sections, value : {NoName}, byHand : BOOLEAN]
         \cup [type : {"keyvalue"}, name : Keys, value : Read, byHand : BOOLEAN]

AsLine(parsed, byHand) ==
    [type |-> parsed.type, name |-> parsed.name, value |-> parsed.value, byHand |-> byHand]

SectionLine(s) == AsLine(HeaderAs[s], FALSE)
KeyLine(k, v) == AsLine(KeyAs[k][Trim[v]], FALSE)

(* The line of a key that has the value v now. *)
UpdatedLine(line, v) ==
    IF line.value = v THEN line
    ELSE AsLine(ReplacedAs[line.name][line.value][Trim[v]], line.byHand)

-----------------------------------------------------------------------------
(* An INIMap seen from outside (see OrderedMap): pairs in order of         *)
(* insertion.  An INIStructure is a map of sections to maps of keys.       *)

Has(m, k) == \E i \in DOMAIN m : m[i].key = k
At(m, k) == m[CHOOSE i \in DOMAIN m : m[i].key = k].val

HasKey(data, s, k) == Has(data, s) /\ Has(At(data, s), k)

Put(m, k, v) == IF Has(m, k)
                THEN [i \in DOMAIN m |-> IF m[i].key = k THEN [m[i] EXCEPT !.val = v] ELSE m[i]]
                ELSE Append(m, [key |-> k, val |-> v])

(* The elements of a sequence that are in a set. *)
Only(s, set) == FlattenSeq([i \in DOMAIN s |-> IF s[i] \in set THEN <<s[i]>> ELSE <<>>])

Without(m, k) == Only(m, {e \in ToSet(m) : e.key # k})

(* What m has and old has not. *)
Added(m, old) == Only(m, {e \in ToSet(m) : ~Has(old, e.key)})

-----------------------------------------------------------------------------
(* INIReader *)

(* One line: a header opens its section, a key goes into the section; keys *)
(* before the first header and unknown lines are not kept.                 *)
ReadLine(r, line) ==
    CASE line.type = "section" ->
           [r EXCEPT !.section = line.name, !.inSection = TRUE,
                     !.data = IF Has(@, line.name) THEN @ ELSE Put(@, line.name, <<>>),
                     !.kept = Append(@, line)]
      [] line.type = "keyvalue" /\ r.inSection ->
           [r EXCEPT !.data = Put(@, r.section, Put(At(@, r.section), line.name, line.value)),
                     !.kept = Append(@, line)]
      [] line.type \in {"none", "comment"} -> [r EXCEPT !.kept = Append(@, line)]
      [] OTHER -> r

ReaderStart == [data |-> <<>>, kept |-> <<>>, section |-> NoName, inSection |-> FALSE]

Reader(lines) == FoldLeft(ReadLine, ReaderStart, lines)

-----------------------------------------------------------------------------
(* INIGenerator, and what INIWriter does with a section that is new. *)

KeyLines(collection) == [i \in DOMAIN collection |-> KeyLine(collection[i].key, collection[i].val)]

Generated(data) ==
    FlattenSeq([i \in DOMAIN data |-> <<SectionLine(data[i].key)>> \o KeyLines(data[i].val)])

-----------------------------------------------------------------------------
(* INIWriter::getLazyOutput.  Its state while it walks over the old lines: *)
(* output, lastKeyLine, sectionCurrent, parsingSection (a kept section has *)
(* been opened and its new keys are not written), continueToNextSection    *)
(* and discardNextEmpty.                                                   *)

WriterStart == [output |-> <<>>, lastKeyLine |-> 0, sectionCurrent |-> NoName,
                parsingSection |-> FALSE, continueToNextSection |-> FALSE, discardNextEmpty |-> FALSE]

Emit(w, line) == [w EXCEPT !.output = Append(@, line)]
EmitKeyLine(w, line) == [w EXCEPT !.output = Append(@, line), !.lastKeyLine = Len(w.output) + 1]

InsertAfter(s, i, new) == SubSeq(s, 1, i) \o new \o SubSeq(s, i + 1, Len(s))

(* The keys of the current section that the file does not have go behind   *)
(* the last line that was written for it.                                  *)
WriteNewKeys(w, data, original) ==
    IF Has(data, w.sectionCurrent) /\ Has(original, w.sectionCurrent)
    THEN [w EXCEPT !.output =
            InsertAfter(@, w.lastKeyLine,
                KeyLines(Added(At(data, w.sectionCurrent), At(original, w.sectionCurrent))))]
    ELSE w

(* Mutant: a section that is kept does not end the skipping of lines. *)
WriteHeaderSkipping(w, line, data, original) ==
    LET ended == IF w.parsingSection THEN WriteNewKeys(w, data, original) ELSE w
        at == [ended EXCEPT !.sectionCurrent = line.name, !.parsingSection = Has(data, line.name)]
    IN IF Has(data, line.name)
       THEN EmitKeyLine([at EXCEPT !.discardNextEmpty = FALSE], line)
       ELSE [at EXCEPT !.continueToNextSection = TRUE, !.discardNextEmpty = TRUE]

(* A header first ends the kept section before it: the code steps back and *)
(* comes to the line again.                                                *)
WriteHeader(w, line, data, original) ==
    LET ended == IF w.parsingSection THEN WriteNewKeys(w, data, original) ELSE w
        at == [ended EXCEPT !.sectionCurrent = line.name, !.parsingSection = Has(data, line.name)]
    IN IF Has(data, line.name)
       THEN EmitKeyLine([at EXCEPT !.continueToNextSection = FALSE, !.discardNextEmpty = FALSE], line)
       ELSE [at EXCEPT !.continueToNextSection = TRUE, !.discardNextEmpty = TRUE]

(* A key keeps its line, with the value it has now. *)
WriteKey(w, line, data) ==
    IF ~w.continueToNextSection /\ HasKey(data, w.sectionCurrent, line.name)
    THEN EmitKeyLine(w, UpdatedLine(line, At(At(data, w.sectionCurrent), line.name)))
    ELSE w

(* Mutant: the comments of a section that has been removed go with it. *)
WriteOtherDropping(w, line) ==
    IF w.continueToNextSection THEN w ELSE Emit(w, line)

WriteOther(w, line) ==
    IF w.discardNextEmpty /\ line.type = "none"
    THEN [w EXCEPT !.discardNextEmpty = FALSE]
    ELSE Emit(w, line)

WriteLine(w, line, data, original) ==
    CASE line.type = "section" -> WriteHeader(w, line, data, original)
      [] line.type = "keyvalue" -> WriteKey(w, line, data)
      [] OTHER -> WriteOther(w, line)

(* The walk over the old lines. *)
Walked(kept, data, original) ==
    FoldLeft(LAMBDA w, line : WriteLine(w, line, data, original), WriterStart, kept)

(* The last line also ends its section.  Where the code leaves the pass    *)
(* over it early the section has been removed, and nothing is added.       *)
LazyOutput(kept, data, original) ==
    WriteNewKeys(Walked(kept, data, original), data, original).output
    \o Generated(Added(data, original))

(* INIWriter's operator<<, for a file that is there, and for one that is not. *)
Rewritten(lines, data) ==
    LET old == Reader(lines) IN LazyOutput(old.kept, data, old.data)

Written(file, data) == IF file.exists THEN Rewritten(file.lines, data) ELSE Generated(data)
=============================================================================
