------------------------------ MODULE INIFile ------------------------------
(***************************************************************************)
(* mINI::INIFile: a program that reads a file, edits what it has read, and *)
(* writes it back or generates the file anew, in any order.                *)
(***************************************************************************)
EXTENDS INIFormat

CONSTANTS InitialFiles,  \* bound: what may be in the file at the start
          MaxEdits,      \* bound: edits in a behaviour
          MaxOldLines    \* bound: lines of a file that is written over

ASSUME FilesAssumption == InitialFiles \subseteq Seq({l \in Lines : l.byHand})
ASSUME BoundsAssumption == MaxEdits \in Nat /\ MaxOldLines \in Nat

VARIABLES
    disk,   \* the file: [exists, lines]
    data,   \* the program's INIStructure
    edits   \* edits so far

iniVars == <<disk, data, edits>>

INIInit ==
    /\ \/ disk = [exists |-> FALSE, lines |-> <<>>]
       \/ \E lines \in InitialFiles : disk = [exists |-> TRUE, lines |-> lines]
    /\ data = <<>>
    /\ edits = 0

(* The structure is cleared, also when there is no file to read. *)
ReadFile ==
    /\ data' = IF disk.exists THEN Reader(disk.lines).data ELSE <<>>
    /\ UNCHANGED <<disk, edits>>

Generate ==
    /\ disk' = [exists |-> TRUE, lines |-> Generated(data)]
    /\ UNCHANGED <<data, edits>>

Write ==
    /\ Len(disk.lines) <= MaxOldLines
    /\ disk' = [exists |-> TRUE, lines |-> Written(disk, data)]
    /\ UNCHANGED <<data, edits>>

INIEdit(new) == /\ edits < MaxEdits
                /\ edits' = edits + 1
                /\ data' = new
                /\ UNCHANGED disk

Section(s) == IF Has(data, s) THEN At(data, s) ELSE <<>>

Open(s) == INIEdit(Put(data, s, Section(s)))
Set(s, k, v) == INIEdit(Put(data, s, Put(Section(s), k, v)))
RemoveKey(s, k) == Has(data, s) /\ INIEdit(Put(data, s, Without(Section(s), k)))
RemoveSection(s) == INIEdit(Without(data, s))

ININext == \/ ReadFile \/ Generate \/ Write
           \/ \E s \in Sections : \/ Open(s) \/ RemoveSection(s)
                                  \/ \E k \in Keys : RemoveKey(s, k) \/ \E v \in Values : Set(s, k, v)

INISpec == INIInit /\ [][ININext]_iniVars

-----------------------------------------------------------------------------
(* Properties. *)

(* What a structure says, whatever its order: the sections, and the values *)
(* of keys as a file can have them.                                        *)
Entries(d) == [sections |-> {d[i].key : i \in DOMAIN d},
               values |-> UNION {{<<d[i].key, e.key, Trim[e.val]>> : e \in ToSet(d[i].val)} : i \in DOMAIN d}]

(* What the file can carry: the sections and keys that are new to it have  *)
(* plain names, and of a key whose line it has the value is the same, or   *)
(* the line is plain.                                                      *)
Readable(lines) ==
    LET old == Reader(lines).data
    IN /\ \A s \in Sections : Has(data, s) /\ ~Has(old, s) => s \in PlainSections
       /\ \A s \in Sections, k \in Keys :
             HasKey(data, s, k) /\ ~HasKey(old, s, k) => k \in PlainKeys
       /\ \A i \in DOMAIN lines : lines[i].type = "keyvalue" =>
             \/ lines[i].name \in PlainKeys /\ lines[i].value \in PlainValues
             \/ \A s \in Sections : HasKey(data, s, lines[i].name) =>
                   At(At(data, s), lines[i].name) = lines[i].value

(* Writing over any file, with its duplicates, comments and garbage, then  *)
(* reading: every section and key is there with its value and nothing else *)
(* is, so long as the file can carry them.                                 *)
RoundTrip == [][Write /\ Readable(disk.lines)
                => Entries(Reader(disk'.lines).data) = Entries(data)]_iniVars

(* The section a line is in: that of the last header up to it. *)
SectionAt(lines, i) ==
    LET headers == {j \in 1 .. i : lines[j].type = "section"}
    IN IF headers = {} THEN NoName ELSE lines[CHOOSE j \in headers : \A h \in headers : h <= j].name

(* What is to become of a line that is written over. *)
Survivor(lines, i) ==
    LET line == lines[i] s == SectionAt(lines, i)
    IN CASE line.type = "comment" -> <<line>>
         [] line.type = "section" /\ Has(data, s) -> <<line>>
         [] line.type = "keyvalue" /\ HasKey(data, s, line.name) ->
              <<UpdatedLine(line, At(Section(s), line.name))>>
         [] OTHER -> <<>>

ByHand(lines) == Only(lines, {l \in Lines : l.byHand /\ l.type # "none"})

(* README: a lazy write "only writes changes and updates and preserves     *)
(* custom formatting and comments": the lines of the old file that are     *)
(* still of use, comments among them, are all there, in their order, with  *)
(* nothing but the values changed.                                         *)
HandworkKept ==
    [][Write /\ disk.exists =>
         ByHand(disk'.lines)
         = ByHand(FlattenSeq([i \in DOMAIN disk.lines |-> Survivor(disk.lines, i)]))]_iniVars
=============================================================================
