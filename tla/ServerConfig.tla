---------------------------- MODULE ServerConfig ----------------------------
(***************************************************************************)
(* Server::Server: every start reads Config.ini, replaces what is missing  *)
(* by defaults, writes the file anew and opens the database.  The process  *)
(* may end at any point and be started again; the administrator edits the  *)
(* file.  The settings are a parameter: texts, which must not be empty,    *)
(* and numbers, which go through atol into an unsigned int.                *)
(***************************************************************************)
EXTENDS Integers, INIFormat

CONSTANTS Settings,      \* sequence of [section, key, kind, default]
          Empty,         \* the empty value
          Number,        \* atol on values
          UIntValues,    \* how many values an unsigned int has: 2^32
          Cut,           \* what may be left of a value whose line is cut short
          EditedFiles    \* bound: what the administrator may make of the file

Kinds == {"text", "number"}

ASSUME SettingsAssumption == Settings \in Seq([section : Sections, key : Keys, kind : Kinds, default : Values])
ASSUME NumberAssumption == /\ Number \in [Values -> Int] /\ UIntValues \in Nat \ {0}
                           /\ Empty \in Values /\ Number[Empty] = 0
                           /\ Cut \in [Values -> SUBSET Values]
ASSUME EditedAssumption == EditedFiles \subseteq Seq(Lines)

VARIABLES
    pc,          \* where the start is: "down", "configure", "write", "flush", "database", "up"
    file,        \* Config.ini: [exists, lines]
    ini,         \* the structure of the constructor
    settings,    \* the server's members, in the order of Settings
    pending,     \* lines written to the stream and not yet to the disk
    usersTable,  \* the database has the table Users
    edited,      \* history: the lines the administrator last left
    harmed       \* history: a write has been cut short since then

vars == <<pc, file, ini, settings, pending, usersTable, edited, harmed>>

Init ==
    /\ pc = "down"
    /\ file = [exists |-> FALSE, lines |-> <<>>]
    /\ ini = <<>> /\ settings = <<>> /\ pending = <<>>
    /\ usersTable \in BOOLEAN
    /\ edited = <<>> /\ harmed = FALSE

Edit ==
    /\ pc \in {"down", "up"}
    /\ \E lines \in EditedFiles :
          file' = [exists |-> TRUE, lines |-> lines] /\ edited' = lines
    /\ pc' = "down" /\ settings' = <<>>   \* and the server is stopped
    /\ harmed' = FALSE
    /\ UNCHANGED <<ini, pending, usersTable>>

-----------------------------------------------------------------------------
(* The constructor. *)

Entry(d, s) == IF Has(d, s.section) /\ Has(At(d, s.section), s.key)
               THEN At(At(d, s.section), s.key) ELSE Empty

Assign(d, s, v) == Put(d, s.section, Put(IF Has(d, s.section) THEN At(d, s.section) ELSE <<>>, s.key, v))

UInt(v) == Number[v] % UIntValues

(* Mutant: a number is looked at as a text. *)
MissingText(s, v) == v = Empty

(* The comparison with <= 0 is one of an unsigned int. *)
Missing(s, v) == IF s.kind = "text" THEN v = Empty ELSE UInt(v) = 0

(* No setting is read twice, and the defaults are of some use. *)
ASSUME DefaultsAssumption ==
    /\ \A i, j \in DOMAIN Settings :
          Settings[i].section = Settings[j].section /\ Settings[i].key = Settings[j].key => i = j
    /\ \A i \in DOMAIN Settings :
          LET s == Settings[i] IN ~Missing(s, s.default) /\ Trim[s.default] = s.default

Member(s, v) == IF s.kind = "text" THEN v ELSE UInt(v)

Configure(c, s) ==
    LET v == IF Missing(s, Entry(c.ini, s)) THEN s.default ELSE Entry(c.ini, s) IN
    [ini |-> Assign(c.ini, s, v), settings |-> Append(c.settings, Member(s, v))]

(* The settings a start finds in some lines. *)
Configured(lines) == FoldLeft(Configure, [ini |-> Reader(lines).data, settings |-> <<>>], Settings)

Start ==
    /\ pc = "down"
    /\ pc' = "configure"
    /\ UNCHANGED <<file, ini, settings, pending, usersTable, edited, harmed>>

(* Mutant: the file is not read. *)
ReadConfigBlank ==
    /\ pc = "configure"
    /\ LET c == Configured(<<>>) IN ini' = c.ini /\ settings' = c.settings
    /\ pc' = "write"
    /\ UNCHANGED <<file, pending, usersTable, edited, harmed>>

ReadConfig ==
    /\ pc = "configure"
    /\ LET c == Configured(file.lines) IN ini' = c.ini /\ settings' = c.settings
    /\ pc' = "write"
    /\ UNCHANGED <<file, pending, usersTable, edited, harmed>>

(* Mutant: the old file is truncated before it is read once more. *)
WriteOpensFirst ==
    /\ pc = "write"
    /\ pending' = Written([file EXCEPT !.lines = <<>>], ini)
    /\ file' = [exists |-> TRUE, lines |-> <<>>]
    /\ pc' = "flush"
    /\ UNCHANGED <<ini, settings, usersTable, edited, harmed>>

(* The old file is read once more, and truncated. *)
WriteOpens ==
    /\ pc = "write"
    /\ pending' = Written(file, ini)
    /\ file' = [exists |-> TRUE, lines |-> <<>>]
    /\ pc' = "flush"
    /\ UNCHANGED <<ini, settings, usersTable, edited, harmed>>

(* Nobody looks at the result of write(). *)
WriteRefused ==
    /\ pc = "write"
    /\ pc' = "database"
    /\ UNCHANGED <<file, ini, settings, pending, usersTable, edited, harmed>>

Flush ==
    /\ pc = "flush" /\ pending # <<>>
    /\ file' = [file EXCEPT !.lines = Append(@, Head(pending))]
    /\ pending' = Tail(pending)
    /\ UNCHANGED <<pc, ini, settings, usersTable, edited, harmed>>

WriteEnds ==
    /\ pc = "flush" /\ pending = <<>>
    /\ pc' = "database"
    /\ UNCHANGED <<file, ini, settings, pending, usersTable, edited, harmed>>

(* What the disk may keep of a line that is cut. *)
Torn(line) == {[line EXCEPT !.type = "unknown", !.name = NoName, !.value = NoName]}
              \cup (IF line.type = "keyvalue"
                    THEN {[line EXCEPT !.value = Trim[v]] : v \in Cut[line.value]} ELSE {})

WriteBreaksOff ==
    /\ pending # <<>>
    /\ \/ UNCHANGED file
       \/ \E line \in Torn(Head(pending)) : file' = [file EXCEPT !.lines = Append(@, line)]
    /\ pending' = <<>>
    /\ harmed' = TRUE

(* The disk is full: the stream fails, and the start goes on. *)
WriteFails ==
    /\ pc = "flush"
    /\ WriteBreaksOff
    /\ pc' = "database"
    /\ UNCHANGED <<ini, settings, usersTable, edited>>

(* CREATE TABLE IF NOT EXISTS in a transaction. *)
OpenDatabase ==
    /\ pc = "database"
    /\ usersTable' = TRUE
    /\ pc' = "up"
    /\ UNCHANGED <<file, ini, settings, pending, edited, harmed>>

(* The end of the process, by an exception of the database for one. *)
Crash ==
    /\ pc # "down"
    /\ WriteBreaksOff \/ (pending = <<>> /\ UNCHANGED <<file, pending, harmed>>)
    /\ pc' = "down" /\ ini' = <<>> /\ settings' = <<>>
    /\ UNCHANGED <<usersTable, edited>>

Next == \/ Edit \/ Start \/ ReadConfig \/ WriteOpens \/ WriteRefused \/ Flush \/ WriteEnds
        \/ WriteFails \/ OpenDatabase \/ Crash

Spec == Init /\ [][Next]_vars

-----------------------------------------------------------------------------
(* Properties. *)

(* However the file was cut, edited or lost, a server that is up has all   *)
(* its settings, and its table.                                            *)
UpIsConfigured ==
    pc = "up" => /\ usersTable
                 /\ Len(settings) = Len(Settings)
                 /\ \A i \in DOMAIN settings :
                       settings[i] # IF Settings[i].kind = "text" THEN Empty ELSE 0

(* Over any number of restarts, writes that are refused and crashes outside *)
(* of the writing, a server runs with what the administrator's file says,  *)
(* so long as there are none but plain texts in it.                        *)
AdministratorRules ==
    PlainTexts /\ pc = "up" /\ ~harmed =>
      \A i \in DOMAIN Settings :
         LET s == Settings[i]
             v == Entry(Reader(edited).data, s)
         IN settings[i] = Member(s, IF Missing(s, v) THEN s.default ELSE v)

(* What a structure says, and the comments of a file. *)
Values3(d) == UNION {{<<d[i].key, e.key, e.val>> : e \in ToSet(d[i].val)} : i \in DOMAIN d}

Comments(lines) == Only(lines, {l \in Lines : l.type = "comment"})

(* The file goes on saying all that the administrator made it say: every   *)
(* value that is not replaced by a default, and every comment, over any    *)
(* number of starts and refused writes, where all texts are plain.         *)
NothingElseTouched ==
    PlainTexts /\ pc = "up" /\ ~harmed =>
      /\ Comments(file.lines) = Comments(edited)
      /\ \A entry \in Values3(Reader(edited).data) :
            \/ entry \in Values3(Reader(file.lines).data)
            \/ \E i \in DOMAIN Settings : /\ Settings[i].section = entry[1] /\ Settings[i].key = entry[2]
                                          /\ Missing(Settings[i], entry[3])
=============================================================================
