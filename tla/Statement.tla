------------------------------ MODULE Statement ------------------------------
(***************************************************************************)
(* SQLite::Statement and SQLite::Column (SQLiteCpp): C++ objects that      *)
(* share prepared statements of sqlite3 and keep copies of what sqlite3    *)
(* says: how many columns there are and what they are called, and whether  *)
(* the last step gave a row or was the last.  Bindings and the contents of *)
(* the rows are left out, except for the names of their columns.           *)
(***************************************************************************)
EXTENDS Naturals, Sequences, FiniteSetsExt

CONSTANTS Objects,        \* variables of type Statement
          Handles,        \* sqlite3_stmt structures
          NULL,           \* no sqlite3_stmt
          Queries, Names, \* SQL texts, and names of columns
          Versions,       \* states of the database schema
          ResultColumns   \* names of the columns of a query under a schema;
                          \* none for an INSERT and the like

ASSUME NullIsNoHandle == NULL \notin Handles
ASSUME ResultColumnsAssumption ==
    \A q \in Queries, v \in Versions : ResultColumns[q][v] \in Seq(Names)

VARIABLES
    obj,      \* the Statement in each variable
    stmt,     \* what sqlite3 has at each handle
    column,   \* a Column the program has got, or NoColumn
    schema    \* the schema of the database

vars == <<obj, stmt, column, schema>>

NoObject == [alive |-> FALSE, handle |-> NULL, mColumnCount |-> 0,
             mbHasRow |-> FALSE, mbDone |-> FALSE, mColumnNames |-> <<>>]
(* What is not prepared, or has been finalized.  `ranAgain` is history: it *)
(* was started once more when it had finished, without a reset.            *)
Finalized == [state |-> "free", query |-> NULL, columns |-> <<>>, recompiled |-> FALSE,
              ranAgain |-> FALSE]
NoColumn == [handle |-> NULL, index |-> 0, name |-> NULL]

Init ==
    /\ obj = [o \in Objects |-> NoObject]
    /\ stmt = [h \in Handles |-> Finalized]
    /\ column = NoColumn
    /\ schema \in Versions

-----------------------------------------------------------------------------
(* sqlite3.  A shared pointer that is the last to a handle finalizes it.   *)

Held(h) == column'.handle = h \/ \E o \in Objects : obj'[o].handle = h
Release == stmt' = [h \in Handles |-> IF Held(h) THEN stmt[h] ELSE Finalized]

(* sqlite3_step: a statement that is not on a row starts, also one that is *)
(* done, and is compiled anew if the schema has changed.  One that fails,  *)
(* at once or later, is where it was before it started: ready.  Without    *)
(* columns there are no rows.                                              *)
SqliteStep(h, result) ==
    LET compiled == ResultColumns[stmt[h].query][schema]
        started == IF stmt[h].state = "row" THEN stmt[h]
                   ELSE [stmt[h] EXCEPT !.columns = compiled,
                                        !.recompiled = @ \/ stmt[h].columns # compiled,
                                        !.ranAgain = @ \/ stmt[h].state = "done"]
    IN /\ result = "row" => started.columns # <<>>
       /\ \E base \in {started} \cup (IF result = "ready" THEN {stmt[h]} ELSE {}) :
             stmt' = [stmt EXCEPT ![h] = [base EXCEPT !.state = result]]

(* A schema that a running statement uses does not change.                 *)
ChangeSchema ==
    /\ \A h \in Handles : stmt[h].state # "row"
    /\ schema' \in Versions \ {schema}
    /\ UNCHANGED <<obj, stmt, column>>

-----------------------------------------------------------------------------
(* Construction, moving and destruction.                                   *)

Prepare(o, h, q) ==
    /\ ~obj[o].alive
    /\ stmt[h].state = "free"
    /\ LET compiled == ResultColumns[q][schema] IN
       /\ stmt' = [stmt EXCEPT ![h] = [state |-> "ready", query |-> q, columns |-> compiled,
                                       recompiled |-> FALSE, ranAgain |-> FALSE]]
       /\ obj' = [obj EXCEPT ![o] = [NoObject EXCEPT !.alive = TRUE, !.handle = h,
                                                     !.mColumnCount = Len(compiled)]]
    /\ UNCHANGED <<column, schema>>

(* Mutant: mbDone is not taken over. *)
MoveConstructForgets(from, to) ==
    /\ obj[from].alive /\ ~obj[to].alive
    /\ obj' = [obj EXCEPT ![to] = [obj[from] EXCEPT !.mbDone = FALSE],
                          ![from] = [NoObject EXCEPT !.alive = TRUE]]
    /\ UNCHANGED <<stmt, column, schema>>

MoveConstruct(from, to) ==
    /\ obj[from].alive /\ ~obj[to].alive
    /\ obj' = [obj EXCEPT ![to] = obj[from], ![from] = [NoObject EXCEPT !.alive = TRUE]]
    /\ UNCHANGED <<stmt, column, schema>>

(* The assignment is the compiler's: what is no class is copied and stays. *)
MoveAssign(from, to) ==
    /\ obj[from].alive /\ obj[to].alive /\ from # to
    /\ obj' = [obj EXCEPT ![to] = obj[from],
                          ![from] = [@ EXCEPT !.handle = NULL, !.mColumnNames = <<>>]]
    /\ UNCHANGED <<column, schema>>
    /\ Release

Destroy(o) ==
    /\ obj[o].alive
    /\ obj' = [obj EXCEPT ![o] = NoObject]
    /\ UNCHANGED <<column, schema>>
    /\ Release

-----------------------------------------------------------------------------
(* Execution.  reset() also throws what the last step failed with; the     *)
(* statement is reset nevertheless.  With a null handle sqlite3_step       *)
(* answers SQLITE_MISUSE, and sqlite3_reset does nothing.                  *)

TryReset(o) ==
    /\ obj[o].alive
    /\ obj' = [obj EXCEPT ![o].mbHasRow = FALSE, ![o].mbDone = FALSE]
    /\ stmt' = [h \in Handles |-> IF h = obj[o].handle THEN [stmt[h] EXCEPT !.state = "ready"] ELSE stmt[h]]
    /\ UNCHANGED <<column, schema>>

(* Mutant: mbDone is not looked at. *)
TryExecuteStepAgain(o) ==
    /\ obj[o].alive
    /\ \E result \in {"row", "done", "ready"} :
          /\ obj' = [obj EXCEPT ![o].mbHasRow = (result = "row"), ![o].mbDone = (result = "done")]
          /\ IF obj[o].handle = NULL THEN result = "ready" /\ UNCHANGED stmt
                                     ELSE SqliteStep(obj[o].handle, result)
    /\ UNCHANGED <<column, schema>>

TryExecuteStep(o) ==
    /\ obj[o].alive /\ ~obj[o].mbDone
    /\ \E result \in {"row", "done", "ready"} :
          /\ obj' = [obj EXCEPT ![o].mbHasRow = (result = "row"), ![o].mbDone = (result = "done")]
          /\ IF obj[o].handle = NULL THEN result = "ready" /\ UNCHANGED stmt
                                     ELSE SqliteStep(obj[o].handle, result)
    /\ UNCHANGED <<column, schema>>

-----------------------------------------------------------------------------
(* Columns. *)

(* The map of names is built when it is empty, for as many columns as      *)
(* mColumnCount says, as far as sqlite3 has a name for them: a null one    *)
(* throws.  The later of two columns with one name counts.                 *)
Named(o) ==
    LET columns == stmt[obj[o].handle].columns
        count == Min({obj[o].mColumnCount, Len(columns)})
    IN IF obj[o].mColumnNames # <<>> THEN obj[o].mColumnNames
       ELSE [n \in {columns[i] : i \in 1 .. count} |-> Max({i \in 1 .. count : columns[i] = n}) - 1]

NamesThrow(o) == obj[o].mColumnNames = <<>> /\ obj[o].mColumnCount > Len(stmt[obj[o].handle].columns)

(* getColumnIndex, whatever the name it is asked for. *)
GetColumnIndex(o) ==
    /\ obj[o].alive /\ obj[o].handle # NULL
    /\ obj' = [obj EXCEPT ![o].mColumnNames = Named(o)]
    /\ UNCHANGED <<stmt, column, schema>>

(* getColumn with a name, where it does not throw after GetColumnIndex.    *)
GetColumnByName(o, n) ==
    /\ obj[o].mbHasRow /\ column = NoColumn /\ obj[o].handle # NULL
    /\ ~NamesThrow(o) /\ n \in DOMAIN Named(o)
    /\ obj' = [obj EXCEPT ![o].mColumnNames = Named(o)]
    /\ column' = [handle |-> obj[o].handle, index |-> Named(o)[n], name |-> n]
    /\ UNCHANGED <<stmt, schema>>

(* getColumn with an index below mColumnCount, whichever it is; a Column   *)
(* of no statement throws.                                                 *)
GetColumn(o) ==
    /\ obj[o].mbHasRow /\ column = NoColumn /\ obj[o].handle # NULL
    /\ obj[o].mColumnCount > 0
    /\ column' = [handle |-> obj[o].handle, index |-> 0, name |-> NULL]
    /\ UNCHANGED <<obj, stmt, schema>>

DropColumn ==
    /\ column # NoColumn
    /\ column' = NoColumn
    /\ UNCHANGED <<obj, schema>>
    /\ Release

Next == \/ ChangeSchema \/ DropColumn
        \/ \E o \in Objects :
              \/ \E h \in Handles, q \in Queries : Prepare(o, h, q)
              \/ \E to \in Objects : MoveConstruct(o, to) \/ MoveAssign(o, to)
              \/ Destroy(o) \/ TryReset(o) \/ TryExecuteStep(o)
              \/ GetColumnIndex(o) \/ GetColumn(o)
              \/ \E n \in Names : GetColumnByName(o, n)

Spec == Init /\ [][Next]_vars

-----------------------------------------------------------------------------
(* Properties. *)

States == {"free", "ready", "row", "done"}

(* Every variable has its type; a prepared statement is one Statement's,   *)
(* or only a Column's, and is finalized with the last of them.             *)
TypeOK ==
    /\ \A o \in Objects :
          /\ obj[o].alive \in BOOLEAN /\ obj[o].mbHasRow \in BOOLEAN /\ obj[o].mbDone \in BOOLEAN
          /\ obj[o].handle \in Handles \cup {NULL} /\ obj[o].mColumnCount \in Nat
          /\ DOMAIN obj[o].mColumnNames \subseteq Names
          /\ \A n \in DOMAIN obj[o].mColumnNames : obj[o].mColumnNames[n] \in 0 .. obj[o].mColumnCount - 1
    /\ \A h \in Handles : stmt[h].state \in States /\ stmt[h].columns \in Seq(Names)
    /\ column.handle \in Handles \cup {NULL} /\ column.index \in Nat /\ column.name \in Names \cup {NULL}
    /\ schema \in Versions
    /\ \A o, p \in Objects : obj[o].handle = obj[p].handle /\ obj[o].handle # NULL => o = p
    /\ \A h \in Handles : stmt[h].state = "free"
                          <=> column.handle # h /\ \A o \in Objects : obj[o].handle # h

(* Statement.h:623-632: hasRow() and isDone() say what the prepared        *)
(* statement is at, through moves, resets, failures and Columns that       *)
(* outlive the object they came from.                                      *)
FlagsFollow ==
    \A o \in Objects : obj[o].handle # NULL =>
        /\ obj[o].mbHasRow <=> stmt[obj[o].handle].state = "row"
        /\ obj[o].mbDone <=> stmt[obj[o].handle].state = "done"

(* A statement that has finished is not started once more, with its        *)
(* inserts done twice, until somebody resets it: sqlite3_step itself would *)
(* start it, and all that keeps it from that is the mbDone of whichever    *)
(* object has the statement then.                                          *)
DoneIsFinal == \A h \in Handles : ~stmt[h].ranAgain

(* A Column that was asked for by name is the one of that name, whichever  *)
(* object the map of names was built in and was moved to; as long as no    *)
(* change of the schema has given the statement other columns.             *)
NamedUnlessRecompiled ==
    column.name # NULL /\ ~stmt[column.handle].recompiled
    => stmt[column.handle].columns[column.index + 1] = column.name
=============================================================================
