------------------------------ MODULE Database ------------------------------
(***************************************************************************)
(* SQLite::Database and SQLite::Backup (SQLiteCpp) with the Statements of  *)
(* module Statement: who has which connection of sqlite3, and what is open *)
(* when the objects that use it are moved, fail to be made, or go in an    *)
(* order nobody planned.  One thread; what it copies or queries is left    *)
(* out.                                                                    *)
(***************************************************************************)
EXTENDS Statement

CONSTANTS Databases,    \* variables of type Database
          Connections   \* sqlite3 structures, whose addresses are used again

ASSUME NullIsNoConnection == NULL \notin Connections \cup Databases

VARIABLES
    db,        \* the Database in each variable
    opened,    \* the connections sqlite3 has open
    of,        \* the connection each prepared statement belongs to
    mpSQLite,  \* the copy of it in each Statement
    bkp,       \* the Backup there is, or NoBackup
    frame,     \* the constructor or the backup() that is running
    outlived   \* history: connections that were used when the program let the
               \* Database go

dbVars == <<db, opened, of, mpSQLite, bkp, frame, outlived>>
allVars == <<vars, dbVars>>

NoDatabase == [alive |-> FALSE, mSQLitePtr |-> NULL]
NoBackup == [src |-> NULL, dest |-> NULL]
(* pc, the Database being made, and the one whose backup() makes it. *)
Idle == [pc |-> "idle", other |-> NULL, this |-> NULL]

DBInit ==
    /\ Init
    /\ db = [d \in Databases |-> NoDatabase]
    /\ opened = {}
    /\ of = [h \in Handles |-> NULL]
    /\ mpSQLite = [o \in Objects |-> NULL]
    /\ bkp = NoBackup
    /\ frame = Idle
    /\ outlived = {}

Used(c) == c # NULL /\ (bkp.src = c \/ \E h \in Handles : of[h] = c)

(* sqlite3_close(): refused, and left at that, while something uses the    *)
(* connection; nothing happens without one.                                *)
CloseConnection(c) == opened' = IF Used(c) THEN opened ELSE opened \ {c}

(* The program lets a Database go. *)
LetGo(c) ==
    /\ CloseConnection(c)
    /\ outlived' = IF Used(c) THEN outlived \cup {c} ELSE outlived

(* sqlite3.h:8975: nobody else uses the destination of a backup. *)
Usable(c) == c = NULL \/ c # bkp.dest

-----------------------------------------------------------------------------
(* Database: construction, moves and destruction.                          *)

(* sqlite3_open_v2() gives a connection also when it fails. *)
OpenConnection(d, caller) ==
    /\ frame.pc = "idle" /\ db[d] = NoDatabase
    /\ \E c \in Connections \ opened :
          /\ opened' = opened \cup {c}
          /\ db' = [db EXCEPT ![d].mSQLitePtr = c]
    /\ frame' = [pc |-> "open", other |-> d, this |-> caller]
    /\ UNCHANGED <<vars, of, mpSQLite, bkp, outlived>>

Open(d) == OpenConnection(d, NULL)

OpenSucceeds ==
    /\ frame.pc = "open"
    /\ db' = [db EXCEPT ![frame.other].alive = TRUE]
    /\ frame' = IF frame.this = NULL THEN Idle ELSE [frame EXCEPT !.pc = "init"]
    /\ UNCHANGED <<vars, opened, of, mpSQLite, bkp, outlived>>

(* The file or the busy timeout is refused: the constructor throws, and    *)
(* the pointer, which has the connection already, closes it.               *)
OpenFails ==
    /\ frame.pc = "open"
    /\ CloseConnection(db[frame.other].mSQLitePtr)
    /\ db' = [db EXCEPT ![frame.other] = NoDatabase]
    /\ frame' = Idle
    /\ UNCHANGED <<vars, of, mpSQLite, bkp, outlived>>

MoveDatabase(from, to) ==
    /\ frame.pc = "idle" /\ db[from].alive /\ ~db[to].alive
    /\ db' = [db EXCEPT ![to] = db[from], ![from].mSQLitePtr = NULL]
    /\ UNCHANGED <<vars, opened, of, mpSQLite, bkp, frame, outlived>>

(* Mutant: the connection is copied, not moved. *)
AssignDatabaseShares(from, to) ==
    /\ frame.pc = "idle" /\ db[from].alive /\ db[to].alive /\ from # to
    /\ Usable(db[to].mSQLitePtr)
    /\ LetGo(db[to].mSQLitePtr)
    /\ db' = [db EXCEPT ![to] = db[from]]
    /\ UNCHANGED <<vars, of, mpSQLite, bkp, frame>>

AssignDatabase(from, to) ==
    /\ frame.pc = "idle" /\ db[from].alive /\ db[to].alive /\ from # to
    /\ Usable(db[to].mSQLitePtr)
    /\ LetGo(db[to].mSQLitePtr)
    /\ db' = [db EXCEPT ![to] = db[from], ![from].mSQLitePtr = NULL]
    /\ UNCHANGED <<vars, of, mpSQLite, bkp, frame>>

DestroyDatabase(d) ==
    /\ frame.pc = "idle" /\ db[d].alive
    /\ Usable(db[d].mSQLitePtr)
    /\ LetGo(db[d].mSQLitePtr)
    /\ db' = [db EXCEPT ![d] = NoDatabase]
    /\ UNCHANGED <<vars, of, mpSQLite, bkp, frame>>

-----------------------------------------------------------------------------
(* Backup, and Database::backup(), which makes one on a second Database of *)
(* its own.                                                                *)

(* sqlite3_backup_init() refuses a destination that is being read. *)
StartBackup(src, dest) ==
    /\ bkp = NoBackup
    /\ src # NULL /\ dest # NULL /\ src # dest
    /\ \A h \in Handles : of[h] = dest => stmt[h].state # "row"
    /\ bkp' = [src |-> src, dest |-> dest]

Backup(from, to) ==
    /\ frame.pc = "idle" /\ db[from].alive /\ db[to].alive
    /\ StartBackup(db[from].mSQLitePtr, db[to].mSQLitePtr)
    /\ UNCHANGED <<vars, db, opened, of, mpSQLite, frame, outlived>>

FinishBackup ==
    /\ frame.pc = "idle" /\ bkp # NoBackup
    /\ bkp' = NoBackup
    /\ UNCHANGED <<vars, db, opened, of, mpSQLite, frame, outlived>>

BackupBegins(this, other) ==
    /\ db[this].alive /\ db[this].mSQLitePtr # NULL /\ bkp = NoBackup
    /\ OpenConnection(other, this)

(* Save copies to the other database, Load from it. *)
BackupInit ==
    /\ frame.pc = "init"
    /\ LET this == db[frame.this].mSQLitePtr
           other == db[frame.other].mSQLitePtr
       IN StartBackup(this, other) \/ StartBackup(other, this)
    /\ frame' = [frame EXCEPT !.pc = "finish"]
    /\ UNCHANGED <<vars, db, opened, of, mpSQLite, outlived>>

BackupInitFails ==
    /\ frame.pc = "init"
    /\ frame' = [frame EXCEPT !.pc = "close"]
    /\ UNCHANGED <<vars, db, opened, of, mpSQLite, bkp, outlived>>

(* Mutant: the Backup is declared before the other Database, and goes last. *)
BackupFinishesLate ==
    /\ frame.pc = "finish"
    /\ CloseConnection(db[frame.other].mSQLitePtr)
    /\ db' = [db EXCEPT ![frame.other] = NoDatabase]
    /\ bkp' = NoBackup
    /\ frame' = Idle
    /\ UNCHANGED <<vars, of, mpSQLite, outlived>>

(* Whatever the one executeStep returned or threw, the Backup goes first.  *)
BackupFinishes ==
    /\ frame.pc = "finish"
    /\ bkp' = NoBackup
    /\ frame' = [frame EXCEPT !.pc = "close"]
    /\ UNCHANGED <<vars, db, opened, of, mpSQLite, outlived>>

BackupCloses ==
    /\ frame.pc = "close"
    /\ CloseConnection(db[frame.other].mSQLitePtr)
    /\ db' = [db EXCEPT ![frame.other] = NoDatabase]
    /\ frame' = Idle
    /\ UNCHANGED <<vars, of, mpSQLite, bkp, outlived>>

-----------------------------------------------------------------------------
(* The Statements, with the connection each of them remembers.             *)

StatementOnly == frame.pc = "idle" /\ UNCHANGED <<db, opened, bkp, frame, outlived>>

(* A statement that has been finalized belongs to no connection. *)
Disown == of' = [h \in Handles |-> IF stmt'[h].state = "free" THEN NULL ELSE of[h]]

PrepareOn(d, o, h, q) ==
    /\ db[d].alive /\ db[d].mSQLitePtr # NULL /\ Usable(db[d].mSQLitePtr)
    /\ Prepare(o, h, q)
    /\ of' = [of EXCEPT ![h] = db[d].mSQLitePtr]
    /\ mpSQLite' = [mpSQLite EXCEPT ![o] = db[d].mSQLitePtr]
    /\ StatementOnly

(* Mutant: the move constructor does not take the connection over. *)
MoveStatementWithout(from, to) ==
    /\ MoveConstruct(from, to)
    /\ UNCHANGED <<mpSQLite, of>>
    /\ StatementOnly

MoveStatement(from, to) ==
    /\ MoveConstruct(from, to)
    /\ mpSQLite' = [mpSQLite EXCEPT ![to] = mpSQLite[from], ![from] = NULL]
    /\ UNCHANGED of
    /\ StatementOnly

(* The assignment is the compiler's: the source keeps its pointer. *)
AssignStatement(from, to) ==
    /\ MoveAssign(from, to)
    /\ mpSQLite' = [mpSQLite EXCEPT ![to] = mpSQLite[from]]
    /\ Disown
    /\ StatementOnly

DestroyStatement(o) ==
    /\ Destroy(o)
    /\ mpSQLite' = [mpSQLite EXCEPT ![o] = NULL]
    /\ Disown
    /\ StatementOnly

UseStatement(o) ==
    /\ obj[o].handle # NULL => Usable(of[obj[o].handle])
    /\ \/ TryReset(o) \/ TryExecuteStep(o) \/ GetColumnIndex(o) \/ GetColumn(o)
       \/ \E n \in Names : GetColumnByName(o, n)
    /\ UNCHANGED <<of, mpSQLite>>
    /\ StatementOnly

DestroyColumn == DropColumn /\ Disown /\ UNCHANGED mpSQLite /\ StatementOnly
OtherChangesSchema == ChangeSchema /\ UNCHANGED dbVars

DBNext ==
    \/ \E d \in Databases :
          \/ Open(d) \/ DestroyDatabase(d)
          \/ \E e \in Databases : \/ MoveDatabase(d, e) \/ AssignDatabase(d, e)
                                  \/ Backup(d, e) \/ BackupBegins(d, e)
          \/ \E o \in Objects, h \in Handles, q \in Queries : PrepareOn(d, o, h, q)
    \/ OpenSucceeds \/ OpenFails
    \/ FinishBackup \/ BackupInit \/ BackupInitFails \/ BackupFinishes \/ BackupCloses
    \/ \E o \in Objects :
          \/ \E p \in Objects : MoveStatement(o, p) \/ AssignStatement(o, p)
          \/ DestroyStatement(o) \/ UseStatement(o)
    \/ DestroyColumn \/ OtherChangesSchema

DBSpec == DBInit /\ [][DBNext]_allVars

-----------------------------------------------------------------------------
(* Properties.                                                             *)

(* Every variable has its type; a connection has one Database at most, and *)
(* is open as long as it has one: nothing closes it twice.                 *)
DBTypeOK ==
    /\ TypeOK
    /\ db \in [Databases -> [alive : BOOLEAN, mSQLitePtr : Connections \cup {NULL}]]
    /\ opened \subseteq Connections /\ outlived \subseteq Connections
    /\ of \in [Handles -> Connections \cup {NULL}]
    /\ mpSQLite \in [Objects -> Connections \cup {NULL}]
    /\ bkp \in [src : Connections \cup {NULL}, dest : Connections \cup {NULL}]
    /\ frame.pc \in {"idle", "open", "init", "finish", "close"}
    /\ \A d \in Databases : db[d].mSQLitePtr \in opened \cup {NULL}
    /\ \A d, e \in Databases : db[d].mSQLitePtr = db[e].mSQLitePtr /\ db[d].mSQLitePtr # NULL => d = e

(* Whatever the order in which Databases, Statements, Columns and Backups  *)
(* are moved, assigned and destroyed, a prepared statement's connection is *)
(* open, and the Statement that has it reads errors and changes from that  *)
(* connection; a Backup's source is open too.                              *)
ConnectionOutlivesUse ==
    /\ \A h \in Handles : stmt[h].state # "free" => of[h] \in opened
    /\ \A o \in Objects : obj[o].handle # NULL => mpSQLite[o] = of[obj[o].handle]
    /\ bkp # NoBackup => bkp.src \in opened

(* A connection is open for as long as a Database has it and no longer,    *)
(* through failed constructors, moves and backups, however these end; only *)
(* one that something used when the program let its Database go stays open *)
(* for good.                                                               *)
NoConnectionLost ==
    \A c \in opened : c \in outlived \/ \E d \in Databases : db[d].mSQLitePtr = c

(* The copies a Statement keeps follow sqlite3, whichever Database it was  *)
(* prepared on and however that one has fared.                             *)
CopiesFollow == FlagsFollow /\ NamedUnlessRecompiled
=============================================================================
