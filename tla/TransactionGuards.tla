-------------------------- MODULE TransactionGuards --------------------------
(***************************************************************************)
(* SQLite::Transaction and SQLite::Savepoint (SQLiteCpp): guard objects in *)
(* nested C++ scopes over one database connection.  A guard is destroyed   *)
(* when its scope is left, innermost first, with or without an exception.  *)
(* The content of the database is a version number; each write makes a new *)
(* one.                                                                    *)
(***************************************************************************)
EXTENDS Naturals, Sequences, SequencesExt

CONSTANTS Names,          \* names of savepoints
          MaxGuards,      \* bound: guards alive at once
          MaxSavepoints,  \* bound: savepoints on the connection's stack
          MaxWrites       \* bound: writes in a behaviour

ASSUME BoundsAssumption == MaxGuards \in Nat /\ MaxSavepoints \in Nat /\ MaxWrites \in Nat

VARIABLES
    guards,         \* the live guard objects, outermost first
    inTransaction,  \* the connection is not in autocommit mode
    begun,          \* the transaction was opened by BEGIN, not by SAVEPOINT
    savepoints,     \* SQLite's stack of savepoints, oldest first
    working,        \* the content this connection sees
    committed,      \* the content of the database file
    writes,         \* the latest version made
    disturbed,      \* history: SQLite has rolled back by itself under these guards
    clash,          \* history: a savepoint's name was in use when it was made
    leftBehind      \* names that a guard has rolled back to and so left open

dbVars == <<inTransaction, begun, savepoints, working, committed, writes, leftBehind>>
historyVars == <<disturbed, clash>>
vars == <<guards, dbVars, historyVars>>

(* mbCommited or mbReleased is done; start is the version at construction. *)
Guards == [kind : {"transaction"}, name : {"none"}, done : BOOLEAN, start : Nat]
          \cup [kind : {"savepoint"}, name : Names, done : BOOLEAN, start : Nat]

Init ==
    /\ guards = <<>>
    /\ inTransaction = FALSE /\ begun = FALSE
    /\ savepoints = <<>>
    /\ working = 0 /\ committed = 0 /\ writes = 0
    /\ disturbed = FALSE /\ clash = FALSE /\ leftBehind = {}

-----------------------------------------------------------------------------
(* What the connection does with the statements the guards give it.        *)

Autocommit == /\ inTransaction' = FALSE /\ begun' = FALSE
              /\ savepoints' = <<>> /\ leftBehind' = {}

(* COMMIT, and RELEASE of the outermost savepoint that opened the transaction. *)
ExecCommit == /\ inTransaction
              /\ Autocommit
              /\ committed' = working
              /\ UNCHANGED <<working, writes>>

ExecRollback == /\ inTransaction
                /\ Autocommit
                /\ working' = committed
                /\ UNCHANGED <<committed, writes>>

(* The place of the latest savepoint with a name, 0 if there is none. *)
Place(name) == SelectLastInSeq(savepoints, LAMBDA sp : sp.name = name)

ExecRelease(name) ==
    /\ Place(name) # 0
    /\ IF Place(name) = 1 /\ ~begun
       THEN ExecCommit
       ELSE /\ savepoints' = SubSeq(savepoints, 1, Place(name) - 1)
            /\ UNCHANGED <<inTransaction, begun, working, committed, writes, leftBehind>>

(* ROLLBACK TO keeps the savepoint itself. *)
ExecRollbackTo(name) ==
    /\ Place(name) # 0
    /\ working' = savepoints[Place(name)].start
    /\ savepoints' = SubSeq(savepoints, 1, Place(name))
    /\ leftBehind' = leftBehind \cup {name}
    /\ UNCHANGED <<inTransaction, begun, committed, writes>>

(* Any other statement of the program that changes the database. *)
Write ==
    /\ writes < MaxWrites
    /\ writes' = writes + 1
    /\ working' = writes'
    /\ committed' = IF inTransaction THEN committed ELSE working'
    /\ UNCHANGED <<guards, inTransaction, begun, savepoints, leftBehind, historyVars>>

(* A statement that fails for want of space or memory, or by an I/O error, *)
(* may make SQLite roll the whole transaction back.                        *)
SQLiteRollsBack ==
    /\ ExecRollback
    /\ disturbed' = TRUE
    /\ UNCHANGED <<guards, clash>>

-----------------------------------------------------------------------------
(* The constructors.  One that throws leaves no object.                    *)

NewGuard(kind, name) ==
    /\ Len(guards) < MaxGuards
    /\ guards' = Append(guards, [kind |-> kind, name |-> name, done |-> FALSE, start |-> working])
    /\ disturbed' = (disturbed /\ guards # <<>>)

(* BEGIN inside a transaction is an error. *)
Transaction ==
    /\ ~inTransaction
    /\ NewGuard("transaction", "none")
    /\ inTransaction' = TRUE /\ begun' = TRUE
    /\ UNCHANGED <<savepoints, working, committed, writes, leftBehind, clash>>

Savepoint(name) ==
    /\ Len(savepoints) < MaxSavepoints
    /\ NewGuard("savepoint", name)
    /\ inTransaction' = TRUE
    /\ clash' = ((clash /\ guards # <<>>) \/ Place(name) # 0)
    /\ savepoints' = Append(savepoints, [name |-> name, start |-> working])
    /\ UNCHANGED <<begun, working, committed, writes, leftBehind>>

-----------------------------------------------------------------------------
(* The operations of a guard that is not done; on one that is they throw.  *)
(* SQLite refuses a COMMIT while another connection reads, and any of the  *)
(* statements when there is nothing to end: exec throws and mbCommited or  *)
(* mbReleased stays as it is, so a call that throws changes nothing.       *)

Open(i, kind) == /\ i \in DOMAIN guards
                 /\ guards[i].kind = kind
                 /\ ~guards[i].done

Done(i) == guards' = [guards EXCEPT ![i].done = TRUE]

(* Mutant: the flag is set before COMMIT is executed, which may be refused. *)
CommitFlagsFirst(i) ==
    /\ Open(i, "transaction")
    /\ ExecCommit \/ UNCHANGED dbVars
    /\ Done(i)
    /\ UNCHANGED historyVars

Commit(i) ==
    /\ Open(i, "transaction")
    /\ ExecCommit
    /\ Done(i)
    /\ UNCHANGED historyVars

Release(i) ==
    /\ Open(i, "savepoint")
    /\ ExecRelease(guards[i].name)
    /\ Done(i)
    /\ UNCHANGED historyVars

(* rollback() says that the savepoint is released, which it is not. *)
Rollback(i) ==
    /\ Open(i, "savepoint")
    /\ ExecRollbackTo(guards[i].name)
    /\ Done(i)
    /\ UNCHANGED historyVars

-----------------------------------------------------------------------------
(* The destructors swallow what the database says.                         *)

LeaveScope == guards' = Front(guards)

DestroyDone ==
    /\ guards # <<>> /\ Last(guards).done
    /\ LeaveScope
    /\ UNCHANGED <<dbVars, historyVars>>

(* Mutant: the destructor leaves the transaction open. *)
DestroyTransactionKeeps ==
    /\ guards # <<>> /\ Open(Len(guards), "transaction")
    /\ LeaveScope
    /\ UNCHANGED <<dbVars, historyVars>>

DestroyTransaction ==
    /\ guards # <<>> /\ Open(Len(guards), "transaction")
    /\ LeaveScope
    /\ IF inTransaction THEN ExecRollback ELSE UNCHANGED dbVars
    /\ UNCHANGED historyVars

(* Mutant: ROLLBACK without TO ends the enclosing transaction as well. *)
DestroySavepointRollsAllBack ==
    /\ guards # <<>> /\ Open(Len(guards), "savepoint")
    /\ LeaveScope
    /\ IF inTransaction THEN ExecRollback ELSE UNCHANGED dbVars
    /\ UNCHANGED historyVars

DestroySavepoint ==
    /\ guards # <<>> /\ Open(Len(guards), "savepoint")
    /\ LeaveScope
    /\ \/ ExecRollbackTo(Last(guards).name)
       \/ Place(Last(guards).name) = 0 /\ UNCHANGED dbVars
    /\ UNCHANGED historyVars

Next == \/ Write \/ SQLiteRollsBack
        \/ Transaction
        \/ \E name \in Names : Savepoint(name)
        \/ \E i \in DOMAIN guards : Commit(i) \/ Release(i) \/ Rollback(i)
        \/ DestroyDone \/ DestroyTransaction \/ DestroySavepoint

Spec == Init /\ [][Next]_vars

-----------------------------------------------------------------------------
(* Properties. *)

(* Transaction.h: "if it fails, all the changes are rolled back to the     *)
(* initial state": a Transaction whose scope is left without a commit      *)
(* leaves the database, in the file and as this connection sees it, as it  *)
(* was at its construction, whatever savepoints came and went inside; as   *)
(* long as SQLite has not rolled back in between, when the rest of the     *)
(* scope runs without a transaction.                                       *)
UncommittedLeavesNoTrace ==
    [][\A i \in DOMAIN guards :
          guards[i].kind = "transaction" /\ ~guards[i].done /\ ~disturbed /\ Len(guards') < i
          => /\ working' = guards[i].start /\ committed' = guards[i].start
             /\ ~inTransaction']_vars

(* A Savepoint destroyed without release takes back what was written since *)
(* it was made and nothing older; as long as no guard around it has ended  *)
(* (Savepoint.h's caveats 1 and 2), SQLite has not rolled back by itself,  *)
(* and no savepoint got a name that was on the stack already.              *)
SavepointTakesBack ==
    [][/\ guards # <<>> /\ Len(guards') < Len(guards)
       /\ Last(guards).kind = "savepoint"
       /\ \A i \in DOMAIN guards : ~guards[i].done
       /\ ~disturbed /\ ~clash
       => working' = Last(guards).start /\ committed' = committed]_vars

(* With every guard gone no BEGIN is left, and a savepoint only where a    *)
(* Savepoint of that name was rolled back, by rollback() or its destructor. *)
OnlyRollbackLeavesOpen ==
    guards = <<>> => /\ ~begun
                     /\ \A n \in DOMAIN savepoints : savepoints[n].name \in leftBehind
=============================================================================
