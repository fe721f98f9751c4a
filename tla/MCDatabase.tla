----------------------------- MODULE MCDatabase -----------------------------
(* Database for TLC: SELECT * on a table that has two columns or only the  *)
(* second of them, and an INSERT, which has no columns.                    *)
EXTENDS Database, TLC

CONSTANTS o1, o2, h1, h2, d1, d2, k1, k2

MCColumns == [all |-> [both |-> <<"id", "value">>, one |-> <<"value">>],
              insert |-> [both |-> <<>>, one |-> <<>>]]

Symmetric == Permutations(Objects) \cup Permutations(Handles)
             \cup Permutations(Databases) \cup Permutations(Connections)
(* What a Statement without a prepared statement still remembers, after an *)
(* assignment has left it behind, is used by no step except to copy or to  *)
(* forget it: states that differ only in that are one.                     *)
Remembered(o) == IF obj[o].handle = NULL THEN NULL ELSE <<obj[o], mpSQLite[o]>>

View == <<[o \in Objects |-> <<obj[o].alive, Remembered(o)>>],
          stmt, column, schema, db, opened, of, bkp, frame, outlived>>

=============================================================================
