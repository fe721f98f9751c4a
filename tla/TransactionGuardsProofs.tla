---------------------- MODULE TransactionGuardsProofs ----------------------
(***************************************************************************)
(* What the guards of TransactionGuards promise, for any names and any     *)
(* number of guards, savepoints and writes.                                *)
(***************************************************************************)
EXTENDS TransactionGuards, SequenceTheorems, WellFoundedInduction, TLAPS

-----------------------------------------------------------------------------
(* The place of a savepoint: the greatest of finitely many positions.      *)

LEMMA LeastNumber ==
    ASSUME NEW T \in SUBSET Nat, T # {}
    PROVE  \E m \in T : \A k \in T : m <= k
<1>1. PICK m \in T : \A k \in T : ~(<<k, m>> \in OpToRel(<, Nat))
  BY NatLessThanWellFounded, WFMin
<1>2. ASSUME NEW k \in T PROVE m <= k
  <2>1. k \in Nat /\ m \in Nat
    OBVIOUS
  <2>2. ~(k < m)
    BY <1>1, <2>1 DEF OpToRel
  <2> QED BY <2>1, <2>2
<1> QED BY <1>2

LEMMA MaxIsGreatest ==
    ASSUME NEW n \in Nat, NEW S \in SUBSET (1 .. n), S # {}
    PROVE  Max(S) \in S /\ \A y \in S : y <= Max(S)
<1> DEFINE T == {n - x : x \in S}
<1>1. ASSUME NEW x \in S PROVE x \in Nat /\ n - x \in Nat
  <2>1. x \in 1 .. n
    OBVIOUS
  <2> QED BY <2>1
<1>2. T \in SUBSET Nat /\ T # {}
  BY <1>1
<1> HIDE DEF T
<1>3. PICK m \in T : \A k \in T : m <= k
  BY <1>2, LeastNumber
<1>4. PICK x \in S : m = n - x
  BY DEF T
<1>5. ASSUME NEW y \in S PROVE x >= y
  <2>1. n - x <= n - y
    BY <1>3, <1>4 DEF T
  <2> QED BY <1>1, <2>1
<1>6. \A y \in S : Max(S) >= y /\ Max(S) \in S
  BY <1>5 DEF Max
<1>7. Max(S) \in S
  BY <1>6
<1> QED BY <1>1, <1>6, <1>7

-----------------------------------------------------------------------------
(* The invariant. *)

SavepointType == [name : Names, start : Nat]

TypeInv ==
    /\ guards \in Seq(Guards) /\ savepoints \in Seq(SavepointType)
    /\ inTransaction \in BOOLEAN /\ begun \in BOOLEAN
    /\ working \in Nat /\ committed \in Nat /\ writes \in Nat
    /\ disturbed \in BOOLEAN /\ clash \in BOOLEAN
    /\ leftBehind \in SUBSET Names

(* A transaction is open for BEGIN, or for the savepoints there are; with  *)
(* none, this connection sees what is in the file.                         *)
ConnectionInv ==
    /\ ~inTransaction => working = committed
    /\ begun => inTransaction
    /\ inTransaction <=> begun \/ savepoints # <<>>

(* What was begun has a Transaction that will end it. *)
BegunInv == begun => \E i \in DOMAIN guards : Open(i, "transaction")

(* The savepoints of names that no guard has rolled back to ... *)
Waiting == {n \in DOMAIN savepoints : savepoints[n].name \notin leftBehind}

(* ... each have a Savepoint of their own that will release it or roll it  *)
(* back; not always the one that made it, when two have the same name.     *)
Pairs(f) ==
    /\ \A n \in Waiting : Open(f[n], "savepoint") /\ guards[f[n]].name = savepoints[n].name
    /\ \A m, n \in Waiting : f[m] = f[n] => m = n

PairInv == \E f \in [Waiting -> DOMAIN guards] : Pairs(f)

(* Unless SQLite has rolled back by itself, an open Transaction is the     *)
(* only one, it is that of the connection, and nothing is committed yet.   *)
TransactionInv ==
    ~disturbed => \A i \in DOMAIN guards : Open(i, "transaction") =>
        /\ begun /\ committed = guards[i].start
        /\ \A j \in DOMAIN guards : Open(j, "transaction") => j = i

(* The savepoint of guard i is at place n, is the only one of its name,    *)
(* and none of the guards inside of i can reach down to it.                *)
Kept(i, n) ==
    /\ savepoints[n] = [name |-> guards[i].name, start |-> guards[i].start]
    /\ \A m \in DOMAIN savepoints : savepoints[m].name = guards[i].name => m = n
    /\ \A j \in DOMAIN guards : j > i =>
          /\ guards[j].kind = "savepoint"
          /\ \A m \in 1 .. n : savepoints[m].name # guards[j].name

Whole(i) == guards[i].kind = "savepoint" /\ \A k \in 1 .. i : ~guards[k].done

SavepointInv ==
    ~disturbed /\ ~clash =>
      \A i \in DOMAIN guards : Whole(i) => \E n \in DOMAIN savepoints : Kept(i, n)

IInv == /\ TypeInv /\ ConnectionInv /\ BegunInv /\ PairInv
        /\ TransactionInv /\ SavepointInv

LEMMA PlaceIs ==
    ASSUME TypeInv, NEW name
    PROVE  /\ Place(name) \in 0 .. Len(savepoints)
           /\ Place(name) = 0 => \A m \in DOMAIN savepoints : savepoints[m].name # name
           /\ Place(name) # 0 => /\ Place(name) \in DOMAIN savepoints
                                 /\ savepoints[Place(name)].name = name
                                 /\ \A m \in DOMAIN savepoints : savepoints[m].name = name => m <= Place(name)
<1> DEFINE I == {i \in 1 .. Len(savepoints) : savepoints[i].name = name}
<1>1. Len(savepoints) \in Nat /\ DOMAIN savepoints = 1 .. Len(savepoints)
  BY LenProperties DEF TypeInv
<1>2. Place(name) = IF I # {} THEN Max(I) ELSE 0
  BY DEF Place, SelectLastInSeq
<1>3. CASE I = {}
  BY <1>1, <1>2, <1>3
<1>4. CASE I # {}
  <2>1. Max(I) \in I /\ \A y \in I : y <= Max(I)
    BY <1>1, <1>4, MaxIsGreatest
  <2> HIDE DEF I
  <2>2. Place(name) = Max(I)
    BY <1>2, <1>4
  <2>3. Place(name) \in 1 .. Len(savepoints) /\ savepoints[Place(name)].name = name
    BY <2>1, <2>2 DEF I
  <2> QED BY <1>1, <2>1, <2>2, <2>3 DEF I
<1> QED BY <1>3, <1>4

-----------------------------------------------------------------------------
(* What the changes of the guards and of the stack leave as it was.        *)

LEMMA GuardFacts ==
    ASSUME TypeInv
    PROVE  /\ Len(guards) \in Nat /\ DOMAIN guards = 1 .. Len(guards)
           /\ Len(savepoints) \in Nat /\ DOMAIN savepoints = 1 .. Len(savepoints)
           /\ guards # <<>> <=> Len(guards) # 0
           /\ savepoints # <<>> <=> Len(savepoints) # 0
           /\ \A i \in DOMAIN guards : guards[i] \in Guards
           /\ \A n \in DOMAIN savepoints : savepoints[n] \in SavepointType
<1>1. guards \in Seq(Guards) /\ savepoints \in Seq(SavepointType)
  BY DEF TypeInv
<1> QED BY <1>1, LenProperties, EmptySeq, ElementOfSeq

LEMMA DoneKeeps ==
    ASSUME TypeInv, NEW i \in DOMAIN guards, Done(i)
    PROVE  /\ guards' \in Seq(Guards) /\ Len(guards') = Len(guards) /\ DOMAIN guards' = DOMAIN guards
           /\ \A j \in DOMAIN guards :
                 /\ guards'[j].kind = guards[j].kind /\ guards'[j].name = guards[j].name
                 /\ guards'[j].start = guards[j].start
                 /\ guards'[j].done <=> guards[j].done \/ j = i
<1> DEFINE g == [guards[i] EXCEPT !.done = TRUE]
<1>1. guards \in Seq(Guards) /\ i \in 1 .. Len(guards) /\ guards[i] \in Guards
  BY GuardFacts DEF TypeInv
<1>2. g \in Guards /\ g.done /\ g.kind = guards[i].kind /\ g.name = guards[i].name
                  /\ g.start = guards[i].start
  BY <1>1 DEF Guards
<1>3. guards' = [guards EXCEPT ![i] = g]
  BY DEF Done
<1> HIDE DEF g
<1>4. /\ guards' \in Seq(Guards) /\ Len(guards') = Len(guards)
      /\ \A j \in 1 .. Len(guards) : guards'[j] = IF j = i THEN g ELSE guards[j]
  BY <1>1, <1>2, <1>3, ExceptSeq
<1>5. DOMAIN guards' = DOMAIN guards
  BY <1>4, GuardFacts, LenProperties
<1>6. \A j \in DOMAIN guards : guards[j].done \in BOOLEAN
  BY GuardFacts DEF Guards
<1> QED BY <1>2, <1>4, <1>5, <1>6, GuardFacts

LEMMA LeaveKeeps ==
    ASSUME TypeInv, guards # <<>>, LeaveScope
    PROVE  /\ guards' \in Seq(Guards) /\ Len(guards') = Len(guards) - 1
           /\ DOMAIN guards' = 1 .. Len(guards) - 1
           /\ \A j \in DOMAIN guards' : j \in DOMAIN guards /\ guards'[j] = guards[j]
           /\ Len(guards) \in DOMAIN guards
<1>1. Len(guards) \in Nat \ {0} /\ guards' = SubSeq(guards, 1, Len(guards) - 1)
  BY GuardFacts DEF LeaveScope, Front
<1> DEFINE k == Len(guards) - 1
<1>2. k \in Nat /\ \A j \in 1 .. k : guards[j] \in Guards
  BY <1>1, GuardFacts
<1> HIDE DEF k
<1>3. /\ SubSeq(guards, 1, k) \in Seq(Guards)
      /\ Len(SubSeq(guards, 1, k)) = k
      /\ \A j \in 1 .. k : SubSeq(guards, 1, k)[j] = guards[j]
  <2>1. /\ SubSeq(guards, 1, k) \in Seq(Guards)
        /\ Len(SubSeq(guards, 1, k)) = IF 1 <= k THEN k - 1 + 1 ELSE 0
        /\ \A j \in 1 .. k - 1 + 1 : SubSeq(guards, 1, k)[j] = guards[1 + j - 1]
    BY <1>2, SubSeqProperties
  <2> QED BY <1>2, <2>1
<1>4. guards' = SubSeq(guards, 1, k)
  BY <1>1 DEF k
<1>5. /\ guards' \in Seq(Guards) /\ Len(guards') = k
      /\ \A j \in 1 .. k : guards'[j] = guards[j]
  BY <1>3, <1>4
<1>6. DOMAIN guards' = 1 .. k
  BY <1>5, LenProperties
<1> QED BY <1>1, <1>5, <1>6, GuardFacts DEF k

LEMMA NewGuardKeeps ==
    ASSUME TypeInv, NEW kind, NEW name, NewGuard(kind, name),
           \/ kind = "transaction" /\ name = "none"
           \/ kind = "savepoint" /\ name \in Names
    PROVE  /\ guards' \in Seq(Guards) /\ Len(guards') = Len(guards) + 1
           /\ DOMAIN guards' = 1 .. Len(guards) + 1
           /\ \A j \in DOMAIN guards : guards'[j] = guards[j] /\ j \in DOMAIN guards'
           /\ guards'[Len(guards) + 1] =
                 [kind |-> kind, name |-> name, done |-> FALSE, start |-> working]
           /\ disturbed' \in BOOLEAN /\ (disturbed /\ Len(guards) # 0 => disturbed')
<1> DEFINE g == [kind |-> kind, name |-> name, done |-> FALSE, start |-> working]
<1>1. g \in Guards /\ guards \in Seq(Guards)
  BY DEF TypeInv, Guards
<1>2. guards' = Append(guards, g)
  BY DEF NewGuard
<1>3. /\ guards' \in Seq(Guards) /\ Len(guards') = Len(guards) + 1
      /\ \A j \in 1 .. Len(guards) : guards'[j] = guards[j]
      /\ guards'[Len(guards) + 1] = g
  BY <1>1, <1>2, AppendProperties
<1>4. DOMAIN guards' = 1 .. Len(guards) + 1
  BY <1>3, LenProperties
<1>5. disturbed' = (disturbed /\ guards # <<>>) /\ disturbed \in BOOLEAN
  BY DEF NewGuard, TypeInv
<1> QED BY <1>3, <1>4, <1>5, GuardFacts

(* The stack is cut at some place. *)
LEMMA CutKeeps ==
    ASSUME TypeInv, NEW k \in 0 .. Len(savepoints), savepoints' = SubSeq(savepoints, 1, k)
    PROVE  /\ savepoints' \in Seq(SavepointType) /\ Len(savepoints') = k
           /\ DOMAIN savepoints' = 1 .. k
           /\ \A n \in 1 .. k : n \in DOMAIN savepoints /\ savepoints'[n] = savepoints[n]
           /\ savepoints' # <<>> <=> k # 0
<1>1. \A n \in 1 .. k : n \in DOMAIN savepoints /\ savepoints[n] \in SavepointType
  BY GuardFacts
<1>2. /\ savepoints' \in Seq(SavepointType)
      /\ Len(savepoints') = IF 1 <= k THEN k - 1 + 1 ELSE 0
      /\ \A n \in 1 .. k - 1 + 1 : savepoints'[n] = savepoints[1 + n - 1]
  BY <1>1, SubSeqProperties
<1>3. Len(savepoints') = k /\ \A n \in 1 .. k : savepoints'[n] = savepoints[n]
  BY <1>2
<1>4. DOMAIN savepoints' = 1 .. k
  BY <1>2, <1>3, LenProperties
<1>5. savepoints' # <<>> <=> k # 0
  BY <1>2, <1>3, EmptySeq
<1> QED BY <1>1, <1>2, <1>3, <1>4, <1>5

LEMMA PushKeeps ==
    ASSUME TypeInv, NEW name \in Names,
           savepoints' = Append(savepoints, [name |-> name, start |-> working])
    PROVE  /\ savepoints' \in Seq(SavepointType) /\ Len(savepoints') = Len(savepoints) + 1
           /\ DOMAIN savepoints' = 1 .. Len(savepoints) + 1
           /\ \A n \in DOMAIN savepoints : savepoints'[n] = savepoints[n]
           /\ savepoints'[Len(savepoints) + 1] = [name |-> name, start |-> working]
           /\ savepoints' # <<>>
<1>1. [name |-> name, start |-> working] \in SavepointType /\ savepoints \in Seq(SavepointType)
  BY DEF TypeInv, SavepointType
<1>2. /\ savepoints' \in Seq(SavepointType) /\ Len(savepoints') = Len(savepoints) + 1
      /\ savepoints' # <<>>
      /\ \A n \in 1 .. Len(savepoints) : savepoints'[n] = savepoints[n]
      /\ savepoints'[Len(savepoints) + 1] = [name |-> name, start |-> working]
  BY <1>1, AppendProperties
<1>3. DOMAIN savepoints' = 1 .. Len(savepoints) + 1
  BY <1>2, LenProperties
<1> QED BY <1>2, <1>3, GuardFacts

(* Savepoints that still wait keep their partners, if these stay open.     *)
LEMMA PairsKeep ==
    ASSUME NEW f \in [Waiting -> DOMAIN guards], Pairs(f), Waiting' \subseteq Waiting,
           \A n \in Waiting' : /\ f[n] \in DOMAIN guards'
                               /\ guards'[f[n]].kind = "savepoint" /\ ~guards'[f[n]].done
                               /\ guards'[f[n]].name = guards[f[n]].name
                               /\ savepoints'[n].name = savepoints[n].name
    PROVE  PairInv'
<1>1. \A n \in Waiting' : f[n] \in DOMAIN guards'
  OBVIOUS
<1>2. PICK g \in [Waiting' -> DOMAIN guards'] : \A n \in Waiting' : g[n] = f[n]
  <2>1. [n \in Waiting' |-> f[n]] \in [Waiting' -> DOMAIN guards']
    BY <1>1
  <2> QED BY <2>1
<1>3. \A m, n \in Waiting' : g[m] = g[n] => m = n
  BY <1>2 DEF Pairs
<1>4. \A n \in Waiting' : guards[f[n]].name = savepoints[n].name
  BY DEF Pairs
<1>5. \A n \in Waiting' : Open(g[n], "savepoint")' /\ guards'[g[n]].name = savepoints'[n].name
  BY <1>1, <1>2, <1>4 DEF Open
<1>6. Pairs(g)'
  BY <1>3, <1>5 DEF Pairs
<1> QED BY <1>6 DEF PairInv

(* No savepoint, none that waits. *)
LEMMA NoPairs ==
    ASSUME savepoints' = <<>> PROVE PairInv'
<1>1. Waiting' = {}
  BY DEF Waiting
<1>2. PICK g \in [Waiting' -> DOMAIN guards'] : TRUE
  <2>1. [n \in Waiting' |-> 0] \in [Waiting' -> DOMAIN guards']
    BY <1>1
  <2> QED BY <2>1
<1>3. Pairs(g)'
  BY <1>1 DEF Pairs
<1> QED BY <1>3 DEF PairInv
-----------------------------------------------------------------------------
(* Savepoints under guards that leave their scope or are done.             *)

(* Where the guards that are left agree with those there were. *)
Fewer == \A j \in DOMAIN guards' :
            /\ j \in DOMAIN guards
            /\ guards'[j].kind = guards[j].kind /\ guards'[j].name = guards[j].name
            /\ guards'[j].start = guards[j].start

(* A guard inside of one that is whole only reaches above its savepoint. *)
LEMMA Inside ==
    ASSUME IInv, ~disturbed, ~clash, NEW k \in DOMAIN guards, Whole(k),
           NEW i \in DOMAIN guards, k < i
    PROVE  /\ guards[i].kind = "savepoint"
           /\ \E n \in DOMAIN savepoints :
                 Kept(k, n) /\ (Place(guards[i].name) # 0 => n < Place(guards[i].name))
<1>1. PICK n \in DOMAIN savepoints : Kept(k, n)
  BY DEF IInv, SavepointInv
<1>2. i > k
  BY GuardFacts DEF IInv
<1>3. guards[i].kind = "savepoint" /\ \A m \in 1 .. n : savepoints[m].name # guards[i].name
  BY <1>1, <1>2 DEF Kept
<1>4. ASSUME Place(guards[i].name) # 0 PROVE n < Place(guards[i].name)
  <2> DEFINE p == Place(guards[i].name)
  <2>1. p \in 1 .. Len(savepoints) /\ savepoints[p].name = guards[i].name
    BY <1>4, PlaceIs, GuardFacts DEF IInv
  <2>2. n \in 1 .. Len(savepoints) /\ Len(savepoints) \in Nat
    BY GuardFacts DEF IInv
  <2>3. p \notin 1 .. n
    BY <1>3, <2>1
  <2> HIDE DEF p
  <2>4. n < p
    BY <2>1, <2>2, <2>3
  <2> QED BY <2>4 DEF p
<1> QED BY <1>1, <1>3, <1>4

LEMMA KeptCut ==
    ASSUME TypeInv, Fewer, NEW k \in DOMAIN guards', NEW n \in DOMAIN savepoints, Kept(k, n),
           NEW c \in 0 .. Len(savepoints), n <= c, savepoints' = SubSeq(savepoints, 1, c)
    PROVE  n \in DOMAIN savepoints' /\ Kept(k, n)'
<1>1. /\ DOMAIN savepoints' = 1 .. c
      /\ \A m \in 1 .. c : m \in DOMAIN savepoints /\ savepoints'[m] = savepoints[m]
  BY CutKeeps
<1>2. n \in 1 .. c /\ \A m \in 1 .. n : m \in 1 .. c
  BY GuardFacts
<1>3. k \in DOMAIN guards /\ guards'[k].name = guards[k].name /\ guards'[k].start = guards[k].start
  BY DEF Fewer
<1>4. savepoints'[n] = [name |-> guards'[k].name, start |-> guards'[k].start]
  BY <1>1, <1>2, <1>3 DEF Kept
<1>5. \A m \in DOMAIN savepoints' : savepoints'[m].name = guards'[k].name => m = n
  BY <1>1, <1>3 DEF Kept
<1>6. \A j \in DOMAIN guards' : j > k =>
        /\ guards'[j].kind = "savepoint"
        /\ \A m \in 1 .. n : savepoints'[m].name # guards'[j].name
  BY <1>1, <1>2 DEF Kept, Fewer
<1> QED BY <1>1, <1>2, <1>4, <1>5, <1>6 DEF Kept

LEMMA DoneIsFewer ==
    ASSUME TypeInv, NEW i \in DOMAIN guards, Done(i)
    PROVE  /\ Fewer
           /\ \A j \in DOMAIN guards' : guards'[j].done <=> guards[j].done \/ j = i
           /\ \A k \in DOMAIN guards' : Whole(k)' => Whole(k) /\ k < i
<1>1. Fewer /\ \A j \in DOMAIN guards' : guards'[j].done <=> guards[j].done \/ j = i
  BY DoneKeeps DEF Fewer
<1>2. ASSUME NEW k \in DOMAIN guards', Whole(k)' PROVE Whole(k) /\ k < i
  <2>1. k \in 1 .. Len(guards) /\ i \in 1 .. Len(guards) /\ Len(guards) \in Nat
        /\ DOMAIN guards' = 1 .. Len(guards)
    BY DoneKeeps, GuardFacts
  <2>2. \A j \in 1 .. k : j \in DOMAIN guards' /\ ~guards'[j].done
    BY <1>2, <2>1 DEF Whole
  <2>3. i \notin 1 .. k
    BY <1>1, <2>2
  <2>4. k < i
    BY <2>1, <2>3
  <2>5. Whole(k)
    BY <1>1, <1>2, <2>2 DEF Whole, Fewer
  <2> QED BY <2>4, <2>5
<1> QED BY <1>1, <1>2

LEMMA LeaveIsFewer ==
    ASSUME TypeInv, guards # <<>>, LeaveScope
    PROVE  /\ Fewer
           /\ \A j \in DOMAIN guards' : guards'[j].done = guards[j].done
           /\ \A k \in DOMAIN guards' : (Whole(k)' => Whole(k)) /\ k < Len(guards)
<1>1. Fewer /\ \A j \in DOMAIN guards' : guards'[j].done = guards[j].done
  BY LeaveKeeps DEF Fewer
<1>2. \A k \in DOMAIN guards' : k < Len(guards) /\ \A j \in 1 .. k : j \in DOMAIN guards'
  BY LeaveKeeps, GuardFacts
<1>3. \A k \in DOMAIN guards' : Whole(k)' => Whole(k)
  BY <1>1, <1>2 DEF Whole, Fewer
<1> QED BY <1>1, <1>2, <1>3

(* The end of the transaction, by whichever statement. *)
LEMMA AutocommitKeeps ==
    ASSUME Autocommit, working' = committed'
    PROVE  ConnectionInv' /\ BegunInv' /\ PairInv'
<1>1. savepoints' = <<>> /\ ~begun' /\ ~inTransaction' /\ working' = committed'
  BY DEF Autocommit
<1> QED BY <1>1, NoPairs DEF ConnectionInv, BegunInv
-----------------------------------------------------------------------------
(* The steps. *)

LEMMA InitIInv == Init => IInv
<1> SUFFICES ASSUME Init PROVE IInv
  OBVIOUS
<1>1. TypeInv /\ ConnectionInv /\ BegunInv
  BY EmptySeq DEF Init, TypeInv, ConnectionInv, BegunInv
<1>2. TransactionInv /\ SavepointInv
  BY DEF Init, TransactionInv, SavepointInv
<1>3. PairInv
  <2>1. Waiting = {}
    BY DEF Init, Waiting
  <2>2. [n \in Waiting |-> 0] \in [Waiting -> DOMAIN guards] /\ Pairs([n \in Waiting |-> 0])
    BY <2>1 DEF Pairs
  <2> QED BY <2>2 DEF PairInv
<1> QED BY <1>1, <1>2, <1>3 DEF IInv

(* A statement of the program, and a rollback of SQLite's own. *)
LEMMA WriteKeeps == ASSUME IInv, Write PROVE IInv'
<1> USE DEF IInv, Write, historyVars
<1>1. TypeInv' /\ ConnectionInv' /\ BegunInv'
  BY DEF TypeInv, ConnectionInv, BegunInv, Open
<1>2. TransactionInv'
  BY DEF TransactionInv, ConnectionInv, Open
<1>3. SavepointInv'
  BY DEF SavepointInv, Whole, Kept
<1>4. PairInv'
  <2>1. PICK f \in [Waiting -> DOMAIN guards] : Pairs(f)
    BY DEF PairInv
  <2>2. Waiting' = Waiting /\ guards' = guards /\ savepoints' = savepoints
    BY DEF Waiting
  <2> QED BY <2>1, <2>2, PairsKeep DEF Pairs, Open
<1> QED BY <1>1, <1>2, <1>3, <1>4

LEMMA SQLiteRollsBackKeeps == ASSUME IInv, SQLiteRollsBack PROVE IInv'
<1> USE DEF IInv, SQLiteRollsBack, ExecRollback
<1>1. TypeInv'
  BY EmptySeq DEF TypeInv, Autocommit
<1>2. ConnectionInv' /\ BegunInv' /\ PairInv'
  BY AutocommitKeeps
<1>3. TransactionInv' /\ SavepointInv'
  BY DEF TransactionInv, SavepointInv
<1> QED BY <1>1, <1>2, <1>3

(* The constructors. *)
LEMMA TransactionKeeps == ASSUME IInv, Transaction PROVE IInv'
<1> USE DEF IInv
<1>0. NewGuard("transaction", "none") /\ UNCHANGED <<savepoints, working, committed, writes, leftBehind, clash>>
      /\ ~inTransaction /\ inTransaction' /\ begun' /\ inTransaction' = TRUE /\ begun' = TRUE
  BY DEF Transaction
<1> DEFINE last == Len(guards) + 1
<1>1. /\ guards' \in Seq(Guards) /\ DOMAIN guards' = 1 .. last
      /\ \A j \in DOMAIN guards : guards'[j] = guards[j] /\ j \in DOMAIN guards'
      /\ guards'[last] = [kind |-> "transaction", name |-> "none", done |-> FALSE, start |-> working]
      /\ disturbed' \in BOOLEAN /\ (disturbed /\ Len(guards) # 0 => disturbed')
  BY <1>0, NewGuardKeeps
<1>2. last \in DOMAIN guards' /\ \A j \in DOMAIN guards' : j # last => j \in DOMAIN guards /\ Len(guards) # 0
  BY <1>1, GuardFacts
<1> HIDE DEF last
<1>3. savepoints = <<>> /\ ~begun /\ working = committed
  BY <1>0 DEF ConnectionInv
<1>4. TypeInv'
  BY <1>0, <1>1 DEF TypeInv
<1>5. ConnectionInv'
  BY <1>0 DEF ConnectionInv
<1>6. BegunInv'
  BY <1>1, <1>2 DEF BegunInv, Open
<1>7. PairInv'
  BY <1>0, <1>3, NoPairs
<1>8. TransactionInv'
  <2> SUFFICES ASSUME ~disturbed', NEW i \in DOMAIN guards', Open(i, "transaction")' PROVE i = last
    BY <1>0, <1>1, <1>3 DEF TransactionInv
  <2>1. ASSUME i # last PROVE FALSE
    <3>1. i \in DOMAIN guards /\ ~disturbed
      BY <1>1, <1>2, <2>1 DEF TypeInv
    <3>2. Open(i, "transaction")
      BY <1>1, <3>1 DEF Open
    <3> QED BY <1>3, <3>1, <3>2 DEF TransactionInv
  <2> QED BY <2>1
<1>9. SavepointInv'
  <2> SUFFICES ASSUME ~disturbed', ~clash', NEW k \in DOMAIN guards', Whole(k)' PROVE FALSE
    BY DEF SavepointInv
  <2>1. k # last
    BY <1>1 DEF Whole
  <2>2. k \in DOMAIN guards /\ ~disturbed /\ ~clash
    BY <1>0, <1>1, <1>2, <2>1 DEF TypeInv
  <2>3. Whole(k)
    <3>1. \A j \in 1 .. k : j \in DOMAIN guards
      BY <2>2, GuardFacts
    <3> QED BY <1>1, <2>2, <3>1 DEF Whole
  <2> QED BY <1>3, <2>2, <2>3, GuardFacts DEF SavepointInv
<1> QED BY <1>4, <1>5, <1>6, <1>7, <1>8, <1>9

LEMMA SavepointKeeps == ASSUME IInv, NEW name \in Names, Savepoint(name) PROVE IInv'
<1> USE DEF IInv
<1>0. /\ NewGuard("savepoint", name) /\ inTransaction' /\ inTransaction' = TRUE
      /\ savepoints' = Append(savepoints, [name |-> name, start |-> working])
      /\ clash' = ((clash /\ guards # <<>>) \/ Place(name) # 0)
      /\ UNCHANGED <<begun, working, committed, writes, leftBehind>>
  BY DEF Savepoint
<1> DEFINE last == Len(guards) + 1
           top == Len(savepoints) + 1
<1>1. /\ guards' \in Seq(Guards) /\ DOMAIN guards' = 1 .. last
      /\ \A j \in DOMAIN guards : guards'[j] = guards[j] /\ j \in DOMAIN guards'
      /\ guards'[last] = [kind |-> "savepoint", name |-> name, done |-> FALSE, start |-> working]
      /\ disturbed' \in BOOLEAN /\ (disturbed /\ Len(guards) # 0 => disturbed')
  BY <1>0, NewGuardKeeps
<1>2. /\ last \in DOMAIN guards' /\ last \notin DOMAIN guards
      /\ \A j \in DOMAIN guards' : j # last => j \in DOMAIN guards /\ Len(guards) # 0 /\ guards # <<>>
  BY <1>1, GuardFacts
<1>3. /\ savepoints' \in Seq(SavepointType) /\ DOMAIN savepoints' = 1 .. top
      /\ \A n \in DOMAIN savepoints : savepoints'[n] = savepoints[n]
      /\ savepoints'[top] = [name |-> name, start |-> working] /\ savepoints' # <<>>
  BY <1>0, PushKeeps
<1>4. /\ top \in DOMAIN savepoints' /\ top \notin DOMAIN savepoints
      /\ \A n \in DOMAIN savepoints' : n # top => n \in DOMAIN savepoints
      /\ \A n \in DOMAIN savepoints : n \in DOMAIN savepoints' /\ 1 .. n \subseteq DOMAIN savepoints
  BY <1>3, GuardFacts
<1>5. \A k \in DOMAIN guards' : ~(k > last)
  BY <1>1, GuardFacts
<1>6. \A k \in DOMAIN guards : 1 .. k \subseteq DOMAIN guards
  BY GuardFacts
<1> HIDE DEF last, top
<1>7. TypeInv'
  BY <1>0, <1>1, <1>3 DEF TypeInv
<1>8. ConnectionInv'
  BY <1>0, <1>3 DEF ConnectionInv, TypeInv
<1>9. BegunInv'
  BY <1>0, <1>1 DEF BegunInv, Open
<1>10. TransactionInv'
  <2>1. ASSUME NEW i \in DOMAIN guards', Open(i, "transaction")'
        PROVE  i \in DOMAIN guards /\ Open(i, "transaction") /\ (disturbed => disturbed')
    BY <1>1, <1>2, <2>1 DEF Open
  <2> QED BY <1>0, <1>1, <2>1 DEF TransactionInv, TypeInv
<1>11. PairInv'
  <2>1. PICK f \in [Waiting -> DOMAIN guards] : Pairs(f)
    BY DEF PairInv
  <2>2. \A n \in Waiting' : n # top => n \in Waiting /\ n \in DOMAIN savepoints
    BY <1>0, <1>3, <1>4 DEF Waiting
  <2>3. PICK g \in [Waiting' -> DOMAIN guards'] :
          \A n \in Waiting' : g[n] = IF n = top THEN last ELSE f[n]
    <3>1. \A n \in Waiting' : (IF n = top THEN last ELSE f[n]) \in DOMAIN guards'
      BY <1>1, <1>2, <2>1, <2>2
    <3>2. [n \in Waiting' |-> IF n = top THEN last ELSE f[n]] \in [Waiting' -> DOMAIN guards']
      BY <3>1
    <3> QED BY <3>2
  <2>4. ASSUME NEW n \in Waiting' PROVE Open(g[n], "savepoint")' /\ guards'[g[n]].name = savepoints'[n].name
    <3>1. CASE n = top
      BY <1>1, <1>2, <1>3, <2>3, <3>1 DEF Open
    <3>2. CASE n # top
      BY <1>1, <1>3, <2>1, <2>2, <2>3, <3>2 DEF Open, Pairs
    <3> QED BY <3>1, <3>2
  <2>5. \A m, n \in Waiting' : g[m] = g[n] => m = n
    <3>1. \A n \in Waiting' : n # top => f[n] # last
      BY <1>2, <2>1, <2>2
    <3> QED BY <2>1, <2>2, <2>3, <3>1 DEF Pairs
  <2>6. Pairs(g)'
    BY <2>4, <2>5 DEF Pairs
  <2> QED BY <2>6 DEF PairInv
<1>12. SavepointInv'
  <2> SUFFICES ASSUME ~disturbed', ~clash', NEW k \in DOMAIN guards', Whole(k)'
               PROVE  \E n \in DOMAIN savepoints' : Kept(k, n)'
    BY DEF SavepointInv
  <2>1. Place(name) = 0 /\ \A m \in DOMAIN savepoints : savepoints[m].name # name
    BY <1>0, PlaceIs DEF TypeInv
  <2>2. CASE k = last
    <3>1. PICK n \in DOMAIN savepoints' : n = top
      BY <1>4
    <3>2. savepoints'[n] = [name |-> guards'[k].name, start |-> guards'[k].start]
      BY <1>1, <1>3, <2>2, <3>1
    <3>3. \A m \in DOMAIN savepoints' : savepoints'[m].name = guards'[k].name => m = n
      BY <1>1, <1>3, <1>4, <2>1, <2>2, <3>1
    <3>4. \A j \in DOMAIN guards' : ~(j > k)
      BY <1>5, <2>2
    <3>5. Kept(k, n)'
      BY <3>2, <3>3, <3>4 DEF Kept
    <3> QED BY <3>5
  <2>3. CASE k # last
    <3>1. k \in DOMAIN guards /\ ~disturbed /\ ~clash
      BY <1>0, <1>1, <1>2, <2>3 DEF TypeInv
    <3>2. Whole(k)
      BY <1>1, <1>6, <3>1 DEF Whole
    <3>3. PICK n \in DOMAIN savepoints : Kept(k, n)
      BY <3>1, <3>2 DEF SavepointInv
    <3>4. guards[k].name # name /\ guards'[k] = guards[k] /\ savepoints'[n] = savepoints[n]
      BY <1>1, <1>3, <2>1, <3>1, <3>3 DEF Kept
    <3>5. \A m \in DOMAIN savepoints' : savepoints'[m].name = guards'[k].name => m = n
      BY <1>3, <1>4, <3>3, <3>4 DEF Kept
    <3>6. ASSUME NEW j \in DOMAIN guards', j > k
          PROVE  guards'[j].kind = "savepoint" /\ \A m \in 1 .. n : savepoints'[m].name # guards'[j].name
      <4>1. \A m \in 1 .. n : m \in DOMAIN savepoints /\ savepoints'[m] = savepoints[m]
        BY <1>3, <1>4, <3>3
      <4>2. CASE j = last
        BY <1>1, <2>1, <4>1, <4>2
      <4>3. CASE j # last
        BY <1>1, <1>2, <3>3, <3>6, <4>1, <4>3 DEF Kept
      <4> QED BY <4>2, <4>3
    <3>7. Kept(k, n)'
      BY <3>3, <3>4, <3>5, <3>6 DEF Kept
    <3> QED BY <1>4, <3>3, <3>7
  <2> QED BY <2>2, <2>3
<1> QED BY <1>7, <1>8, <1>9, <1>10, <1>11, <1>12
-----------------------------------------------------------------------------
(* The operations of the guards. *)

LEMMA CommitKeeps == ASSUME IInv, NEW i \in DOMAIN guards, Commit(i) PROVE IInv'
<1> USE DEF IInv
<1>0. /\ Open(i, "transaction") /\ Done(i) /\ Autocommit
      /\ committed' = working /\ UNCHANGED <<working, writes, disturbed, clash>>
  BY DEF Commit, ExecCommit, historyVars
<1>1. Fewer /\ DOMAIN guards' = DOMAIN guards /\ guards' \in Seq(Guards)
  BY <1>0, DoneIsFewer, DoneKeeps
<1>2. TypeInv'
  BY <1>0, <1>1, EmptySeq DEF TypeInv, Autocommit
<1>3. ConnectionInv' /\ BegunInv' /\ PairInv'
  BY <1>0, AutocommitKeeps
<1>4. TransactionInv'
  <2> SUFFICES ASSUME ~disturbed', NEW k \in DOMAIN guards', Open(k, "transaction")' PROVE FALSE
    BY DEF TransactionInv
  <2>1. k \in DOMAIN guards /\ Open(k, "transaction") /\ k # i
    BY <1>0, <1>1, DoneIsFewer DEF Open, Fewer
  <2> QED BY <1>0, <2>1 DEF TransactionInv
<1>5. SavepointInv'
  <2> SUFFICES ASSUME ~disturbed', ~clash', NEW k \in DOMAIN guards', Whole(k)' PROVE FALSE
    BY DEF SavepointInv
  <2>1. k \in DOMAIN guards /\ Whole(k) /\ k < i
    BY <1>0, <1>1, DoneIsFewer
  <2>2. guards[i].kind = "savepoint"
    BY <1>0, <2>1, Inside
  <2> QED BY <1>0, <2>2 DEF Open
<1> QED BY <1>2, <1>3, <1>4, <1>5

LEMMA ReleaseKeeps == ASSUME IInv, NEW i \in DOMAIN guards, Release(i) PROVE IInv'
<1> USE DEF IInv
<1> DEFINE p == Place(guards[i].name)
<1>0. /\ Open(i, "savepoint") /\ Done(i) /\ p # 0 /\ UNCHANGED <<disturbed, clash>>
      /\ IF p = 1 /\ ~begun THEN ExecCommit
         ELSE /\ savepoints' = SubSeq(savepoints, 1, p - 1)
              /\ UNCHANGED <<inTransaction, begun, working, committed, writes, leftBehind>>
  BY DEF Release, ExecRelease, historyVars
<1>1. Fewer /\ DOMAIN guards' = DOMAIN guards /\ guards' \in Seq(Guards)
  BY <1>0, DoneIsFewer, DoneKeeps
<1>2. /\ p \in DOMAIN savepoints /\ p \in 1 .. Len(savepoints) /\ Len(savepoints) \in Nat
      /\ savepoints[p].name = guards[i].name /\ savepoints # <<>>
      /\ \A m \in DOMAIN savepoints : savepoints[m].name = guards[i].name => m <= p
  BY <1>0, PlaceIs, GuardFacts
<1>3. ASSUME NEW k \in DOMAIN guards', Open(k, "transaction")'
      PROVE  k \in DOMAIN guards /\ Open(k, "transaction")
  BY <1>0, <1>1, <1>3, DoneIsFewer DEF Open, Fewer
<1>4. ASSUME ~disturbed', ~clash', NEW k \in DOMAIN guards', Whole(k)'
      PROVE  \E n \in DOMAIN savepoints : Kept(k, n) /\ n < p
  <2>1. k \in DOMAIN guards /\ Whole(k) /\ k < i
    BY <1>0, <1>1, <1>4, DoneIsFewer
  <2> QED BY <1>0, <1>4, <2>1, Inside
<1>5. CASE p = 1 /\ ~begun
  <2>0. Autocommit /\ committed' = working /\ UNCHANGED <<working, writes>>
    BY <1>0, <1>5 DEF ExecCommit
  <2>1. TypeInv'
    BY <1>0, <1>1, <2>0, EmptySeq DEF TypeInv, Autocommit
  <2>2. ConnectionInv' /\ BegunInv' /\ PairInv'
    BY <2>0, AutocommitKeeps
  <2>3. TransactionInv'
    BY <1>0, <1>3, <1>5 DEF TransactionInv
  <2>4. SavepointInv'
    <3> SUFFICES ASSUME ~disturbed', ~clash', NEW k \in DOMAIN guards', Whole(k)' PROVE FALSE
      BY DEF SavepointInv
    <3>1. PICK n \in DOMAIN savepoints : n < p
      BY <1>4
    <3>2. n \in 1 .. Len(savepoints)
      BY GuardFacts
    <3> HIDE DEF p
    <3> QED BY <1>2, <1>5, <3>1, <3>2
  <2> QED BY <2>1, <2>2, <2>3, <2>4
<1>6. CASE ~(p = 1 /\ ~begun)
  <2>0. /\ savepoints' = SubSeq(savepoints, 1, p - 1)
        /\ UNCHANGED <<inTransaction, begun, working, committed, writes, leftBehind>>
    BY <1>0, <1>6
  <2> HIDE DEF p
  <2>1. p - 1 \in 0 .. Len(savepoints)
    BY <1>2
  <2>2. /\ savepoints' \in Seq(SavepointType) /\ DOMAIN savepoints' = 1 .. p - 1
        /\ \A n \in 1 .. p - 1 : n \in DOMAIN savepoints /\ savepoints'[n] = savepoints[n]
        /\ savepoints' # <<>> <=> p - 1 # 0
    BY <2>0, <2>1, CutKeeps
  <2>3. TypeInv'
    BY <1>0, <1>1, <2>0, <2>2 DEF TypeInv
  <2>4. ConnectionInv'
    BY <1>2, <1>6, <2>0, <2>2 DEF ConnectionInv
  <2>5. BegunInv'
    <3> SUFFICES ASSUME begun PROVE \E j \in DOMAIN guards' : Open(j, "transaction")'
      BY <2>0 DEF BegunInv
    <3>1. PICK j \in DOMAIN guards : Open(j, "transaction")
      BY DEF BegunInv
    <3>2. j # i
      BY <1>0, <3>1 DEF Open
    <3> QED BY <1>0, <1>1, <3>1, <3>2, DoneIsFewer DEF Open, Fewer
  <2>6. TransactionInv'
    <3> SUFFICES ASSUME ~disturbed', NEW k \in DOMAIN guards', Open(k, "transaction")'
                 PROVE  /\ begun' /\ committed' = guards'[k].start
                        /\ \A j \in DOMAIN guards' : Open(j, "transaction")' => j = k
      BY DEF TransactionInv
    <3>1. k \in DOMAIN guards /\ Open(k, "transaction") /\ ~disturbed
      BY <1>0, <1>3
    <3>2. begun /\ committed = guards[k].start /\ \A j \in DOMAIN guards : Open(j, "transaction") => j = k
      BY <3>1 DEF TransactionInv
    <3> QED BY <1>1, <1>3, <2>0, <3>2 DEF Fewer
  <2>7. SavepointInv'
    <3> SUFFICES ASSUME ~disturbed', ~clash', NEW k \in DOMAIN guards', Whole(k)'
                 PROVE  \E n \in DOMAIN savepoints' : Kept(k, n)'
      BY DEF SavepointInv
    <3>1. PICK n \in DOMAIN savepoints : Kept(k, n) /\ n < p
      BY <1>4
    <3>2. n <= p - 1
      BY <1>2, <3>1, GuardFacts
    <3> QED BY <1>1, <2>0, <2>1, <3>1, <3>2, KeptCut
  <2>8. PairInv'
    <3>1. PICK f \in [Waiting -> DOMAIN guards] : Pairs(f)
      BY DEF PairInv
    <3>2. ASSUME NEW n \in Waiting'
          PROVE  /\ n \in Waiting /\ savepoints'[n] = savepoints[n] /\ n # p
                 /\ f[n] = i => p \in Waiting
      <4>1. n \in Waiting /\ savepoints'[n] = savepoints[n] /\ n \in 1 .. p - 1
        BY <2>0, <2>2 DEF Waiting
      <4>2. n # p
        BY <1>2, <4>1
      <4>3. f[n] = i => savepoints[n].name = savepoints[p].name
        BY <1>2, <3>1, <4>1 DEF Pairs
      <4> QED BY <1>2, <4>1, <4>2, <4>3 DEF Waiting
    <3>3. PICK g \in [Waiting' -> DOMAIN guards'] :
            \A n \in Waiting' : g[n] = IF f[n] = i THEN f[p] ELSE f[n]
      <4>1. \A n \in Waiting' : (IF f[n] = i THEN f[p] ELSE f[n]) \in DOMAIN guards'
        BY <1>1, <3>1, <3>2
      <4>2. [n \in Waiting' |-> IF f[n] = i THEN f[p] ELSE f[n]] \in [Waiting' -> DOMAIN guards']
        BY <4>1
      <4> QED BY <4>2
    <3>4. ASSUME NEW n \in Waiting'
          PROVE  Open(g[n], "savepoint")' /\ guards'[g[n]].name = savepoints'[n].name
      <4>1. g[n] \in DOMAIN guards /\ Open(g[n], "savepoint") /\ g[n] # i
            /\ guards[g[n]].name = savepoints[n].name
        <5>1. CASE f[n] = i
          BY <1>2, <3>1, <3>2, <3>3, <5>1 DEF Pairs
        <5>2. CASE f[n] # i
          BY <3>1, <3>2, <3>3, <5>2 DEF Pairs
        <5> QED BY <5>1, <5>2
      <4> QED BY <1>0, <1>1, <3>2, <4>1, DoneIsFewer DEF Open, Fewer
    <3>5. \A m, n \in Waiting' : g[m] = g[n] => m = n
      BY <3>1, <3>2, <3>3 DEF Pairs
    <3>6. Pairs(g)'
      BY <3>4, <3>5 DEF Pairs
    <3> QED BY <3>6 DEF PairInv
  <2> QED BY <2>3, <2>4, <2>5, <2>6, <2>7, <2>8
<1> QED BY <1>5, <1>6
(* ROLLBACK TO, by rollback() or by the destructor; guard i is done then,  *)
(* or gone.                                                                *)
LEMMA RollbackToKeeps ==
    ASSUME IInv, NEW i \in DOMAIN guards, Open(i, "savepoint"), ExecRollbackTo(guards[i].name),
           UNCHANGED historyVars, guards' \in Seq(Guards), Fewer,
           \A j \in DOMAIN guards : j # i => j \in DOMAIN guards',
           \A j \in DOMAIN guards' : guards'[j].done <=> guards[j].done \/ j = i,
           \A k \in DOMAIN guards' : Whole(k)' => Whole(k) /\ k < i
    PROVE  IInv'
<1> USE DEF IInv
<1> DEFINE p == Place(guards[i].name)
<1>0. /\ p # 0 /\ UNCHANGED <<disturbed, clash>>
      /\ working' = savepoints[p].start
      /\ savepoints' = SubSeq(savepoints, 1, p)
      /\ leftBehind' = leftBehind \cup {guards[i].name}
      /\ UNCHANGED <<inTransaction, begun, committed, writes>>
  BY DEF ExecRollbackTo, historyVars
<1>1. /\ p \in DOMAIN savepoints /\ p \in 0 .. Len(savepoints) /\ Len(savepoints) \in Nat
      /\ savepoints[p].name = guards[i].name /\ savepoints # <<>>
  BY <1>0, PlaceIs, GuardFacts
<1>2. ASSUME NEW k \in DOMAIN guards', Open(k, "transaction")'
      PROVE  k \in DOMAIN guards /\ Open(k, "transaction")
  BY <1>2 DEF Open, Fewer
<1>3. ASSUME ~disturbed', ~clash', NEW k \in DOMAIN guards', Whole(k)'
      PROVE  \E n \in DOMAIN savepoints : Kept(k, n) /\ n < p
  <2>1. k \in DOMAIN guards /\ Whole(k) /\ k < i
    BY <1>3 DEF Fewer
  <2> QED BY <1>0, <1>3, <2>1, Inside
<1>4. guards[i].name \in Names /\ savepoints[p].start \in Nat
  <2>1. guards[i] \in Guards /\ guards[i].kind = "savepoint" /\ savepoints[p] \in SavepointType
    BY <1>1, GuardFacts DEF Open
  <2> QED BY <2>1 DEF Guards, SavepointType
<1> HIDE DEF p
<1>5. /\ savepoints' \in Seq(SavepointType) /\ DOMAIN savepoints' = 1 .. p
      /\ \A n \in 1 .. p : n \in DOMAIN savepoints /\ savepoints'[n] = savepoints[n]
      /\ savepoints' # <<>>
  BY <1>0, <1>1, CutKeeps
<1>6. TypeInv'
  BY <1>0, <1>4, <1>5 DEF TypeInv
<1>7. ConnectionInv'
  BY <1>0, <1>1, <1>5 DEF ConnectionInv
<1>8. BegunInv'
  <2> SUFFICES ASSUME begun PROVE \E j \in DOMAIN guards' : Open(j, "transaction")'
    BY <1>0 DEF BegunInv
  <2>1. PICK j \in DOMAIN guards : Open(j, "transaction")
    BY DEF BegunInv
  <2>2. j # i
    BY <2>1 DEF Open
  <2> QED BY <2>1, <2>2 DEF Open, Fewer
<1>9. TransactionInv'
  <2> SUFFICES ASSUME ~disturbed', NEW k \in DOMAIN guards', Open(k, "transaction")'
               PROVE  /\ begun' /\ committed' = guards'[k].start
                      /\ \A j \in DOMAIN guards' : Open(j, "transaction")' => j = k
    BY DEF TransactionInv
  <2>1. k \in DOMAIN guards /\ Open(k, "transaction") /\ ~disturbed
    BY <1>0, <1>2
  <2>2. begun /\ committed = guards[k].start /\ \A j \in DOMAIN guards : Open(j, "transaction") => j = k
    BY <2>1 DEF TransactionInv
  <2> QED BY <1>0, <1>2, <2>2 DEF Fewer
<1>10. SavepointInv'
  <2> SUFFICES ASSUME ~disturbed', ~clash', NEW k \in DOMAIN guards', Whole(k)'
               PROVE  \E n \in DOMAIN savepoints' : Kept(k, n)'
    BY DEF SavepointInv
  <2>1. PICK n \in DOMAIN savepoints : Kept(k, n) /\ n < p
    BY <1>3
  <2>2. n <= p
    BY <1>1, <2>1, GuardFacts
  <2> QED BY <1>0, <1>1, <2>1, <2>2, KeptCut
<1>11. PairInv'
  <2>1. PICK f \in [Waiting -> DOMAIN guards] : Pairs(f)
    BY DEF PairInv
  <2>2. ASSUME NEW n \in Waiting'
        PROVE  /\ n \in Waiting /\ savepoints'[n] = savepoints[n]
               /\ savepoints[n].name # guards[i].name
    BY <1>0, <1>5 DEF Waiting
  <2>3. ASSUME NEW n \in Waiting'
        PROVE  /\ f[n] \in DOMAIN guards' /\ Open(f[n], "savepoint")
               /\ guards[f[n]].name = savepoints[n].name
               /\ guards'[f[n]].kind = "savepoint" /\ ~guards'[f[n]].done
               /\ guards'[f[n]].name = guards[f[n]].name
    <3>1. f[n] \in DOMAIN guards /\ Open(f[n], "savepoint") /\ guards[f[n]].name = savepoints[n].name
      BY <2>1, <2>2 DEF Pairs
    <3>2. f[n] # i
      BY <2>2, <3>1
    <3> QED BY <3>1, <3>2 DEF Open, Fewer
  <2>4. Waiting' \subseteq Waiting
    BY <2>2
  <2> QED BY <2>1, <2>2, <2>3, <2>4, PairsKeep
<1> QED BY <1>6, <1>7, <1>8, <1>9, <1>10, <1>11

LEMMA RollbackKeeps == ASSUME IInv, NEW i \in DOMAIN guards, Rollback(i) PROVE IInv'
<1>1. Open(i, "savepoint") /\ ExecRollbackTo(guards[i].name) /\ Done(i) /\ UNCHANGED historyVars
  BY DEF Rollback
<1>2. /\ guards' \in Seq(Guards) /\ Fewer /\ \A j \in DOMAIN guards : j # i => j \in DOMAIN guards'
      /\ \A j \in DOMAIN guards' : guards'[j].done <=> guards[j].done \/ j = i
      /\ \A k \in DOMAIN guards' : Whole(k)' => Whole(k) /\ k < i
  BY <1>1, DoneIsFewer, DoneKeeps DEF IInv
<1> QED BY <1>1, <1>2, RollbackToKeeps

-----------------------------------------------------------------------------
(* The destructors. *)

(* One that has nothing to do, or nothing it could do.                     *)
LEMMA LeaveAlone ==
    ASSUME IInv, guards # <<>>, LeaveScope, UNCHANGED <<dbVars, historyVars>>,
           \/ Last(guards).done
           \/ Open(Len(guards), "transaction") /\ ~inTransaction
           \/ Open(Len(guards), "savepoint") /\ Place(Last(guards).name) = 0
    PROVE  IInv'
<1> USE DEF IInv
<1> DEFINE last == Len(guards)
<1>0. UNCHANGED <<inTransaction, begun, savepoints, working, committed, writes, leftBehind, disturbed, clash>>
  BY DEF dbVars, historyVars
<1>1. /\ guards' \in Seq(Guards) /\ Fewer /\ last \in DOMAIN guards
      /\ \A j \in DOMAIN guards : j # last => j \in DOMAIN guards'
      /\ \A j \in DOMAIN guards' : guards'[j].done = guards[j].done
      /\ \A k \in DOMAIN guards' : Whole(k)' => Whole(k)
  BY LeaveKeeps, LeaveIsFewer, GuardFacts
<1>2. ~(Open(last, "transaction") /\ begun)
  BY DEF Open, Last, ConnectionInv
<1>3. Open(last, "savepoint") => \A n \in DOMAIN savepoints : savepoints[n].name # guards[last].name
  BY PlaceIs DEF Open, Last
<1> HIDE DEF last
<1>4. TypeInv' /\ ConnectionInv'
  BY <1>0, <1>1 DEF TypeInv, ConnectionInv
<1>5. BegunInv'
  <2> SUFFICES ASSUME begun PROVE \E j \in DOMAIN guards' : Open(j, "transaction")'
    BY <1>0 DEF BegunInv
  <2>1. PICK j \in DOMAIN guards : Open(j, "transaction")
    BY DEF BegunInv
  <2>2. j # last
    BY <1>2, <2>1
  <2> QED BY <1>1, <2>1, <2>2 DEF Open, Fewer
<1>6. TransactionInv'
  <2>1. ASSUME NEW k \in DOMAIN guards', Open(k, "transaction")'
        PROVE  k \in DOMAIN guards /\ Open(k, "transaction") /\ guards'[k].start = guards[k].start
    BY <1>1, <2>1 DEF Open, Fewer
  <2> QED BY <1>0, <2>1 DEF TransactionInv
<1>7. SavepointInv'
  <2> SUFFICES ASSUME ~disturbed', ~clash', NEW k \in DOMAIN guards', Whole(k)'
               PROVE  \E n \in DOMAIN savepoints' : Kept(k, n)'
    BY DEF SavepointInv
  <2>1. PICK n \in DOMAIN savepoints : Kept(k, n)
    BY <1>0, <1>1 DEF SavepointInv, Fewer
  <2>2. Len(savepoints) \in 0 .. Len(savepoints) /\ n <= Len(savepoints)
    BY <2>1, GuardFacts
  <2>3. savepoints' = SubSeq(savepoints, 1, Len(savepoints))
    BY <1>0, SubSeqFull DEF TypeInv
  <2> QED BY <1>1, <2>1, <2>2, <2>3, KeptCut
<1>8. PairInv'
  <2>1. PICK f \in [Waiting -> DOMAIN guards] : Pairs(f)
    BY DEF PairInv
  <2>2. Waiting' = Waiting /\ savepoints' = savepoints
    BY <1>0 DEF Waiting
  <2>3. ASSUME NEW n \in Waiting
        PROVE  /\ f[n] \in DOMAIN guards' /\ guards'[f[n]].kind = "savepoint" /\ ~guards'[f[n]].done
               /\ guards'[f[n]].name = guards[f[n]].name
    <3>1. f[n] \in DOMAIN guards /\ Open(f[n], "savepoint") /\ guards[f[n]].name = savepoints[n].name
          /\ n \in DOMAIN savepoints
      BY <2>1 DEF Pairs, Waiting
    <3>2. f[n] # last
      BY <1>3, <3>1
    <3> QED BY <1>1, <3>1, <3>2 DEF Open, Fewer
  <2> QED BY <2>1, <2>2, <2>3, PairsKeep
<1> QED BY <1>4, <1>5, <1>6, <1>7, <1>8

LEMMA DoneLeftKeeps == ASSUME IInv, DestroyDone PROVE IInv'
BY LeaveAlone DEF DestroyDone

LEMMA TransactionLeftKeeps == ASSUME IInv, DestroyTransaction PROVE IInv'
<1> USE DEF IInv
<1>0. guards # <<>> /\ Open(Len(guards), "transaction") /\ LeaveScope
  BY DEF DestroyTransaction
<1>1. CASE ~inTransaction
  BY <1>0, <1>1, LeaveAlone DEF DestroyTransaction
<1>2. CASE inTransaction
  <2>0. Autocommit /\ working' = committed /\ UNCHANGED <<committed, writes, disturbed, clash>>
    BY <1>2 DEF DestroyTransaction, ExecRollback, historyVars
  <2>1. /\ guards' \in Seq(Guards) /\ Fewer /\ Len(guards) \in DOMAIN guards
        /\ \A j \in DOMAIN guards' : guards'[j].done = guards[j].done
        /\ \A k \in DOMAIN guards' : (Whole(k)' => Whole(k)) /\ k < Len(guards) /\ k # Len(guards)
    BY <1>0, LeaveKeeps, LeaveIsFewer, GuardFacts
  <2>2. TypeInv'
    BY <2>0, <2>1, EmptySeq DEF TypeInv, Autocommit
  <2>3. ConnectionInv' /\ BegunInv' /\ PairInv'
    BY <2>0, AutocommitKeeps
  <2>4. TransactionInv'
    <3> SUFFICES ASSUME ~disturbed', NEW k \in DOMAIN guards', Open(k, "transaction")' PROVE FALSE
      BY DEF TransactionInv
    <3>1. k \in DOMAIN guards /\ Open(k, "transaction") /\ k # Len(guards)
      BY <2>1 DEF Open, Fewer
    <3> QED BY <1>0, <2>0, <2>1, <3>1 DEF TransactionInv
  <2>5. SavepointInv'
    <3> SUFFICES ASSUME ~disturbed', ~clash', NEW k \in DOMAIN guards', Whole(k)' PROVE FALSE
      BY DEF SavepointInv
    <3>1. k \in DOMAIN guards /\ Whole(k) /\ k < Len(guards)
      BY <2>1 DEF Fewer
    <3>2. guards[Len(guards)].kind = "savepoint"
      BY <2>0, <2>1, <3>1, Inside
    <3> QED BY <1>0, <3>2 DEF Open
  <2> QED BY <2>2, <2>3, <2>4, <2>5
<1> QED BY <1>1, <1>2

LEMMA SavepointLeftKeeps == ASSUME IInv, DestroySavepoint PROVE IInv'
<1> DEFINE last == Len(guards)
<1>0. guards # <<>> /\ Open(last, "savepoint") /\ LeaveScope /\ UNCHANGED historyVars
      /\ Last(guards) = guards[last]
  BY DEF DestroySavepoint, Last
<1>1. CASE Place(Last(guards).name) = 0 /\ UNCHANGED dbVars
  BY <1>0, <1>1, LeaveAlone
<1>2. CASE ExecRollbackTo(Last(guards).name)
  <2>1. /\ guards' \in Seq(Guards) /\ Fewer /\ last \in DOMAIN guards
        /\ \A j \in DOMAIN guards : j # last => j \in DOMAIN guards'
        /\ \A j \in DOMAIN guards' : j \in DOMAIN guards /\ j # last /\ guards'[j].done = guards[j].done
        /\ \A k \in DOMAIN guards' : (Whole(k)' => Whole(k)) /\ k < last
    BY <1>0, LeaveKeeps, LeaveIsFewer, GuardFacts DEF IInv
  <2>2. \A j \in DOMAIN guards' : guards[j].done \in BOOLEAN
    BY <2>1, GuardFacts DEF IInv, Guards
  <2>3. \A j \in DOMAIN guards' : guards'[j].done <=> guards[j].done \/ j = last
    BY <2>1, <2>2
  <2> QED BY <1>0, <1>2, <2>1, <2>3, RollbackToKeeps
<1> QED BY <1>1, <1>2 DEF DestroySavepoint

LEMMA StepIInv == IInv /\ [Next]_vars => IInv'
<1> SUFFICES ASSUME IInv, [Next]_vars PROVE IInv'
  OBVIOUS
<1>1. CASE Write \/ SQLiteRollsBack
  BY <1>1, WriteKeeps, SQLiteRollsBackKeeps
<1>2. CASE Transaction \/ \E name \in Names : Savepoint(name)
  BY <1>2, TransactionKeeps, SavepointKeeps
<1>3. CASE \E i \in DOMAIN guards : Commit(i) \/ Release(i) \/ Rollback(i)
  BY <1>3, CommitKeeps, ReleaseKeeps, RollbackKeeps
<1>4. CASE DestroyDone \/ DestroyTransaction \/ DestroySavepoint
  BY <1>4, DoneLeftKeeps, TransactionLeftKeeps, SavepointLeftKeeps
<1>5. CASE UNCHANGED vars
  <2> USE <1>5 DEF IInv, vars, dbVars, historyVars
  <2>1. TypeInv' /\ ConnectionInv' /\ BegunInv' /\ TransactionInv'
    BY DEF TypeInv, ConnectionInv, BegunInv, TransactionInv, Open
  <2>2. SavepointInv'
    BY DEF SavepointInv, Whole, Kept
  <2>3. PairInv'
    <3>1. PICK f \in [Waiting -> DOMAIN guards] : Pairs(f)
      BY DEF PairInv
    <3>2. Waiting' = Waiting /\ guards' = guards /\ savepoints' = savepoints
      BY DEF Waiting
    <3> QED BY <3>1, <3>2, PairsKeep DEF Pairs, Open
  <2> QED BY <2>1, <2>2, <2>3
<1> QED BY <1>1, <1>2, <1>3, <1>4, <1>5 DEF Next

-----------------------------------------------------------------------------
(* The inductive invariant holds of every behaviour. *)
THEOREM Invariance == Spec => []IInv
BY InitIInv, StepIInv, PTL DEF Spec

(* With every guard gone no BEGIN is left, and only savepoints of names    *)
(* that a Savepoint was rolled back to, however the guards' names clashed, *)
(* in whatever order they were ended and whatever SQLite did by itself.    *)
THEOREM NothingLeftOpen == Spec => []OnlyRollbackLeavesOpen
<1>1. IInv => OnlyRollbackLeavesOpen
  <2> SUFFICES ASSUME IInv, guards = <<>>
               PROVE  ~begun /\ \A n \in DOMAIN savepoints : savepoints[n].name \in leftBehind
    BY DEF OnlyRollbackLeavesOpen
  <2>1. DOMAIN guards = {}
    OBVIOUS
  <2>2. ~begun
    BY <2>1 DEF IInv, BegunInv
  <2>3. PICK f \in [Waiting -> DOMAIN guards] : TRUE
    BY DEF IInv, PairInv
  <2>4. Waiting = {}
    BY <2>1, <2>3
  <2> QED BY <2>2, <2>4 DEF Waiting
<1> QED BY <1>1, Invariance, PTL

(* Which steps leave a scope. *)
LEMMA ScopesLeft ==
    ASSUME IInv, [Next]_vars, Len(guards') < Len(guards)
    PROVE  /\ DestroyDone \/ DestroyTransaction \/ DestroySavepoint
           /\ guards # <<>> /\ Len(guards') = Len(guards) - 1 /\ Len(guards) \in DOMAIN guards
<1> USE DEF IInv
<1>1. Len(guards) \in Nat
  BY GuardFacts
<1>2. guards' # guards
  BY <1>1
<1>3. ~(Write \/ SQLiteRollsBack \/ UNCHANGED vars)
  BY <1>2 DEF Write, SQLiteRollsBack, vars
<1>4. ~Transaction
  <2>1. ASSUME NewGuard("transaction", "none") PROVE FALSE
    <3>1. Len(guards') = Len(guards) + 1
      BY <2>1, NewGuardKeeps
    <3> QED BY <1>1, <3>1
  <2> QED BY <2>1 DEF Transaction
<1>5. \A name \in Names : ~Savepoint(name)
  <2>1. ASSUME NEW name \in Names, NewGuard("savepoint", name) PROVE FALSE
    <3>1. Len(guards') = Len(guards) + 1
      BY <2>1, NewGuardKeeps
    <3> QED BY <1>1, <3>1
  <2> QED BY <2>1 DEF Savepoint
<1>6. \A i \in DOMAIN guards : ~(Commit(i) \/ Release(i) \/ Rollback(i))
  BY <1>1, DoneKeeps DEF Commit, Release, Rollback
<1>7. DestroyDone \/ DestroyTransaction \/ DestroySavepoint
  BY <1>3, <1>4, <1>5, <1>6 DEF Next
<1> QED BY <1>7, LeaveKeeps DEF DestroyDone, DestroyTransaction, DestroySavepoint

(* A Transaction whose scope is left without a commit leaves the database  *)
(* as it was at its construction, as long as SQLite has not rolled back.   *)
THEOREM NoTraceLeft == Spec => UncommittedLeavesNoTrace
<1> DEFINE NoTrace ==
      \A i \in DOMAIN guards :
          guards[i].kind = "transaction" /\ ~guards[i].done /\ ~disturbed /\ Len(guards') < i
          => /\ working' = guards[i].start /\ committed' = guards[i].start
             /\ ~inTransaction'
<1>1. IInv /\ [Next]_vars => [NoTrace]_vars
  <2> SUFFICES ASSUME IInv, [Next]_vars, NEW i \in DOMAIN guards,
                      guards[i].kind = "transaction", ~guards[i].done, ~disturbed, Len(guards') < i
               PROVE  /\ working' = guards[i].start /\ committed' = guards[i].start
                      /\ ~inTransaction'
    OBVIOUS
  <2> USE DEF IInv
  <2>1. Len(guards) \in Nat /\ i \in 1 .. Len(guards)
    BY GuardFacts
  <2>2. Len(guards') < Len(guards)
    <3>1. Len(guards') \in Nat
      BY StepIInv, LenProperties DEF TypeInv
    <3> QED BY <2>1, <3>1
  <2>3. /\ DestroyDone \/ DestroyTransaction \/ DestroySavepoint
        /\ Len(guards') = Len(guards) - 1
    BY <2>2, ScopesLeft
  <2>4. i = Len(guards)
    BY <2>1, <2>3
  <2>5. Open(i, "transaction")
    BY DEF Open
  <2>6. begun /\ committed = guards[i].start /\ inTransaction
    BY <2>5 DEF TransactionInv, ConnectionInv
  <2>7. DestroyTransaction
    BY <2>3, <2>4, <2>5 DEF DestroyDone, DestroySavepoint, Open, Last
  <2> QED BY <2>6, <2>7 DEF DestroyTransaction, ExecRollback, Autocommit
<1> QED BY <1>1, Invariance, PTL DEF Spec, UncommittedLeavesNoTrace

(* A Savepoint destroyed without release takes back its own writes and no  *)
(* older ones, as long as no guard around it has ended, SQLite has not     *)
(* rolled back and no name was used twice.                                 *)
THEOREM SavepointsTakeBack == Spec => SavepointTakesBack
<1> DEFINE TakesBack ==
      /\ guards # <<>> /\ Len(guards') < Len(guards)
      /\ Last(guards).kind = "savepoint"
      /\ \A i \in DOMAIN guards : ~guards[i].done
      /\ ~disturbed /\ ~clash
      => working' = Last(guards).start /\ committed' = committed
<1>1. IInv /\ [Next]_vars => [TakesBack]_vars
  <2> SUFFICES ASSUME IInv, [Next]_vars, guards # <<>>, Len(guards') < Len(guards),
                      Last(guards).kind = "savepoint", \A i \in DOMAIN guards : ~guards[i].done,
                      ~disturbed, ~clash
               PROVE  working' = Last(guards).start /\ committed' = committed
    OBVIOUS
  <2> USE DEF IInv
  <2> DEFINE last == Len(guards)
             p == Place(guards[last].name)
  <2>1. /\ DestroyDone \/ DestroyTransaction \/ DestroySavepoint
        /\ last \in DOMAIN guards /\ DOMAIN guards = 1 .. last /\ Last(guards) = guards[last]
    BY ScopesLeft, GuardFacts DEF Last
  <2>2. DestroySavepoint
    BY <2>1 DEF DestroyDone, DestroyTransaction, Open
  <2>3. Whole(last)
    BY <2>1 DEF Whole
  <2>4. PICK n \in DOMAIN savepoints : Kept(last, n)
    BY <2>1, <2>3 DEF SavepointInv
  <2>5. p # 0 /\ p = n
    BY <2>4, PlaceIs DEF Kept
  <2>6. ExecRollbackTo(guards[last].name)
    BY <2>1, <2>2, <2>5 DEF DestroySavepoint
  <2> QED BY <2>1, <2>4, <2>5, <2>6 DEF ExecRollbackTo, Kept
<1> QED BY <1>1, Invariance, PTL DEF Spec, SavepointTakesBack
=============================================================================
