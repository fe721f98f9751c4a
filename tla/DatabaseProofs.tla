--------------------------- MODULE DatabaseProofs ---------------------------
(***************************************************************************)
(* What Statement promises for any number of objects, handles, queries,    *)
(* columns and schemas, and Database, which composes it with connections,  *)
(* for any number of these as well.                                        *)
(***************************************************************************)
EXTENDS Database, WellFoundedInduction, TLAPS

-----------------------------------------------------------------------------
(* Numbers: the greatest of finitely many positions is one of them.        *)

LEMMA LeastNumber ==
    ASSUME NEW T \in SUBSET Nat, T # {}
    PROVE  \E m \in T : \A k \in T : m <= k
<1>1. PICK m \in T : \A k \in T : ~(<<k, m>> \in OpToRel(<, Nat))
  BY NatLessThanWellFounded, WFMin
<1>2. ASSUME NEW k \in T PROVE m <= k
  <2>1. k \in Nat /\ m \in Nat
    OBVIOUS
  <2>2. ~(k < m)
    BY <1>1, <2>1 DEF OpToRel
  <2> QED BY <2>1, <2>2
<1> QED BY <1>2

LEMMA MaxIsMember ==
    ASSUME NEW n \in Nat, NEW S \in SUBSET (1 .. n), S # {}
    PROVE  Max(S) \in S
<1> DEFINE T == {n - x : x \in S}
<1>1. ASSUME NEW x \in S PROVE x \in Nat /\ n - x \in Nat
  <2>1. x \in 1 .. n
    OBVIOUS
  <2> QED BY <2>1
<1>2. T \in SUBSET Nat /\ T # {}
  BY <1>1
<1> HIDE DEF T
<1>3. PICK m \in T : \A k \in T : m <= k
  BY <1>2, LeastNumber
<1>4. PICK x \in S : m = n - x
  BY DEF T
<1>5. ASSUME NEW y \in S PROVE x >= y
  <2>1. n - x <= n - y
    BY <1>3, <1>4 DEF T
  <2> QED BY <1>1, <2>1
<1> QED BY <1>5 DEF Max

LEMMA MinOfTwo ==
    ASSUME NEW a \in Nat, NEW b \in Nat
    PROVE  Min({a, b}) \in Nat /\ Min({a, b}) <= a /\ Min({a, b}) <= b
                               /\ (Min({a, b}) = a \/ Min({a, b}) = b)
<1>1. \E x \in {a, b} : \A y \in {a, b} : x <= y
  OBVIOUS
<1> QED BY <1>1 DEF Min

-----------------------------------------------------------------------------
(* The invariant. *)

NameMaps == UNION {[D -> Nat] : D \in SUBSET Names}
ObjectType == [alive : BOOLEAN, handle : Handles \cup {NULL}, mColumnCount : Nat,
               mbHasRow : BOOLEAN, mbDone : BOOLEAN, mColumnNames : NameMaps]
StmtType == [state : States, query : Queries \cup {NULL}, columns : Seq(Names), recompiled : BOOLEAN,
             ranAgain : BOOLEAN]
ColumnType == [handle : Handles \cup {NULL}, index : Nat, name : Names \cup {NULL}]

Typed == /\ obj \in [Objects -> ObjectType]
         /\ stmt \in [Handles -> StmtType]
         /\ column \in ColumnType
         /\ schema \in Versions

(* What an object keeps agrees with the prepared statement it has, among   *)
(* those of s.                                                             *)
Agrees(r, s) ==
    /\ \A n \in DOMAIN r.mColumnNames : r.mColumnNames[n] < r.mColumnCount
    /\ r.handle # NULL =>
          /\ r.alive
          /\ r.mbHasRow <=> s[r.handle].state = "row"
          /\ r.mbDone <=> s[r.handle].state = "done"
          /\ ~s[r.handle].recompiled =>
                /\ r.mColumnCount = Len(s[r.handle].columns)
                /\ \A n \in DOMAIN r.mColumnNames :
                      s[r.handle].columns[r.mColumnNames[n] + 1] = n

ColumnAgrees(c, s) ==
    c.name # NULL => /\ c.handle # NULL
                     /\ ~s[c.handle].recompiled => s[c.handle].columns[c.index + 1] = c.name

Owned ==
    /\ \A o, p \in Objects : obj[o].handle = obj[p].handle /\ obj[o].handle # NULL => o = p
    /\ \A h \in Handles : /\ stmt[h].state = "free"
                             <=> column.handle # h /\ \A o \in Objects : obj[o].handle # h
                          /\ stmt[h].state # "free" => stmt[h].query \in Queries

IInv == /\ Typed /\ Owned
        /\ \A o \in Objects : Agrees(obj[o], stmt)
        /\ ColumnAgrees(column, stmt)

(* An object or a column goes on agreeing while its statement stays. *)
LEMMA AgreesFrame ==
    ASSUME NEW r, NEW s, NEW t, Agrees(r, s), r.handle # NULL => t[r.handle] = s[r.handle]
    PROVE  Agrees(r, t)
  BY DEF Agrees

LEMMA ColumnFrame ==
    ASSUME NEW c, NEW s, NEW t, ColumnAgrees(c, s), c.handle # NULL => t[c.handle] = s[c.handle]
    PROVE  ColumnAgrees(c, t)
  BY DEF ColumnAgrees

LEMMA EmptyMap == <<>> \in NameMaps /\ DOMAIN <<>> = {}
<1>1. <<>> = [x \in {} |-> 0]
  OBVIOUS
<1>2. <<>> \in [{} -> Nat]
  BY <1>1
<1> QED BY <1>2 DEF NameMaps

(* An object without a statement and without names agrees with everything. *)
LEMMA NothingAgrees ==
    ASSUME NEW r, NEW s, r.handle = NULL, r.mColumnNames = <<>> PROVE Agrees(r, s)
  BY EmptyMap DEF Agrees

LEMMA InitIInv == Init => IInv
<1> SUFFICES ASSUME Init PROVE IInv
  OBVIOUS
<1>1. NoObject \in ObjectType
  BY EmptyMap DEF NoObject, ObjectType
<1>2. Finalized \in StmtType
  BY DEF Finalized, StmtType, States
<1>3. Typed
  BY <1>1, <1>2 DEF Init, Typed, NoColumn, ColumnType
<1>4. Owned
  BY NullIsNoHandle DEF Init, Owned, NoColumn, NoObject, Finalized
<1>5. ASSUME NEW o \in Objects PROVE Agrees(obj[o], stmt)
  <2>1. obj[o].handle = NULL /\ obj[o].mColumnNames = <<>>
    BY DEF Init, NoObject
  <2> QED BY <2>1, NothingAgrees
<1>6. ColumnAgrees(column, stmt)
  BY DEF Init, ColumnAgrees, NoColumn
<1> QED BY <1>3, <1>4, <1>5, <1>6 DEF IInv

-----------------------------------------------------------------------------
(* Actions that hand statements over or let them go. *)

LEMMA PrepareKeeps ==
    ASSUME IInv, NEW o \in Objects, NEW h \in Handles, NEW q \in Queries, Prepare(o, h, q)
    PROVE  IInv'
<1> DEFINE compiled == ResultColumns[q][schema]
           new == [NoObject EXCEPT !.alive = TRUE, !.handle = h, !.mColumnCount = Len(compiled)]
           prepared == [state |-> "ready", query |-> q, columns |-> compiled, recompiled |-> FALSE,
                        ranAgain |-> FALSE]
<1>1. compiled \in Seq(Names)
  BY ResultColumnsAssumption DEF IInv, Typed
<1>2. /\ obj' = [obj EXCEPT ![o] = new]
      /\ stmt' = [stmt EXCEPT ![h] = prepared]
      /\ stmt[h].state = "free" /\ ~obj[o].alive
      /\ UNCHANGED <<column, schema>>
  BY DEF Prepare
<1> HIDE DEF compiled
<1>3. new \in ObjectType /\ prepared \in StmtType
  <2>1. NoObject \in ObjectType
    BY EmptyMap DEF NoObject, ObjectType
  <2>2. Len(compiled) \in Nat
    BY <1>1
  <2>3. new \in ObjectType
    BY <2>1, <2>2 DEF ObjectType
  <2> QED BY <1>1, <2>3 DEF StmtType, States
<1>4. new.handle = h /\ new.alive /\ ~new.mbHasRow /\ ~new.mbDone /\ new.mColumnCount = Len(compiled)
      /\ new.mColumnNames = <<>> /\ prepared.state = "ready" /\ prepared.query = q
      /\ prepared.columns = compiled
  BY DEF NoObject
<1> HIDE DEF new, prepared
<1>5. /\ obj'[o] = new /\ \A p \in Objects : p # o => obj'[p] = obj[p]
      /\ stmt'[h] = prepared /\ \A g \in Handles : g # h => stmt'[g] = stmt[g]
  BY <1>2 DEF IInv, Typed
<1>6. column.handle # h /\ \A p \in Objects : obj[p].handle # h
  BY <1>2 DEF IInv, Owned
<1>7. Typed'
  BY <1>2, <1>3 DEF IInv, Typed
<1>8. Owned'
  <2>1. obj[o].handle = NULL
    BY <1>2 DEF IInv, Typed, Agrees
  <2> QED BY <1>2, <1>4, <1>5, <1>6, <2>1, NullIsNoHandle DEF IInv, Owned, Typed
<1>9. ASSUME NEW p \in Objects PROVE Agrees(obj'[p], stmt')
  <2>1. CASE p = o
    BY <1>4, <1>5, <2>1, EmptyMap DEF Agrees
  <2>2. CASE p # o
    <3>1. obj'[p] = obj[p] /\ Agrees(obj[p], stmt)
      BY <1>5, <2>2 DEF IInv
    <3>2. obj[p].handle # NULL => stmt'[obj[p].handle] = stmt[obj[p].handle]
      BY <1>5, <1>6 DEF IInv, Typed, ObjectType
    <3> QED BY <3>1, <3>2, AgreesFrame
  <2> QED BY <2>1, <2>2
<1>10. ColumnAgrees(column', stmt')
  <2>1. column.handle # NULL => stmt'[column.handle] = stmt[column.handle]
    BY <1>5, <1>6 DEF IInv, Typed, ColumnType
  <2> QED BY <1>2, <2>1, ColumnFrame DEF IInv
<1> QED BY <1>7, <1>8, <1>9, <1>10 DEF IInv

(* Release finalizes what nobody has any more and leaves the rest alone;   *)
(* it keeps the invariant if every object then has what some object had,   *)
(* or nothing.                                                             *)
LEMMA ReleaseKeeps ==
    ASSUME IInv, Release,
           obj' \in [Objects -> ObjectType], column' \in ColumnType, schema' = schema,
           \A o, p \in Objects : obj'[o].handle = obj'[p].handle /\ obj'[o].handle # NULL => o = p,
           \A o \in Objects : \/ obj'[o].handle = NULL /\ Agrees(obj'[o], stmt)
                              \/ \E p \in Objects : obj'[o] = obj[p],
           column' = column \/ column' = NoColumn
    PROVE  IInv'
<1>1. stmt' \in [Handles -> StmtType]
  BY DEF IInv, Typed, Release, Finalized, StmtType, States
<1>2. Typed'
  BY <1>1 DEF IInv, Typed
<1>3. ASSUME NEW h \in Handles
      PROVE  IF column'.handle = h \/ \E o \in Objects : obj'[o].handle = h
             THEN stmt'[h] = stmt[h] /\ stmt[h].state # "free"
             ELSE stmt'[h] = Finalized
  <2>1. CASE column'.handle = h
    BY <2>1, NullIsNoHandle DEF Release, Held, IInv, Owned, NoColumn
  <2>2. CASE \E o \in Objects : obj'[o].handle = h
    <3>1. \E p \in Objects : obj[p].handle = h
      BY <2>2, NullIsNoHandle
    <3> QED BY <2>2, <3>1 DEF Release, Held, IInv, Owned
  <2>3. CASE column'.handle # h /\ \A o \in Objects : obj'[o].handle # h
    BY <2>3 DEF Release, Held
  <2> QED BY <2>1, <2>2, <2>3
<1>4. Owned'
  BY <1>3 DEF IInv, Owned, Finalized
<1>5. ASSUME NEW o \in Objects PROVE Agrees(obj'[o], stmt')
  <2>1. Agrees(obj'[o], stmt)
    BY DEF IInv
  <2>2. obj'[o].handle # NULL => stmt'[obj'[o].handle] = stmt[obj'[o].handle]
    <3>1. obj'[o].handle \in Handles \cup {NULL}
      BY DEF ObjectType
    <3> QED BY <1>3, <3>1
  <2> QED BY <2>1, <2>2, AgreesFrame
<1>6. ColumnAgrees(column', stmt')
  <2>1. ColumnAgrees(column', stmt)
    BY DEF IInv, ColumnAgrees, NoColumn
  <2>2. column'.handle # NULL => stmt'[column'.handle] = stmt[column'.handle]
    BY <1>3 DEF ColumnType
  <2> QED BY <2>1, <2>2, ColumnFrame
<1> QED BY <1>2, <1>4, <1>5, <1>6 DEF IInv

LEMMA MoveConstructKeeps ==
    ASSUME IInv, NEW from \in Objects, NEW to \in Objects, MoveConstruct(from, to)
    PROVE  IInv'
<1> DEFINE rest == [NoObject EXCEPT !.alive = TRUE]
<1>1. rest \in ObjectType /\ rest.handle = NULL /\ rest.mColumnNames = <<>>
  BY EmptyMap DEF NoObject, ObjectType
<1> HIDE DEF rest
<1>2. obj' = [obj EXCEPT ![to] = obj[from], ![from] = rest] /\ from # to /\ obj[to].handle = NULL
      /\ UNCHANGED <<stmt, column, schema>>
  BY DEF MoveConstruct, rest, IInv, Agrees
<1>3. obj'[to] = obj[from] /\ obj'[from] = rest
      /\ \A p \in Objects : p # to /\ p # from => obj'[p] = obj[p]
  BY <1>2 DEF IInv, Typed
<1>4. Typed'
  BY <1>1, <1>2 DEF IInv, Typed
<1>5. Owned'
  <2>1. \A h \in Handles : (\E o \in Objects : obj'[o].handle = h) <=> (\E o \in Objects : obj[o].handle = h)
    BY <1>1, <1>2, <1>3, NullIsNoHandle
  <2>2. \A o, p \in Objects : obj'[o].handle = obj'[p].handle /\ obj'[o].handle # NULL => o = p
    BY <1>1, <1>3 DEF IInv, Owned
  <2> QED BY <1>2, <2>1, <2>2 DEF IInv, Owned
<1>6. \A o \in Objects : Agrees(obj'[o], stmt')
  BY <1>1, <1>2, <1>3, NothingAgrees DEF IInv
<1> QED BY <1>2, <1>4, <1>5, <1>6 DEF IInv

LEMMA MoveAssignKeeps ==
    ASSUME IInv, NEW from \in Objects, NEW to \in Objects, MoveAssign(from, to)
    PROVE  IInv'
<1> DEFINE rest == [obj[from] EXCEPT !.handle = NULL, !.mColumnNames = <<>>]
<1>1. rest \in ObjectType /\ rest.handle = NULL /\ rest.mColumnNames = <<>>
  BY EmptyMap DEF IInv, Typed, ObjectType
<1>2. obj' = [obj EXCEPT ![to] = obj[from], ![from] = rest] /\ from # to
      /\ UNCHANGED <<column, schema>> /\ Release
  BY DEF MoveAssign
<1> HIDE DEF rest
<1>3. obj'[to] = obj[from] /\ obj'[from] = rest
      /\ \A p \in Objects : p # to /\ p # from => obj'[p] = obj[p]
  BY <1>2 DEF IInv, Typed
<1>4. obj' \in [Objects -> ObjectType]
  BY <1>1, <1>2 DEF IInv, Typed
<1>5. \A o, p \in Objects : obj'[o].handle = obj'[p].handle /\ obj'[o].handle # NULL => o = p
  BY <1>1, <1>3 DEF IInv, Owned
<1>6. \A o \in Objects : \/ obj'[o].handle = NULL /\ Agrees(obj'[o], stmt)
                         \/ \E p \in Objects : obj'[o] = obj[p]
  BY <1>1, <1>3, NothingAgrees
<1> QED BY <1>2, <1>4, <1>5, <1>6, ReleaseKeeps DEF IInv, Typed

LEMMA DestroyKeeps == ASSUME IInv, NEW o \in Objects, Destroy(o) PROVE IInv'
<1>1. NoObject \in ObjectType /\ NoObject.handle = NULL /\ NoObject.mColumnNames = <<>>
  BY EmptyMap DEF NoObject, ObjectType
<1>2. obj' = [obj EXCEPT ![o] = NoObject] /\ UNCHANGED <<column, schema>> /\ Release
  BY DEF Destroy
<1>3. obj'[o] = NoObject /\ \A p \in Objects : p # o => obj'[p] = obj[p]
  BY <1>2 DEF IInv, Typed
<1>4. obj' \in [Objects -> ObjectType]
  BY <1>1, <1>2 DEF IInv, Typed
<1>5. \A p, r \in Objects : obj'[p].handle = obj'[r].handle /\ obj'[p].handle # NULL => p = r
  BY <1>1, <1>3 DEF IInv, Owned
<1>6. \A p \in Objects : \/ obj'[p].handle = NULL /\ Agrees(obj'[p], stmt)
                         \/ \E r \in Objects : obj'[p] = obj[r]
  BY <1>1, <1>3, NothingAgrees
<1> QED BY <1>2, <1>4, <1>5, <1>6, ReleaseKeeps DEF IInv, Typed

LEMMA DropColumnKeeps == ASSUME IInv, DropColumn PROVE IInv'
<1>1. NoColumn \in ColumnType
  BY DEF NoColumn, ColumnType
<1> QED BY <1>1, ReleaseKeeps DEF DropColumn, IInv, Typed, Owned

-----------------------------------------------------------------------------
(* Execution. *)

(* The object in o with other flags. *)
LEMMA SetFlags ==
    ASSUME Typed, NEW o \in Objects, NEW row \in BOOLEAN, NEW done \in BOOLEAN,
           obj' = [obj EXCEPT ![o].mbHasRow = row, ![o].mbDone = done]
    PROVE  \E r \in ObjectType :
              /\ obj' = [obj EXCEPT ![o] = r]
              /\ r.handle = obj[o].handle /\ r.alive = obj[o].alive
              /\ r.mColumnCount = obj[o].mColumnCount /\ r.mColumnNames = obj[o].mColumnNames
              /\ r.mbHasRow = row /\ r.mbDone = done
<1> DEFINE r == [obj[o] EXCEPT !.mbHasRow = row, !.mbDone = done]
<1>1. obj[o] \in ObjectType
  BY DEF Typed
<1>2. /\ r \in ObjectType
      /\ r.handle = obj[o].handle /\ r.alive = obj[o].alive
      /\ r.mColumnCount = obj[o].mColumnCount /\ r.mColumnNames = obj[o].mColumnNames
      /\ r.mbHasRow = row /\ r.mbDone = done
  BY <1>1 DEF ObjectType
<1>3. obj' = [obj EXCEPT ![o] = r]
  BY DEF Typed
<1> HIDE DEF r
<1> QED BY <1>2, <1>3

(* Another state st of the one statement an object has, with flags set to  *)
(* go with it, keeps the invariant.                                        *)
LEMMA StepKeeps ==
    ASSUME IInv, NEW o \in Objects, NEW h \in Handles, obj[o].handle = h,
           NEW r \in ObjectType, NEW st \in StmtType,
           obj' = [obj EXCEPT ![o] = r], stmt' = [stmt EXCEPT ![h] = st],
           UNCHANGED <<column, schema>>,
           r.handle = obj[o].handle, r.alive = obj[o].alive,
           r.mColumnCount = obj[o].mColumnCount, r.mColumnNames = obj[o].mColumnNames,
           r.mbHasRow <=> st.state = "row", r.mbDone <=> st.state = "done",
           st.query = stmt[h].query, st.state # "free",
           ~st.recompiled => ~stmt[h].recompiled /\ st.columns = stmt[h].columns
    PROVE  IInv'
<1>1. /\ obj'[o] = r /\ \A p \in Objects : p # o => obj'[p] = obj[p]
      /\ stmt'[h] = st /\ \A g \in Handles : g # h => stmt'[g] = stmt[g]
  BY DEF IInv, Typed
<1>2. Typed'
  BY <1>1 DEF IInv, Typed
<1>3. Owned'
  <2>1. \A p \in Objects : obj'[p].handle = obj[p].handle
    BY <1>1
  <2>2. stmt[h].state # "free"
    BY DEF IInv, Owned
  <2>3. \A g \in Handles : /\ stmt'[g].state = "free" <=> stmt[g].state = "free"
                           /\ stmt'[g].query = stmt[g].query
    BY <1>1, <2>2
  <2>4. Owned /\ column' = column
    BY DEF IInv
  <2> QED BY <2>1, <2>3, <2>4 DEF Owned
<1>4. ASSUME NEW p \in Objects PROVE Agrees(obj'[p], stmt')
  <2>1. CASE p = o
    <3>1. Agrees(obj[o], stmt) /\ h # NULL
      BY NullIsNoHandle DEF IInv
    <3> QED BY <1>1, <2>1, <3>1 DEF Agrees
  <2>2. CASE p # o
    <3>1. obj'[p] = obj[p] /\ Agrees(obj[p], stmt)
      BY <1>1, <2>2 DEF IInv
    <3>2. obj[p].handle # h
      BY <2>2, NullIsNoHandle DEF IInv, Owned
    <3>3. obj[p].handle # NULL => stmt'[obj[p].handle] = stmt[obj[p].handle]
      BY <1>1, <3>2 DEF IInv, Typed, ObjectType
    <3> QED BY <3>1, <3>3, AgreesFrame
  <2> QED BY <2>1, <2>2
<1>5. ColumnAgrees(column', stmt')
  <2>1. CASE column.handle = h
    BY <1>1, <2>1 DEF IInv, ColumnAgrees
  <2>2. CASE column.handle # h
    <3>1. column.handle # NULL => stmt'[column.handle] = stmt[column.handle]
      BY <1>1, <2>2 DEF IInv, Typed, ColumnType
    <3> QED BY <3>1, ColumnFrame DEF IInv
  <2> QED BY <2>1, <2>2
<1> QED BY <1>2, <1>3, <1>4, <1>5 DEF IInv

(* An object that only changes in what concerns nobody else: the flags     *)
(* where it has no statement, or its map of names.                         *)
LEMMA ObjectKeeps ==
    ASSUME IInv, NEW o \in Objects, NEW r \in ObjectType,
           obj' = [obj EXCEPT ![o] = r], UNCHANGED <<stmt, schema>>,
           r.handle = obj[o].handle, Agrees(r, stmt),
           column' \in ColumnType, ColumnAgrees(column', stmt),
           \A h \in Handles : column'.handle = h /\ column.handle # h => obj[o].handle = h,
           column' = column \/ column = NoColumn
    PROVE  IInv'
<1>1. obj'[o] = r /\ \A p \in Objects : p # o => obj'[p] = obj[p]
  BY DEF IInv, Typed
<1>2. Typed'
  BY DEF IInv, Typed
<1>3. Owned'
  <2>1. \A p \in Objects : obj'[p].handle = obj[p].handle
    BY <1>1
  <2>2. Owned /\ stmt' = stmt
    BY DEF IInv
  <2>3. ASSUME NEW h \in Handles
        PROVE  column.handle # h /\ (\A p \in Objects : obj[p].handle # h)
               <=> column'.handle # h /\ (\A p \in Objects : obj[p].handle # h)
    BY NullIsNoHandle DEF NoColumn
  <2> QED BY <2>1, <2>2, <2>3 DEF Owned
<1>4. ASSUME NEW p \in Objects PROVE Agrees(obj'[p], stmt')
  <2>1. CASE p = o
    BY <1>1, <2>1
  <2>2. CASE p # o
    BY <1>1, <2>2 DEF IInv
  <2> QED BY <2>1, <2>2
<1> QED BY <1>2, <1>3, <1>4 DEF IInv

(* Without a statement the flags are all that changes. *)
LEMMA FlagsKeep ==
    ASSUME IInv, NEW o \in Objects, obj[o].handle = NULL,
           NEW row \in BOOLEAN, NEW done \in BOOLEAN,
           obj' = [obj EXCEPT ![o].mbHasRow = row, ![o].mbDone = done],
           UNCHANGED <<stmt, column, schema>>
    PROVE  IInv'
<1>1. PICK r \in ObjectType :
         /\ obj' = [obj EXCEPT ![o] = r]
         /\ r.handle = obj[o].handle
         /\ r.mColumnCount = obj[o].mColumnCount /\ r.mColumnNames = obj[o].mColumnNames
  BY SetFlags DEF IInv
<1>2. Agrees(r, stmt)
  BY <1>1 DEF IInv, Agrees
<1>3. column' = column /\ column \in ColumnType /\ ColumnAgrees(column, stmt)
  BY DEF IInv, Typed
<1> QED BY <1>1, <1>2, <1>3, ObjectKeeps

LEMMA TryResetKeeps == ASSUME IInv, NEW o \in Objects, TryReset(o) PROVE IInv'
<1>1. obj' = [obj EXCEPT ![o].mbHasRow = FALSE, ![o].mbDone = FALSE] /\ UNCHANGED <<column, schema>>
      /\ stmt' = [h \in Handles |-> IF h = obj[o].handle THEN [stmt[h] EXCEPT !.state = "ready"] ELSE stmt[h]]
  BY DEF TryReset
<1>2. CASE obj[o].handle = NULL
  <2>1. stmt' = stmt
    BY <1>1, <1>2, NullIsNoHandle DEF IInv, Typed
  <2> QED BY <1>1, <1>2, <2>1, FlagsKeep
<1>3. CASE obj[o].handle # NULL
  <2>1. PICK h \in Handles : obj[o].handle = h
    BY <1>3 DEF IInv, Typed, ObjectType
  <2>2. PICK st \in StmtType :
           /\ st = [stmt[h] EXCEPT !.state = "ready"]
           /\ st.query = stmt[h].query /\ st.state = "ready"
           /\ st.recompiled = stmt[h].recompiled /\ st.columns = stmt[h].columns
    <3>1. stmt[h] \in StmtType
      BY DEF IInv, Typed
    <3> DEFINE new == [stmt[h] EXCEPT !.state = "ready"]
    <3>2. /\ new \in StmtType /\ new.query = stmt[h].query /\ new.state = "ready"
          /\ new.recompiled = stmt[h].recompiled /\ new.columns = stmt[h].columns
      BY <3>1 DEF StmtType, States
    <3> QED BY <3>2
  <2>3. stmt' = [stmt EXCEPT ![h] = st]
    BY <1>1, <2>1, <2>2 DEF IInv, Typed
  <2>4. PICK r \in ObjectType :
           /\ obj' = [obj EXCEPT ![o] = r]
           /\ r.handle = obj[o].handle /\ r.alive = obj[o].alive
           /\ r.mColumnCount = obj[o].mColumnCount /\ r.mColumnNames = obj[o].mColumnNames
           /\ r.mbHasRow = FALSE /\ r.mbDone = FALSE
    BY <1>1, SetFlags DEF IInv
  <2>5. /\ r.mbHasRow <=> st.state = "row"
        /\ r.mbDone <=> st.state = "done"
        /\ st.state # "free"
        /\ ~st.recompiled => ~stmt[h].recompiled /\ st.columns = stmt[h].columns
    BY <2>2, <2>4
  <2>6. UNCHANGED <<column, schema>>
    BY <1>1
  <2> QED BY <2>1, <2>2, <2>3, <2>4, <2>5, <2>6, StepKeeps
<1> QED BY <1>2, <1>3

(* What sqlite3_step leaves at a handle: the state it says, and columns    *)
(* that are the ones before unless it has compiled the statement anew.     *)
LEMMA SqliteStepSays ==
    ASSUME IInv, NEW h \in Handles, stmt[h].state # "free",
           NEW result \in {"row", "done", "ready"}, SqliteStep(h, result)
    PROVE  \E st \in StmtType :
              /\ stmt' = [stmt EXCEPT ![h] = st]
              /\ st.state = result
              /\ st.query = stmt[h].query
              /\ ~st.recompiled => ~stmt[h].recompiled /\ st.columns = stmt[h].columns
              /\ st.ranAgain => stmt[h].ranAgain \/ stmt[h].state = "done"
<1> DEFINE compiled == ResultColumns[stmt[h].query][schema]
           changed == stmt[h].recompiled \/ stmt[h].columns # compiled
           finished == stmt[h].ranAgain \/ stmt[h].state = "done"
           again == [stmt[h] EXCEPT !.columns = compiled, !.recompiled = changed,
                                    !.ranAgain = finished]
<1>1. stmt[h] \in StmtType
  BY DEF IInv, Typed
<1>2. compiled \in Seq(Names)
  BY ResultColumnsAssumption DEF IInv, Typed, Owned
<1>3. PICK base \in {again, stmt[h]} : stmt' = [stmt EXCEPT ![h] = [base EXCEPT !.state = result]]
  BY DEF SqliteStep
<1> HIDE DEF compiled
<1>4. /\ again \in StmtType /\ again.query = stmt[h].query
      /\ again.columns = compiled /\ again.recompiled = changed /\ again.ranAgain = finished
  BY <1>1, <1>2 DEF StmtType
<1>5. /\ ~again.recompiled => ~stmt[h].recompiled /\ again.columns = stmt[h].columns
      /\ again.ranAgain => stmt[h].ranAgain \/ stmt[h].state = "done"
  BY <1>4
<1> HIDE DEF again
<1>6. /\ base \in StmtType /\ base.query = stmt[h].query
      /\ ~base.recompiled => ~stmt[h].recompiled /\ base.columns = stmt[h].columns
      /\ base.ranAgain => stmt[h].ranAgain \/ stmt[h].state = "done"
  BY <1>1, <1>3, <1>4, <1>5
<1> DEFINE st == [base EXCEPT !.state = result]
<1>7. /\ st \in StmtType /\ st.state = result /\ st.query = base.query
      /\ st.recompiled = base.recompiled /\ st.columns = base.columns
      /\ st.ranAgain = base.ranAgain
  BY <1>6 DEF StmtType, States
<1> QED BY <1>3, <1>6, <1>7

LEMMA TryExecuteStepKeeps == ASSUME IInv, NEW o \in Objects, TryExecuteStep(o) PROVE IInv'
<1>1. PICK result \in {"row", "done", "ready"} :
         /\ obj' = [obj EXCEPT ![o].mbHasRow = (result = "row"), ![o].mbDone = (result = "done")]
         /\ IF obj[o].handle = NULL THEN result = "ready" /\ UNCHANGED stmt
                                    ELSE SqliteStep(obj[o].handle, result)
  BY DEF TryExecuteStep
<1>2. UNCHANGED <<column, schema>>
  BY DEF TryExecuteStep
<1>3. PICK row \in BOOLEAN, done \in BOOLEAN : row = (result = "row") /\ done = (result = "done")
  OBVIOUS
<1>4. obj' = [obj EXCEPT ![o].mbHasRow = row, ![o].mbDone = done]
  BY <1>1, <1>3
<1>5. CASE obj[o].handle = NULL
  BY <1>1, <1>2, <1>4, <1>5, FlagsKeep
<1>6. CASE obj[o].handle # NULL
  <2>1. PICK h \in Handles : obj[o].handle = h
    BY <1>6 DEF IInv, Typed, ObjectType
  <2>2. stmt[h].state # "free" /\ SqliteStep(h, result)
    BY <1>1, <1>6, <2>1 DEF IInv, Owned
  <2>3. PICK st \in StmtType :
           /\ stmt' = [stmt EXCEPT ![h] = st]
           /\ st.state = result
           /\ st.query = stmt[h].query
           /\ ~st.recompiled => ~stmt[h].recompiled /\ st.columns = stmt[h].columns
    BY <2>2, SqliteStepSays
  <2>4. PICK r \in ObjectType :
           /\ obj' = [obj EXCEPT ![o] = r]
           /\ r.handle = obj[o].handle /\ r.alive = obj[o].alive
           /\ r.mColumnCount = obj[o].mColumnCount /\ r.mColumnNames = obj[o].mColumnNames
           /\ r.mbHasRow = row /\ r.mbDone = done
    <3> DEFINE new == [obj[o] EXCEPT !.mbHasRow = row, !.mbDone = done]
    <3>1. obj[o] \in ObjectType
      BY DEF IInv, Typed
    <3>2. /\ new \in ObjectType
          /\ new.handle = obj[o].handle /\ new.alive = obj[o].alive
          /\ new.mColumnCount = obj[o].mColumnCount /\ new.mColumnNames = obj[o].mColumnNames
          /\ new.mbHasRow = row /\ new.mbDone = done
      BY <3>1 DEF ObjectType
    <3>3. obj' = [obj EXCEPT ![o] = new]
      BY <1>4 DEF IInv, Typed
    <3> HIDE DEF new
    <3> QED BY <3>2, <3>3
  <2>5. /\ r.mbHasRow <=> st.state = "row"
        /\ r.mbDone <=> st.state = "done"
        /\ st.state # "free"
    BY <1>3, <2>3, <2>4
  <2> QED BY <1>2, <2>1, <2>3, <2>4, <2>5, StepKeeps
<1> QED BY <1>5, <1>6

-----------------------------------------------------------------------------
(* Columns. *)

(* The map getColumnIndex builds: positions below mColumnCount, and for a  *)
(* statement that has not been compiled anew the place of each name.       *)
LEMMA NamedAgrees ==
    ASSUME IInv, NEW o \in Objects, obj[o].handle # NULL
    PROVE  LET r == [obj[o] EXCEPT !.mColumnNames = Named(o)]
           IN r \in ObjectType /\ r.handle = obj[o].handle /\ Agrees(r, stmt)
<1>1. PICK h \in Handles : obj[o].handle = h
  BY DEF IInv, Typed, ObjectType
<1>2. obj[o] \in ObjectType /\ stmt[h] \in StmtType /\ Agrees(obj[o], stmt)
  BY DEF IInv, Typed
<1> DEFINE columns == stmt[h].columns
           count == Min({obj[o].mColumnCount, Len(columns)})
           places(n) == {i \in 1 .. count : columns[i] = n}
           built == [n \in {columns[i] : i \in 1 .. count} |-> Max(places(n)) - 1]
<1>3. columns \in Seq(Names) /\ Len(columns) \in Nat /\ obj[o].mColumnCount \in Nat
  BY <1>2 DEF StmtType, ObjectType
<1> HIDE DEF columns
<1>4. count \in Nat /\ count <= obj[o].mColumnCount /\ count <= Len(columns)
      /\ (count = obj[o].mColumnCount \/ count = Len(columns))
  BY <1>3, MinOfTwo
<1> HIDE DEF count
<1>5. {columns[i] : i \in 1 .. count} \in SUBSET Names
  BY <1>3, <1>4
<1>6. ASSUME NEW n \in {columns[i] : i \in 1 .. count}
      PROVE  built[n] \in Nat /\ built[n] < count /\ columns[built[n] + 1] = n
  <2>1. places(n) \in SUBSET (1 .. count) /\ places(n) # {}
    OBVIOUS
  <2>2. Max(places(n)) \in places(n)
    BY <1>4, <2>1, MaxIsMember
  <2>3. built[n] = Max(places(n)) - 1
    OBVIOUS
  <2> HIDE DEF built
  <2> QED BY <1>4, <2>2, <2>3
<1>7. DOMAIN built = {columns[i] : i \in 1 .. count} /\ built \in [{columns[i] : i \in 1 .. count} -> Nat]
  BY <1>6
<1>8. Named(o) = IF obj[o].mColumnNames # <<>> THEN obj[o].mColumnNames ELSE built
  BY <1>1 DEF Named, built, count, columns
<1> HIDE DEF built
<1>9. built \in NameMaps
  BY <1>5, <1>7 DEF NameMaps
<1> DEFINE names == Named(o)
           r == [obj[o] EXCEPT !.mColumnNames = names]
<1>10. names \in NameMaps
  BY <1>2, <1>8, <1>9 DEF ObjectType
<1>11. \A n \in DOMAIN names : names[n] < obj[o].mColumnCount
  <2>1. CASE obj[o].mColumnNames # <<>>
    BY <1>2, <1>8, <2>1 DEF Agrees
  <2>2. CASE obj[o].mColumnNames = <<>>
    BY <1>3, <1>4, <1>6, <1>7, <1>8, <2>2
  <2> QED BY <2>1, <2>2
<1>12. ~stmt[h].recompiled => \A n \in DOMAIN names : columns[names[n] + 1] = n
  <2>1. CASE obj[o].mColumnNames # <<>>
    BY <1>1, <1>2, <1>8, <2>1, NullIsNoHandle DEF Agrees, columns
  <2>2. CASE obj[o].mColumnNames = <<>>
    BY <1>6, <1>7, <1>8, <2>2
  <2> QED BY <2>1, <2>2
<1> HIDE DEF names
<1>13. /\ r \in ObjectType
       /\ r.handle = h /\ r.alive = obj[o].alive /\ r.mColumnCount = obj[o].mColumnCount
       /\ r.mbHasRow = obj[o].mbHasRow /\ r.mbDone = obj[o].mbDone /\ r.mColumnNames = names
  BY <1>1, <1>2, <1>10 DEF ObjectType
<1> HIDE DEF r
<1>14. Agrees(r, stmt)
  BY <1>1, <1>2, <1>11, <1>12, <1>13 DEF Agrees, columns
<1> QED BY <1>1, <1>13, <1>14 DEF r, names

LEMMA GetColumnIndexKeeps == ASSUME IInv, NEW o \in Objects, GetColumnIndex(o) PROVE IInv'
<1> DEFINE r == [obj[o] EXCEPT !.mColumnNames = Named(o)]
<1>1. r \in ObjectType /\ r.handle = obj[o].handle /\ Agrees(r, stmt)
  BY NamedAgrees DEF GetColumnIndex
<1>2. obj' = [obj EXCEPT ![o] = r] /\ UNCHANGED <<stmt, column, schema>>
  BY DEF GetColumnIndex, IInv, Typed
<1>3. column' = column /\ column \in ColumnType /\ ColumnAgrees(column, stmt)
  BY <1>2 DEF IInv, Typed
<1> HIDE DEF r
<1> QED BY <1>1, <1>2, <1>3, ObjectKeeps

LEMMA GetColumnByNameKeeps ==
    ASSUME IInv, NEW o \in Objects, NEW n \in Names, GetColumnByName(o, n) PROVE IInv'
<1> DEFINE names == Named(o)
           r == [obj[o] EXCEPT !.mColumnNames = names]
<1>1. r \in ObjectType /\ r.handle = obj[o].handle /\ Agrees(r, stmt)
  BY NamedAgrees DEF GetColumnByName
<1>2. /\ obj' = [obj EXCEPT ![o] = r] /\ UNCHANGED <<stmt, schema>> /\ column = NoColumn
      /\ column' = [handle |-> obj[o].handle, index |-> names[n], name |-> n]
      /\ n \in DOMAIN names /\ obj[o].handle # NULL
  BY DEF GetColumnByName, IInv, Typed
<1> HIDE DEF names
<1>3. r.mColumnNames = names
  BY DEF IInv, Typed, ObjectType
<1> HIDE DEF r
<1>4. names \in NameMaps
  BY <1>1, <1>3 DEF ObjectType
<1>5. names[n] \in Nat
  BY <1>2, <1>4 DEF NameMaps
<1>6. column' \in ColumnType
  BY <1>2, <1>5 DEF ColumnType, IInv, Typed, ObjectType
<1>7. ColumnAgrees(column', stmt)
  BY <1>1, <1>2, <1>3 DEF Agrees, ColumnAgrees
<1>8. \A h \in Handles : column'.handle = h => obj[o].handle = h
  BY <1>2
<1> QED BY <1>1, <1>2, <1>6, <1>7, <1>8, ObjectKeeps

LEMMA GetColumnKeeps == ASSUME IInv, NEW o \in Objects, GetColumn(o) PROVE IInv'
<1>1. /\ column = NoColumn /\ UNCHANGED <<obj, stmt, schema>>
      /\ column' = [handle |-> obj[o].handle, index |-> 0, name |-> NULL]
  BY DEF GetColumn
<1>2. obj[o] \in ObjectType
  BY DEF IInv, Typed
<1>3. column' \in ColumnType /\ column'.handle = obj[o].handle /\ column'.name = NULL
  BY <1>1, <1>2 DEF ColumnType, ObjectType
<1>4. ColumnAgrees(column', stmt)
  BY <1>3 DEF ColumnAgrees
<1>5. obj' = [obj EXCEPT ![o] = obj[o]]
  BY <1>1 DEF IInv, Typed
<1>6. Agrees(obj[o], stmt)
  BY DEF IInv
<1> QED BY <1>1, <1>2, <1>3, <1>4, <1>5, <1>6, ObjectKeeps

-----------------------------------------------------------------------------
(* The invariant, and what follows from it. *)

LEMMA StepIInv == IInv /\ [Next]_vars => IInv'
<1> SUFFICES ASSUME IInv, [Next]_vars PROVE IInv'
  OBVIOUS
<1>1. CASE ChangeSchema
  BY <1>1 DEF ChangeSchema, IInv, Typed, Owned
<1>2. CASE DropColumn
  BY <1>2, DropColumnKeeps
<1>3. ASSUME NEW o \in Objects, NEW h \in Handles, NEW q \in Queries, Prepare(o, h, q) PROVE IInv'
  BY <1>3, PrepareKeeps
<1>4. ASSUME NEW o \in Objects, NEW to \in Objects, MoveConstruct(o, to) \/ MoveAssign(o, to)
      PROVE  IInv'
  BY <1>4, MoveConstructKeeps, MoveAssignKeeps
<1>5. ASSUME NEW o \in Objects, Destroy(o) \/ TryReset(o) \/ TryExecuteStep(o) PROVE IInv'
  BY <1>5, DestroyKeeps, TryResetKeeps, TryExecuteStepKeeps
<1>6. ASSUME NEW o \in Objects, GetColumnIndex(o) \/ GetColumn(o) PROVE IInv'
  BY <1>6, GetColumnIndexKeeps, GetColumnKeeps
<1>7. ASSUME NEW o \in Objects, NEW n \in Names, GetColumnByName(o, n) PROVE IInv'
  BY <1>7, GetColumnByNameKeeps
<1>8. CASE UNCHANGED vars
  BY <1>8 DEF vars, IInv, Typed, Owned
<1> QED BY <1>1, <1>2, <1>3, <1>4, <1>5, <1>6, <1>7, <1>8 DEF Next

(* The invariant holds at all times. *)
THEOREM Invariance == Spec => []IInv
  BY InitIInv, StepIInv, PTL DEF Spec

(* The invariant contains the types, and more. *)
LEMMA IInvMeansTypeOK == IInv => TypeOK
<1> SUFFICES ASSUME IInv PROVE TypeOK
  OBVIOUS
<1>1. ASSUME NEW o \in Objects
      PROVE  /\ obj[o].alive \in BOOLEAN /\ obj[o].mbHasRow \in BOOLEAN /\ obj[o].mbDone \in BOOLEAN
             /\ obj[o].handle \in Handles \cup {NULL} /\ obj[o].mColumnCount \in Nat
             /\ DOMAIN obj[o].mColumnNames \subseteq Names
             /\ \A n \in DOMAIN obj[o].mColumnNames :
                   obj[o].mColumnNames[n] \in 0 .. obj[o].mColumnCount - 1
  <2>1. obj[o] \in ObjectType
    BY DEF IInv, Typed
  <2>2. obj[o].mColumnNames \in NameMaps /\ obj[o].mColumnCount \in Nat
    BY <2>1 DEF ObjectType
  <2>3. DOMAIN obj[o].mColumnNames \subseteq Names
        /\ \A n \in DOMAIN obj[o].mColumnNames : obj[o].mColumnNames[n] \in Nat
    BY <2>2 DEF NameMaps
  <2>4. \A n \in DOMAIN obj[o].mColumnNames : obj[o].mColumnNames[n] < obj[o].mColumnCount
    BY DEF IInv, Agrees
  <2> QED BY <2>1, <2>2, <2>3, <2>4 DEF ObjectType
<1>2. \A h \in Handles : stmt[h].state \in States /\ stmt[h].columns \in Seq(Names)
  BY DEF IInv, Typed, StmtType
<1>3. /\ column.handle \in Handles \cup {NULL} /\ column.index \in Nat
      /\ column.name \in Names \cup {NULL} /\ schema \in Versions
  BY DEF IInv, Typed, ColumnType
<1> QED BY <1>1, <1>2, <1>3 DEF IInv, Owned, TypeOK

(* Every variable has its type, and a prepared statement is one            *)
(* Statement's and is finalized with the last who has it.                  *)
THEOREM TypeCorrect == Spec => []TypeOK
  BY Invariance, IInvMeansTypeOK, PTL

(* hasRow() and isDone() say what the prepared statement is at, whatever   *)
(* was moved, reset, stepped or destroyed before.                          *)
THEOREM FlagsAgree == Spec => []FlagsFollow
<1>1. IInv => FlagsFollow
  BY DEF IInv, Agrees, FlagsFollow
<1> QED BY <1>1, Invariance, PTL

(* A column asked for by name is the one of that name, as long as sqlite3  *)
(* has not compiled the statement anew.                                    *)
THEOREM NamesAgree == Spec => []NamedUnlessRecompiled
<1>1. IInv => NamedUnlessRecompiled
  BY DEF IInv, ColumnAgrees, NamedUnlessRecompiled
<1> QED BY <1>1, Invariance, PTL

(* A statement that has finished is not started again before it has been   *)
(* reset, whether it gives rows or has no columns at all: whoever could    *)
(* step it has its flag raised.                                            *)
THEOREM DoneStays == Spec => []DoneIsFinal
<1>1. Init => DoneIsFinal
  BY DEF Init, DoneIsFinal, Finalized
<1>2. ASSUME IInv, DoneIsFinal, Next PROVE DoneIsFinal'
  <2> SUFFICES ASSUME NEW h \in Handles PROVE ~stmt'[h].ranAgain
    BY DEF DoneIsFinal
  <2>1. ~stmt[h].ranAgain /\ stmt[h] \in StmtType
    BY <1>2 DEF DoneIsFinal, IInv, Typed
  <2>2. CASE ChangeSchema
    BY <2>1, <2>2 DEF ChangeSchema
  <2>3. ASSUME Release PROVE ~stmt'[h].ranAgain
    BY <2>1, <2>3 DEF Release, Finalized
  <2>4. ASSUME NEW o \in Objects, NEW g \in Handles, NEW q \in Queries, Prepare(o, g, q)
        PROVE  ~stmt'[h].ranAgain
    BY <1>2, <2>1, <2>4 DEF Prepare, IInv, Typed
  <2>5. ASSUME NEW o \in Objects, TryReset(o) PROVE ~stmt'[h].ranAgain
    BY <2>1, <2>5 DEF TryReset, StmtType
  <2>6. ASSUME NEW o \in Objects, TryExecuteStep(o) PROVE ~stmt'[h].ranAgain
    <3>1. CASE obj[o].handle = NULL
      BY <2>1, <2>6, <3>1 DEF TryExecuteStep
    <3>2. CASE obj[o].handle # NULL
      <4>1. PICK g \in Handles : obj[o].handle = g
        BY <1>2, <3>2 DEF IInv, Typed, ObjectType
      <4>2. stmt[g].state # "done"
        BY <1>2, <2>6, <3>2, <4>1 DEF TryExecuteStep, IInv, Agrees
      <4>3. \E result \in {"row", "done", "ready"} : stmt[g].state # "free" /\ SqliteStep(g, result)
        BY <1>2, <2>6, <3>2, <4>1 DEF TryExecuteStep, IInv, Owned
      <4>4. PICK st \in StmtType :
               /\ stmt' = [stmt EXCEPT ![g] = st]
               /\ st.ranAgain => stmt[g].ranAgain \/ stmt[g].state = "done"
        BY <1>2, <4>3, SqliteStepSays
      <4>5. ~stmt[g].ranAgain
        BY <1>2 DEF DoneIsFinal
      <4> QED BY <1>2, <2>1, <4>2, <4>4, <4>5 DEF IInv, Typed
    <3> QED BY <3>1, <3>2
  <2>7. ASSUME NEW o \in Objects,
               \/ GetColumnIndex(o) \/ GetColumn(o)
               \/ \E n \in Names : GetColumnByName(o, n)
               \/ \E to \in Objects : MoveConstruct(o, to)
        PROVE  stmt' = stmt
    BY <2>7 DEF GetColumnIndex, GetColumn, GetColumnByName, MoveConstruct
  <2> QED BY <1>2, <2>1, <2>2, <2>3, <2>4, <2>5, <2>6, <2>7
          DEF Next, DropColumn, MoveAssign, Destroy
<1>3. DoneIsFinal /\ UNCHANGED vars => DoneIsFinal'
  BY DEF DoneIsFinal, vars
<1> QED BY <1>1, <1>2, <1>3, Invariance, PTL DEF Spec

-----------------------------------------------------------------------------
(* Database: the Statements are used as any program may use them.          *)

LEMMA StepOfStatements == [DBNext]_allVars => [Next]_vars
<1> SUFFICES ASSUME DBNext PROVE [Next]_vars
  BY DEF allVars
<1>1. ASSUME NEW d \in Databases, Open(d) \/ DestroyDatabase(d) PROVE UNCHANGED vars
  BY <1>1 DEF Open, OpenConnection, DestroyDatabase
<1>2. ASSUME NEW d \in Databases, NEW e \in Databases,
             MoveDatabase(d, e) \/ AssignDatabase(d, e) \/ Backup(d, e) \/ BackupBegins(d, e)
      PROVE  UNCHANGED vars
  BY <1>2 DEF MoveDatabase, AssignDatabase, Backup, BackupBegins, OpenConnection
<1>3. ASSUME NEW d \in Databases, NEW o \in Objects, NEW h \in Handles, NEW q \in Queries,
             PrepareOn(d, o, h, q)
      PROVE  Next
  BY <1>3 DEF PrepareOn, Next
<1>4. ASSUME OpenSucceeds \/ OpenFails \/ FinishBackup \/ BackupInit \/ BackupInitFails
             \/ BackupFinishes \/ BackupCloses
      PROVE  UNCHANGED vars
  BY <1>4 DEF OpenSucceeds, OpenFails, FinishBackup, BackupInit, BackupInitFails, BackupFinishes,
              BackupCloses
<1>5. ASSUME NEW o \in Objects, NEW p \in Objects, MoveStatement(o, p) \/ AssignStatement(o, p)
      PROVE  Next
  BY <1>5 DEF MoveStatement, AssignStatement, Next
<1>6. ASSUME NEW o \in Objects, DestroyStatement(o) \/ UseStatement(o) PROVE Next
  BY <1>6 DEF DestroyStatement, UseStatement, Next
<1>7. ASSUME DestroyColumn \/ OtherChangesSchema PROVE Next
  BY <1>7 DEF DestroyColumn, OtherChangesSchema, Next
<1> QED BY <1>1, <1>2, <1>3, <1>4, <1>5, <1>6, <1>7 DEF DBNext

(* So what holds of Statements holds of them among Databases. *)
THEOREM StatementsAreUsed == DBSpec => Spec
<1>1. DBInit => Init
  BY DEF DBInit
<1> QED BY <1>1, StepOfStatements, PTL DEF DBSpec, Spec

(* The copies a Statement keeps follow sqlite3, whichever Database it was  *)
(* prepared on.                                                            *)
THEOREM CopiesAgree == DBSpec => []CopiesFollow
<1>1. FlagsFollow /\ NamedUnlessRecompiled => CopiesFollow
  BY DEF CopiesFollow
<1> QED BY <1>1, StatementsAreUsed, FlagsAgree, NamesAgree, PTL

(* And a finished statement is not started again before a reset. *)
THEOREM DatabaseDoneStays == DBSpec => []DoneIsFinal
  BY StatementsAreUsed, DoneStays, PTL

-----------------------------------------------------------------------------
(* The connections. *)

(* Outside a constructor every variable has a Database or none; the one    *)
(* that is being made, or serves backup(), has a connection which no       *)
(* statement uses, and no Backup while it may be closed.                   *)
AliveInv == \A d \in Databases : \/ db[d].alive \/ db[d] = NoDatabase
                                 \/ frame.pc = "open" /\ frame.other = d

FrameType == [pc : {"idle", "open", "init", "finish", "close"},
              other : Databases \cup {NULL}, this : Databases \cup {NULL}]

FrameInv ==
    /\ AliveInv
    /\ frame \in FrameType
    /\ frame.pc # "idle" => /\ frame.other \in Databases /\ db[frame.other].mSQLitePtr # NULL
                            /\ \A h \in Handles : of[h] # db[frame.other].mSQLitePtr
    /\ frame.pc \in {"init", "finish", "close"} => frame.this # NULL
    /\ frame.pc \in {"open", "init", "close"} => bkp.src # db[frame.other].mSQLitePtr

(* Whoever uses a connection uses one that is open. *)
UseInv ==
    /\ \A h \in Handles : of[h] \in opened \cup {NULL} /\ (stmt[h].state # "free" => of[h] # NULL)
    /\ \A o \in Objects : obj[o].handle # NULL => mpSQLite[o] = of[obj[o].handle]
    /\ bkp.src \in opened \cup {NULL} /\ (bkp # NoBackup => bkp.src # NULL)

DInv == DBTypeOK /\ FrameInv /\ UseInv /\ NoConnectionLost

(* At first there is nothing. *)
LEMMA InitDInv == DBInit => DInv
<1> SUFFICES ASSUME DBInit PROVE DInv
  OBVIOUS
<1>1. TypeOK
  BY InitIInv, IInvMeansTypeOK DEF DBInit
<1>2. DBTypeOK
  BY <1>1 DEF DBInit, DBTypeOK, NoDatabase, NoBackup, Idle
<1>3. FrameInv
  <2>1. frame.pc = "idle" /\ frame.this = NULL
    BY DEF DBInit, Idle
  <2>2. \A d \in Databases : db[d] = NoDatabase
    BY DEF DBInit
  <2>3. AliveInv
    BY <2>2 DEF AliveInv
  <2>4. frame \in FrameType
    BY DEF DBInit, Idle, FrameType
  <2> QED BY <2>1, <2>3, <2>4 DEF FrameInv
<1>4. UseInv
  BY DEF DBInit, Init, UseInv, NoBackup, Finalized, NoObject
<1>5. NoConnectionLost
  BY DEF DBInit, NoConnectionLost
<1> QED BY <1>2, <1>3, <1>4, <1>5 DEF DInv

-----------------------------------------------------------------------------
(* Steps of Databases and Backups leave the Statements alone.              *)

LEMMA OpenKeeps ==
    ASSUME DInv, TypeOK', NEW d \in Databases, NEW caller \in Databases \cup {NULL},
           OpenConnection(d, caller)
    PROVE  DInv'
<1>1. PICK c \in Connections \ opened :
        opened' = opened \cup {c} /\ db' = [db EXCEPT ![d].mSQLitePtr = c]
  BY DEF OpenConnection
<1>2. /\ frame' = [pc |-> "open", other |-> d, this |-> caller] /\ db[d] = NoDatabase
      /\ UNCHANGED <<obj, stmt, column, schema, of, mpSQLite, bkp, outlived>>
  BY DEF OpenConnection, vars
<1>3. /\ db'[d].mSQLitePtr = c /\ db'[d].alive = FALSE
      /\ \A e \in Databases \ {d} : db'[e] = db[e]
  BY <1>1, <1>2 DEF DInv, DBTypeOK, NoDatabase
<1>4. DBTypeOK'
  BY <1>1, <1>2, <1>3 DEF DInv, DBTypeOK
<1>5. FrameInv'
  <2>1. frame' \in FrameType
    BY <1>2 DEF FrameType
  <2>2. AliveInv'
    BY <1>2, <1>3 DEF DInv, FrameInv, AliveInv, OpenConnection
  <2>3. c # NULL /\ bkp.src # c /\ \A h \in Handles : of[h] # c
    BY <1>1, NullIsNoConnection DEF DInv, UseInv
  <2> QED BY <1>2, <1>3, <2>1, <2>2, <2>3 DEF FrameInv
<1>6. UseInv'
  BY <1>1, <1>2 DEF DInv, UseInv
<1>7. NoConnectionLost'
  BY <1>1, <1>2, <1>3, NullIsNoConnection DEF DInv, NoConnectionLost, NoDatabase, DBTypeOK
<1> QED BY <1>4, <1>5, <1>6, <1>7 DEF DInv

LEMMA OpenSucceedsKeeps == ASSUME DInv, TypeOK', OpenSucceeds PROVE DInv'
<1>1. /\ frame.pc = "open" /\ frame.other \in Databases
      /\ UNCHANGED <<obj, stmt, column, schema, opened, of, mpSQLite, bkp, outlived>>
  BY DEF OpenSucceeds, vars, DInv, FrameInv
<1>2. /\ db'[frame.other] = [db[frame.other] EXCEPT !.alive = TRUE]
      /\ db' \in [Databases -> [alive : BOOLEAN, mSQLitePtr : Connections \cup {NULL}]]
      /\ \A e \in Databases : db'[e].mSQLitePtr = db[e].mSQLitePtr
      /\ \A e \in Databases \ {frame.other} : db'[e] = db[e]
      /\ db'[frame.other].alive
  BY <1>1 DEF OpenSucceeds, DInv, DBTypeOK
<1>3. \/ frame.this = NULL /\ frame' = Idle
      \/ /\ frame.this # NULL /\ frame'.pc = "init"
         /\ frame'.other = frame.other /\ frame'.this = frame.this /\ frame' \in FrameType
  <2>1. CASE frame.this = NULL
    BY <2>1 DEF OpenSucceeds
  <2>2. CASE frame.this # NULL
    BY <2>2 DEF OpenSucceeds, DInv, FrameInv, FrameType
  <2> QED BY <2>1, <2>2
<1>4. DBTypeOK'
  BY <1>1, <1>2, <1>3 DEF DInv, DBTypeOK, Idle
<1>5. FrameInv'
  <2>1. AliveInv'
    BY <1>1, <1>2 DEF DInv, FrameInv, AliveInv
  <2>2. frame' \in FrameType /\ frame'.pc \in {"idle", "init"}
        /\ (frame'.pc = "init" => frame'.other = frame.other /\ frame'.this # NULL)
    BY <1>3 DEF Idle, FrameType
  <2> QED BY <1>1, <1>2, <2>1, <2>2 DEF DInv, FrameInv
<1>6. UseInv' /\ NoConnectionLost'
  BY <1>1, <1>2 DEF DInv, UseInv, NoConnectionLost
<1> QED BY <1>4, <1>5, <1>6 DEF DInv

(* A connection that nothing uses is closed, and its Database forgotten:   *)
(* what the constructor that throws and the end of backup() do.            *)
LEMMA CloseKeeps ==
    ASSUME DInv, TypeOK', OpenFails \/ BackupCloses
    PROVE  DInv'
<1> DEFINE c == db[frame.other].mSQLitePtr
<1>1. /\ frame.other \in Databases /\ c \in opened
      /\ \A h \in Handles : of[h] # c
      /\ bkp.src # c
  BY DEF OpenFails, BackupCloses, DInv, DBTypeOK, FrameInv
<1>2. /\ opened' = opened \ {c} /\ db' = [db EXCEPT ![frame.other] = NoDatabase] /\ frame' = Idle
      /\ UNCHANGED <<obj, stmt, column, schema, of, mpSQLite, bkp, outlived>>
  BY <1>1 DEF OpenFails, BackupCloses, CloseConnection, Used, vars
<1>3. /\ db'[frame.other] = NoDatabase
      /\ \A e \in Databases \ {frame.other} : db'[e] = db[e] /\ db[e].mSQLitePtr # c
      /\ \A e \in Databases : e = frame.other => db[e].mSQLitePtr = c
  BY <1>1, <1>2, NullIsNoConnection DEF DInv, DBTypeOK
<1> HIDE DEF c
<1>4. DBTypeOK'
  BY <1>2, <1>3 DEF DInv, DBTypeOK, Idle, NoDatabase
<1>5. FrameInv'
  <2>1. AliveInv'
    <3>1. ASSUME NEW d \in Databases, frame.pc # "open" \/ frame.other # d
          PROVE  db[d].alive \/ db[d] = NoDatabase
      BY <3>1 DEF DInv, FrameInv, AliveInv
    <3> QED BY <1>3, <3>1 DEF AliveInv
  <2>2. frame'.pc = "idle" /\ frame' \in FrameType
    BY <1>2 DEF Idle, FrameType
  <2> QED BY <2>1, <2>2 DEF FrameInv
<1>6. UseInv'
  BY <1>1, <1>2 DEF DInv, UseInv
<1>7. NoConnectionLost'
  BY <1>2, <1>3 DEF DInv, NoConnectionLost
<1> QED BY <1>4, <1>5, <1>6, <1>7 DEF DInv

LEMMA MoveDatabaseKeeps ==
    ASSUME DInv, TypeOK', NEW from \in Databases, NEW to \in Databases, MoveDatabase(from, to)
    PROVE  DInv'
<1>1. /\ frame.pc = "idle" /\ db[to] = NoDatabase /\ db[from].alive /\ from # to
      /\ UNCHANGED <<obj, stmt, column, schema, opened, of, mpSQLite, bkp, frame, outlived>>
  BY DEF MoveDatabase, vars, DInv, FrameInv, AliveInv
<1>2. /\ db'[to] = db[from] /\ db'[from] = [db[from] EXCEPT !.mSQLitePtr = NULL]
      /\ \A e \in Databases \ {from, to} : db'[e] = db[e]
      /\ db' \in [Databases -> [alive : BOOLEAN, mSQLitePtr : Connections \cup {NULL}]]
  BY <1>1 DEF MoveDatabase, DInv, DBTypeOK
<1>3. db'[from].mSQLitePtr = NULL /\ db'[from].alive /\ db'[to].alive /\ db[to].mSQLitePtr = NULL
  BY <1>1, <1>2 DEF DInv, DBTypeOK, NoDatabase
<1>4. DBTypeOK'
  <2>1. \A e \in Databases : db'[e].mSQLitePtr \in opened \cup {NULL}
    BY <1>2, <1>3 DEF DInv, DBTypeOK
  <2>2. \A d, e \in Databases : db'[d].mSQLitePtr = db'[e].mSQLitePtr /\ db'[d].mSQLitePtr # NULL => d = e
    <3>1. \A d, e \in Databases : db[d].mSQLitePtr = db[e].mSQLitePtr /\ db[d].mSQLitePtr # NULL => d = e
      BY DEF DInv, DBTypeOK
    <3>2. \A e \in Databases \ {from, to} : db'[e].mSQLitePtr = db[e].mSQLitePtr
      BY <1>2
    <3>3. db'[to].mSQLitePtr = db[from].mSQLitePtr
      BY <1>2
    <3> QED BY <1>3, <3>1, <3>2, <3>3
  <2> QED BY <1>1, <1>2, <2>1, <2>2 DEF DInv, DBTypeOK
<1>5. FrameInv'
  BY <1>1, <1>2, <1>3 DEF DInv, FrameInv, AliveInv
<1>6. UseInv'
  BY <1>1 DEF DInv, UseInv
<1>7. NoConnectionLost'
  BY <1>1, <1>2, <1>3, NullIsNoConnection DEF DInv, NoConnectionLost, DBTypeOK
<1> QED BY <1>4, <1>5, <1>6, <1>7 DEF DInv

(* The program lets a connection go: closed, or in use and outlived.       *)
LEMMA LetGoKeeps ==
    ASSUME DInv, NEW c \in Connections \cup {NULL}, LetGo(c), UNCHANGED <<stmt, obj, of, mpSQLite, bkp>>
    PROVE  /\ UseInv'
           /\ opened' \subseteq opened /\ opened \ {c} \subseteq opened'
           /\ outlived \subseteq outlived' /\ outlived' \subseteq Connections
           /\ c \in opened' => c \in outlived'
<1>1. CASE Used(c)
  BY <1>1, NullIsNoConnection DEF LetGo, CloseConnection, DInv, UseInv, DBTypeOK, Used
<1>2. CASE ~Used(c)
  <2>1. opened' = opened \ {c} /\ outlived' = outlived
    BY <1>2 DEF LetGo, CloseConnection
  <2>2. c # NULL => bkp.src # c /\ \A h \in Handles : of[h] # c
    BY <1>2 DEF Used
  <2> QED BY <2>1, <2>2, NullIsNoConnection DEF DInv, UseInv, DBTypeOK
<1> QED BY <1>1, <1>2

LEMMA AssignDatabaseKeeps ==
    ASSUME DInv, TypeOK', NEW from \in Databases, NEW to \in Databases, AssignDatabase(from, to)
    PROVE  DInv'
<1> DEFINE c == db[to].mSQLitePtr
<1>1. /\ frame.pc = "idle" /\ db[to].alive /\ db[from].alive /\ from # to /\ LetGo(c)
      /\ c \in Connections \cup {NULL}
      /\ UNCHANGED <<obj, stmt, column, schema, of, mpSQLite, bkp, frame>>
  BY DEF AssignDatabase, vars, DInv, DBTypeOK
<1>2. /\ db'[to] = db[from] /\ db'[from] = [db[from] EXCEPT !.mSQLitePtr = NULL]
      /\ \A e \in Databases \ {from, to} : db'[e] = db[e]
      /\ db' \in [Databases -> [alive : BOOLEAN, mSQLitePtr : Connections \cup {NULL}]]
  BY <1>1 DEF AssignDatabase, DInv, DBTypeOK
<1>3. db'[from].mSQLitePtr = NULL /\ db'[from].alive /\ db'[to].alive
  BY <1>1, <1>2 DEF DInv, DBTypeOK
<1>4. /\ UseInv'
      /\ opened' \subseteq opened /\ opened \ {c} \subseteq opened'
      /\ outlived \subseteq outlived' /\ outlived' \subseteq Connections
      /\ c \in opened' => c \in outlived'
  BY <1>1, LetGoKeeps
<1>5. \A e \in Databases \ {to} : db[e].mSQLitePtr \in (opened \ {c}) \cup {NULL}
  BY DEF DInv, DBTypeOK
<1>6. DBTypeOK'
  <2>1. \A e \in Databases : db'[e].mSQLitePtr \in opened' \cup {NULL}
    BY <1>1, <1>2, <1>3, <1>4, <1>5
  <2>2. \A d, e \in Databases : db'[d].mSQLitePtr = db'[e].mSQLitePtr /\ db'[d].mSQLitePtr # NULL => d = e
    BY <1>1, <1>2, <1>3 DEF DInv, DBTypeOK
  <2> QED BY <1>1, <1>2, <1>4, <2>1, <2>2 DEF DInv, DBTypeOK
<1>7. FrameInv'
  BY <1>1, <1>2, <1>3 DEF DInv, FrameInv, AliveInv
<1>8. NoConnectionLost'
  <2> SUFFICES ASSUME NEW k \in opened', k \notin outlived'
               PROVE  \E d \in Databases : db'[d].mSQLitePtr = k
    BY DEF NoConnectionLost
  <2>1. k # c /\ k \in opened /\ k # NULL
    BY <1>4, NullIsNoConnection DEF DInv, DBTypeOK
  <2>2. PICK d \in Databases : db[d].mSQLitePtr = k
    BY <1>4, <2>1 DEF DInv, NoConnectionLost
  <2>3. d # to
    BY <2>1, <2>2
  <2>4. CASE d = from
    BY <1>2, <2>2, <2>4
  <2>5. CASE d # from
    BY <1>2, <2>2, <2>3, <2>5
  <2> QED BY <2>4, <2>5
<1> QED BY <1>4, <1>6, <1>7, <1>8 DEF DInv

LEMMA DestroyDatabaseKeeps ==
    ASSUME DInv, TypeOK', NEW to \in Databases, DestroyDatabase(to)
    PROVE  DInv'
<1> DEFINE c == db[to].mSQLitePtr
<1>1. /\ frame.pc = "idle" /\ LetGo(c) /\ c \in Connections \cup {NULL}
      /\ UNCHANGED <<obj, stmt, column, schema, of, mpSQLite, bkp, frame>>
  BY DEF DestroyDatabase, vars, DInv, DBTypeOK
<1>2. /\ db'[to] = NoDatabase /\ \A e \in Databases \ {to} : db'[e] = db[e]
      /\ db' \in [Databases -> [alive : BOOLEAN, mSQLitePtr : Connections \cup {NULL}]]
  BY <1>1 DEF DestroyDatabase, DInv, DBTypeOK, NoDatabase
<1>3. db'[to].mSQLitePtr = NULL
  BY <1>2 DEF NoDatabase
<1>4. /\ UseInv'
      /\ opened' \subseteq opened /\ opened \ {c} \subseteq opened'
      /\ outlived \subseteq outlived' /\ outlived' \subseteq Connections
      /\ c \in opened' => c \in outlived'
  BY <1>1, LetGoKeeps
<1>5. \A e \in Databases \ {to} : db[e].mSQLitePtr \in (opened \ {c}) \cup {NULL}
  BY DEF DInv, DBTypeOK
<1>6. DBTypeOK'
  <2>1. \A e \in Databases : db'[e].mSQLitePtr \in opened' \cup {NULL}
    BY <1>2, <1>3, <1>4, <1>5
  <2>2. \A d, e \in Databases : db'[d].mSQLitePtr = db'[e].mSQLitePtr /\ db'[d].mSQLitePtr # NULL => d = e
    BY <1>2, <1>3 DEF DInv, DBTypeOK
  <2> QED BY <1>1, <1>2, <1>4, <2>1, <2>2 DEF DInv, DBTypeOK
<1>7. FrameInv'
  BY <1>1, <1>2 DEF DInv, FrameInv, AliveInv
<1>8. NoConnectionLost'
  <2> SUFFICES ASSUME NEW k \in opened', k \notin outlived'
               PROVE  \E d \in Databases : db'[d].mSQLitePtr = k
    BY DEF NoConnectionLost
  <2>1. k # c /\ k \in opened
    BY <1>4
  <2>2. PICK d \in Databases : db[d].mSQLitePtr = k
    BY <1>4, <2>1 DEF DInv, NoConnectionLost
  <2> QED BY <1>2, <2>1, <2>2
<1> QED BY <1>4, <1>6, <1>7, <1>8 DEF DInv

(* Steps in which a Backup comes or goes and no connection does.           *)
LEMMA BackupKeeps ==
    ASSUME DInv, TypeOK',
           \/ \E from, to \in Databases : Backup(from, to)
           \/ FinishBackup \/ BackupInit \/ BackupInitFails \/ BackupFinishes
    PROVE  DInv'
<1>1. UNCHANGED <<obj, stmt, column, schema, db, opened, of, mpSQLite, outlived>>
  BY DEF Backup, FinishBackup, BackupInit, BackupInitFails, BackupFinishes, vars
<1>2. \/ bkp' = bkp \/ bkp' = NoBackup
      \/ \E d, e \in Databases : StartBackup(db[d].mSQLitePtr, db[e].mSQLitePtr)
  <2>1. CASE BackupInit
    <3>1. frame.this \in Databases /\ frame.other \in Databases
      BY <2>1 DEF BackupInit, DInv, FrameInv, FrameType
    <3> QED BY <2>1, <3>1 DEF BackupInit
  <2> QED BY <2>1 DEF Backup, FinishBackup, BackupInitFails, BackupFinishes
<1>3. /\ bkp' \in [src : Connections \cup {NULL}, dest : Connections \cup {NULL}]
      /\ bkp'.src \in opened \cup {NULL} /\ (bkp' # NoBackup => bkp'.src # NULL)
  <2>1. CASE bkp' = bkp
    BY <2>1 DEF DInv, DBTypeOK, UseInv
  <2>2. CASE bkp' = NoBackup
    BY <2>2 DEF NoBackup
  <2>3. ASSUME NEW d \in Databases, NEW e \in Databases, StartBackup(db[d].mSQLitePtr, db[e].mSQLitePtr)
        PROVE  /\ bkp' \in [src : Connections \cup {NULL}, dest : Connections \cup {NULL}]
               /\ bkp'.src \in opened \cup {NULL} /\ bkp'.src # NULL
    BY <2>3 DEF StartBackup, DInv, DBTypeOK
  <2> QED BY <1>2, <2>1, <2>2, <2>3
<1>4. /\ frame' \in FrameType
      /\ frame' = frame \/ (frame'.other = frame.other /\ frame'.this = frame.this)
      /\ frame.pc = "idle" => frame' = frame
      /\ frame'.pc \in {"idle", "open", "init", "finish", "close"}
      /\ frame.pc # "open"
      /\ frame.pc # "idle" => frame'.pc \in {"finish", "close"} /\ frame.pc \in {"init", "finish"}
      /\ frame'.pc = "close" => bkp' = NoBackup \/ (bkp' = bkp /\ frame.pc = "init")
  <2>1. CASE FinishBackup \/ \E from, to \in Databases : Backup(from, to)
    <3>1. frame.pc = "idle" /\ frame' = frame
      BY <2>1 DEF FinishBackup, Backup
    <3> QED BY <3>1 DEF DInv, FrameInv, FrameType
  <2>2. CASE BackupInit
    <3>1. frame.pc = "init" /\ frame' = [frame EXCEPT !.pc = "finish"]
      BY <2>2 DEF BackupInit
    <3> QED BY <3>1 DEF DInv, FrameInv, FrameType
  <2>3. CASE BackupInitFails
    <3>1. frame.pc = "init" /\ frame' = [frame EXCEPT !.pc = "close"] /\ bkp' = bkp
      BY <2>3 DEF BackupInitFails
    <3> QED BY <3>1 DEF DInv, FrameInv, FrameType
  <2>4. CASE BackupFinishes
    <3>1. frame.pc = "finish" /\ frame' = [frame EXCEPT !.pc = "close"] /\ bkp' = NoBackup
      BY <2>4 DEF BackupFinishes
    <3> QED BY <3>1 DEF DInv, FrameInv, FrameType
  <2> QED BY <2>1, <2>2, <2>3, <2>4
<1>5. DBTypeOK'
  BY <1>1, <1>3, <1>4 DEF DInv, DBTypeOK
<1>6. FrameInv'
  <2>1. AliveInv'
    BY <1>1, <1>4 DEF DInv, FrameInv, AliveInv
  <2>2. CASE frame.pc = "idle"
    BY <1>1, <1>4, <2>1, <2>2 DEF DInv, FrameInv
  <2>3. CASE frame.pc # "idle"
    <3>1. bkp'.src # db[frame.other].mSQLitePtr \/ frame'.pc # "close"
      BY <1>4, <2>3 DEF NoBackup, DInv, FrameInv
    <3> QED BY <1>1, <1>4, <2>1, <2>3, <3>1 DEF DInv, FrameInv
  <2> QED BY <2>2, <2>3
<1>7. UseInv' /\ NoConnectionLost'
  BY <1>1, <1>3 DEF DInv, UseInv, NoConnectionLost
<1> QED BY <1>5, <1>6, <1>7 DEF DInv
-----------------------------------------------------------------------------
(* Steps of Statements leave the Databases alone.                          *)

LEMMA StatementsKeep ==
    ASSUME DInv, TypeOK', StatementOnly,
           of' \in [Handles -> Connections \cup {NULL}],
           mpSQLite' \in [Objects -> Connections \cup {NULL}],
           \A h \in Handles : of'[h] \in opened \cup {NULL} /\ (stmt'[h].state # "free" => of'[h] # NULL),
           \A o \in Objects : obj'[o].handle # NULL => mpSQLite'[o] = of'[obj'[o].handle]
    PROVE  DInv'
<1>1. UNCHANGED <<db, opened, bkp, frame, outlived>> /\ frame.pc = "idle"
  BY DEF StatementOnly
<1>2. DBTypeOK'
  BY <1>1 DEF DInv, DBTypeOK
<1>3. FrameInv'
  <2>1. AliveInv'
    BY <1>1 DEF DInv, FrameInv, AliveInv
  <2> QED BY <1>1, <2>1 DEF DInv, FrameInv
<1>4. UseInv' /\ NoConnectionLost'
  BY <1>1 DEF DInv, UseInv, NoConnectionLost
<1> QED BY <1>2, <1>3, <1>4 DEF DInv

(* What is still prepared keeps its connection.                            *)
LEMMA DisownKeeps ==
    ASSUME DInv, Disown, \A h \in Handles : stmt'[h].state # "free" => stmt[h].state # "free"
    PROVE  /\ of' \in [Handles -> Connections \cup {NULL}]
           /\ \A h \in Handles : /\ of'[h] \in opened \cup {NULL}
                                 /\ stmt'[h].state # "free" => of'[h] = of[h] /\ of'[h] # NULL
  BY DEF Disown, DInv, DBTypeOK, UseInv

LEMMA ReleaseLeaves ==
    ASSUME Release
    PROVE  \A h \in Handles : stmt'[h].state # "free" => stmt[h].state # "free"
  BY DEF Release, Finalized

(* The handle of an object is that of a prepared statement.                *)
LEMMA HandleIsPrepared ==
    ASSUME TypeOK, NEW o \in Objects, obj[o].handle # NULL
    PROVE  obj[o].handle \in Handles /\ stmt[obj[o].handle].state # "free"
  BY DEF TypeOK

LEMMA PrepareOnKeeps ==
    ASSUME DInv, IInv, TypeOK', NEW d \in Databases, NEW o \in Objects, NEW h \in Handles,
           NEW q \in Queries, PrepareOn(d, o, h, q)
    PROVE  DInv'
<1> DEFINE c == db[d].mSQLitePtr
<1>1. c \in opened /\ c \in Connections /\ c # NULL
  BY DEF PrepareOn, DInv, DBTypeOK
<1>2. of' = [of EXCEPT ![h] = c] /\ mpSQLite' = [mpSQLite EXCEPT ![o] = c] /\ StatementOnly
  BY DEF PrepareOn
<1>3. /\ obj'[o].handle = h /\ stmt[h].state = "free"
      /\ \A p \in Objects \ {o} : obj'[p] = obj[p]
      /\ \A g \in Handles \ {h} : stmt'[g] = stmt[g]
  BY DEF PrepareOn, Prepare, NoObject, IInv, Typed
<1>4. \A p \in Objects : obj[p].handle # h
  BY <1>3 DEF IInv, Owned
<1> HIDE DEF c
<1>5. /\ of' \in [Handles -> Connections \cup {NULL}]
      /\ mpSQLite' \in [Objects -> Connections \cup {NULL}]
      /\ of'[h] = c /\ mpSQLite'[o] = c
      /\ \A g \in Handles \ {h} : of'[g] = of[g]
      /\ \A p \in Objects \ {o} : mpSQLite'[p] = mpSQLite[p]
  BY <1>1, <1>2 DEF DInv, DBTypeOK
<1>6. \A g \in Handles : of'[g] \in opened \cup {NULL} /\ (stmt'[g].state # "free" => of'[g] # NULL)
  BY <1>1, <1>3, <1>5 DEF DInv, UseInv
<1>7. ASSUME NEW p \in Objects, obj'[p].handle # NULL
      PROVE  mpSQLite'[p] = of'[obj'[p].handle]
  <2>1. CASE p = o
    BY <1>3, <1>5, <2>1
  <2>2. CASE p # o
    <3>1. obj[p].handle \in Handles \ {h} /\ mpSQLite[p] = of[obj[p].handle]
      BY <1>3, <1>4, <1>7, <2>2, IInvMeansTypeOK, HandleIsPrepared DEF DInv, UseInv
    <3> QED BY <1>3, <1>5, <2>2, <3>1
  <2> QED BY <2>1, <2>2
<1> QED BY <1>2, <1>5, <1>6, <1>7, StatementsKeep

LEMMA MoveStatementKeeps ==
    ASSUME DInv, IInv, TypeOK', NEW from \in Objects, NEW to \in Objects, MoveStatement(from, to)
    PROVE  DInv'
<1>1. /\ StatementOnly /\ of' = of /\ stmt' = stmt /\ from # to
      /\ obj' \in [Objects -> ObjectType]
      /\ obj'[to] = obj[from] /\ obj'[from].handle = NULL
      /\ \A p \in Objects \ {from, to} : obj'[p] = obj[p]
  BY MoveConstructKeeps DEF MoveStatement, MoveConstruct, NoObject, IInv, Typed
<1>2. /\ mpSQLite' \in [Objects -> Connections \cup {NULL}] /\ mpSQLite'[to] = mpSQLite[from]
      /\ \A p \in Objects \ {from, to} : mpSQLite'[p] = mpSQLite[p]
  BY <1>1 DEF MoveStatement, DInv, DBTypeOK
<1>3. \A p \in Objects : obj'[p].handle # NULL => mpSQLite'[p] = of[obj'[p].handle]
  BY <1>1, <1>2 DEF DInv, UseInv
<1>4. /\ of' \in [Handles -> Connections \cup {NULL}]
      /\ \A h \in Handles : of'[h] \in opened \cup {NULL} /\ (stmt'[h].state # "free" => of'[h] # NULL)
  BY <1>1 DEF DInv, DBTypeOK, UseInv
<1> QED BY <1>1, <1>2, <1>3, <1>4, StatementsKeep

LEMMA AssignStatementKeeps ==
    ASSUME DInv, IInv, TypeOK', NEW from \in Objects, NEW to \in Objects, AssignStatement(from, to)
    PROVE  DInv'
<1>1. /\ StatementOnly /\ Disown /\ Release /\ from # to
      /\ obj'[to] = obj[from] /\ obj'[from].handle = NULL
      /\ \A p \in Objects \ {from, to} : obj'[p] = obj[p]
  BY DEF AssignStatement, MoveAssign, IInv, Typed, ObjectType
<1>2. /\ mpSQLite' \in [Objects -> Connections \cup {NULL}] /\ mpSQLite'[to] = mpSQLite[from]
      /\ \A p \in Objects \ {from, to} : mpSQLite'[p] = mpSQLite[p]
  BY <1>1 DEF AssignStatement, DInv, DBTypeOK
<1>3. /\ of' \in [Handles -> Connections \cup {NULL}]
      /\ \A h \in Handles : /\ of'[h] \in opened \cup {NULL}
                            /\ stmt'[h].state # "free" => of'[h] = of[h] /\ of'[h] # NULL
  BY <1>1, DisownKeeps, ReleaseLeaves
<1>4. ASSUME NEW p \in Objects, obj'[p].handle # NULL PROVE mpSQLite'[p] = of'[obj'[p].handle]
  <2>1. obj'[p].handle \in Handles /\ stmt'[obj'[p].handle].state # "free"
    BY <1>4 DEF TypeOK
  <2>2. mpSQLite'[p] = of[obj'[p].handle]
    BY <1>1, <1>2, <1>4 DEF DInv, UseInv
  <2> QED BY <1>3, <2>1, <2>2
<1> QED BY <1>1, <1>2, <1>3, <1>4, StatementsKeep

LEMMA DestroyStatementKeeps ==
    ASSUME DInv, IInv, TypeOK', NEW o \in Objects, DestroyStatement(o)
    PROVE  DInv'
<1>1. /\ StatementOnly /\ Disown /\ Release
      /\ obj'[o].handle = NULL
      /\ \A p \in Objects \ {o} : obj'[p] = obj[p]
  BY DEF DestroyStatement, Destroy, NoObject, IInv, Typed
<1>2. /\ mpSQLite' \in [Objects -> Connections \cup {NULL}]
      /\ \A p \in Objects \ {o} : mpSQLite'[p] = mpSQLite[p]
  BY <1>1 DEF DestroyStatement, DInv, DBTypeOK
<1>3. /\ of' \in [Handles -> Connections \cup {NULL}]
      /\ \A h \in Handles : /\ of'[h] \in opened \cup {NULL}
                            /\ stmt'[h].state # "free" => of'[h] = of[h] /\ of'[h] # NULL
  BY <1>1, DisownKeeps, ReleaseLeaves
<1>4. ASSUME NEW p \in Objects, obj'[p].handle # NULL PROVE mpSQLite'[p] = of'[obj'[p].handle]
  <2>1. obj'[p].handle \in Handles /\ stmt'[obj'[p].handle].state # "free"
    BY <1>4 DEF TypeOK
  <2>2. mpSQLite'[p] = of[obj'[p].handle]
    BY <1>1, <1>2, <1>4 DEF DInv, UseInv
  <2> QED BY <1>3, <2>1, <2>2
<1> QED BY <1>1, <1>2, <1>3, <1>4, StatementsKeep

LEMMA DestroyColumnKeeps == ASSUME DInv, TypeOK', DestroyColumn PROVE DInv'
<1>1. StatementOnly /\ Disown /\ Release /\ obj' = obj /\ mpSQLite' = mpSQLite
  BY DEF DestroyColumn, DropColumn
<1>2. /\ of' \in [Handles -> Connections \cup {NULL}]
      /\ \A h \in Handles : /\ of'[h] \in opened \cup {NULL}
                            /\ stmt'[h].state # "free" => of'[h] = of[h] /\ of'[h] # NULL
  BY <1>1, DisownKeeps, ReleaseLeaves
<1>3. ASSUME NEW p \in Objects, obj'[p].handle # NULL PROVE mpSQLite'[p] = of'[obj'[p].handle]
  <2>1. obj'[p].handle \in Handles /\ stmt'[obj'[p].handle].state # "free"
    BY <1>3 DEF TypeOK
  <2> QED BY <1>1, <1>2, <1>3, <2>1 DEF DInv, UseInv
<1>4. mpSQLite' \in [Objects -> Connections \cup {NULL}]
  BY <1>1 DEF DInv, DBTypeOK
<1> QED BY <1>1, <1>2, <1>3, <1>4, StatementsKeep

(* Using a Statement prepares and finalizes nothing.                       *)
LEMMA UseStatementKeeps ==
    ASSUME DInv, IInv, TypeOK', NEW o \in Objects, UseStatement(o)
    PROVE  DInv'
<1>1. StatementOnly /\ of' = of /\ mpSQLite' = mpSQLite
  BY DEF UseStatement
<1>2. /\ \A p \in Objects : obj'[p].handle = obj[p].handle
      /\ column'.handle = column.handle \/ (column'.handle = obj[o].handle /\ obj[o].handle # NULL)
  <2>1. CASE TryReset(o)
    BY <2>1 DEF TryReset, IInv, Typed, ObjectType
  <2>2. CASE TryExecuteStep(o)
    <3>1. column' = column
      BY <2>2 DEF TryExecuteStep
    <3>2. \A p \in Objects : obj'[p].handle = obj[p].handle
      BY <2>2 DEF TryExecuteStep, IInv, Typed, ObjectType
    <3> QED BY <3>1, <3>2
  <2>3. ASSUME NEW n, GetColumnIndex(o) \/ GetColumn(o) \/ GetColumnByName(o, n)
        PROVE  /\ \A p \in Objects : obj'[p].handle = obj[p].handle
               /\ column'.handle = column.handle \/ (column'.handle = obj[o].handle /\ obj[o].handle # NULL)
    BY <2>3 DEF GetColumnIndex, GetColumn, GetColumnByName, IInv, Typed, ObjectType
  <2> QED BY <2>1, <2>2, <2>3 DEF UseStatement
<1>3. ASSUME NEW h \in Handles, stmt'[h].state # "free" PROVE stmt[h].state # "free"
  <2>1. column'.handle = h \/ \E p \in Objects : obj'[p].handle = h
    BY <1>3 DEF TypeOK
  <2> QED BY <1>2, <2>1 DEF IInv, Owned
<1>4. /\ of' \in [Handles -> Connections \cup {NULL}]
      /\ mpSQLite' \in [Objects -> Connections \cup {NULL}]
      /\ \A h \in Handles : of'[h] \in opened \cup {NULL} /\ (stmt'[h].state # "free" => of'[h] # NULL)
  BY <1>1, <1>3 DEF DInv, DBTypeOK, UseInv
<1>5. \A p \in Objects : obj'[p].handle # NULL => mpSQLite'[p] = of'[obj'[p].handle]
  BY <1>1, <1>2 DEF DInv, UseInv
<1> QED BY <1>1, <1>4, <1>5, StatementsKeep

LEMMA OtherChangesSchemaKeeps == ASSUME DInv, TypeOK', OtherChangesSchema PROVE DInv'
<1>1. UNCHANGED <<obj, stmt, column, db, opened, of, mpSQLite, bkp, frame, outlived>>
  BY DEF OtherChangesSchema, ChangeSchema, dbVars
<1>2. DBTypeOK'
  BY <1>1 DEF DInv, DBTypeOK
<1>3. FrameInv'
  BY <1>1 DEF DInv, FrameInv, AliveInv
<1> QED BY <1>1, <1>2, <1>3 DEF DInv, UseInv, NoConnectionLost

-----------------------------------------------------------------------------
LEMMA StepDInv == DInv /\ IInv /\ TypeOK' /\ [DBNext]_allVars => DInv'
<1> SUFFICES ASSUME DInv, IInv, TypeOK', [DBNext]_allVars PROVE DInv'
  OBVIOUS
<1>1. CASE UNCHANGED allVars
  <2>1. UNCHANGED <<obj, stmt, column, schema, db, opened, of, mpSQLite, bkp, frame, outlived>>
    BY <1>1 DEF allVars, vars, dbVars
  <2>2. DBTypeOK'
    BY <2>1 DEF DInv, DBTypeOK
  <2>3. FrameInv'
    BY <2>1 DEF DInv, FrameInv, AliveInv
  <2> QED BY <2>1, <2>2, <2>3 DEF DInv, UseInv, NoConnectionLost
<1>2. ASSUME NEW d \in Databases, Open(d) \/ DestroyDatabase(d) PROVE DInv'
  BY <1>2, OpenKeeps, DestroyDatabaseKeeps DEF Open
<1>3. ASSUME NEW d \in Databases, NEW e \in Databases, MoveDatabase(d, e) \/ AssignDatabase(d, e)
      PROVE  DInv'
  BY <1>3, MoveDatabaseKeeps, AssignDatabaseKeeps
<1>4. ASSUME NEW d \in Databases, NEW e \in Databases, BackupBegins(d, e) PROVE DInv'
  BY <1>4, OpenKeeps DEF BackupBegins
<1>5. CASE \/ \E from, to \in Databases : Backup(from, to)
           \/ FinishBackup \/ BackupInit \/ BackupInitFails \/ BackupFinishes
  BY <1>5, BackupKeeps
<1>6. CASE OpenSucceeds \/ OpenFails \/ BackupCloses
  BY <1>6, OpenSucceedsKeeps, CloseKeeps
<1>7. ASSUME NEW d \in Databases, NEW o \in Objects, NEW h \in Handles, NEW q \in Queries,
             PrepareOn(d, o, h, q)
      PROVE  DInv'
  BY <1>7, PrepareOnKeeps
<1>8. ASSUME NEW o \in Objects, NEW p \in Objects, MoveStatement(o, p) \/ AssignStatement(o, p)
      PROVE  DInv'
  BY <1>8, MoveStatementKeeps, AssignStatementKeeps
<1>9. ASSUME NEW o \in Objects, DestroyStatement(o) \/ UseStatement(o) PROVE DInv'
  BY <1>9, DestroyStatementKeeps, UseStatementKeeps
<1>10. CASE DestroyColumn \/ OtherChangesSchema
  BY <1>10, DestroyColumnKeeps, OtherChangesSchemaKeeps
<1> QED BY <1>1, <1>2, <1>3, <1>4, <1>5, <1>6, <1>7, <1>8, <1>9, <1>10 DEF DBNext

THEOREM DatabaseInvariance == DBSpec => []DInv
<1>1. DBInit => DInv
  BY InitDInv
<1>2. DInv /\ IInv /\ TypeOK' /\ [DBNext]_allVars => DInv'
  BY StepDInv
<1> QED BY <1>1, <1>2, StatementsAreUsed, Invariance, TypeCorrect, PTL DEF DBSpec

(* A connection has one Database at most, and is open as long as it has    *)
(* one, whatever is moved, assigned, copied from or destroyed.             *)
THEOREM DBTypeCorrect == DBSpec => []DBTypeOK
<1>1. DInv => DBTypeOK
  BY DEF DInv
<1> QED BY <1>1, DatabaseInvariance, PTL

(* The connection of a prepared statement is open, and is the one its      *)
(* Statement looks at; the source of a Backup is open.                     *)
THEOREM ConnectionsOutlive == DBSpec => []ConnectionOutlivesUse
<1>1. DInv => ConnectionOutlivesUse
  BY DEF DInv, UseInv, ConnectionOutlivesUse
<1> QED BY <1>1, DatabaseInvariance, PTL

(* No connection stays open without a Database, unless something used it   *)
(* when the program let its Database go.                                   *)
THEOREM ConnectionsAccounted == DBSpec => []NoConnectionLost
<1>1. DInv => NoConnectionLost
  BY DEF DInv
<1> QED BY <1>1, DatabaseInvariance, PTL
=============================================================================
