---------------------------- MODULE INIMapProofs ----------------------------
(***************************************************************************)
(* Theorems about INIMap, for every set of maps, keys and values.          *)
(*                                                                         *)
(* The invariant is about one map at a time: Matches relates its vector    *)
(* and its index.  There is a lemma for what each operation does to the    *)
(* two, and a step for each action that cites it.                          *)
(***************************************************************************)
EXTENDS INIMap, TLAPS, SequenceTheorems

(* The vector d and the index x say the same. *)
Matches(d, x) ==
    /\ d \in Seq(Item)
    /\ DOMAIN x \subseteq Keys
    /\ \A k \in DOMAIN x : x[k] \in 0..(Len(d) - 1) /\ d[x[k] + 1].first = k
    /\ \A i \in 1..Len(d) : d[i].first \in DOMAIN x /\ x[d[i].first] = i - 1

IInv == /\ DOMAIN data = Objects /\ DOMAIN dataIndexMap = Objects
        /\ \A o \in Objects : Matches(data[o], dataIndexMap[o])

-----------------------------------------------------------------------------
(* What the operations do to a vector and its index. *)

(* The empty vector matches the empty index. *)
LEMMA EmptyMatches == Matches(<<>>, <<>>)
  BY DEF Matches

(* A pair with a new key at the end, and its position in the index.        *)
LEMMA AppendMatches ==
  ASSUME NEW d, NEW x, NEW k \in Keys, NEW v \in Values,
         Matches(d, x), k \notin DOMAIN x
  PROVE  Matches(Append(d, [first |-> k, second |-> v]), Extend(x, k, Len(d)))
<1> DEFINE e == [first |-> k, second |-> v]
           dd == Append(d, e)
           xx == Extend(x, k, Len(d))
<1>1. d \in Seq(Item) /\ e \in Item /\ Len(d) \in Nat
  BY DEF Matches, Item
<1>2. /\ dd \in Seq(Item) /\ Len(dd) = Len(d) + 1
      /\ dd[Len(d) + 1] = e
      /\ \A i \in 1..Len(d) : dd[i] = d[i]
  BY <1>1
<1>3. /\ DOMAIN xx = DOMAIN x \cup {k}
      /\ xx[k] = Len(d)
      /\ \A j \in DOMAIN x : xx[j] = x[j]
  BY DEF Matches, Extend
<1>4. ASSUME NEW j \in DOMAIN xx
      PROVE  xx[j] \in 0..(Len(dd) - 1) /\ dd[xx[j] + 1].first = j
  <2>1. CASE j = k
    BY <2>1, <1>1, <1>2, <1>3
  <2>2. CASE j \in DOMAIN x
    BY <2>2, <1>1, <1>2, <1>3 DEF Matches
  <2> QED BY <2>1, <2>2, <1>3
<1>5. ASSUME NEW i \in 1..Len(dd)
      PROVE  dd[i].first \in DOMAIN xx /\ xx[dd[i].first] = i - 1
  <2>1. CASE i = Len(d) + 1
    BY <2>1, <1>1, <1>2, <1>3
  <2>2. CASE i \in 1..Len(d)
    BY <2>2, <1>1, <1>2, <1>3 DEF Matches
  <2> QED BY <2>1, <2>2, <1>1, <1>2
<1> HIDE DEF dd, xx
<1>6. DOMAIN xx \subseteq Keys
  BY <1>3 DEF Matches
<1>7. Matches(dd, xx)
  BY <1>2, <1>4, <1>5, <1>6 DEF Matches
<1> QED BY <1>7 DEF dd, xx

(* Another value at the same place changes neither keys nor positions.     *)
LEMMA AssignMatches ==
  ASSUME NEW d, NEW x, NEW p \in 1..Len(d), NEW v \in Values, Matches(d, x)
  PROVE  Matches([d EXCEPT ![p].second = v], x)
<1> DEFINE dd == [d EXCEPT ![p].second = v]
<1>1. d \in Seq(Item) /\ Len(d) \in Nat
  BY DEF Matches
<1>2. \A i \in 1..Len(d) : d[i] \in Item
  BY <1>1
<1>3. \A e \in Item : /\ [e EXCEPT !.second = v] \in Item
                      /\ [e EXCEPT !.second = v].first = e.first
  BY DEF Item
<1>4. [d[p] EXCEPT !.second = v] \in Item
  BY <1>2, <1>3
<1>5. dd \in Seq(Item) /\ Len(dd) = Len(d)
  BY <1>1, <1>4
<1>6. \A i \in 1..Len(d) : dd[i].first = d[i].first
  BY <1>1, <1>2, <1>3
<1> HIDE DEF dd
<1>7. \A k \in DOMAIN x : x[k] \in 0..(Len(dd) - 1) /\ x[k] + 1 \in 1..Len(d)
  BY <1>1, <1>5 DEF Matches
<1>8. \A k \in DOMAIN x : dd[x[k] + 1].first = k
  BY <1>6, <1>7 DEF Matches
<1>9. \A i \in 1..Len(dd) : dd[i].first \in DOMAIN x /\ x[dd[i].first] = i - 1
  BY <1>5, <1>6 DEF Matches
<1>10. Matches(dd, x)
  BY <1>5, <1>7, <1>8, <1>9 DEF Matches
<1> QED BY <1>10 DEF dd

(* Erasing a key's pair and moving up the positions behind it.             *)
LEMMA EraseMatches ==
  ASSUME NEW d, NEW x, NEW k \in DOMAIN x, Matches(d, x)
  PROVE  Matches(Erase(d, x[k]), Unindex(x, k))
<1> DEFINE dd == Erase(d, x[k])
           xx == Unindex(x, k)
<1>1. /\ d \in Seq(Item) /\ Len(d) \in Nat
      /\ x[k] \in 0..(Len(d) - 1) /\ d[x[k] + 1].first = k
      /\ \A j \in DOMAIN x : x[j] \in 0..(Len(d) - 1) /\ d[x[j] + 1].first = j
      /\ \A i \in 1..Len(d) : d[i] \in Item
  BY DEF Matches
<1>2. Len(d) - 1 \in Nat
  BY <1>1
<1>3. ASSUME NEW i \in 1..(Len(d) - 1)
      PROVE  /\ i <= x[k] => dd[i] = d[i]
             /\ i > x[k] => dd[i] = d[i + 1]
             /\ dd[i] \in Item
  BY <1>1, <1>3 DEF Erase
<1>4. dd \in Seq(Item) /\ Len(dd) = Len(d) - 1
  <2>1. dd = [i \in 1..(Len(d) - 1) |-> dd[i]]
    BY DEF Erase
  <2> HIDE DEF dd
  <2> QED BY <2>1, <1>2, <1>3
<1>5. DOMAIN xx = DOMAIN x \ {k}
  BY DEF Unindex
<1>6. ASSUME NEW j \in DOMAIN xx
      PROVE  /\ x[j] > x[k] => xx[j] = x[j] - 1
             /\ x[j] < x[k] => xx[j] = x[j]
             /\ x[j] # x[k]
  BY <1>1, <1>5, <1>6 DEF Unindex
<1> HIDE DEF dd, xx
<1>7. ASSUME NEW j \in DOMAIN xx
      PROVE  xx[j] \in 0..(Len(dd) - 1) /\ dd[xx[j] + 1].first = j
  <2>1. j \in DOMAIN x /\ x[j] \in 0..(Len(d) - 1) /\ d[x[j] + 1].first = j
    BY <1>1, <1>5
  <2>2. CASE x[j] > x[k]
    <3>1. xx[j] = x[j] - 1 /\ x[j] \in 1..(Len(d) - 1)
      BY <2>1, <2>2, <1>1, <1>6
    <3>2. dd[x[j]] = d[x[j] + 1]
      BY <3>1, <2>2, <1>3, <1>1
    <3> QED BY <3>1, <3>2, <2>1, <1>1, <1>4
  <2>3. CASE x[j] < x[k]
    <3>1. xx[j] = x[j] /\ x[j] + 1 \in 1..(Len(d) - 1) /\ x[j] + 1 <= x[k]
      BY <2>1, <2>3, <1>1, <1>6
    <3>2. dd[x[j] + 1] = d[x[j] + 1]
      BY <3>1, <1>3
    <3> QED BY <3>1, <3>2, <2>1, <1>1, <1>4
  <2> QED BY <2>1, <2>2, <2>3, <1>1, <1>6
<1>8. ASSUME NEW i \in 1..Len(dd)
      PROVE  dd[i].first \in DOMAIN xx /\ xx[dd[i].first] = i - 1
  <2>1. \A n \in 1..Len(d) : d[n].first \in DOMAIN x /\ x[d[n].first] = n - 1
    BY DEF Matches
  <2>2. CASE i <= x[k]
    <3>1. dd[i] = d[i] /\ i \in 1..Len(d)
      BY <2>2, <1>1, <1>3, <1>4
    <3>2. x[d[i].first] = i - 1 /\ d[i].first \in DOMAIN x
      BY <2>1, <3>1
    <3>3. d[i].first # k
      BY <3>2, <3>1, <2>2, <1>1
    <3> QED BY <3>1, <3>2, <3>3, <2>2, <1>1, <1>5, <1>6
  <2>3. CASE i > x[k]
    <3>1. dd[i] = d[i + 1] /\ i + 1 \in 1..Len(d)
      BY <2>3, <1>1, <1>3, <1>4
    <3>2. x[d[i + 1].first] = i /\ d[i + 1].first \in DOMAIN x
      BY <2>1, <3>1
    <3>3. d[i + 1].first # k
      BY <3>2, <3>1, <2>3, <1>1
    <3> QED BY <3>1, <3>2, <3>3, <2>3, <1>1, <1>5, <1>6
  <2> QED BY <2>2, <2>3, <1>1, <1>4
<1>9. DOMAIN xx \subseteq Keys
  BY <1>5 DEF Matches
<1>10. Matches(dd, xx)
  BY <1>4, <1>7, <1>8, <1>9 DEF Matches
<1> QED BY <1>10 DEF dd, xx

(* The pairs copied one by one are the same vector. *)
LEMMA CopyIsSame ==
  ASSUME NEW d \in Seq(Item)
  PROVE  [i \in 1..Len(d) |-> [first |-> d[i].first, second |-> d[i].second]] = d
<1> DEFINE c == [i \in 1..Len(d) |-> [first |-> d[i].first, second |-> d[i].second]]
<1>1. \A e \in Item : [first |-> e.first, second |-> e.second] = e
  BY DEF Item
<1>2. \A i \in 1..Len(d) : d[i] \in Item /\ c[i] = d[i]
  BY <1>1
<1>3. c \in Seq(Item) /\ Len(c) = Len(d)
  BY <1>2
<1> HIDE DEF c
<1>4. c = d
  BY <1>2, <1>3, SeqEqual
<1> QED BY <1>4 DEF c

-----------------------------------------------------------------------------
(* Every operation keeps Matches, for the map it changes and the others.   *)
(* The cases are Next's, with operator[] and set one lemma apart.          *)
LEMMA EmplaceKeeps ==
  ASSUME IInv, NEW o \in Objects, NEW k \in Keys, NEW v \in Values,
         ~Found(o, k), Emplace(o, k, v)
  PROVE  IInv'
<1>1. Matches(data'[o], dataIndexMap'[o])
  BY AppendMatches DEF IInv, Found, Emplace, Size
<1> QED BY <1>1 DEF IInv, Emplace

(* The invariant holds at all times. *)
THEOREM Invariance == Spec => []IInv
<1>1. Init => IInv
  BY EmptyMatches DEF Init, IInv
<1>2. IInv /\ [Next]_vars => IInv'
  <2> SUFFICES ASSUME IInv, [Next]_vars PROVE IInv'
    OBVIOUS
  <2> USE NormalAssumption, DefaultAssumption
  <2>1. CASE UNCHANGED vars
    BY <2>1 DEF IInv, vars
  <2>2. ASSUME NEW o \in Objects, NEW s \in Spellings, Subscript(o, s) PROVE IInv'
    BY <2>2, EmplaceKeeps DEF Subscript
  <2>3. ASSUME NEW o \in Objects, NEW s \in Spellings, Remove(o, s) PROVE IInv'
    <3>1. Matches(data'[o], dataIndexMap'[o])
      BY <2>3, EraseMatches DEF IInv, Remove, Found
    <3> QED BY <3>1, <2>3 DEF IInv, Remove
  <2>4. ASSUME NEW o \in Objects, NEW s \in Spellings, NEW v \in Values, Set(o, s, v)
        PROVE  IInv'
    <3>1. CASE Found(o, Normal[s])
      <4> DEFINE p == dataIndexMap[o][Normal[s]] + 1
      <4>1. data' = [data EXCEPT ![o][p].second = v] /\ UNCHANGED dataIndexMap
        BY <3>1, <2>4 DEF Set
      <4>2. p \in 1..Len(data[o])
        BY <3>1 DEF IInv, Matches, Found
      <4>3. data'[o] = [data[o] EXCEPT ![p].second = v]
        BY <4>1 DEF IInv
      <4> HIDE DEF p
      <4>4. Matches(data'[o], dataIndexMap'[o])
        BY <4>1, <4>2, <4>3, AssignMatches DEF IInv
      <4> QED BY <4>1, <4>4 DEF IInv
    <3>2. CASE ~Found(o, Normal[s])
      BY <3>2, <2>4, EmplaceKeeps DEF Set
    <3> QED BY <3>1, <3>2
  <2>5. ASSUME NEW o \in Objects, Clear(o) PROVE IInv'
    BY <2>5, EmptyMatches DEF IInv, Clear
  <2>6. ASSUME NEW o \in Objects, NEW p \in Objects, Copy(o, p) PROVE IInv'
    <3>1. data[o] \in Seq(Item)
      BY DEF IInv, Matches
    <3>2. data'[p] = data[o] /\ dataIndexMap'[p] = dataIndexMap[o]
      BY <3>1, <2>6, CopyIsSame DEF IInv, Copy, Size
    <3> QED BY <3>2, <2>6 DEF IInv, Copy
  <2> QED BY <2>1, <2>2, <2>3, <2>4, <2>5, <2>6 DEF Next
<1> QED BY <1>1, <1>2, PTL DEF Spec

(* Pairs are pairs, and no lookup at ini.h:180, 193 and 212 is out of the  *)
(* vector's range, after any sequence of operations on any maps.           *)
THEOREM TypeCorrect == Spec => []TypeOK
<1>1. IInv => TypeOK
  BY DEF IInv, Matches, TypeOK, Size
<1> QED BY <1>1, Invariance, PTL

(* The vector and the index say the same, so that no key occurs twice and  *)
(* has() agrees with iteration, after any sequence of operations.          *)
THEOREM IndexKept == Spec => []IndexConsistent
<1>1. IInv => IndexConsistent
  BY DEF IInv, Matches, IndexConsistent, Size, Found
<1> QED BY <1>1, Invariance, PTL

-----------------------------------------------------------------------------
(* What the user of a map sees of a vector and an index, and what becomes  *)
(* of it when an operation changes the two.                                *)
KeysOf(d) == [i \in 1..Len(d) |-> d[i].first]
ValuesOf(d, x) == [k \in Keys |-> IF k \in DOMAIN x THEN d[x[k] + 1].second ELSE Absent]

(* The two state functions of the refinement, map by map. *)
LEMMA Seen == /\ KeyOrder = [o \in Objects |-> KeysOf(data[o])]
              /\ Lookup = [o \in Objects |-> ValuesOf(data[o], dataIndexMap[o])]
  BY DEF KeyOrder, Lookup, KeysOf, ValuesOf, Size, Found

(* Nothing is seen of an empty map. *)
LEMMA EmptySeen == KeysOf(<<>>) = <<>> /\ ValuesOf(<<>>, <<>>) = [k \in Keys |-> Absent]
  BY DEF KeysOf, ValuesOf

(* A key has a value exactly if it is in the index. *)
LEMMA AbsentUnseen ==
  ASSUME NEW d, NEW x, NEW k \in Keys, Matches(d, x)
  PROVE  ValuesOf(d, x)[k] = Absent <=> k \notin DOMAIN x
<1>1. CASE k \in DOMAIN x
  <2>1. d \in Seq(Item) /\ x[k] + 1 \in 1..Len(d)
    BY <1>1 DEF Matches
  <2>2. d[x[k] + 1] \in Item
    BY <2>1
  <2>3. d[x[k] + 1].second \in Values
    BY <2>2 DEF Item
  <2> QED BY <1>1, <2>3, AbsentAssumption DEF ValuesOf
<1>2. CASE k \notin DOMAIN x
  BY <1>2 DEF ValuesOf
<1> QED BY <1>1, <1>2

(* A pair at the end is a key at the end, and its value.                   *)
LEMMA AppendSeen ==
  ASSUME NEW d, NEW x, NEW k \in Keys, NEW v \in Values,
         Matches(d, x), k \notin DOMAIN x
  PROVE  LET dd == Append(d, [first |-> k, second |-> v])
             xx == Extend(x, k, Len(d))
         IN  /\ KeysOf(dd) = Append(KeysOf(d), k)
             /\ ValuesOf(dd, xx) = [ValuesOf(d, x) EXCEPT ![k] = v]
<1> DEFINE e == [first |-> k, second |-> v]
           dd == Append(d, e)
           xx == Extend(x, k, Len(d))
<1>1. /\ d \in Seq(Item) /\ e \in Item /\ Len(d) \in Nat
      /\ \A j \in DOMAIN x : x[j] + 1 \in 1..Len(d) /\ x[j] \in Nat
  BY DEF Matches, Item
<1>2. /\ Len(dd) = Len(d) + 1
      /\ dd[Len(d) + 1] = e
      /\ \A i \in 1..Len(d) : dd[i] = d[i]
  BY <1>1
<1>3. /\ DOMAIN xx = DOMAIN x \cup {k}
      /\ xx[k] = Len(d)
      /\ \A j \in DOMAIN x : xx[j] = x[j]
  BY DEF Extend
<1>4. \A i \in 1..Len(d) : d[i].first \in Keys
  <2>1. \A i \in 1..Len(d) : d[i] \in Item
    BY <1>1
  <2> QED BY <2>1 DEF Item
<1> HIDE DEF dd, xx
<1>5. KeysOf(dd) = Append(KeysOf(d), k)
  <2>1. KeysOf(d) \in Seq(Keys) /\ Len(KeysOf(d)) = Len(d)
    BY <1>1, <1>4 DEF KeysOf
  <2>2. KeysOf(dd) \in Seq(Keys) /\ Len(KeysOf(dd)) = Len(d) + 1
    BY <1>1, <1>2, <1>4 DEF KeysOf
  <2>3. \A i \in 1..(Len(d) + 1) : KeysOf(dd)[i] = Append(KeysOf(d), k)[i]
    BY <1>1, <1>2, <2>1 DEF KeysOf
  <2>4. Append(KeysOf(d), k) \in Seq(Keys) /\ Len(Append(KeysOf(d), k)) = Len(d) + 1
    BY <2>1
  <2> QED BY <2>2, <2>3, <2>4, SeqEqual
<1>6. \A j \in Keys : (IF j \in DOMAIN xx THEN dd[xx[j] + 1].second ELSE Absent)
         = (IF j = k THEN v ELSE IF j \in DOMAIN x THEN d[x[j] + 1].second ELSE Absent)
  <2>1. dd[xx[k] + 1].second = v
    BY <1>2, <1>3
  <2>2. \A j \in DOMAIN x : dd[xx[j] + 1].second = d[x[j] + 1].second
    BY <1>1, <1>2, <1>3
  <2> QED BY <1>3, <2>1, <2>2
<1>7. ValuesOf(dd, xx) = [ValuesOf(d, x) EXCEPT ![k] = v]
  BY <1>6 DEF ValuesOf
<1> QED BY <1>5, <1>7 DEF dd, xx

(* Another value in a pair is another value of its key, and of no other.   *)
LEMMA AssignSeen ==
  ASSUME NEW d, NEW x, NEW k \in DOMAIN x, NEW v \in Values, Matches(d, x)
  PROVE  LET dd == [d EXCEPT ![x[k] + 1].second = v]
         IN  /\ KeysOf(dd) = KeysOf(d)
             /\ ValuesOf(dd, x) = [ValuesOf(d, x) EXCEPT ![k] = v]
<1> DEFINE p == x[k] + 1
           dd == [d EXCEPT ![p].second = v]
<1>1. /\ d \in Seq(Item) /\ k \in Keys
      /\ \A j \in DOMAIN x : x[j] + 1 \in 1..Len(d) /\ d[x[j] + 1].first = j
  BY DEF Matches
<1>2. \A i \in 1..Len(d) : d[i] \in Item
  BY <1>1
<1>3. \A e \in Item : /\ [e EXCEPT !.second = v] \in Item
                      /\ [e EXCEPT !.second = v].first = e.first
                      /\ [e EXCEPT !.second = v].second = v
  BY DEF Item
<1>4. p \in 1..Len(d)
  BY <1>1
<1>5. Len(dd) = Len(d)
  <2>1. dd \in Seq(Item)
    BY <1>1, <1>2, <1>3, <1>4
  <2> QED BY <1>1
<1>6. /\ \A i \in 1..Len(d) : dd[i].first = d[i].first
      /\ \A i \in 1..Len(d) : i # p => dd[i] = d[i]
      /\ dd[p].second = v
  BY <1>1, <1>2, <1>3, <1>4
<1>7. \A j \in DOMAIN x : j # k => x[j] + 1 # p
  BY <1>1
<1> HIDE DEF dd
<1>8. KeysOf(dd) = KeysOf(d)
  BY <1>5, <1>6 DEF KeysOf
<1>9. \A j \in DOMAIN x : dd[x[j] + 1].second = IF j = k THEN v ELSE d[x[j] + 1].second
  BY <1>1, <1>6, <1>7
<1>10. ValuesOf(dd, x) = [ValuesOf(d, x) EXCEPT ![k] = v]
  BY <1>1, <1>9 DEF ValuesOf
<1> QED BY <1>8, <1>10 DEF dd

(* An erased pair is a key less, and no value for it.                      *)
LEMMA EraseSeen ==
  ASSUME NEW d, NEW x, NEW k \in DOMAIN x, Matches(d, x)
  PROVE  LET dd == Erase(d, x[k])
             xx == Unindex(x, k)
         IN  /\ x[k] + 1 \in 1..Len(KeysOf(d)) /\ KeysOf(d)[x[k] + 1] = k
             /\ KeysOf(dd) = Ordered!RemoveAt(KeysOf(d), x[k] + 1)
             /\ ValuesOf(dd, xx) = [ValuesOf(d, x) EXCEPT ![k] = Absent]
<1> DEFINE p == x[k] + 1
           dd == Erase(d, x[k])
           xx == Unindex(x, k)
<1>1. /\ d \in Seq(Item) /\ Len(d) \in Nat /\ k \in Keys
      /\ \A j \in DOMAIN x : x[j] \in 0..(Len(d) - 1) /\ d[x[j] + 1].first = j
      /\ \A i \in 1..Len(d) : d[i] \in Item
  BY DEF Matches
<1>2. p \in 1..Len(d) /\ p - 1 = x[k] /\ Len(d) - 1 \in Nat
  BY <1>1
<1>3. ASSUME NEW i \in 1..(Len(d) - 1)
      PROVE  /\ i < p => dd[i] = d[i]
             /\ i >= p => dd[i] = d[i + 1]
             /\ dd[i] \in Item
  BY <1>1, <1>2, <1>3 DEF Erase
<1>4. Len(dd) = Len(d) - 1
  BY <1>2 DEF Erase
<1>5. DOMAIN xx = DOMAIN x \ {k}
  BY DEF Unindex
<1>6. ASSUME NEW j \in DOMAIN xx
      PROVE  dd[xx[j] + 1] = d[x[j] + 1]
  <2>1. j \in DOMAIN x /\ j # k /\ x[j] \in 0..(Len(d) - 1) /\ x[j] # x[k]
    BY <1>1, <1>5
  <2>2. CASE x[j] > x[k]
    <3>1. xx[j] = x[j] - 1
      BY <1>5, <2>2 DEF Unindex
    <3>2. x[j] \in 1..(Len(d) - 1) /\ x[j] >= p /\ xx[j] + 1 = x[j]
      BY <2>1, <2>2, <1>1, <1>2, <3>1
    <3> HIDE DEF dd, xx, p
    <3> QED BY <1>3, <3>2
  <2>3. CASE x[j] < x[k]
    <3>1. xx[j] = x[j]
      BY <1>1, <1>5, <2>1, <2>3 DEF Unindex
    <3>2. x[j] + 1 \in 1..(Len(d) - 1) /\ x[j] + 1 < p /\ xx[j] + 1 = x[j] + 1
      BY <2>1, <2>3, <1>1, <1>2, <3>1
    <3> HIDE DEF dd, xx, p
    <3> QED BY <1>3, <3>2
  <2> QED BY <2>1, <2>2, <2>3, <1>1
<1>7. KeysOf(d) \in Seq(Keys) /\ Len(KeysOf(d)) = Len(d) /\ KeysOf(d)[p] = k
  <2>1. \A i \in 1..Len(d) : d[i].first \in Keys
    BY <1>1 DEF Item
  <2> QED BY <2>1, <1>1, <1>2 DEF KeysOf
<1>8. KeysOf(dd) = Ordered!RemoveAt(KeysOf(d), p)
  <2> HIDE DEF dd, p
  <2> DEFINE front == SubSeq(KeysOf(d), 1, p - 1)
             back == SubSeq(KeysOf(d), p + 1, Len(d))
  <2>1. front \in Seq(Keys) /\ Len(front) = p - 1
    BY <1>2, <1>7
  <2>2. back \in Seq(Keys) /\ Len(back) = Len(d) - p
    BY <1>1, <1>2, <1>7
  <2>3. \A i \in 1..(p - 1) : front[i] = KeysOf(d)[i]
    BY <1>2, <1>7
  <2>4. \A i \in 1..(Len(d) - p) : back[i] = KeysOf(d)[p + i]
    BY <1>1, <1>2, <1>7
  <2> HIDE DEF front, back
  <2>5. front \o back \in Seq(Keys) /\ Len(front \o back) = Len(d) - 1
    <3>1. front \o back \in Seq(Keys) /\ Len(front \o back) = Len(front) + Len(back)
      BY <2>1, <2>2
    <3>2. Len(front) + Len(back) = Len(d) - 1
      BY <1>1, <1>2, <2>1, <2>2
    <3> QED BY <3>1, <3>2
  <2>6. KeysOf(dd) \in Seq(Keys) /\ Len(KeysOf(dd)) = Len(d) - 1
    <3>1. \A i \in 1..(Len(d) - 1) : dd[i].first \in Keys
      BY <1>3 DEF Item
    <3> QED BY <3>1, <1>2, <1>4 DEF KeysOf
  <2>7. ASSUME NEW i \in 1..(Len(d) - 1)
        PROVE  KeysOf(dd)[i] = (front \o back)[i]
    <3>1. KeysOf(dd)[i] = dd[i].first
      BY <1>4, <2>7 DEF KeysOf
    <3>2. CASE i < p
      <4>1. i \in 1..(p - 1) /\ i \in 1..Len(d)
        BY <3>2, <1>1, <1>2
      <4>2. (front \o back)[i] = front[i]
        BY <4>1, <2>1, <2>2
      <4> QED BY <3>1, <3>2, <4>1, <4>2, <1>3, <2>3 DEF KeysOf
    <3>3. CASE i >= p
      <4>1. i - (p - 1) \in 1..(Len(d) - p) /\ i + 1 \in 1..Len(d)
        BY <3>3, <1>1, <1>2
      <4>2. (front \o back)[i] = back[i - (p - 1)]
        BY <3>3, <4>1, <1>2, <2>1, <2>2
      <4>3. back[i - (p - 1)] = KeysOf(d)[i + 1]
        BY <4>1, <2>4, <1>2
      <4> QED BY <3>1, <3>3, <4>1, <4>2, <4>3, <1>3 DEF KeysOf
    <3>4. i < p \/ i >= p
      BY <1>1, <1>2
    <3> QED BY <3>2, <3>3, <3>4
  <2>8. KeysOf(dd) = front \o back
    BY <2>5, <2>6, <2>7, SeqEqual
  <2> QED BY <2>8, <1>7 DEF front, back, Ordered!RemoveAt
<1>9. ValuesOf(dd, xx) = [ValuesOf(d, x) EXCEPT ![k] = Absent]
  <2> HIDE DEF dd, xx
  <2>1. \A j \in Keys : (IF j \in DOMAIN xx THEN dd[xx[j] + 1].second ELSE Absent)
           = (IF j = k THEN Absent ELSE IF j \in DOMAIN x THEN d[x[j] + 1].second ELSE Absent)
    BY <1>5, <1>6
  <2> QED BY <2>1 DEF ValuesOf
<1> HIDE DEF dd, xx
<1>10. p \in 1..Len(KeysOf(d))
  BY <1>2, <1>7
<1> QED BY <1>7, <1>8, <1>9, <1>10 DEF dd, xx

-----------------------------------------------------------------------------
(* A pair with a new key is a key put at the end. *)
LEMMA EmplacePuts ==
  ASSUME IInv, NEW o \in Objects, NEW k \in Keys, NEW v \in Values,
         ~Found(o, k), Emplace(o, k, v)
  PROVE  Lookup[o][k] = Absent /\ Ordered!Put(o, k, v)
<1>1. Matches(data[o], dataIndexMap[o]) /\ k \notin DOMAIN dataIndexMap[o]
  BY DEF IInv, Found
<1>2. Lookup[o][k] = Absent
  BY <1>1, AbsentUnseen, Seen
<1>3. /\ data' = [data EXCEPT ![o] = Append(data[o], [first |-> k, second |-> v])]
      /\ dataIndexMap' = [dataIndexMap EXCEPT ![o] = Extend(dataIndexMap[o], k, Len(data[o]))]
  BY DEF Emplace, Size
<1>4. /\ KeysOf(data'[o]) = Append(KeysOf(data[o]), k)
      /\ ValuesOf(data'[o], dataIndexMap'[o])
            = [ValuesOf(data[o], dataIndexMap[o]) EXCEPT ![k] = v]
  BY <1>1, <1>3, AppendSeen DEF IInv
<1>5. /\ KeyOrder' = [q \in Objects |-> KeysOf(data'[q])]
      /\ Lookup' = [q \in Objects |-> ValuesOf(data'[q], dataIndexMap'[q])]
  BY DEF KeyOrder, Lookup, KeysOf, ValuesOf, Size, Found
<1>6. \A q \in Objects \ {o} : data'[q] = data[q] /\ dataIndexMap'[q] = dataIndexMap[q]
  BY <1>3 DEF IInv
<1>7. KeyOrder' = [KeyOrder EXCEPT ![o] = Append(KeyOrder[o], k)]
  BY <1>4, <1>5, <1>6, Seen
<1>8. Lookup' = [Lookup EXCEPT ![o] = [Lookup[o] EXCEPT ![k] = v]]
  BY <1>4, <1>5, <1>6, Seen
<1> QED BY <1>2, <1>7, <1>8 DEF Ordered!Put

(* An INIMap is an ordered map: what its user sees of any sequence of      *)
(* operations, on any maps, is what OrderedMap says.                       *)
THEOREM Implements == Spec => ImplementsOrderedMap
<1>1. Init => Ordered!Init
  BY EmptySeen, Seen DEF Init, Ordered!Init
<1>2. IInv /\ [Next]_vars => [Ordered!Next]_(Ordered!orderedVars)
  <2> SUFFICES ASSUME IInv, [Next]_vars PROVE [Ordered!Next]_(Ordered!orderedVars)
    OBVIOUS
  <2> USE NormalAssumption, DefaultAssumption
  <2>0. /\ KeyOrder' = [q \in Objects |-> KeysOf(data'[q])]
        /\ Lookup' = [q \in Objects |-> ValuesOf(data'[q], dataIndexMap'[q])]
    BY DEF KeyOrder, Lookup, KeysOf, ValuesOf, Size, Found
  <2>1. CASE UNCHANGED vars
    BY <2>0, <2>1, Seen DEF vars, Ordered!orderedVars
  <2>2. ASSUME NEW o \in Objects, NEW s \in Spellings, Subscript(o, s)
        PROVE  Ordered!Mention(o, Normal[s])
    BY <2>2, EmplacePuts DEF Subscript, Ordered!Mention
  <2>3. ASSUME NEW o \in Objects, NEW s \in Spellings, Remove(o, s)
        PROVE  Ordered!Delete(o, Normal[s])
    <3> DEFINE k == Normal[s]
               d == data[o]
               x == dataIndexMap[o]
               p == x[k] + 1
    <3>1. Matches(d, x) /\ k \in DOMAIN x
      BY <2>3 DEF IInv, Remove, Found
    <3>2. /\ data' = [data EXCEPT ![o] = Erase(d, x[k])]
          /\ dataIndexMap' = [dataIndexMap EXCEPT ![o] = Unindex(x, k)]
      BY <2>3 DEF Remove
    <3>3. /\ p \in 1..Len(KeysOf(d)) /\ KeysOf(d)[p] = k
          /\ KeysOf(data'[o]) = Ordered!RemoveAt(KeysOf(d), p)
          /\ ValuesOf(data'[o], dataIndexMap'[o]) = [ValuesOf(d, x) EXCEPT ![k] = Absent]
      BY <3>1, <3>2, EraseSeen DEF IInv
    <3>4. \A q \in Objects \ {o} : data'[q] = data[q] /\ dataIndexMap'[q] = dataIndexMap[q]
      BY <3>2 DEF IInv
    <3> HIDE DEF k, p
    <3>5. /\ KeyOrder[o] = KeysOf(d)
          /\ KeyOrder' = [KeyOrder EXCEPT ![o] = Ordered!RemoveAt(KeyOrder[o], p)]
      BY <3>3, <3>4, <2>0, Seen
    <3>6. Lookup' = [Lookup EXCEPT ![o] = [Lookup[o] EXCEPT ![k] = Absent]]
      BY <3>3, <3>4, <2>0, Seen
    <3> QED BY <3>3, <3>5, <3>6 DEF Ordered!Delete, k
  <2>4. ASSUME NEW o \in Objects, NEW s \in Spellings, NEW v \in Values, Set(o, s, v)
        PROVE  Ordered!Put(o, Normal[s], v)
    <3>1. CASE Found(o, Normal[s])
      <4> DEFINE k == Normal[s]
                 d == data[o]
                 x == dataIndexMap[o]
      <4>1. Matches(d, x) /\ k \in DOMAIN x /\ k \in Keys
        BY <3>1 DEF IInv, Found
      <4>2. data' = [data EXCEPT ![o][x[k] + 1].second = v] /\ UNCHANGED dataIndexMap
        BY <3>1, <2>4 DEF Set
      <4>3. data'[o] = [d EXCEPT ![x[k] + 1].second = v]
        BY <4>2 DEF IInv
      <4>4. /\ KeysOf(data'[o]) = KeysOf(d)
            /\ ValuesOf(data'[o], x) = [ValuesOf(d, x) EXCEPT ![k] = v]
        BY <4>1, <4>3, AssignSeen
      <4>5. \A q \in Objects \ {o} : data'[q] = data[q]
        BY <4>2 DEF IInv
      <4>6. KeyOrder' = KeyOrder
        BY <4>4, <4>5, <2>0, Seen
      <4>7. Lookup' = [Lookup EXCEPT ![o] = [Lookup[o] EXCEPT ![k] = v]]
        BY <4>2, <4>4, <4>5, <2>0, Seen
      <4>8. Lookup[o][k] # Absent
        BY <4>1, AbsentUnseen, Seen
      <4>9. KeyOrder = [KeyOrder EXCEPT ![o] = KeyOrder[o]]
        BY DEF KeyOrder
      <4> QED BY <4>6, <4>7, <4>8, <4>9 DEF Ordered!Put
    <3>2. CASE ~Found(o, Normal[s])
      BY <3>2, <2>4, EmplacePuts DEF Set
    <3> QED BY <3>1, <3>2
  <2>5. ASSUME NEW o \in Objects, Clear(o) PROVE Ordered!Wipe(o)
    BY <2>5, <2>0, EmptySeen, Seen DEF IInv, Clear, Ordered!Wipe
  <2>6. ASSUME NEW o \in Objects, NEW p \in Objects, Copy(o, p) PROVE Ordered!Duplicate(o, p)
    <3>1. data[o] \in Seq(Item)
      BY DEF IInv, Matches
    <3>2. /\ data' = [data EXCEPT ![p] = data[o]]
          /\ dataIndexMap' = [dataIndexMap EXCEPT ![p] = dataIndexMap[o]]
      BY <3>1, <2>6, CopyIsSame DEF Copy, Size
    <3> QED BY <3>2, <2>0, Seen DEF IInv, Ordered!Duplicate
  <2> QED BY <2>1, <2>2, <2>3, <2>4, <2>5, <2>6 DEF Next, Ordered!Next
<1> QED BY <1>1, <1>2, Invariance, PTL DEF Spec, ImplementsOrderedMap, Ordered!Spec
=============================================================================
