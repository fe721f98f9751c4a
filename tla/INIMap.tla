------------------------------- MODULE INIMap -------------------------------
(***************************************************************************)
(* mINI::INIMap (mini/ini.h): a vector of key-value pairs, which keeps the *)
(* order of insertion, and an unordered_map from each key to its position  *)
(* in the vector.  Every operation trims and lower-cases the key it is     *)
(* given: Normal is that conversion.  Positions count from 0 as in the     *)
(* code; position p of the vector is data[p + 1].                          *)
(***************************************************************************)
EXTENDS Naturals, Sequences

CONSTANTS Objects,     \* the maps in use
          Spellings,   \* key arguments, as callers spell them
          Keys,        \* trimmed and lower-cased keys
          Normal,      \* what trim and toLower make of a spelling
          Values,      \* values of type T
          Default,     \* T()
          Absent       \* no value

ASSUME NormalAssumption == Normal \in [Spellings -> Keys]
ASSUME DefaultAssumption == Default \in Values
ASSUME AbsentAssumption == Absent \notin Values

VARIABLES data,          \* T_DataContainer of each map
          dataIndexMap   \* T_DataIndexMap of each map

vars == <<data, dataIndexMap>>

Item == [first : Keys, second : Values]

Init == /\ data = [o \in Objects |-> <<>>]
        /\ dataIndexMap = [o \in Objects |-> <<>>]   \* no key

Found(o, k) == k \in DOMAIN dataIndexMap[o]

(* The queries. *)
Size(o) == Len(data[o])
Get(o, s) == IF Found(o, Normal[s]) THEN data[o][dataIndexMap[o][Normal[s]] + 1].second
             ELSE Default

(* index, with k sent to p as well. *)
Extend(index, k, p) == [j \in DOMAIN index \cup {k} |-> IF j = k THEN p ELSE index[j]]

(* A pair with a new key goes to the end of the vector (setEmpty, set). *)
Emplace(o, k, v) ==
    /\ dataIndexMap' = [dataIndexMap EXCEPT ![o] = Extend(@, k, Size(o))]
    /\ data' = [data EXCEPT ![o] = Append(@, [first |-> k, second |-> v])]

(* operator[] by itself: a key that is not there gets T(). *)
Subscript(o, s) ==
    /\ ~Found(o, Normal[s])
    /\ Emplace(o, Normal[s], Default)

(* set, and an assignment to what operator[] returns. *)
Set(o, s, v) ==
    LET k == Normal[s] IN
    \/ /\ Found(o, k)
       /\ data' = [data EXCEPT ![o][dataIndexMap[o][k] + 1].second = v]
       /\ UNCHANGED dataIndexMap
    \/ /\ ~Found(o, k)
       /\ Emplace(o, k, v)

(* Mutant: one position too low. *)
EraseBefore(items, p) ==
    [i \in 1..(Len(items) - 1) |-> IF i < p THEN items[i] ELSE items[i + 1]]

(* items without the one at position p. *)
Erase(items, p) ==
    [i \in 1..(Len(items) - 1) |-> IF i <= p THEN items[i] ELSE items[i + 1]]

(* index without k: the positions behind k's move up by one. *)
Unindex(index, k) ==
    [j \in DOMAIN index \ {k} |-> IF index[j] > index[k] THEN index[j] - 1 ELSE index[j]]

(* Mutant: the last pair is moved into the hole. *)
RemoveSwaps(o, s) ==
    LET k == Normal[s]
        p == dataIndexMap[o][k]
        last == data[o][Size(o)]
    IN  /\ Found(o, k)
        /\ data' = [data EXCEPT ![o] = [i \in 1..(Size(o) - 1) |-> IF i = p + 1 THEN last ELSE @[i]]]
        /\ dataIndexMap' = [dataIndexMap EXCEPT ![o] =
               [j \in DOMAIN @ \ {k} |-> IF j = last.first THEN p ELSE @[j]]]

Remove(o, s) ==
    LET k == Normal[s] IN
    /\ Found(o, k)
    /\ data' = [data EXCEPT ![o] = Erase(@, dataIndexMap[o][k])]
    /\ dataIndexMap' = [dataIndexMap EXCEPT ![o] = Unindex(@, k)]

Clear(o) ==
    /\ data' = [data EXCEPT ![o] = <<>>]
    /\ dataIndexMap' = [dataIndexMap EXCEPT ![o] = <<>>]

(* p is made as a copy of o: the pairs one by one, the index as a whole. *)
Copy(o, p) ==
    /\ o # p
    /\ data' = [data EXCEPT ![p] = [i \in 1..Size(o) |->
                    [first |-> data[o][i].first, second |-> data[o][i].second]]]
    /\ dataIndexMap' = [dataIndexMap EXCEPT ![p] = dataIndexMap[o]]

Next == \E o \in Objects :
            \/ \E s \in Spellings : Subscript(o, s) \/ Remove(o, s)
            \/ \E s \in Spellings, v \in Values : Set(o, s, v)
            \/ Clear(o)
            \/ \E p \in Objects : Copy(o, p)

Spec == Init /\ [][Next]_vars

-----------------------------------------------------------------------------
(* Properties. *)

(* Pairs are pairs, and no position in the index lies outside the vector:  *)
(* data[index] at ini.h:180, 193 and 212 is never out of range.            *)
TypeOK ==
    /\ DOMAIN data = Objects /\ DOMAIN dataIndexMap = Objects
    /\ \A o \in Objects :
          /\ data[o] \in Seq(Item)
          /\ DOMAIN dataIndexMap[o] \subseteq Keys
          /\ \A k \in DOMAIN dataIndexMap[o] : dataIndexMap[o][k] \in 0..(Size(o) - 1)

(* The vector and the index say the same: the index sends a key to the     *)
(* pair with that key, and each pair is where the index has its key, so    *)
(* that no key occurs twice and has() agrees with iteration.               *)
IndexConsistent ==
    \A o \in Objects :
        /\ \A k \in DOMAIN dataIndexMap[o] : data[o][dataIndexMap[o][k] + 1].first = k
        /\ \A i \in 1..Size(o) : /\ Found(o, data[o][i].first)
                                 /\ dataIndexMap[o][data[o][i].first] = i - 1

(* What the user of a map sees: iteration goes over the vector, and values *)
(* are looked up through the index.                                        *)
KeyOrder == [o \in Objects |-> [i \in 1..Size(o) |-> data[o][i].first]]
Lookup == [o \in Objects |-> [k \in Keys |->
              IF Found(o, k) THEN data[o][dataIndexMap[o][k] + 1].second ELSE Absent]]

(* An INIMap is an ordered map, through any sequence of operations. *)
Ordered == INSTANCE OrderedMap WITH order <- KeyOrder, value <- Lookup
ImplementsOrderedMap == Ordered!Spec
=============================================================================
