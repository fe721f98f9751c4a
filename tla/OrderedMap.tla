----------------------------- MODULE OrderedMap -----------------------------
(***************************************************************************)
(* What an INI section (or the whole INI structure) is to its user: values *)
(* under keys, remembered in the order in which the keys were first used.  *)
(***************************************************************************)
EXTENDS Naturals, SequencesExt

CONSTANTS Objects,   \* the maps in use
          Keys,      \* keys, trimmed and in lower case
          Values,
          Default,   \* the value a key gets by being mentioned
          Absent     \* the value of a key that is not there

VARIABLES order,     \* the keys of each map, oldest first
          value      \* the value of each key in each map, or Absent

orderedVars == <<order, value>>

Init == /\ order = [o \in Objects |-> <<>>]
        /\ value = [o \in Objects |-> [k \in Keys |-> Absent]]

Put(o, k, v) ==
    /\ order' = [order EXCEPT ![o] = IF value[o][k] = Absent THEN Append(@, k) ELSE @]
    /\ value' = [value EXCEPT ![o][k] = v]

Mention(o, k) ==
    /\ value[o][k] = Absent
    /\ Put(o, k, Default)

Delete(o, k) ==
    /\ \E i \in 1..Len(order[o]) :
          /\ order[o][i] = k
          /\ order' = [order EXCEPT ![o] = RemoveAt(@, i)]
    /\ value' = [value EXCEPT ![o][k] = Absent]

Wipe(o) ==
    /\ order' = [order EXCEPT ![o] = <<>>]
    /\ value' = [value EXCEPT ![o] = [k \in Keys |-> Absent]]

Duplicate(o, p) ==
    /\ order' = [order EXCEPT ![p] = order[o]]
    /\ value' = [value EXCEPT ![p] = value[o]]

Next == \E o \in Objects :
            \/ \E k \in Keys : Mention(o, k) \/ Delete(o, k)
            \/ \E k \in Keys, v \in Values : Put(o, k, v)
            \/ Wipe(o)
            \/ \E p \in Objects : Duplicate(o, p)

Spec == Init /\ [][Next]_orderedVars
=============================================================================
