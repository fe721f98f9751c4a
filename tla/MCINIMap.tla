------------------------------ MODULE MCINIMap ------------------------------
(* An instance of INIMap for TLC: two maps, three keys, one of which has   *)
(* two spellings.                                                          *)
EXTENDS INIMap

CONSTANTS name, port, salt, NAME, empty, text

MCSpellings == {name, NAME, port, salt}
MCNormal == [s \in MCSpellings |-> IF s = NAME THEN name ELSE s]
=============================================================================
