------------------------------ MODULE MCServer ------------------------------
(* Server for TLC: two connections. *)
EXTENDS Server

CONSTANTS c1, c2

(* The threads of a server treat connections alike, so which of them       *)
(* arrives first does not matter: a connection arrives only after the one  *)
(* before it.  With liveness to check this takes the place of a symmetry.  *)
(* Peers are under no fairness, so leaving out these steps of theirs takes *)
(* no fair behaviour away.                                                 *)
InOrder == first'[c2] # "away" => first[c1] # "away"
=============================================================================
