----------------------------- MODULE Handshake -----------------------------
(***************************************************************************)
(* What the connection side of WhiteSMO++ promises its peers, without the  *)
(* threads, the lock and the shared ServerManager that the code uses to    *)
(* keep the promise: connections are taken one at a time in the order they *)
(* arrive, and a connection becomes a client exactly when the first thing  *)
(* the server reads from it is a usable hello packet; otherwise it is      *)
(* closed.                                                                 *)
(***************************************************************************)
EXTENDS Sequences

CONSTANTS Conns,   \* the connections peers may open
          None     \* no connection

VARIABLES queue,    \* connections that wait to be taken, oldest first
          serving,  \* the connection being handled, or None
          first,    \* what the peer did first: see FirstEvents
          fate      \* where the server has got with the connection

absVars == <<queue, serving, first, fate>>

(* The first thing the server can observe on an open connection. *)
FirstEvents == {"hello", "badHello", "other", "closed"}

Init == /\ queue = <<>>
        /\ serving = None
        /\ first = [c \in Conns |-> "away"]
        /\ fate = [c \in Conns |-> "none"]

(* A peer connects and waits its turn. *)
Arrive(c) == /\ first[c] = "away"
             /\ first' = [first EXCEPT ![c] = "silent"]
             /\ queue' = Append(queue, c)
             /\ UNCHANGED <<serving, fate>>

(* A connected peer says its first words, or hangs up. *)
Speak(c) == /\ first[c] = "silent"
            /\ \E e \in FirstEvents : first' = [first EXCEPT ![c] = e]
            /\ UNCHANGED <<queue, serving, fate>>

(* The oldest waiting connection is taken. *)
Take == /\ serving = None
        /\ queue # <<>>
        /\ serving' = Head(queue)
        /\ queue' = Tail(queue)
        /\ fate' = [fate EXCEPT ![Head(queue)] = "accepted"]
        /\ UNCHANGED first

(* The oldest waiting connection turns out to have been reset by its peer. *)
Lose == /\ serving = None
        /\ queue # <<>>
        /\ queue' = Tail(queue)
        /\ first' = [first EXCEPT ![Head(queue)] = "closed"]
        /\ fate' = [fate EXCEPT ![Head(queue)] = "lost"]
        /\ UNCHANGED serving

(* A hello makes the connection a client. *)
Admit == /\ serving \in Conns
         /\ first[serving] = "hello"
         /\ fate' = [fate EXCEPT ![serving] = "client"]
         /\ serving' = None
         /\ UNCHANGED <<queue, first>>

(* Anything that is not a hello closes it. *)
Refuse == /\ serving \in Conns
          /\ first[serving] \in {"other", "closed"}
          /\ fate' = [fate EXCEPT ![serving] = "dropped"]
          /\ serving' = None
          /\ UNCHANGED <<queue, first>>

Next == \/ \E c \in Conns : Arrive(c) \/ Speak(c)
        \/ Take \/ Lose
        \/ Admit
        \/ Refuse

Spec == Init /\ [][Next]_absVars
=============================================================================
