--------------------------- MODULE ServerSockets ---------------------------
(***************************************************************************)
(* SMOListener (Source/Server.cpp) as the caller of CTCPServer::Listen:    *)
(* which connection each descriptor of the process is, who holds it, and   *)
(* what is left of the promise to the peers when the descriptors run out.  *)
(* It composes the loop with TCPListen, system call by system call; the    *)
(* mutex, the flag and the readers it meets on the way are in Server.      *)
(***************************************************************************)
EXTENDS TCPListen

ASSUME InvalidIsNoPeer == INVALID \notin Peers

VARIABLES
    place,       \* where SMOListener is: "listen", "receive", "greet" or "drop"
    connection,  \* the kernel's: the connection behind each descriptor, or INVALID
    clients,     \* the connection each Client was made for, by its descriptor
    first,       \* the first thing each peer did after it connected
    fate         \* what has become of each connection

serverVars == <<place, connection, clients, first, fate>>
socketVars == <<vars, serverVars>>

SocketsInit ==
    /\ Init
    /\ place = "listen"
    /\ connection = [fd \in Fds |-> INVALID]
    /\ clients = [fd \in Fds |-> INVALID]
    /\ first = [p \in Peers |-> "away"]
    /\ fate = [p \in Peers |-> "none"]

-----------------------------------------------------------------------------
(* The loop of SMOListener.                                                *)

(* Each pass calls Listen without a waiting period, with a new Socket. *)
CallListen ==
    /\ place = "listen"
    /\ ListenBegins
    /\ wait' = "forever"
    /\ UNCHANGED serverVars

(* The calls that neither take a connection nor lose one. *)
ListenWorks ==
    /\ place = "listen"
    /\ \/ Socket \/ SocketFails \/ ReuseAddr \/ ReuseAddrFails
       \/ Bind \/ BindFails \/ ListenCall \/ ListenCallFails
    /\ UNCHANGED serverVars

Taken ==
    /\ place = "listen"
    /\ Accept
    /\ connection' = [connection EXCEPT ![clientSocket'] = Head(backlog)]
    /\ fate' = [fate EXCEPT ![Head(backlog)] = "accepted"]
    /\ place' = "receive"
    /\ UNCHANGED <<clients, first>>

(* accept() may report the oldest connection as one its peer has reset. *)
NotTaken ==
    /\ place = "listen"
    /\ AcceptFails
    /\ \/ /\ backlog' = backlog
          /\ UNCHANGED <<first, fate>>
       \/ /\ backlog' = Tail(backlog)
          /\ first' = [first EXCEPT ![Head(backlog)] = "closed"]
          /\ fate' = [fate EXCEPT ![Head(backlog)] = "lost"]
    /\ UNCHANGED <<place, connection, clients>>

Served == connection[clientSocket]

(* Mutant: every peer that speaks is taken for a client. *)
ReceiveAnything ==
    /\ place = "receive"
    /\ first[Served] # "silent"
    /\ place' = "greet"
    /\ UNCHANGED <<vars, connection, clients, first, fate>>

(* Mutant: the listener goes on receiving until it has a hello. *)
ReceiveUntilHello ==
    /\ place = "receive"
    /\ first[Served] = "hello"
    /\ place' = "greet"
    /\ UNCHANGED <<vars, connection, clients, first, fate>>

(* One recv, which blocks until the peer has spoken or hung up. *)
Receive ==
    /\ place = "receive"
    /\ first[Served] # "silent"
    /\ place' = IF first[Served] = "hello" THEN "greet" ELSE "drop"
    /\ UNCHANGED <<vars, connection, clients, first, fate>>

(* Mutant: the Client closes its socket when it goes out of scope. *)
GreetThenClose ==
    /\ place = "greet"
    /\ Disconnect(clientSocket)
    /\ clients' = [clients EXCEPT ![clientSocket] = Served]
    /\ fate' = [fate EXCEPT ![Served] = "client"]
    /\ place' = "listen"
    /\ UNCHANGED <<connection, first>>

(* The Client gets the descriptor; nothing closes it from then on: Client  *)
(* has no destructor and its reader never disconnects.                     *)
Greet ==
    /\ place = "greet"
    /\ clients' = [clients EXCEPT ![clientSocket] = Served]
    /\ fate' = [fate EXCEPT ![Served] = "client"]
    /\ place' = "listen"
    /\ UNCHANGED <<vars, connection, first>>

(* Mutant: the peer is refused but its socket is not closed. *)
DropKeepsSocket ==
    /\ place = "drop"
    /\ fate' = [fate EXCEPT ![Served] = "dropped"]
    /\ place' = "listen"
    /\ UNCHANGED <<vars, connection, clients, first>>

Drop ==
    /\ place = "drop"
    /\ Disconnect(clientSocket)
    /\ connection' = [connection EXCEPT ![clientSocket] = INVALID]
    /\ fate' = [fate EXCEPT ![Served] = "dropped"]
    /\ place' = "listen"
    /\ UNCHANGED <<clients, first>>

-----------------------------------------------------------------------------
(* The peers and the other processes.                                      *)

PeerArrives(p) ==
    /\ first[p] = "away"
    /\ PeerConnects(p)
    /\ first' = [first EXCEPT ![p] = "silent"]
    /\ UNCHANGED <<place, connection, clients, fate>>

PeerSpeaks(p) ==
    /\ first[p] = "silent"
    /\ \E event \in {"hello", "other", "closed"} : first' = [first EXCEPT ![p] = event]
    /\ UNCHANGED <<vars, place, connection, clients, fate>>

PortIsTaken == PortChanges /\ UNCHANGED serverVars

SocketsNext ==
    \/ CallListen \/ ListenWorks \/ Taken \/ NotTaken
    \/ Receive \/ Greet \/ Drop
    \/ \E p \in Peers : PeerArrives(p) \/ PeerSpeaks(p)
    \/ PortIsTaken

SocketsSpec == SocketsInit /\ [][SocketsNext]_socketVars

(* The listener makes its next step.  listen() and accept() do not fail    *)
(* for ever without a reason.  Greet is under no fairness: it waits for    *)
(* the mutex, which the readers may keep from the listener.                *)
SocketsFairSpec ==
    /\ SocketsSpec
    /\ WF_socketVars(CallListen \/ ListenWorks \/ Taken \/ NotTaken)
    /\ WF_socketVars(Receive) /\ WF_socketVars(Drop)
    /\ SF_socketVars(place = "listen" /\ ListenCall /\ UNCHANGED serverVars)
    /\ SF_socketVars(Taken)

-----------------------------------------------------------------------------
(* Properties.                                                             *)

(* Every variable has its type, and outside Listen there is a connection   *)
(* in the Socket of this pass of the loop.                                 *)
SocketsTypeOK ==
    /\ TypeOK /\ wait = "forever"
    /\ place \in {"listen", "receive", "greet", "drop"}
    /\ place # "listen" => pc = "idle" /\ clientSocket \in held
    /\ connection \in [Fds -> Peers \cup {INVALID}]
    /\ clients \in [Fds -> Peers \cup {INVALID}]
    /\ first \in [Peers -> {"away", "silent", "hello", "other", "closed"}]
    /\ fate \in [Peers -> {"none", "accepted", "client", "dropped", "lost"}]

Registered == {fd \in Fds : clients[fd] # INVALID}

(* Every descriptor of an accepted connection is a client's or the one in  *)
(* the listener's hands, never both: of the many ways out of an iteration  *)
(* none leaves a connection open that nobody has.                          *)
DescriptorsAccounted ==
    held = Registered \cup (IF place = "listen" THEN {} ELSE {clientSocket})
    /\ (place # "listen" => clientSocket \notin Registered)

(* The number kept in a Client goes on meaning the connection the Client   *)
(* was made for, however many peers come and go after it: a Send to a      *)
(* player never reaches another peer.                                      *)
ClientsKeepTheirConnections ==
    \A fd \in Registered : kind[fd] = "client" /\ connection[fd] = clients[fd]

(* The connections see the sequential Handshake, although the system calls *)
(* that take them fail and are retried and descriptors run out.            *)
Sequential == INSTANCE Handshake WITH
    Conns <- Peers, None <- INVALID, queue <- backlog,
    serving <- IF place = "listen" THEN INVALID ELSE connection[clientSocket]
SocketsImplementHandshake == Sequential!Spec

(* Every descriptor but the listening socket's belongs to a client. *)
Exhausted == Registered = Fds \ {m_ListenSocket}

(* Every waiting connection is taken in the end, except for these reasons: *)
(* the clients, closed by nobody, have all the descriptors; a peer that    *)
(* was accepted stays silent; the mutex is kept from the listener.         *)
EveryoneIsTaken ==
    \/ <>[](backlog = <<>>)
    \/ <>[]Exhausted
    \/ <>[](place = "receive" /\ first[connection[clientSocket]] = "silent")
    \/ <>[](place = "greet")
=============================================================================
