----------------------------- MODULE TCPListen -----------------------------
(***************************************************************************)
(* CTCPServer::Listen (socket-cpp, Linux build): the life of the listening *)
(* socket over many calls, each of whose system calls may fail, and the    *)
(* descriptors it hands out.  One thread calls Listen and Disconnect.      *)
(***************************************************************************)
EXTENDS Sequences, FiniteSets

CONSTANTS Fds,      \* the descriptors the process may open
          Peers,    \* connections peers open to the listening socket
          INVALID   \* INVALID_SOCKET

ASSUME InvalidIsNoDescriptor == INVALID \notin Fds

VARIABLES
    pc,             \* the system call Listen is about to make, or "idle"
    wait,           \* the msec argument: "forever" (the default), "zero" or "finite"
    m_ListenSocket,
    bindFailed,     \* history: bind() has failed on m_ListenSocket
    clientSocket,   \* the out-parameter of the last call
    result,         \* what the last call returned, "none" before it has
    kind,           \* what the kernel has at each descriptor
    port,           \* the port each descriptor is bound to
    portTaken,      \* another process listens on the configured port
    backlog,        \* connections waiting in the kernel
    held            \* the descriptors the caller was given and has not closed

kernelVars == <<kind, port, portTaken, backlog>>
vars == <<pc, wait, m_ListenSocket, bindFailed, clientSocket, result, kernelVars, held>>

Kinds == {"free", "created", "bound", "listening", "client"}
Calls == {"socket", "setsockopt", "bind", "listen", "select", "accept"}

Init ==
    /\ pc = "idle"
    /\ wait = "forever"
    /\ m_ListenSocket = INVALID
    /\ bindFailed = FALSE
    /\ clientSocket = INVALID
    /\ result = "none"
    /\ kind = [fd \in Fds |-> "free"]
    /\ port = [fd \in Fds |-> "none"]
    /\ portTaken \in BOOLEAN
    /\ backlog = <<>>
    /\ held = {}

Open(fd, what) == /\ kind[fd] = "free"
                  /\ kind' = [kind EXCEPT ![fd] = what]

Close(fd) == /\ kind' = [kind EXCEPT ![fd] = "free"]
             /\ port' = [port EXCEPT ![fd] = "none"]

Return(value) == pc' = "idle" /\ result' = value

-----------------------------------------------------------------------------
(* Listen, call by call. *)

ListenBegins ==
    /\ pc = "idle"
    /\ wait' \in {"forever", "zero", "finite"}
    /\ clientSocket' = INVALID
    /\ result' = "none"
    /\ pc' = IF m_ListenSocket = INVALID THEN "socket" ELSE "listen"
    /\ UNCHANGED <<m_ListenSocket, bindFailed, kernelVars, held>>

Socket ==
    /\ pc = "socket"
    /\ \E fd \in Fds : Open(fd, "created") /\ m_ListenSocket' = fd
    /\ bindFailed' = FALSE
    /\ pc' = "setsockopt"
    /\ UNCHANGED <<wait, clientSocket, result, port, portTaken, backlog, held>>

SocketFails ==
    /\ pc = "socket"
    /\ Return("false")
    /\ UNCHANGED <<wait, m_ListenSocket, bindFailed, clientSocket, kernelVars, held>>

ReuseAddr ==
    /\ pc = "setsockopt"
    /\ pc' = "bind"
    /\ UNCHANGED <<wait, m_ListenSocket, bindFailed, clientSocket, result, kernelVars, held>>

(* Mutant: the failed socket is forgotten without being closed. *)
ReuseAddrFailsLeaks ==
    /\ pc = "setsockopt"
    /\ m_ListenSocket' = INVALID
    /\ Return("false")
    /\ UNCHANGED <<wait, bindFailed, clientSocket, kernelVars, held>>

ReuseAddrFails ==
    /\ pc = "setsockopt"
    /\ Close(m_ListenSocket)
    /\ m_ListenSocket' = INVALID
    /\ Return("false")
    /\ UNCHANGED <<wait, bindFailed, clientSocket, portTaken, backlog, held>>

Bind ==
    /\ pc = "bind"
    /\ ~portTaken
    /\ kind' = [kind EXCEPT ![m_ListenSocket] = "bound"]
    /\ port' = [port EXCEPT ![m_ListenSocket] = "configured"]
    /\ pc' = "listen"
    /\ UNCHANGED <<wait, m_ListenSocket, bindFailed, clientSocket, result, portTaken, backlog, held>>

(* m_ListenSocket is neither closed nor reset on this path. *)
BindFails ==
    /\ pc = "bind"
    /\ bindFailed' = TRUE
    /\ Return("false")
    /\ UNCHANGED <<wait, m_ListenSocket, clientSocket, kernelVars, held>>

(* listen() on a socket that was never bound gives it a free port.         *)
ListenCall ==
    /\ pc = "listen"
    /\ kind' = [kind EXCEPT ![m_ListenSocket] = "listening"]
    /\ port' = [port EXCEPT ![m_ListenSocket] = IF @ = "none" THEN "ephemeral" ELSE @]
    /\ pc' = IF wait = "forever" THEN "accept" ELSE "select"
    /\ UNCHANGED <<wait, m_ListenSocket, bindFailed, clientSocket, result, portTaken, backlog, held>>

(* Mutant: the socket is closed, as the Windows branch does. *)
ListenCallFailsCloses ==
    /\ pc = "listen"
    /\ Close(m_ListenSocket)
    /\ m_ListenSocket' = INVALID
    /\ Return("false")
    /\ UNCHANGED <<wait, bindFailed, clientSocket, portTaken, backlog, held>>

ListenCallFails ==
    /\ pc = "listen"
    /\ Return("false")
    /\ UNCHANGED <<wait, m_ListenSocket, bindFailed, clientSocket, kernelVars, held>>

(* SelectSocket: readable. *)
Select ==
    /\ pc = "select"
    /\ backlog # <<>>
    /\ pc' = "accept"
    /\ UNCHANGED <<wait, m_ListenSocket, bindFailed, clientSocket, result, kernelVars, held>>

(* SelectSocket: timed out; a period of zero means no timeout. *)
SelectTimesOut ==
    /\ pc = "select" /\ wait = "finite"
    /\ Return("false")
    /\ UNCHANGED <<wait, m_ListenSocket, bindFailed, clientSocket, kernelVars, held>>

SelectFails ==
    /\ pc = "select"
    /\ Return("false")
    /\ UNCHANGED <<wait, m_ListenSocket, bindFailed, clientSocket, kernelVars, held>>

Accept ==
    /\ pc = "accept"
    /\ backlog # <<>>
    /\ \E fd \in Fds : /\ Open(fd, "client")
                       /\ clientSocket' = fd
                       /\ held' = held \cup {fd}
    /\ backlog' = Tail(backlog)
    /\ Return("true")
    /\ UNCHANGED <<wait, m_ListenSocket, bindFailed, port, portTaken>>

(* No descriptor is free, or the oldest connection was aborted: accept()   *)
(* returns -1, which is INVALID_SOCKET.                                    *)
AcceptFails ==
    /\ pc = "accept"
    /\ backlog # <<>>
    /\ backlog' \in {backlog, Tail(backlog)}
    /\ Return("false")
    /\ UNCHANGED <<wait, m_ListenSocket, bindFailed, clientSocket, kind, port, portTaken, held>>

(* What a call does for want of a port, a descriptor, a peer or time, and  *)
(* the failures that need no reason.                                       *)
ListenStep == \/ Socket \/ SocketFails \/ ReuseAddr \/ Bind \/ BindFails \/ ListenCall
              \/ Select \/ SelectTimesOut \/ Accept \/ AcceptFails
ListenError == ReuseAddrFails \/ ListenCallFails \/ SelectFails

-----------------------------------------------------------------------------
(* The rest of the object's life, and its environment. *)

Disconnect(fd) ==
    /\ pc = "idle"
    /\ fd \in held
    /\ Close(fd)
    /\ held' = held \ {fd}
    /\ clientSocket' = INVALID
    /\ result' = "none"
    /\ UNCHANGED <<pc, wait, m_ListenSocket, bindFailed, portTaken, backlog>>

(* The destructor closes the listening socket; a new object may be made. *)
Destroy ==
    /\ pc = "idle" /\ m_ListenSocket # INVALID
    /\ Close(m_ListenSocket)
    /\ m_ListenSocket' = INVALID
    /\ bindFailed' = FALSE
    /\ backlog' = <<>>
    /\ clientSocket' = INVALID
    /\ result' = "none"
    /\ UNCHANGED <<pc, wait, portTaken, held>>

Listening == \E fd \in Fds : kind[fd] = "listening"

PeerConnects(p) ==
    /\ Listening
    /\ \A i \in DOMAIN backlog : backlog[i] # p
    /\ backlog' = Append(backlog, p)
    /\ UNCHANGED <<pc, wait, m_ListenSocket, bindFailed, clientSocket, result, kind, port, portTaken, held>>

(* Another process takes or leaves the configured port. *)
PortChanges ==
    /\ \A fd \in Fds : port[fd] # "configured"
    /\ portTaken' = ~portTaken
    /\ UNCHANGED <<pc, wait, m_ListenSocket, bindFailed, clientSocket, result, kind, port, backlog, held>>

Next == \/ ListenBegins
        \/ ListenStep
        \/ ListenError
        \/ \E fd \in Fds : Disconnect(fd)
        \/ Destroy
        \/ \E p \in Peers : PeerConnects(p)
        \/ PortChanges

Spec == Init /\ [][Next]_vars

-----------------------------------------------------------------------------
(* Properties. *)

CallerOK ==
    /\ pc \in {"idle"} \cup Calls
    /\ wait \in {"forever", "zero", "finite"}
    /\ m_ListenSocket \in Fds \cup {INVALID}
    /\ bindFailed \in BOOLEAN
    /\ clientSocket \in Fds \cup {INVALID}
    /\ result \in {"none", "true", "false"}
    /\ held \in SUBSET Fds

KernelOK ==
    /\ kind \in [Fds -> Kinds]
    /\ port \in [Fds -> {"none", "configured", "ephemeral"}]
    /\ portTaken \in BOOLEAN
    /\ backlog \in Seq(Peers)

CallsOK ==
    /\ pc = "socket" => m_ListenSocket = INVALID
    /\ pc \in {"setsockopt", "bind"} => m_ListenSocket # INVALID /\ kind[m_ListenSocket] = "created"
    /\ pc = "listen" => m_ListenSocket # INVALID
    /\ pc \in {"select", "accept"} => m_ListenSocket # INVALID /\ kind[m_ListenSocket] = "listening"

(* Every variable has its type, and each system call is made on a socket   *)
(* in the state that call needs.                                           *)
TypeOK == CallerOK /\ KernelOK /\ CallsOK

(* No path of Listen loses a descriptor: whatever the kernel has open is   *)
(* the listening socket the object remembers, or a connection the caller   *)
(* was given; and the two are never the same.                              *)
NoDescriptorLost ==
    \A fd \in Fds : /\ kind[fd] = "client" <=> fd \in held
                    /\ kind[fd] \in {"created", "bound", "listening"} <=> fd = m_ListenSocket

(* TRUE hands out a connection that is open; FALSE hands out nothing, not  *)
(* even the socket an earlier call left in the same variable.              *)
ResultMatchesSocket ==
    /\ result = "true" => clientSocket \in held
    /\ result = "false" => clientSocket = INVALID

(* The server only ever listens on a port it was not configured for after  *)
(* a bind() on that same socket has failed.                                *)
WrongPortOnlyAfterBindFailure ==
    \A fd \in Fds : kind[fd] = "listening" /\ port[fd] # "configured"
                    => fd = m_ListenSocket /\ bindFailed

(* A socket that listens goes on listening, on its port, through every     *)
(* later failure of Listen; only the destructor ends it.                   *)
ListeningIsStable ==
    [][\A fd \in Fds : kind[fd] = "listening" /\ pc # "idle"
            => kind'[fd] = "listening" /\ port'[fd] = port[fd] /\ m_ListenSocket' = fd]_vars

(* TCPServer.cpp:237 says bind() binds the socket to "port, portno" and    *)
(* README.md:40 of socket-cpp that the server is there "to listen on port  *)
(* 12345": a socket that listens does so on the configured port.           *)
ListensOnConfiguredPort ==
    \A fd \in Fds : kind[fd] = "listening" => port[fd] = "configured"
=============================================================================
