----------------------------- MODULE TCPClient -----------------------------
(***************************************************************************)
(* CTCPClient (socket-cpp, Linux build): one client that connects,         *)
(* transfers, sets timeouts and disconnects any number of times, in a      *)
(* process that opens and closes descriptors of its own meanwhile.  The    *)
(* kernel gives a number that has been closed to the next who asks.  What  *)
(* the loops of Send and Receive do with the bytes is the same text as in  *)
(* CTCPServer, see TCPStream; here it matters which socket they use.       *)
(***************************************************************************)
EXTENDS Naturals

CONSTANTS Fds,           \* the descriptors the process may open
          INVALID,       \* INVALID_SOCKET
          MaxAddresses   \* bound: addresses getaddrinfo finds for a host

ASSUME InvalidIsNoDescriptor == INVALID \notin Fds
ASSUME AddressesAssumption == MaxAddresses \in Nat \ {0}

VARIABLES
    pc,                 \* the system call Connect is about to make, or "idle"
    m_eStatus,
    m_ConnectSocket,
    m_pResultAddrInfo,  \* "null" or an allocated "list"
    left,               \* addresses of the list not yet given up
    kind,               \* what the kernel has at each descriptor
    marks               \* what this client has done to each open descriptor

clientVars == <<pc, m_eStatus, m_ConnectSocket, m_pResultAddrInfo, left>>
vars == <<clientVars, kind, marks>>

Init ==
    /\ pc = "idle"
    /\ m_eStatus = "DISCONNECTED"
    /\ m_ConnectSocket = INVALID
    /\ m_pResultAddrInfo = "null" /\ left = 0
    /\ kind = [fd \in Fds |-> "free"]
    /\ marks = [fd \in Fds |-> {}]

Open(fd, what) == /\ kind[fd] = "free"
                  /\ kind' = [kind EXCEPT ![fd] = what]
                  /\ marks' = [marks EXCEPT ![fd] = {}]

(* close() of a number that is not open changes nothing. *)
Close(fd) == /\ kind' = [f \in Fds |-> IF f = fd THEN "free" ELSE kind[f]]
             /\ marks' = [f \in Fds |-> IF f = fd THEN {} ELSE marks[f]]

-----------------------------------------------------------------------------
(* Disconnect and the destructor, which only calls it. *)

(* Mutant: whatever the status, the socket is closed. *)
DisconnectAlways ==
    /\ m_eStatus' = "DISCONNECTED"
    /\ Close(m_ConnectSocket)
    /\ m_ConnectSocket' = INVALID

(* Mutant: the socket is forgotten without being closed. *)
DisconnectLeaks ==
    IF m_eStatus = "CONNECTED"
    THEN /\ m_eStatus' = "DISCONNECTED"
         /\ m_ConnectSocket' = INVALID
         /\ UNCHANGED <<kind, marks>>
    ELSE UNCHANGED <<m_eStatus, m_ConnectSocket, kind, marks>>

DoDisconnect ==
    IF m_eStatus = "CONNECTED"
    THEN /\ m_eStatus' = "DISCONNECTED"
         /\ Close(m_ConnectSocket)
         /\ m_ConnectSocket' = INVALID
    ELSE UNCHANGED <<m_eStatus, m_ConnectSocket, kind, marks>>

Disconnect ==
    /\ pc = "idle"
    /\ DoDisconnect
    /\ UNCHANGED <<pc, m_pResultAddrInfo, left>>

-----------------------------------------------------------------------------
(* Connect, call by call. *)

(* Mutant: a client that is connected goes on with its status. *)
ConnectBeginsConnected ==
    /\ pc = "idle"
    /\ pc' = "getaddrinfo"
    /\ UNCHANGED <<m_eStatus, m_ConnectSocket, kind, marks, m_pResultAddrInfo, left>>

(* A connection that is there is closed first. *)
ConnectBegins ==
    /\ pc = "idle"
    /\ DoDisconnect
    /\ pc' = "getaddrinfo"
    /\ UNCHANGED <<m_pResultAddrInfo, left>>

Resolve ==
    /\ pc = "getaddrinfo"
    /\ left' \in 1 .. MaxAddresses
    /\ m_pResultAddrInfo' = "list"
    /\ pc' = "socket"
    /\ UNCHANGED <<m_eStatus, m_ConnectSocket, kind, marks>>

ResolveFails ==
    /\ pc = "getaddrinfo"
    /\ pc' = "idle"
    /\ UNCHANGED <<m_eStatus, m_ConnectSocket, m_pResultAddrInfo, left, kind, marks>>

(* The loop goes on with the next address, or frees the list and gives up. *)
NextAddress ==
    /\ left' = left - 1
    /\ IF left' = 0
       THEN pc' = "idle" /\ m_pResultAddrInfo' = "null"
       ELSE pc' = "socket" /\ UNCHANGED m_pResultAddrInfo
    /\ UNCHANGED m_eStatus

Socket ==
    /\ pc = "socket"
    /\ \E fd \in Fds : Open(fd, "created") /\ m_ConnectSocket' = fd
    /\ pc' = "connect"
    /\ UNCHANGED <<m_eStatus, m_pResultAddrInfo, left>>

SocketFails ==
    /\ pc = "socket"
    /\ m_ConnectSocket' = INVALID
    /\ NextAddress
    /\ UNCHANGED <<kind, marks>>

ConnectSucceeds ==
    /\ pc = "connect"
    /\ kind' = [kind EXCEPT ![m_ConnectSocket] = "connected"]
    /\ m_eStatus' = "CONNECTED"
    /\ pc' = "idle"
    /\ m_pResultAddrInfo' = "null" /\ left' = 0
    /\ UNCHANGED <<m_ConnectSocket, marks>>

(* Mutant: the loop tries the same address again. *)
ConnectFailsRetries ==
    /\ pc = "connect"
    /\ Close(m_ConnectSocket)
    /\ pc' = "socket"
    /\ UNCHANGED <<m_eStatus, m_ConnectSocket, m_pResultAddrInfo, left>>

(* m_ConnectSocket keeps the number of the descriptor that is closed. *)
ConnectFails ==
    /\ pc = "connect"
    /\ Close(m_ConnectSocket)
    /\ NextAddress
    /\ UNCHANGED m_ConnectSocket

-----------------------------------------------------------------------------
(* Transfer and timeouts. *)

Mark(what) == marks' = [fd \in Fds |-> IF fd = m_ConnectSocket /\ kind[fd] # "free"
                                       THEN marks[fd] \cup {what} ELSE marks[fd]]

(* Send and Receive: without a connection they return at once. *)
Transfer ==
    /\ pc = "idle" /\ m_eStatus = "CONNECTED"
    /\ Mark("bytes")
    /\ UNCHANGED <<clientVars, kind>>

(* SetRcvTimeout and SetSndTimeout: setsockopt on whatever the number is.  *)
SetTimeout ==
    /\ pc = "idle"
    /\ Mark("timeout")
    /\ UNCHANGED <<clientVars, kind>>

(* The rest of the process. *)
OtherOpens(fd) == Open(fd, "other") /\ UNCHANGED clientVars
OtherCloses(fd) == kind[fd] = "other" /\ Close(fd) /\ UNCHANGED clientVars

ConnectStep == Resolve \/ ResolveFails \/ Socket \/ SocketFails \/ ConnectSucceeds \/ ConnectFails

Next == \/ ConnectBegins \/ ConnectStep \/ Disconnect \/ Transfer \/ SetTimeout
        \/ \E fd \in Fds : OtherOpens(fd) \/ OtherCloses(fd)

Spec == Init /\ [][Next]_vars

-----------------------------------------------------------------------------
(* Properties. *)

(* Every variable has its type, the status is CONNECTED exactly while the  *)
(* client's number is a connected socket, and connect() is called on a     *)
(* socket that has just been made.                                         *)
TypeOK ==
    /\ pc \in {"idle", "getaddrinfo", "socket", "connect"}
    /\ m_eStatus \in {"CONNECTED", "DISCONNECTED"}
    /\ m_ConnectSocket \in Fds \cup {INVALID}
    /\ m_pResultAddrInfo \in {"null", "list"}
    /\ left \in 0 .. MaxAddresses
    /\ pc \in {"socket", "connect"} => left > 0
    /\ kind \in [Fds -> {"free", "created", "connected", "other"}]
    /\ marks \in [Fds -> SUBSET {"bytes", "timeout"}]
    /\ m_eStatus = "CONNECTED"
       => pc = "idle" /\ m_ConnectSocket \in Fds /\ kind[m_ConnectSocket] = "connected"
    /\ pc = "connect" => m_ConnectSocket \in Fds /\ kind[m_ConnectSocket] = "created"

(* Whatever fails and however often Connect is called, the client leaks    *)
(* neither a descriptor (the only one it has open is the one it is         *)
(* connected by or about to connect) nor the list of addresses.            *)
NothingLeaked ==
    /\ \A fd \in Fds : kind[fd] \in {"created", "connected"}
                       => fd = m_ConnectSocket /\ (m_eStatus = "CONNECTED" \/ pc = "connect")
    /\ pc \in {"idle", "getaddrinfo"} => m_pResultAddrInfo = "null"

(* The client never closes a descriptor of the rest of the process, not    *)
(* even one that has the number of a socket it closed itself.              *)
OthersStayOpen ==
    [][\A fd \in Fds : kind[fd] = "other" /\ kind'[fd] # "other" => OtherCloses(fd)]_vars

(* What is sent and received goes through the client's own connection.     *)
BytesStayHome ==
    \A fd \in Fds : "bytes" \in marks[fd] => m_eStatus = "CONNECTED" /\ fd = m_ConnectSocket

(* A Connect comes back, with a connection or without.                     *)
ConnectReturns == pc # "idle" ~> pc = "idle"
=============================================================================
