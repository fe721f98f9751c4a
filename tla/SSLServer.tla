----------------------------- MODULE SSLServer -----------------------------
(***************************************************************************)
(* CTCPSSLServer (socket-cpp): TLS over the listening socket of module     *)
(* TCPListen.  Listen fills an SSLSocket of the caller, step by step, and  *)
(* may give up after any of them; the caller moves SSLSockets about, and   *)
(* hands them back to Disconnect.  It uses this server or a plain          *)
(* CTCPServer.                                                             *)
(***************************************************************************)
EXTENDS TCPListen, SecureSocket

CONSTANT Sockets   \* the caller's variables of type SSLSocket

ASSUME NullIsNoSocket == NULL \notin Sockets

VARIABLES
    tls,        \* the program uses a CTCPSSLServer
    sslpc,      \* where its Listen is, or "idle"
    current,    \* the SSLSocket Listen was called with, or NULL
    sock,       \* what is in each of them
    session,    \* what OpenSSL has at each structure
    open,       \* those with a connection that Disconnect is still due for
    secured,    \* those of them for which Listen returned true
    halfway,    \* history: a Listen has failed between accept and handshake
    overwritten \* history: an SSLSocket was filled again that was open

history == <<halfway, overwritten>>
sslVars == <<tls, sslpc, current, sock, session, open, secured, history>>
allVars == <<vars, sslVars>>

Empty == [m_SockFd |-> INVALID, m_pSSL |-> NULL, m_pCTXSSL |-> NULL]

SSLInit ==
    /\ Init
    /\ tls \in BOOLEAN
    /\ sslpc = "idle" /\ current = NULL
    /\ sock = [x \in Sockets |-> Empty]
    /\ session = [s \in Sessions |-> NoSession]
    /\ open = {} /\ secured = {}
    /\ halfway = FALSE /\ overwritten = FALSE

-----------------------------------------------------------------------------
(* Listen: TCP, then the context and its files, then the handshake.        *)

(* The SSLSocket of a Listen that failed may be handed in again, with what *)
(* that one left in it; the number goes at once, see TCPListen.            *)
SSLListenBegins(x) ==
    /\ tls /\ sslpc = "idle" /\ x \notin secured
    /\ ListenBegins
    /\ sslpc' = "tcp" /\ current' = x
    /\ sock' = [sock EXCEPT ![x].m_SockFd = clientSocket']
    /\ open' = open \ {x}
    /\ overwritten' = (overwritten \/ x \in open)
    /\ UNCHANGED <<tls, session, secured, halfway>>

(* accept() hands the number to the SSLSocket. *)
TCPListens ==
    /\ tls /\ (ListenStep \/ ListenError)
    /\ sock' = [sock EXCEPT ![current].m_SockFd = clientSocket']
    /\ open' = IF result' = "true" THEN open \cup {current} ELSE open
    /\ UNCHANGED <<tls, sslpc, current, session, secured, history>>

ComeBack == sslpc' = "idle" /\ current' = NULL /\ UNCHANGED <<tls, overwritten>>

TCPListenFails ==
    /\ tls /\ sslpc = "tcp" /\ result = "false"
    /\ ComeBack
    /\ UNCHANGED <<vars, sock, session, open, secured, halfway>>

Reached(where) == tls /\ sslpc = where /\ result = "true" /\ UNCHANGED vars

Continue(where) == sslpc' = where /\ UNCHANGED <<tls, current, open, secured, history>>

SetUpCtxServer ==
    /\ Reached("tcp")
    /\ \E s \in Unused(session) : /\ session' = SetUpCtx(session, s)
                                  /\ sock' = [sock EXCEPT ![current].m_pCTXSSL = s]
    /\ Continue("load")

(* return false, and the connection stays. *)
GiveUp == ComeBack /\ halfway' = TRUE /\ UNCHANGED <<open, secured>>

SetUpCtxServerFails ==
    /\ Reached("tcp")
    /\ sock' = [sock EXCEPT ![current].m_pCTXSSL = NULL]
    /\ GiveUp
    /\ UNCHANGED session

LoadFails ==
    /\ Reached("load")
    /\ GiveUp
    /\ UNCHANGED <<sock, session>>

SSLNew ==
    /\ Reached("load")
    /\ sock' = [sock EXCEPT ![current].m_pSSL = sock[current].m_pCTXSSL]
    /\ session' = SetUpSSL(session, sock[current].m_pCTXSSL, sock[current].m_SockFd)
    /\ Continue("handshake")

SSLAccept ==
    /\ Reached("handshake")
    /\ session' = EndHandshake(session, sock[current].m_pSSL, "ready")
    /\ secured' = secured \cup {current}
    /\ ComeBack
    /\ UNCHANGED <<sock, open, halfway>>

(* Mutant: m_pSSL is not reset. *)
ShutKeepsPointer(x) ==
    /\ session' = ShutdownSSL(session, sock[x].m_pSSL, sock[x].m_pCTXSSL)
    /\ UNCHANGED sock

Shut(x) ==
    /\ session' = ShutdownSSL(session, sock[x].m_pSSL, sock[x].m_pCTXSSL)
    /\ sock' = [sock EXCEPT ![x].m_pSSL = NULL]

(* The session goes, the connection stays. *)
SSLAcceptFails ==
    /\ Reached("handshake")
    /\ Shut(current)
    /\ ComeBack
    /\ UNCHANGED <<open, secured, halfway>>

-----------------------------------------------------------------------------
(* The caller. *)

(* Mutant: only a connection with a session is closed. *)
SSLDisconnectSecured(x) ==
    /\ tls /\ sslpc = "idle" /\ x \in open
    /\ Shut(x)
    /\ IF sock[x].m_pSSL # NULL THEN Disconnect(sock[x].m_SockFd) ELSE UNCHANGED vars
    /\ open' = open \ {x} /\ secured' = secured \ {x}
    /\ UNCHANGED <<tls, sslpc, current, history>>

(* The number, handed over by value, stays in the SSLSocket; so a caller   *)
(* does this once.                                                         *)
SSLDisconnect(x) ==
    /\ tls /\ sslpc = "idle" /\ x \in open
    /\ Shut(x)
    /\ Disconnect(sock[x].m_SockFd)
    /\ open' = open \ {x} /\ secured' = secured \ {x}
    /\ UNCHANGED <<tls, sslpc, current, history>>

Moved(set, from, to) == IF from \in set THEN (set \ {from}) \cup {to} ELSE set \ {to}

(* Mutant: m_pCTXSSL is not moved. *)
MoveWithoutContext(from, to) ==
    /\ tls /\ sslpc = "idle" /\ from \in open /\ from # to
    /\ sock' = [sock EXCEPT ![to] = [sock[from] EXCEPT !.m_pCTXSSL = sock[to].m_pCTXSSL],
                            ![from] = Empty]
    /\ open' = Moved(open, from, to) /\ secured' = Moved(secured, from, to)
    /\ overwritten' = (overwritten \/ to \in open)
    /\ UNCHANGED <<vars, tls, sslpc, current, session, halfway>>

(* Move construction, or assignment, which frees nothing of the target.    *)
Move(from, to) ==
    /\ tls /\ sslpc = "idle" /\ from \in open /\ from # to
    /\ sock' = [sock EXCEPT ![to] = sock[from], ![from] = Empty]
    /\ open' = Moved(open, from, to) /\ secured' = Moved(secured, from, to)
    /\ overwritten' = (overwritten \/ to \in open)
    /\ UNCHANGED <<vars, tls, sslpc, current, session, halfway>>

(* The SSLSockets outlive the server. *)
ServerGoes == sslpc = "idle" /\ Destroy /\ UNCHANGED sslVars

PlainServer ==
    /\ ~tls
    /\ ListenBegins \/ ListenStep \/ ListenError \/ \E fd \in Fds : Disconnect(fd)
    /\ UNCHANGED sslVars

Others == ((\E p \in Peers : PeerConnects(p)) \/ PortChanges) /\ UNCHANGED sslVars

SSLNext ==
    \/ \E x \in Sockets : SSLListenBegins(x) \/ SSLDisconnect(x) \/ \E y \in Sockets : Move(x, y)
    \/ TCPListens \/ TCPListenFails
    \/ SetUpCtxServer \/ SetUpCtxServerFails \/ LoadFails
    \/ SSLNew \/ SSLAccept \/ SSLAcceptFails
    \/ ServerGoes \/ PlainServer \/ Others

SSLSpec == SSLInit /\ [][SSLNext]_allVars

-----------------------------------------------------------------------------
(* Properties. *)

(* Every variable has its type, the TCP server's as well, and nothing is   *)
(* freed more often than it is referred to.                                *)
SSLTypeOK ==
    /\ TypeOK
    /\ tls \in BOOLEAN /\ halfway \in BOOLEAN /\ overwritten \in BOOLEAN
    /\ sslpc \in {"idle", "tcp", "load", "handshake"}
    /\ current \in Sockets \cup {NULL} /\ (current = NULL <=> sslpc = "idle")
    /\ sock \in [Sockets -> [m_SockFd : Fds \cup {INVALID}, m_pSSL : Sessions \cup {NULL},
                             m_pCTXSSL : Sessions \cup {NULL}]]
    /\ SessionsOK(session, Fds)
    /\ open \subseteq Sockets /\ secured \subseteq open

(* An SSLSocket for which Listen returned true has, wherever it is moved,  *)
(* and whatever other calls fail, a connection that is open and a session  *)
(* that is ready on that connection, and shares neither.                   *)
SecuredStaySecured ==
    \A x \in secured :
        /\ sock[x].m_SockFd \in held
        /\ sock[x].m_pSSL # NULL /\ sock[x].m_pSSL = sock[x].m_pCTXSSL
        /\ session[sock[x].m_pSSL] = [refs |-> 2, state |-> "ready", fd |-> sock[x].m_SockFd]
        /\ \A y \in secured : sock[y].m_SockFd = sock[x].m_SockFd => x = y

(* Nothing is lost that the caller could not help: as long as it fills no  *)
(* open SSLSocket again, every connection is in one that Disconnect is due *)
(* for, also when Listen failed; and if no Listen failed between accept    *)
(* and handshake, every session is as well.                                *)
OnlyOverwritingLoses ==
    tls /\ ~overwritten =>
        /\ \A fd \in held : \E x \in open : sock[x].m_SockFd = fd
        /\ ~halfway => \A s \in Sessions : session[s].refs > 0 => \E x \in open : sock[x].m_pCTXSSL = s
=============================================================================
