----------------------------- MODULE SSLClient -----------------------------
(***************************************************************************)
(* CTCPSSLClient (socket-cpp): TLS over the connection of a CTCPClient of  *)
(* its own, module TCPClient.  What can go wrong is between the two: the   *)
(* TCP client says whether there is a connection, and this object, which   *)
(* believes it, may have no TLS session on it, or one of an earlier        *)
(* connection.  The program uses this client or a plain CTCPClient.        *)
(***************************************************************************)
EXTENDS TCPClient, SecureSocket

VARIABLES
    tls,         \* the program uses a CTCPSSLClient
    sslpc,       \* where its Connect is, or "idle"
    m_pSSL,      \* the two pointers of m_SSLConnectSocket
    m_pCTXSSL,
    session,     \* what OpenSSL has at each structure
    secured,     \* history: the last Connect returned true, no Disconnect since
    halfway,     \* history: a Connect has failed with the TCP connection made
    reconnected, \* history: a Connect has begun with a session still there
    misused      \* history: what was wrong with a session that was used

pointers == <<m_pSSL, m_pCTXSSL>>
history == <<secured, halfway, reconnected, misused>>
sslVars == <<tls, sslpc, pointers, session, history>>
allVars == <<vars, sslVars>>

SSLInit ==
    /\ Init
    /\ tls \in BOOLEAN
    /\ sslpc = "idle"
    /\ m_pSSL = NULL /\ m_pCTXSSL = NULL
    /\ session = [s \in Sessions |-> NoSession]
    /\ secured = FALSE /\ halfway = FALSE /\ reconnected = FALSE /\ misused = {}

-----------------------------------------------------------------------------
(* Connect: TCP, then the context and its files, then the handshake.       *)

(* CTCPClient::Connect ends a connection that is there, but not its        *)
(* session.                                                                *)
SSLConnectBegins ==
    /\ tls /\ sslpc = "idle"
    /\ ConnectBegins
    /\ sslpc' = "tcp"
    /\ secured' = FALSE
    /\ reconnected' = (reconnected \/ m_pSSL # NULL)
    /\ UNCHANGED <<tls, pointers, session, halfway, misused>>

TCPConnects == tls /\ ConnectStep /\ UNCHANGED sslVars

TCPConnectFails ==
    /\ tls /\ sslpc = "tcp" /\ pc = "idle" /\ m_eStatus # "CONNECTED"
    /\ sslpc' = "idle"
    /\ UNCHANGED <<vars, tls, pointers, session, history>>

Reached(where) == tls /\ sslpc = where /\ pc = "idle" /\ m_eStatus = "CONNECTED" /\ UNCHANGED vars

Continue(where) == sslpc' = where /\ UNCHANGED <<tls, history>>

(* return false, and the TCP connection stays. *)
GiveUp == sslpc' = "idle" /\ halfway' = TRUE /\ UNCHANGED <<tls, secured, reconnected, misused>>

SetUpCtxClient ==
    /\ Reached("tcp")
    /\ \E s \in Unused(session) : session' = SetUpCtx(session, s) /\ m_pCTXSSL' = s
    /\ Continue("load")
    /\ UNCHANGED m_pSSL

SetUpCtxClientFails ==
    /\ Reached("tcp")
    /\ m_pCTXSSL' = NULL
    /\ GiveUp
    /\ UNCHANGED <<m_pSSL, session>>

(* The certificate, the CA or the key is not what OpenSSL wants. *)
LoadFails ==
    /\ Reached("load")
    /\ GiveUp
    /\ UNCHANGED <<pointers, session>>

(* Mutant: a session that is there is kept. *)
SSLNewOnce ==
    /\ Reached("load")
    /\ IF m_pSSL # NULL THEN UNCHANGED <<m_pSSL, session>>
       ELSE m_pSSL' = m_pCTXSSL /\ session' = SetUpSSL(session, m_pCTXSSL, m_ConnectSocket)
    /\ Continue("handshake")
    /\ UNCHANGED m_pCTXSSL

SSLNew ==
    /\ Reached("load")
    /\ m_pSSL' = m_pCTXSSL
    /\ session' = SetUpSSL(session, m_pCTXSSL, m_ConnectSocket)
    /\ Continue("handshake")
    /\ UNCHANGED m_pCTXSSL

SSLConnectSucceeds ==
    /\ Reached("handshake")
    /\ session' = EndHandshake(session, m_pSSL, "ready")
    /\ sslpc' = "idle" /\ secured' = TRUE
    /\ UNCHANGED <<tls, pointers, halfway, reconnected, misused>>

SSLConnectFails ==
    /\ Reached("handshake")
    /\ session' = EndHandshake(session, m_pSSL, "broken")
    /\ GiveUp
    /\ UNCHANGED pointers

-----------------------------------------------------------------------------
(* The rest.  OpenSSL may crash on a null pointer: here that is put down,  *)
(* and the program goes on.                                                *)

(* Mutant: m_pSSL is not reset. *)
SSLDisconnectKeepsPointer ==
    /\ tls /\ sslpc = "idle" /\ m_eStatus = "CONNECTED"
    /\ session' = ShutdownSSL(session, m_pSSL, m_pCTXSSL)
    /\ misused' = IF m_pSSL = NULL THEN misused
                                   ELSE misused \cup Misuse(session, m_pSSL, m_pCTXSSL)
    /\ Disconnect
    /\ secured' = FALSE
    /\ UNCHANGED <<tls, sslpc, pointers, halfway, reconnected>>

(* Also what the destructor does. *)
SSLDisconnect ==
    /\ tls /\ sslpc = "idle" /\ m_eStatus = "CONNECTED"
    /\ session' = ShutdownSSL(session, m_pSSL, m_pCTXSSL)
    /\ misused' = IF m_pSSL = NULL THEN misused
                                   ELSE misused \cup Misuse(session, m_pSSL, m_pCTXSSL)
    /\ m_pSSL' = NULL
    /\ Disconnect
    /\ secured' = FALSE
    /\ UNCHANGED <<tls, sslpc, m_pCTXSSL, halfway, reconnected>>

(* Send and Receive: only the TCP client is asked whether they may. *)
SSLTransfer ==
    /\ tls /\ sslpc = "idle" /\ m_eStatus = "CONNECTED"
    /\ misused' = misused \cup Misuse(session, m_pSSL, m_pCTXSSL)
    /\ UNCHANGED <<vars, tls, sslpc, pointers, session, secured, halfway, reconnected>>

PlainClient == ~tls /\ (ConnectBegins \/ ConnectStep \/ Disconnect \/ Transfer) /\ UNCHANGED sslVars
Timeouts == sslpc = "idle" /\ SetTimeout /\ UNCHANGED sslVars
Others == (\E fd \in Fds : OtherOpens(fd) \/ OtherCloses(fd)) /\ UNCHANGED sslVars

SSLNext ==
    \/ SSLConnectBegins \/ TCPConnects \/ TCPConnectFails
    \/ SetUpCtxClient \/ SetUpCtxClientFails \/ LoadFails
    \/ SSLNew \/ SSLConnectSucceeds \/ SSLConnectFails
    \/ SSLDisconnect \/ SSLTransfer
    \/ PlainClient \/ Timeouts \/ Others

SSLSpec == SSLInit /\ [][SSLNext]_allVars

(* For either client: connect() returns in the end, by its own timeout if  *)
(* need be; socket() either gives a descriptor or fails at once.  A        *)
(* handshake may take for ever.                                            *)
SSLFairSpec == SSLSpec /\ WF_allVars(ConnectStep /\ UNCHANGED sslVars)

-----------------------------------------------------------------------------
(* Properties. *)

(* Every variable has its type, the TCP client's as well, and nothing is   *)
(* freed more often than it is referred to.                                *)
SSLTypeOK ==
    /\ TypeOK
    /\ tls \in BOOLEAN /\ secured \in BOOLEAN /\ halfway \in BOOLEAN /\ reconnected \in BOOLEAN
    /\ sslpc \in {"idle", "tcp", "load", "handshake"}
    /\ m_pSSL \in Sessions \cup {NULL} /\ m_pCTXSSL \in Sessions \cup {NULL}
    /\ SessionsOK(session, Fds)
    /\ misused \subseteq {"null", "freed", "stale"}

(* A client whose Connect returned true has, until it disconnects or       *)
(* connects again, a session that is ready, on its own open connection.    *)
TrueMeansSecured ==
    secured => /\ m_eStatus = "CONNECTED" /\ m_pSSL # NULL
               /\ session[m_pSSL].state = "ready"
               /\ session[m_pSSL].fd = m_ConnectSocket

(* No session is used, or freed, after it was freed.  A null pointer is    *)
(* only used after a Connect that failed half-way, and the session of      *)
(* another connection only if, besides, a Connect began without the        *)
(* Disconnect of the one before it.                                        *)
SessionsAreUsable ==
    /\ "freed" \notin misused
    /\ "null" \in misused => halfway
    /\ "stale" \in misused => halfway /\ reconnected

(* As long as no Connect fails half-way or begins on a connection, the     *)
(* client has one session at most, and none when it is not connected.      *)
NoSessionLost ==
    ~halfway /\ ~reconnected =>
        \A s \in Sessions : session[s].refs > 0 =>
            s = m_pCTXSSL /\ (m_eStatus = "CONNECTED" \/ sslpc # "idle")
=============================================================================
