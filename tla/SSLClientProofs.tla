--------------------------- MODULE SSLClientProofs ---------------------------
(***************************************************************************)
(* What TCPClient promises, for any descriptors and any number of          *)
(* addresses, and what SSLClient makes of it, for any SSL structures too.  *)
(***************************************************************************)
EXTENDS SSLClient, TLAPS

-----------------------------------------------------------------------------
(* CTCPClient. *)

IInv == TypeOK /\ NothingLeaked /\ BytesStayHome

(* At first nothing is open and nobody is connected. *)
LEMMA InitIInv == Init => IInv
BY InvalidIsNoDescriptor, AddressesAssumption
   DEF Init, IInv, TypeOK, NothingLeaked, BytesStayHome

(* Disconnect, also as the first thing Connect does, leaves nothing open   *)
(* and no marks behind.                                                    *)
LEMMA DisconnectIInv ==
    ASSUME IInv, pc = "idle", DoDisconnect,
           pc' \in {"idle", "getaddrinfo"}, UNCHANGED <<m_pResultAddrInfo, left>>,
           pc' = "getaddrinfo" => m_eStatus' = "DISCONNECTED"
    PROVE  IInv'
<1>1. CASE m_eStatus = "CONNECTED"
  BY <1>1, InvalidIsNoDescriptor
     DEF DoDisconnect, Close, IInv, TypeOK, NothingLeaked, BytesStayHome
<1>2. CASE m_eStatus # "CONNECTED"
  BY <1>2 DEF DoDisconnect, IInv, TypeOK, NothingLeaked, BytesStayHome
<1> QED BY <1>1, <1>2

(* Giving up an address, with no socket of the client open any more.       *)
LEMMA NextAddressIInv ==
    ASSUME IInv, pc \in {"socket", "connect"}, NextAddress,
           m_ConnectSocket' \in Fds \cup {INVALID},
           kind' \in [Fds -> {"free", "created", "connected", "other"}],
           \A fd \in Fds : kind'[fd] \notin {"created", "connected"},
           marks' \in [Fds -> SUBSET {"bytes", "timeout"}],
           \A fd \in Fds : marks'[fd] \subseteq marks[fd]
    PROVE  IInv'
<1>1. left' \in 0 .. MaxAddresses /\ (pc' = "socket" => left' > 0) /\ pc' \in {"idle", "socket"}
  BY AddressesAssumption DEF NextAddress, IInv, TypeOK
<1>2. m_eStatus' = "DISCONNECTED"
  BY DEF NextAddress, IInv, TypeOK
<1>3. TypeOK'
  BY <1>1, <1>2 DEF NextAddress, IInv, TypeOK
<1>4. NothingLeaked' /\ BytesStayHome'
  BY <1>1, <1>2 DEF NextAddress, IInv, TypeOK, NothingLeaked, BytesStayHome
<1> QED BY <1>3, <1>4 DEF IInv

(* Every step keeps the invariant. *)
LEMMA NextIInv == IInv /\ [Next]_vars => IInv'
<1> SUFFICES ASSUME IInv, [Next]_vars PROVE IInv'
  OBVIOUS
<1>1. CASE ConnectBegins
  BY <1>1, DisconnectIInv DEF ConnectBegins, DoDisconnect, IInv, TypeOK
<1>2. CASE Disconnect
  BY <1>2, DisconnectIInv DEF Disconnect
<1>3. CASE Resolve
  BY <1>3 DEF Resolve, IInv, TypeOK, NothingLeaked, BytesStayHome
<1>4. CASE ResolveFails
  BY <1>4 DEF ResolveFails, IInv, TypeOK, NothingLeaked, BytesStayHome
<1>5. CASE Socket
  BY <1>5, InvalidIsNoDescriptor
     DEF Socket, Open, IInv, TypeOK, NothingLeaked, BytesStayHome
<1>6. CASE SocketFails
  BY <1>6, NextAddressIInv DEF SocketFails, IInv, TypeOK, NothingLeaked
<1>7. CASE ConnectSucceeds
  BY <1>7, AddressesAssumption
     DEF ConnectSucceeds, IInv, TypeOK, NothingLeaked, BytesStayHome
<1>8. CASE ConnectFails
  BY <1>8, NextAddressIInv DEF ConnectFails, Close, IInv, TypeOK, NothingLeaked
<1>9. CASE Transfer
  BY <1>9 DEF Transfer, Mark, clientVars, IInv, TypeOK, NothingLeaked, BytesStayHome
<1>10. CASE SetTimeout
  BY <1>10 DEF SetTimeout, Mark, clientVars, IInv, TypeOK, NothingLeaked, BytesStayHome
<1>11. CASE \E fd \in Fds : OtherOpens(fd)
  BY <1>11 DEF OtherOpens, Open, clientVars, IInv, TypeOK, NothingLeaked, BytesStayHome
<1>12. CASE \E fd \in Fds : OtherCloses(fd)
  BY <1>12 DEF OtherCloses, Close, clientVars, IInv, TypeOK, NothingLeaked, BytesStayHome
<1>13. CASE UNCHANGED vars
  BY <1>13 DEF vars, clientVars, IInv, TypeOK, NothingLeaked, BytesStayHome
<1> QED
  BY <1>1, <1>2, <1>3, <1>4, <1>5, <1>6, <1>7, <1>8, <1>9, <1>10, <1>11, <1>12, <1>13
     DEF Next, ConnectStep

(* The three invariants hold in every behaviour. *)
THEOREM Invariant == Spec => []IInv
BY InitIInv, NextIInv, PTL DEF Spec

(* The status tells the truth, and connect() is called on a new socket.    *)
THEOREM TypeCorrect == Spec => []TypeOK
<1>1. IInv => TypeOK
  BY DEF IInv
<1> QED BY Invariant, <1>1, PTL

(* No failure and no number of Connects leaks a descriptor or a list.      *)
THEOREM LeaksNothing == Spec => []NothingLeaked
<1>1. IInv => NothingLeaked
  BY DEF IInv
<1> QED BY Invariant, <1>1, PTL

(* Bytes only pass through the client's own connection. *)
THEOREM BytesAtHome == Spec => []BytesStayHome
<1>1. IInv => BytesStayHome
  BY DEF IInv
<1> QED BY Invariant, <1>1, PTL

(* The client closes no descriptor that is not its own: where it closes    *)
(* one, the invariant says that the number is its connection or the socket *)
(* it has just made.                                                       *)
THEOREM OthersKept == Spec => OthersStayOpen
<1>1. IInv /\ [Next]_vars =>
        [\A fd \in Fds : kind[fd] = "other" /\ kind'[fd] # "other" => OtherCloses(fd)]_vars
  <2> SUFFICES ASSUME IInv, Next, NEW fd \in Fds, kind[fd] = "other", kind'[fd] # "other"
               PROVE  OtherCloses(fd)
    OBVIOUS
  <2>1. ~ ConnectBegins /\ ~ Disconnect
    BY DEF ConnectBegins, Disconnect, DoDisconnect, Close, IInv, TypeOK
  <2>2. ~ ConnectStep
    BY DEF ConnectStep, Resolve, ResolveFails, Socket, SocketFails, ConnectSucceeds,
           ConnectFails, Open, Close, IInv, TypeOK
  <2>3. ~ Transfer /\ ~ SetTimeout
    BY DEF Transfer, SetTimeout
  <2>4. PICK f \in Fds : OtherOpens(f) \/ OtherCloses(f)
    BY <2>1, <2>2, <2>3 DEF Next
  <2>5. ~ OtherOpens(f)
    BY DEF OtherOpens, Open, IInv, TypeOK
  <2>6. f = fd
    BY <2>4, <2>5 DEF OtherCloses, Close, IInv, TypeOK
  <2> QED BY <2>4, <2>5, <2>6
<1> QED BY Invariant, <1>1, PTL DEF Spec, OthersStayOpen

-----------------------------------------------------------------------------
(* CTCPSSLClient.  Its sessions are not those of the TCP client, so what   *)
(* the two say of each other is an invariant of its own.                   *)

(* A step of the TLS client is a step of the TCP client, or leaves it be.  *)
LEMMA StepOfClient == [SSLNext]_allVars => [Next]_vars
BY DEF SSLNext, allVars, Next, SSLConnectBegins, TCPConnects, TCPConnectFails, Reached,
       SetUpCtxClient, SetUpCtxClientFails, LoadFails, SSLNew, SSLConnectSucceeds,
       SSLConnectFails, SSLDisconnect, SSLTransfer, PlainClient, Timeouts, Others

(* The TLS client uses the TCP client as any program may. *)
THEOREM ClientIsUsed == SSLSpec => Spec
<1>1. SSLInit => Init
  BY DEF SSLInit
<1> QED BY <1>1, StepOfClient, PTL DEF SSLSpec, Spec

(* So both kinds of client leak nothing of the TCP layer, *)
THEOREM SecureLeaksNothing == SSLSpec => []NothingLeaked
BY ClientIsUsed, LeaksNothing, PTL

(* and close no descriptor of others. *)
THEOREM SecureOthersKept == SSLSpec => OthersStayOpen
BY ClientIsUsed, OthersKept

(* Where the two clients are: only a TLS client has a Connect of its own,  *)
(* and behind tcp the TCP client rests, connected.                         *)
PlaceInv ==
    /\ ~tls => /\ sslpc = "idle" /\ ~secured /\ m_pSSL = NULL
               /\ \A s \in Sessions : session[s].refs = 0
    /\ tls /\ pc # "idle" => sslpc = "tcp"
    /\ sslpc \in {"load", "handshake"} => pc = "idle" /\ m_eStatus = "CONNECTED"
    /\ secured => sslpc = "idle"

(* The pointers: an SSL that is there has its own reference and that of    *)
(* its SSL_CTX; an SSL_CTX of a later Connect has only the one.            *)
PointerInv ==
    /\ m_pSSL # NULL => /\ session[m_pSSL].refs = 2 /\ session[m_pSSL].state # "none"
                        /\ m_pCTXSSL \notin {m_pSSL, NULL} => session[m_pCTXSSL].refs = 1
    /\ sslpc = "load" => m_pCTXSSL \notin {m_pSSL, NULL} /\ session[m_pCTXSSL].refs = 1
    /\ sslpc = "handshake" => /\ m_pSSL # NULL /\ m_pSSL = m_pCTXSSL
                              /\ session[m_pSSL].fd = m_ConnectSocket

(* Why a pointer is null, or not that of the connection, when the client   *)
(* is connected.                                                           *)
CauseInv ==
    /\ tls /\ sslpc = "idle" /\ m_eStatus = "CONNECTED" /\ m_pSSL = NULL => halfway
    /\ m_pSSL # m_pCTXSSL /\ m_pSSL # NULL => reconnected /\ (halfway \/ sslpc = "load")
    /\ sslpc \in {"tcp", "load"} /\ m_pSSL # NULL => reconnected
    /\ ~halfway /\ ~reconnected /\ sslpc = "tcp" => \A s \in Sessions : session[s].refs = 0

SSLInv ==
    SSLTypeOK /\ PlaceInv /\ PointerInv /\ CauseInv
    /\ TrueMeansSecured /\ SessionsAreUsable /\ NoSessionLost

(* At first there is nothing. *)
LEMMA InitSSLInv == SSLInit => SSLInv
<1> SUFFICES ASSUME SSLInit PROVE SSLInv
  OBVIOUS
<1>1. TypeOK
  BY InitIInv DEF SSLInit, IInv
<1>2. SessionsOK(session, Fds)
  BY DEF SSLInit, SessionsOK, NoSession
<1>3. SSLTypeOK
  BY <1>1, <1>2 DEF SSLInit, SSLTypeOK
<1>5. \A s \in Sessions : session[s].refs = 0
  BY DEF SSLInit, NoSession
<1>4. PlaceInv
  BY <1>5 DEF SSLInit, Init, PlaceInv
<1>6. PointerInv /\ CauseInv
  BY <1>5 DEF SSLInit, Init, PointerInv, CauseInv
<1>7. TrueMeansSecured /\ SessionsAreUsable
  BY DEF SSLInit, TrueMeansSecured, SessionsAreUsable
<1>8. NoSessionLost
  BY <1>5 DEF NoSessionLost
<1> QED BY <1>3, <1>4, <1>6, <1>7, <1>8 DEF SSLInv

(* What Disconnect leaves of a client that keeps the invariant: its SSL is *)
(* gone, and with it the SSL_CTX, or the one a later Connect made.         *)
LEMMA ShutdownKeeps ==
    ASSUME SessionsOK(session, Fds), PointerInv, m_pSSL \in Sessions, m_pCTXSSL \in Sessions \cup {NULL},
           session' = ShutdownSSL(session, m_pSSL, m_pCTXSSL)
    PROVE  /\ SessionsOK(session', Fds)
           /\ \A s \in Sessions \ {m_pSSL} : session'[s].refs <= session[s].refs
           /\ m_pSSL = m_pCTXSSL => session'[m_pSSL].refs = 0
<1> DEFINE refs(s) == session[s].refs - (IF s = m_pSSL THEN 1 ELSE 0) - (IF s = m_pCTXSSL THEN 1 ELSE 0)
           after(s) == IF refs(s) = 0 THEN NoSession
                       ELSE IF s = m_pSSL THEN [NoSession EXCEPT !.refs = refs(s)]
                       ELSE [session[s] EXCEPT !.refs = refs(s)]
<1>1. m_pSSL # NULL
  BY NullIsNoSession
<1>2. session' = [s \in Sessions |-> after(s)]
  BY <1>1 DEF ShutdownSSL
<1>3. ASSUME NEW s \in Sessions
      PROVE  /\ refs(s) \in 0 .. 2 /\ refs(s) <= session[s].refs
             /\ session[s].refs = 0 => refs(s) = 0 /\ s # m_pSSL
             /\ s = m_pSSL /\ m_pSSL = m_pCTXSSL => refs(s) = 0
  BY <1>1, NullIsNoSession DEF SessionsOK, PointerInv
<1>4. ASSUME NEW s \in Sessions
      PROVE  /\ after(s) \in [refs : 0 .. 2, state : {"none", "new", "ready", "broken"}, fd : Fds \cup {NULL}]
             /\ after(s).refs = refs(s)
             /\ refs(s) = 0 => after(s) = NoSession
  BY <1>3 DEF NoSession, SessionsOK
<1> HIDE DEF after, refs
<1>5. SessionsOK(session', Fds)
  BY <1>2, <1>4 DEF SessionsOK
<1>6. \A s \in Sessions \ {m_pSSL} : session'[s].refs <= session[s].refs
  BY <1>2, <1>3, <1>4
<1>7. m_pSSL = m_pCTXSSL => session'[m_pSSL].refs = 0
  BY <1>2, <1>3, <1>4
<1> QED BY <1>5, <1>6, <1>7

(* A new Connect: a session still there is the reconnected of CauseInv.  *)
LEMMA ConnectBeginsKeeps == ASSUME SSLInv, TypeOK', SSLConnectBegins PROVE SSLInv'
<1>1. SSLTypeOK'
  BY DEF SSLConnectBegins, ConnectBegins, DoDisconnect, pointers, SSLInv, SSLTypeOK
<1>2. PlaceInv'
  BY DEF SSLConnectBegins, ConnectBegins, DoDisconnect, pointers, SSLInv, SSLTypeOK, PlaceInv
<1>3. PointerInv'
  BY DEF SSLConnectBegins, ConnectBegins, DoDisconnect, pointers, SSLInv, SSLTypeOK, PlaceInv, PointerInv, SessionsOK
<1>4. CauseInv'
  <2>1. m_pSSL # NULL => reconnected'
    BY DEF SSLConnectBegins
  <2>2. ~halfway' /\ ~reconnected' => \A s \in Sessions : session'[s].refs = 0
    BY <2>1 DEF SSLConnectBegins, ConnectBegins, pointers, SSLInv, SSLTypeOK, SessionsOK, CauseInv,
                NoSessionLost
  <2>3. m_pSSL' # m_pCTXSSL' /\ m_pSSL' # NULL => reconnected' /\ halfway'
    BY DEF SSLConnectBegins, pointers, SSLInv, CauseInv
  <2> QED BY <2>1, <2>2, <2>3 DEF SSLConnectBegins, pointers, CauseInv
<1>5. TrueMeansSecured'
  BY DEF SSLConnectBegins, ConnectBegins, DoDisconnect, pointers, SSLInv, PlaceInv, PointerInv, TrueMeansSecured
<1>6. SessionsAreUsable'
  BY DEF SSLConnectBegins, ConnectBegins, DoDisconnect, pointers, SSLInv, SessionsAreUsable, CauseInv, PointerInv, SSLTypeOK, PlaceInv
<1>7. NoSessionLost'
  BY DEF SSLConnectBegins, ConnectBegins, DoDisconnect, pointers, SSLInv, PlaceInv, PointerInv, CauseInv, NoSessionLost, SSLTypeOK, SessionsOK
<1> QED BY <1>1, <1>2, <1>3, <1>4, <1>5, <1>6, <1>7 DEF SSLInv

(* The TCP client's own steps, while the TLS client waits for it.        *)
LEMMA TCPConnectsKeeps == ASSUME SSLInv, TypeOK', TCPConnects PROVE SSLInv'
<1>1. SSLTypeOK'
  BY DEF TCPConnects, ConnectStep, Resolve, ResolveFails, Socket, SocketFails, ConnectSucceeds, ConnectFails, sslVars, pointers, history, SSLInv, SSLTypeOK
<1>2. PlaceInv'
  BY DEF TCPConnects, ConnectStep, Resolve, ResolveFails, Socket, SocketFails, ConnectSucceeds, ConnectFails, sslVars, pointers, history, SSLInv, SSLTypeOK, PlaceInv
<1>3. PointerInv'
  BY DEF TCPConnects, ConnectStep, Resolve, ResolveFails, Socket, SocketFails, ConnectSucceeds, ConnectFails, sslVars, pointers, history, SSLInv, SSLTypeOK, PlaceInv, PointerInv, SessionsOK
<1>4. CauseInv'
  BY DEF TCPConnects, ConnectStep, Resolve, ResolveFails, Socket, SocketFails, ConnectSucceeds, ConnectFails, sslVars, pointers, history, SSLInv, SSLTypeOK, PlaceInv, CauseInv, NoSessionLost
<1>5. TrueMeansSecured'
  BY DEF TCPConnects, ConnectStep, Resolve, ResolveFails, Socket, SocketFails, ConnectSucceeds, ConnectFails, sslVars, pointers, history, SSLInv, PlaceInv, PointerInv, TrueMeansSecured
<1>6. SessionsAreUsable'
  BY DEF TCPConnects, ConnectStep, Resolve, ResolveFails, Socket, SocketFails, ConnectSucceeds, ConnectFails, sslVars, pointers, history, SSLInv, SessionsAreUsable, CauseInv, PointerInv, SSLTypeOK, PlaceInv
<1>7. NoSessionLost'
  BY DEF TCPConnects, ConnectStep, Resolve, ResolveFails, Socket, SocketFails, ConnectSucceeds, ConnectFails, sslVars, pointers, history, SSLInv, PlaceInv, PointerInv, CauseInv, NoSessionLost, SSLTypeOK, SessionsOK
<1> QED BY <1>1, <1>2, <1>3, <1>4, <1>5, <1>6, <1>7 DEF SSLInv

(* No connection: nothing was made.                                      *)
LEMMA TCPConnectFailsKeeps == ASSUME SSLInv, TypeOK', TCPConnectFails PROVE SSLInv'
<1>1. SSLTypeOK'
  BY DEF TCPConnectFails, vars, clientVars, pointers, history, SSLInv, SSLTypeOK
<1>2. PlaceInv'
  BY DEF TCPConnectFails, vars, clientVars, pointers, history, SSLInv, SSLTypeOK, PlaceInv
<1>3. PointerInv'
  BY DEF TCPConnectFails, vars, clientVars, pointers, history, SSLInv, SSLTypeOK, PlaceInv, PointerInv, SessionsOK
<1>4. CauseInv'
  BY DEF TCPConnectFails, vars, clientVars, pointers, history, SSLInv, SSLTypeOK, PlaceInv, CauseInv, NoSessionLost
<1>5. TrueMeansSecured'
  BY DEF TCPConnectFails, vars, clientVars, pointers, history, SSLInv, PlaceInv, PointerInv, TrueMeansSecured
<1>6. SessionsAreUsable'
  BY DEF TCPConnectFails, vars, clientVars, pointers, history, SSLInv, SessionsAreUsable, CauseInv, PointerInv, SSLTypeOK, PlaceInv
<1>7. NoSessionLost'
  BY DEF TCPConnectFails, vars, clientVars, pointers, history, SSLInv, PlaceInv, PointerInv, CauseInv, NoSessionLost, SSLTypeOK, SessionsOK
<1> QED BY <1>1, <1>2, <1>3, <1>4, <1>5, <1>6, <1>7 DEF SSLInv

(* No SSL_CTX: the connection stays without one.                         *)
LEMMA SetUpFailsKeeps == ASSUME SSLInv, TypeOK', SetUpCtxClientFails PROVE SSLInv'
<1>1. SSLTypeOK'
  BY DEF SetUpCtxClientFails, Reached, GiveUp, vars, clientVars, SSLInv, SSLTypeOK
<1>2. PlaceInv'
  BY DEF SetUpCtxClientFails, Reached, GiveUp, vars, clientVars, SSLInv, SSLTypeOK, PlaceInv
<1>3. PointerInv'
  BY DEF SetUpCtxClientFails, Reached, GiveUp, vars, clientVars, SSLInv, SSLTypeOK, PlaceInv, PointerInv, SessionsOK
<1>4. CauseInv'
  BY DEF SetUpCtxClientFails, Reached, GiveUp, vars, clientVars, SSLInv, SSLTypeOK, PlaceInv, CauseInv, NoSessionLost
<1>5. TrueMeansSecured'
  BY DEF SetUpCtxClientFails, Reached, GiveUp, vars, clientVars, SSLInv, PlaceInv, PointerInv, TrueMeansSecured
<1>6. SessionsAreUsable'
  BY DEF SetUpCtxClientFails, Reached, GiveUp, vars, clientVars, SSLInv, SessionsAreUsable, CauseInv, PointerInv, SSLTypeOK, PlaceInv
<1>7. NoSessionLost'
  BY DEF SetUpCtxClientFails, Reached, GiveUp, vars, clientVars, SSLInv, PlaceInv, PointerInv, CauseInv, NoSessionLost, SSLTypeOK, SessionsOK
<1> QED BY <1>1, <1>2, <1>3, <1>4, <1>5, <1>6, <1>7 DEF SSLInv

(* No certificate, CA or key: the connection stays with an SSL_CTX only. *)
LEMMA LoadFailsKeeps == ASSUME SSLInv, TypeOK', LoadFails PROVE SSLInv'
<1>1. SSLTypeOK'
  BY DEF LoadFails, Reached, GiveUp, vars, clientVars, pointers, SSLInv, SSLTypeOK
<1>2. PlaceInv'
  BY DEF LoadFails, Reached, GiveUp, vars, clientVars, pointers, SSLInv, SSLTypeOK, PlaceInv
<1>3. PointerInv'
  BY DEF LoadFails, Reached, GiveUp, vars, clientVars, pointers, SSLInv, SSLTypeOK, PlaceInv, PointerInv, SessionsOK
<1>4. CauseInv'
  BY DEF LoadFails, Reached, GiveUp, vars, clientVars, pointers, SSLInv, SSLTypeOK, PlaceInv, CauseInv, NoSessionLost
<1>5. TrueMeansSecured'
  BY DEF LoadFails, Reached, GiveUp, vars, clientVars, pointers, SSLInv, PlaceInv, PointerInv, TrueMeansSecured
<1>6. SessionsAreUsable'
  BY DEF LoadFails, Reached, GiveUp, vars, clientVars, pointers, SSLInv, SessionsAreUsable, CauseInv, PointerInv, SSLTypeOK, PlaceInv
<1>7. NoSessionLost'
  BY DEF LoadFails, Reached, GiveUp, vars, clientVars, pointers, SSLInv, PlaceInv, PointerInv, CauseInv, NoSessionLost, SSLTypeOK, SessionsOK
<1> QED BY <1>1, <1>2, <1>3, <1>4, <1>5, <1>6, <1>7 DEF SSLInv

(* Send and Receive say what is wrong with the pointer, if anything.     *)
LEMMA TransferKeeps == ASSUME SSLInv, TypeOK', SSLTransfer PROVE SSLInv'
<1>1. SSLTypeOK'
  BY DEF SSLTransfer, Misuse, vars, clientVars, pointers, SSLInv, SSLTypeOK
<1>2. PlaceInv'
  BY DEF SSLTransfer, Misuse, vars, clientVars, pointers, SSLInv, SSLTypeOK, PlaceInv
<1>3. PointerInv'
  BY DEF SSLTransfer, Misuse, vars, clientVars, pointers, SSLInv, SSLTypeOK, PlaceInv, PointerInv, SessionsOK
<1>4. CauseInv'
  BY DEF SSLTransfer, Misuse, vars, clientVars, pointers, SSLInv, SSLTypeOK, PlaceInv, CauseInv, NoSessionLost
<1>5. TrueMeansSecured'
  BY DEF SSLTransfer, Misuse, vars, clientVars, pointers, SSLInv, PlaceInv, PointerInv, TrueMeansSecured
<1>6. SessionsAreUsable'
  BY DEF SSLTransfer, Misuse, vars, clientVars, pointers, SSLInv, SessionsAreUsable, CauseInv, PointerInv, SSLTypeOK, PlaceInv
<1>7. NoSessionLost'
  BY DEF SSLTransfer, Misuse, vars, clientVars, pointers, SSLInv, PlaceInv, PointerInv, CauseInv, NoSessionLost, SSLTypeOK, SessionsOK
<1> QED BY <1>1, <1>2, <1>3, <1>4, <1>5, <1>6, <1>7 DEF SSLInv

(* A plain client has no session to lose.                                *)
LEMMA PlainKeeps == ASSUME SSLInv, TypeOK', PlainClient PROVE SSLInv'
<1>1. SSLTypeOK'
  BY DEF PlainClient, sslVars, pointers, history, SSLInv, SSLTypeOK
<1>2. PlaceInv'
  BY DEF PlainClient, sslVars, pointers, history, SSLInv, SSLTypeOK, PlaceInv
<1>3. PointerInv'
  BY DEF PlainClient, sslVars, pointers, history, SSLInv, SSLTypeOK, PlaceInv, PointerInv, SessionsOK
<1>4. CauseInv'
  BY DEF PlainClient, sslVars, pointers, history, SSLInv, SSLTypeOK, PlaceInv, CauseInv, NoSessionLost
<1>5. TrueMeansSecured'
  BY DEF PlainClient, sslVars, pointers, history, SSLInv, PlaceInv, PointerInv, TrueMeansSecured
<1>6. SessionsAreUsable'
  BY DEF PlainClient, sslVars, pointers, history, SSLInv, SessionsAreUsable, CauseInv, PointerInv, SSLTypeOK, PlaceInv
<1>7. NoSessionLost'
  BY DEF PlainClient, sslVars, pointers, history, SSLInv, PlaceInv, PointerInv, CauseInv, NoSessionLost, SSLTypeOK, SessionsOK
<1> QED BY <1>1, <1>2, <1>3, <1>4, <1>5, <1>6, <1>7 DEF SSLInv

(* Timeouts change nothing here.                                         *)
LEMMA TimeoutsKeep == ASSUME SSLInv, TypeOK', Timeouts PROVE SSLInv'
<1>1. SSLTypeOK'
  BY DEF Timeouts, SetTimeout, clientVars, sslVars, pointers, history, SSLInv, SSLTypeOK
<1>2. PlaceInv'
  BY DEF Timeouts, SetTimeout, clientVars, sslVars, pointers, history, SSLInv, SSLTypeOK, PlaceInv
<1>3. PointerInv'
  BY DEF Timeouts, SetTimeout, clientVars, sslVars, pointers, history, SSLInv, SSLTypeOK, PlaceInv, PointerInv, SessionsOK
<1>4. CauseInv'
  BY DEF Timeouts, SetTimeout, clientVars, sslVars, pointers, history, SSLInv, SSLTypeOK, PlaceInv, CauseInv, NoSessionLost
<1>5. TrueMeansSecured'
  BY DEF Timeouts, SetTimeout, clientVars, sslVars, pointers, history, SSLInv, PlaceInv, PointerInv, TrueMeansSecured
<1>6. SessionsAreUsable'
  BY DEF Timeouts, SetTimeout, clientVars, sslVars, pointers, history, SSLInv, SessionsAreUsable, CauseInv, PointerInv, SSLTypeOK, PlaceInv
<1>7. NoSessionLost'
  BY DEF Timeouts, SetTimeout, clientVars, sslVars, pointers, history, SSLInv, PlaceInv, PointerInv, CauseInv, NoSessionLost, SSLTypeOK, SessionsOK
<1> QED BY <1>1, <1>2, <1>3, <1>4, <1>5, <1>6, <1>7 DEF SSLInv

(* Nor does the rest of the process.                                     *)
LEMMA OthersKeep == ASSUME SSLInv, TypeOK', Others PROVE SSLInv'
<1>1. SSLTypeOK'
  BY DEF Others, OtherOpens, OtherCloses, clientVars, sslVars, pointers, history, SSLInv, SSLTypeOK
<1>2. PlaceInv'
  BY DEF Others, OtherOpens, OtherCloses, clientVars, sslVars, pointers, history, SSLInv, SSLTypeOK, PlaceInv
<1>3. PointerInv'
  BY DEF Others, OtherOpens, OtherCloses, clientVars, sslVars, pointers, history, SSLInv, SSLTypeOK, PlaceInv, PointerInv, SessionsOK
<1>4. CauseInv'
  BY DEF Others, OtherOpens, OtherCloses, clientVars, sslVars, pointers, history, SSLInv, SSLTypeOK, PlaceInv, CauseInv, NoSessionLost
<1>5. TrueMeansSecured'
  BY DEF Others, OtherOpens, OtherCloses, clientVars, sslVars, pointers, history, SSLInv, PlaceInv, PointerInv, TrueMeansSecured
<1>6. SessionsAreUsable'
  BY DEF Others, OtherOpens, OtherCloses, clientVars, sslVars, pointers, history, SSLInv, SessionsAreUsable, CauseInv, PointerInv, SSLTypeOK, PlaceInv
<1>7. NoSessionLost'
  BY DEF Others, OtherOpens, OtherCloses, clientVars, sslVars, pointers, history, SSLInv, PlaceInv, PointerInv, CauseInv, NoSessionLost, SSLTypeOK, SessionsOK
<1> QED BY <1>1, <1>2, <1>3, <1>4, <1>5, <1>6, <1>7 DEF SSLInv

LEMMA StutterKeeps == ASSUME SSLInv, TypeOK', UNCHANGED allVars PROVE SSLInv'
<1>1. SSLTypeOK'
  BY DEF allVars, vars, clientVars, sslVars, pointers, history, SSLInv, SSLTypeOK
<1>2. PlaceInv'
  BY DEF allVars, vars, clientVars, sslVars, pointers, history, SSLInv, SSLTypeOK, PlaceInv
<1>3. PointerInv'
  BY DEF allVars, vars, clientVars, sslVars, pointers, history, SSLInv, SSLTypeOK, PlaceInv, PointerInv, SessionsOK
<1>4. CauseInv'
  BY DEF allVars, vars, clientVars, sslVars, pointers, history, SSLInv, SSLTypeOK, PlaceInv, CauseInv, NoSessionLost
<1>5. TrueMeansSecured'
  BY DEF allVars, vars, clientVars, sslVars, pointers, history, SSLInv, PlaceInv, PointerInv, TrueMeansSecured
<1>6. SessionsAreUsable'
  BY DEF allVars, vars, clientVars, sslVars, pointers, history, SSLInv, SessionsAreUsable, CauseInv, PointerInv, SSLTypeOK, PlaceInv
<1>7. NoSessionLost'
  BY DEF allVars, vars, clientVars, sslVars, pointers, history, SSLInv, PlaceInv, PointerInv, CauseInv, NoSessionLost, SSLTypeOK, SessionsOK
<1> QED BY <1>1, <1>2, <1>3, <1>4, <1>5, <1>6, <1>7 DEF SSLInv

(* A new SSL_CTX is none of those in use. *)
LEMMA SetUpKeeps == ASSUME SSLInv, TypeOK', SetUpCtxClient PROVE SSLInv'
<1>1. PICK s \in Unused(session) : session' = SetUpCtx(session, s) /\ m_pCTXSSL' = s
  BY DEF SetUpCtxClient
<1>2. s \in Sessions /\ session[s].refs = 0 /\ session[s] = NoSession /\ s # NULL /\ s # m_pSSL
  BY <1>1, NullIsNoSession DEF Unused, SSLInv, SSLTypeOK, SessionsOK, PointerInv
<1>3. /\ session'[s] = [NoSession EXCEPT !.refs = 1]
      /\ \A t \in Sessions \ {s} : session'[t] = session[t]
  BY <1>1, <1>2 DEF SetUpCtx, SSLInv, SSLTypeOK, SessionsOK
<1>4. SessionsOK(session', Fds)
  BY <1>1, <1>2, <1>3 DEF SetUpCtx, NoSession, SSLInv, SSLTypeOK, SessionsOK
<1>5. /\ pc' = "idle" /\ m_eStatus' = "CONNECTED" /\ m_ConnectSocket' = m_ConnectSocket
      /\ tls /\ tls' = tls /\ sslpc = "tcp" /\ sslpc' = "load" /\ m_pSSL' = m_pSSL
      /\ UNCHANGED <<secured, halfway, reconnected, misused>>
  BY DEF SetUpCtxClient, Reached, Continue, vars, clientVars, history
<1>6. SSLTypeOK'
  BY <1>1, <1>2, <1>4, <1>5 DEF SSLInv, SSLTypeOK
<1>7. PlaceInv' /\ TrueMeansSecured' /\ SessionsAreUsable'
  BY <1>5 DEF SSLInv, PlaceInv, TrueMeansSecured, SessionsAreUsable
<1>8. PointerInv'
  BY <1>1, <1>2, <1>3, <1>5 DEF SSLInv, SSLTypeOK, PointerInv, NoSession
<1>9. CauseInv'
  BY <1>5 DEF SSLInv, CauseInv
<1>10. NoSessionLost'
  BY <1>1, <1>3, <1>5 DEF SSLInv, CauseInv, NoSessionLost
<1> QED BY <1>6, <1>7, <1>8, <1>9, <1>10 DEF SSLInv

(* SSL_new takes the SSL_CTX just made, and the connection of now. *)
LEMMA NewKeeps == ASSUME SSLInv, TypeOK', SSLNew PROVE SSLInv'
<1>1. /\ m_pCTXSSL \in Sessions /\ m_pSSL' = m_pCTXSSL /\ m_pCTXSSL' = m_pCTXSSL
      /\ m_eStatus = "CONNECTED" /\ m_ConnectSocket \in Fds
  BY DEF SSLNew, Reached, SSLInv, SSLTypeOK, PointerInv, TypeOK
<1>2. /\ session'[m_pCTXSSL] = [refs |-> 2, state |-> "new", fd |-> m_ConnectSocket]
      /\ \A t \in Sessions \ {m_pCTXSSL} : session'[t] = session[t]
  BY <1>1 DEF SSLNew, SetUpSSL, SSLInv, SSLTypeOK, SessionsOK
<1>3. SessionsOK(session', Fds)
  BY <1>1, <1>2 DEF SSLNew, SetUpSSL, SSLInv, SSLTypeOK, SessionsOK
<1>4. /\ pc' = "idle" /\ m_eStatus' = "CONNECTED" /\ m_ConnectSocket' = m_ConnectSocket
      /\ tls /\ tls' = tls /\ sslpc = "load" /\ sslpc' = "handshake"
      /\ UNCHANGED <<secured, halfway, reconnected, misused>>
  BY DEF SSLNew, Reached, Continue, vars, clientVars, history
<1>5. SSLTypeOK'
  BY <1>1, <1>3, <1>4 DEF SSLInv, SSLTypeOK
<1>6. PlaceInv' /\ TrueMeansSecured' /\ SessionsAreUsable'
  BY <1>4 DEF SSLInv, PlaceInv, TrueMeansSecured, SessionsAreUsable
<1>7. PointerInv'
  BY <1>1, <1>2, <1>4, NullIsNoSession DEF PointerInv
<1>8. CauseInv' /\ NoSessionLost'
  BY <1>1, <1>2, <1>4 DEF SSLInv, CauseInv, NoSessionLost
<1> QED BY <1>5, <1>6, <1>7, <1>8 DEF SSLInv

(* How a handshake ends. *)
LEMMA HandshakeKeeps ==
    ASSUME SSLInv, TypeOK', SSLConnectSucceeds \/ SSLConnectFails
    PROVE  SSLInv'
<1>1. m_pSSL \in Sessions /\ m_pSSL = m_pCTXSSL /\ m_pSSL' = m_pSSL /\ m_pCTXSSL' = m_pCTXSSL
  BY DEF SSLConnectSucceeds, SSLConnectFails, Reached, pointers, SSLInv, SSLTypeOK, PointerInv
<1>2. PICK state \in {"ready", "broken"} :
          /\ session' = EndHandshake(session, m_pSSL, state)
          /\ state = "ready" => SSLConnectSucceeds
          /\ state = "broken" => SSLConnectFails
  BY DEF SSLConnectSucceeds, SSLConnectFails
<1>3. /\ session'[m_pSSL] = [session[m_pSSL] EXCEPT !.state = state]
      /\ \A t \in Sessions \ {m_pSSL} : session'[t] = session[t]
  BY <1>1, <1>2 DEF EndHandshake, SSLInv, SSLTypeOK, SessionsOK
<1>4. session[m_pSSL].refs = 2 /\ session[m_pSSL].fd = m_ConnectSocket
  BY <1>1, NullIsNoSession DEF SSLConnectSucceeds, SSLConnectFails, Reached, SSLInv, PointerInv
<1>5. SessionsOK(session', Fds)
  BY <1>1, <1>2, <1>3, <1>4 DEF EndHandshake, SSLInv, SSLTypeOK, SessionsOK
<1>6. /\ session'[m_pSSL].refs = 2 /\ session'[m_pSSL].fd = m_ConnectSocket
      /\ session'[m_pSSL].state = state
  BY <1>1, <1>3, <1>4 DEF SSLInv, SSLTypeOK, SessionsOK
<1>7. /\ pc' = "idle" /\ m_eStatus' = "CONNECTED" /\ m_ConnectSocket' = m_ConnectSocket
      /\ tls /\ tls' = tls /\ sslpc = "handshake" /\ sslpc' = "idle"
      /\ UNCHANGED <<reconnected, misused>>
  BY DEF SSLConnectSucceeds, SSLConnectFails, Reached, GiveUp, vars, clientVars
<1>8. /\ state = "ready" => secured' = TRUE /\ halfway' = halfway
      /\ state = "broken" => secured' = secured /\ halfway' = TRUE
  BY <1>2 DEF SSLConnectSucceeds, SSLConnectFails, GiveUp
<1>9. ~secured
  BY <1>7 DEF SSLInv, PlaceInv
<1>10. SSLTypeOK'
  BY <1>1, <1>5, <1>7, <1>8 DEF SSLInv, SSLTypeOK
<1>11. PlaceInv' /\ SessionsAreUsable'
  BY <1>7, <1>8 DEF SSLInv, PlaceInv, SessionsAreUsable
<1>12. PointerInv'
  BY <1>1, <1>6, <1>7 DEF PointerInv
<1>13. TrueMeansSecured'
  BY <1>1, <1>6, <1>7, <1>8, <1>9, NullIsNoSession DEF TrueMeansSecured
<1>14. CauseInv'
  BY <1>1, <1>7, <1>8, NullIsNoSession DEF SSLInv, CauseInv
<1>15. NoSessionLost'
  BY <1>1, <1>3, <1>7, <1>8 DEF SSLInv, NoSessionLost
<1> QED BY <1>10, <1>11, <1>12, <1>13, <1>14, <1>15 DEF SSLInv

(* Disconnect. *)
LEMMA SSLDisconnectKeeps == ASSUME SSLInv, TypeOK', SSLDisconnect PROVE SSLInv'
<1>1. /\ tls /\ tls' = tls /\ sslpc = "idle" /\ sslpc' = "idle" /\ m_pSSL' = NULL
      /\ m_pCTXSSL' = m_pCTXSSL /\ secured' = FALSE /\ UNCHANGED <<halfway, reconnected>>
      /\ m_eStatus = "CONNECTED" /\ m_eStatus' = "DISCONNECTED" /\ pc' = "idle"
      /\ session' = ShutdownSSL(session, m_pSSL, m_pCTXSSL)
  BY DEF SSLDisconnect, Disconnect, DoDisconnect
<1>2. /\ SessionsOK(session', Fds)
      /\ \A s \in Sessions \ {m_pSSL} : session'[s].refs <= session[s].refs
      /\ m_pSSL # NULL /\ m_pSSL = m_pCTXSSL => session'[m_pSSL].refs = 0
  <2>1. CASE m_pSSL = NULL
    BY <1>1, <2>1 DEF ShutdownSSL, SSLInv, SSLTypeOK, SessionsOK
  <2>2. CASE m_pSSL # NULL
    BY <1>1, <2>2, ShutdownKeeps DEF SSLInv, SSLTypeOK
  <2> QED BY <2>1, <2>2
<1>3. misused' \subseteq misused \cup (IF m_pSSL # m_pCTXSSL /\ m_pSSL # NULL THEN {"stale"} ELSE {})
  BY DEF SSLDisconnect, Misuse, SSLInv, PointerInv
<1>4. SSLTypeOK'
  BY <1>1, <1>2, <1>3 DEF SSLInv, SSLTypeOK
<1>5. PlaceInv' /\ TrueMeansSecured'
  BY <1>1 DEF PlaceInv, TrueMeansSecured
<1>6. PointerInv' /\ CauseInv'
  BY <1>1 DEF PointerInv, CauseInv
<1>7. SessionsAreUsable'
  BY <1>1, <1>3 DEF SSLInv, CauseInv, SessionsAreUsable
<1>8. NoSessionLost'
  <2> SUFFICES ASSUME ~halfway, ~reconnected, NEW s \in Sessions PROVE session'[s].refs = 0
    BY <1>1, <1>2 DEF NoSessionLost, SessionsOK
  <2>1. m_pSSL # NULL /\ m_pSSL = m_pCTXSSL
    BY <1>1 DEF SSLInv, CauseInv
  <2>2. CASE s = m_pSSL
    BY <1>2, <2>1, <2>2
  <2>3. CASE s # m_pSSL
    BY <1>2, <2>1, <2>3 DEF SSLInv, NoSessionLost, SSLTypeOK, SessionsOK
  <2> QED BY <2>2, <2>3
<1> QED BY <1>4, <1>5, <1>6, <1>7, <1>8 DEF SSLInv

(* Every step keeps the invariant, given that the TCP client keeps its own. *)
LEMMA StepSSLInv == SSLInv /\ TypeOK' /\ [SSLNext]_allVars => SSLInv'
BY ConnectBeginsKeeps, TCPConnectsKeeps, TCPConnectFailsKeeps, SetUpFailsKeeps, LoadFailsKeeps,
   TransferKeeps, PlainKeeps, TimeoutsKeep, OthersKeep, StutterKeeps, SetUpKeeps, NewKeeps,
   HandshakeKeeps, SSLDisconnectKeeps
   DEF SSLNext

(* The invariant holds in every behaviour. *)
THEOREM SSLInvariance == SSLSpec => []SSLInv
<1>1. SSLSpec => []TypeOK
  BY ClientIsUsed, TypeCorrect, PTL
<1> QED BY <1>1, InitSSLInv, StepSSLInv, PTL DEF SSLSpec

(* Every variable has its type: no reference is given back twice. *)
THEOREM SSLTypeCorrect == SSLSpec => []SSLTypeOK
<1>1. SSLInv => SSLTypeOK
  BY DEF SSLInv
<1> QED BY SSLInvariance, <1>1, PTL

(* A Connect that returned true secures the connection the client has.     *)
THEOREM Secured == SSLSpec => []TrueMeansSecured
<1>1. SSLInv => TrueMeansSecured
  BY DEF SSLInv
<1> QED BY SSLInvariance, <1>1, PTL

(* No freed session is used; a missing or a stale one has the reasons      *)
(* named.                                                                  *)
THEOREM SessionsUsable == SSLSpec => []SessionsAreUsable
<1>1. SSLInv => SessionsAreUsable
  BY DEF SSLInv
<1> QED BY SSLInvariance, <1>1, PTL

(* No session is lost for any other reason. *)
THEOREM SessionsKept == SSLSpec => []NoSessionLost
<1>1. SSLInv => NoSessionLost
  BY DEF SSLInv
<1> QED BY SSLInvariance, <1>1, PTL
=============================================================================
