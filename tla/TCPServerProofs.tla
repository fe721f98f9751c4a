--------------------------- MODULE TCPServerProofs ---------------------------
(***************************************************************************)
(* What TCPListen promises of the listening socket, for any set of         *)
(* descriptors and peers, and what its two users make of it: ServerSockets *)
(* (the loop of SMOListener) and SSLServer (TLS), for any SSL structures   *)
(* and any number of SSLSockets too.                                       *)
(***************************************************************************)
EXTENDS ServerSockets, SSLServer, SequenceTheorems, TLAPS

-----------------------------------------------------------------------------
(* CTCPServer.                                                             *)

(* A descriptor is bound exactly when it is the listening socket and has   *)
(* got past bind() or listen(); one that listens is on some port.          *)
PortInv ==
    \A fd \in Fds :
        /\ port[fd] = "configured" => kind[fd] \in {"bound", "listening"}
        /\ port[fd] = "ephemeral" => kind[fd] = "listening" /\ bindFailed
        /\ kind[fd] = "listening" => port[fd] # "none"
        /\ kind[fd] = "bound" => port[fd] = "configured"

(* A socket that Listen finds made but not bound has failed to bind. *)
CreatedInv == /\ pc \in {"idle", "listen"} /\ m_ListenSocket # INVALID
              /\ kind[m_ListenSocket] = "created"
              => bindFailed

(* While a call runs it has handed nothing out. *)
FreshInv == pc # "idle" => clientSocket = INVALID /\ result = "none"

IInv == /\ TypeOK /\ FreshInv /\ NoDescriptorLost /\ ResultMatchesSocket
        /\ PortInv /\ CreatedInv

LEMMA InitIInv == Init => IInv
<1> SUFFICES ASSUME Init PROVE IInv
    OBVIOUS
<1> USE InvalidIsNoDescriptor DEF Init
<1>1. TypeOK
    BY EmptySeq DEF TypeOK, CallerOK, KernelOK, CallsOK, Kinds
<1>2. FreshInv /\ NoDescriptorLost /\ ResultMatchesSocket /\ PortInv /\ CreatedInv
    BY DEF FreshInv, NoDescriptorLost, ResultMatchesSocket, PortInv, CreatedInv
<1> QED BY <1>1, <1>2 DEF IInv

LEMMA StepIInv == IInv /\ [Next]_vars => IInv'
<1> SUFFICES ASSUME IInv, [Next]_vars PROVE IInv'
    OBVIOUS
<1> USE InvalidIsNoDescriptor DEF IInv, TypeOK, Return, kernelVars
<1>1. CASE ListenBegins
  <2> USE <1>1 DEF ListenBegins
  <2>1. FreshInv' /\ CallerOK' /\ KernelOK'
      BY DEF FreshInv, CallerOK, KernelOK, Calls
  <2>2. CallsOK' /\ NoDescriptorLost' /\ ResultMatchesSocket'
      BY DEF FreshInv, CallerOK, CallsOK, NoDescriptorLost, ResultMatchesSocket
  <2>3. PortInv' /\ CreatedInv'
      BY DEF CallerOK, CallsOK, NoDescriptorLost, PortInv, CreatedInv
  <2> QED BY <2>1, <2>2, <2>3
<1>2. CASE Socket
  <2> USE <1>2 DEF Socket, Open
  <2>1. FreshInv'
      BY DEF FreshInv
  <2>2. CallerOK'
      BY DEF CallerOK, Calls
  <2>3. KernelOK'
      BY DEF CallerOK, KernelOK, Kinds, CallsOK
  <2>4. CallsOK'
      BY DEF CallerOK, KernelOK, CallsOK, NoDescriptorLost
  <2>5. NoDescriptorLost'
      BY DEF CallerOK, KernelOK, CallsOK, Kinds, NoDescriptorLost
  <2>6. ResultMatchesSocket'
      BY DEF FreshInv, NoDescriptorLost, ResultMatchesSocket
  <2>7. PortInv'
      BY DEF CallerOK, KernelOK, CallsOK, Kinds, NoDescriptorLost, PortInv
  <2>8. CreatedInv'
      BY DEF CallerOK, KernelOK, CallsOK, Kinds, NoDescriptorLost, CreatedInv, PortInv
  <2> QED BY <2>1, <2>2, <2>3, <2>4, <2>5, <2>6, <2>7, <2>8
<1>3. CASE SocketFails
  <2> USE <1>3 DEF SocketFails
  <2>1. FreshInv' /\ CallerOK' /\ KernelOK'
      BY DEF FreshInv, CallerOK, KernelOK, Calls
  <2>2. CallsOK' /\ NoDescriptorLost' /\ ResultMatchesSocket'
      BY DEF FreshInv, CallerOK, CallsOK, NoDescriptorLost, ResultMatchesSocket
  <2>3. PortInv' /\ CreatedInv'
      BY DEF CallerOK, CallsOK, NoDescriptorLost, PortInv, CreatedInv
  <2> QED BY <2>1, <2>2, <2>3
<1>4. CASE ReuseAddr
  <2> USE <1>4 DEF ReuseAddr
  <2>1. FreshInv' /\ CallerOK' /\ KernelOK'
      BY DEF FreshInv, CallerOK, KernelOK, Calls
  <2>2. CallsOK' /\ NoDescriptorLost' /\ ResultMatchesSocket'
      BY DEF FreshInv, CallerOK, CallsOK, NoDescriptorLost, ResultMatchesSocket
  <2>3. PortInv' /\ CreatedInv'
      BY DEF CallerOK, CallsOK, NoDescriptorLost, PortInv, CreatedInv
  <2> QED BY <2>1, <2>2, <2>3
<1>5. CASE ReuseAddrFails
  <2> USE <1>5 DEF ReuseAddrFails, Close
  <2>1. FreshInv'
      BY DEF FreshInv
  <2>2. CallerOK'
      BY DEF CallerOK, Calls
  <2>3. KernelOK'
      BY DEF CallerOK, KernelOK, Kinds, CallsOK
  <2>4. CallsOK'
      BY DEF CallerOK, KernelOK, CallsOK, NoDescriptorLost
  <2>5. NoDescriptorLost'
      BY DEF CallerOK, KernelOK, CallsOK, Kinds, NoDescriptorLost
  <2>6. ResultMatchesSocket'
      BY DEF FreshInv, NoDescriptorLost, ResultMatchesSocket
  <2>7. PortInv'
      BY DEF CallerOK, KernelOK, CallsOK, Kinds, NoDescriptorLost, PortInv
  <2>8. CreatedInv'
      BY DEF CallerOK, KernelOK, CallsOK, Kinds, NoDescriptorLost, CreatedInv, PortInv
  <2> QED BY <2>1, <2>2, <2>3, <2>4, <2>5, <2>6, <2>7, <2>8
<1>6. CASE Bind
  <2> USE <1>6 DEF Bind
  <2>1. FreshInv'
      BY DEF FreshInv
  <2>2. CallerOK'
      BY DEF CallerOK, Calls
  <2>3. KernelOK'
      BY DEF CallerOK, KernelOK, Kinds, CallsOK
  <2>4. CallsOK'
      BY DEF CallerOK, KernelOK, CallsOK, NoDescriptorLost
  <2>5. NoDescriptorLost'
      BY DEF CallerOK, KernelOK, CallsOK, Kinds, NoDescriptorLost
  <2>6. ResultMatchesSocket'
      BY DEF FreshInv, NoDescriptorLost, ResultMatchesSocket
  <2>7. PortInv'
      BY DEF CallerOK, KernelOK, CallsOK, Kinds, NoDescriptorLost, PortInv
  <2>8. CreatedInv'
      BY DEF CallerOK, KernelOK, CallsOK, Kinds, NoDescriptorLost, CreatedInv, PortInv
  <2> QED BY <2>1, <2>2, <2>3, <2>4, <2>5, <2>6, <2>7, <2>8
<1>7. CASE BindFails
  <2> USE <1>7 DEF BindFails
  <2>1. FreshInv' /\ CallerOK' /\ KernelOK'
      BY DEF FreshInv, CallerOK, KernelOK, Calls
  <2>2. CallsOK' /\ NoDescriptorLost' /\ ResultMatchesSocket'
      BY DEF FreshInv, CallerOK, CallsOK, NoDescriptorLost, ResultMatchesSocket
  <2>3. PortInv' /\ CreatedInv'
      BY DEF CallerOK, CallsOK, NoDescriptorLost, PortInv, CreatedInv
  <2> QED BY <2>1, <2>2, <2>3
<1>8. CASE ListenCall
  <2> USE <1>8 DEF ListenCall
  <2>1. FreshInv'
      BY DEF FreshInv
  <2>2. CallerOK'
      BY DEF CallerOK, Calls
  <2>3. KernelOK'
      BY DEF CallerOK, KernelOK, Kinds, CallsOK
  <2>4. CallsOK'
      BY DEF CallerOK, KernelOK, CallsOK, NoDescriptorLost
  <2>5. NoDescriptorLost'
      BY DEF CallerOK, KernelOK, CallsOK, Kinds, NoDescriptorLost
  <2>6. ResultMatchesSocket'
      BY DEF FreshInv, NoDescriptorLost, ResultMatchesSocket
  <2>7. PortInv'
      BY DEF CallerOK, KernelOK, CallsOK, Kinds, NoDescriptorLost, PortInv, CreatedInv
  <2>8. CreatedInv'
      BY DEF CallerOK, KernelOK, CallsOK, Kinds, NoDescriptorLost, CreatedInv, PortInv
  <2> QED BY <2>1, <2>2, <2>3, <2>4, <2>5, <2>6, <2>7, <2>8
<1>9. CASE ListenCallFails
  <2> USE <1>9 DEF ListenCallFails
  <2>1. FreshInv' /\ CallerOK' /\ KernelOK'
      BY DEF FreshInv, CallerOK, KernelOK, Calls
  <2>2. CallsOK' /\ NoDescriptorLost' /\ ResultMatchesSocket'
      BY DEF FreshInv, CallerOK, CallsOK, NoDescriptorLost, ResultMatchesSocket
  <2>3. PortInv' /\ CreatedInv'
      BY DEF CallerOK, CallsOK, NoDescriptorLost, PortInv, CreatedInv
  <2> QED BY <2>1, <2>2, <2>3
<1>10. CASE Select
  <2> USE <1>10 DEF Select
  <2>1. FreshInv' /\ CallerOK' /\ KernelOK'
      BY DEF FreshInv, CallerOK, KernelOK, Calls
  <2>2. CallsOK' /\ NoDescriptorLost' /\ ResultMatchesSocket'
      BY DEF FreshInv, CallerOK, CallsOK, NoDescriptorLost, ResultMatchesSocket
  <2>3. PortInv' /\ CreatedInv'
      BY DEF CallerOK, CallsOK, NoDescriptorLost, PortInv, CreatedInv
  <2> QED BY <2>1, <2>2, <2>3
<1>11. CASE SelectTimesOut
  <2> USE <1>11 DEF SelectTimesOut
  <2>1. FreshInv' /\ CallerOK' /\ KernelOK'
      BY DEF FreshInv, CallerOK, KernelOK, Calls
  <2>2. CallsOK' /\ NoDescriptorLost' /\ ResultMatchesSocket'
      BY DEF FreshInv, CallerOK, CallsOK, NoDescriptorLost, ResultMatchesSocket
  <2>3. PortInv' /\ CreatedInv'
      BY DEF CallerOK, CallsOK, NoDescriptorLost, PortInv, CreatedInv
  <2> QED BY <2>1, <2>2, <2>3
<1>12. CASE SelectFails
  <2> USE <1>12 DEF SelectFails
  <2>1. FreshInv' /\ CallerOK' /\ KernelOK'
      BY DEF FreshInv, CallerOK, KernelOK, Calls
  <2>2. CallsOK' /\ NoDescriptorLost' /\ ResultMatchesSocket'
      BY DEF FreshInv, CallerOK, CallsOK, NoDescriptorLost, ResultMatchesSocket
  <2>3. PortInv' /\ CreatedInv'
      BY DEF CallerOK, CallsOK, NoDescriptorLost, PortInv, CreatedInv
  <2> QED BY <2>1, <2>2, <2>3
<1>13. CASE Accept
  <2> USE <1>13 DEF Accept, Open
  <2>1. FreshInv'
      BY DEF FreshInv
  <2>2. CallerOK'
      BY DEF CallerOK, Calls
  <2>3. KernelOK'
      BY HeadTailProperties DEF CallerOK, KernelOK, Kinds, CallsOK
  <2>4. CallsOK'
      BY DEF CallerOK, KernelOK, CallsOK, NoDescriptorLost
  <2>5. NoDescriptorLost'
      BY DEF CallerOK, KernelOK, CallsOK, Kinds, NoDescriptorLost
  <2>6. ResultMatchesSocket'
      BY DEF FreshInv, NoDescriptorLost, ResultMatchesSocket
  <2>7. PortInv'
      BY DEF CallerOK, KernelOK, CallsOK, Kinds, NoDescriptorLost, PortInv
  <2>8. CreatedInv'
      BY DEF CallerOK, KernelOK, CallsOK, Kinds, NoDescriptorLost, CreatedInv, PortInv
  <2> QED BY <2>1, <2>2, <2>3, <2>4, <2>5, <2>6, <2>7, <2>8
<1>14. CASE AcceptFails
  <2> USE <1>14 DEF AcceptFails
  <2>1. FreshInv'
      BY DEF FreshInv
  <2>2. CallerOK'
      BY DEF CallerOK, Calls
  <2>3. KernelOK'
      BY HeadTailProperties DEF CallerOK, KernelOK, Kinds, CallsOK
  <2>4. CallsOK'
      BY DEF CallerOK, KernelOK, CallsOK, NoDescriptorLost
  <2>5. NoDescriptorLost'
      BY DEF CallerOK, KernelOK, CallsOK, Kinds, NoDescriptorLost
  <2>6. ResultMatchesSocket'
      BY DEF FreshInv, NoDescriptorLost, ResultMatchesSocket
  <2>7. PortInv'
      BY DEF CallerOK, KernelOK, CallsOK, Kinds, NoDescriptorLost, PortInv
  <2>8. CreatedInv'
      BY DEF CallerOK, KernelOK, CallsOK, Kinds, NoDescriptorLost, CreatedInv, PortInv
  <2> QED BY <2>1, <2>2, <2>3, <2>4, <2>5, <2>6, <2>7, <2>8
<1>15. ASSUME NEW fd \in Fds, Disconnect(fd) PROVE IInv'
  <2> USE <1>15 DEF Disconnect, Close
  <2>1. FreshInv'
      BY DEF FreshInv
  <2>2. CallerOK'
      BY DEF CallerOK, Calls
  <2>3. KernelOK'
      BY DEF CallerOK, KernelOK, Kinds, CallsOK
  <2>4. CallsOK'
      BY DEF CallerOK, KernelOK, CallsOK, NoDescriptorLost
  <2>5. NoDescriptorLost'
      BY DEF CallerOK, KernelOK, CallsOK, Kinds, NoDescriptorLost
  <2>6. ResultMatchesSocket'
      BY DEF FreshInv, NoDescriptorLost, ResultMatchesSocket
  <2>7. PortInv'
      BY DEF CallerOK, KernelOK, CallsOK, Kinds, NoDescriptorLost, PortInv
  <2>8. CreatedInv'
      BY DEF CallerOK, KernelOK, CallsOK, Kinds, NoDescriptorLost, CreatedInv, PortInv
  <2> QED BY <2>1, <2>2, <2>3, <2>4, <2>5, <2>6, <2>7, <2>8
<1>16. CASE Destroy
  <2> USE <1>16 DEF Destroy, Close
  <2>1. FreshInv'
      BY DEF FreshInv
  <2>2. CallerOK'
      BY DEF CallerOK, Calls
  <2>3. KernelOK'
      BY EmptySeq DEF CallerOK, KernelOK, Kinds, CallsOK
  <2>4. CallsOK'
      BY DEF CallerOK, KernelOK, CallsOK, NoDescriptorLost
  <2>5. NoDescriptorLost'
      BY DEF CallerOK, KernelOK, CallsOK, Kinds, NoDescriptorLost
  <2>6. ResultMatchesSocket'
      BY DEF FreshInv, NoDescriptorLost, ResultMatchesSocket
  <2>7. PortInv'
      BY DEF CallerOK, KernelOK, CallsOK, Kinds, NoDescriptorLost, PortInv
  <2>8. CreatedInv'
      BY DEF CallerOK, KernelOK, CallsOK, Kinds, NoDescriptorLost, CreatedInv, PortInv
  <2> QED BY <2>1, <2>2, <2>3, <2>4, <2>5, <2>6, <2>7, <2>8
<1>17. ASSUME NEW p \in Peers, PeerConnects(p) PROVE IInv'
  <2> USE <1>17 DEF PeerConnects
  <2>1. FreshInv'
      BY DEF FreshInv
  <2>2. CallerOK'
      BY DEF CallerOK, Calls
  <2>3. KernelOK'
      BY AppendProperties DEF CallerOK, KernelOK, Kinds, CallsOK
  <2>4. CallsOK'
      BY DEF CallerOK, KernelOK, CallsOK, NoDescriptorLost
  <2>5. NoDescriptorLost'
      BY DEF CallerOK, KernelOK, CallsOK, Kinds, NoDescriptorLost
  <2>6. ResultMatchesSocket'
      BY DEF FreshInv, NoDescriptorLost, ResultMatchesSocket
  <2>7. PortInv'
      BY DEF CallerOK, KernelOK, CallsOK, Kinds, NoDescriptorLost, PortInv
  <2>8. CreatedInv'
      BY DEF CallerOK, KernelOK, CallsOK, Kinds, NoDescriptorLost, CreatedInv, PortInv
  <2> QED BY <2>1, <2>2, <2>3, <2>4, <2>5, <2>6, <2>7, <2>8
<1>18. CASE PortChanges
  <2> USE <1>18 DEF PortChanges
  <2>1. FreshInv' /\ CallerOK' /\ KernelOK'
      BY DEF FreshInv, CallerOK, KernelOK, Calls
  <2>2. CallsOK' /\ NoDescriptorLost' /\ ResultMatchesSocket'
      BY DEF FreshInv, CallerOK, CallsOK, NoDescriptorLost, ResultMatchesSocket
  <2>3. PortInv' /\ CreatedInv'
      BY DEF CallerOK, CallsOK, NoDescriptorLost, PortInv, CreatedInv
  <2> QED BY <2>1, <2>2, <2>3
<1>19. CASE UNCHANGED vars
  <2> USE <1>19 DEF vars
  <2>1. FreshInv' /\ CallerOK' /\ KernelOK'
      BY DEF FreshInv, CallerOK, KernelOK, Calls
  <2>2. CallsOK' /\ NoDescriptorLost' /\ ResultMatchesSocket'
      BY DEF FreshInv, CallerOK, CallsOK, NoDescriptorLost, ResultMatchesSocket
  <2>3. PortInv' /\ CreatedInv'
      BY DEF CallerOK, CallsOK, NoDescriptorLost, PortInv, CreatedInv
  <2> QED BY <2>1, <2>2, <2>3
<1> QED BY <1>1, <1>2, <1>3, <1>4, <1>5, <1>6, <1>7, <1>8, <1>9, <1>10, <1>11, <1>12, <1>13, <1>14, <1>15, <1>16, <1>17, <1>18, <1>19
       DEF Next, ListenStep, ListenError

-----------------------------------------------------------------------------
(* The inductive invariant holds of every behaviour. *)
LEMMA Invariance == Spec => []IInv
<1> QED BY InitIInv, StepIInv, PTL DEF Spec

(* Variables have their types and every system call of Listen is made on a *)
(* socket in the state the call needs.                                     *)
THEOREM TypeCorrect == Spec => []TypeOK
<1>1. IInv => TypeOK
    BY DEF IInv
<1> QED BY <1>1, Invariance, PTL

(* Listen, Disconnect and the destructor leak no descriptor. *)
THEOREM DescriptorsKept == Spec => []NoDescriptorLost
<1>1. IInv => NoDescriptorLost
    BY DEF IInv
<1> QED BY <1>1, Invariance, PTL

(* Listen's result and its out-parameter agree. *)
THEOREM ResultAgrees == Spec => []ResultMatchesSocket
<1>1. IInv => ResultMatchesSocket
    BY DEF IInv
<1> QED BY <1>1, Invariance, PTL

(* A server that listens elsewhere than configured has failed to bind. *)
THEOREM PortLostByBindOnly == Spec => []WrongPortOnlyAfterBindFailure
<1>1. IInv => WrongPortOnlyAfterBindFailure
    BY DEF IInv, TypeOK, KernelOK, NoDescriptorLost, PortInv, WrongPortOnlyAfterBindFailure
<1> QED BY <1>1, Invariance, PTL

(* No later failure of Listen closes or moves a socket that listens. *)
THEOREM ListeningKept == Spec => ListeningIsStable
<1> DEFINE Stable == \A fd \in Fds : kind[fd] = "listening" /\ pc # "idle"
                        => kind'[fd] = "listening" /\ port'[fd] = port[fd] /\ m_ListenSocket' = fd
<1>1. IInv /\ [Next]_vars => [Stable]_vars
  <2> SUFFICES ASSUME IInv, [Next]_vars PROVE [Stable]_vars
      OBVIOUS
  <2> USE InvalidIsNoDescriptor DEF kernelVars, Return
  <2> USE DEF IInv, TypeOK, CallerOK, KernelOK, CallsOK, Kinds, NoDescriptorLost, PortInv
  <2>1. CASE ListenBegins \/ (\E fd \in Fds : Disconnect(fd)) \/ Destroy
      BY <2>1 DEF ListenBegins, Disconnect, Destroy
  <2>2. CASE Socket
      BY <2>2 DEF Socket, Open
  <2>3. CASE SocketFails \/ ReuseAddr \/ BindFails \/ ListenCallFails
      BY <2>3 DEF SocketFails, ReuseAddr, BindFails, ListenCallFails
  <2>4. CASE ReuseAddrFails
      BY <2>4 DEF ReuseAddrFails, Close
  <2>5. CASE Bind
      BY <2>5 DEF Bind
  <2>6. CASE ListenCall
      BY <2>6 DEF ListenCall
  <2>7. CASE Select \/ SelectTimesOut \/ SelectFails
      BY <2>7 DEF Select, SelectTimesOut, SelectFails
  <2>8. CASE Accept
      BY <2>8 DEF Accept, Open
  <2>9. CASE AcceptFails
      BY <2>9 DEF AcceptFails
  <2>10. CASE PortChanges \/ (\E p \in Peers : PeerConnects(p))
      BY <2>10 DEF PortChanges, PeerConnects
  <2>11. CASE UNCHANGED vars
      BY <2>11
  <2> QED BY <2>1, <2>2, <2>3, <2>4, <2>5, <2>6, <2>7, <2>8, <2>9, <2>10, <2>11
         DEF Next, ListenStep, ListenError
<1> QED BY <1>1, Invariance, PTL DEF Spec, ListeningIsStable

-----------------------------------------------------------------------------
(* SMOListener uses Listen as TCPListen allows, keeps account of its       *)
(* descriptors, and implements the sequential Handshake.                   *)

(* Whoever waits has connected. *)
WaitingInv == \A i \in 1..Len(backlog) : first[backlog[i]] # "away"

(* A connection is only in the listener's hands if a peer opened it, and   *)
(* the place the listener has reached says what that peer did.             *)
ServingInv ==
    /\ place # "listen" => /\ connection[clientSocket] \in Peers
                           /\ first[connection[clientSocket]] # "away"
    /\ place = "greet" => first[connection[clientSocket]] = "hello"
    /\ place = "drop" => first[connection[clientSocket]] \in {"other", "closed"}

SInv == /\ IInv /\ SocketsTypeOK /\ WaitingInv /\ ServingInv
        /\ DescriptorsAccounted /\ ClientsKeepTheirConnections

(* Every step of the composition is a step of TCPListen or none of it. *)
LEMMA StepOfListen == TypeOK /\ [SocketsNext]_socketVars => [Next]_vars
<1> SUFFICES ASSUME TypeOK, [SocketsNext]_socketVars PROVE [Next]_vars
    OBVIOUS
<1>1. CASE CallListen
    BY <1>1 DEF CallListen, Next
<1>2. CASE ListenWorks
    BY <1>2 DEF ListenWorks, Next, ListenStep, ListenError
<1>3. CASE Taken \/ NotTaken
    BY <1>3 DEF Taken, NotTaken, Next, ListenStep
<1>4. CASE Receive \/ Greet
    BY <1>4 DEF Receive, Greet
<1>5. CASE Drop
    BY <1>5 DEF Drop, Disconnect, Next, TypeOK, CallerOK
<1>6. ASSUME NEW p \in Peers, PeerArrives(p) PROVE Next
    BY <1>6 DEF PeerArrives, Next
<1>7. ASSUME NEW p \in Peers, PeerSpeaks(p) PROVE UNCHANGED vars
    BY <1>7 DEF PeerSpeaks
<1>8. CASE PortIsTaken
    BY <1>8 DEF PortIsTaken, Next
<1>9. CASE UNCHANGED socketVars
    BY <1>9 DEF socketVars
<1> QED BY <1>1, <1>2, <1>3, <1>4, <1>5, <1>6, <1>7, <1>8, <1>9 DEF SocketsNext

LEMMA InitSInv == SocketsInit => SInv
<1> SUFFICES ASSUME SocketsInit PROVE SInv
    OBVIOUS
<1>1. IInv
    BY InitIInv DEF SocketsInit
<1>2. SocketsTypeOK
    BY <1>1 DEF SocketsTypeOK, SocketsInit, Init, IInv
<1>3. WaitingInv
    BY LenProperties, EmptySeq DEF WaitingInv, SocketsInit, Init
<1>4. ServingInv /\ DescriptorsAccounted /\ ClientsKeepTheirConnections
    BY DEF ServingInv, DescriptorsAccounted, ClientsKeepTheirConnections, Registered,
       SocketsInit, Init
<1> QED BY <1>1, <1>2, <1>3, <1>4 DEF SInv

LEMMA OldestHasArrived ==
    ASSUME SInv, backlog # <<>>
    PROVE  /\ Head(backlog) \in Peers /\ first[Head(backlog)] # "away"
           /\ Len(Tail(backlog)) = Len(backlog) - 1
           /\ \A i \in 1..Len(Tail(backlog)) : Tail(backlog)[i] = backlog[i + 1]
<1>1. backlog \in Seq(Peers)
    BY DEF SInv, IInv, TypeOK, KernelOK
<1>2. Head(backlog) = backlog[1] /\ 1 \in 1..Len(backlog)
    BY <1>1, HeadTailProperties, LenProperties, EmptySeq
<1> QED BY <1>1, <1>2, HeadTailProperties DEF SInv, WaitingInv

LEMMA StepWaiting == SInv /\ [SocketsNext]_socketVars => WaitingInv'
<1> SUFFICES ASSUME SInv, [SocketsNext]_socketVars PROVE WaitingInv'
    OBVIOUS
<1> USE DEF serverVars, vars, kernelVars
<1>0. /\ backlog \in Seq(Peers)
      /\ \A i \in 1..Len(backlog) : backlog[i] \in Peers /\ first[backlog[i]] # "away"
      /\ first \in [Peers -> {"away", "silent", "hello", "other", "closed"}]
    BY ElementOfSeq DEF SInv, IInv, TypeOK, KernelOK, SocketsTypeOK, WaitingInv
<1>1. CASE UNCHANGED <<backlog, first>>
    BY <1>0, <1>1 DEF WaitingInv
<1>2. CASE Taken
    BY <1>0, <1>2, OldestHasArrived, LenProperties DEF Taken, Accept, WaitingInv
<1>3. CASE NotTaken
  <2>1. CASE /\ backlog' = Tail(backlog)
             /\ first' = [first EXCEPT ![Head(backlog)] = "closed"]
    <3>1. \A p \in Peers : first'[p] \in {first[p], "closed"}
        BY <1>0, <2>1
    <3>2. /\ Len(backlog) \in Nat /\ Len(Tail(backlog)) = Len(backlog) - 1
          /\ \A i \in 1..Len(Tail(backlog)) : Tail(backlog)[i] = backlog[i + 1]
        BY <1>0, <1>3, OldestHasArrived, LenProperties DEF NotTaken, AcceptFails
    <3>3. \A i \in 1..Len(Tail(backlog)) : i + 1 \in 1..Len(backlog)
        BY <3>2
    <3> QED BY <1>0, <2>1, <3>1, <3>2, <3>3 DEF WaitingInv
  <2> QED BY <1>1, <1>3, <2>1 DEF NotTaken
<1>4. ASSUME NEW p \in Peers, PeerArrives(p) PROVE WaitingInv'
  <2>1. /\ Len(Append(backlog, p)) = Len(backlog) + 1
        /\ \A i \in 1..Len(backlog) : Append(backlog, p)[i] = backlog[i]
        /\ Append(backlog, p)[Len(backlog) + 1] = p
      BY <1>0, AppendProperties
  <2>2. \A q \in Peers : first'[q] # first[q] => q = p /\ first'[q] = "silent"
      BY <1>0, <1>4 DEF PeerArrives
  <2>3. first'[p] = "silent"
      BY <1>0, <1>4 DEF PeerArrives
  <2> QED BY <1>0, <1>4, <2>1, <2>2, <2>3, LenProperties DEF PeerArrives, PeerConnects, WaitingInv
<1>5. ASSUME NEW p \in Peers, PeerSpeaks(p) PROVE WaitingInv'
  <2>1. \A q \in Peers : first'[q] = first[q] \/ first'[q] # "away"
      BY <1>0, <1>5 DEF PeerSpeaks
  <2> QED BY <1>0, <1>5, <2>1 DEF PeerSpeaks, WaitingInv
<1>6. CASE CallListen \/ ListenWorks \/ Receive \/ Greet \/ Drop \/ PortIsTaken \/ UNCHANGED socketVars
    BY <1>1, <1>6 DEF CallListen, ListenBegins, ListenWorks, Socket, SocketFails, ReuseAddr,
       ReuseAddrFails, Bind, BindFails, ListenCall, ListenCallFails, Receive, Greet, Drop,
       Disconnect, PortIsTaken, PortChanges, socketVars
<1> QED BY <1>2, <1>3, <1>4, <1>5, <1>6 DEF SocketsNext

LEMMA StepSInv == SInv /\ [SocketsNext]_socketVars => SInv'
<1> SUFFICES ASSUME SInv, [SocketsNext]_socketVars PROVE SInv'
    OBVIOUS
<1> USE InvalidIsNoDescriptor, InvalidIsNoPeer DEF SInv, SocketsTypeOK, serverVars
<1>0. IInv' /\ TypeOK' /\ WaitingInv'
    BY StepOfListen, StepIInv, StepWaiting DEF IInv
<1>1. CASE CallListen
  <2> USE <1>0, <1>1 DEF CallListen, ListenBegins
  <2>1. SocketsTypeOK' /\ ServingInv'
      BY DEF ServingInv
  <2>2. DescriptorsAccounted' /\ ClientsKeepTheirConnections'
      BY DEF DescriptorsAccounted, ClientsKeepTheirConnections, Registered, kernelVars
  <2> QED BY <2>1, <2>2
<1>2. CASE ListenWorks
  <2> USE <1>0, <1>2 DEF ListenWorks
  <2>1. wait' = wait /\ held' = held
      BY DEF Socket, SocketFails, ReuseAddr, ReuseAddrFails, Bind, BindFails, ListenCall, ListenCallFails
  <2>2. SocketsTypeOK' /\ ServingInv'
      BY <2>1 DEF ServingInv
  <2>3. DescriptorsAccounted'
      BY <2>1 DEF DescriptorsAccounted, Registered
  <2>4. \A fd \in Registered : kind'[fd] = "client"
      BY <2>1, <2>3 DEF DescriptorsAccounted, Registered, IInv, NoDescriptorLost
  <2>5. ClientsKeepTheirConnections'
      BY <2>4 DEF ClientsKeepTheirConnections, Registered
  <2> QED BY <2>2, <2>3, <2>5
<1>3. CASE Taken
  <2> USE <1>0, <1>3 DEF Taken, Accept, Open, Return
  <2>1. /\ clientSocket' \in Fds /\ clientSocket' \notin held
        /\ held' = held \cup {clientSocket'}
      BY DEF IInv, NoDescriptorLost
  <2>2. Head(backlog) \in Peers /\ first[Head(backlog)] # "away"
      BY OldestHasArrived
  <2>3. SocketsTypeOK'
      BY <2>1, <2>2
  <2>4. ServingInv'
      BY <2>1, <2>2 DEF ServingInv
  <2>5. Registered' = Registered /\ held = Registered
      BY DEF Registered, DescriptorsAccounted
  <2>6. DescriptorsAccounted'
      BY <2>1, <2>5 DEF DescriptorsAccounted
  <2>7. ClientsKeepTheirConnections'
      BY <2>1, <2>5 DEF ClientsKeepTheirConnections, IInv, NoDescriptorLost, Registered
  <2> QED BY <2>3, <2>4, <2>6, <2>7
<1>4. CASE NotTaken
  <2> USE <1>0, <1>4 DEF NotTaken, AcceptFails
  <2>1. Head(backlog) \in Peers
      BY OldestHasArrived
  <2>2. SocketsTypeOK' /\ ServingInv'
      BY <2>1 DEF ServingInv
  <2>3. DescriptorsAccounted' /\ ClientsKeepTheirConnections'
      BY DEF DescriptorsAccounted, ClientsKeepTheirConnections, Registered
  <2> QED BY <2>2, <2>3
<1>5. CASE Receive
  <2> USE <1>0, <1>5 DEF Receive, vars, kernelVars
  <2>1. SocketsTypeOK'
      OBVIOUS
  <2>2. ServingInv'
      BY DEF ServingInv, Served
  <2>3. DescriptorsAccounted' /\ ClientsKeepTheirConnections'
      BY DEF DescriptorsAccounted, ClientsKeepTheirConnections, Registered
  <2> QED BY <2>1, <2>2, <2>3
<1>6. CASE Greet
  <2> USE <1>0, <1>6 DEF Greet, Served, vars, kernelVars
  <2>1. clientSocket \in held /\ clientSocket \in Fds /\ Served \in Peers
      BY DEF ServingInv, IInv, TypeOK, CallerOK
  <2>2. SocketsTypeOK' /\ ServingInv'
      BY <2>1 DEF ServingInv
  <2>3. Registered' = Registered \cup {clientSocket}
      BY <2>1 DEF Registered
  <2>4. DescriptorsAccounted'
      BY <2>3 DEF DescriptorsAccounted
  <2>5. ClientsKeepTheirConnections'
      BY <2>1, <2>3 DEF ClientsKeepTheirConnections, IInv, NoDescriptorLost, Registered
  <2> QED BY <2>2, <2>4, <2>5
<1>7. CASE Drop
  <2> USE <1>0, <1>7 DEF Drop, Disconnect, Close, Served
  <2>1. clientSocket \in Fds /\ clientSocket \notin Registered /\ Served \in Peers
      BY DEF DescriptorsAccounted, ServingInv, IInv, TypeOK, CallerOK
  <2>2. SocketsTypeOK' /\ ServingInv'
      BY <2>1 DEF ServingInv
  <2>3. Registered' = Registered
      BY DEF Registered
  <2>4. DescriptorsAccounted'
      BY <2>1, <2>3 DEF DescriptorsAccounted
  <2>5. ClientsKeepTheirConnections'
      BY <2>1, <2>3 DEF ClientsKeepTheirConnections, Registered, IInv, TypeOK, KernelOK
  <2> QED BY <2>2, <2>4, <2>5
<1>8. ASSUME NEW p \in Peers, PeerArrives(p) \/ PeerSpeaks(p) PROVE SInv'
  <2> USE <1>0, <1>8 DEF PeerArrives, PeerConnects, PeerSpeaks, vars, kernelVars
  <2>1. \A q \in Peers : \/ first'[q] = first[q]
                         \/ first[q] \in {"away", "silent"}
      OBVIOUS
  <2>2. SocketsTypeOK'
      OBVIOUS
  <2>3. ServingInv'
      BY <2>1 DEF ServingInv
  <2>4. DescriptorsAccounted' /\ ClientsKeepTheirConnections'
      BY DEF DescriptorsAccounted, ClientsKeepTheirConnections, Registered
  <2> QED BY <2>2, <2>3, <2>4
<1>9. CASE PortIsTaken \/ UNCHANGED socketVars
  <2> USE <1>0, <1>9 DEF PortIsTaken, PortChanges, socketVars, vars, kernelVars
  <2>1. SocketsTypeOK' /\ ServingInv'
      BY DEF ServingInv
  <2>2. DescriptorsAccounted' /\ ClientsKeepTheirConnections'
      BY DEF DescriptorsAccounted, ClientsKeepTheirConnections, Registered
  <2> QED BY <2>1, <2>2
<1> QED BY <1>1, <1>2, <1>3, <1>4, <1>5, <1>6, <1>7, <1>8, <1>9 DEF SocketsNext

LEMMA SocketsInvariance == SocketsSpec => []SInv
    BY InitSInv, StepSInv, PTL DEF SocketsSpec

(* SMOListener uses a CTCPServer as the properties of TCPListen allow: all *)
(* of them hold of the server's own listening socket.                      *)
THEOREM ListenIsUsed == SocketsSpec => Spec
<1>1. SocketsInit => Init
    BY DEF SocketsInit
<1>2. SInv /\ [SocketsNext]_socketVars => [Next]_vars
    BY StepOfListen DEF SInv, IInv
<1> QED BY <1>1, <1>2, SocketsInvariance, PTL DEF SocketsSpec, Spec

(* The listener is outside Listen only with a connection in its hands, and *)
(* every variable keeps its type.                                          *)
THEOREM SocketsTypeCorrect == SocketsSpec => []SocketsTypeOK
    BY SocketsInvariance, PTL DEF SInv

(* No connection is open that neither a Client nor the listener has. *)
THEOREM NothingUnaccounted == SocketsSpec => []DescriptorsAccounted
    BY SocketsInvariance, PTL DEF SInv

(* A Client's number never comes to mean another peer's connection. *)
THEOREM ConnectionsKept == SocketsSpec => []ClientsKeepTheirConnections
    BY SocketsInvariance, PTL DEF SInv

(* With failing system calls and finitely many descriptors the listener    *)
(* still implements the sequential Handshake.                              *)
THEOREM SocketsImplement == SocketsSpec => SocketsImplementHandshake
<1>1. SocketsInit => Sequential!Init
    BY DEF SocketsInit, Init, Sequential!Init
<1>2. SInv /\ SInv' /\ [SocketsNext]_socketVars => [Sequential!Next]_(Sequential!absVars)
  <2> SUFFICES ASSUME SInv, SInv', [SocketsNext]_socketVars
               PROVE  [Sequential!Next]_(Sequential!absVars)
      OBVIOUS
  <2> USE InvalidIsNoPeer DEF SInv, SocketsTypeOK, serverVars, Sequential!absVars
  <2>1. CASE CallListen \/ ListenWorks
      BY <2>1 DEF CallListen, ListenBegins, ListenWorks, Socket, SocketFails, ReuseAddr,
         ReuseAddrFails, Bind, BindFails, ListenCall, ListenCallFails, Close, kernelVars
  <2>2. CASE Taken
    <3>1. clientSocket' \in Fds
        BY <2>2 DEF Taken, Accept
    <3>2. Sequential!Take
        BY <2>2, <3>1 DEF Taken, Accept, Sequential!Take
    <3> QED BY <3>2 DEF Sequential!Next
  <2>3. CASE NotTaken
    <3>1. Sequential!Lose \/ UNCHANGED Sequential!absVars
        BY <2>3 DEF NotTaken, AcceptFails, Sequential!Lose
    <3> QED BY <3>1 DEF Sequential!Next
  <2>4. CASE Receive
      BY <2>4 DEF Receive, vars, kernelVars
  <2>5. CASE Greet
    <3>1. Sequential!Admit
        BY <2>5 DEF Greet, Served, vars, kernelVars, ServingInv, Sequential!Admit
    <3> QED BY <3>1 DEF Sequential!Next
  <2>6. CASE Drop
    <3>1. Sequential!Refuse
        BY <2>6 DEF Drop, Disconnect, Served, ServingInv, Sequential!Refuse
    <3> QED BY <3>1 DEF Sequential!Next
  <2>7. ASSUME NEW p \in Peers, PeerArrives(p) PROVE Sequential!Next
      BY <2>7 DEF PeerArrives, PeerConnects, Sequential!Arrive, Sequential!Next
  <2>8. ASSUME NEW p \in Peers, PeerSpeaks(p) PROVE Sequential!Next
      BY <2>8 DEF PeerSpeaks, vars, kernelVars, Sequential!Speak, Sequential!FirstEvents,
         Sequential!Next
  <2>9. CASE PortIsTaken \/ UNCHANGED socketVars
      BY <2>9 DEF PortIsTaken, PortChanges, socketVars, vars, kernelVars
  <2> QED BY <2>1, <2>2, <2>3, <2>4, <2>5, <2>6, <2>7, <2>8, <2>9 DEF SocketsNext
<1> QED BY <1>1, <1>2, SocketsInvariance, PTL
        DEF SocketsSpec, SocketsImplementHandshake, Sequential!Spec

-----------------------------------------------------------------------------
(* CTCPSSLServer. *)

(* Every step of the TLS server is a step of TCPListen or none of it.      *)
LEMMA StepOfServer == TypeOK /\ [SSLNext]_allVars => [Next]_vars
<1> SUFFICES ASSUME TypeOK, [SSLNext]_allVars PROVE [Next]_vars
    OBVIOUS
<1>1. ASSUME NEW x \in Sockets, SSLListenBegins(x) PROVE Next
    BY <1>1 DEF SSLListenBegins, Next
<1>2. ASSUME NEW x \in Sockets, SSLDisconnect(x) PROVE Next
    BY <1>2 DEF SSLDisconnect, Disconnect, Next, TypeOK, CallerOK
<1>3. ASSUME NEW x \in Sockets, NEW y \in Sockets, Move(x, y) PROVE UNCHANGED vars
    BY <1>3 DEF Move
<1>4. CASE TCPListens
    BY <1>4 DEF TCPListens, Next
<1>5. CASE TCPListenFails \/ SetUpCtxServer \/ SetUpCtxServerFails \/ LoadFails
           \/ SSLNew \/ SSLAccept \/ SSLAcceptFails
    BY <1>5 DEF TCPListenFails, SetUpCtxServer, SetUpCtxServerFails, LoadFails, SSLNew,
       SSLAccept, SSLAcceptFails, Reached
<1>6. CASE ServerGoes \/ PlainServer \/ Others
    BY <1>6 DEF ServerGoes, PlainServer, Others, Next
<1>7. CASE UNCHANGED allVars
    BY <1>7 DEF allVars
<1> QED BY <1>1, <1>2, <1>3, <1>4, <1>5, <1>6, <1>7 DEF SSLNext

LEMMA ServerInvariance == SSLSpec => []IInv
<1>1. SSLInit => IInv
    BY InitIInv DEF SSLInit
<1>2. IInv /\ [SSLNext]_allVars => IInv'
    BY StepOfServer, StepIInv DEF IInv
<1> QED BY <1>1, <1>2, PTL DEF SSLSpec

(* The TLS server uses the TCP server as any program may. *)
THEOREM ServerIsUsed == SSLSpec => Spec
<1>1. SSLInit => Init
    BY DEF SSLInit
<1>2. IInv /\ [SSLNext]_allVars => [Next]_vars
    BY StepOfServer DEF IInv
<1> QED BY <1>1, <1>2, ServerInvariance, PTL DEF SSLSpec, Spec

(* So no handshake that fails makes the TCP layer lose a descriptor, *)
THEOREM SecureDescriptorsKept == SSLSpec => []NoDescriptorLost
    BY ServerIsUsed, DescriptorsKept, PTL

(* or the server stop listening. *)
THEOREM SecureListeningKept == SSLSpec => ListeningIsStable
    BY ServerIsUsed, ListeningKept

(* Where Listen is: behind tcp the TCP server's Listen has returned true,  *)
(* and the SSLSocket it fills has the number and no session.               *)
PlaceInv ==
    /\ ~tls => sslpc = "idle" /\ open = {}
    /\ tls /\ pc # "idle" => sslpc = "tcp"
    /\ sslpc \in {"load", "handshake"} => pc = "idle" /\ result = "true"
    /\ sslpc # "idle" => /\ current \notin secured
                         /\ sock[current].m_SockFd = clientSocket
                         /\ current \in open <=> result = "true"

(* Every SSLSocket that Disconnect is due for has a connection of its own. *)
DescriptorInv ==
    /\ \A x \in open : sock[x].m_SockFd \in held
    /\ \A x, y \in open : sock[x].m_SockFd = sock[y].m_SockFd => x = y

(* Those with an SSL: for how long m_pSSL may be relied on. *)
Encrypted == secured \cup (IF sslpc = "handshake" THEN {current} ELSE {})

(* An SSL has the references of itself and of its SSL_CTX, is on the       *)
(* connection beside it, and is in no other SSLSocket; before SSL_new an   *)
(* SSL_CTX has the one of its maker.                                       *)
PointerInv ==
    /\ \A x \in Sockets \ Encrypted : sock[x].m_pSSL = NULL
    /\ \A x \in Encrypted :
          /\ sock[x].m_pSSL # NULL /\ sock[x].m_pCTXSSL = sock[x].m_pSSL
          /\ session[sock[x].m_pSSL] = [refs |-> 2, fd |-> sock[x].m_SockFd,
                                        state |-> IF x \in secured THEN "ready" ELSE "new"]
    /\ \A x, y \in Encrypted : sock[x].m_pSSL = sock[y].m_pSSL => x = y
    /\ sslpc = "load" => /\ sock[current].m_pCTXSSL # NULL
                         /\ session[sock[current].m_pCTXSSL].refs = 1

(* Who owns what, unless the caller or a Listen that failed has lost it: a *)
(* session is owned by m_pSSL, once there is one.                          *)
HolderInv == tls /\ ~overwritten => \A fd \in held : \E x \in open : sock[x].m_SockFd = fd

OwnerInv ==
    tls /\ ~overwritten /\ ~halfway =>
        \A s \in Sessions : session[s].refs > 0 =>
            \E x \in open : /\ sock[x].m_pCTXSSL = s
                            /\ sock[x].m_pSSL = s \/ (sslpc = "load" /\ x = current)

SSLInv == /\ IInv /\ SSLTypeOK /\ PlaceInv /\ DescriptorInv /\ PointerInv
          /\ HolderInv /\ OwnerInv

LEMMA InitSSLInv == SSLInit => SSLInv
<1> SUFFICES ASSUME SSLInit PROVE SSLInv
    OBVIOUS
<1>1. IInv
    BY InitIInv DEF SSLInit
<1>2. SessionsOK(session, Fds)
    BY DEF SSLInit, SessionsOK, NoSession
<1>3. SSLTypeOK
    BY <1>1, <1>2 DEF SSLInit, Empty, SSLTypeOK, IInv
<1>4. PlaceInv /\ DescriptorInv /\ PointerInv
    BY DEF SSLInit, Init, Empty, PlaceInv, DescriptorInv, PointerInv, Encrypted
<1>5. HolderInv /\ OwnerInv
    BY DEF SSLInit, Init, NoSession, HolderInv, OwnerInv
<1> QED BY <1>1, <1>3, <1>4, <1>5 DEF SSLInv

(* A step of the TCP server's Listen hands out a new descriptor and is the *)
(* last, or hands out nothing.                                             *)
LEMMA ListenOutcome ==
    ASSUME IInv, ListenStep \/ ListenError
    PROVE  /\ pc # "idle" /\ result = "none" /\ clientSocket = INVALID
           /\ \/ /\ result' # "true" /\ clientSocket' = INVALID /\ held' = held
              \/ /\ result' = "true" /\ clientSocket' \in Fds \ held /\ pc' = "idle"
                 /\ held' = held \cup {clientSocket'}
<1>1. pc # "idle"
    BY DEF ListenStep, ListenError, Socket, SocketFails, ReuseAddr, ReuseAddrFails, Bind,
       BindFails, ListenCall, ListenCallFails, Select, SelectTimesOut, SelectFails, Accept,
       AcceptFails
<1>2. result = "none" /\ clientSocket = INVALID
    BY <1>1 DEF IInv, FreshInv
<1>3. CASE Accept
    BY <1>1, <1>2, <1>3 DEF Accept, Open, Return, IInv, NoDescriptorLost
<1>4. CASE ~Accept
    BY <1>1, <1>2, <1>4 DEF ListenStep, ListenError, Socket, SocketFails, ReuseAddr,
       ReuseAddrFails, Bind, BindFails, ListenCall, ListenCallFails, Select, SelectTimesOut,
       SelectFails, AcceptFails, Return
<1> QED BY <1>1, <1>2, <1>3, <1>4

(* A Listen begins with an SSLSocket that no session is relied on in: if   *)
(* it was open, its connection is lost and the history says so.            *)
LEMMA ListenBeginsKeeps ==
    ASSUME SSLInv, IInv', NEW x \in Sockets, SSLListenBegins(x) PROVE SSLInv'
<1> USE NullIsNoSocket DEF SSLInv, SSLTypeOK, IInv
<1>1. /\ tls /\ tls' /\ sslpc = "idle" /\ sslpc' = "tcp" /\ current' = x /\ x \notin secured
      /\ open' = open \ {x} /\ session' = session /\ secured' = secured /\ held' = held
      /\ clientSocket' = INVALID /\ result' = "none" /\ halfway' = halfway
      /\ overwritten' = (overwritten \/ x \in open)
    BY DEF SSLListenBegins, ListenBegins
<1>2. /\ sock'[x] = [sock[x] EXCEPT !.m_SockFd = INVALID]
      /\ \A y \in Sockets \ {x} : sock'[y] = sock[y]
    BY <1>1 DEF SSLListenBegins
<1>3. SSLTypeOK'
    BY <1>1 DEF SSLListenBegins
<1>4. PlaceInv' /\ DescriptorInv'
    BY <1>1, <1>2 DEF PlaceInv, DescriptorInv
<1>5. Encrypted' = Encrypted /\ Encrypted = secured
    BY <1>1 DEF Encrypted
<1>6. PointerInv'
    BY <1>1, <1>2, <1>5 DEF PointerInv
<1>7. HolderInv'
  <2> SUFFICES ASSUME ~overwritten', NEW fd \in held
               PROVE  \E y \in open' : sock'[y].m_SockFd = fd
      BY <1>1 DEF HolderInv
  <2>1. PICK y \in open : sock[y].m_SockFd = fd
      BY <1>1 DEF HolderInv
  <2> QED BY <1>1, <1>2, <2>1
<1>8. OwnerInv'
  <2> SUFFICES ASSUME ~overwritten', ~halfway', NEW s \in Sessions, session[s].refs > 0
               PROVE  \E y \in open' : sock'[y].m_pCTXSSL = s /\ sock'[y].m_pSSL = s
      BY <1>1 DEF OwnerInv
  <2>1. PICK y \in open : sock[y].m_pCTXSSL = s /\ sock[y].m_pSSL = s
      BY <1>1 DEF OwnerInv
  <2> QED BY <1>1, <1>2, <2>1
<1> QED BY <1>3, <1>4, <1>6, <1>7, <1>8

LEMMA TCPListensKeeps == ASSUME SSLInv, IInv', TCPListens PROVE SSLInv'
<1> USE NullIsNoSocket DEF SSLInv, SSLTypeOK
<1>1. /\ pc # "idle" /\ result = "none" /\ clientSocket = INVALID
      /\ \/ /\ result' # "true" /\ clientSocket' = INVALID /\ held' = held /\ open' = open
         \/ /\ result' = "true" /\ clientSocket' \in Fds \ held /\ pc' = "idle"
            /\ held' = held \cup {clientSocket'} /\ open' = open \cup {current}
    BY ListenOutcome DEF TCPListens
<1>2. /\ tls /\ tls' /\ sslpc = "tcp" /\ sslpc' = "tcp" /\ current' = current
      /\ session' = session /\ secured' = secured /\ halfway' = halfway
      /\ overwritten' = overwritten
    BY <1>1 DEF TCPListens, history, PlaceInv
<1>3. current \in Sockets /\ current \notin secured /\ current \notin open
    BY <1>1, <1>2 DEF PlaceInv
<1>4. /\ sock'[current] = [sock[current] EXCEPT !.m_SockFd = clientSocket']
      /\ \A y \in Sockets \ {current} : sock'[y] = sock[y]
    BY <1>3 DEF TCPListens
<1>5. SSLTypeOK'
    BY <1>1, <1>2, <1>3 DEF TCPListens, IInv
<1>6. PlaceInv'
    BY <1>1, <1>2, <1>3, <1>4 DEF PlaceInv
<1>7. DescriptorInv'
    BY <1>1, <1>3, <1>4 DEF DescriptorInv
<1>8. Encrypted' = Encrypted /\ Encrypted = secured
    BY <1>2 DEF Encrypted
<1>9. PointerInv'
    BY <1>2, <1>3, <1>4, <1>8 DEF PointerInv
<1>10. HolderInv' /\ OwnerInv'
    BY <1>1, <1>2, <1>3, <1>4 DEF HolderInv, OwnerInv
<1> QED BY <1>5, <1>6, <1>7, <1>9, <1>10

(* No connection, so no session either. *)
LEMMA TCPListenFailsKeeps == ASSUME SSLInv, IInv', TCPListenFails PROVE SSLInv'
<1> USE NullIsNoSocket DEF SSLInv, SSLTypeOK, TCPListenFails, ComeBack, vars, kernelVars
<1>1. SSLTypeOK'
    BY DEF IInv
<1>2. PlaceInv' /\ DescriptorInv'
    BY DEF PlaceInv, DescriptorInv, IInv, FreshInv
<1>3. Encrypted' = Encrypted
    BY DEF Encrypted
<1>4. PointerInv'
    BY <1>3 DEF PointerInv
<1>5. HolderInv' /\ OwnerInv'
    BY DEF HolderInv, OwnerInv
<1> QED BY <1>1, <1>2, <1>4, <1>5

(* An SSLSocket with an SSL has both references to it. *)
LEMMA EncryptedHasSession ==
    ASSUME SSLInv, NEW x \in Encrypted
    PROVE  /\ x \in Sockets /\ (x \in secured \/ (x = current /\ sslpc = "handshake"))
           /\ sock[x].m_pSSL \in Sessions /\ sock[x].m_pCTXSSL = sock[x].m_pSSL
           /\ session[sock[x].m_pSSL].refs = 2
<1>1. x \in Sockets /\ (x \in secured \/ (x = current /\ sslpc = "handshake"))
    BY NullIsNoSocket DEF Encrypted, SSLInv, SSLTypeOK
<1>2. sock[x].m_pSSL \in Sessions /\ sock[x].m_pCTXSSL = sock[x].m_pSSL
    BY <1>1 DEF SSLInv, SSLTypeOK, PointerInv
<1>3. session[sock[x].m_pSSL] = [refs |-> 2, fd |-> sock[x].m_SockFd,
                                 state |-> IF x \in secured THEN "ready" ELSE "new"]
    BY DEF SSLInv, PointerInv
<1> QED BY <1>1, <1>2, <1>3

(* A new SSL_CTX is none of those in use; it is the current SSLSocket's.   *)
LEMMA SetUpCtxKeeps == ASSUME SSLInv, IInv', SetUpCtxServer PROVE SSLInv'
<1> USE NullIsNoSession, NullIsNoSocket DEF SSLInv, SSLTypeOK
<1>1. PICK s \in Unused(session) : /\ session' = SetUpCtx(session, s)
                                   /\ sock' = [sock EXCEPT ![current].m_pCTXSSL = s]
    BY DEF SetUpCtxServer
<1>2. /\ tls /\ tls' /\ sslpc = "tcp" /\ sslpc' = "load" /\ current' = current
      /\ result = "true" /\ result' = "true" /\ pc' = "idle" /\ clientSocket' = clientSocket
      /\ held' = held /\ open' = open /\ secured' = secured
      /\ halfway' = halfway /\ overwritten' = overwritten
    BY DEF SetUpCtxServer, Reached, Continue, history, vars, IInv, FreshInv
<1>3. /\ current \in Sockets /\ current \in open /\ current \notin secured
    BY <1>2 DEF PlaceInv
<1>4. /\ s \in Sessions /\ s # NULL /\ session[s] = NoSession
      /\ session'[s] = [NoSession EXCEPT !.refs = 1]
      /\ \A t \in Sessions \ {s} : session'[t] = session[t]
    BY <1>1 DEF Unused, SetUpCtx, SessionsOK
<1>5. /\ sock'[current] = [sock[current] EXCEPT !.m_pCTXSSL = s]
      /\ \A y \in Sockets \ {current} : sock'[y] = sock[y]
    BY <1>1, <1>3
<1>6. SessionsOK(session', Fds)
    BY <1>1, <1>4 DEF SetUpCtx, SessionsOK, NoSession
<1>7. SSLTypeOK'
    BY <1>1, <1>2, <1>3, <1>4, <1>6 DEF IInv
<1>8. PlaceInv' /\ DescriptorInv'
    BY <1>2, <1>3, <1>5 DEF PlaceInv, DescriptorInv
<1>9. Encrypted' = Encrypted /\ Encrypted = secured
    BY <1>2 DEF Encrypted
<1>10. PointerInv'
  <2>1. \A x \in Encrypted : sock[x].m_pSSL # s
      BY <1>4, EncryptedHasSession DEF NoSession
  <2>2. \A x \in Encrypted : x # current /\ x \in Sockets /\ sock[x].m_pSSL \in Sessions
      BY <1>3, <1>9 DEF PointerInv
  <2> QED BY <1>2, <1>3, <1>4, <1>5, <1>9, <2>1, <2>2 DEF PointerInv, NoSession
<1>11. HolderInv'
    BY <1>2, <1>3, <1>5 DEF HolderInv
<1>12. OwnerInv'
  <2> SUFFICES ASSUME ~overwritten', ~halfway', NEW t \in Sessions, session'[t].refs > 0
               PROVE  \E x \in open : /\ sock'[x].m_pCTXSSL = t
                                      /\ sock'[x].m_pSSL = t \/ x = current
      BY <1>2 DEF OwnerInv
  <2>1. CASE t = s
      BY <1>3, <1>5, <2>1
  <2>2. CASE t # s
    <3>1. PICK x \in open : sock[x].m_pCTXSSL = t /\ sock[x].m_pSSL = t
        BY <1>2, <1>4, <2>2 DEF OwnerInv
    <3>2. x # current
        BY <1>3, <1>9, <3>1 DEF PointerInv
    <3> QED BY <1>5, <3>1, <3>2
  <2> QED BY <2>1, <2>2
<1> QED BY <1>7, <1>8, <1>10, <1>11, <1>12

(* Listen gives up before SSL_new: the connection stays in the SSLSocket,  *)
(* a session that was begun is lost, and the history says so.              *)
LEMMA GiveUpKeeps ==
    ASSUME SSLInv, IInv', SetUpCtxServerFails \/ LoadFails PROVE SSLInv'
<1> USE NullIsNoSession, NullIsNoSocket DEF SSLInv, SSLTypeOK
<1>1. /\ tls /\ tls' /\ sslpc \in {"tcp", "load"} /\ sslpc' = "idle" /\ current' = NULL
      /\ pc' = "idle" /\ held' = held /\ open' = open /\ secured' = secured
      /\ session' = session /\ halfway' /\ overwritten' = overwritten
    BY DEF SetUpCtxServerFails, LoadFails, GiveUp, ComeBack, Reached, vars, IInv, FreshInv
<1>2. /\ sock' \in [Sockets -> [m_SockFd : Fds \cup {INVALID}, m_pSSL : Sessions \cup {NULL},
                                m_pCTXSSL : Sessions \cup {NULL}]]
      /\ \A x \in Sockets : /\ sock'[x].m_SockFd = sock[x].m_SockFd
                            /\ sock'[x].m_pSSL = sock[x].m_pSSL
                            /\ x \in secured => sock'[x] = sock[x]
    BY DEF SetUpCtxServerFails, LoadFails, Reached, PlaceInv
<1>3. SSLTypeOK'
    BY <1>1, <1>2 DEF IInv
<1>4. PlaceInv' /\ DescriptorInv'
    BY <1>1, <1>2 DEF PlaceInv, DescriptorInv
<1>5. Encrypted' = Encrypted /\ Encrypted = secured
    BY <1>1 DEF Encrypted
<1>6. PointerInv'
    BY <1>1, <1>2, <1>5 DEF PointerInv
<1>7. HolderInv' /\ OwnerInv'
    BY <1>1, <1>2 DEF HolderInv, OwnerInv
<1> QED BY <1>3, <1>4, <1>6, <1>7

(* SSL_new takes the SSL_CTX just made and the connection just accepted.   *)
LEMMA SSLNewKeeps == ASSUME SSLInv, IInv', SSLNew PROVE SSLInv'
<1> USE NullIsNoSession, NullIsNoSocket DEF SSLInv, SSLTypeOK
<1>1. /\ tls /\ tls' /\ sslpc = "load" /\ sslpc' = "handshake" /\ current' = current
      /\ result = "true" /\ result' = "true" /\ pc' = "idle" /\ clientSocket' = clientSocket
      /\ held' = held /\ open' = open /\ secured' = secured
      /\ halfway' = halfway /\ overwritten' = overwritten
    BY DEF SSLNew, Reached, Continue, history, vars, PlaceInv
<1>2. PICK s : s = sock[current].m_pCTXSSL
    OBVIOUS
<1>3. PICK fd : fd = sock[current].m_SockFd
    OBVIOUS
<1>4. /\ current \in Sockets /\ current \in open /\ current \notin secured
      /\ s \in Sessions /\ s # NULL /\ fd \in Fds /\ session[s].refs = 1
    BY <1>1, <1>2, <1>3 DEF PlaceInv, PointerInv, DescriptorInv, IInv, TypeOK, CallerOK
<1>5. /\ session'[s] = [refs |-> 2, state |-> "new", fd |-> fd]
      /\ \A t \in Sessions \ {s} : session'[t] = session[t]
      /\ SessionsOK(session', Fds)
    BY <1>2, <1>3, <1>4 DEF SSLNew, SetUpSSL, SessionsOK, NoSession
<1>6. /\ sock'[current] = [sock[current] EXCEPT !.m_pSSL = s]
      /\ \A y \in Sockets \ {current} : sock'[y] = sock[y]
    BY <1>2, <1>4 DEF SSLNew
<1>7. SSLTypeOK'
    BY <1>1, <1>2, <1>4, <1>5 DEF SSLNew, IInv
<1>8. PlaceInv' /\ DescriptorInv'
    BY <1>1, <1>4, <1>6 DEF PlaceInv, DescriptorInv
<1>9. Encrypted = secured /\ Encrypted' = secured \cup {current}
    BY <1>1 DEF Encrypted
<1>10. PointerInv'
  <2>1. \A x \in secured : /\ x # current /\ x \in Sockets
                           /\ sock[x].m_pSSL \in Sessions /\ sock[x].m_pSSL # s
      BY <1>4, <1>9, EncryptedHasSession
  <2>2. \A x \in secured : sock'[x] = sock[x] /\ session'[sock[x].m_pSSL] = session[sock[x].m_pSSL]
      BY <1>5, <1>6, <2>1
  <2>3. /\ sock'[current].m_pSSL = s /\ sock'[current].m_pCTXSSL = s
        /\ sock'[current].m_SockFd = fd
      BY <1>2, <1>3, <1>4, <1>6
  <2>4. \A x \in Sockets \ Encrypted' : sock'[x].m_pSSL = NULL
      BY <1>6, <1>9 DEF PointerInv
  <2>5. ASSUME NEW x \in Encrypted'
        PROVE  /\ sock'[x].m_pSSL # NULL /\ sock'[x].m_pCTXSSL = sock'[x].m_pSSL
               /\ session'[sock'[x].m_pSSL] = [refs |-> 2, fd |-> sock'[x].m_SockFd,
                                       state |-> IF x \in secured' THEN "ready" ELSE "new"]
      BY <1>1, <1>4, <1>5, <1>9, <2>1, <2>2, <2>3 DEF PointerInv
  <2>6. ASSUME NEW x \in Encrypted', NEW y \in Encrypted', sock'[x].m_pSSL = sock'[y].m_pSSL
        PROVE  x = y
      BY <1>9, <2>1, <2>2, <2>3, <2>6 DEF PointerInv
  <2> QED BY <1>1, <2>4, <2>5, <2>6 DEF PointerInv
<1>11. HolderInv'
    BY <1>1, <1>4, <1>6 DEF HolderInv
<1>12. OwnerInv'
  <2> SUFFICES ASSUME ~overwritten', ~halfway', NEW t \in Sessions, session'[t].refs > 0
               PROVE  \E x \in open : sock'[x].m_pCTXSSL = t /\ sock'[x].m_pSSL = t
      BY <1>1 DEF OwnerInv
  <2>1. CASE t = s
      BY <1>2, <1>4, <1>6, <2>1
  <2>2. CASE t # s
    <3>1. PICK x \in open : /\ sock[x].m_pCTXSSL = t
                            /\ sock[x].m_pSSL = t \/ x = current
        BY <1>1, <1>5, <2>2 DEF OwnerInv
    <3> QED BY <1>2, <1>6, <2>2, <3>1
  <2> QED BY <2>1, <2>2
<1> QED BY <1>7, <1>8, <1>10, <1>11, <1>12

(* The session becomes that of a SSLSocket that is secured. *)
LEMMA SSLAcceptKeeps == ASSUME SSLInv, IInv', SSLAccept PROVE SSLInv'
<1> USE NullIsNoSession, NullIsNoSocket DEF SSLInv, SSLTypeOK
<1>1. /\ tls /\ tls' /\ sslpc = "handshake" /\ sslpc' = "idle" /\ current' = NULL
      /\ result = "true" /\ result' = "true" /\ pc' = "idle" /\ clientSocket' = clientSocket
      /\ held' = held /\ open' = open /\ secured' = secured \cup {current} /\ sock' = sock
      /\ halfway' = halfway /\ overwritten' = overwritten
    BY DEF SSLAccept, ComeBack, Reached, vars, PlaceInv
<1>2. /\ current \in Sockets /\ current \in open /\ current \notin secured
      /\ current \in Encrypted /\ Encrypted = secured \cup {current} /\ Encrypted' = Encrypted
    BY <1>1 DEF PlaceInv, Encrypted
<1>3. PICK s : s = sock[current].m_pSSL
    OBVIOUS
<1>4. s \in Sessions /\ session[s] = [refs |-> 2, fd |-> sock[current].m_SockFd, state |-> "new"]
    BY <1>2, <1>3, EncryptedHasSession DEF PointerInv
<1>5. /\ session'[s] = [refs |-> 2, fd |-> sock[current].m_SockFd, state |-> "ready"]
      /\ \A t \in Sessions \ {s} : session'[t] = session[t]
    BY <1>3, <1>4 DEF SSLAccept, EndHandshake, SessionsOK
<1>6. session' \in [Sessions -> [refs : 0 .. 2, state : {"none", "new", "ready", "broken"},
                                 fd : Fds \cup {NULL}]]
    BY <1>3, <1>4 DEF SSLAccept, EndHandshake, SessionsOK
<1>7. SSLTypeOK'
    BY <1>1, <1>2, <1>5, <1>6 DEF IInv, SessionsOK
<1>8. PlaceInv' /\ DescriptorInv'
    BY <1>1 DEF PlaceInv, DescriptorInv
<1>9. PointerInv'
  <2>1. \A x \in secured : x \in Encrypted /\ x # current /\ sock[x].m_pSSL # s
      BY <1>2, <1>3 DEF PointerInv
  <2>2. \A x \in secured : sock[x].m_pSSL \in Sessions
      BY <2>1, EncryptedHasSession
  <2>3. ASSUME NEW x \in Encrypted
        PROVE  session'[sock[x].m_pSSL] = [refs |-> 2, fd |-> sock[x].m_SockFd, state |-> "ready"]
      BY <1>2, <1>3, <1>5, <2>1, <2>2 DEF PointerInv
  <2> QED BY <1>1, <1>2, <2>3 DEF PointerInv
<1>10. HolderInv'
    BY <1>1 DEF HolderInv
<1>11. OwnerInv'
    BY <1>1, <1>3, <1>4, <1>5 DEF OwnerInv
<1> QED BY <1>7, <1>8, <1>9, <1>10, <1>11

(* ShutdownSSL, of an SSLSocket of which PointerInv holds, frees its       *)
(* session, if it has one, and only that.                                  *)
LEMMA ShutFrees ==
    ASSUME SSLInv, NEW x \in Sockets, Shut(x)
    PROVE  /\ sock'[x] = [sock[x] EXCEPT !.m_pSSL = NULL]
           /\ \A y \in Sockets \ {x} : sock'[y] = sock[y]
           /\ \A s \in Sessions : IF s = sock[x].m_pSSL THEN session'[s] = NoSession
                                  ELSE session'[s] = session[s]
           /\ SessionsOK(session', Fds)
           /\ sock' \in [Sockets -> [m_SockFd : Fds \cup {INVALID}, m_pSSL : Sessions \cup {NULL},
                                     m_pCTXSSL : Sessions \cup {NULL}]]
<1> USE NullIsNoSession DEF SSLInv, SSLTypeOK
<1>1. /\ sock'[x] = [sock[x] EXCEPT !.m_pSSL = NULL]
      /\ \A y \in Sockets \ {x} : sock'[y] = sock[y]
      /\ sock' \in [Sockets -> [m_SockFd : Fds \cup {INVALID}, m_pSSL : Sessions \cup {NULL},
                                m_pCTXSSL : Sessions \cup {NULL}]]
    BY DEF Shut
<1>2. CASE x \notin Encrypted
  <2>1. sock[x].m_pSSL = NULL
      BY <1>2 DEF PointerInv
  <2>2. session' = session
      BY <2>1 DEF Shut, ShutdownSSL
  <2> QED BY <1>1, <2>1, <2>2
<1>3. CASE x \in Encrypted
  <2>1. PICK s \in Sessions : s = sock[x].m_pSSL /\ s = sock[x].m_pCTXSSL /\ session[s].refs = 2
      BY <1>3, EncryptedHasSession
  <2> DEFINE refs(t) == session[t].refs - (IF t = s THEN 1 ELSE 0) - (IF t = s THEN 1 ELSE 0)
             after(t) == IF refs(t) = 0 THEN NoSession
                         ELSE IF t = s THEN [NoSession EXCEPT !.refs = refs(t)]
                         ELSE [session[t] EXCEPT !.refs = refs(t)]
  <2>2. session' = [t \in Sessions |-> after(t)]
      BY <2>1 DEF Shut, ShutdownSSL
  <2>3. refs(s) = 0
      BY <2>1
  <2>4. ASSUME NEW t \in Sessions, t # s PROVE after(t) = session[t]
    <3>1. /\ session[t] \in [refs : 0 .. 2, state : {"none", "new", "ready", "broken"},
                             fd : Fds \cup {NULL}]
          /\ session[t].refs = 0 => session[t] = NoSession
        BY DEF SessionsOK
    <3>2. refs(t) = session[t].refs
        BY <2>4, <3>1
    <3> QED BY <2>4, <3>1, <3>2
  <2>5. after(s) = NoSession
      BY <2>3
  <2> HIDE DEF after
  <2>6. \A t \in Sessions : IF t = s THEN session'[t] = NoSession ELSE session'[t] = session[t]
      BY <2>2, <2>4, <2>5
  <2>7. SessionsOK(session', Fds)
      BY <2>2, <2>6 DEF SessionsOK, NoSession
  <2> QED BY <1>1, <2>1, <2>6, <2>7
<1> QED BY <1>2, <1>3

(* The session goes with the handshake that failed; the connection stays.  *)
LEMMA SSLAcceptFailsKeeps == ASSUME SSLInv, IInv', SSLAcceptFails PROVE SSLInv'
<1> USE NullIsNoSession, NullIsNoSocket DEF SSLInv, SSLTypeOK
<1>1. /\ tls /\ tls' /\ sslpc = "handshake" /\ sslpc' = "idle" /\ current' = NULL
      /\ result = "true" /\ result' = "true" /\ pc' = "idle" /\ held' = held
      /\ open' = open /\ secured' = secured /\ Shut(current)
      /\ halfway' = halfway /\ overwritten' = overwritten
    BY DEF SSLAcceptFails, ComeBack, Reached, vars, PlaceInv
<1>2. /\ current \in Sockets /\ current \in open /\ current \notin secured
      /\ Encrypted = secured \cup {current} /\ Encrypted' = secured
    BY <1>1 DEF PlaceInv, Encrypted
<1>3. /\ sock'[current] = [sock[current] EXCEPT !.m_pSSL = NULL]
      /\ \A y \in Sockets \ {current} : sock'[y] = sock[y]
      /\ \A s \in Sessions : IF s = sock[current].m_pSSL THEN session'[s] = NoSession
                             ELSE session'[s] = session[s]
      /\ SessionsOK(session', Fds)
      /\ sock' \in [Sockets -> [m_SockFd : Fds \cup {INVALID}, m_pSSL : Sessions \cup {NULL},
                                m_pCTXSSL : Sessions \cup {NULL}]]
    BY <1>1, <1>2, ShutFrees
<1>4. SSLTypeOK'
    BY <1>1, <1>3 DEF IInv
<1>5. PlaceInv' /\ DescriptorInv'
    BY <1>1, <1>2, <1>3 DEF PlaceInv, DescriptorInv
<1>6. \A x \in secured : /\ x \in Encrypted /\ x \in Sockets /\ x # current
                         /\ sock[x].m_pSSL \in Sessions /\ sock[x].m_pSSL # sock[current].m_pSSL
  <2> SUFFICES ASSUME NEW x \in secured
               PROVE  /\ x \in Encrypted /\ x \in Sockets /\ x # current
                      /\ sock[x].m_pSSL \in Sessions /\ sock[x].m_pSSL # sock[current].m_pSSL
      OBVIOUS
  <2>1. x \in Encrypted /\ current \in Encrypted /\ x # current
      BY <1>2
  <2> QED BY <2>1, EncryptedHasSession DEF PointerInv
<1>7. PointerInv'
  <2>1. \A x \in Sockets \ secured : sock'[x].m_pSSL = NULL
      BY <1>2, <1>3 DEF PointerInv
  <2>2. \A x \in secured : /\ sock'[x] = sock[x]
                           /\ session'[sock[x].m_pSSL] = session[sock[x].m_pSSL]
      BY <1>3, <1>6
  <2> QED BY <1>1, <1>2, <1>6, <2>1, <2>2 DEF PointerInv
<1>8. HolderInv'
    BY <1>1, <1>2, <1>3 DEF HolderInv
<1>9. OwnerInv'
  <2> SUFFICES ASSUME ~overwritten', ~halfway', NEW s \in Sessions, session'[s].refs > 0
               PROVE  \E x \in open : sock'[x].m_pCTXSSL = s /\ sock'[x].m_pSSL = s
      BY <1>1 DEF OwnerInv
  <2>1. s # sock[current].m_pSSL /\ session'[s] = session[s]
      BY <1>3 DEF NoSession
  <2>2. PICK x \in open : sock[x].m_pCTXSSL = s /\ sock[x].m_pSSL = s
      BY <1>1, <2>1 DEF OwnerInv
  <2> QED BY <1>3, <2>1, <2>2
<1> QED BY <1>4, <1>5, <1>7, <1>8, <1>9

(* Disconnect takes from an SSLSocket both that it owns, and nothing from  *)
(* the others.                                                             *)
LEMMA SSLDisconnectKeeps ==
    ASSUME SSLInv, IInv', NEW x \in Sockets, SSLDisconnect(x) PROVE SSLInv'
<1> USE NullIsNoSession, NullIsNoSocket DEF SSLInv, SSLTypeOK
<1>1. /\ tls /\ tls' /\ sslpc = "idle" /\ sslpc' = "idle" /\ current' = current
      /\ pc' = "idle" /\ x \in open /\ held' = held \ {sock[x].m_SockFd}
      /\ open' = open \ {x} /\ secured' = secured \ {x} /\ Shut(x)
      /\ halfway' = halfway /\ overwritten' = overwritten
    BY DEF SSLDisconnect, Disconnect, history
<1>2. Encrypted = secured /\ Encrypted' = secured \ {x}
    BY <1>1 DEF Encrypted
<1>3. /\ sock'[x] = [sock[x] EXCEPT !.m_pSSL = NULL]
      /\ \A y \in Sockets \ {x} : sock'[y] = sock[y]
      /\ \A s \in Sessions : IF s = sock[x].m_pSSL THEN session'[s] = NoSession
                             ELSE session'[s] = session[s]
      /\ SessionsOK(session', Fds)
      /\ sock' \in [Sockets -> [m_SockFd : Fds \cup {INVALID}, m_pSSL : Sessions \cup {NULL},
                                m_pCTXSSL : Sessions \cup {NULL}]]
    BY <1>1, ShutFrees
<1>4. SSLTypeOK'
    BY <1>1, <1>3 DEF IInv
<1>5. PlaceInv'
    BY <1>1 DEF PlaceInv
<1>6. DescriptorInv'
    BY <1>1, <1>3 DEF DescriptorInv
<1>7. PointerInv'
  <2>1. \A y \in Sockets \ (secured \ {x}) : sock'[y].m_pSSL = NULL
      BY <1>2, <1>3 DEF PointerInv
  <2>2. \A y \in secured \ {x} : /\ y \in Sockets /\ sock[y].m_pSSL \in Sessions
                                 /\ sock[y].m_pSSL # sock[x].m_pSSL
      BY <1>2, EncryptedHasSession DEF PointerInv
  <2>3. \A y \in secured \ {x} : /\ sock'[y] = sock[y]
                                 /\ session'[sock[y].m_pSSL] = session[sock[y].m_pSSL]
      BY <1>3, <2>2
  <2> QED BY <1>1, <1>2, <2>1, <2>2, <2>3 DEF PointerInv
<1>8. HolderInv'
  <2> SUFFICES ASSUME ~overwritten', NEW fd \in held, fd # sock[x].m_SockFd
               PROVE  \E y \in open \ {x} : sock'[y].m_SockFd = fd
      BY <1>1 DEF HolderInv
  <2>1. PICK y \in open : sock[y].m_SockFd = fd
      BY <1>1 DEF HolderInv
  <2> QED BY <1>3, <2>1
<1>9. OwnerInv'
  <2> SUFFICES ASSUME ~overwritten', ~halfway', NEW s \in Sessions, session'[s].refs > 0
               PROVE  \E y \in open \ {x} : sock'[y].m_pCTXSSL = s /\ sock'[y].m_pSSL = s
      BY <1>1 DEF OwnerInv
  <2>1. s # sock[x].m_pSSL /\ session'[s] = session[s]
      BY <1>3 DEF NoSession
  <2>2. PICK y \in open : sock[y].m_pCTXSSL = s /\ sock[y].m_pSSL = s
      BY <1>1, <2>1 DEF OwnerInv
  <2> QED BY <1>3, <2>1, <2>2
<1> QED BY <1>4, <1>5, <1>6, <1>7, <1>8, <1>9

(* A move carries everything to the target, and overwrites what was there. *)
LEMMA MoveKeeps ==
    ASSUME SSLInv, IInv', NEW from \in Sockets, NEW to \in Sockets, Move(from, to)
    PROVE  SSLInv'
<1> USE NullIsNoSession, NullIsNoSocket DEF SSLInv, SSLTypeOK
<1>1. /\ tls /\ tls' /\ sslpc = "idle" /\ sslpc' = "idle" /\ current' = current
      /\ pc' = pc /\ held' = held /\ session' = session /\ from \in open /\ from # to
      /\ open' = (open \ {from}) \cup {to}
      /\ secured' = IF from \in secured THEN (secured \ {from}) \cup {to} ELSE secured \ {to}
      /\ halfway' = halfway /\ overwritten' = (overwritten \/ to \in open)
    BY DEF Move, Moved, vars
<1>2. /\ sock'[to] = sock[from] /\ sock'[from] = Empty
      /\ \A y \in Sockets \ {from, to} : sock'[y] = sock[y]
      /\ sock' \in [Sockets -> [m_SockFd : Fds \cup {INVALID}, m_pSSL : Sessions \cup {NULL},
                                m_pCTXSSL : Sessions \cup {NULL}]]
    BY <1>1 DEF Move, Empty
<1>3. SSLTypeOK'
    BY <1>1, <1>2 DEF IInv
<1>4. PlaceInv'
    BY <1>1 DEF PlaceInv
<1>5. \A y \in open' : IF y = to THEN sock'[y] = sock[from]
                       ELSE y \in open /\ y # from /\ sock'[y] = sock[y]
    BY <1>1, <1>2
<1>6. DescriptorInv'
    BY <1>1, <1>5 DEF DescriptorInv
<1>7. Encrypted = secured /\ Encrypted' = secured'
    BY <1>1 DEF Encrypted
<1>8. PointerInv'
  <2>1. \A y \in secured' : /\ y \in open'
                            /\ y = to => from \in secured
                            /\ y # to => y \in secured
      BY <1>1
  <2>2. \A y \in Sockets \ secured' : sock'[y].m_pSSL = NULL
      BY <1>1, <1>2, <1>7 DEF PointerInv, Empty
  <2>3. ASSUME NEW y \in secured'
        PROVE  /\ sock'[y].m_pSSL # NULL /\ sock'[y].m_pCTXSSL = sock'[y].m_pSSL
               /\ session[sock'[y].m_pSSL] = [refs |-> 2, fd |-> sock'[y].m_SockFd, state |-> "ready"]
      BY <1>5, <1>7, <2>1 DEF PointerInv
  <2>4. ASSUME NEW y \in secured', NEW z \in secured', sock'[y].m_pSSL = sock'[z].m_pSSL
        PROVE  y = z
      BY <1>5, <1>7, <2>1, <2>4 DEF PointerInv
  <2> QED BY <1>1, <1>7, <2>2, <2>3, <2>4 DEF PointerInv
<1>9. HolderInv'
  <2> SUFFICES ASSUME ~overwritten', NEW fd \in held
               PROVE  \E y \in open' : sock'[y].m_SockFd = fd
      BY <1>1 DEF HolderInv
  <2>1. PICK y \in open : sock[y].m_SockFd = fd
      BY <1>1 DEF HolderInv
  <2> QED BY <1>1, <1>2, <2>1
<1>10. OwnerInv'
  <2> SUFFICES ASSUME ~overwritten', ~halfway', NEW s \in Sessions, session[s].refs > 0
               PROVE  \E y \in open' : sock'[y].m_pCTXSSL = s /\ sock'[y].m_pSSL = s
      BY <1>1 DEF OwnerInv
  <2>1. PICK y \in open : sock[y].m_pCTXSSL = s /\ sock[y].m_pSSL = s
      BY <1>1 DEF OwnerInv
  <2> QED BY <1>1, <1>2, <2>1
<1> QED BY <1>3, <1>4, <1>6, <1>8, <1>9, <1>10

(* The destructor, the peers and other processes touch no SSLSocket, and a *)
(* plain server has none.                                                  *)
LEMMA RestKeeps ==
    ASSUME SSLInv, IInv', ServerGoes \/ PlainServer \/ Others \/ UNCHANGED allVars
    PROVE  SSLInv'
<1> USE NullIsNoSocket DEF SSLInv, SSLTypeOK
<1>1. /\ UNCHANGED sslVars
      /\ \/ ~tls
         \/ sslpc = "idle" /\ pc = "idle" /\ pc' = "idle" /\ held' = held
         \/ UNCHANGED <<pc, clientSocket, result, held>>
  <2>1. CASE ServerGoes
      BY <2>1 DEF ServerGoes, Destroy
  <2>2. CASE PlainServer
      BY <2>2 DEF PlainServer
  <2>3. CASE Others
      BY <2>3 DEF Others, PeerConnects, PortChanges
  <2>4. CASE UNCHANGED allVars
      BY <2>4 DEF allVars, vars
  <2> QED BY <2>1, <2>2, <2>3, <2>4
<1>2. UNCHANGED <<tls, sslpc, current, sock, session, open, secured, halfway, overwritten>>
    BY <1>1 DEF sslVars, history
<1>3. SSLTypeOK'
    BY <1>2 DEF IInv
<1>4. PlaceInv' /\ DescriptorInv'
    BY <1>1, <1>2 DEF PlaceInv, DescriptorInv
<1>5. Encrypted' = Encrypted
    BY <1>2 DEF Encrypted
<1>6. PointerInv'
    BY <1>2, <1>5 DEF PointerInv
<1>7. HolderInv'
    BY <1>1, <1>2 DEF HolderInv
<1>8. OwnerInv'
    BY <1>2 DEF OwnerInv
<1> QED BY <1>3, <1>4, <1>6, <1>7, <1>8

LEMMA StepSSLInv == SSLInv /\ IInv' /\ [SSLNext]_allVars => SSLInv'
    BY ListenBeginsKeeps, TCPListensKeeps, TCPListenFailsKeeps, SetUpCtxKeeps, GiveUpKeeps,
       SSLNewKeeps, SSLAcceptKeeps, SSLAcceptFailsKeeps, SSLDisconnectKeeps, MoveKeeps, RestKeeps
       DEF SSLNext

(* The invariant holds in every behaviour. *)
THEOREM SSLInvariance == SSLSpec => []SSLInv
    BY InitSSLInv, StepSSLInv, ServerInvariance, PTL DEF SSLSpec

(* Every variable has its type, and no session is freed twice.             *)
THEOREM SSLTypeCorrect == SSLSpec => []SSLTypeOK
<1>1. SSLInv => SSLTypeOK
    BY DEF SSLInv
<1> QED BY <1>1, SSLInvariance, PTL

(* An SSLSocket that Listen returned true for has its connection and its   *)
(* session for itself, wherever it is moved.                               *)
THEOREM SecuredStay == SSLSpec => []SecuredStaySecured
<1>1. SSLInv => SecuredStaySecured
  <2> SUFFICES ASSUME SSLInv, NEW x \in secured
               PROVE  /\ sock[x].m_SockFd \in held
                      /\ sock[x].m_pSSL # NULL /\ sock[x].m_pSSL = sock[x].m_pCTXSSL
                      /\ session[sock[x].m_pSSL]
                            = [refs |-> 2, state |-> "ready", fd |-> sock[x].m_SockFd]
                      /\ \A y \in secured : sock[y].m_SockFd = sock[x].m_SockFd => x = y
      BY DEF SecuredStaySecured
  <2>1. x \in Encrypted /\ x \in open
      BY DEF Encrypted, SSLInv, SSLTypeOK
  <2> QED BY <2>1 DEF SSLInv, SSLTypeOK, DescriptorInv, PointerInv
<1> QED BY <1>1, SSLInvariance, PTL

(* What is lost has been overwritten, or Listen gave up before SSL_new.    *)
THEOREM LostByOverwriting == SSLSpec => []OnlyOverwritingLoses
<1>1. SSLInv => OnlyOverwritingLoses
    BY DEF SSLInv, HolderInv, OwnerInv, OnlyOverwritingLoses
<1> QED BY <1>1, SSLInvariance, PTL
=============================================================================
