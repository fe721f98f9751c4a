---------------------------- MODULE ServerProofs ----------------------------
(* The safety properties of Server, for any set of connections.            *)
EXTENDS Server, SequenceTheorems, TLAPS

(* The instance is there wherever the code dereferences it, and an object  *)
(* is there only after its maker has been through the constructor.         *)
InstanceInv ==
    /\ pcListener \in Handling \ {"log", "logConstruct"} => instance # None
    /\ fetched # {} => instance # None
    /\ pcMain = "update" => fetched # {}
    /\ instance = None => \A t \in Makers : manager[t] = None
    /\ pcMain = "construct" => manager["main"] = None

(* Whoever waits or is served has arrived; a peer about to be dropped has  *)
(* spoken, and has not said hello.                                         *)
ArrivedInv ==
    /\ \A i \in 1..Len(backlog) : first[backlog[i]] # "away"
    /\ socket \in Conns => first[socket] # "away"
    /\ pcListener = "drop" => first[socket] \in {"other", "closed"}

(* The inductive invariant. *)
IInv == TypeOK /\ LockDiscipline /\ InstanceInv /\ FlagSurvivesUpdate /\ ArrivedInv

-----------------------------------------------------------------------------
(* The strings the code can leave in currentIP. *)
LEMMA TextsFact == /\ Empty \in Texts /\ Torn \in Texts
                   /\ \A c \in Conns : Raw(c) \in Texts /\ Addr(c) \in Texts
    BY DEF Texts, Empty, Torn, Raw, Addr

LEMMA InitIInv == Init => IInv
<1> SUFFICES ASSUME Init PROVE IInv
    OBVIOUS
<1> USE ConnsAssumption DEF Init
<1>1. ThreadsOK
    BY TextsFact DEF ThreadsOK
<1>2. ManagerOK /\ PeersOK
    BY DEF ManagerOK, PeersOK
<1>3. ListenerOK
    BY DEF ListenerOK, Handling, Logging, Serving
<1>4. LockDiscipline
    BY DEF LockDiscipline, InCritical, Threads, Makers, Logging
<1>5. InstanceInv /\ FlagSurvivesUpdate /\ ArrivedInv
    BY DEF InstanceInv, FlagSurvivesUpdate, ArrivedInv, Handling, Logging, Serving
<1> QED BY <1>1, <1>2, <1>3, <1>4, <1>5 DEF IInv, TypeOK

-----------------------------------------------------------------------------
(* Each step keeps every variable in its type: one lemma per part of       *)
(* TypeOK, with one step per action that writes a variable of the part.    *)

LEMMA ThreadsStep == TypeOK /\ Next => ThreadsOK'
<1> SUFFICES ASSUME TypeOK, Next PROVE ThreadsOK'
    OBVIOUS
<1> USE ConnsAssumption
<1> USE DEF ThreadsOK, sharedVars, mainVars, listenerVars, peerVars
<1>0. ThreadsOK /\ ManagerOK
    BY DEF TypeOK
<1>1. ASSUME Main PROVE ThreadsOK'
  <2>1. CASE MainStart
    BY <1>0, <2>1 DEF MainStart
  <2>2. CASE MainFindsNoInstance
    BY <1>0, <2>2 DEF MainFindsNoInstance
  <2>3. CASE MainConstructs
    BY <1>0, <2>3 DEF MainConstructs
  <2>4. CASE MainReads("ip")
    BY <1>0, <2>4, TextsFact DEF MainReads, UnlockedIP, Manager, ManagerOK
  <2>5. CASE MainReads("connecting")
    BY <1>0, <2>5 DEF MainReads, Manager, ManagerOK
  <2>6. CASE MainLock
    BY <1>0, <2>6 DEF MainLock, Threads, Makers
  <2>7. CASE MainUpdate
    BY <1>0, <2>7, TextsFact DEF MainUpdate
  <2> QED BY <1>1, <2>1, <2>2, <2>3, <2>4, <2>5, <2>6, <2>7 DEF Main
<1>2. ASSUME Listener PROVE ThreadsOK'
  <2> USE DEF ListenerOnly
  <2>1. alive' \in BOOLEAN /\ mutex' \in Threads \cup {None}
    BY <1>0, <1>2 DEF Listener, ListenerLoop, ListenOpens, ListenFails, ListenLoses, ListenerAccept,
       LogLock, LogConstruct, LogAssign, LogTrim, LogFlag, ListenerReceive,
       WaitConnecting, GreetLock, GreetDies, Register, Drop, Threads, Makers
  <2>2. UNCHANGED <<running, pcMain, args, fetched>>
    BY <1>2 DEF Listener, ListenerLoop, ListenOpens, ListenFails, ListenLoses, ListenerAccept,
       LogLock, LogConstruct, LogAssign, LogTrim, LogFlag, ListenerReceive,
       WaitConnecting, GreetLock, GreetDies, Register, Drop
  <2>3. reader' \in [Conns -> {"none", "ready", "searching"}]
    BY <1>0, <1>2 DEF Listener, ListenerLoop, ListenOpens, ListenFails, ListenLoses, ListenerAccept,
       LogLock, LogConstruct, LogAssign, LogTrim, LogFlag, ListenerReceive,
       WaitConnecting, GreetLock, GreetDies, Register, Drop
  <2> QED BY <1>0, <2>1, <2>2, <2>3
<1>3. ASSUME NEW c \in Conns, Reader(c) PROVE ThreadsOK'
    BY <1>0, <1>3 DEF Reader, ReaderLock, ReaderSearch, Threads
<1>4. ASSUME NEW c \in Conns, PeerConnects(c) \/ PeerSpeaks(c) PROVE ThreadsOK'
    BY <1>0, <1>4 DEF PeerConnects, PeerSpeaks
<1>5. CASE Halted
    BY <1>0, <1>5 DEF Halted, vars
<1> QED BY <1>1, <1>2, <1>3, <1>4, <1>5 DEF Next

LEMMA ManagerStep == TypeOK /\ InstanceInv /\ Next => ManagerOK'
<1> SUFFICES ASSUME TypeOK, InstanceInv, Next PROVE ManagerOK'
    OBVIOUS
<1> USE ConnsAssumption
<1> USE DEF sharedVars, mainVars, listenerVars, peerVars, ListenerOnly
<1>0. ThreadsOK /\ ManagerOK /\ ListenerOK
    BY DEF TypeOK
<1>1. CASE UNCHANGED <<instance, manager>>
    BY <1>0, <1>1 DEF ManagerOK
<1>2. CASE MainConstructs \/ LogConstruct
    BY <1>0, <1>2, TextsFact DEF MainConstructs, LogConstruct, Construct, ManagerOK, Makers, Manager
<1>3. ASSUME MainUpdate PROVE ManagerOK'
  <2>1. instance # None
    BY <1>0, <1>3 DEF MainUpdate, InstanceInv
  <2>2. (manager[instance].connecting \/ args.connecting) \in BOOLEAN
    BY <1>0, <2>1 DEF ManagerOK, Manager, ThreadsOK
  <2> DEFINE written == [manager[instance] EXCEPT !.currentIP = args.ip,
                            !.connecting = manager[instance].connecting \/ args.connecting]
  <2>3. written \in Manager
    BY <1>0, <2>1, <2>2 DEF ManagerOK, Manager, ThreadsOK
  <2>4. manager' = [manager EXCEPT ![instance] = written] /\ UNCHANGED instance
    BY <1>0, <1>3, <2>1 DEF MainUpdate, ManagerOK
  <2> QED BY <1>0, <2>1, <2>3, <2>4 DEF ManagerOK, Makers
<1>4. ASSUME LogAssign \/ LogTrim PROVE ManagerOK'
  <2>1. socket \in Conns
    BY <1>0, <1>4 DEF LogAssign, LogTrim, ListenerOK, Handling, Logging
  <2> QED BY <1>0, <1>4, <2>1, TextsFact DEF LogAssign, LogTrim, ManagerOK, Makers, Manager
<1>5. ASSUME NEW b \in BOOLEAN, instance # None, UNCHANGED instance,
             manager' = [manager EXCEPT ![instance].connecting = b]
      PROVE ManagerOK'
  <2>1. [manager[instance] EXCEPT !.connecting = b] \in Manager
    BY <1>0, <1>5 DEF ManagerOK, Manager
  <2> QED BY <1>0, <1>5, <2>1 DEF ManagerOK
<1>6. ASSUME LogFlag \/ Register PROVE ManagerOK'
  <2>1. instance # None
    BY <1>6 DEF LogFlag, Register, InstanceInv, Handling, Logging, Serving
  <2> QED BY <1>5, <1>6, <2>1 DEF LogFlag, Register
<1>7. QED
  <2>1. ASSUME Main PROVE ManagerOK'
    BY <1>1, <1>2, <1>3, <2>1 DEF Main, MainStart, MainFindsNoInstance, MainReads, MainLock
  <2>2. ASSUME Listener PROVE ManagerOK'
    BY <1>1, <1>2, <1>4, <1>6, <2>2 DEF Listener, ListenerLoop, ListenOpens, ListenFails, ListenLoses,
       ListenerAccept, LogLock, ListenerReceive, WaitConnecting, GreetLock, GreetDies, Drop
  <2>3. ASSUME NEW c \in Conns, Reader(c) \/ PeerConnects(c) \/ PeerSpeaks(c) PROVE ManagerOK'
    BY <1>1, <2>3 DEF Reader, ReaderLock, ReaderSearch, PeerConnects, PeerSpeaks
  <2> QED BY <1>1, <2>1, <2>2, <2>3 DEF Next, Halted, vars

LEMMA PeersStep == TypeOK /\ Next => PeersOK'
<1> SUFFICES ASSUME TypeOK, Next PROVE PeersOK'
    OBVIOUS
<1> USE DEF sharedVars, mainVars, listenerVars, peerVars, ListenerOnly
<1>0. PeersOK /\ ListenerOK
    BY DEF TypeOK
<1>1. CASE UNCHANGED peerVars
    BY <1>0, <1>1 DEF PeersOK
<1>2. CASE ListenerAccept
  <2>1. Head(backlog) \in Conns /\ Tail(backlog) \in Seq(Conns)
    BY <1>0, <1>2, HeadTailProperties DEF ListenerAccept, PeersOK
  <2> QED BY <1>0, <1>2, <2>1 DEF ListenerAccept, PeersOK
<1>7. CASE ListenLoses
  <2>1. Head(backlog) \in Conns /\ Tail(backlog) \in Seq(Conns)
    BY <1>0, <1>7, HeadTailProperties DEF ListenLoses, PeersOK
  <2> QED BY <1>0, <1>7, <2>1 DEF ListenLoses, PeersOK
<1>3. CASE Register \/ Drop
    BY <1>0, <1>3 DEF Register, Drop, PeersOK
<1>4. ASSUME NEW c \in Conns, PeerConnects(c) PROVE PeersOK'
  <2>1. Append(backlog, c) \in Seq(Conns)
    BY <1>0, AppendProperties DEF PeersOK
  <2> QED BY <1>0, <1>4, <2>1 DEF PeerConnects, PeersOK
<1>5. ASSUME NEW c \in Conns, PeerSpeaks(c) PROVE PeersOK'
    BY <1>0, <1>5 DEF PeerSpeaks, PeersOK
<1>6. QED
  <2>1. ASSUME Main PROVE PeersOK'
    BY <1>1, <2>1 DEF Main, MainStart, MainFindsNoInstance, MainConstructs, MainReads,
       MainLock, MainUpdate
  <2>2. ASSUME Listener PROVE PeersOK'
    BY <1>1, <1>2, <1>3, <1>7, <2>2 DEF Listener, ListenerLoop, ListenOpens, ListenFails, LogLock,
       LogConstruct, LogAssign, LogTrim, LogFlag, ListenerReceive, WaitConnecting,
       GreetLock, GreetDies
  <2>3. ASSUME NEW c \in Conns, Reader(c) PROVE PeersOK'
    BY <1>1, <2>3 DEF Reader, ReaderLock, ReaderSearch
  <2> QED BY <1>1, <1>4, <1>5, <2>1, <2>2, <2>3 DEF Next, Halted, vars

LEMMA ListenerStep == TypeOK /\ InstanceInv /\ Next => ListenerOK'
<1> SUFFICES ASSUME TypeOK, InstanceInv, Next PROVE ListenerOK'
    OBVIOUS
<1> USE ConnsAssumption
<1> USE DEF sharedVars, mainVars, listenerVars, peerVars, ListenerOnly
<1>0. ManagerOK /\ ListenerOK /\ PeersOK
    BY DEF TypeOK
<1>1. CASE UNCHANGED listenerVars
    BY <1>0, <1>1 DEF ListenerOK
<1>2. ASSUME ListenerLoop \/ ListenOpens \/ ListenFails \/ ListenLoses PROVE ListenerOK'
    BY <1>0, <1>2 DEF ListenerLoop, ListenOpens, ListenFails, ListenLoses, ListenerOK, Handling, Logging, Serving
<1>3. ASSUME ListenerAccept PROVE ListenerOK'
  <2>1. Head(backlog) \in Conns
    BY <1>0, <1>3, HeadTailProperties DEF ListenerAccept, PeersOK
  <2> QED BY <1>0, <1>3, <2>1 DEF ListenerAccept, ListenerOK, Handling, Logging, Serving
<1>4. ASSUME LogLock \/ LogConstruct \/ LogAssign \/ LogTrim \/ LogFlag PROVE ListenerOK'
    BY <1>0, <1>4 DEF LogLock, LogConstruct, LogAssign, LogTrim, LogFlag,
       ListenerOK, Handling, Logging, Serving
<1>5. ASSUME ListenerReceive \/ WaitConnecting \/ GreetLock \/ GreetDies PROVE ListenerOK'
    BY <1>0, <1>5 DEF ListenerReceive, WaitConnecting, GreetLock, GreetDies,
       ListenerOK, Handling, Logging, Serving
<1>6. ASSUME Register PROVE ListenerOK'
  <2>1. socket \in Conns /\ instance # None
    BY <1>0, <1>6 DEF Register, ListenerOK, Handling, Serving, InstanceInv
  <2> QED BY <1>0, <1>6, <2>1 DEF Register, ListenerOK, ManagerOK, Manager, Handling, Logging, Serving
<1>7. ASSUME Drop PROVE ListenerOK'
    BY <1>0, <1>7 DEF Drop, ListenerOK, Handling, Logging, Serving
<1>8. QED
  <2>1. ASSUME Main PROVE ListenerOK'
    BY <1>1, <2>1 DEF Main, MainStart, MainFindsNoInstance, MainConstructs, MainReads,
       MainLock, MainUpdate
  <2>2. ASSUME NEW c \in Conns, Reader(c) \/ PeerConnects(c) \/ PeerSpeaks(c) PROVE ListenerOK'
    BY <1>1, <2>2 DEF Reader, ReaderLock, ReaderSearch, PeerConnects, PeerSpeaks
  <2> QED BY <1>1, <1>2, <1>3, <1>4, <1>5, <1>6, <1>7, <2>1, <2>2 DEF Next, Listener, Halted, vars

-----------------------------------------------------------------------------
(* Each step keeps the other parts of the invariant.                       *)

LEMMA LockStep == TypeOK /\ LockDiscipline /\ Next => LockDiscipline'
<1> SUFFICES ASSUME TypeOK, LockDiscipline, Next PROVE LockDiscipline'
    OBVIOUS
<1> USE ConnsAssumption
<1> USE DEF LockDiscipline, InCritical, Threads, Makers, Logging,
            sharedVars, mainVars, listenerVars, peerVars, ListenerOnly
<1>0. /\ reader \in [Conns -> {"none", "ready", "searching"}]
      /\ socket \in Conns <=> pcListener \in Handling
      /\ mutex \in Threads \cup {None}
    BY DEF TypeOK, ThreadsOK, ListenerOK
<1>1. ASSUME Main PROVE LockDiscipline'
    BY <1>1 DEF Main, MainStart, MainFindsNoInstance, MainConstructs, MainReads, MainLock, MainUpdate
<1>2. ASSUME ListenerLoop \/ ListenOpens \/ ListenFails \/ ListenLoses \/ ListenerAccept \/ ListenerReceive
             \/ WaitConnecting \/ GreetDies \/ Drop
      PROVE LockDiscipline'
    BY <1>2 DEF ListenerLoop, ListenOpens, ListenFails, ListenLoses, ListenerAccept, ListenerReceive,
       WaitConnecting, GreetDies, Drop
<1>3. ASSUME LogLock \/ GreetLock PROVE LockDiscipline'
    BY <1>3 DEF LogLock, GreetLock
<1>4. ASSUME LogConstruct \/ LogAssign \/ LogTrim PROVE LockDiscipline'
    BY <1>4 DEF LogConstruct, LogAssign, LogTrim
<1>5. ASSUME LogFlag PROVE LockDiscipline'
    BY <1>5 DEF LogFlag
<1>6. ASSUME Register PROVE LockDiscipline'
    BY <1>0, <1>6 DEF Register
<1>7. ASSUME NEW c \in Conns, Reader(c) PROVE LockDiscipline'
  <2> SUFFICES ASSUME NEW t \in Threads PROVE InCritical(t)' <=> mutex' = t
    OBVIOUS
  <2>1. InCritical(t) <=> mutex = t
    OBVIOUS
  <2>2. CASE ReaderLock(c)
    BY <1>0, <2>1, <2>2 DEF ReaderLock
  <2>3. CASE ReaderSearch(c)
    BY <1>0, <2>1, <2>3 DEF ReaderSearch
  <2> QED BY <1>7, <2>2, <2>3 DEF Reader
<1>8. ASSUME NEW c \in Conns, PeerConnects(c) \/ PeerSpeaks(c) PROVE LockDiscipline'
    BY <1>8 DEF PeerConnects, PeerSpeaks
<1> QED BY <1>1, <1>2, <1>3, <1>4, <1>5, <1>6, <1>7, <1>8 DEF Next, Listener, Halted, vars

LEMMA InstanceStep == IInv /\ Next => InstanceInv'
<1> SUFFICES ASSUME IInv, Next PROVE InstanceInv'
    OBVIOUS
<1> USE ConnsAssumption
<1> USE DEF InstanceInv, sharedVars, mainVars, listenerVars, peerVars, ListenerOnly
<1>0. /\ TypeOK /\ InstanceInv /\ LockDiscipline
      /\ manager \in [Makers -> Manager \cup {None}]
      /\ instance \in Makers \cup {None}
    BY DEF IInv, TypeOK, ManagerOK
<1>1. ASSUME Main PROVE InstanceInv'
  <2>1. CASE MainStart \/ MainFindsNoInstance \/ MainReads("ip") \/ MainReads("connecting") \/ MainLock
    BY <1>0, <2>1 DEF MainStart, MainFindsNoInstance, MainReads, MainLock, Makers
  <2>2. CASE MainConstructs
    BY <1>0, <2>2 DEF MainConstructs, Construct, Makers
  <2>3. CASE MainUpdate
    BY <1>0, <2>3 DEF MainUpdate, Makers
  <2> QED BY <1>1, <2>1, <2>2, <2>3 DEF Main
<1>2. ASSUME Listener PROVE InstanceInv'
  <2> USE DEF Handling, Logging, Serving
  <2>1. CASE ListenerLoop \/ ListenOpens \/ ListenFails \/ ListenLoses \/ ListenerAccept \/ LogLock
    BY <1>0, <2>1 DEF ListenerLoop, ListenOpens, ListenFails, ListenLoses, ListenerAccept, LogLock
  <2>2. ASSUME LogConstruct PROVE InstanceInv'
    <3>1. instance' # None /\ UNCHANGED <<fetched, pcMain>>
      BY <2>2 DEF LogConstruct, Construct
    <3>2. manager'["main"] = manager["main"]
      BY <1>0, <2>2 DEF LogConstruct, Construct, Makers
    <3> QED BY <1>0, <3>1, <3>2
  <2>3. ASSUME LogAssign \/ LogTrim \/ LogFlag \/ Register PROVE InstanceInv'
    <3>1. instance # None
      BY <1>0, <2>3 DEF LogAssign, LogTrim, LogFlag, Register
    <3>2. UNCHANGED <<instance, fetched, pcMain>>
      BY <2>3 DEF LogAssign, LogTrim, LogFlag, Register
    <3>3. pcMain = "construct" => manager'["main"] = manager["main"]
      <4> SUFFICES ASSUME pcMain = "construct" PROVE manager'["main"] = manager["main"]
        OBVIOUS
      <4>1. instance # "main"
        BY <1>0, <3>1, NoneIsNoObject DEF TypeOK, ManagerOK, Makers
      <4> QED BY <1>0, <2>3, <4>1 DEF LogAssign, LogTrim, LogFlag, Register, Makers
    <3> QED BY <1>0, <3>1, <3>2, <3>3
  <2>4. ASSUME ListenerReceive \/ WaitConnecting \/ GreetLock \/ GreetDies \/ Drop
        PROVE InstanceInv'
    <3>1. UNCHANGED <<instance, manager, fetched, pcMain>>
      BY <2>4 DEF ListenerReceive, WaitConnecting, GreetLock, GreetDies, Drop
    <3>2. instance # None \/ pcListener' = "loop"
      BY <1>0, <2>4 DEF ListenerReceive, WaitConnecting, GreetLock, GreetDies, Drop
    <3> QED BY <1>0, <3>1, <3>2
  <2> QED BY <1>2, <2>1, <2>2, <2>3, <2>4 DEF Listener
<1>3. ASSUME NEW c \in Conns, Reader(c) \/ PeerConnects(c) \/ PeerSpeaks(c) PROVE InstanceInv'
    BY <1>0, <1>3 DEF Reader, ReaderLock, ReaderSearch, PeerConnects, PeerSpeaks
<1> QED BY <1>0, <1>1, <1>2, <1>3 DEF Next, Halted, vars

LEMMA FlagStep == IInv /\ Next => FlagSurvivesUpdate'
<1> SUFFICES ASSUME IInv, Next PROVE FlagSurvivesUpdate'
    OBVIOUS
<1> USE ConnsAssumption, NoneIsNoObject
<1> USE DEF FlagSurvivesUpdate, MadeTwice, sharedVars, mainVars, listenerVars, peerVars, ListenerOnly
<1>0. /\ InstanceInv /\ FlagSurvivesUpdate
      /\ manager \in [Makers -> Manager \cup {None}]
      /\ instance \in Makers \cup {None}
      /\ instance # None => manager[instance] \in Manager
    BY DEF IInv, TypeOK, ManagerOK
<1>1. CASE UNCHANGED <<instance, manager>> /\ (pcListener' \in Serving => pcListener \in Serving)
    BY <1>0, <1>1
<1>2. ASSUME MainConstructs PROVE FlagSurvivesUpdate'
  <2> SUFFICES ASSUME pcListener \in Serving PROVE MadeTwice'
    BY <1>2 DEF MainConstructs
  <2>1. instance # None
    BY <1>0 DEF InstanceInv, Handling, Serving
  <2>2. instance # "main"
    BY <1>0, <1>2, <2>1 DEF MainConstructs, InstanceInv
  <2>3. manager["listener"] # None
    BY <1>0, <2>1, <2>2 DEF Makers
  <2>4. PICK garbage \in BOOLEAN :
           manager' = [manager EXCEPT !["main"] = [currentIP |-> Empty, connecting |-> garbage]]
    BY <1>2 DEF MainConstructs, Construct
  <2>5. [currentIP |-> Empty, connecting |-> garbage] \in Manager
    BY TextsFact DEF Manager
  <2> QED BY <1>0, <2>3, <2>4, <2>5 DEF Makers
<1>3. ASSUME MainUpdate PROVE FlagSurvivesUpdate'
  <2> SUFFICES ASSUME pcListener \in Serving
               PROVE  manager'[instance'].connecting \/ MadeTwice'
    BY <1>3 DEF MainUpdate
  <2>1. instance # None
    BY <1>0 DEF InstanceInv, Handling, Serving
  <2>2. manager'[instance] = [manager[instance] EXCEPT !.currentIP = args.ip,
                                  !.connecting = manager[instance].connecting \/ args.connecting]
    BY <1>0, <1>3, <2>1 DEF MainUpdate
  <2>3. CASE MadeTwice
    <3>1. manager'[instance] \in Manager
      BY <1>3, <2>1, ManagerStep DEF IInv, ManagerOK, MainUpdate
    <3>2. \A t \in Makers : t # instance => manager'[t] = manager[t]
      BY <1>0, <1>3 DEF MainUpdate
    <3> QED BY <2>3, <3>1, <3>2
  <2>4. CASE manager[instance].connecting
    BY <1>0, <1>3, <2>1, <2>2, <2>4 DEF MainUpdate, Manager
  <2> QED BY <1>0, <2>3, <2>4
<1>4. ASSUME LogFlag PROVE FlagSurvivesUpdate'
  <2>1. instance # None
    BY <1>0, <1>4 DEF LogFlag, InstanceInv, Handling, Logging
  <2>2. manager'[instance'].connecting
    BY <1>0, <1>4, <2>1 DEF LogFlag, Manager
  <2> QED BY <2>2
<1>5. ASSUME Listener PROVE FlagSurvivesUpdate'
  <2>1. CASE ListenerReceive \/ WaitConnecting \/ GreetLock \/ GreetDies
    BY <1>1, <2>1 DEF ListenerReceive, WaitConnecting, GreetLock, GreetDies, Serving
  <2>2. CASE ListenerLoop \/ ListenOpens \/ ListenFails \/ ListenLoses \/ ListenerAccept \/ LogLock
             \/ LogConstruct \/ LogAssign \/ LogTrim \/ Register \/ Drop
    BY <2>2 DEF ListenerLoop, ListenOpens, ListenFails, ListenLoses, ListenerAccept, LogLock,
       LogConstruct, LogAssign, LogTrim, Register, Drop, Serving
  <2> QED BY <1>4, <1>5, <2>1, <2>2 DEF Listener
<1>6. ASSUME Main PROVE FlagSurvivesUpdate'
    BY <1>1, <1>2, <1>3, <1>6 DEF Main, MainStart, MainFindsNoInstance, MainReads, MainLock
<1>7. ASSUME NEW c \in Conns, Reader(c) \/ PeerConnects(c) \/ PeerSpeaks(c)
      PROVE FlagSurvivesUpdate'
    BY <1>1, <1>7 DEF Reader, ReaderLock, ReaderSearch, PeerConnects, PeerSpeaks
<1> QED BY <1>1, <1>5, <1>6, <1>7 DEF Next, Halted, vars

LEMMA ArrivedStep == IInv /\ Next => ArrivedInv'
<1> SUFFICES ASSUME IInv, Next PROVE ArrivedInv'
    OBVIOUS
<1> USE ConnsAssumption
<1> USE DEF sharedVars, mainVars, listenerVars, peerVars, ListenerOnly
<1>0. /\ ArrivedInv
      /\ backlog \in Seq(Conns)
      /\ first \in [Conns -> {"away", "silent", "hello", "badHello", "other", "closed"}]
      /\ socket \in Conns <=> pcListener \in Handling
    BY DEF IInv, TypeOK, PeersOK, ListenerOK
<1>1. CASE /\ UNCHANGED <<backlog, first>> /\ socket' \in {socket, None}
           /\ pcListener' = "drop" => pcListener = "drop" /\ socket' = socket
    BY <1>0, <1>1 DEF ArrivedInv
<1>2. ASSUME ListenerReceive PROVE ArrivedInv'
    BY <1>0, <1>2 DEF ListenerReceive, IsHello, ArrivedInv, Handling, Serving
<1>3. ASSUME ListenerAccept PROVE ArrivedInv'
  <2>1. /\ Len(backlog) > 0 /\ Head(backlog) = backlog[1]
        /\ Len(Tail(backlog)) = Len(backlog) - 1
        /\ \A i \in 1..Len(Tail(backlog)) : Tail(backlog)[i] = backlog[i + 1]
    BY <1>0, <1>3, HeadTailProperties, LenProperties, EmptySeq DEF ListenerAccept
  <2> QED BY <1>0, <1>3, <2>1, LenProperties DEF ListenerAccept, ArrivedInv
<1>9. ASSUME ListenLoses PROVE ArrivedInv'
  <2>1. /\ Len(backlog) > 0
        /\ Len(Tail(backlog)) = Len(backlog) - 1
        /\ \A i \in 1..Len(Tail(backlog)) : Tail(backlog)[i] = backlog[i + 1]
    BY <1>0, <1>9, HeadTailProperties, LenProperties, EmptySeq DEF ListenLoses
  <2>2. \A d \in Conns : first'[d] \in {first[d], "closed"}
    BY <1>0, <1>9 DEF ListenLoses
  <2>3. \A i \in 1..Len(backlog) : backlog[i] \in Conns
    BY <1>0, ElementOfSeq
  <2>4. \A i \in 1..Len(backlog') : first'[backlog'[i]] # "away"
    BY <1>0, <1>9, <2>1, <2>2, <2>3, LenProperties DEF ListenLoses, ArrivedInv
  <2> QED BY <1>0, <1>9, <2>4 DEF ListenLoses, ArrivedInv, Handling
<1>4. ASSUME NEW c \in Conns, PeerConnects(c) PROVE ArrivedInv'
  <2>1. /\ Len(Append(backlog, c)) = Len(backlog) + 1
        /\ \A i \in 1..Len(backlog) : Append(backlog, c)[i] = backlog[i]
        /\ Append(backlog, c)[Len(backlog) + 1] = c
    BY <1>0, AppendProperties
  <2>2. \A d \in Conns : first'[d] # first[d] => d = c /\ first'[d] = "silent"
    BY <1>0, <1>4 DEF PeerConnects
  <2>3. \A i \in 1..Len(backlog) : backlog[i] \in Conns
    BY <1>0, ElementOfSeq
  <2> QED BY <1>0, <1>4, <2>1, <2>2, <2>3, LenProperties DEF PeerConnects, ArrivedInv
<1>5. ASSUME NEW c \in Conns, PeerSpeaks(c) PROVE ArrivedInv'
  <2>1. \A d \in Conns : \/ first'[d] = first[d]
                         \/ first[d] = "silent" /\ first'[d] # "away"
    BY <1>0, <1>5 DEF PeerSpeaks
  <2>2. \A i \in 1..Len(backlog) : backlog[i] \in Conns
    BY <1>0, ElementOfSeq
  <2> QED BY <1>0, <1>5, <2>1, <2>2 DEF PeerSpeaks, ArrivedInv, Handling
<1>6. ASSUME Main PROVE ArrivedInv'
    BY <1>1, <1>6 DEF Main, MainStart, MainFindsNoInstance, MainConstructs, MainReads,
       MainLock, MainUpdate
<1>7. ASSUME Listener PROVE ArrivedInv'
    BY <1>1, <1>2, <1>3, <1>7, <1>9 DEF Listener, ListenerLoop, ListenOpens, ListenFails, LogLock,
       LogConstruct, LogAssign, LogTrim, LogFlag, WaitConnecting, GreetLock, GreetDies,
       Register, Drop
<1>8. ASSUME NEW c \in Conns, Reader(c) PROVE ArrivedInv'
    BY <1>1, <1>8 DEF Reader, ReaderLock, ReaderSearch
<1> QED BY <1>1, <1>4, <1>5, <1>6, <1>7, <1>8 DEF Next, Halted, vars

-----------------------------------------------------------------------------
(* The inductive invariant holds of every behaviour.  It joins the type    *)
(* and lock invariants to what the code relies on without saying so: the   *)
(* instance exists wherever it is dereferenced, and whoever is served has  *)
(* arrived.                                                                *)
THEOREM Invariance == Spec => []IInv
<1>1. IInv /\ [Next]_vars => IInv'
  <2> SUFFICES ASSUME IInv, [Next]_vars PROVE IInv'
    OBVIOUS
  <2>1. CASE Next
    BY <2>1, ThreadsStep, ManagerStep, ListenerStep, PeersStep, LockStep, InstanceStep,
       FlagStep, ArrivedStep DEF IInv, TypeOK
  <2>2. CASE UNCHANGED vars
    BY <2>2 DEF vars, sharedVars, mainVars, listenerVars, peerVars,
       IInv, TypeOK, ThreadsOK, ManagerOK, ListenerOK, PeersOK, LockDiscipline, InCritical,
       InstanceInv, FlagSurvivesUpdate, MadeTwice, ArrivedInv
  <2> QED BY <2>1, <2>2
<1> QED BY InitIInv, <1>1, PTL DEF Spec

(* Every variable keeps its type, and the socket is the loop iteration's. *)
THEOREM TypeCorrect == Spec => []TypeOK
    BY Invariance, PTL DEF IInv

(* The mutex gives mutual exclusion, and no path leaves a critical section *)
(* of Update, the log callback, the greeting or a reader without unlocking. *)
THEOREM MutualExclusion == Spec => []LockDiscipline
    BY Invariance, PTL DEF IInv

(* Update's stale write of the flag never takes away the flag of the       *)
(* connection being served, unless the singleton was made twice.           *)
THEOREM FlagKept == Spec => []FlagSurvivesUpdate
    BY Invariance, PTL DEF IInv

(* The published ServerManager is written by the holder of the mutex only. *)
THEOREM WritesLocked == Spec => PublishedWritesLocked
<1> DEFINE Guarded ==
        instance # None /\ instance' = instance /\ manager'[instance] # manager[instance]
        => \/ mutex = "main" /\ pcMain' # pcMain
           \/ mutex = "listener" /\ pcListener' # pcListener
<1>1. IInv /\ [Next]_vars => [Guarded]_vars
  <2> SUFFICES ASSUME IInv, Next, instance # None, instance' = instance,
                      manager'[instance] # manager[instance]
               PROVE  \/ mutex = "main" /\ pcMain' # pcMain
                      \/ mutex = "listener" /\ pcListener' # pcListener
    OBVIOUS
  <2> USE DEF sharedVars, mainVars, listenerVars, peerVars, ListenerOnly
  <2>0. /\ InCritical("main") => mutex = "main"
        /\ InCritical("listener") => mutex = "listener"
    BY DEF IInv, LockDiscipline, Threads, Makers
  <2>1. CASE Main
    <3>1. CASE MainConstructs
      <4>1. manager["main"] = None /\ instance = "main"
        BY <3>1 DEF MainConstructs, Construct, IInv, InstanceInv
      <4> QED BY <4>1, NoneIsNoObject DEF IInv, TypeOK, ManagerOK
    <3>2. CASE MainUpdate
      BY <2>0, <3>2 DEF MainUpdate, InCritical
    <3> QED BY <2>1, <3>1, <3>2 DEF Main, MainStart, MainFindsNoInstance, MainReads, MainLock
  <2>2. CASE Listener
    BY <2>0, <2>2 DEF Listener, ListenerLoop, ListenOpens, ListenFails, ListenLoses, ListenerAccept,
       LogLock, LogConstruct, LogAssign, LogTrim, LogFlag, ListenerReceive, WaitConnecting,
       GreetLock, GreetDies, Register, Drop, InCritical, Logging
  <2>3. ASSUME NEW c \in Conns, Reader(c) \/ PeerConnects(c) \/ PeerSpeaks(c) PROVE FALSE
    BY <2>3 DEF Reader, ReaderLock, ReaderSearch, PeerConnects, PeerSpeaks
  <2> QED BY <2>1, <2>2, <2>3 DEF Next, Halted, vars
<1> QED BY <1>1, Invariance, PTL DEF Spec, PublishedWritesLocked

(* The threaded server implements the sequential handshake. *)
THEOREM Implements == Spec => ImplementsHandshake
<1>1. Init => Sequential!Init
    BY DEF Init, Sequential!Init
<1>2. IInv /\ [Next]_vars => [Sequential!Next]_(Sequential!absVars)
  <2> SUFFICES ASSUME IInv, [Next]_vars PROVE [Sequential!Next]_(Sequential!absVars)
    OBVIOUS
  <2> USE DEF sharedVars, mainVars, listenerVars, peerVars, ListenerOnly, Sequential!absVars
  <2>0. /\ socket \in Conns \cup {None}
        /\ socket \in Conns <=> pcListener \in Handling
        /\ pcListener = "drop" => first[socket] \in {"other", "closed"}
    BY DEF IInv, TypeOK, ListenerOK, ArrivedInv
  <2>1. ASSUME ListenerAccept PROVE Sequential!Take
    BY <2>0, <2>1 DEF ListenerAccept, Sequential!Take, Handling, Logging, Serving
  <2>9. ASSUME ListenLoses PROVE Sequential!Lose
    BY <2>0, <2>9 DEF ListenLoses, Sequential!Lose, Handling, Logging, Serving
  <2>2. ASSUME Register PROVE Sequential!Admit
    BY <2>0, <2>2 DEF Register, Sequential!Admit, Handling, Serving
  <2>3. ASSUME Drop PROVE Sequential!Refuse
    BY <2>0, <2>3 DEF Drop, Sequential!Refuse, Handling
  <2>4. ASSUME NEW c \in Conns, PeerConnects(c) \/ PeerSpeaks(c)
        PROVE  Sequential!Arrive(c) \/ Sequential!Speak(c)
    BY <2>4 DEF PeerConnects, PeerSpeaks, Sequential!Arrive, Sequential!Speak, Sequential!FirstEvents
  <2>5. ASSUME Main PROVE UNCHANGED Sequential!absVars
    BY <2>5 DEF Main, MainStart, MainFindsNoInstance, MainConstructs, MainReads, MainLock, MainUpdate
  <2>6. ASSUME ListenerLoop \/ ListenOpens \/ ListenFails \/ LogLock \/ LogConstruct
               \/ LogAssign \/ LogTrim \/ LogFlag \/ ListenerReceive \/ WaitConnecting
               \/ GreetLock \/ GreetDies
        PROVE UNCHANGED Sequential!absVars
    BY <2>6 DEF ListenerLoop, ListenOpens, ListenFails, LogLock, LogConstruct, LogAssign,
       LogTrim, LogFlag, ListenerReceive, WaitConnecting, GreetLock, GreetDies
  <2>7. ASSUME NEW c \in Conns, Reader(c) PROVE UNCHANGED Sequential!absVars
    BY <2>7 DEF Reader, ReaderLock, ReaderSearch
  <2>8. CASE UNCHANGED vars
    BY <2>8 DEF vars
  <2> QED BY <2>1, <2>2, <2>3, <2>4, <2>5, <2>6, <2>7, <2>8, <2>9
             DEF Next, Listener, Halted, Sequential!Next
<1> QED BY <1>1, <1>2, Invariance, PTL DEF Spec, ImplementsHandshake, Sequential!Spec
=============================================================================
