------------------------------- MODULE Server -------------------------------
(***************************************************************************)
(* The threads of WhiteSMO++ (Source/Server.cpp) and what they share: the  *)
(* server's one mutex, the ServerManager singleton (the address of the     *)
(* connection being set up and the "connecting" flag) and _running.        *)
(*                                                                         *)
(*   "main"      Server::Start's loop of Update                            *)
(*   "listener"  SMOListener, which calls CTCPServer::Listen; Listen calls *)
(*               logPrinter, so the log callback runs in this thread       *)
(*   c \in Conns the SMOReader started for connection c                    *)
(*                                                                         *)
(* The grain of an action is what the code does between two accesses to    *)
(* shared state that another thread can come between.  The name printed    *)
(* for a client, the bytes of the reply and the room data are left out.    *)
(***************************************************************************)
EXTENDS Naturals, Sequences

CONSTANTS Conns,   \* the connections peers may open, each with an address
          None     \* no thread, no connection, no object

ASSUME ConnsAssumption ==
    None \notin Conns \cup {"main", "listener"} /\ {"main", "listener"} \cap Conns = {}

VARIABLES
    alive,       \* FALSE once an exception has left a thread, or SIGPIPE came
    running,     \* Server::_running
    mutex,       \* the thread that holds Server::_mutex, or None
    instance,    \* ServerManager::_instance: the thread whose object it is
    manager,     \* the ServerManager object each thread has made, or None
    pcMain,      \* where the main thread is
    args,        \* the arguments main has read for the coming Update
    fetched,     \* which of the two arguments it has read so far
    pcListener,  \* where the listener thread is
    open,        \* the listening socket is open
    socket,      \* SMOListener's local socket
    reader,      \* where the reader thread of each connection is
    client,      \* the address in the Client record made for a connection
    backlog,     \* connections that wait for accept()
    first,       \* the first thing each peer did after it connected
    fate         \* what has become of each connection

mainVars == <<pcMain, args, fetched>>
sharedVars == <<mutex, instance, manager>>
listenerVars == <<pcListener, open, socket, client>>
peerVars == <<backlog, first, fate>>
vars == <<alive, running, sharedVars, mainVars, listenerVars, reader, peerVars>>

Makers == {"main", "listener"}
Threads == Makers \cup Conns

(* An address string as a state of ServerManager::currentIP: the whole log *)
(* line of a connection, its quoted address, the initial empty string, or  *)
(* what an unlocked copy made while the string is being changed yields.    *)
Raw(c)  == <<"raw", c>>
Addr(c) == <<"addr", c>>
Empty   == <<"empty", None>>
Torn    == <<"torn", None>>
Texts   == ({"raw", "addr"} \X Conns) \cup {Empty, Torn}

Manager == [currentIP : Texts, connecting : BOOLEAN]

ASSUME NoneIsNoObject == None \notin Manager

(* Listener places at which a connection has been accepted.                *)
Logging == {"log", "logConstruct", "logAssign", "logTrim", "logFlag"}
Serving == {"receive", "wait", "greetLock", "greet"}
Handling == Logging \cup Serving \cup {"drop"}

Init ==
    /\ alive = TRUE
    /\ running \in BOOLEAN                   \* never initialised
    /\ mutex = None
    /\ instance = None
    /\ manager = [t \in Makers |-> None]
    /\ pcMain = "start"
    /\ args \in [ip : {Empty}, connecting : {FALSE}]
    /\ fetched = {}
    /\ pcListener = "loop"
    /\ open = FALSE
    /\ socket = None
    /\ reader = [c \in Conns |-> "none"]
    /\ client = [c \in Conns |-> None]
    /\ backlog = <<>>
    /\ first = [c \in Conns |-> "away"]
    /\ fate = [c \in Conns |-> "none"]

-----------------------------------------------------------------------------
(* ServerManager::GetInstance is called without the mutex by main and with *)
(* it by the listener.  A thread that finds no instance makes one, and     *)
(* stores it, in two steps that are not ordered against the other thread.  *)

(* `new ServerManager` leaves connecting as it finds it; the store to      *)
(* _instance happens whatever has been stored there since the check.       *)
Construct(t) ==
    \E garbage \in BOOLEAN :
        /\ manager' = [manager EXCEPT ![t] = [currentIP |-> Empty, connecting |-> garbage]]
        /\ instance' = t

(* An address is being written by the listener, inside the lock. *)
Writing == pcListener \in {"logAssign", "logTrim"}

(* What a read of currentIP without the lock may return. *)
UnlockedIP == {manager[instance].currentIP} \cup (IF Writing THEN {Torn} ELSE {})

-----------------------------------------------------------------------------
(* The main thread.                                                        *)

(* Start prints "Server started." and only then sets _running. *)
MainStart ==
    /\ alive /\ pcMain = "start"
    /\ running' = TRUE
    /\ pcMain' = "args"
    /\ UNCHANGED <<alive, sharedVars, args, fetched, listenerVars, reader, peerVars>>

MainFindsNoInstance ==
    /\ alive /\ pcMain = "args" /\ instance = None
    /\ pcMain' = "construct"
    /\ UNCHANGED <<alive, running, sharedVars, args, fetched, listenerVars, reader, peerVars>>

MainConstructs ==
    /\ alive /\ pcMain = "construct"
    /\ Construct("main")
    /\ pcMain' = "args"
    /\ UNCHANGED <<alive, running, mutex, args, fetched, listenerVars, reader, peerVars>>

(* The two arguments of Update are read in either order, without the lock. *)
MainReads(arg) ==
    /\ alive /\ pcMain = "args" /\ instance # None
    /\ arg \notin fetched
    /\ fetched' = fetched \cup {arg}
    /\ \/ /\ arg = "ip"
          /\ \E text \in UnlockedIP : args' = [args EXCEPT !.ip = text]
       \/ /\ arg = "connecting"
          /\ args' = [args EXCEPT !.connecting = manager[instance].connecting]
    /\ UNCHANGED <<alive, running, sharedVars, pcMain, listenerVars, reader, peerVars>>

(* Mutant: Update enters its critical section without waiting for the lock. *)
MainLockAtOnce ==
    /\ alive /\ pcMain = "args" /\ fetched = {"ip", "connecting"}
    /\ mutex' = "main"
    /\ pcMain' = "update"
    /\ UNCHANGED <<alive, running, instance, manager, args, fetched, listenerVars, reader, peerVars>>

MainLock ==
    /\ alive /\ pcMain = "args" /\ fetched = {"ip", "connecting"}
    /\ mutex = None
    /\ mutex' = "main"
    /\ pcMain' = "update"
    /\ UNCHANGED <<alive, running, instance, manager, args, fetched, listenerVars, reader, peerVars>>

(* Mutant: Update stores its argument even when connecting is already set. *)
MainUpdateOverwrites ==
    /\ alive /\ pcMain = "update"
    /\ manager' = [manager EXCEPT ![instance] = [currentIP |-> args.ip, connecting |-> args.connecting]]
    /\ mutex' = None
    /\ pcMain' = "args"
    /\ fetched' = {}
    /\ args' = [ip |-> Empty, connecting |-> FALSE]
    /\ UNCHANGED <<alive, running, instance, listenerVars, reader, peerVars>>

(* Update writes the address it was given back, raises the flag if it was  *)
(* given one, copies the roster and unlocks.  Nothing in the program adds  *)
(* a player to the room, so the two loops over the roster do nothing; and  *)
(* Start calls Update again at once.                                       *)
MainUpdate ==
    /\ alive /\ pcMain = "update"
    /\ manager' = [manager EXCEPT ![instance].currentIP = args.ip,
                                  ![instance].connecting = @ \/ args.connecting]
    /\ mutex' = None
    /\ pcMain' = "args"
    /\ fetched' = {}
    /\ args' = [ip |-> Empty, connecting |-> FALSE]
    /\ UNCHANGED <<alive, running, instance, listenerVars, reader, peerVars>>

Main == \/ MainStart \/ MainFindsNoInstance \/ MainConstructs
        \/ MainReads("ip") \/ MainReads("connecting")
        \/ MainLock \/ MainUpdate

-----------------------------------------------------------------------------
(* The listener thread.                                                    *)

(* The frame of the listener's actions. *)
ListenerOnly == UNCHANGED <<running, mainVars>>

ListenerLoop ==
    /\ alive /\ pcListener = "loop"
    /\ pcListener' = IF running THEN "listen" ELSE "exited"
    /\ ListenerOnly
    /\ UNCHANGED <<alive, sharedVars, open, socket, client, reader, peerVars>>

(* CTCPServer::Listen makes the listening socket on its first call. *)
ListenOpens ==
    /\ alive /\ pcListener = "listen" /\ ~open
    /\ open' = TRUE
    /\ ListenerOnly
    /\ UNCHANGED <<alive, sharedVars, pcListener, socket, client, reader, peerVars>>

(* Listen may fail at any of its system calls; the loop calls it again. *)
ListenFails ==
    /\ alive /\ pcListener = "listen"
    /\ pcListener' = "loop"
    /\ ListenerOnly
    /\ UNCHANGED <<alive, sharedVars, open, socket, client, reader, peerVars>>

(* accept() may report the oldest connection as one its peer has reset. *)
ListenLoses ==
    /\ alive /\ pcListener = "listen" /\ open
    /\ backlog # <<>>
    /\ backlog' = Tail(backlog)
    /\ first' = [first EXCEPT ![Head(backlog)] = "closed"]
    /\ fate' = [fate EXCEPT ![Head(backlog)] = "lost"]
    /\ pcListener' = "loop"
    /\ ListenerOnly
    /\ UNCHANGED <<alive, sharedVars, open, socket, client, reader>>

ListenerAccept ==
    /\ alive /\ pcListener = "listen" /\ open
    /\ backlog # <<>>
    /\ socket' = Head(backlog)
    /\ backlog' = Tail(backlog)
    /\ fate' = [fate EXCEPT ![Head(backlog)] = "accepted"]
    /\ pcListener' = "log"
    /\ ListenerOnly
    /\ UNCHANGED <<alive, sharedVars, open, client, reader, first>>

(* logPrinter takes the lock and asks for the instance. *)
LogLock ==
    /\ alive /\ pcListener = "log"
    /\ mutex = None
    /\ mutex' = "listener"
    /\ pcListener' = IF instance = None THEN "logConstruct" ELSE "logAssign"
    /\ ListenerOnly
    /\ UNCHANGED <<alive, instance, manager, open, socket, client, reader, peerVars>>

LogConstruct ==
    /\ alive /\ pcListener = "logConstruct"
    /\ Construct("listener")
    /\ pcListener' = "logAssign"
    /\ ListenerOnly
    /\ UNCHANGED <<alive, mutex, open, socket, client, reader, peerVars>>

LogAssign ==
    /\ alive /\ pcListener = "logAssign"
    /\ manager' = [manager EXCEPT ![instance].currentIP = Raw(socket)]
    /\ pcListener' = "logTrim"
    /\ ListenerOnly
    /\ UNCHANGED <<alive, mutex, instance, open, socket, client, reader, peerVars>>

(* The line is cut down to what stands between its quotes.  Each of these  *)
(* statements asks for the instance again: on an object that main has put  *)
(* in place since, there is no quote, erase(npos) throws out_of_range, and *)
(* nothing catches it.                                                     *)
LogTrim ==
    /\ alive /\ pcListener = "logTrim"
    /\ \/ /\ manager[instance].currentIP = Raw(socket)
          /\ manager' = [manager EXCEPT ![instance].currentIP = Addr(socket)]
          /\ pcListener' = "logFlag"
          /\ UNCHANGED alive
       \/ /\ manager[instance].currentIP # Raw(socket)
          /\ alive' = FALSE
          /\ UNCHANGED <<manager, pcListener>>
    /\ ListenerOnly
    /\ UNCHANGED <<mutex, instance, open, socket, client, reader, peerVars>>

LogFlag ==
    /\ alive /\ pcListener = "logFlag"
    /\ manager' = [manager EXCEPT ![instance].connecting = TRUE]
    /\ mutex' = None
    /\ pcListener' = "receive"
    /\ ListenerOnly
    /\ UNCHANGED <<alive, instance, open, socket, client, reader, peerVars>>

IsHello(c) == first[c] \in {"hello", "badHello"}

(* Mutant: the receive gives up on a silent peer. *)
ListenerReceiveTimesOut ==
    /\ alive /\ pcListener = "receive"
    /\ pcListener' = IF IsHello(socket) THEN "wait" ELSE "drop"
    /\ ListenerOnly
    /\ UNCHANGED <<alive, sharedVars, open, socket, client, reader, peerVars>>

(* One recv, which blocks until the peer has spoken or hung up. *)
ListenerReceive ==
    /\ alive /\ pcListener = "receive"
    /\ first[socket] # "silent"
    /\ pcListener' = IF IsHello(socket) THEN "wait" ELSE "drop"
    /\ ListenerOnly
    /\ UNCHANGED <<alive, sharedVars, open, socket, client, reader, peerVars>>

(* The flag is polled without the lock. *)
WaitConnecting ==
    /\ alive /\ pcListener = "wait"
    /\ manager[instance].connecting
    /\ pcListener' = "greetLock"
    /\ ListenerOnly
    /\ UNCHANGED <<alive, sharedVars, open, socket, client, reader, peerVars>>

GreetLock ==
    /\ alive /\ pcListener = "greetLock"
    /\ mutex = None
    /\ mutex' = "listener"
    /\ pcListener' = "greet"
    /\ ListenerOnly
    /\ UNCHANGED <<alive, instance, manager, open, socket, client, reader, peerVars>>

(* A hello whose name length is negative makes std::string throw; a send   *)
(* to a peer that has reset the connection may raise SIGPIPE.  Either ends *)
(* the process with the mutex held.                                        *)
GreetDies ==
    /\ alive /\ pcListener = "greet"
    /\ alive' = FALSE
    /\ ListenerOnly
    /\ UNCHANGED <<sharedVars, listenerVars, reader, peerVars>>

(* The reply is sent (whether it arrives is not looked at), the Client is  *)
(* made with the address the manager holds now, its reader is started, the *)
(* flag goes down and the lock is released.                                *)
Register ==
    /\ alive /\ pcListener = "greet" /\ first[socket] = "hello"
    /\ client' = [client EXCEPT ![socket] = manager[instance].currentIP]
    /\ reader' = [reader EXCEPT ![socket] = "ready"]
    /\ manager' = [manager EXCEPT ![instance].connecting = FALSE]
    /\ mutex' = None
    /\ fate' = [fate EXCEPT ![socket] = "client"]
    /\ socket' = None
    /\ pcListener' = "loop"
    /\ ListenerOnly
    /\ UNCHANGED <<alive, instance, open, backlog, first>>

(* Mutant: the socket outlives the iteration that accepted it. *)
DropKeepsSocket ==
    /\ alive /\ pcListener = "drop"
    /\ fate' = [fate EXCEPT ![socket] = "dropped"]
    /\ pcListener' = "loop"
    /\ ListenerOnly
    /\ UNCHANGED <<alive, sharedVars, open, socket, client, reader, backlog, first>>

(* Not a hello: Disconnect.  The flag raised for this peer stays up. *)
Drop ==
    /\ alive /\ pcListener = "drop"
    /\ fate' = [fate EXCEPT ![socket] = "dropped"]
    /\ socket' = None
    /\ pcListener' = "loop"
    /\ ListenerOnly
    /\ UNCHANGED <<alive, sharedVars, open, client, reader, backlog, first>>

Listener == \/ ListenerLoop \/ ListenOpens \/ ListenFails \/ ListenLoses \/ ListenerAccept
            \/ LogLock \/ LogConstruct \/ LogAssign \/ LogTrim \/ LogFlag
            \/ ListenerReceive \/ WaitConnecting \/ GreetLock
            \/ GreetDies \/ Register \/ Drop

-----------------------------------------------------------------------------
(* The readers: SMOReader looks its client up in the room's players under  *)
(* the lock, does not find it (no player is ever added) and tries again.   *)

ReaderLock(c) ==
    /\ alive /\ reader[c] = "ready"
    /\ mutex = None
    /\ mutex' = c
    /\ reader' = [reader EXCEPT ![c] = "searching"]
    /\ UNCHANGED <<alive, running, instance, manager, mainVars, listenerVars, peerVars>>

(* Mutant: the reader searches on without unlocking. *)
ReaderSearchesOn(c) == alive /\ reader[c] = "searching" /\ UNCHANGED vars

ReaderSearch(c) ==
    /\ alive /\ reader[c] = "searching"
    /\ mutex' = None
    /\ reader' = [reader EXCEPT ![c] = "ready"]
    /\ UNCHANGED <<alive, running, instance, manager, mainVars, listenerVars, peerVars>>

Reader(c) == ReaderLock(c) \/ ReaderSearch(c)

-----------------------------------------------------------------------------
(* The peers, as far as the server can observe them: connect() completes   *)
(* in the backlog of the listening socket; then the first recv finds a     *)
(* hello packet, a hello whose name length is a negative char, anything    *)
(* else (a hello split over two segments is one), or the end of stream.    *)

PeerConnects(c) ==
    /\ open /\ first[c] = "away"
    /\ first' = [first EXCEPT ![c] = "silent"]
    /\ backlog' = Append(backlog, c)
    /\ UNCHANGED <<alive, running, sharedVars, mainVars, listenerVars, reader, fate>>

PeerSpeaks(c) ==
    /\ first[c] = "silent"
    /\ \E event \in {"hello", "badHello", "other", "closed"} :
           first' = [first EXCEPT ![c] = event]
    /\ UNCHANGED <<alive, running, sharedVars, mainVars, listenerVars, reader, backlog, fate>>

(* After terminate() nothing happens any more. *)
Halted == ~alive /\ UNCHANGED vars

Next == \/ Main
        \/ Listener
        \/ \E c \in Conns : Reader(c)
        \/ \E c \in Conns : PeerConnects(c) \/ PeerSpeaks(c)
        \/ Halted

Spec == Init /\ [][Next]_vars

(* Every thread keeps running: an action a thread can take it takes.  The  *)
(* mutex is not fair: a thread for which it is only sometimes free may     *)
(* never get it.  The listener's choice between a Listen that fails and    *)
(* one that succeeds is the kernel's; ListenOpens and ListenerAccept are   *)
(* strongly fair, since a failure such as an exhausted descriptor table is *)
(* assumed to pass.  Peers owe nothing.                                    *)
FairSpec == /\ Spec
            /\ WF_vars(Main) /\ WF_vars(Listener)
            /\ SF_vars(ListenOpens) /\ SF_vars(ListenerAccept)
            /\ \A c \in Conns : WF_vars(Reader(c))

-----------------------------------------------------------------------------
(* Properties.                                                             *)

ThreadsOK ==
    /\ alive \in BOOLEAN /\ running \in BOOLEAN
    /\ mutex \in Threads \cup {None}
    /\ pcMain \in {"start", "args", "construct", "update"}
    /\ args \in [ip : Texts, connecting : BOOLEAN]
    /\ fetched \in SUBSET {"ip", "connecting"}
    /\ reader \in [Conns -> {"none", "ready", "searching"}]

ManagerOK ==
    /\ instance \in Makers \cup {None}
    /\ manager \in [Makers -> Manager \cup {None}]
    /\ instance # None => manager[instance] \in Manager

ListenerOK ==
    /\ pcListener \in {"loop", "listen", "exited"} \cup Handling
    /\ open \in BOOLEAN
    /\ socket \in Conns \cup {None}
    /\ socket \in Conns <=> pcListener \in Handling
    /\ client \in [Conns -> Texts \cup {None}]

PeersOK ==
    /\ backlog \in Seq(Conns)
    /\ first \in [Conns -> {"away", "silent", "hello", "badHello", "other", "closed"}]
    /\ fate \in [Conns -> {"none", "accepted", "client", "dropped", "lost"}]

(* Every variable has its type, and the listener has a socket in its hands *)
(* exactly between the accept and the end of that iteration of its loop:   *)
(* the Socket is a local of the loop body (Server.cpp:272).                *)
TypeOK == ThreadsOK /\ ManagerOK /\ ListenerOK /\ PeersOK

(* The places of each thread between _mutex.lock() and _mutex.unlock().    *)
InCritical(t) ==
    \/ t = "main" /\ pcMain = "update"
    \/ t = "listener" /\ pcListener \in (Logging \ {"log"}) \cup {"greet"}
    \/ t \in Conns /\ reader[t] = "searching"

(* Mutual exclusion across Update, the log callback, the greeting and the  *)
(* readers: whoever is between lock() and unlock() is the holder, and the  *)
(* holder is there, so no path leaves a section without unlocking.         *)
LockDiscipline == \A t \in Threads : InCritical(t) <=> mutex = t

(* Both threads found no ServerManager and each made its own. *)
MadeTwice == \A t \in Makers : manager[t] # None

(* The flag the log callback raised for the accepted connection is still   *)
(* up when the listener comes to wait for it at Server.cpp:277, although   *)
(* Update writes the flag in between from an argument read before the lock *)
(* was taken.  The only way to lose it is the unsynchronised construction  *)
(* of the singleton (ServerManager.hpp:12-13) happening twice.             *)
FlagSurvivesUpdate ==
    pcListener \in Serving => manager[instance].connecting \/ MadeTwice

(* The published ServerManager changes only in a step of the thread that   *)
(* holds the mutex: Update's and the listener's writes never interleave.   *)
PublishedWritesLocked ==
    [][instance # None /\ instance' = instance /\ manager'[instance] # manager[instance]
       => \/ mutex = "main" /\ pcMain' # pcMain
          \/ mutex = "listener" /\ pcListener' # pcListener]_vars

(* The server with its threads, lock and singleton behaves towards its     *)
(* peers as the sequential Handshake: connections are served one at a time *)
(* in arrival order and become clients exactly on a usable hello.          *)
Sequential == INSTANCE Handshake WITH queue <- backlog, serving <- socket
ImplementsHandshake == Sequential!Spec

(* Client.hpp:16 and 19 call the string the client's IP: the address kept  *)
(* for a client is the one its connection came from, at least as long as   *)
(* there is one ServerManager.                                             *)
ClientIPIsItsAddress ==
    ~MadeTwice => \A c \in Conns : client[c] # None => client[c] = Addr(c)

(* The lock is never kept: whoever has it gives it back (unless the        *)
(* process ends).                                                          *)
LockIsReleased == \A t \in Threads : mutex = t ~> (mutex # t \/ ~alive)

(* The listener comes back to Listen for ever, except for these reasons:   *)
(* the process has died; the listener left before _running was set; a peer *)
(* that was accepted stays silent, and there is no receive timeout; the    *)
(* flag was lost with the second ServerManager; or the spinning readers    *)
(* and Update keep taking the mutex first.                                 *)
ListenerComesBack ==
    \/ []<>(pcListener = "listen")
    \/ <>[](~alive)
    \/ <>[](pcListener = "exited")
    \/ <>[](pcListener = "receive" /\ first[socket] = "silent")
    \/ <>[](pcListener = "wait" /\ MadeTwice)
    \/ <>[](pcListener \in {"log", "greetLock"}) /\ []<>(mutex = None) /\ []<>(mutex # None)
=============================================================================
