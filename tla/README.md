# WhiteSMO++ in TLA+

WhiteSMO++ is a small StepMania Online server: `src/Source/Server.cpp` (360 lines) on top of three libraries kept in
the tree, socket-cpp (TCP), mINI (the configuration file) and SQLiteCpp (the user database). This directory holds
models of its core, the TLC runs that check them, and proofs of their safety properties for every value of the
constants.

## 1. The system

| Part | State | Operations | Talks to |
|---|---|---|---|
| Server threads (`Server.cpp`, `ServerManager.hpp`) | `_mutex`, `_running`, the singleton's `currentIP` and `connecting`, the listener's local socket, a `Client` per connection | `Start`/`Update` (main thread), `SMOListener` (one thread), the log callback (runs inside `Listen`), `SMOReader` (a thread per client) | socket-cpp by calls; the callback comes back from it |
| Roster and login (`Room.cpp`, most of `Update`, half of `SMOReader`) | `_players` | dispatch of packets, login, leaving | SQLiteCpp, socket-cpp; unreachable, see section 7 |
| Configuration (`Server::Server`) | the server's settings, `Config.ini`, the `Users` table | read, default, write back, create table | mINI, SQLiteCpp |
| `CTCPServer` (listening) | `m_ListenSocket`, the kernel's sockets | `Listen`, `Disconnect`, the destructor | kernel; log callback |
| `CTCPServer` (transfer) | one connected socket, its timeouts | `Receive`, `Send`, `SetRcvTimeout`, `SetSndTimeout` | kernel |
| `CTCPClient` | a status and a socket | `Connect`, `Send`, `Receive`, `Disconnect` | kernel; not used by the server |
| TLS sockets (`ASecureSocket`, `CTCPSSLClient`, `CTCPSSLServer`) | two pointers to OpenSSL beside each socket | `Connect`, `Listen`, `Send`, `Receive`, `Disconnect`, moves of `SSLSocket` | OpenSSL, `CTCPClient`, `CTCPServer`; not used by the server |
| mINI `INIMap` | a vector of pairs and an index from keys to positions | `[]`, `set`, `remove`, `clear`, copy | none |
| mINI files | `Config.ini` | `read`, `generate`, `write` (the lazy writer) | file system |
| SQLiteCpp objects | connections, prepared statements, backups, each owned by C++ objects that move | `Database`, `Statement`, `Column`, `Backup` | sqlite3 |
| SQLiteCpp guards | transactions and savepoints of one connection | `Transaction`, `Savepoint` | sqlite3 |

How they interact. `main` makes a `Server` (which reads and rewrites `Config.ini` and opens the database) and calls
`Start`. `Start` makes the `CTCPServer`, starts `SMOListener` in a thread, sets `_running` and calls `Update` for
ever. `SMOListener` calls `Listen`; when a connection has been accepted, `Listen` calls the log callback in the same
thread, which takes the mutex, puts the address into the singleton and raises `connecting`. The listener then receives
once, without a timeout; if the packet is a hello it polls `connecting`, takes the mutex, replies, makes the `Client`,
starts its reader, lowers the flag and unlocks; otherwise it disconnects. `Update` meanwhile passes the singleton's
two fields through its arguments, read without the mutex, and writes them back under it.

What is hard. Three kinds of threads around one mutex locked and unlocked by hand; a singleton made without
synchronisation by two threads; values read before the lock and written after it; a callback from a library; a
listener that blocks; system calls each of which may fail, in a retry loop; partial transfers; an index that must
follow a vector; objects that share what a C library counts, and go in any order. `PROJECT.json` lists these, each at
its line.

What makes each part correct:

- *Server threads*: sections are exclusive and always left; the flag raised for a connection is there when it is
  waited for; connections are served in order, each once, and become clients exactly on a hello; the address kept for
  a client is its own; the listener comes back.
- *Listening socket*: no descriptor is lost whatever fails; the result agrees with the out-parameter; the server
  listens on its port and goes on doing so; a timed call returns.
- *Transfer*: bytes arrive in order, at the right places, inside the array; the result says how many. (The code fails
  this after a failed `recv` in a full read.)
- *INIMap*: vector and index agree; together they are a map that remembers the order of insertion.
- *INI files*: what is written is what is read back, as far as the format can carry it; what was made by hand stays.
- *Configuration*: a server that is up has all its settings, and those of the file; a default is given once; whatever a
  crash leaves of the file, the next start works with it. (A crash in the middle of the writing does lose settings.)
- *Transactions and savepoints*: what is not committed leaves no trace; a savepoint takes back its own writes and no
  others; nothing stays open without a guard.
- *Descriptors of the server*: each is the listening socket, the connection in the listener's hands or a client's; a
  client's number keeps meaning its connection; while there are descriptors, every peer is taken.
- *Databases*: a connection is open as long as anything uses it, and no longer than a Database has it.
- *Statements*: the flags and names a `Statement` keeps agree with the prepared statement it has, and a finished one
  does not run again by itself.
- *`CTCPClient`*: no descriptor is lost, and none of another part of the process is closed, written to or changed.
- *TLS sockets*: true means secured, on the object's own connection; no session is used after it was freed, and none
  is lost.

## 2. Modules

| Module | Kind | Models |
|---|---|---|
| `Handshake` | abstract specification | what the connection side promises its peers |
| `Server` | component | `Server.cpp` threads, `ServerManager.hpp` |
| `MCServer` | for TLC | the order in which two connections arrive |
| `ServerProofs` | proofs | theorems about `Server` |
| `ServerSockets` | component, composition | `SMOListener` over `TCPListen`, with the process's descriptors; implements `Handshake` as well |
| `TCPListen` | component | `CTCPServer::Listen`, `Disconnect`, `~CTCPServer`, `ASocket::SelectSocket` |
| `TCPServerProofs` | proofs | theorems about `TCPListen`, `ServerSockets` and `SSLServer` |
| `TCPStream` | component | `CTCPServer::Receive`, `Send`, the timeout setters; `CTCPSSLServer::Receive`, `Send` |
| `TCPStreamProofs` | proofs | theorems about `TCPStream` |
| `OrderedMap` | abstract specification | what a user of an `INIMap` sees |
| `INIMap` | component | `mINI::INIMap` |
| `MCINIMap` | for TLC | spellings and keys as model values |
| `INIMapProofs` | proofs | theorems about `INIMap`, with its refinement of `OrderedMap` |
| `INIText` | operators | the texts of lines: what `parseLine` makes of them, what is written into them |
| `INIFormat` | operators | what mINI reads, generates and writes over a file |
| `INIFile` | component | `INIFile::read`, `generate`, `write` and edits between them; uses `INIFormat` |
| `MCINIFile` | for TLC | names and values with their texts, from `INIText`; the files to start from |
| `ServerConfig` | component, composition | `Server::Server` over `Config.ini`, with restarts and crashes; uses `INIFormat` |
| `MCServerConfig` | for TLC | three settings, their values, the administrator's files |
| `ConfigProofs` | proofs | theorems about `INIFile` and `ServerConfig`, with what the operators of `INIFormat` compute |
| `TransactionGuards` | component | `SQLite::Transaction`, `SQLite::Savepoint` over one connection |
| `TransactionGuardsProofs` | proofs | theorems about `TransactionGuards` |
| `Statement` | component | `SQLite::Statement`, `SQLite::Column` over prepared statements |
| `Database` | component, composition | `SQLite::Database` and `SQLite::Backup`, with the Statements of `Statement` on them |
| `MCDatabase` | for TLC | a query under two schemas, symmetry and view |
| `DatabaseProofs` | proofs | theorems about `Statement` and `Database` |
| `TCPClient` | component | `CTCPClient` in a process with other descriptors |
| `SecureSocket` | operators | `ASecureSocket`: sessions of OpenSSL and who refers to them |
| `SSLClient` | component, composition | `CTCPSSLClient` over the `CTCPClient` of `TCPClient` |
| `SSLServer` | component, composition | `CTCPSSLServer` over the `CTCPServer` of `TCPListen` |
| `MCSSLServer` | for TLC | symmetry |
| `SSLClientProofs` | proofs | theorems about `TCPClient` and `SSLClient` |

### Server

The grain of an action is what happens between two accesses to shared state which another thread can come between.
`pcMain` is `start` (before `_running = true`), `args` (reading the two arguments of `Update`, in either order),
`construct` (between the check and the store of `GetInstance`) or `update` (in the critical section,
`Server.cpp:109-114`). `pcListener` names the places of `SMOListener` and of the callback in it: `loop`, `listen`,
`log` (about to lock), `logConstruct`, `logAssign`, `logTrim`, `logFlag` (lines 81-85), `receive`, `wait` (277),
`greetLock`, `greet` (282-296), `drop` (300), `exited`. `reader[c]` is `none`, `ready` or `searching`.

`manager[t]` is the `ServerManager` object that thread `t` has made, `instance` the thread whose object `_instance`
points to: so both threads may make one. Undefined behaviour is a choice: `_running` and a new object's `connecting`
have any value; an unlocked copy of `currentIP` made while the callback is changing the string yields the string or
`Torn`. A copy that runs into freed memory would crash the program, which adds nothing to `Torn` for the properties
here.

An address is one of four texts: `Raw(c)`, the whole log line; `Addr(c)`, the address in it; `Empty`; `Torn`.
Addresses of different connections are taken to be different, so that a client with another's address is seen. A peer
is the first thing the server's single `recv` finds: `hello`, `badHello` (the length of the name is a negative `char`,
which is signed on the x86 builds), `other` or `closed`; a hello that arrives in two segments is `other`, as the code
treats it. `GreetDies` is the end of the process in lines 282-286: `std::string` throws, or `send` raises SIGPIPE;
`alive` is FALSE from then on.

`Handshake` has a queue, the connection being served and what became of each; one that is aborted in the kernel before
`accept()` is lost. `Server` implements it with `queue <- backlog` and `serving <- socket`; threads, lock and
singleton are hidden.

### ServerSockets

The loop of `SMOListener` again, this time with the system calls of `Listen` one by one and with descriptors that run
out, and without the threads around it. `place` is where the loop is, `connection` what the kernel has behind each
descriptor, `clients` the connection for which the `Client` with that number was made. Steps of `TCPListen` that
neither take nor lose a connection are `ListenWorks`; `Taken` is `accept()` and everything the loop does up to
`Receive`; `NotTaken` a failed `accept()`, which drops the oldest connection when its peer has reset it. `Greet`
stands for lines 277-296, which `Server` has in detail; it closes nothing, as the code does not. `Server` and
`ServerSockets` implement the same `Handshake`: what the one leaves out the other has.

### TCPListen

`pc` is the system call `Listen` is about to make. Each may succeed or fail. `kind` and `port` are what the kernel has
at each descriptor; `backlog` its queue; `portTaken` says that another process has the configured port, and changes
while this one does not hold it. `bindFailed` and `held` are history: they name what the properties talk about.
`clientSocket` and `result` are the out-parameter and the return value of the last call. The log callback, which
`Listen` calls after `accept()`, is in `Server`.

### TCPStream

Bytes are their positions. `recv` and `send` take any part of what is asked and may fail at any call. `total < uSize`
is the comparison of an `int` with a `size_t` (`Below`): false for a negative total. `MaxSize` is assumed to be below
`INT_MAX`, where `total += nRecvd` does not overflow; the server's own buffers have 1024 bytes. A call is `secure` if
it is one of `CTCPSSLServer`, whose loops differ in what a failure does: `SSL_read` failing ends the loop with the
bytes there are, and `SSL_write` failing may have sent some of its records (`SSLReadFails`, `SSLWriteFails`). The loops
of the clients are the same two.

The arguments are any: `uSize` may be 0, and `usable` says that the socket is no negative number and `pData` not null.
`Refused` is the guard of lines 375 and 417: such a call returns at once, with a false that is a 0 for `Receive`. The
methods of `CTCPSSLServer` have no such guard and pass a size of 0 on to OpenSSL, which transfers nothing
(`TCPSSLServer.cpp:192` calls it undefined for `SSL_write`; here it fails). That `pData` is not null is the callers'
duty there, a precondition of the model.

### INIMap and OrderedMap

`data` and `dataIndexMap` are the two containers; `Normal` is what `trim` and `toLower` make of a key as the caller
spells it, so two spellings of a key meet. `remove` erases and then moves the index (`Erase`, `Unindex`), in one
action since nothing runs in between. In `OrderedMap` a map is the order of its keys and the value of each; `INIMap`
implements it with the order read off the vector and the values read through the index.

### INIFormat and INIFile

A line is a record of what `INIParser::parseLine` makes of its text: `none` (empty), `comment`, `section` with a name,
`keyvalue` with a key and a trimmed value, or `unknown`. A line the library writes need not be read as what was meant,
so three constants say what it is read as: `HeaderAs[s]` for the header of a section, `KeyAs[k][v]` for the line of a
key, `ReplacedAs[k][u][v]` for a line of `k` with the value `u` when `v` is written over `u`. `PlainSections`,
`PlainKeys` and `PlainValues` are the texts with nothing the parser would look at: `PlainAssumption` says that lines
made of those are read as they were meant, and of the others nothing is assumed.

`INIText` is where these come from. A text is a sequence of characters, of which `=`, `\`, `;`, `[`, `]`, the blank and
one letter matter; `ParseLine`, `HeaderText`, `KeyText` and `ReplacedText` follow `ini.h` character by character.
`MCINIFile` gives each name and value a text and computes the constants with them. Its assumption `PlainIsReadBack`,
which TLC evaluates in the run, says over all short texts which are plain: a section, if it has no semicolon;
a key, if it begins with neither `;` nor `[` and does not end in a backslash; an old value, if it does not begin with
`\=`. In each case that is both enough and necessary. Not modelled are pretty-printing, the byte order mark, and line
breaks inside names and values.

`byHand` tells the lines a file came with from those the library has added. A structure is a sequence of sections,
each a sequence of keys with values, as an `INIMap` appears from outside. `Reader` folds over the lines as
`INIReader::operator>>` loops; its `kept` are the lines it keeps for the writer. `LazyOutput` folds the writer's six
variables over them. The step back of the iterator at 540 and 644, by which a header is met twice, is one step of the
fold: first the end of the section before (`WriteNewKeys`), then the header.

### ServerConfig

`pc` follows the constructor: `configure` (13-56), `write` (58, before the old file is truncated), `flush` (lines on
their way to the disk, in `pending`), `database` (64-67), `up`. `Crash` is possible at each and leaves any beginning
of the file, with a line cut anywhere; `WriteFails` is a full disk, of which the server takes no notice;
`WriteRefused` a file that cannot be opened. `settings` are the members, numbers modulo `UIntValues` (2^32 in the
code). `edited` (what the administrator last left in the file) and `harmed` (a write has been cut short since) are
history. Only the flush of the standard stream is modelled, not the caches of the operating system.

### TransactionGuards

`guards` is the stack of live objects: scopes are left innermost first. sqlite3 is external: `inTransaction`, `begun`
(by `BEGIN` or by an outermost `SAVEPOINT`), the stack of savepoints, and the content of the database as version
numbers, `working` (what this connection sees) and `committed` (what is in the file). Statements may be refused
wherever the code has an exception path, and sqlite3 may roll back by itself. `disturbed`, `clash` and `leftBehind`
are history and name the conditions in the properties.

### Statement

`obj` are the C++ variables, each with a shared pointer (`handle`) and its copies of what sqlite3 said; `stmt` is
sqlite3's side. A prepared statement that is not on a row starts when it is stepped, also when it is done or has
failed, and is compiled anew if the schema has changed, as sqlite3.h documents. A shared pointer that is the last
finalizes it; a `Column` has one too. `executeStep`, `exec` and `tryExecuteStep` change the same state and are one
action; what they throw changes nothing.

### TCPClient

`pc` is the system call `Connect` is about to make, `left` the addresses not yet given up. The process around the
client opens and closes descriptors of its own (`OtherOpens`, `OtherCloses`), and the kernel gives out a number again
as soon as it is closed. `marks` says what the client has done to each open descriptor. The client is used by one
thread, as the class has no lock; the rest of the process runs between its calls.

### SecureSocket, SSLClient and SSLServer

An `SSLSocket` has a descriptor and two pointers, `m_pSSL` and `m_pCTXSSL`. Of an `SSL_CTX` one `SSL` is made at most,
so the two are one *session* with a count of references, which OpenSSL frees with the last; its address may be used
again. `ShutdownSSL` is one step of that count, and does nothing without an `m_pSSL`, as `SecureSocket.cpp:152`.

`sslpc` is what `Connect` or `Listen` does next: the TCP part (`tcp`), the context (the call that makes it), the
certificate files (`load`) or the handshake. Each may fail, and `return false` leaves what has been made so far where
it is. The TCP part is that of `TCPClient` and `TCPListen`, system call by system call. `tls` says whether the program
uses the secure class or the plain one, so that one run checks both. `halfway`, `reconnected`, `overwritten` and
`misused` are history: they name the conditions in the properties. OpenSSL may crash on a null or freed pointer; here
that is put down in `misused` and the program goes on.

In `SSLServer` the caller has `Sockets`, variables of type `SSLSocket`, which it fills, moves and hands to
`Disconnect`. `open` are those with a connection that `Disconnect` is still due for. `Disconnect` takes the number by
value and leaves it in the `SSLSocket` (`TCPSSLServer.cpp:239`), so a caller is assumed to call it once for each; that
is a precondition of the model.

### Database

The objects are those of `Statement`; `Database` adds the variables of type `Database`, the connections of sqlite3,
which of these are open, and to which one each prepared statement belongs (`of`). `mpSQLite` is the copy of the
connection that a Statement keeps for its error messages. `CloseConnection` is `sqlite3_close()`: refused while a
statement or a backup uses the connection, and that refusal is not looked at (`Database.cpp:85-94`, with the assertion
off as in a release build; with `SQLITECPP_ENABLE_ASSERT_HANDLER` it goes to the program's handler). `outlived` is
history: the connections for which that has happened.

`frame` is a constructor or a `backup()` that is running, with the Database being made (`other`) and the one whose
`backup()` makes it (`this`): `open` (after `sqlite3_open_v2`, which gives a connection also when it fails), `init`,
`finish` (the Backup goes) and `close` (the other Database goes). One thread uses the objects; the header asks that of
its users. `Usable` is the condition of sqlite3.h:8975, that nobody else uses the destination of a backup; sqlite3 has
it of its callers, not the other way round.

## 3. Runs

| Run | Checks | Bounds |
|---|---|---|
| `server_threads` | `TypeOK`, `LockDiscipline`, `FlagSurvivesUpdate`, `ImplementsHandshake`; `ListenerComesBack`, `LockIsReleased` under `FairSpec` | 2 connections that arrive in a fixed order |
| `server_clientip` | `ClientIPIsItsAddress`: violated | 2 connections |
| `serversockets_pool` | `DescriptorsAccounted`, `ClientsKeepTheirConnections`, `SocketsImplementHandshake`; `EveryoneIsTaken` under `SocketsFairSpec` | 3 descriptors, 3 peers |
| `tcplisten_port` | `ListensOnConfiguredPort`: violated | 3 descriptors, 2 peers |
| `sslserver_sockets` | `SSLTypeOK`, `NoDescriptorLost`, `SecuredStaySecured`, `OnlyOverwritingLoses`, `ListeningIsStable` | 3 descriptors, 1 peer, 3 sessions, 2 `SSLSocket`s (symmetric) |
| `tcpstream_transfer` | `TypeOK`, `ContractUnlessCutShort`, `SendInOrder` | arrays of 0 to 4 bytes, a stream of 6 |
| `sslclient_sessions` | `SSLTypeOK`, `NothingLeaked`, `TrueMeansSecured`, `SessionsAreUsable`, `NoSessionLost`, `OthersStayOpen`; `ConnectReturns` under `SSLFairSpec` | 3 descriptors, 2 addresses, 2 sessions |
| `inimap_ordered` | `IndexConsistent`, `ImplementsOrderedMap` | 2 maps, 3 keys, 4 spellings, 2 values |
| `inifile_roundtrip` | `RoundTrip`, `HandworkKept` | 2 plain sections and an odd one (`s];`), a plain key and an odd one (`k\`), a value, the same with a blank before it and an odd one (`\=v`); all files of 2 lines, files of 4 lines of a header and headers, comments and a key; 2 edits; files of up to 4 lines are written over |
| `serverconfig_starts` | `UpIsConfigured`, `AdministratorRules`, `NothingElseTouched` | 3 settings, a 4-bit `unsigned int`, 42 files |
| `transactionguards_atomic` | `OnlyRollbackLeavesOpen`, `UncommittedLeavesNoTrace`, `SavepointTakesBack` | 3 guards, 3 savepoints of 2 names, 2 writes |
| `database_connections` | `DBTypeOK`, `ConnectionOutlivesUse`, `NoConnectionLost`, `CopiesFollow`, `DoneIsFinal` | 2 Databases, 2 connections, 2 Statements, 2 handles (all symmetric), a query under 2 schemas, an INSERT |

`SSLTypeOK` and `DBTypeOK` contain the `TypeOK` of the module they extend.

Why the bounds are enough. *Server*: the threads that differ are main, the listener and readers; with two connections
one is being greeted while the other is registered, so that its reader contends for the mutex, and the address of an
earlier connection can be confused with the current one. The order in which the peers connect is fixed (`InOrder`),
which loses nothing because connections are only compared for equality and the threads treat them alike; a symmetry
set would not be sound with the liveness properties. What is checked for safety here is proved for any number of
connections (section 6). *ServerSockets*: beside the listening socket there are two descriptors for three peers, so
that one is refused and its number given to the next, and so that two clients exhaust them while a third waits.
*SSLServer*: a listening socket, a connection, and one descriptor more; two `SSLSocket`s to move between, and a
session for either and one left behind. One peer can connect, and again once it has been accepted; proved for any
number. *TCPStream*: four bytes allow a short read, an error, and a read that overwrites; none is the call that is
refused. *SSLClient*: a descriptor of the client, one of the rest of the process, and one that is free; two addresses,
of which the first may fail at each call; two sessions, the client's and one it has lost. *INIMap*: three keys let a
removal move two positions; two maps let copies diverge. *INIFile*: two lines of every kind show each pair of
neighbours; with four, a section that is kept, one that is removed and the first one again follow each other, which is
where the writer's flags are carried over; two edits remove a key and add another, or a section; both properties are
proved for files of any length. The three odd texts are one of each kind that is not plain: a section that is read as
another one, a key that hides its equals sign, a value that stays in front of the next. An odd section is not found
again and is appended at each write; `MaxOldLines` stops the file from growing for ever. *ServerConfig*: the eight
settings are treated by the same five lines; one text, one number and one in the second section are enough, with a key
and a comment that belong to nobody. Four bits have a negative number, one that wraps to 0 and ordinary ones; what the
run checks is proved for any settings, width and files. *TransactionGuards*: three guards nest a savepoint in a
savepoint in a transaction; two names allow a clash; proved for any nesting. *Database*: two of each kind, to move,
assign, back up and confuse, a query whose columns change with the schema, and a statement without columns; every
property of the run is proved for any number.

Symmetry is used in runs without liveness properties only. The view of `MCDatabase` takes states for one that differ
only in what a Statement without a prepared statement remembers: no property is about that, and steps only copy or
forget it.

Two runs are exempt from the check for deadlock: `transactionguards_atomic` stops at its bound on writes, and in
`serversockets_pool` the listener rightly waits in `accept()` when every peer has come.

## 4. Fairness

`Server!FairSpec` has weak fairness for each thread (the operating system runs every thread that can run) and none for
the mutex: a thread for which it is free only now and then may never get it, as `std::mutex` allows. `ListenOpens` and
`ListenerAccept` are strongly fair: a `Listen` that fails is called again, and a cause of failure is assumed to pass
in the end. Peers owe nothing: one may stay silent for ever, and `ListenerComesBack` names that as one of the five
reasons for which the listener does not return. `ServerSockets!SocketsFairSpec` has weak fairness for the next step of
the listener, and strong fairness for `listen()` and `accept()`, which are tried again for as long as they fail.
Taking the mutex and greeting is under no fairness, since `Server` shows that the mutex may be withheld:
`EveryoneIsTaken` names that, a peer that keeps silent and the exhaustion of descriptors as the three reasons for
which a connection waits for ever. `SSLClient!SSLFairSpec` has weak fairness for the next system call of `Connect`:
`connect()` ends by its own timeout if need be. A TLS handshake is under none: nothing limits its time. The other
specifications are checked for safety only.

## 5. What the runs found

Two statements of the comments and the documentation are refuted by a run that ends in a counterexample.

1. *A client with another's address* (`server_clientip`). `Update` reads the address at line 101 without the lock and
   writes it back at 110, over the one the callback has stored in between. `Client.hpp:16` calls it the client's.
2. *Listening on another port* (`tcplisten_port`). A failed `bind()` leaves the socket in `m_ListenSocket`
   (`TCPServer.cpp:241-247`); the next `Listen` skips `bind()` and listens on a free port.

The models have the following behaviours of the code as well. They have no run of their own: each is plain from the
lines named once it has been seen, and the checked properties are stated around it.

| Lines | What the code does |
|---|---|
| `Server.cpp:94, 98, 271` | The listener thread may read `_running` before `Start` sets it, and ends at once while the server reports that it has started: the first of the reasons in `ListenerComesBack`. |
| `Server.cpp:33` | `_port <= 0` on an `unsigned int` finds only 0: a negative port is kept as a large one (`ServerConfig!UInt`). |
| `ini.h:711`, `Server.cpp:58` | Every start truncates `Config.ini` and writes it anew, changed or not; a crash in between loses settings. `AdministratorRules` holds up to the first such crash (`harmed`). |
| `Server.cpp:83`, `282-286` | The callback's `erase` throws if the other thread has published a second `ServerManager` in between; a hello with a negative length of the name throws, and a reply to a connection that was reset raises SIGPIPE. Each ends the process, the first two with nothing to catch them. The properties of `Server` excuse what a dead process does not do, so none of them speaks against this. |
| `ini.h:580-592` | The place of an old value is looked for behind blanks, with each `\=` counted as two of them: a value written over one that begins with `\=` is put behind the `\=` and read back with it, so that a write does not update the file as `mINI/README.md:25` says (`ReplacedText`, `PlainValues`; hence the second half of `Readable`). |
| `ini.h:281-326`, `472-489` | Of the names only `=` is escaped: a section with `;`, and a key that begins with `;` or `[` or ends in a backslash, are read as something else than was written (`Readable` in `RoundTrip`). None of the server's settings is such a name. |
| `ini.h:549` | A lazy write keeps the order of the old file, not of the structure as mINI's README says: `RoundTrip` compares contents only. |
| `TCPServer.cpp:90` | `SetSndTimeout` sets the receive timeout. |
| `TCPServer.cpp:375`, `417` | `Receive` answers arguments that it refuses with the 0 that 367-369 keep for a closed connection, and `Send` answers empty data with false, although nothing is missing: `ContractUnlessCutShort` and `SendInOrder` say so. |
| `TCPServer.cpp:409` | In a full read the -1 of a failed `recv`, for which a receive timeout is enough, is added to the count, and the next `recv` overwrites the last byte: of three bytes two are reported, where 367 promises the bytes received. Hence the condition of `ContractUnlessCutShort`, which says that this is the only way. |
| `TCPSSLServer.cpp:172` | Over TLS a failure before any byte returns 0, as the end of the stream does. |
| `Server.cpp:288` | No registered connection is ever closed: with enough clients `accept()` fails for good, the second reason in `EveryoneIsTaken`. |
| `TCPSSLClient.cpp:50` | A failure behind the TCP connection returns false with the status still `CONNECTED`: a `Send` then hands OpenSSL a null pointer (`halfway` in `SessionsAreUsable`). |
| `TCPSSLClient.cpp:105` | A second `Connect` without `Disconnect` makes its session over the pointers to the first, which is lost (`reconnected` in `NoSessionLost`). |
| `SecureSocket.cpp:152` | `ShutdownSSL` does not free the `SSL_CTX` of a socket whose `SSL` was never made: it is lost (`halfway` in `OnlyOverwritingLoses`). |
| `SecureSocket.h:68` | Move assignment frees nothing of its target, neither session nor descriptor (`overwritten`). |
| `TCPSSLServer.cpp:239` | `Disconnect` leaves the number in the `SSLSocket`; a second one would close another's descriptor. |
| `Database.cpp:85` | A connection that is in use when its Database goes stays open for good (`outlived` in `NoConnectionLost`). |
| `Database.cpp:446` | `backup()` does not look at what `executeStep` returns: `SQLITE_BUSY` and `SQLITE_LOCKED` pass for success, though `Database.h:586` promises an exception. |
| `Savepoint.cpp:57-64` | `rollback()` marks the savepoint released without releasing it, and an outermost one leaves a transaction open that no guard ends: `OnlyRollbackLeavesOpen` says that nothing else does. |
| `Statement.cpp:273` | The map of column names survives a recompilation by sqlite3 and may then name the wrong column: hence the condition of `NamedUnlessRecompiled`. |
| `Statement.h:83` | The defaulted move assignment leaves `mbHasRow` and `mpSQLite` in an object without a statement: `FlagsFollow` and `ConnectionOutlivesUse` are about objects that have one. |
| `TCPClient.cpp:267` | A failed `Connect` keeps a closed number, on which a timeout may be set after another part of the process has got it; `BytesAtHome` and `OthersStayOpen` show that nothing worse happens. |

What holds deserves mention as well: although `Update` also writes the *flag* from a stale argument, it cannot lower
it (`FlagSurvivesUpdate`), because line 111 looks at the current one first. A mutant without that line is caught, and
so is its consequence, a listener that waits for ever.

## 6. Proofs

`ServerProofs` proves, for every set `Conns` and every `None` outside it (`ConnsAssumption`, `NoneIsNoObject`), that
`Server!Spec` implies `[]TypeOK`, `[]LockDiscipline`, `[]FlagSurvivesUpdate`, `PublishedWritesLocked` and
`ImplementsHandshake`. The invariant is

    IInv == TypeOK /\ LockDiscipline /\ InstanceInv /\ FlagSurvivesUpdate /\ ArrivedInv

`LockDiscipline` alone is not inductive: who holds the mutex follows from the places of the threads, so the typing of
the places is needed. `FlagSurvivesUpdate` needs `InstanceInv`: there is an instance wherever the code dereferences
it, and a thread about to construct one has made none yet, so a published object can only be replaced by making a
second one. Only steps of main and the listener write the object; main's keep a raised flag, and the listener lowers
it where it stops serving. `ArrivedInv` (whoever waits or is served has connected; a connection about to be dropped
has spoken and has not said hello) is what the refinement needs for `Refuse` and for the order of events. Each step of
`Server` is then a step of `Handshake` or leaves its variables alone.

`TCPServerProofs` proves, of `TCPListen`, `[]TypeOK`, `[]NoDescriptorLost`, `[]ResultMatchesSocket`,
`[]WrongPortOnlyAfterBindFailure` and `ListeningIsStable` for every set of descriptors and peers
(`InvalidIsNoDescriptor`). The strengthening is `PortInv` (what the kind of a socket says of its port), `CreatedInv`
(a socket that `Listen` finds made but not bound has failed to bind) and `FreshInv` (a call in progress has handed
nothing out yet). `CreatedInv` is the heart: it is why a wrong port has only one cause.

The listener's loop uses `Listen` as `TCPListen` allows (`ListenIsUsed`: `SocketsSpec => Spec`), so that all that is
proved of `TCPListen` holds in `ServerSockets`, and then `[]DescriptorsAccounted`, `[]ClientsKeepTheirConnections` and
`SocketsImplementHandshake`. The invariant (`SInv`) adds to these `WaitingInv` and `ServingInv`: what a peer has done
so far goes with where its connection is, in the kernel's queue or in the listener's hands.

So does `CTCPSSLServer` (`ServerIsUsed`: `SSLSpec => Spec`), which carries `[]NoDescriptorLost` and
`ListeningIsStable` over to it. Its own theorems, `[]SSLTypeOK`, `[]SecuredStaySecured` and `[]OnlyOverwritingLoses`,
hold for any number of descriptors, sessions and `SSLSocket`s. They come from `SSLInv`, which adds to the invariant of
`TCPListen`: where `Listen` is, and what it has put into the `SSLSocket` so far (`PlaceInv`); the `SSLSocket`s that
`Disconnect` is due for have connections of their own (`DescriptorInv`); an `SSL` has the references of itself and of
its `SSL_CTX`, is on the connection beside it and is in no other `SSLSocket` (`PointerInv`); and what no `SSLSocket`
has was lost by the caller or by a `Listen` that gave up (`HolderInv`, `OwnerInv`). `SecuredStaySecured` is the step
from one `SSLSocket` to another: that two never share a session is why the `Disconnect` of one leaves the others
secured.

`SSLClientProofs` proves `[]TypeOK`, `[]NothingLeaked`, `[]BytesStayHome` and `OthersStayOpen` of `TCPClient` for
every set of descriptors and number of addresses. The three state predicates together are inductive; the clause of
`TypeOK` that ties the status to a connected socket is what keeps `Disconnect` from closing a stale number.
`CTCPSSLClient` uses that client as any program may (`ClientIsUsed`), so these hold of it too. Its own theorems,
`[]SSLTypeOK`, `[]TrueMeansSecured`, `[]SessionsAreUsable` and `[]NoSessionLost`, come from one invariant, `SSLInv`:
where `Connect` is says what has been made (`PlaceInv`); each pointer refers to a session that counts it
(`PointerInv`); and pointers that disagree, or a session without a pointer, have one of the causes the history names
(`CauseInv`).

`TCPStreamProofs` proves `[]TypeOK`, `[]SendInOrder` and `[]ContractUnlessCutShort` for arrays of any size below
`MaxSize`, the empty one included, streams of any length and any timeouts (`SizeAssumption`, `UnsetIsNoByte`,
`TimeoutAssumption`), and for any arguments, also those that are refused. The strengthening is `LoopInv`, what holds
between two calls of `recv()`: as long as none has failed, the bytes counted are the bytes received and are at the
front of the array; a loop that goes on after a failure is one that was cut short, and not over TLS.

`INIMapProofs` proves `[]TypeOK`, `[]IndexConsistent` and `ImplementsOrderedMap` for all sets of maps, keys, spellings
and values (`NormalAssumption`, `DefaultAssumption`; the refinement also needs `AbsentAssumption`). The invariant is
one statement about each map, `Matches(d, x)`: the index `x` sends each of its keys to a pair with that key, and each
pair is where the index says. It is inductive as it stands. The lemmas say of each operation, once, that the vector
and the index still match (`...Matches`), and what becomes of the order of the keys and of the values (`...Seen`); the
steps of the theorems cite them. `EraseSeen` is where an off-by-one in moving the positions would show: the pair found
through the moved index is the one found before.

`DatabaseProofs` proves, of `Statement`, `[]TypeOK`, `[]FlagsFollow`, `[]NamedUnlessRecompiled` and `DoneIsFinal` for
any objects, handles, queries with and without columns, and schemas (`NullIsNoHandle`, `ResultColumnsAssumption`).
`DoneIsFinal` follows from `FlagsFollow`: sqlite3 starts a finished statement if it is stepped, but the object that
has the statement then has `mbDone`. `Agrees` relates an object to the prepared statement it has, for its flags, its
number of columns and its map of names at once; `Owned` says that a prepared statement has one owner, without which a
move or a destructor could change a statement under another object. The map of names is built from the last column of
each name, a maximum of a finite set of positions: that it exists is shown with the well-foundedness of the natural
numbers (`LeastNumber`, `MaxIsMember`).

The Statements of `Database` take steps of `Statement` only (`StatementsAreUsed`), so these hold there too. For any
Databases and connections it proves `[]DBTypeOK`, `[]ConnectionOutlivesUse` and `[]NoConnectionLost` from `DInv`,
which adds `FrameInv` (the Database a constructor or `backup()` is at work on has a connection that no statement uses,
and no Backup where it may be closed) and `UseInv` (whoever uses a connection uses an open one). `UseInv` carries what
may be closed: `CloseConnection` refuses what is used, and `FrameInv` is why the end of `backup()` is not refused, so
that its connection is not lost. The steps of Statements change nothing of the Databases (`StatementsKeep`); that a
handle given to a new statement is not another's, and that what is finalized is nobody's, comes from `Owned`.

`TransactionGuardsProofs` proves `[]OnlyRollbackLeavesOpen`, `[]UncommittedLeavesNoTrace` and `[]SavepointTakesBack`
for guards nested to any depth, any names and any number of writes. The invariant is

    IInv == TypeInv /\ ConnectionInv /\ BegunInv /\ PairInv /\ TransactionInv /\ SavepointInv

`ConnectionInv` relates the flags of the connection to its stack of savepoints, and `BegunInv` says that what was
begun has a `Transaction` that will end it. `PairInv` is what `OnlyRollbackLeavesOpen` needs. It is not the case that
every savepoint has the `Savepoint` that made it: when a name is used twice, `RELEASE` ends the inner savepoint of the
name whichever guard runs it. But there is an injection from the savepoints on the stack, those of names that a guard
has rolled back to left out, to open guards of the same name; when a guard releases another's savepoint of its name,
the proof gives its own to that other. `TransactionInv` (an open `Transaction` is the
only one and nothing has been committed since it began) and `SavepointInv` (the savepoint of a guard is where no guard
inside of it can reach) hold unless sqlite3 has rolled back by itself, or two names have clashed; the other two
theorems follow from them.

`ConfigProofs` proves, for any sections, keys, values and trimming, any reading of the lines that are written
(`TrimAssumption`, `NoNameAssumption`, `TextsAssumption`, `PlainAssumption`) and files of any length, `RoundTrip` and
`HandworkKept` of `INIFile`, and, for any list of settings, any width of `unsigned int` and whatever may be left of a
line that is cut (`SettingsAssumption`, `NumberAssumption`, `EditedAssumption`, `DefaultsAssumption`),
`[]UpIsConfigured`, `[]AdministratorRules` and `[]NothingElseTouched` of `ServerConfig`. The conditions differ.
`HandworkKept` and `UpIsConfigured` hold whatever the texts are. `RoundTrip` is about a write that the file can carry
(`Readable`): the sections and keys new to it are plain, and so is each of its key lines whose value changes. The last
two assume that all texts are plain (`PlainTexts`). The module has four parts.

1. *Induction over data.* The library's theorems for it take an operator and cannot be used here. Their place is taken
   by lemmas that take the induction hypothesis as a set (`NumberInduction`, `SequenceInduction`, `MapInduction`:
   a set that has the empty sequence, and with a sequence the longer ones, has all), which come from the
   well-foundedness of `<`. The folds are recursive functions behind a `CHOOSE`; `FlattenSteps`, `ReaderSteps`,
   `WalkedSteps` and `ConfigureSteps` say that each is what one gets step by step, and the lemmas `...Append` what one
   more line does to it.
2. *What a file says.* `HeaderOf` and `Says` tell, without a fold, the headers of a file and which value a line of it
   gives to which key of which section. `ReaderFollows` shows that the reader's structure has just the sections and
   keys a file says, and for each key a value that it says.
3. *The writer.* `Walks(w, r, lines, d, o)` is what holds after any number of the old lines: the output says only what
   the structure has; what the lines said of a key that is kept, it says with the structure's value (this takes a line
   that is plain or does not change, `Fits`; new keys and sections take plain names, `FitsNew`); the new keys of
   every section but the current one are there; the flag of the writer that tells whether a section is skipped agrees
   with the structure; and the place where new keys are to be put belongs to the current section. The last two are
   the hazards of 536 and 601: new keys go behind the last key line that was written, and that this is in the right
   section after any number of kept, removed and repeated ones has to be carried along. `HandworkKept` and what
   becomes of comments are shown in the same way, by what the writer does with each line (`Becomes`).
4. *The server.* The invariant is `ConfigInv == ConfigTypeOK /\ Useful /\ AsEdited`. `Useful` says that behind the
   constructor's ladder of defaults every setting is there and of use. `AsEdited` holds until a write is cut short:
   what the file will hold when the lines on their way are there (`OnItsWay`) has the administrator's comments and is
   `Derived` from the administrator's file, and so is the constructor's structure while it is to be written. `Derived`
   means that all values are kept but those replaced by a default, and that a server finds the same settings in
   either; it is transitive (`DerivedTwice`), which is why no number of starts adds up to a change. It is stated of
   the lines on their way, because in the middle of the writing the file alone says less.

Left to TLC: the liveness properties, which need fairness, the two violated statements, and what `INIText` computes
(`PlainIsReadBack`, over short texts), from which the instances of `PlainAssumption` come.

## 7. What is not modelled, and why

- *Roster, login, dispatch.* `Room::_players` is never written and `GetPlayers` returns a copy (`Room.cpp:35-37`), so
  no client is ever found in it: the loops of `Update` (116-224) and the part of `SMOReader` from 318 on cannot run.
  In the models the lookup fails, as it does in the code.
- *Contents of packets*, the reply and the printed lines: no property is about them.
- *The dangling `Client`.* The readers get the address of a local of `SMOListener`'s loop (293). It is only used in a
  comparison that is never made.
- *`HasPending`, `PendingBytes`*, which ask OpenSSL and keep nothing, and the library-wide `InitializeSSL`.
- *Bindings of a Statement, conversions of a Column, queries of a Database's header*: they pass values to and from
  sqlite3 and leave nothing in the objects. What a Backup copies is left out for the same reason; it would be
  sqlite3's data.
- *Windows branches* and `SelectSockets` (which nothing in the tree calls).
- *Third-party code*: sqlite3 (of which the tree has the header only, with its 12,836 lines), OpenSSL, SimpleIni and
  ConvertUTF, which come with the test program of socket-cpp; test programs and build files.

## 8. Plan

Done: every module of section 2, with the proofs of section 6; every safety property that a run checks is a theorem,
except the two that the code violates. Next, in this order:

1. The statements of section 5 about what does hold in place of the two that are violated, as theorems where a
   property for them is worth a run.
2. `SelectSockets`, if a use of it appears.
