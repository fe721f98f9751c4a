----------------------------- MODULE TCPStream -----------------------------
(***************************************************************************)
(* CTCPServer::Receive, Send and the two timeout setters on one connected  *)
(* socket (socket-cpp, Linux build), and the same two of CTCPSSLServer,    *)
(* with SSL_read() for recv() and SSL_write() for send().  Bytes are their *)
(* positions: byte i of the peer's stream, counted from the start of a     *)
(* Receive, is i; byte i of the data given to Send is i.  recv() and       *)
(* send() take any part of what is asked of them, and may fail any time.   *)
(***************************************************************************)
EXTENDS Integers, Sequences

CONSTANTS MaxSize,    \* the largest uSize of a call; no larger than INT_MAX
          StreamSize, \* how many bytes the peer sends during one Receive
          Timeouts,   \* the msec_timeout arguments of the setters
          Unset       \* a buffer byte that nothing has been written to

ASSUME SizeAssumption == MaxSize \in Nat \ {0} /\ StreamSize \in Nat
ASSUME UnsetIsNoByte == Unset \notin Int
ASSUME TimeoutAssumption == Timeouts \subseteq Nat

VARIABLES
    pc,         \* "idle", or the system call the loop is about to make
    secure,     \* the call is one of CTCPSSLServer
    usable,     \* ClientSocket is no negative number and pData is not null
    bReadFully, uSize, total,   \* as in the code
    buffer,     \* Receive's pData: the byte of the stream at each place
    received,   \* how many bytes recv() has delivered during this call
    ended,      \* recv() has returned 0 during this call
    failed,     \* recv() has failed during this call
    cutShort,   \* recv() has failed behind one that delivered bytes
    wire,       \* the bytes of this Send that the kernel has accepted
    ret,        \* how the last call ended: "none" as long as it has not,
                \* "total" (Receive returned total), "true" or "false" (Send)
    rcvTimeout, sndTimeout      \* SO_RCVTIMEO and SO_SNDTIMEO

call == <<secure, usable, bReadFully>>
receiveVars == <<call, buffer, received, ended, failed, cutShort>>
timeoutVars == <<rcvTimeout, sndTimeout>>
vars == <<pc, uSize, total, receiveVars, wire, ret, timeoutVars>>

Places == 0..(MaxSize - 1)

Init ==
    /\ pc = "idle"
    /\ secure = FALSE
    /\ usable = TRUE
    /\ bReadFully = TRUE
    /\ uSize = 0
    /\ total = 0
    /\ buffer = [i \in Places |-> Unset]
    /\ received = 0
    /\ ended = FALSE
    /\ failed = FALSE
    /\ cutShort = FALSE
    /\ wire = <<>>
    /\ ret = "none"
    /\ rcvTimeout = 0
    /\ sndTimeout = 0

(* `total < uSize` compares an int with a size_t: a negative total becomes *)
(* a huge one, so the comparison is false.                                 *)
Below(count, size) == 0 <= count /\ count < size

-----------------------------------------------------------------------------
(* Receive. *)

(* `ClientSocket < 0 || !pData || !uSize`: false, that is 0, at once.       *)
(* CTCPSSLServer's look at none of the three.                              *)
Refused == ~secure /\ (~usable \/ uSize = 0)

(* A call of either kind, which goes on to its first system call unless it *)
(* is refused; what is recorded is recorded per call.  OpenSSL may not be  *)
(* handed a null pointer, so callers of CTCPSSLServer do not either.       *)
Begin(systemCall, refusal) ==
    /\ pc = "idle"
    /\ secure' \in BOOLEAN
    /\ usable' \in BOOLEAN
    /\ secure' => usable'
    /\ uSize' \in 0..MaxSize
    /\ total' = 0
    /\ buffer' = [i \in Places |-> Unset]
    /\ received' = 0
    /\ ended' = FALSE /\ failed' = FALSE /\ cutShort' = FALSE
    /\ wire' = <<>>
    /\ IF Refused' THEN pc' = "idle" /\ ret' = refusal
                   ELSE pc' = systemCall /\ ret' = "none"
    /\ UNCHANGED timeoutVars

ReceiveBegins == Begin("recv", "total") /\ bReadFully' \in BOOLEAN

(* The end of the loop body: total grows by what recv() returned, -1       *)
(* included, and the loop goes on while the caller wants more.             *)
Account(nRecvd) ==
    /\ total' = total + nRecvd
    /\ IF bReadFully /\ Below(total', uSize)
       THEN UNCHANGED <<pc, ret>>
       ELSE pc' = "idle" /\ ret' = "total"

(* Mutant: every recv() writes at the start of the buffer. *)
RecvBytesAtStart ==
    /\ pc = "recv"
    /\ \E nRecvd \in 1..(uSize - total) :
          /\ received + nRecvd <= StreamSize
          /\ buffer' = [i \in Places |-> IF i < nRecvd THEN received + i ELSE buffer[i]]
          /\ received' = received + nRecvd
          /\ Account(nRecvd)
    /\ UNCHANGED <<uSize, call, ended, failed, cutShort, wire, timeoutVars>>

(* recv(ClientSocket, pData + total, uSize - total, 0) > 0, or SSL_read.   *)
RecvBytes ==
    /\ pc = "recv"
    /\ \E nRecvd \in 1..(uSize - total) :
          /\ received + nRecvd <= StreamSize
          /\ buffer' = [i \in Places |->
                           IF total <= i /\ i < total + nRecvd THEN received + (i - total)
                           ELSE buffer[i]]
          /\ received' = received + nRecvd
          /\ Account(nRecvd)
    /\ UNCHANGED <<uSize, call, ended, failed, cutShort, wire, timeoutVars>>

RecvEndOfStream ==
    /\ pc = "recv"
    /\ ended' = TRUE
    /\ pc' = "idle"
    /\ ret' = "total"
    /\ UNCHANGED <<uSize, total, call, buffer, received, failed, cutShort, wire, timeoutVars>>

(* Mutant: the unsigned comparison is not what ends the loop: it goes on   *)
(* after an error.                                                         *)
RecvErrorRetries ==
    /\ pc = "recv" /\ ~secure
    /\ failed' = TRUE
    /\ cutShort' = (cutShort \/ received > 0)
    /\ total' = total - 1
    /\ IF bReadFully THEN UNCHANGED <<pc, ret>> ELSE pc' = "idle" /\ ret' = "total"
    /\ UNCHANGED <<uSize, call, buffer, received, ended, wire, timeoutVars>>

(* recv() returns -1: an error, or SO_RCVTIMEO has passed. *)
RecvError ==
    /\ pc = "recv" /\ ~secure
    /\ failed' = TRUE
    /\ cutShort' = (cutShort \/ received > 0)
    /\ Account(-1)
    /\ UNCHANGED <<uSize, call, buffer, received, ended, wire, timeoutVars>>

(* SSL_read() fails or times out, or has been asked for no byte: the loop  *)
(* ends, with what there is.                                               *)
SSLReadFails ==
    /\ pc = "recv" /\ secure
    /\ failed' = TRUE
    /\ cutShort' = (received > 0)
    /\ pc' = "idle"
    /\ ret' = "total"
    /\ UNCHANGED <<uSize, total, call, buffer, received, ended, wire, timeoutVars>>

-----------------------------------------------------------------------------
(* Send. *)

SendBegins == Begin("send", "false") /\ UNCHANGED bReadFully

Chunk(first, count) == [i \in 1..count |-> first + i - 1]

(* Mutant: every send() starts at the beginning of the data. *)
SendBytesAgain ==
    /\ pc = "send"
    /\ \E nSent \in 1..(uSize - total) :
          /\ wire' = wire \o Chunk(0, nSent)
          /\ total' = total + nSent
          /\ IF Below(total', uSize) THEN UNCHANGED <<pc, ret>>
             ELSE pc' = "idle" /\ ret' = "true"
    /\ UNCHANGED <<uSize, receiveVars, timeoutVars>>

(* send(ClientSocket, pData + total, uSize - total, 0) > 0, or SSL_write,  *)
(* which takes all unless it is told otherwise.                            *)
SendBytes ==
    /\ pc = "send"
    /\ \E nSent \in 1..(uSize - total) :
          /\ wire' = wire \o Chunk(total, nSent)
          /\ total' = total + nSent
          /\ IF Below(total', uSize) THEN UNCHANGED <<pc, ret>>
             ELSE pc' = "idle" /\ ret' = "true"
    /\ UNCHANGED <<uSize, receiveVars, timeoutVars>>

SendError ==
    /\ pc = "send" /\ ~secure
    /\ pc' = "idle"
    /\ ret' = "false"
    /\ UNCHANGED <<uSize, total, receiveVars, wire, timeoutVars>>

(* SSL_write() fails, some records of the rest being sent already; so it   *)
(* does when it is asked for no byte.                                      *)
SSLWriteFails ==
    /\ pc = "send" /\ secure
    /\ \E sent \in {n \in 0..(uSize - total) : n > 0 => total + n < uSize} : wire' = wire \o Chunk(total, sent)
    /\ pc' = "idle"
    /\ ret' = "false"
    /\ UNCHANGED <<uSize, total, receiveVars, timeoutVars>>

-----------------------------------------------------------------------------
(* The setters. *)

SetRcvTimeout(msec) ==
    /\ pc = "idle"
    /\ rcvTimeout' = msec
    /\ UNCHANGED <<pc, uSize, total, receiveVars, wire, ret, sndTimeout>>

(* The Linux branch of SetSndTimeout calls SetRcvTimeout, so the send      *)
(* timeout is never set.                                                   *)
SetSndTimeout(msec) ==
    /\ pc = "idle"
    /\ rcvTimeout' = msec
    /\ UNCHANGED <<pc, uSize, total, receiveVars, wire, ret, sndTimeout>>

Next == \/ ReceiveBegins \/ RecvBytes \/ RecvEndOfStream \/ RecvError \/ SSLReadFails
        \/ SendBegins \/ SendBytes \/ SendError \/ SSLWriteFails
        \/ \E msec \in Timeouts : SetRcvTimeout(msec) \/ SetSndTimeout(msec)

Spec == Init /\ [][Next]_vars

-----------------------------------------------------------------------------
(* Properties. *)

(* Every variable has its type; inside the loops there is room for at      *)
(* least one more byte, so recv() and send() are handed an address inside  *)
(* the caller's array and a size that ends with it; except that            *)
(* CTCPSSLServer's pass on a size of 0.                                    *)
TypeOK ==
    /\ pc \in {"idle", "recv", "send"}
    /\ secure \in BOOLEAN /\ usable \in BOOLEAN /\ bReadFully \in BOOLEAN
    /\ uSize \in 0..MaxSize
    /\ total \in -1..MaxSize
    /\ buffer \in [Places -> Nat \cup {Unset}]
    /\ received \in Nat
    /\ ended \in BOOLEAN /\ failed \in BOOLEAN /\ cutShort \in BOOLEAN
    /\ wire \in Seq(Places)
    /\ ret \in {"none", "total", "true", "false"}
    /\ rcvTimeout \in Nat /\ sndTimeout \in Nat
    /\ pc # "idle" => /\ 0 <= total
                      /\ total < uSize \/ (secure /\ uSize = 0 /\ total = 0)

(* What TCPServer.cpp:367-369 says Receive returns: the number of bytes    *)
(* received, which the buffer then begins with; 0 if the connection was    *)
(* closed; a negative number if recv failed.  CTCPSSLServer's returns 0    *)
(* also when it failed.                                                    *)
ReturnsWhatItSays ==
    ret = "total" =>
        /\ total > 0 => received = total /\ \A i \in 0..(total - 1) : buffer[i] = i
        /\ total = 0 => (ended <=> ~failed) /\ (failed => secure)
        /\ total < 0 => failed

(* It does so unless a recv() fails behind one that delivered bytes, which *)
(* takes bReadFully and no TLS: always, then, for a single recv(), which   *)
(* is what SMOListener and SMOReader ask for, with bReadFully over any     *)
(* number of short reads, and whatever fails over TLS.  And unless the     *)
(* arguments are refused: that is a 0, nothing being received, on a        *)
(* connection that may well be open.                                       *)
ContractUnlessCutShort ==
    /\ cutShort => bReadFully
    /\ Refused => received = 0 /\ (ret = "total" => total = 0)
    /\ ~Refused /\ (~cutShort \/ secure) => ReturnsWhatItSays

(* What the kernel has accepted is always a prefix of the data, each byte  *)
(* once and in order.  TRUE means all of it, to a connection that the      *)
(* caller named; FALSE that some is missing, or that there was none to     *)
(* send, which both classes call a failure.                                *)
SendInOrder ==
    /\ \A i \in DOMAIN wire : wire[i] = i - 1
    /\ pc = "send" => Len(wire) = total
    /\ ret = "true" => Len(wire) = uSize /\ usable
    /\ ret = "false" => Len(wire) < uSize \/ uSize = 0
    /\ Refused => wire = <<>>
=============================================================================
