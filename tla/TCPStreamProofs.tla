------------------------- MODULE TCPStreamProofs -------------------------
(***************************************************************************)
(* What TCPStream's run checks on arrays of four bytes, for arrays of any  *)
(* size and streams of any length.                                         *)
(***************************************************************************)
EXTENDS TCPStream, SequenceTheorems, TLAPS

(* What holds between two calls of recv() or send(): the transfer has not  *)
(* returned and was not refused; as long as no recv() has failed, the      *)
(* bytes counted are the bytes received, at the front of the array; a loop *)
(* that goes on after a failure is one that was cut short, not over TLS;   *)
(* and a Receive without bReadFully has received nothing yet.              *)
LoopInv ==
    /\ pc # "idle" => ret = "none" /\ ~Refused /\ usable
    /\ pc = "recv" =>
          /\ ~ended
          /\ failed => cutShort /\ ~secure
          /\ cutShort => failed
          /\ ~bReadFully => received = 0
          /\ ~cutShort => received = total /\ \A i \in 0..(total - 1) : buffer[i] = i

IInv == TypeOK /\ SendInOrder /\ ContractUnlessCutShort /\ LoopInv

USE SizeAssumption, UnsetIsNoByte, TimeoutAssumption

(* The bytes of one send() are consecutive positions of the data. *)
LEMMA ChunkIsSequence ==
    ASSUME NEW first \in Nat, NEW count \in Nat, first + count <= MaxSize
    PROVE  /\ Chunk(first, count) \in Seq(Places)
           /\ Len(Chunk(first, count)) = count
           /\ \A i \in 1..count : Chunk(first, count)[i] = first + i - 1
<1>1. \A i \in 1..count : first + i - 1 \in Places
  BY DEF Places
<1> QED BY <1>1 DEF Chunk

(* What send() has taken goes on where the last one stopped. *)
LEMMA ChunkExtends ==
    ASSUME NEW w \in Seq(Places), NEW count \in Nat, Len(w) + count <= MaxSize,
           \A i \in DOMAIN w : w[i] = i - 1
    PROVE  LET extended == w \o Chunk(Len(w), count)
           IN /\ extended \in Seq(Places)
              /\ Len(extended) = Len(w) + count
              /\ \A i \in DOMAIN extended : extended[i] = i - 1
<1> DEFINE c == Chunk(Len(w), count)
           extended == w \o c
<1>1. Len(w) \in Nat /\ DOMAIN w = 1..Len(w)
  BY LenProperties
<1>2. /\ c \in Seq(Places)
      /\ Len(c) = count
      /\ \A i \in 1..count : c[i] = Len(w) + i - 1
  BY <1>1, ChunkIsSequence
<1> HIDE DEF c
<1>3. extended \in Seq(Places) /\ Len(extended) = Len(w) + count
  BY <1>1, <1>2, ConcatProperties
<1>4. \A i \in 1..(Len(w) + count) : extended[i] = IF i <= Len(w) THEN w[i] ELSE c[i - Len(w)]
  BY <1>1, <1>2, ConcatProperties
<1>5. DOMAIN extended = 1..(Len(w) + count)
  BY <1>3, LenProperties
<1>6. ASSUME NEW i \in DOMAIN extended PROVE extended[i] = i - 1
  <2>1. CASE i <= Len(w)
    BY <1>1, <1>4, <1>5, <2>1
  <2>2. CASE i > Len(w)
    <3>1. i - Len(w) \in 1..count
      BY <1>1, <1>5, <2>2
    <3> QED BY <1>1, <1>2, <1>4, <1>5, <2>2, <3>1
  <2> QED BY <1>1, <1>5, <2>1, <2>2
<1> QED BY <1>3, <1>6 DEF c

-----------------------------------------------------------------------------
LEMMA InitIInv == Init => IInv
<1> SUFFICES ASSUME Init PROVE IInv
  OBVIOUS
<1>1. TypeOK /\ SendInOrder
  <2>1. buffer \in [Places -> Nat \cup {Unset}] /\ wire \in Seq(Places) /\ wire = <<>>
    BY DEF Init
  <2>2. MaxSize \in Nat
    OBVIOUS
  <2> QED BY <2>1, <2>2 DEF Init, TypeOK, SendInOrder
<1>2. ContractUnlessCutShort /\ LoopInv
  BY DEF Init, ContractUnlessCutShort, ReturnsWhatItSays, LoopInv
<1> QED BY <1>1, <1>2 DEF IInv

(* A new call starts with nothing counted, received or sent, and a refused *)
(* one ends with that.                                                     *)
LEMMA BeginKeeps ==
    ASSUME IInv,
           \/ Begin("recv", "total") /\ bReadFully' \in BOOLEAN
           \/ Begin("send", "false") /\ bReadFully' \in BOOLEAN
    PROVE  IInv'
<1>1. /\ secure' \in BOOLEAN /\ usable' \in BOOLEAN /\ bReadFully' \in BOOLEAN
      /\ uSize' \in 0..MaxSize /\ total' = 0 /\ received' = 0
      /\ ended' = FALSE /\ failed' = FALSE /\ cutShort' = FALSE
      /\ buffer' = [i \in Places |-> Unset] /\ wire' = <<>>
      /\ UNCHANGED timeoutVars
  BY DEF Begin
<1>2. \/ Refused' /\ pc' = "idle" /\ ret' \in {"total", "false"}
      \/ ~Refused' /\ pc' \in {"recv", "send"} /\ ret' = "none"
  BY DEF Begin
<1>3. ~Refused' => 0 < uSize' \/ (secure' /\ uSize' = 0)
  BY <1>1 DEF Refused
<1>4. ~Refused' => usable'
  BY <1>1 DEF Refused, Begin
<1>5. buffer' \in [Places -> Nat \cup {Unset}] /\ wire' \in Seq(Places) /\ Len(wire') = 0
  BY <1>1
<1>6. TypeOK'
  BY <1>1, <1>2, <1>3, <1>5 DEF IInv, TypeOK, timeoutVars
<1>7. SendInOrder'
  BY <1>1, <1>2, <1>5 DEF SendInOrder
<1>8. ContractUnlessCutShort' /\ LoopInv'
  BY <1>1, <1>2, <1>4 DEF ContractUnlessCutShort, ReturnsWhatItSays, LoopInv
<1> QED BY <1>6, <1>7, <1>8 DEF IInv

LEMMA RecvBytesKeeps == ASSUME IInv, RecvBytes PROVE IInv'
<1> USE DEF IInv, RecvBytes, Refused, call
<1>1. PICK nRecvd \in 1..(uSize - total) :
         /\ received + nRecvd <= StreamSize
         /\ buffer' = [i \in Places |->
                           IF total <= i /\ i < total + nRecvd THEN received + (i - total)
                           ELSE buffer[i]]
         /\ received' = received + nRecvd
         /\ Account(nRecvd)
  OBVIOUS
<1>2. uSize \in 1..MaxSize /\ total \in 0..(uSize - 1) /\ nRecvd \in Nat \ {0} /\ received \in Nat
  BY DEF TypeOK
<1>3. total' = total + nRecvd /\ total' \in 1..uSize
  BY <1>1, <1>2 DEF Account
<1>4. \/ pc' = pc /\ ret' = ret /\ bReadFully /\ total' < uSize
      \/ pc' = "idle" /\ ret' = "total"
  BY <1>1, <1>3 DEF Account, Below
<1>5. TypeOK'
  <2>1. buffer' \in [Places -> Nat \cup {Unset}]
    BY <1>1, <1>2 DEF TypeOK, Places
  <2> QED BY <1>1, <1>2, <1>3, <1>4, <2>1 DEF TypeOK, timeoutVars
<1>6. ~cutShort' => received' = total' /\ \A i \in 0..(total' - 1) : buffer'[i] = i
  <2> SUFFICES ASSUME ~cutShort, NEW i \in 0..(total' - 1)
               PROVE  received' = total' /\ buffer'[i] = i
    BY <1>1, <1>2, <1>3 DEF LoopInv
  <2>1. received = total /\ \A j \in 0..(total - 1) : buffer[j] = j
    BY DEF LoopInv
  <2>2. i \in Places
    BY <1>2, <1>3 DEF Places
  <2> QED BY <1>1, <1>2, <1>3, <2>1, <2>2
<1>7. LoopInv'
  BY <1>4, <1>6 DEF LoopInv
<1>8. SendInOrder'
  BY <1>4 DEF SendInOrder, TypeOK
<1>9. ContractUnlessCutShort'
  BY <1>1, <1>2, <1>3, <1>4, <1>6 DEF ContractUnlessCutShort, ReturnsWhatItSays, LoopInv
<1> QED BY <1>5, <1>7, <1>8, <1>9

(* A failure ends the loop unless it comes behind received bytes: only     *)
(* then is the count still one that the loop goes on with.                 *)
LEMMA RecvErrorKeeps == ASSUME IInv, RecvError PROVE IInv'
<1> USE DEF IInv, RecvError, Refused, call
<1>1. /\ uSize \in 1..MaxSize /\ total \in 0..(uSize - 1) /\ received \in Nat
      /\ bReadFully \in BOOLEAN /\ cutShort \in BOOLEAN
  BY DEF TypeOK
<1>2. total' = total - 1 /\ total' \in -1..(uSize - 1)
  BY <1>1 DEF Account
<1>3. \/ pc' = pc /\ ret' = ret /\ bReadFully /\ total' >= 0
      \/ pc' = "idle" /\ ret' = "total"
  BY <1>2 DEF Account, Below
<1>4. ~cutShort' => total = 0 /\ total' = -1
  BY <1>1, <1>2 DEF LoopInv
<1>5. TypeOK'
  BY <1>1, <1>2, <1>3 DEF TypeOK, timeoutVars
<1>6. LoopInv'
  BY <1>2, <1>3, <1>4 DEF LoopInv
<1>7. SendInOrder'
  BY <1>3 DEF SendInOrder, TypeOK
<1>8. ContractUnlessCutShort'
  BY <1>1, <1>2, <1>3, <1>4 DEF ContractUnlessCutShort, ReturnsWhatItSays, LoopInv
<1> QED BY <1>5, <1>6, <1>7, <1>8

LEMMA RecvEndOfStreamKeeps == ASSUME IInv, RecvEndOfStream PROVE IInv'
<1> USE DEF IInv, RecvEndOfStream, Refused, call
<1>1. TypeOK' /\ LoopInv' /\ SendInOrder'
  BY DEF TypeOK, LoopInv, SendInOrder, timeoutVars
<1>2. ContractUnlessCutShort'
  BY DEF ContractUnlessCutShort, ReturnsWhatItSays, LoopInv, TypeOK
<1> QED BY <1>1, <1>2

(* Over TLS a failure always ends the loop, and the count is untouched.    *)
LEMMA SSLReadFailsKeeps == ASSUME IInv, SSLReadFails PROVE IInv'
<1> USE DEF IInv, SSLReadFails, Refused, call
<1>1. TypeOK' /\ LoopInv' /\ SendInOrder'
  BY DEF TypeOK, LoopInv, SendInOrder, timeoutVars
<1>2. ~cutShort /\ received = total /\ received \in Nat /\ bReadFully \in BOOLEAN
  BY DEF LoopInv, TypeOK
<1>3. ContractUnlessCutShort'
  BY <1>2 DEF ContractUnlessCutShort, ReturnsWhatItSays, LoopInv
<1> QED BY <1>1, <1>3

LEMMA SendBytesKeeps == ASSUME IInv, SendBytes PROVE IInv'
<1> USE DEF IInv, SendBytes, Refused, receiveVars, call
<1>1. PICK nSent \in 1..(uSize - total) :
         /\ wire' = wire \o Chunk(total, nSent)
         /\ total' = total + nSent
         /\ IF Below(total', uSize) THEN UNCHANGED <<pc, ret>> ELSE pc' = "idle" /\ ret' = "true"
  OBVIOUS
<1>2. uSize \in 1..MaxSize /\ total \in 0..(uSize - 1) /\ nSent \in Nat \ {0} /\ Len(wire) = total
  BY DEF TypeOK, SendInOrder
<1>3. total' \in 1..uSize
  BY <1>1, <1>2
<1>4. \/ pc' = pc /\ ret' = ret /\ total' < uSize
      \/ pc' = "idle" /\ ret' = "true" /\ total' = uSize
  BY <1>1, <1>2, <1>3 DEF Below
<1>5. /\ wire' \in Seq(Places)
      /\ Len(wire') = total'
      /\ \A i \in DOMAIN wire' : wire'[i] = i - 1
  <2>1. wire \in Seq(Places) /\ \A i \in DOMAIN wire : wire[i] = i - 1
    BY DEF TypeOK, SendInOrder
  <2>2. nSent \in Nat /\ Len(wire) + nSent <= MaxSize
    BY <1>2
  <2> QED BY <1>1, <1>2, <2>1, <2>2, ChunkExtends
<1>6. TypeOK'
  BY <1>3, <1>4, <1>5 DEF TypeOK, timeoutVars
<1>7. SendInOrder'
  <2>1. ~Refused' /\ usable' /\ uSize' = uSize
    BY DEF LoopInv
  <2>2. ret' = "none" \/ (ret' = "true" /\ total' = uSize)
    BY <1>4 DEF LoopInv
  <2> QED BY <1>2, <1>4, <1>5, <2>1, <2>2 DEF SendInOrder, TypeOK
<1>8. ContractUnlessCutShort' /\ LoopInv'
  BY <1>4 DEF ContractUnlessCutShort, ReturnsWhatItSays, LoopInv, TypeOK
<1> QED BY <1>6, <1>7, <1>8

LEMMA SendErrorKeeps == ASSUME IInv, SendError PROVE IInv'
<1> USE DEF IInv, SendError, Refused, receiveVars, call
<1>1. TypeOK' /\ LoopInv'
  BY DEF TypeOK, LoopInv, timeoutVars
<1>2. SendInOrder'
  BY DEF SendInOrder, TypeOK
<1>3. ContractUnlessCutShort'
  BY DEF ContractUnlessCutShort, ReturnsWhatItSays
<1> QED BY <1>1, <1>2, <1>3

LEMMA SSLWriteFailsKeeps == ASSUME IInv, SSLWriteFails PROVE IInv'
<1> USE DEF IInv, SSLWriteFails, Refused, receiveVars, call
<1>1. PICK sent \in {n \in 0..(uSize - total) : n > 0 => total + n < uSize} :
         wire' = wire \o Chunk(total, sent)
  OBVIOUS
<1>2. /\ uSize \in 0..MaxSize /\ total \in 0..uSize /\ sent \in Nat /\ Len(wire) = total
      /\ total + sent <= uSize
      /\ uSize = 0 \/ total + sent < uSize
  BY DEF TypeOK, SendInOrder
<1>3. /\ wire' \in Seq(Places)
      /\ Len(wire') = total + sent
      /\ \A i \in DOMAIN wire' : wire'[i] = i - 1
  <2>1. wire \in Seq(Places) /\ \A i \in DOMAIN wire : wire[i] = i - 1
    BY DEF TypeOK, SendInOrder
  <2>2. Len(wire) + sent <= MaxSize
    BY <1>2
  <2> QED BY <1>1, <1>2, <2>1, <2>2, ChunkExtends
<1>4. TypeOK' /\ LoopInv'
  BY <1>3 DEF TypeOK, LoopInv, timeoutVars
<1>5. SendInOrder'
  <2>1. ~Refused'
    BY DEF LoopInv
  <2> QED BY <1>2, <1>3, <2>1 DEF SendInOrder
<1>6. ContractUnlessCutShort'
  BY DEF ContractUnlessCutShort, ReturnsWhatItSays
<1> QED BY <1>4, <1>5, <1>6

LEMMA SetterKeeps ==
    ASSUME IInv, NEW msec \in Timeouts, SetRcvTimeout(msec) \/ SetSndTimeout(msec)
    PROVE  IInv'
  BY DEF IInv, TypeOK, SendInOrder, ContractUnlessCutShort, ReturnsWhatItSays, LoopInv,
         SetRcvTimeout, SetSndTimeout, receiveVars, call, Refused

LEMMA StepIInv == IInv /\ [Next]_vars => IInv'
<1> SUFFICES ASSUME IInv, [Next]_vars PROVE IInv'
  OBVIOUS
<1>1. CASE ReceiveBegins
  BY <1>1, BeginKeeps DEF ReceiveBegins
<1>2. CASE SendBegins
  BY <1>2, BeginKeeps DEF SendBegins, IInv, TypeOK
<1>3. CASE RecvBytes
  BY <1>3, RecvBytesKeeps
<1>4. CASE RecvEndOfStream
  BY <1>4, RecvEndOfStreamKeeps
<1>5. CASE RecvError
  BY <1>5, RecvErrorKeeps
<1>6. CASE SendBytes
  BY <1>6, SendBytesKeeps
<1>7. CASE SendError
  BY <1>7, SendErrorKeeps
<1>8. CASE \E msec \in Timeouts : SetRcvTimeout(msec) \/ SetSndTimeout(msec)
  BY <1>8, SetterKeeps
<1>9. CASE SSLReadFails
  BY <1>9, SSLReadFailsKeeps
<1>10. CASE SSLWriteFails
  BY <1>10, SSLWriteFailsKeeps
<1>11. CASE UNCHANGED vars
  BY <1>11 DEF vars, receiveVars, call, timeoutVars, IInv, TypeOK, SendInOrder, ContractUnlessCutShort,
              ReturnsWhatItSays, LoopInv, Refused
<1> QED BY <1>1, <1>2, <1>3, <1>4, <1>5, <1>6, <1>7, <1>8, <1>9, <1>10, <1>11 DEF Next

(* The invariant holds at all times. *)
THEOREM Invariance == Spec => []IInv
  BY InitIInv, StepIInv, PTL DEF Spec

(* Every variable has its type, and whatever recv() and send() return, the *)
(* next one is handed an address inside the array with room behind it;     *)
(* only CTCPSSLServer's are handed an empty array, if the caller does.     *)
THEOREM TypeCorrect == Spec => []TypeOK
  BY Invariance, PTL DEF IInv

(* Send passes a prefix of the data, in order, each byte once; it says     *)
(* TRUE only when that is all of it, and FALSE only when some is missing   *)
(* or there was none to send.                                              *)
THEOREM SentInOrder == Spec => []SendInOrder
  BY Invariance, PTL DEF IInv

(* Receive returns what TCPServer.cpp:367-369 says, unless a recv() fails  *)
(* behind one that delivered bytes, which takes bReadFully and no TLS, or  *)
(* the arguments are refused, when it has received nothing and returns 0.  *)
THEOREM ContractKept == Spec => []ContractUnlessCutShort
  BY Invariance, PTL DEF IInv
=============================================================================
