--------------------------- MODULE RcsLinkProofs ----------------------------
(***************************************************************************)
(* What is proved of RcsLink whatever its applications call: its types,    *)
(* that the bytes recv() queues are read once and in order, and what it    *)
(* takes for a recv() to stay within one send().  The last part says what  *)
(* each kind of step makes of a transfer, for the proofs about             *)
(* applications that keep messages in order.                               *)
(***************************************************************************)
EXTENDS RcsTransfer, SeqLemmas

-----------------------------------------------------------------------------
(* Messages *)

\* The successor and predecessor of a number stay within uint16_t.
LEMMA SeqnumStep ==
  ASSUME NEW n \in Seqnum
  PROVE  Succ(n) \in Seqnum /\ Pred(n) \in Seqnum
BY MsgAssumption DEF Seqnum, Succ, Pred

\* Chunks and what is left of the argument of send() are sequences of bytes.
LEMMA ChunkTypes ==
  ASSUME NEW bytes \in Seq(Byte)
  PROVE  Chunk(bytes) \in Seq(Byte) /\ Rest(bytes) \in Seq(Byte)
<1>1. Len(bytes) \in Nat /\ \A i \in 1 .. Len(bytes) : bytes[i] \in Byte
  BY LenProperties, ElementOfSeq
<1>2. ChunkLen(bytes) \in Nat /\ ChunkLen(bytes) <= Len(bytes)
  BY <1>1, MsgAssumption DEF ChunkLen
<1>3. Chunk(bytes) \in Seq(Byte)
  BY <1>1, <1>2, SubSeqProperties DEF Chunk
<1>4. Rest(bytes) \in Seq(Byte)
  BY <1>1, <1>2, SubSeqProperties DEF Rest
<1> QED BY <1>3, <1>4

\* Everything acksend(), recv() and close() send is a message.
LEMMA MessageTypes ==
  /\ Fin \in Message
  /\ \A n \in Seqnum, flag \in Flag : ControlMsg(n, flag) \in Message
  /\ \A n \in Seqnum, rest \in Seq(Byte) : MsgFor(n, rest) \in Message
<1>1. \A n \in Seqnum, flag \in Flag : ControlMsg(n, flag) \in Message
  BY EmptySeq DEF ControlMsg, Message
<1>2. Fin \in Message
  BY <1>1, MsgAssumption DEF Fin, Seqnum, Flag
<1>3. ASSUME NEW n \in Seqnum, NEW rest \in Seq(Byte)
      PROVE  MsgFor(n, rest) \in Message
  <2>1. DataMsg(n, Chunk(rest)) \in Message
    BY ChunkTypes DEF DataMsg, Message, Flag
  <2> QED BY <2>1, <1>1 DEF MsgFor, Flag
<1> QED BY <1>1, <1>2, <1>3

\* Whatever ucpSendTo does, a datagram has a form and a message.
LEMMA ReceivedTypes ==
  ASSUME NEW m \in Message, NEW fate \in Fate
  PROVE  Received(m, fate).form \in Form /\ Received(m, fate).msg \in Message
<1>1. FormAfter(m, fate) \in Form
  BY DEF FormAfter, Form
<1>2. BlankMsg \in Message
  BY MessageTypes, MsgAssumption DEF BlankMsg, Seqnum, Flag
<1> QED BY <1>1, <1>2 DEF Received

-----------------------------------------------------------------------------
(* The stream *)

\* queueMessage() keeps the stream a sequence of bytes and marks.
LEMMA QueueType ==
  ASSUME NEW b \in Seq(Cell), NEW m \in Message
  PROVE  QueueMessage(b, m) \in Seq(Cell)
<1>1. m.data \in Seq(Cell)
  BY SeqMonotonic DEF Message, Cell
<1>2. b \o m.data \in Seq(Cell)
  BY <1>1, ConcatProperties
<1> QED BY <1>2, AppendProperties DEF QueueMessage, Cell

\* read() on a buffer that is not empty() returns bytes only, and takes them,
\* with at most the mark after them, from the front of the stream.
LEMMA ReadTypes ==
  ASSUME NEW b \in Seq(Cell), NEW n \in Nat, ~NoBytes(b)
  PROVE  /\ ReadStart(b) \in 1 .. Len(b)
         /\ ReadEnd(b, n) \in ReadStart(b) .. Len(b) + 1
         /\ ReadBytes(b, n) \in Seq(Byte)
         /\ AfterRead(b, n) \in Seq(Cell)
<1> DEFINE Starts == {i \in 1 .. Len(b) : b[i] # Mark}
           Ends_  == {i \in ReadStart(b) .. Len(b) + 1 :
                        i = Len(b) + 1 \/ b[i] = Mark \/ i = ReadStart(b) + n}
<1>1. Len(b) \in Nat /\ \A i \in 1 .. Len(b) : b[i] \in Cell
  BY LenProperties, ElementOfSeq
<1>2. ReadStart(b) \in Starts
  <2>1. Starts # {} /\ Starts \subseteq Nat
    BY <1>1 DEF NoBytes
  <2> HIDE DEF Starts
  <2>2. Min(Starts) \in Starts
    BY <2>1, MinOfNats
  <2> QED BY <2>2 DEF ReadStart, Starts
<1>3. ReadEnd(b, n) \in Ends_ /\ \A i \in Ends_ : ReadEnd(b, n) <= i
  <2>1. Ends_ # {} /\ Ends_ \subseteq Nat
    <3>1. Len(b) + 1 \in Ends_
      BY <1>1, <1>2
    <3> QED BY <3>1, <1>1, <1>2
  <2> HIDE DEF Ends_
  <2>2. Min(Ends_) \in Ends_ /\ \A i \in Ends_ : Min(Ends_) <= i
    BY <2>1, MinOfNats
  <2> QED BY <2>2 DEF ReadEnd, Ends_
<1>4. \A i \in ReadStart(b) .. ReadEnd(b, n) - 1 : b[i] \in Byte
  <2> SUFFICES ASSUME NEW i \in ReadStart(b) .. ReadEnd(b, n) - 1  PROVE b[i] \in Byte
    OBVIOUS
  <2>1. i \in 1 .. Len(b) /\ i \notin Ends_
    BY <1>1, <1>2, <1>3
  <2>2. b[i] # Mark
    BY <2>1, <1>1, <1>2
  <2> QED BY <2>1, <2>2, <1>1 DEF Cell
<1>5. ReadBytes(b, n) \in Seq(Byte)
  <2>1. ReadStart(b) \in Int /\ ReadEnd(b, n) - 1 \in Int
    BY <1>1, <1>2, <1>3
  <2> QED BY <2>1, <1>4, SubSeqProperties DEF ReadBytes
<1>6. AfterRead(b, n) \in Seq(Cell)
  <2>1. \A k \in 1 .. Len(b) + 2 : SubSeq(b, k, Len(b)) \in Seq(Cell)
    BY <1>1, SubSeqProperties
  <2> QED BY <2>1, <1>1, <1>2, <1>3 DEF AfterRead
<1> QED BY <1>2, <1>3, <1>5, <1>6

-----------------------------------------------------------------------------
(* Datagrams and calls *)

Queues == [Socket -> Seq(Datagram)]

\* Sending leaves queues of datagrams, whatever becomes of the message.
LEMMA RawsendType ==
  ASSUME NEW box \in Queues, NEW s \in Socket, NEW m \in Message, NEW fate \in Fate
  PROVE  Rawsend(box, s, m, fate) \in Queues
<1> DEFINE d == [from |-> s, form |-> Received(m, fate).form, msg |-> Received(m, fate).msg]
<1>1. d \in Datagram
  BY ReceivedTypes DEF Datagram
<1> HIDE DEF d
<1>2. \A to \in Socket : Append(box[to], d) \in Seq(Datagram)
  BY <1>1, AppendProperties DEF Queues
<1>3. Deliver(box, endPoint'[s], d) \in Queues
  BY <1>2 DEF Deliver, Queues
<1> QED BY <1>3 DEF Rawsend, d

\* A burst of FINs is no exception.
LEMMA FinBurstType ==
  ASSUME NEW box \in Queues, NEW s \in Socket, NEW fate \in Fate
  PROVE  FinBurst(box, s, fate) \in Queues
<1>1. "intact" \in Fate
  BY DEF Fate
<1>2. Rawsend(Rawsend(box, s, Fin, fate), s, Fin, "intact") \in Queues
  BY <1>1, RawsendType, MessageTypes
<1> QED BY <1>2, EmptySeq DEF FinBurst, Queues

\* What recvfrom takes out of a queue is a datagram, and leaves a queue.
LEMMA ArrivalTypes ==
  ASSUME inbox \in Queues, NEW s \in Socket, NEW i \in DOMAIN inbox[s]
  PROVE  inbox[s][i] \in Datagram /\ Without(s, i) \in Queues
<1>1. /\ inbox[s] \in Seq(Datagram) /\ DOMAIN inbox[s] = 1 .. Len(inbox[s])
      /\ Len(inbox[s]) \in Nat
      /\ \A k \in 1 .. Len(inbox[s]) : inbox[s][k] \in Datagram
  BY LenProperties, ElementOfSeq DEF Queues
<1>2. /\ SubSeq(inbox[s], 1, i - 1) \in Seq(Datagram)
      /\ SubSeq(inbox[s], i + 1, Len(inbox[s])) \in Seq(Datagram)
  BY <1>1, SubSeqProperties
<1>3. RemoveAt(inbox[s], i) \in Seq(Datagram)
  BY <1>2, ConcatProperties DEF RemoveAt
<1> QED BY <1>1, <1>3 DEF Without, Queues

\* The call an application is in, and the calls that remain.
LEMMA CallTypes ==
  ASSUME script \in [Socket -> Seq(Call)], NEW s \in Socket, script[s] # << >>
  PROVE  /\ Tail(script[s]) \in Seq(Call)
         /\ Head(script[s]).op = "send" => Head(script[s]).data \in Seq(Byte)
         /\ Head(script[s]).op = "recv" => Head(script[s]).max \in Nat
<1>1. Head(script[s]) \in Call /\ Tail(script[s]) \in Seq(Call)
  BY HeadTailProperties
<1> QED BY <1>1 DEF Call

-----------------------------------------------------------------------------
(* The type invariant *)

\* The message acksend() is busy with is a message.
LEMMA CurrentType ==
  ASSUME TypeOK, NEW s \in Socket
  PROVE  Current(s) \in Message
BY MessageTypes DEF TypeOK, Current

\* The part of a step of recv() that reads the buffer and returns.
LEMMA ReturnReadType ==
  ASSUME TypeOK, NEW s \in Socket, ReturnRead(s),
         script[s] # << >>, Head(script[s]).op = "recv"
  PROVE  /\ returned' \in [Socket -> Seq(Seq(Byte))]
         /\ buffer' \in [Socket -> Seq(Cell)]
         /\ pc' \in [Socket -> Place]
         /\ script' \in [Socket -> Seq(Call)]
<1> DEFINE n == Head(script[s]).max
           result == IF NoBytes(buffer[s]) THEN << >> ELSE ReadBytes(buffer[s], n)
           rest == IF NoBytes(buffer[s]) THEN buffer[s] ELSE AfterRead(buffer[s], n)
<1>1. n \in Nat /\ Tail(script[s]) \in Seq(Call)
  BY CallTypes DEF TypeOK
<1>2. result \in Seq(Byte) /\ rest \in Seq(Cell)
  BY <1>1, ReadTypes, EmptySeq DEF TypeOK
<1>3. Append(returned[s], result) \in Seq(Seq(Byte))
  BY <1>2, AppendProperties DEF TypeOK
<1>4. /\ returned' = [returned EXCEPT ![s] = Append(returned[s], result)]
      /\ buffer' = [buffer EXCEPT ![s] = rest]
  BY DEF ReturnRead
<1> HIDE DEF n, result, rest
<1>5. returned' \in [Socket -> Seq(Seq(Byte))] /\ buffer' \in [Socket -> Seq(Cell)]
  BY <1>2, <1>3, <1>4 DEF TypeOK
<1>6. pc' \in [Socket -> Place] /\ script' \in [Socket -> Seq(Call)]
  BY <1>1 DEF TypeOK, ReturnRead, Return, Place
<1> QED BY <1>5, <1>6

\* The types and, with them, which call is under way: the message and the size that
\* a waiting function uses are those of that call.
TypeInv == TypeOK /\ InCall

\* acksend() begins with a message, and the message goes out.
LEMMA StartAcksendType ==
  ASSUME TypeOK, NEW s \in Socket, NEW n \in Seqnum, NEW rest \in Seq(Byte),
         NEW box \in Queues, NEW fate \in Fate, StartAcksend(s, n, rest, box, fate)
  PROVE  /\ sendSeqnum' \in [Socket -> Seqnum]
         /\ unsent' \in [Socket -> Seq(Byte)]
         /\ offered' \in [Socket -> Seq(Message)]
         /\ inbox' \in Queues
<1>1. MsgFor(n, rest) \in Message
  BY MessageTypes
<1>2. Append(offered[s], MsgFor(n, rest)) \in Seq(Message)
  BY <1>1, AppendProperties DEF TypeOK
<1>3. Rawsend(box, s, MsgFor(n, rest), fate) \in Queues
  BY <1>1, RawsendType
<1> QED BY <1>2, <1>3 DEF StartAcksend, TypeOK

\* rawrecv() leaves addresses where there were addresses.
LEMMA LearnSourceType ==
  ASSUME TypeOK, NEW s \in Socket, NEW i \in DOMAIN inbox[s], LearnSource(s, inbox[s][i])
  PROVE  fromEndpoint' \in [Socket -> Addr] /\ endPoint' \in [Socket -> Addr \cup {Unset}]
<1>1. inbox[s][i].from \in Addr
  BY ArrivalTypes DEF TypeOK, Queues, Datagram, Addr
<1> QED BY <1>1 DEF LearnSource, TypeOK

\* So does a recvfrom that gives up, and it sets errno.
LEMMA TimesOutType ==
  ASSUME TypeOK, NEW s \in Socket, TimesOut(s)
  PROVE  /\ fromEndpoint' \in [Socket -> Addr] /\ endPoint' \in [Socket -> Addr \cup {Unset}]
         /\ errno' \in [Socket -> Errno]
BY DEF TimesOut, TypeOK, Errno

\* Every step that sends a message of send() keeps the types.
LEMMA SendStepType ==
  ASSUME TypeInv, NEW s \in Socket, NEW fate \in Fate, SendStep(s, fate)
  PROVE  TypeInv'
<1> USE DEF TypeInv
<1>1. inbox \in Queues
  BY DEF TypeOK, Queues
<1>2. CASE CallSend(s, fate)
  <2>1. 0 \in Seqnum /\ Head(script[s]).data \in Seq(Byte)
    BY <1>2, CallTypes, MsgAssumption DEF TypeOK, CallSend, Calls, Seqnum
  <2>2. /\ sendSeqnum' \in [Socket -> Seqnum] /\ unsent' \in [Socket -> Seq(Byte)]
        /\ offered' \in [Socket -> Seq(Message)] /\ inbox' \in Queues
    BY <1>1, <1>2, <2>1, StartAcksendType DEF CallSend
  <2> QED
    BY <1>2, <2>2 DEF CallSend, Calls, TypeOK, InCall, Place, Queues, addrVars, recvVars
<1>3. CASE AcksendTimeout(s, fate)
  <2>1. inbox' \in Queues
    BY <1>1, <1>3, CurrentType, RawsendType DEF AcksendTimeout
  <2> QED
    BY <1>3, <2>1 DEF AcksendTimeout, TimesOut, TypeOK, InCall, Errno, Addr, Queues,
                      sendVars, recvVars
<1>4. ASSUME NEW i \in DOMAIN inbox[s], AcksendAgain(s, i, fate)
      PROVE  TypeInv'
  <2>1. inbox' \in Queues
    BY <1>1, <1>4, CurrentType, RawsendType, ArrivalTypes DEF AcksendAgain
  <2>2. fromEndpoint' \in [Socket -> Addr] /\ endPoint' \in [Socket -> Addr \cup {Unset}]
    BY <1>4, LearnSourceType DEF AcksendAgain
  <2> QED
    BY <1>4, <2>1, <2>2 DEF AcksendAgain, TypeOK, InCall, Queues, sendVars, recvVars
<1>5. ASSUME NEW i \in DOMAIN inbox[s], AcksendNext(s, i, fate)
      PROVE  TypeInv'
  <2>1. Succ(sendSeqnum[s]) \in Seqnum /\ Rest(unsent[s]) \in Seq(Byte)
    BY SeqnumStep, ChunkTypes DEF TypeOK
  <2>2. /\ sendSeqnum' \in [Socket -> Seqnum] /\ unsent' \in [Socket -> Seq(Byte)]
        /\ offered' \in [Socket -> Seq(Message)] /\ inbox' \in Queues
    BY <1>1, <1>5, <2>1, StartAcksendType, ArrivalTypes DEF AcksendNext
  <2>3. fromEndpoint' \in [Socket -> Addr] /\ endPoint' \in [Socket -> Addr \cup {Unset}]
    BY <1>5, LearnSourceType DEF AcksendNext
  <2>4. confirmed' \in [Socket -> Nat]
    BY <1>5 DEF AcksendNext, TypeOK
  <2> QED
    BY <1>5, <2>2, <2>3, <2>4 DEF AcksendNext, TypeOK, InCall, Queues, recvVars
<1> QED BY <1>2, <1>3, <1>4, <1>5 DEF SendStep

\* rawsend(ack), with or without the transition to finalizeRecv().
LEMMA AcknowledgeType ==
  ASSUME TypeOK, NEW s \in Socket, NEW i \in DOMAIN inbox[s], NEW n \in Seqnum,
         NEW fate \in Fate, Acknowledge(s, i, n, fate)
  PROVE  /\ inbox' \in Queues
         /\ pc' \in [Socket -> Place] /\ finAck' \in [Socket -> Seqnum]
         /\ timeout' \in [Socket -> {0, RECV_TIMEOUT, PROTOCOL_TIMEOUT}]
         /\ pc' = pc \/ pc' = [pc EXCEPT ![s] = "finalize"]
<1>1. ControlMsg(n, "ACK") \in Message
  BY MessageTypes DEF Flag
<1>2. Without(s, i) \in Queues
  BY ArrivalTypes DEF TypeOK, Queues
<1>3. inbox' \in Queues
  BY <1>1, <1>2, RawsendType DEF Acknowledge
<1>4. \/ UNCHANGED <<pc, timeout, finAck>>
      \/ /\ pc' = [pc EXCEPT ![s] = "finalize"]
         /\ timeout' = [timeout EXCEPT ![s] = PROTOCOL_TIMEOUT]
         /\ finAck' = [finAck EXCEPT ![s] = n]
  BY DEF Acknowledge
<1>5. CASE UNCHANGED <<pc, timeout, finAck>>
  BY <1>3, <1>5 DEF TypeOK
<1>6. CASE /\ pc' = [pc EXCEPT ![s] = "finalize"]
           /\ timeout' = [timeout EXCEPT ![s] = PROTOCOL_TIMEOUT]
           /\ finAck' = [finAck EXCEPT ![s] = n]
  BY <1>3, <1>6 DEF TypeOK, Place
<1> QED BY <1>4, <1>5, <1>6

\* Every step that answers keeps the types.
LEMMA AnswerStepType ==
  ASSUME TypeInv, NEW s \in Socket, NEW fate \in Fate, AnswerStep(s, fate)
  PROVE  TypeInv'
<1> USE DEF TypeInv
<1>1. inbox \in Queues /\ \A i \in DOMAIN inbox[s] : inbox[s][i].msg \in Message
  BY ArrivalTypes DEF TypeOK, Queues, Datagram
<1>2. ASSUME NEW i \in DOMAIN inbox[s], RecvAccept(s, i, fate)
      PROVE  TypeInv'
  <2>1. recvSeqnum[s] \in Seqnum /\ Succ(recvSeqnum[s]) \in Seqnum
    BY SeqnumStep DEF TypeOK
  <2>2. /\ inbox' \in Queues
        /\ pc' \in [Socket -> Place] /\ finAck' \in [Socket -> Seqnum]
        /\ timeout' \in [Socket -> {0, RECV_TIMEOUT, PROTOCOL_TIMEOUT}]
        /\ pc' = pc \/ pc' = [pc EXCEPT ![s] = "finalize"]
    BY <1>2, <2>1, AcknowledgeType DEF RecvAccept
  <2>3. fromEndpoint' \in [Socket -> Addr] /\ endPoint' \in [Socket -> Addr \cup {Unset}]
    BY <1>2, LearnSourceType DEF RecvAccept
  <2>4. /\ QueueMessage(buffer[s], inbox[s][i].msg) \in Seq(Cell)
        /\ Append(accepted[s], inbox[s][i].msg) \in Seq(Message)
    BY <1>1, QueueType, AppendProperties DEF TypeOK
  <2>5. buffer' \in [Socket -> Seq(Cell)] /\ accepted' \in [Socket -> Seq(Message)]
    BY <1>2, <2>4 DEF RecvAccept, TypeOK
  <2>6. TypeOK'
    BY <1>2, <2>1, <2>2, <2>3, <2>5 DEF RecvAccept, TypeOK, Queues, sendVars
  <2>7. InCall'
    BY <1>2, <2>2 DEF RecvAccept, TypeOK, InCall
  <2> QED BY <2>6, <2>7
<1>3. ASSUME NEW i \in DOMAIN inbox[s], RecvReject(s, i, fate)
      PROVE  TypeInv'
  <2>1. Pred(recvSeqnum[s]) \in Seqnum
    BY SeqnumStep DEF TypeOK
  <2>2. /\ inbox' \in Queues
        /\ pc' \in [Socket -> Place] /\ finAck' \in [Socket -> Seqnum]
        /\ timeout' \in [Socket -> {0, RECV_TIMEOUT, PROTOCOL_TIMEOUT}]
        /\ pc' = pc \/ pc' = [pc EXCEPT ![s] = "finalize"]
    BY <1>3, <2>1, AcknowledgeType DEF RecvReject
  <2>3. fromEndpoint' \in [Socket -> Addr] /\ endPoint' \in [Socket -> Addr \cup {Unset}]
    BY <1>3, LearnSourceType DEF RecvReject
  <2>4. TypeOK'
    BY <1>3, <2>2, <2>3 DEF RecvReject, TypeOK, Queues, sendVars
  <2>5. InCall'
    BY <1>3, <2>2 DEF RecvReject, TypeOK, InCall
  <2> QED BY <2>4, <2>5
<1>4. ASSUME NEW i \in DOMAIN inbox[s], FinalizeAnswer(s, i, fate)
      PROVE  TypeInv'
  <2>1. ControlMsg(finAck[s], "ACK") \in Message
    BY MessageTypes DEF TypeOK, Flag
  <2>2. inbox' \in Queues
    BY <1>1, <1>4, <2>1, RawsendType, ArrivalTypes DEF FinalizeAnswer
  <2>3. fromEndpoint' \in [Socket -> Addr] /\ endPoint' \in [Socket -> Addr \cup {Unset}]
    BY <1>4, LearnSourceType DEF FinalizeAnswer
  <2> QED
    BY <1>4, <2>2, <2>3 DEF FinalizeAnswer, TypeOK, InCall, Queues, sendVars, recvVars
<1> QED BY <1>2, <1>3, <1>4 DEF AnswerStep

\* Every step that sends FINs keeps the types.
LEMMA CloseStepType ==
  ASSUME TypeInv, NEW s \in Socket, NEW fate \in Fate, CloseStep(s, fate)
  PROVE  TypeInv'
<1> USE DEF TypeInv
<1>1. inbox \in Queues /\ \A i \in DOMAIN inbox[s] : inbox[s][i].msg \in Message
  BY ArrivalTypes DEF TypeOK, Queues, Datagram
<1>2. CASE CallClose(s, fate)
  <2>1. inbox' \in Queues
    BY <1>1, <1>2, FinBurstType DEF CallClose
  <2>2. Tail(script[s]) \in Seq(Call)
    BY <1>2, CallTypes DEF CallClose, Calls, TypeOK
  <2> QED
    BY <1>2, <2>1, <2>2 DEF CallClose, Calls, TypeOK, InCall, Place, Queues,
                            addrVars, sendVars, recvVars
<1>3. ASSUME NEW i \in DOMAIN inbox[s], AcksendFin(s, i, fate)
      PROVE  TypeInv'
  <2>1. inbox' \in Queues
    BY <1>1, <1>3, FinBurstType, ArrivalTypes DEF AcksendFin
  <2>2. Succ(sendSeqnum[s]) \in Seqnum /\ Tail(script[s]) \in Seq(Call)
    BY <1>3, SeqnumStep, CallTypes DEF AcksendFin, InCall, TypeOK
  <2>3. fromEndpoint' \in [Socket -> Addr] /\ endPoint' \in [Socket -> Addr \cup {Unset}]
    BY <1>3, LearnSourceType DEF AcksendFin
  <2>4. /\ confirmed' \in [Socket -> Nat]
        /\ sendSeqnum' \in [Socket -> Seqnum]
    BY <1>3, <2>2 DEF AcksendFin, TypeOK
  <2>5. TypeOK'
    BY <1>3, <2>1, <2>2, <2>3, <2>4 DEF AcksendFin, Return, TypeOK, Place, Queues, recvVars
  <2>6. InCall'
    BY <1>3 DEF AcksendFin, Return, TypeOK, InCall
  <2> QED BY <2>5, <2>6
<1>4. ASSUME NEW i \in DOMAIN inbox[s], RecvFin(s, i, fate)
      PROVE  TypeInv'
  <2>1. inbox' \in Queues
    BY <1>1, <1>4, FinBurstType, ArrivalTypes DEF RecvFin
  <2>2. /\ returned' \in [Socket -> Seq(Seq(Byte))]
        /\ buffer' \in [Socket -> Seq(Cell)]
        /\ pc' \in [Socket -> Place]
        /\ script' \in [Socket -> Seq(Call)]
    BY <1>4, ReturnReadType DEF RecvFin, InCall
  <2>3. fromEndpoint' \in [Socket -> Addr] /\ endPoint' \in [Socket -> Addr \cup {Unset}]
    BY <1>4, LearnSourceType DEF RecvFin
  <2>4. /\ Succ(recvSeqnum[s]) \in Seqnum
        /\ Append(accepted[s], inbox[s][i].msg) \in Seq(Message)
    BY <1>1, SeqnumStep, AppendProperties DEF TypeOK
  <2>5. /\ recvSeqnum' \in [Socket -> Seqnum]
        /\ accepted' \in [Socket -> Seq(Message)]
    BY <1>4, <2>4 DEF RecvFin, TypeOK
  <2>6. TypeOK'
    BY <1>4, <2>1, <2>2, <2>3, <2>5 DEF RecvFin, TypeOK, Queues, sendVars
  <2>7. InCall'
    BY <1>4 DEF RecvFin, ReturnRead, Return, TypeOK, InCall
  <2> QED BY <2>6, <2>7
<1>5. ASSUME NEW i \in DOMAIN inbox[s], FinalizeFin(s, i, fate)
      PROVE  TypeInv'
  <2>1. inbox' \in Queues
    BY <1>1, <1>5, FinBurstType, ArrivalTypes DEF FinalizeFin
  <2>2. fromEndpoint' \in [Socket -> Addr] /\ endPoint' \in [Socket -> Addr \cup {Unset}]
    BY <1>5, LearnSourceType DEF FinalizeFin
  <2> QED
    BY <1>5, <2>1, <2>2 DEF FinalizeFin, TypeOK, InCall, Queues, Errno, sendVars, recvVars
<1> QED BY <1>2, <1>3, <1>4, <1>5 DEF CloseStep

\* Leaving finalizeRecv() keeps the types, whether recv() returns or starts over.
LEMMA LeaveFinalizeType ==
  ASSUME TypeInv, NEW s \in Socket, pc[s] = "finalize", LeaveFinalize(s)
  PROVE  /\ returned' \in [Socket -> Seq(Seq(Byte))]
         /\ buffer' \in [Socket -> Seq(Cell)]
         /\ pc' \in [Socket -> Place]
         /\ script' \in [Socket -> Seq(Call)]
         /\ recvSeqnum' \in [Socket -> Seqnum]
         /\ timeout' \in [Socket -> {0, RECV_TIMEOUT, PROTOCOL_TIMEOUT}]
         /\ InCall'
<1> USE DEF TypeInv
<1>1. timeout' \in [Socket -> {0, RECV_TIMEOUT, PROTOCOL_TIMEOUT}]
  BY DEF LeaveFinalize, TypeOK
<1>2. CASE NoBytes(buffer[s])
  <2>1. /\ pc' = [pc EXCEPT ![s] = "recv"]
        /\ recvSeqnum' = [recvSeqnum EXCEPT ![s] = 0]
        /\ UNCHANGED <<script, buffer, returned>>
    BY <1>2 DEF LeaveFinalize
  <2>2. 0 \in Seqnum
    BY MsgAssumption DEF Seqnum
  <2> QED BY <1>1, <2>1, <2>2 DEF TypeOK, InCall, Place
<1>3. CASE ~NoBytes(buffer[s])
  <2>1. ReturnRead(s) /\ UNCHANGED recvSeqnum
    BY <1>3 DEF LeaveFinalize
  <2>2. /\ returned' \in [Socket -> Seq(Seq(Byte))] /\ buffer' \in [Socket -> Seq(Cell)]
        /\ pc' \in [Socket -> Place] /\ script' \in [Socket -> Seq(Call)]
    BY <2>1, ReturnReadType DEF InCall
  <2>3. InCall'
    BY <2>1 DEF ReturnRead, Return, TypeOK, InCall
  <2> QED BY <1>1, <2>1, <2>2, <2>3 DEF TypeOK
<1> QED BY <1>2, <1>3

\* Every step that sends nothing keeps the types.
LEMMA SilentStepType ==
  ASSUME TypeInv, NEW s \in Socket, SilentStep(s)
  PROVE  TypeInv'
<1> USE DEF TypeInv
<1>1. inbox \in Queues /\ 0 \in Seqnum
  BY MsgAssumption DEF TypeOK, Queues, Seqnum
<1>2. CASE SendOnClosing(s)
  <2>1. Tail(script[s]) \in Seq(Call)
    BY <1>2, CallTypes DEF SendOnClosing, Calls, TypeOK
  <2> QED
    BY <1>1, <1>2, <2>1 DEF SendOnClosing, Calls, Return, TypeOK, InCall, Place,
                            addrVars, recvVars
<1>3. CASE CallRecv(s)
  BY <1>1, <1>3 DEF CallRecv, Calls, TypeOK, InCall, Place, addrVars, sendVars
<1>4. CASE RecvOnClosing(s)
  <2>1. /\ returned' \in [Socket -> Seq(Seq(Byte))] /\ buffer' \in [Socket -> Seq(Cell)]
        /\ pc' \in [Socket -> Place] /\ script' \in [Socket -> Seq(Call)]
    BY <1>4, ReturnReadType DEF RecvOnClosing, Calls
  <2>2. TypeOK'
    BY <1>1, <1>4, <2>1 DEF RecvOnClosing, TypeOK, addrVars, sendVars
  <2>3. InCall'
    BY <1>4 DEF RecvOnClosing, ReturnRead, Return, TypeOK, InCall
  <2> QED BY <2>2, <2>3
<1>5. CASE RecvTimeout(s)
  <2>1. /\ fromEndpoint' \in [Socket -> Addr] /\ endPoint' \in [Socket -> Addr \cup {Unset}]
        /\ errno' \in [Socket -> Errno]
    BY <1>5, TimesOutType DEF RecvTimeout
  <2> QED
    BY <1>5, <2>1 DEF RecvTimeout, TypeOK, InCall, sendVars, recvVars
<1>6. CASE FinalizeTimeout(s)
  <2>1. /\ fromEndpoint' \in [Socket -> Addr] /\ endPoint' \in [Socket -> Addr \cup {Unset}]
        /\ errno' \in [Socket -> Errno]
    BY <1>6, TimesOutType DEF FinalizeTimeout
  <2>2. /\ returned' \in [Socket -> Seq(Seq(Byte))] /\ buffer' \in [Socket -> Seq(Cell)]
        /\ pc' \in [Socket -> Place] /\ script' \in [Socket -> Seq(Call)]
        /\ recvSeqnum' \in [Socket -> Seqnum]
        /\ timeout' \in [Socket -> {0, RECV_TIMEOUT, PROTOCOL_TIMEOUT}]
        /\ InCall'
    BY <1>6, LeaveFinalizeType DEF FinalizeTimeout
  <2> QED
    BY <1>6, <2>1, <2>2 DEF FinalizeTimeout, LeaveFinalize, TypeOK, sendVars
<1>7. CASE FinalizeSpin(s)
  BY <1>7 DEF FinalizeSpin, TypeOK, InCall, vars, addrVars, sendVars, recvVars
<1>8. ASSUME NEW i \in DOMAIN inbox[s], AcksendDone(s, i)
      PROVE  TypeInv'
  <2>1. inbox' \in Queues /\ Tail(script[s]) \in Seq(Call)
    BY <1>1, <1>8, ArrivalTypes, CallTypes DEF AcksendDone, InCall, TypeOK
  <2>2. fromEndpoint' \in [Socket -> Addr] /\ endPoint' \in [Socket -> Addr \cup {Unset}]
    BY <1>8, LearnSourceType DEF AcksendDone
  <2>3. confirmed' \in [Socket -> Nat]
    BY <1>8 DEF AcksendDone, TypeOK
  <2>4. TypeOK'
    BY <1>8, <2>1, <2>2, <2>3 DEF AcksendDone, Return, TypeOK, Place, Queues, recvVars
  <2>5. InCall'
    BY <1>8 DEF AcksendDone, Return, TypeOK, InCall
  <2> QED BY <2>4, <2>5
<1>9. ASSUME NEW i \in DOMAIN inbox[s], RecvIgnore(s, i)
      PROVE  TypeInv'
  <2>1. inbox' \in Queues
    BY <1>1, <1>9, ArrivalTypes DEF RecvIgnore
  <2>2. fromEndpoint' \in [Socket -> Addr] /\ endPoint' \in [Socket -> Addr \cup {Unset}]
    BY <1>9, LearnSourceType DEF RecvIgnore
  <2> QED
    BY <1>9, <2>1, <2>2 DEF RecvIgnore, TypeOK, InCall, Queues, sendVars, recvVars
<1>10. ASSUME NEW i \in DOMAIN inbox[s], FinalizeLeave(s, i)
       PROVE  TypeInv'
  <2>1. inbox' \in Queues
    BY <1>1, <1>10, ArrivalTypes DEF FinalizeLeave
  <2>2. fromEndpoint' \in [Socket -> Addr] /\ endPoint' \in [Socket -> Addr \cup {Unset}]
    BY <1>10, LearnSourceType DEF FinalizeLeave
  <2>3. /\ returned' \in [Socket -> Seq(Seq(Byte))] /\ buffer' \in [Socket -> Seq(Cell)]
        /\ pc' \in [Socket -> Place] /\ script' \in [Socket -> Seq(Call)]
        /\ recvSeqnum' \in [Socket -> Seqnum]
        /\ timeout' \in [Socket -> {0, RECV_TIMEOUT, PROTOCOL_TIMEOUT}]
        /\ InCall'
    BY <1>10, LeaveFinalizeType DEF FinalizeLeave
  <2> QED
    BY <1>10, <2>1, <2>2, <2>3 DEF FinalizeLeave, LeaveFinalize, TypeOK, Queues, sendVars
<1> QED
  BY <1>2, <1>3, <1>4, <1>5, <1>6, <1>7, <1>8, <1>9, <1>10 DEF SilentStep

\* A socket as rcs_t() leaves it, joined to its peer.
LEMMA InitType == Init => TypeInv
<1> SUFFICES ASSUME Init PROVE TypeInv
  OBVIOUS
<1>1. 0 \in Seqnum
  BY MsgAssumption DEF Seqnum
<1>2. Peer \in [Socket -> Addr \cup {Unset}]
  BY LinkAssumption DEF Peer, Addr
<1>3. script \in [Socket -> Seq(Call)]
  BY LinkAssumption DEF Init
<1>4. TypeOK
  BY <1>1, <1>2, <1>3, EmptySeq DEF Init, SocketInit, TypeOK, Place, Addr
<1>5. InCall
  BY DEF Init, SocketInit, InCall
<1> QED BY <1>4, <1>5 DEF TypeInv

\* No step of either socket leaves the types.
LEMMA NextType == TypeInv /\ [Next]_vars => TypeInv'
<1> SUFFICES ASSUME TypeInv, [Next]_vars PROVE TypeInv'
  OBVIOUS
<1>1. CASE UNCHANGED vars
  BY <1>1 DEF TypeInv, TypeOK, InCall, vars, addrVars, sendVars, recvVars
<1>2. ASSUME NEW s \in Socket, Step(s)  PROVE TypeInv'
  BY <1>2, SilentStepType, SendStepType, AnswerStepType, CloseStepType DEF Step
<1> QED BY <1>1, <1>2 DEF Next, Terminating

\* Whatever the two applications call and whatever becomes of the datagrams,
\* the state of both sockets keeps its type, and a socket waits in a function
\* only because its application's current call has led there.
THEOREM TypesAreKept == Spec => [](TypeOK /\ InCall)
<1>1. Spec => []TypeInv
  BY InitType, NextType, PTL DEF Spec
<1> QED BY <1>1, PTL DEF TypeInv

-----------------------------------------------------------------------------
(* Concatenation, of bytes and of cells *)

LEMMA BytesConcat == \A r, s, t \in Seq(Byte) : (r \o s) \o t = r \o (s \o t)
BY ConcatAssociative

LEMMA CellsConcat == \A r, s, t \in Seq(Cell) : (r \o s) \o t = r \o (s \o t)
BY ConcatAssociative

-----------------------------------------------------------------------------
(* The bytes of a buffer *)

\* The bytes of each cell.
CellBytes(b) == [i \in DOMAIN b |-> IF b[i] = Mark THEN << >> ELSE <<b[i]>>]

\* They are as many sequences of bytes as there are cells.
LEMMA CellBytesType ==
  ASSUME NEW b \in Seq(Cell)
  PROVE  /\ CellBytes(b) \in Seq(Seq(Byte)) /\ Len(CellBytes(b)) = Len(b)
         /\ \A i \in 1 .. Len(b) : CellBytes(b)[i] = IF b[i] = Mark THEN << >> ELSE <<b[i]>>
<1>1. /\ Len(b) \in Nat /\ DOMAIN b = 1 .. Len(b)
      /\ \A i \in 1 .. Len(b) : b[i] \in Cell
  BY LenProperties, ElementOfSeq
<1>2. \A i \in 1 .. Len(b) : (IF b[i] = Mark THEN << >> ELSE <<b[i]>>) \in Seq(Byte)
  BY <1>1, EmptySeq DEF Cell
<1>3. CellBytes(b) \in [1 .. Len(b) -> Seq(Byte)]
  BY <1>1, <1>2 DEF CellBytes
<1>4. CellBytes(b) \in Seq(Seq(Byte)) /\ Len(CellBytes(b)) = Len(b)
  BY <1>1, <1>3, FunctionIsSeq
<1>5. \A i \in 1 .. Len(b) : CellBytes(b)[i] = IF b[i] = Mark THEN << >> ELSE <<b[i]>>
  BY <1>1 DEF CellBytes
<1> QED BY <1>4, <1>5

\* The bytes of a buffer are bytes.
LEMMA UnreadType ==
  ASSUME NEW b \in Seq(Cell)
  PROVE  Unread(b) \in Seq(Byte)
BY CellBytesType, FlattenType DEF Unread, CellBytes

\* An empty buffer has none.
LEMMA UnreadEmpty == Unread(<< >>) = << >>
<1>1. CellBytes(<< >>) = << >>
  BY CellBytesType, EmptySeq
<1> QED BY <1>1, FlattenEmpty DEF Unread, CellBytes

\* A cell adds its byte, a mark adds nothing.
LEMMA UnreadAppend ==
  ASSUME NEW b \in Seq(Cell), NEW c \in Cell
  PROVE  Unread(Append(b, c)) = IF c = Mark THEN Unread(b) ELSE Append(Unread(b), c)
<1> DEFINE last == IF c = Mark THEN << >> ELSE <<c>>
<1>1. last \in Seq(Byte) /\ Append(b, c) \in Seq(Cell)
  BY EmptySeq, AppendProperties DEF Cell
<1>2. CellBytes(Append(b, c)) = Append(CellBytes(b), last)
  <2> DEFINE x == CellBytes(Append(b, c))
             y == Append(CellBytes(b), last)
  <2>1. Len(b) \in Nat /\ Len(Append(b, c)) = Len(b) + 1
    BY LenProperties, AppendProperties
  <2>2. x \in Seq(Seq(Byte)) /\ Len(x) = Len(b) + 1
    BY <1>1, <2>1, CellBytesType
  <2>3. y \in Seq(Seq(Byte)) /\ Len(y) = Len(b) + 1
    BY <1>1, CellBytesType, AppendProperties
  <2>4. \A i \in 1 .. Len(b) + 1 : x[i] = y[i]
    <3> SUFFICES ASSUME NEW i \in 1 .. Len(b) + 1  PROVE x[i] = y[i]
      OBVIOUS
    <3>1. x[i] = IF Append(b, c)[i] = Mark THEN << >> ELSE <<Append(b, c)[i]>>
      BY <1>1, <2>1, CellBytesType
    <3>2. CASE i = Len(b) + 1
      <4>1. Append(b, c)[i] = c /\ y[i] = last
        BY <1>1, <3>2, AppendProperties, CellBytesType
      <4> QED BY <3>1, <4>1
    <3>3. CASE i \in 1 .. Len(b)
      <4>1. Append(b, c)[i] = b[i] /\ y[i] = CellBytes(b)[i]
        BY <1>1, <3>3, AppendProperties, CellBytesType
      <4> QED BY <3>1, <3>3, <4>1, CellBytesType
    <3>4. i = Len(b) + 1 \/ i \in 1 .. Len(b)
      BY <2>1
    <3> QED BY <3>2, <3>3, <3>4
  <2> QED BY <2>2, <2>3, <2>4, SeqEqual, SMTT(30)
<1>3. Unread(Append(b, c)) = Unread(b) \o last
  BY <1>1, <1>2, CellBytesType, FlattenAppend DEF Unread, CellBytes
<1>4. CASE c = Mark
  BY <1>3, <1>4, UnreadType, ConcatEmptySeq
<1>5. CASE c # Mark
  <2>1. c \in Byte
    BY <1>5 DEF Cell
  <2> QED BY <1>3, <1>5, <2>1, UnreadType, AppendIsConcat
<1> QED BY <1>4, <1>5

\* The bytes of two buffers, one after the other.
LEMMA UnreadConcat ==
  ASSUME NEW a \in Seq(Cell), NEW b \in Seq(Cell)
  PROVE  Unread(a \o b) = Unread(a) \o Unread(b)
<1> DEFINE T == {d \in Seq(Cell) : Unread(a \o d) = Unread(a) \o Unread(d)}
<1>1. << >> \in T
  BY EmptySeq, UnreadEmpty, UnreadType, ConcatEmptySeq
<1>2. ASSUME NEW d \in Seq(Cell), NEW c \in Cell, d \in T
      PROVE  Append(d, c) \in T
  <2>1. a \o Append(d, c) = Append(a \o d, c) /\ a \o d \in Seq(Cell)
    <3>1. <<c>> \in Seq(Cell) /\ a \o d \in Seq(Cell)
      BY ConcatProperties
    <3> QED BY <3>1, AppendIsConcat, ConcatAssociative
  <2>2. /\ Unread(Append(a \o d, c)) = IF c = Mark THEN Unread(a \o d) ELSE Append(Unread(a \o d), c)
        /\ Unread(Append(d, c)) = IF c = Mark THEN Unread(d) ELSE Append(Unread(d), c)
    BY <2>1, UnreadAppend
  <2>3. CASE c = Mark
    BY <1>2, <2>1, <2>2, <2>3, AppendProperties
  <2>4. CASE c # Mark
    <3>1. c \in Byte /\ <<c>> \in Seq(Byte)
      BY <2>4 DEF Cell
    <3>2. Append(Unread(a) \o Unread(d), c) = Unread(a) \o Append(Unread(d), c)
      <4>1. /\ Unread(a) \in Seq(Byte) /\ Unread(d) \in Seq(Byte)
            /\ Unread(a) \o Unread(d) \in Seq(Byte)
        BY UnreadType, ConcatProperties
      <4>2. (Unread(a) \o Unread(d)) \o <<c>> = Unread(a) \o (Unread(d) \o <<c>>)
        BY <3>1, <4>1, BytesConcat, Zenon
      <4>3. /\ Append(Unread(a) \o Unread(d), c) = (Unread(a) \o Unread(d)) \o <<c>>
            /\ Append(Unread(d), c) = Unread(d) \o <<c>>
        BY <3>1, <4>1, AppendIsConcat
      <4> QED BY <4>2, <4>3
    <3> QED BY <1>2, <2>1, <2>2, <2>4, <3>2, AppendProperties
  <2> QED BY <2>3, <2>4
<1> HIDE DEF T
<1>3. Seq(Cell) \subseteq T
  BY <1>1, <1>2, SeqSetInduction
<1> QED BY <1>3 DEF T

\* A mark in front has no bytes.
LEMMA UnreadAfterMark ==
  ASSUME NEW b \in Seq(Cell)
  PROVE  Unread(<<Mark>> \o b) = Unread(b)
<1>1. Mark \in Cell
  BY DEF Cell
<1>2. << >> \in Seq(Cell) /\ Append(<< >>, Mark) = <<Mark>>
  BY EmptySeq
<1>3. <<Mark>> \in Seq(Cell)
  BY <1>1
<1>4. Unread(Append(<< >>, Mark)) = Unread(<< >>)
  BY <1>1, <1>2, UnreadAppend
<1>5. Unread(<<Mark>>) = << >>
  BY <1>2, <1>4, UnreadEmpty
<1>6. Unread(<<Mark>> \o b) = Unread(<<Mark>>) \o Unread(b)
  BY <1>3, UnreadConcat
<1> QED BY <1>5, <1>6, UnreadType, ConcatEmptySeq

\* Marks alone have no bytes.
LEMMA UnreadOfMarks ==
  ASSUME NEW b \in Seq(Cell), NoBytes(b)
  PROVE  Unread(b) = << >>
<1> DEFINE T == {d \in Seq(Cell) : NoBytes(d) => Unread(d) = << >>}
<1>1. << >> \in T
  BY EmptySeq, UnreadEmpty
<1>2. ASSUME NEW d \in Seq(Cell), NEW c \in Cell, d \in T
      PROVE  Append(d, c) \in T
  <2> SUFFICES ASSUME NoBytes(Append(d, c))  PROVE Unread(Append(d, c)) = << >>
    BY AppendProperties
  <2>1. c = Mark /\ NoBytes(d)
    <3>1. /\ Len(d) \in Nat /\ Len(Append(d, c)) = Len(d) + 1 /\ Append(d, c)[Len(d) + 1] = c
          /\ \A i \in 1 .. Len(d) : Append(d, c)[i] = d[i]
      BY LenProperties, AppendProperties
    <3> QED BY <3>1 DEF NoBytes
  <2> QED BY <1>2, <2>1, UnreadAppend
<1> HIDE DEF T
<1>3. Seq(Cell) \subseteq T
  BY <1>1, <1>2, SeqSetInduction
<1> QED BY <1>3 DEF T

\* Bytes alone are their own bytes.
LEMMA UnreadOfBytes ==
  ASSUME NEW b \in Seq(Byte)
  PROVE  Unread(b) = b
<1> DEFINE T == {d \in Seq(Byte) : Unread(d) = d}
<1>1. << >> \in T
  BY EmptySeq, UnreadEmpty
<1>2. ASSUME NEW d \in Seq(Byte), NEW c \in Byte, d \in T
      PROVE  Append(d, c) \in T
  <2>1. d \in Seq(Cell) /\ c \in Cell /\ c # Mark
    BY SeqMonotonic, MarkAssumption DEF Cell
  <2> QED BY <1>2, <2>1, UnreadAppend, AppendProperties
<1> HIDE DEF T
<1>3. Seq(Byte) \subseteq T
  BY <1>1, <1>2, SeqSetInduction
<1> QED BY <1>3 DEF T

-----------------------------------------------------------------------------
(* The bytes of messages *)

\* The payload of each message.
Datas(ms) == [i \in DOMAIN ms |-> ms[i].data]

\* They are as many sequences of bytes as there are messages.
LEMMA DatasType ==
  ASSUME NEW ms \in Seq(Message)
  PROVE  /\ Datas(ms) \in Seq(Seq(Byte)) /\ Len(Datas(ms)) = Len(ms)
         /\ \A i \in 1 .. Len(ms) : Datas(ms)[i] = ms[i].data
<1>1. /\ Len(ms) \in Nat /\ DOMAIN ms = 1 .. Len(ms)
      /\ \A i \in 1 .. Len(ms) : ms[i].data \in Seq(Byte)
  <2>1. Len(ms) \in Nat /\ DOMAIN ms = 1 .. Len(ms) /\ \A i \in 1 .. Len(ms) : ms[i] \in Message
    BY LenProperties, ElementOfSeq
  <2> QED BY <2>1 DEF Message
<1>2. Datas(ms) \in [1 .. Len(ms) -> Seq(Byte)]
  BY <1>1 DEF Datas
<1> QED BY <1>1, <1>2, FunctionIsSeq DEF Datas

\* The payload of messages is a sequence of bytes.
LEMMA PayloadType ==
  ASSUME NEW ms \in Seq(Message)
  PROVE  Payload(ms) \in Seq(Byte)
BY DatasType, FlattenType DEF Payload, Datas

\* No messages have none.
LEMMA PayloadEmpty == Payload(<< >>) = << >>
<1>1. Datas(<< >>) = << >>
  BY DatasType, EmptySeq
<1> QED BY <1>1, FlattenEmpty DEF Payload, Datas

\* A message adds its payload.
LEMMA PayloadAppend ==
  ASSUME NEW ms \in Seq(Message), NEW m \in Message
  PROVE  Payload(Append(ms, m)) = Payload(ms) \o m.data
<1> DEFINE x == Datas(Append(ms, m))
           y == Append(Datas(ms), m.data)
<1>1. /\ Len(ms) \in Nat /\ Append(ms, m) \in Seq(Message) /\ m.data \in Seq(Byte)
      /\ Len(Append(ms, m)) = Len(ms) + 1 /\ Append(ms, m)[Len(ms) + 1] = m
      /\ \A i \in 1 .. Len(ms) : Append(ms, m)[i] = ms[i]
  BY LenProperties, AppendProperties DEF Message
<1>2. /\ x \in Seq(Seq(Byte)) /\ Len(x) = Len(ms) + 1
      /\ \A i \in 1 .. Len(ms) + 1 : x[i] = Append(ms, m)[i].data
  BY <1>1, DatasType
<1>3. /\ y \in Seq(Seq(Byte)) /\ Len(y) = Len(ms) + 1 /\ y[Len(ms) + 1] = m.data
      /\ \A i \in 1 .. Len(ms) : y[i] = ms[i].data
  BY <1>1, DatasType, AppendProperties
<1> HIDE DEF x, y
<1>4. \A i \in 1 .. Len(ms) + 1 : x[i] = y[i]
  <2> SUFFICES ASSUME NEW i \in 1 .. Len(ms) + 1  PROVE x[i] = y[i]
    OBVIOUS
  <2>1. CASE i = Len(ms) + 1
    BY <1>1, <1>2, <1>3, <2>1
  <2>2. CASE i \in 1 .. Len(ms)
    BY <1>1, <1>2, <1>3, <2>2
  <2> QED BY <1>1, <2>1, <2>2
<1>5. x = y
  BY <1>2, <1>3, <1>4, SeqEqual
<1> QED BY <1>1, <1>5, DatasType, FlattenAppend DEF x, y, Payload, Datas

\* The payload of two runs of messages, one after the other.
LEMMA PayloadConcat ==
  ASSUME NEW ls \in Seq(Message), NEW ms \in Seq(Message)
  PROVE  Payload(ls \o ms) = Payload(ls) \o Payload(ms)
<1> DEFINE T == {ns \in Seq(Message) : Payload(ls \o ns) = Payload(ls) \o Payload(ns)}
<1>1. << >> \in T
  BY EmptySeq, PayloadEmpty, PayloadType, ConcatEmptySeq
<1>2. ASSUME NEW ns \in Seq(Message), NEW m \in Message, ns \in T
      PROVE  Append(ns, m) \in T
  <2>1. ls \o Append(ns, m) = Append(ls \o ns, m) /\ ls \o ns \in Seq(Message)
    <3>1. <<m>> \in Seq(Message) /\ ls \o ns \in Seq(Message)
      BY ConcatProperties
    <3> QED BY <3>1, AppendIsConcat, ConcatAssociative
  <2>2. /\ Payload(Append(ls \o ns, m)) = Payload(ls \o ns) \o m.data
        /\ Payload(Append(ns, m)) = Payload(ns) \o m.data
    BY <2>1, PayloadAppend
  <2>3. (Payload(ls) \o Payload(ns)) \o m.data = Payload(ls) \o (Payload(ns) \o m.data)
    <3> DEFINE bytes == m.data
    <3>1. bytes \in Seq(Byte) /\ Payload(ls) \in Seq(Byte) /\ Payload(ns) \in Seq(Byte)
      BY PayloadType DEF Message
    <3> HIDE DEF bytes
    <3>2. (Payload(ls) \o Payload(ns)) \o bytes = Payload(ls) \o (Payload(ns) \o bytes)
      BY <3>1, BytesConcat, Zenon
    <3> QED BY <3>2 DEF bytes
  <2> QED BY <1>2, <2>1, <2>2, <2>3, AppendProperties
<1> HIDE DEF T
<1>3. Seq(Message) \subseteq T
  BY <1>1, <1>2, SeqSetInduction
<1> QED BY <1>3 DEF T

\* More messages have more bytes, after those that fewer have.
LEMMA PayloadPrefix ==
  ASSUME NEW ms \in Seq(Message), NEW i \in Nat, NEW j \in Nat, i <= j, j <= Len(ms)
  PROVE  /\ SubSeq(ms, 1, i) \in Seq(Message) /\ SubSeq(ms, 1, j) \in Seq(Message)
         /\ Len(Payload(SubSeq(ms, 1, i))) \in Nat /\ Len(Payload(SubSeq(ms, 1, j))) \in Nat
         /\ Len(Payload(SubSeq(ms, 1, i))) <= Len(Payload(SubSeq(ms, 1, j)))
         /\ IsPrefix(Payload(SubSeq(ms, 1, i)), Payload(SubSeq(ms, 1, j)))
<1> DEFINE x == Payload(SubSeq(ms, 1, i))
           y == Payload(SubSeq(ms, i + 1, j))
<1>1. Len(ms) \in Nat /\ \A k \in 1 .. Len(ms) : ms[k] \in Message
  BY LenProperties, ElementOfSeq
<1>2. /\ SubSeq(ms, 1, i) \in Seq(Message) /\ SubSeq(ms, 1, j) \in Seq(Message)
      /\ SubSeq(ms, i + 1, j) \in Seq(Message)
  BY <1>1, SubSeqProperties
<1>3. SubSeq(ms, 1, i) \o SubSeq(ms, i + 1, j) = SubSeq(ms, 1, j)
  <2>1. 1 \in 1 .. Len(ms) + 1 /\ i \in 1 - 1 .. Len(ms) /\ j \in i .. Len(ms)
    BY <1>1
  <2> QED BY <2>1, ConcatAdjacentSubSeq
<1>4. Payload(SubSeq(ms, 1, j)) = x \o y
  BY <1>2, <1>3, PayloadConcat
<1>5. x \in Seq(Byte) /\ y \in Seq(Byte) /\ Len(x) \in Nat /\ Len(y) \in Nat
  BY <1>2, PayloadType, LenProperties
<1> HIDE DEF x, y
<1>6. Len(x \o y) = Len(x) + Len(y)
  BY <1>5, ConcatProperties
<1>7. Len(x \o y) \in Nat /\ Len(x) <= Len(x \o y) /\ IsPrefix(x, x \o y)
  BY <1>5, <1>6, PrefixOfConcat
<1>8. /\ Len(x) \in Nat /\ Len(Payload(SubSeq(ms, 1, j))) \in Nat
      /\ Len(x) <= Len(Payload(SubSeq(ms, 1, j))) /\ IsPrefix(x, Payload(SubSeq(ms, 1, j)))
  BY <1>4, <1>5, <1>7, Zenon
<1> QED BY <1>2, <1>8, Zenon DEF x

-----------------------------------------------------------------------------
(* read() *)

\* Where read() starts and ends: marks, then the bytes it copies, then what stays.
LEMMA ReadPlaces ==
  ASSUME NEW b \in Seq(Cell), NEW n \in Nat \ {0}, ~NoBytes(b)
  PROVE  /\ ReadStart(b) \in 1 .. Len(b) /\ ReadEnd(b, n) \in ReadStart(b) + 1 .. Len(b) + 1
         /\ \A i \in 1 .. ReadStart(b) - 1 : b[i] = Mark
         /\ \A i \in ReadStart(b) .. ReadEnd(b, n) - 1 : b[i] # Mark
         /\ ReadEnd(b, n) <= ReadStart(b) + n
         /\ \/ /\ AfterRead(b, n) = SubSeq(b, ReadEnd(b, n), Len(b))
               /\ ReadEnd(b, n) = Len(b) + 1 \/ ReadEnd(b, n) = ReadStart(b) + n
            \/ /\ ReadEnd(b, n) <= Len(b) /\ b[ReadEnd(b, n)] = Mark
               /\ ReadEnd(b, n) < ReadStart(b) + n
               /\ AfterRead(b, n) = SubSeq(b, ReadEnd(b, n) + 1, Len(b))
<1> DEFINE start == ReadStart(b)
           Starts == {i \in 1 .. Len(b) : b[i] # Mark}
           Stops(from) == {i \in from .. Len(b) + 1 :
                             i = Len(b) + 1 \/ b[i] = Mark \/ i = from + n}
<1>1. Len(b) \in Nat
  BY LenProperties
<1>2. start \in Starts /\ \A i \in Starts : start <= i
  <2>1. Starts # {} /\ Starts \subseteq Nat
    BY <1>1 DEF NoBytes
  <2> HIDE DEF Starts
  <2>2. Min(Starts) \in Starts /\ \A i \in Starts : Min(Starts) <= i
    BY <2>1, MinOfNats
  <2> QED BY <2>2 DEF ReadStart, Starts
<1>3. ReadEnd(b, n) = Min(Stops(start))
  BY DEF ReadEnd
<1> HIDE DEF start
<1>4. start \in 1 .. Len(b) /\ b[start] # Mark /\ \A i \in 1 .. start - 1 : b[i] = Mark
  <2> SUFFICES ASSUME NEW i \in 1 .. start - 1  PROVE b[i] = Mark
    BY <1>2
  <2>1. i \in 1 .. Len(b) /\ ~(start <= i)
    BY <1>1, <1>2
  <2> QED BY <1>2, <2>1
<1>5. ReadEnd(b, n) \in Stops(start) /\ \A i \in Stops(start) : ReadEnd(b, n) <= i
  <2>1. Stops(start) # {} /\ Stops(start) \subseteq Nat
    <3>1. Len(b) + 1 \in Stops(start)
      BY <1>1, <1>4
    <3> QED BY <3>1, <1>1, <1>4
  <2> HIDE DEF Stops
  <2> QED BY <1>3, <2>1, MinOfNats
<1> DEFINE end == ReadEnd(b, n)
<1>6. end \in start .. Len(b) + 1 /\ (end = Len(b) + 1 \/ b[end] = Mark \/ end = start + n)
  BY <1>5
<1>7. end # start
  BY <1>1, <1>4, <1>6
<1>8. end <= start + n
  <2>1. CASE start + n <= Len(b) + 1
    <3>1. start + n \in Stops(start)
      BY <1>1, <1>4, <2>1
    <3> QED BY <1>5, <3>1
  <2>2. CASE ~(start + n <= Len(b) + 1)
    BY <1>1, <1>4, <1>6, <2>2
  <2> QED BY <2>1, <2>2
<1>9. ASSUME NEW i \in start .. end - 1  PROVE b[i] # Mark
  <2>1. i \in start .. Len(b) + 1 /\ ~(end <= i)
    BY <1>1, <1>4, <1>6
  <2> QED BY <1>5, <2>1
<1>10. AfterRead(b, n) = SubSeq(b, IF end <= Len(b) /\ end < start + n THEN end + 1 ELSE end, Len(b))
  BY DEF AfterRead, start
<1> HIDE DEF end
<1>11. \/ AfterRead(b, n) = SubSeq(b, end, Len(b)) /\ (end = Len(b) + 1 \/ end = start + n)
       \/ /\ end <= Len(b) /\ b[end] = Mark /\ end < start + n
          /\ AfterRead(b, n) = SubSeq(b, end + 1, Len(b))
  <2>1. CASE end <= Len(b) /\ end < start + n
    BY <1>1, <1>4, <1>6, <1>10, <2>1
  <2>2. CASE ~(end <= Len(b) /\ end < start + n)
    <3>1. end = Len(b) + 1 \/ end = start + n
      BY <1>1, <1>4, <1>6, <1>8, <2>2
    <3> QED BY <1>10, <2>2, <3>1
  <2> QED BY <2>1, <2>2
<1> QED BY <1>1, <1>4, <1>6, <1>7, <1>8, <1>9, <1>11 DEF start, end

\* The bytes of a prefix of b that reaches beyond what read() copies.
LEMMA ReadPrefix ==
  ASSUME NEW b \in Seq(Cell), NEW n \in Nat \ {0}, ~NoBytes(b),
         NEW p \in ReadEnd(b, n) - 1 .. Len(b)
  PROVE  /\ ReadBytes(b, n) \in Seq(Byte) /\ Len(ReadBytes(b, n)) = ReadEnd(b, n) - ReadStart(b)
         /\ SubSeq(b, ReadEnd(b, n), p) \in Seq(Cell)
         /\ Unread(SubSeq(b, 1, p)) = ReadBytes(b, n) \o Unread(SubSeq(b, ReadEnd(b, n), p))
<1> DEFINE i == ReadStart(b)
           j == ReadEnd(b, n)
           marks == SubSeq(b, 1, i - 1)
           bytes == SubSeq(b, i, j - 1)
           rest  == SubSeq(b, j, p)
<1>1. Len(b) \in Nat /\ \A k \in 1 .. Len(b) : b[k] \in Cell
  BY LenProperties, ElementOfSeq
<1>2. /\ i \in 1 .. Len(b) /\ j \in i + 1 .. Len(b) + 1
      /\ \A k \in 1 .. i - 1 : b[k] = Mark
      /\ \A k \in i .. j - 1 : b[k] # Mark
  BY ReadPlaces
<1>3. bytes = ReadBytes(b, n)
  BY DEF ReadBytes
<1> HIDE DEF i, j
<1>4. marks \in Seq(Cell) /\ Unread(marks) = << >>
  <2>1. /\ marks \in Seq(Cell) /\ Len(marks) = i - 1
        /\ \A k \in 1 .. i - 1 : marks[k] = b[k]
    BY <1>1, <1>2, SubSeqProperties
  <2>2. NoBytes(marks)
    BY <1>2, <2>1 DEF NoBytes
  <2> QED BY <2>1, <2>2, UnreadOfMarks
<1>5. bytes \in Seq(Byte) /\ Len(bytes) = j - i /\ Unread(bytes) = bytes
  <2>1. \A k \in i .. j - 1 : b[k] \in Byte
    BY <1>1, <1>2 DEF Cell
  <2>2. bytes \in Seq(Byte) /\ Len(bytes) = j - i
    BY <1>1, <1>2, <2>1, SubSeqProperties
  <2> QED BY <2>2, UnreadOfBytes
<1>6. rest \in Seq(Cell)
  BY <1>1, <1>2, SubSeqProperties DEF j
<1>7. SubSeq(b, 1, p) = marks \o (bytes \o rest)
  <2>0. p \in j - 1 .. Len(b)
    BY DEF j
  <2>1. bytes \o rest = SubSeq(b, i, p)
    <3>1. i \in 1 .. Len(b) + 1 /\ j - 1 \in i - 1 .. Len(b) /\ p \in j - 1 .. Len(b)
          /\ (j - 1) + 1 = j
      BY <1>1, <1>2, <2>0
    <3> QED BY <3>1, ConcatAdjacentSubSeq
  <2>2. marks \o SubSeq(b, i, p) = SubSeq(b, 1, p)
    <3>1. 1 \in 1 .. Len(b) + 1 /\ i - 1 \in 1 - 1 .. Len(b) /\ p \in i - 1 .. Len(b)
          /\ (i - 1) + 1 = i
      BY <1>1, <1>2, <2>0
    <3> QED BY <3>1, ConcatAdjacentSubSeq
  <2> QED BY <2>1, <2>2
<1>8. bytes \in Seq(Cell)
  BY <1>5, SeqMonotonic DEF Cell
<1> HIDE DEF marks, bytes, rest
<1>9. Unread(SubSeq(b, 1, p)) = bytes \o Unread(rest)
  <2>1. /\ bytes \o rest \in Seq(Cell)
        /\ Unread(marks \o (bytes \o rest)) = Unread(marks) \o Unread(bytes \o rest)
        /\ Unread(bytes \o rest) = Unread(bytes) \o Unread(rest)
    BY <1>4, <1>6, <1>8, ConcatProperties, UnreadConcat
  <2> QED BY <1>4, <1>5, <1>7, <2>1, UnreadType, ConcatEmptySeq
<1> QED BY <1>3, <1>5, <1>6, <1>9 DEF i, j, rest

\* read() takes bytes off the front, at least one.
LEMMA ReadSplits ==
  ASSUME NEW b \in Seq(Cell), NEW n \in Nat \ {0}, ~NoBytes(b)
  PROVE  /\ ReadBytes(b, n) # << >> /\ AfterRead(b, n) \in Seq(Cell)
         /\ Unread(b) = ReadBytes(b, n) \o Unread(AfterRead(b, n))
<1> DEFINE i == ReadStart(b)
           j == ReadEnd(b, n)
<1>1. Len(b) \in Nat /\ \A k \in 1 .. Len(b) : b[k] \in Cell
  BY LenProperties, ElementOfSeq
<1>2. /\ i \in 1 .. Len(b) /\ j \in i + 1 .. Len(b) + 1
      /\ \/ AfterRead(b, n) = SubSeq(b, j, Len(b))
         \/ j <= Len(b) /\ b[j] = Mark /\ AfterRead(b, n) = SubSeq(b, j + 1, Len(b))
  BY ReadPlaces
<1>3. Len(b) \in j - 1 .. Len(b)
  BY <1>1, <1>2
<1>4. /\ ReadBytes(b, n) \in Seq(Byte) /\ Len(ReadBytes(b, n)) = j - i
      /\ SubSeq(b, j, Len(b)) \in Seq(Cell)
      /\ Unread(SubSeq(b, 1, Len(b))) = ReadBytes(b, n) \o Unread(SubSeq(b, j, Len(b)))
  BY <1>3, ReadPrefix
<1>5. SubSeq(b, 1, Len(b)) = b
  BY SubSeqFull
<1>6. ReadBytes(b, n) # << >>
  BY <1>1, <1>2, <1>4, EmptySeq
<1> HIDE DEF i, j
<1>7. CASE AfterRead(b, n) = SubSeq(b, j, Len(b))
  BY <1>4, <1>5, <1>6, <1>7
<1>8. CASE j <= Len(b) /\ b[j] = Mark /\ AfterRead(b, n) = SubSeq(b, j + 1, Len(b))
  <2>1. /\ SubSeq(b, j + 1, Len(b)) \in Seq(Cell)
        /\ SubSeq(b, j, Len(b)) = <<Mark>> \o SubSeq(b, j + 1, Len(b))
    <3>1. j \in 1 .. Len(b) /\ Len(b) \in j .. Len(b)
      BY <1>1, <1>2, <1>8
    <3>2. SubSeq(b, j, Len(b)) = <<b[j]>> \o SubSeq(b, j + 1, Len(b))
      BY <3>1, SubSeqRecursiveFirst
    <3>3. SubSeq(b, j + 1, Len(b)) \in Seq(Cell)
      BY <1>1, <3>1, SubSeqProperties
    <3> QED BY <1>8, <3>2, <3>3
  <2>3. Unread(SubSeq(b, j, Len(b))) = Unread(SubSeq(b, j + 1, Len(b)))
    BY <2>1, UnreadAfterMark
  <2> QED BY <1>4, <1>5, <1>6, <1>8, <2>1, <2>3
<1> QED BY <1>2, <1>7, <1>8

\* A mark of b is one of what b has from m on.
LEMMA MarkOfRest ==
  ASSUME NEW b \in Seq(Cell), NEW m \in 1 .. Len(b), NEW p \in m .. Len(b), b[p] = Mark
  PROVE  Len(Unread(SubSeq(b, m, p))) \in Marks(SubSeq(b, m, Len(b)))
<1> DEFINE r == SubSeq(b, m, Len(b))
           q == p - m + 1
<1>1. Len(b) \in Nat /\ \A i \in 1 .. Len(b) : b[i] \in Cell
  BY LenProperties, ElementOfSeq
<1>2. q \in 1 .. Len(b) - m + 1 /\ m + q - 1 = p /\ p \in 1 .. Len(b)
  BY <1>1
<1> HIDE DEF q
<1>3. Len(r) = Len(b) - m + 1 /\ r[q] = b[m + q - 1]
  BY <1>1, <1>2, SubSeqProperties
<1>4. SubSeq(r, 1, q) = SubSeq(b, m, p)
  <2>1. Len(b) \in 1 .. Len(b) /\ 1 \in 1 .. Len(b) - m + 1 /\ m + 1 - 1 = m
    BY <1>1
  <2> QED BY <1>2, <2>1, SubSeqOfSubSeq
<1> HIDE DEF r
<1>5. q \in 1 .. Len(r) /\ r[q] = Mark
  BY <1>2, <1>3
<1>6. Len(Unread(SubSeq(r, 1, q))) \in Marks(r)
  BY <1>5 DEF Marks
<1> QED BY <1>4, <1>6 DEF r

\* No mark is among what read() copies, and what stays keeps those behind it.
LEMMA ReadKeepsMarks ==
  ASSUME NEW b \in Seq(Cell), NEW n \in Nat \ {0}, ~NoBytes(b), NEW e \in Marks(b)
  PROVE  LET k == Len(ReadBytes(b, n))
         IN  e = 0 \/ e = k \/ (e \in Nat /\ e >= k /\ e - k \in Marks(AfterRead(b, n)))
<1> DEFINE i == ReadStart(b)
           j == ReadEnd(b, n)
           k == Len(ReadBytes(b, n))
<1> SUFFICES e = 0 \/ e = k \/ (e \in Nat /\ e >= k /\ e - k \in Marks(AfterRead(b, n)))
  OBVIOUS
<1>1. Len(b) \in Nat /\ \A q \in 1 .. Len(b) : b[q] \in Cell
  BY LenProperties, ElementOfSeq
<1>2. /\ i \in 1 .. Len(b) /\ j \in i + 1 .. Len(b) + 1
      /\ \A q \in 1 .. i - 1 : b[q] = Mark
      /\ \A q \in i .. j - 1 : b[q] # Mark
      /\ \/ AfterRead(b, n) = SubSeq(b, j, Len(b))
         \/ j <= Len(b) /\ b[j] = Mark /\ AfterRead(b, n) = SubSeq(b, j + 1, Len(b))
  BY ReadPlaces
<1>3. PICK p \in 1 .. Len(b) : b[p] = Mark /\ e = Len(Unread(SubSeq(b, 1, p)))
  BY DEF Marks
<1>4. ASSUME NEW q \in j - 1 .. Len(b)
      PROVE  /\ k \in Nat /\ SubSeq(b, j, q) \in Seq(Cell)
             /\ Len(Unread(SubSeq(b, j, q))) \in Nat
             /\ Len(Unread(SubSeq(b, 1, q))) = k + Len(Unread(SubSeq(b, j, q)))
  <2>1. /\ ReadBytes(b, n) \in Seq(Byte) /\ SubSeq(b, j, q) \in Seq(Cell)
        /\ Unread(SubSeq(b, 1, q)) = ReadBytes(b, n) \o Unread(SubSeq(b, j, q))
    BY <1>4, ReadPrefix
  <2>2. Unread(SubSeq(b, j, q)) \in Seq(Byte)
    BY <2>1, UnreadType
  <2> QED BY <2>1, <2>2, ConcatProperties, LenProperties
<1> HIDE DEF i, j, k
<1>5. CASE p < i
  <2>1. /\ SubSeq(b, 1, p) \in Seq(Cell) /\ Len(SubSeq(b, 1, p)) = p
        /\ \A q \in 1 .. p : SubSeq(b, 1, p)[q] = b[q]
    BY <1>1, SubSeqProperties
  <2>2. NoBytes(SubSeq(b, 1, p))
    BY <1>2, <1>5, <2>1 DEF NoBytes
  <2> QED BY <1>3, <2>1, <2>2, UnreadOfMarks, EmptySeq
<1>6. CASE p >= j
  <2>1. /\ k \in Nat /\ SubSeq(b, j, p) \in Seq(Cell) /\ Len(Unread(SubSeq(b, j, p))) \in Nat
        /\ e = k + Len(Unread(SubSeq(b, j, p)))
    BY <1>1, <1>2, <1>3, <1>4, <1>6
  <2>2. CASE AfterRead(b, n) = SubSeq(b, j, Len(b))
    <3>1. j \in 1 .. Len(b) /\ p \in j .. Len(b)
      BY <1>1, <1>2, <1>6
    <3>2. Len(Unread(SubSeq(b, j, p))) \in Marks(SubSeq(b, j, Len(b)))
      BY <1>3, <3>1, MarkOfRest
    <3>3. e - k = Len(Unread(SubSeq(b, j, p))) /\ e \in Nat /\ e >= k
      BY <2>1
    <3> QED BY <2>2, <3>2, <3>3
  <2>3. CASE j <= Len(b) /\ b[j] = Mark /\ AfterRead(b, n) = SubSeq(b, j + 1, Len(b))
    <3> DEFINE x == Len(Unread(SubSeq(b, j + 1, p)))
    <3>1. SubSeq(b, j + 1, p) \in Seq(Cell) /\ e = k + x /\ x \in Nat
      <4>1. j \in 1 .. Len(b) /\ p \in j .. Len(b)
        BY <1>1, <1>2, <1>6
      <4>2. SubSeq(b, j + 1, p) \in Seq(Cell)
        BY <1>1, <4>1, SubSeqProperties
      <4>3. SubSeq(b, j, p) = <<b[j]>> \o SubSeq(b, j + 1, p)
        BY <4>1, SubSeqRecursiveFirst
      <4>4. Unread(SubSeq(b, j, p)) = Unread(SubSeq(b, j + 1, p))
        BY <2>3, <4>2, <4>3, UnreadAfterMark
      <4> QED BY <2>1, <4>2, <4>4
    <3>2. CASE p = j
      <4>1. SubSeq(b, j + 1, p) = << >>
        BY <1>1, <1>2, <3>2, SubSeqEmpty
      <4>2. x = 0
        BY <4>1, UnreadEmpty, EmptySeq
      <4> QED BY <2>1, <3>1, <4>2
    <3>3. CASE p > j
      <4>1. j + 1 \in 1 .. Len(b) /\ p \in j + 1 .. Len(b)
        BY <1>1, <1>2, <3>3
      <4>2. x \in Marks(SubSeq(b, j + 1, Len(b)))
        BY <1>3, <4>1, MarkOfRest
      <4> HIDE DEF x
      <4>3. e - k = x /\ e \in Nat /\ e >= k
        BY <2>1, <3>1
      <4> QED BY <2>3, <4>2, <4>3
    <3> QED BY <1>2, <1>6, <3>2, <3>3
  <2> QED BY <1>2, <2>2, <2>3
<1> QED BY <1>2, <1>3, <1>5, <1>6

-----------------------------------------------------------------------------
(* The ends of sends *)

\* A message adds an end if it is an EOS, behind all the bytes.
LEMMA CutsAppend ==
  ASSUME NEW ms \in Seq(Message), NEW m \in Message
  PROVE  /\ Cuts(ms) \subseteq Nat
         /\ Cuts(Append(ms, m)) =
              Cuts(ms) \cup (IF m.flags = "EOS" THEN {Len(Payload(Append(ms, m)))} ELSE {})
<1> DEFINE ns == Append(ms, m)
           n  == Len(ms)
<1>1. /\ n \in Nat /\ Len(ns) = n + 1 /\ ns[n + 1] = m
      /\ \A k \in 1 .. n : ns[k] = ms[k]
  BY LenProperties, AppendProperties
<1>2. /\ \A k \in 0 .. n : SubSeq(ns, 1, k) = SubSeq(ms, 1, k)
      /\ SubSeq(ns, 1, n + 1) = ns
  BY PrefixOfAppend
<1>3. \A k \in 1 .. n : Len(Payload(SubSeq(ms, 1, k))) \in Nat
  BY <1>1, PayloadPrefix
<1> HIDE DEF ns, n
<1>4. {i \in 1 .. n + 1 : ns[i].flags = "EOS"} =
        {i \in 1 .. n : ms[i].flags = "EOS"} \cup (IF m.flags = "EOS" THEN {n + 1} ELSE {})
  BY <1>1
<1>5. Cuts(ms) = {Len(Payload(SubSeq(ms, 1, i))) : i \in {j \in 1 .. n : ms[j].flags = "EOS"}}
  BY DEF Cuts, n
<1>6. Cuts(ns) = {Len(Payload(SubSeq(ns, 1, i))) : i \in {j \in 1 .. n + 1 : ns[j].flags = "EOS"}}
  BY <1>1 DEF Cuts
<1>7. Cuts(ns) = Cuts(ms) \cup (IF m.flags = "EOS" THEN {Len(Payload(ns))} ELSE {})
  <2>1. ASSUME NEW e \in Cuts(ns)
        PROVE  e \in Cuts(ms) \cup (IF m.flags = "EOS" THEN {Len(Payload(ns))} ELSE {})
    <3>1. PICK i \in 1 .. n + 1 : ns[i].flags = "EOS" /\ e = Len(Payload(SubSeq(ns, 1, i)))
      BY <1>6
    <3>2. CASE i = n + 1
      BY <1>1, <1>2, <3>1, <3>2
    <3>3. CASE i \in 1 .. n
      <4>0. ns[i] = ms[i] /\ SubSeq(ns, 1, i) = SubSeq(ms, 1, i)
        BY <1>1, <1>2, <3>3
      <4>1. ms[i].flags = "EOS" /\ e = Len(Payload(SubSeq(ms, 1, i)))
        BY <3>1, <4>0
      <4> QED BY <1>5, <3>3, <4>1
    <3> QED BY <1>1, <3>1, <3>2, <3>3
  <2>2. ASSUME NEW e \in Cuts(ms)
        PROVE  e \in Cuts(ns)
    <3>1. PICK i \in 1 .. n : ms[i].flags = "EOS" /\ e = Len(Payload(SubSeq(ms, 1, i)))
      BY <1>5
    <3>0. i \in 1 .. n + 1 /\ ns[i] = ms[i] /\ SubSeq(ns, 1, i) = SubSeq(ms, 1, i)
      BY <1>1, <1>2
    <3>2. ns[i].flags = "EOS" /\ e = Len(Payload(SubSeq(ns, 1, i)))
      BY <3>0, <3>1
    <3> QED BY <1>6, <3>0, <3>2
  <2>3. m.flags = "EOS" => Len(Payload(ns)) \in Cuts(ns)
    <3>1. n + 1 \in 1 .. n + 1
      BY <1>1
    <3> QED BY <1>1, <1>2, <1>6, <3>1
  <2> QED BY <2>1, <2>2, <2>3
<1>8. Cuts(ms) \subseteq Nat
  BY <1>3, <1>5
<1> QED BY <1>7, <1>8 DEF ns

\* What is queued comes last: the payload, and a mark when it is an EOS.
LEMMA QueueConcat ==
  ASSUME NEW b \in Seq(Cell), NEW m \in Message
  PROVE  LET tail == IF m.flags = "EOS" THEN <<Mark>> ELSE << >>
         IN  /\ m.data \in Seq(Byte) /\ m.data \in Seq(Cell) /\ tail \in Seq(Cell)
             /\ m.data \o tail \in Seq(Cell)
             /\ QueueMessage(b, m) \in Seq(Cell)
             /\ QueueMessage(b, m) = b \o (m.data \o tail)
<1> DEFINE tail  == IF m.flags = "EOS" THEN <<Mark>> ELSE << >>
           bytes == m.data
<1>1. bytes \in Seq(Byte) /\ bytes \in Seq(Cell) /\ Mark \in Cell
  BY SeqMonotonic DEF Message, Cell
<1>2. tail \in Seq(Cell)
  <2>1. <<Mark>> \in Seq(Cell) /\ << >> \in Seq(Cell)
    BY <1>1, EmptySeq
  <2> QED BY <2>1
<1>3. QueueMessage(b, m) = (b \o bytes) \o tail
  <2>1. b \o bytes \in Seq(Cell)
    BY <1>1, ConcatProperties
  <2>2. CASE m.flags = "EOS"
    BY <1>1, <2>1, <2>2, AppendIsConcat DEF QueueMessage
  <2>3. CASE m.flags # "EOS"
    BY <2>1, <2>3, ConcatEmptySeq DEF QueueMessage
  <2> QED BY <2>2, <2>3
<1>4. QueueMessage(b, m) \in Seq(Cell)
  BY QueueType
<1> HIDE DEF bytes, tail
<1>5. bytes \o tail \in Seq(Cell) /\ (b \o bytes) \o tail = b \o (bytes \o tail)
  BY <1>1, <1>2, ConcatProperties, ConcatAssociative
<1> QED BY <1>1, <1>2, <1>3, <1>4, <1>5 DEF bytes, tail

\* What is queued keeps the marks before it, and an EOS leaves one at the end.
LEMMA QueueCells ==
  ASSUME NEW b \in Seq(Cell), NEW m \in Message
  PROVE  /\ QueueMessage(b, m) \in Seq(Cell)
         /\ Unread(QueueMessage(b, m)) = Unread(b) \o m.data
         /\ Marks(b) \subseteq Marks(QueueMessage(b, m))
         /\ m.flags = "EOS" =>
              Len(Unread(QueueMessage(b, m))) \in Marks(QueueMessage(b, m))
<1> DEFINE d == m.data \o (IF m.flags = "EOS" THEN <<Mark>> ELSE << >>)
           q == QueueMessage(b, m)
<1>1. m.data \in Seq(Byte) /\ m.data \in Seq(Cell) /\ Mark \in Cell
  BY QueueConcat DEF Cell
<1>2. d \in Seq(Cell)
  BY QueueConcat
<1>3. q \in Seq(Cell)
  BY QueueConcat
<1>4. q = b \o d
  BY QueueConcat
<1>5. Unread(q) = Unread(b) \o m.data
  <2>1. Unread(b \o m.data) = Unread(b) \o m.data /\ b \o m.data \in Seq(Cell)
    <3>1. Unread(b \o m.data) = Unread(b) \o Unread(m.data)
      BY <1>1, UnreadConcat
    <3>2. Unread(m.data) = m.data
      BY <1>1, UnreadOfBytes
    <3> QED BY <1>1, <3>1, <3>2, ConcatProperties
  <2>2. CASE m.flags = "EOS"
    BY <1>1, <2>1, <2>2, UnreadAppend DEF QueueMessage
  <2>3. CASE m.flags # "EOS"
    BY <2>1, <2>3 DEF QueueMessage
  <2> QED BY <2>2, <2>3
<1>6. Len(b) \in Nat /\ Len(d) \in Nat /\ Len(q) = Len(b) + Len(d)
      /\ \A i \in 1 .. Len(b) : q[i] = b[i]
  <2> HIDE DEF d, q
  <2>1. /\ Len(b \o d) = Len(b) + Len(d) /\ Len(b) \in Nat /\ Len(d) \in Nat
        /\ \A i \in 1 .. Len(b) + Len(d) :
             (b \o d)[i] = IF i <= Len(b) THEN b[i] ELSE d[i - Len(b)]
    BY <1>2, ConcatProperties, LenProperties
  <2> QED BY <1>4, <2>1
<1>7. ASSUME NEW e \in Marks(b)  PROVE e \in Marks(q)
  <2>1. PICK i \in 1 .. Len(b) : b[i] = Mark /\ e = Len(Unread(SubSeq(b, 1, i)))
    BY DEF Marks
  <2> HIDE DEF d, q
  <2>2. SubSeq(q, 1, i) = SubSeq(b, 1, i)
    <3>1. 1 \in 1 .. Len(b)
      BY <1>6
    <3>2. SubSeq(b \o d, 1, i) = SubSeq(b, 1, i)
      BY <1>2, <3>1, SubSeqOfConcat1
    <3> QED BY <1>4, <3>2
  <2>3. i \in 1 .. Len(q) /\ q[i] = Mark
    BY <1>6, <2>1
  <2>4. e = Len(Unread(SubSeq(q, 1, i)))
    BY <2>1, <2>2
  <2> QED BY <2>3, <2>4 DEF Marks
<1>8. ASSUME m.flags = "EOS"  PROVE Len(Unread(q)) \in Marks(q)
  <2>1. q = Append(b \o m.data, Mark) /\ b \o m.data \in Seq(Cell)
    BY <1>1, <1>8, ConcatProperties DEF QueueMessage
  <2>2. Len(q) \in 1 .. Len(q) /\ q[Len(q)] = Mark
    BY <1>1, <2>1, AppendProperties, LenProperties
  <2>3. SubSeq(q, 1, Len(q)) = q
    BY <1>3, SubSeqFull
  <2> HIDE DEF q
  <2>4. \E i \in {j \in 1 .. Len(q) : q[j] = Mark} : Len(Unread(q)) = Len(Unread(SubSeq(q, 1, i)))
    BY <2>2, <2>3
  <2> QED BY <2>4 DEF Marks
<1> QED BY <1>3, <1>5, <1>7, <1>8

-----------------------------------------------------------------------------
(* The reading side of one socket *)

\* NothingLost and MarksKept for one socket, with b in its buffer, the messages ms
\* queued and the results rs returned.
ReadsOf(b, ms, rs) ==
  /\ FlattenSeq(rs) \o Unread(b) = Payload(ms)
  /\ \A e \in Cuts(ms) :
       /\ e <= Len(FlattenSeq(rs)) \/ e - Len(FlattenSeq(rs)) \in Marks(b)
       /\ NotStraddled(rs, e)

\* A mark is some number of bytes away.
LEMMA MarksType ==
  ASSUME NEW b \in Seq(Cell)
  PROVE  Marks(b) \subseteq Nat
<1> SUFFICES ASSUME NEW i \in 1 .. Len(b)  PROVE Len(Unread(SubSeq(b, 1, i))) \in Nat
  BY DEF Marks
<1>1. \A j \in 1 .. i : b[j] \in Cell
  BY LenProperties, ElementOfSeq
<1>2. SubSeq(b, 1, i) \in Seq(Cell)
  BY <1>1, LenProperties, SubSeqProperties
<1> QED BY <1>2, UnreadType, LenProperties

\* Results so far do not run over what lies behind all of them.
LEMMA BehindAll ==
  ASSUME NEW rs \in Seq(Seq(Byte)), NEW e \in Nat, e >= Len(FlattenSeq(rs))
  PROVE  NotStraddled(rs, e)
<1> SUFFICES ASSUME NEW k \in 1 .. Len(rs)  PROVE e >= Len(FlattenSeq(SubSeq(rs, 1, k)))
  BY DEF NotStraddled
<1>1. Len(rs) \in Nat /\ k \in Nat /\ k <= Len(rs) /\ SubSeq(rs, 1, Len(rs)) = rs
  BY LenProperties, SubSeqFull
<1>2. /\ Len(FlattenSeq(SubSeq(rs, 1, k))) \in Nat
      /\ Len(FlattenSeq(SubSeq(rs, 1, k))) <= Len(FlattenSeq(SubSeq(rs, 1, Len(rs))))
  BY <1>1, FlattenPrefix
<1>3. Len(FlattenSeq(rs)) \in Nat
  BY FlattenType, LenProperties
<1>4. Len(FlattenSeq(SubSeq(rs, 1, k))) <= Len(FlattenSeq(rs))
  BY <1>1, <1>2, Zenon
<1> QED BY <1>2, <1>3, <1>4

\* One more result does not run over e if e is not within it.
LEMMA StraddleAppend ==
  ASSUME NEW rs \in Seq(Seq(Byte)), NEW r \in Seq(Byte), NEW e \in Nat, NotStraddled(rs, e),
         e <= Len(FlattenSeq(rs)) \/ e >= Len(FlattenSeq(Append(rs, r)))
  PROVE  NotStraddled(Append(rs, r), e)
<1> DEFINE qs == Append(rs, r)
<1> SUFFICES ASSUME NEW k \in 1 .. Len(qs)
             PROVE  \/ e <= Len(FlattenSeq(SubSeq(qs, 1, k - 1)))
                    \/ e >= Len(FlattenSeq(SubSeq(qs, 1, k)))
  BY DEF NotStraddled
<1>1. Len(rs) \in Nat /\ Len(qs) = Len(rs) + 1
  BY LenProperties, AppendProperties
<1>2. /\ \A j \in 0 .. Len(rs) : SubSeq(qs, 1, j) = SubSeq(rs, 1, j)
      /\ SubSeq(qs, 1, Len(rs) + 1) = qs
      /\ SubSeq(rs, 1, Len(rs)) = rs
  BY PrefixOfAppend, SubSeqFull
<1>3. e <= Len(FlattenSeq(rs)) \/ e >= Len(FlattenSeq(qs))
  OBVIOUS
<1> HIDE DEF qs
<1>4. CASE k \in 1 .. Len(rs)
  <2>1. SubSeq(qs, 1, k - 1) = SubSeq(rs, 1, k - 1) /\ SubSeq(qs, 1, k) = SubSeq(rs, 1, k)
    BY <1>1, <1>2, <1>4
  <2> QED BY <1>4, <2>1 DEF NotStraddled
<1>5. CASE k = Len(rs) + 1
  <2>1. SubSeq(qs, 1, k - 1) = rs /\ SubSeq(qs, 1, k) = qs
    <3>1. k - 1 = Len(rs) /\ k - 1 \in 0 .. Len(rs)
      BY <1>1, <1>5
    <3> QED BY <1>2, <1>5, <3>1
  <2> QED BY <1>3, <2>1
<1> QED BY <1>1, <1>4, <1>5

\* recv() queues a message.
LEMMA ReadsQueue ==
  ASSUME NEW b \in Seq(Cell), NEW ms \in Seq(Message), NEW rs \in Seq(Seq(Byte)),
         ReadsOf(b, ms, rs), NEW m \in Message
  PROVE  ReadsOf(QueueMessage(b, m), Append(ms, m), rs)
<1> DEFINE F  == FlattenSeq(rs)
           U  == Unread(b)
           q  == QueueMessage(b, m)
           ns == Append(ms, m)
           d  == m.data
<1>1. /\ F \in Seq(Byte) /\ U \in Seq(Byte) /\ d \in Seq(Byte)
      /\ q \in Seq(Cell) /\ Unread(q) \in Seq(Byte)
  BY FlattenType, UnreadType, QueueType DEF Message
<1>2. /\ Unread(q) = U \o d
      /\ Marks(b) \subseteq Marks(q)
      /\ m.flags = "EOS" => Len(Unread(q)) \in Marks(q)
  BY QueueCells
<1>3. /\ Payload(ns) = Payload(ms) \o d
      /\ Cuts(ms) \subseteq Nat
      /\ Cuts(ns) = Cuts(ms) \cup (IF m.flags = "EOS" THEN {Len(Payload(ns))} ELSE {})
  BY PayloadAppend, CutsAppend
<1>4. F \o U = Payload(ms)
  BY DEF ReadsOf
<1>5. \A e \in Cuts(ms) : (e <= Len(F) \/ e - Len(F) \in Marks(b)) /\ NotStraddled(rs, e)
  BY DEF ReadsOf
<1> HIDE DEF F, U, q, ns, d
<1>6. F \o Unread(q) = Payload(ns)
  <2>1. (F \o U) \o d = F \o (U \o d)
    BY <1>1, BytesConcat, Zenon
  <2> QED BY <1>2, <1>3, <1>4, <2>1
<1>7. ASSUME NEW e \in Cuts(ns)
      PROVE  (e <= Len(F) \/ e - Len(F) \in Marks(q)) /\ NotStraddled(rs, e)
  <2>1. CASE e \in Cuts(ms)
    BY <1>2, <1>5, <2>1
  <2>2. CASE m.flags = "EOS" /\ e = Len(Payload(ns))
    <3>1. Len(F) \in Nat /\ Len(Unread(q)) \in Nat /\ e = Len(F) + Len(Unread(q))
      BY <1>1, <1>6, <2>2, ConcatProperties, LenProperties
    <3>2. e \in Nat /\ e >= Len(F) /\ e - Len(F) = Len(Unread(q))
      BY <3>1
    <3>3. NotStraddled(rs, e)
      BY <3>2, BehindAll DEF F
    <3> QED BY <1>2, <2>2, <3>2, <3>3
  <2> QED BY <1>3, <2>1, <2>2
<1> QED BY <1>6, <1>7 DEF ReadsOf, F, q, ns

\* A FIN with the expected number is counted, and brings nothing.
LEMMA ReadsFin ==
  ASSUME NEW b \in Seq(Cell), NEW ms \in Seq(Message), NEW rs \in Seq(Seq(Byte)),
         ReadsOf(b, ms, rs), NEW m \in Message, m.flags = "FIN", m.data = << >>
  PROVE  ReadsOf(b, Append(ms, m), rs)
<1>1. Payload(Append(ms, m)) = Payload(ms) /\ Cuts(Append(ms, m)) = Cuts(ms)
  BY PayloadAppend, PayloadType, ConcatEmptySeq, CutsAppend
<1> QED BY <1>1 DEF ReadsOf

\* recv() returns.
LEMMA ReadsRead ==
  ASSUME NEW b \in Seq(Cell), NEW ms \in Seq(Message), NEW rs \in Seq(Seq(Byte)),
         ReadsOf(b, ms, rs), NEW n \in Nat \ {0}
  PROVE  ReadsOf(IF NoBytes(b) THEN b ELSE AfterRead(b, n), ms,
                 Append(rs, IF NoBytes(b) THEN << >> ELSE ReadBytes(b, n)))
<1> DEFINE F == FlattenSeq(rs)
           c == IF NoBytes(b) THEN b ELSE AfterRead(b, n)
           r == IF NoBytes(b) THEN << >> ELSE ReadBytes(b, n)
<1>1. /\ F \in Seq(Byte) /\ Unread(b) \in Seq(Byte) /\ r \in Seq(Byte) /\ c \in Seq(Cell)
      /\ Unread(c) \in Seq(Byte)
  <2>1. r \in Seq(Byte) /\ c \in Seq(Cell)
    BY ReadTypes, EmptySeq
  <2> QED BY <2>1, FlattenType, UnreadType
<1>2. Unread(b) = r \o Unread(c)
  <2>1. CASE NoBytes(b)
    BY <2>1, UnreadType, ConcatEmptySeq
  <2>2. CASE ~NoBytes(b)
    BY <2>2, ReadSplits
  <2> QED BY <2>1, <2>2
<1>3. ASSUME NEW e \in Marks(b)
      PROVE  e \in Nat /\ (e = 0 \/ e = Len(r) \/ (e >= Len(r) /\ e - Len(r) \in Marks(c)))
  <2>1. e \in Nat
    BY MarksType
  <2>2. CASE NoBytes(b)
    <3>1. Len(r) = 0 /\ c = b
      BY <2>2, EmptySeq
    <3>2. e - Len(r) = e /\ e >= Len(r)
      BY <2>1, <3>1
    <3> HIDE DEF c, r
    <3> QED BY <1>3, <2>1, <3>1, <3>2
  <2>3. CASE ~NoBytes(b)
    BY <2>1, <2>3, ReadKeepsMarks
  <2> QED BY <2>2, <2>3
<1>4. F \o Unread(b) = Payload(ms)
  BY DEF ReadsOf
<1>5. \A e \in Cuts(ms) : (e <= Len(F) \/ e - Len(F) \in Marks(b)) /\ NotStraddled(rs, e)
  BY DEF ReadsOf
<1> HIDE DEF F, c, r
<1>6. FlattenSeq(Append(rs, r)) = F \o r
  BY <1>1, FlattenAppend DEF F
<1>7. (F \o r) \o Unread(c) = Payload(ms)
  <2>1. (F \o r) \o Unread(c) = F \o (r \o Unread(c))
    BY <1>1, BytesConcat, Zenon
  <2> QED BY <1>2, <1>4, <2>1
<1>8. Len(F) \in Nat /\ Len(r) \in Nat /\ Len(F \o r) = Len(F) + Len(r)
  BY <1>1, ConcatProperties, LenProperties
<1>9. ASSUME NEW e \in Cuts(ms)
      PROVE  /\ e <= Len(F \o r) \/ e - Len(F \o r) \in Marks(c)
             /\ NotStraddled(Append(rs, r), e)
  <2>1. e \in Nat
    <3>1. Cuts(ms) \subseteq Nat
      BY CutsAppend, MessageTypes
    <3> QED BY <1>9, <3>1
  <2>2. e <= Len(F) \/ (e >= Len(F \o r) /\ (e = Len(F \o r) \/ e - Len(F \o r) \in Marks(c)))
    <3>1. CASE e <= Len(F)
      BY <3>1
    <3>2. CASE ~(e <= Len(F))
      <4>1. e - Len(F) \in Marks(b) /\ e - Len(F) # 0
        BY <1>5, <1>8, <1>9, <2>1, <3>2
      <4> DEFINE x == e - Len(F)
      <4>2. x = Len(r) \/ (x >= Len(r) /\ x - Len(r) \in Marks(c))
        BY <1>3, <4>1
      <4>3. x - Len(r) = e - Len(F \o r)
        BY <1>8, <2>1
      <4> QED BY <1>8, <2>1, <4>2, <4>3
    <3> QED BY <3>1, <3>2
  <2>3. NotStraddled(Append(rs, r), e)
    BY <1>1, <1>5, <1>6, <2>1, <2>2, StraddleAppend DEF F
  <2> QED BY <1>8, <2>1, <2>2, <2>3
<1> QED BY <1>6, <1>7, <1>9 DEF ReadsOf, c, r

-----------------------------------------------------------------------------
(* What a step does *)

\* Only a data message brings bytes.
Plain(m) == m.flags # "NONE" => m.data = << >>

\* The queues: at most one datagram is taken out, then nothing is sent, or one
\* message, or FINs by a socket that closes.
InboxEffect(s) ==
  \E box \in {inbox} \cup {Without(s, i) : i \in DOMAIN inbox[s]} :
    \/ inbox' = box /\ isClosing' = isClosing
    \/ \E m \in Message, fate \in Fate :
         Plain(m) /\ inbox' = Rawsend(box, s, m, fate) /\ isClosing' = isClosing
    \/ \E fate \in Fate :
         inbox' = FinBurst(box, s, fate) /\ isClosing' = [isClosing EXCEPT ![s] = TRUE]

\* The function the socket waits in: an open one if it is recv() or acksend().
PlaceEffect(s) ==
  /\ \A t \in Socket \ {s} : pc'[t] = pc[t]
  /\ pc'[s] \in {"recv", "acksend"} => ~isClosing'[s]

\* The buffer: recv() queues a message, or it returns.
Queueing(s, m) ==
  /\ Plain(m)
  /\ buffer' = [buffer EXCEPT ![s] = QueueMessage(@, m)]
  /\ accepted' = [accepted EXCEPT ![s] = Append(@, m)]
  /\ UNCHANGED returned
  /\ ~isClosing[s]

Returning(s) ==
  /\ script[s] # << >> /\ Head(script[s]).op = "recv"
  /\ ReturnRead(s)
  /\ \/ UNCHANGED accepted
     \/ \E m \in Message : /\ m.flags = "FIN" /\ m.data = << >>
                           /\ accepted' = [accepted EXCEPT ![s] = Append(@, m)]
  /\ isClosing'[s] \/ ~NoBytes(buffer[s])

ReadEffect(s) ==
  UNCHANGED <<buffer, accepted, returned>> \/ Returning(s) \/ \E m \in Message : Queueing(s, m)

\* The calls and what is sent: send() begins, goes on, is done; another call ends;
\* or the socket is closed and sends no more.
Sending(s) ==
  \/ \E fate \in Fate : CallSend(s, fate)
  \/ \E i \in DOMAIN inbox[s], fate \in Fate : AcksendNext(s, i, fate)

Ending(s) ==
  /\ script[s] # << >> /\ script' = [script EXCEPT ![s] = Tail(@)]
  /\ UNCHANGED offered /\ (\A t \in Socket \ {s} : unsent'[t] = unsent[t])
  /\ pc'[s] # "acksend"
  /\ \/ isClosing'[s]
     \/ pc[s] = "acksend" /\ unsent[s] = << >> /\ Head(script[s]).op = "send"
     \/ pc[s] # "acksend" /\ Head(script[s]).op # "send"

SendEffect(s) ==
  \/ UNCHANGED <<script, offered, unsent>> /\ (pc'[s] = "acksend" <=> pc[s] = "acksend")
  \/ Sending(s) \/ Ending(s)

Effects(s) == InboxEffect(s) /\ PlaceEffect(s) /\ ReadEffect(s) /\ SendEffect(s)

\* What send() and recv() send is plain.
LEMMA PlainMessages ==
  /\ \A n \in Seqnum : \A flag \in Flag : Plain(ControlMsg(n, flag)) /\ ControlMsg(n, flag) \in Message
  /\ \A n \in Seqnum : \A rest \in Seq(Byte) : Plain(MsgFor(n, rest)) /\ MsgFor(n, rest) \in Message
BY MessageTypes DEF Plain, ControlMsg, MsgFor, DataMsg

\* The three ways in which the queues change.
LEMMA InboxCases ==
  ASSUME NEW s \in Socket, NEW box \in {inbox} \cup {Without(s, i) : i \in DOMAIN inbox[s]}
  PROVE  /\ inbox' = box /\ isClosing' = isClosing => InboxEffect(s)
         /\ \A m \in Message, fate \in Fate :
              Plain(m) /\ inbox' = Rawsend(box, s, m, fate) /\ isClosing' = isClosing
                => InboxEffect(s)
         /\ \A fate \in Fate :
              inbox' = FinBurst(box, s, fate) /\ isClosing' = [isClosing EXCEPT ![s] = TRUE]
                => InboxEffect(s)
BY DEF InboxEffect

\* A step of send() or acksend().
LEMMA SendStepEffects ==
  ASSUME TypeInv, ClosedIsDeaf, NEW s \in Socket, NEW fate \in Fate, SendStep(s, fate)
  PROVE  Effects(s)
<1> USE DEF TypeInv
<1>1. CASE CallSend(s, fate)
  <2>1. 0 \in Seqnum /\ Head(script[s]).data \in Seq(Byte)
    BY <1>1, CallTypes, MsgAssumption DEF TypeOK, CallSend, Calls, Seqnum
  <2>2. InboxEffect(s)
    BY <1>1, <2>1, PlainMessages, InboxCases DEF CallSend, StartAcksend
  <2>3. PlaceEffect(s) /\ ReadEffect(s)
    BY <1>1 DEF CallSend, PlaceEffect, ReadEffect, recvVars, TypeOK
  <2>4. SendEffect(s)
    BY <1>1 DEF SendEffect, Sending
  <2> QED BY <2>2, <2>3, <2>4 DEF Effects
<1>2. CASE AcksendTimeout(s, fate)
  <2>1. Current(s) \in Message /\ Plain(Current(s))
    BY PlainMessages DEF Current, TypeOK
  <2>2. InboxEffect(s)
    BY <1>2, <2>1, InboxCases DEF AcksendTimeout
  <2>3. PlaceEffect(s) /\ ReadEffect(s) /\ SendEffect(s)
    BY <1>2 DEF AcksendTimeout, TimesOut, PlaceEffect, ReadEffect, SendEffect, sendVars, recvVars,
                ClosedIsDeaf
  <2> QED BY <2>2, <2>3 DEF Effects
<1>3. ASSUME NEW i \in DOMAIN inbox[s], AcksendAgain(s, i, fate)
      PROVE  Effects(s)
  <2>1. Current(s) \in Message /\ Plain(Current(s))
    BY PlainMessages DEF Current, TypeOK
  <2>2. InboxEffect(s)
    BY <1>3, <2>1, InboxCases DEF AcksendAgain
  <2>3. PlaceEffect(s) /\ ReadEffect(s) /\ SendEffect(s)
    BY <1>3 DEF AcksendAgain, PlaceEffect, ReadEffect, SendEffect, sendVars, recvVars, ClosedIsDeaf
  <2> QED BY <2>2, <2>3 DEF Effects
<1>4. ASSUME NEW i \in DOMAIN inbox[s], AcksendNext(s, i, fate)
      PROVE  Effects(s)
  <2>1. Succ(sendSeqnum[s]) \in Seqnum /\ Rest(unsent[s]) \in Seq(Byte)
    BY SeqnumStep, ChunkTypes DEF TypeOK
  <2>2. InboxEffect(s)
    BY <1>4, <2>1, PlainMessages, InboxCases DEF AcksendNext, StartAcksend
  <2>3. PlaceEffect(s) /\ ReadEffect(s)
    BY <1>4 DEF AcksendNext, PlaceEffect, ReadEffect, recvVars, ClosedIsDeaf
  <2>4. SendEffect(s)
    BY <1>4 DEF SendEffect, Sending
  <2> QED BY <2>2, <2>3, <2>4 DEF Effects
<1> QED BY <1>1, <1>2, <1>3, <1>4 DEF SendStep

\* What arrives at an open socket is a message.
LEMMA ArrivesOpen ==
  ASSUME TypeInv, ClosedIsDeaf, PayloadIsData, NEW s \in Socket, NEW i \in DOMAIN inbox[s]
  PROVE  ~isClosing[s] /\ inbox[s][i].msg \in Message /\ Plain(inbox[s][i].msg)
<1>1. /\ inbox[s] # << >> /\ i \in 1 .. Len(inbox[s])
  BY LenProperties, EmptySeq DEF TypeInv, TypeOK
<1>2. inbox[s][i].msg \in Message
  BY ArrivalTypes DEF TypeInv, TypeOK, Queues, Datagram
<1> QED BY <1>1, <1>2 DEF ClosedIsDeaf, PayloadIsData, Plain

\* A step of recv() or finalizeRecv() that answers.
LEMMA AnswerStepEffects ==
  ASSUME TypeInv, ClosedIsDeaf, PayloadIsData, NEW s \in Socket, NEW fate \in Fate,
         AnswerStep(s, fate)
  PROVE  Effects(s)
<1> USE DEF TypeInv
<1>1. ASSUME NEW i \in DOMAIN inbox[s], NEW n \in Seqnum, Acknowledge(s, i, n, fate),
             isClosing' = isClosing, pc[s] = "recv"
      PROVE  InboxEffect(s) /\ PlaceEffect(s) /\ pc'[s] # "acksend"
  <2>1. InboxEffect(s)
    BY <1>1, PlainMessages, InboxCases DEF Acknowledge, Flag
  <2>2. pc' = pc \/ pc' = [pc EXCEPT ![s] = "finalize"]
    BY <1>1 DEF Acknowledge
  <2>3. PlaceEffect(s) /\ pc'[s] # "acksend"
    BY <1>1, <2>2, ArrivesOpen DEF PlaceEffect, TypeOK
  <2> QED BY <2>1, <2>3
<1>2. ASSUME NEW i \in DOMAIN inbox[s], RecvAccept(s, i, fate)
      PROVE  Effects(s)
  <2>1. InboxEffect(s) /\ PlaceEffect(s) /\ pc'[s] # "acksend"
    BY <1>1, <1>2 DEF RecvAccept, TypeOK
  <2>2. Queueing(s, inbox[s][i].msg)
    BY <1>2, ArrivesOpen DEF RecvAccept, Queueing
  <2>3. ReadEffect(s)
    BY <2>2, ArrivesOpen DEF ReadEffect
  <2>4. SendEffect(s)
    BY <1>2, <2>1 DEF RecvAccept, SendEffect, sendVars
  <2> QED BY <2>1, <2>3, <2>4 DEF Effects
<1>3. ASSUME NEW i \in DOMAIN inbox[s], RecvReject(s, i, fate)
      PROVE  Effects(s)
  <2>1. InboxEffect(s) /\ PlaceEffect(s) /\ pc'[s] # "acksend"
    <3>1. Pred(recvSeqnum[s]) \in Seqnum
      BY SeqnumStep DEF TypeOK
    <3> QED BY <1>1, <1>3, <3>1 DEF RecvReject
  <2>2. ReadEffect(s) /\ SendEffect(s)
    BY <1>3, <2>1 DEF RecvReject, ReadEffect, SendEffect, sendVars
  <2> QED BY <2>1, <2>2 DEF Effects
<1>4. ASSUME NEW i \in DOMAIN inbox[s], FinalizeAnswer(s, i, fate)
      PROVE  Effects(s)
  <2>1. InboxEffect(s)
    BY <1>4, PlainMessages, InboxCases DEF FinalizeAnswer, TypeOK, Flag
  <2>2. PlaceEffect(s) /\ ReadEffect(s) /\ SendEffect(s)
    BY <1>4 DEF FinalizeAnswer, PlaceEffect, ReadEffect, SendEffect, sendVars, recvVars
  <2> QED BY <2>1, <2>2 DEF Effects
<1> QED BY <1>2, <1>3, <1>4 DEF AnswerStep

\* A step that closes the socket.
LEMMA CloseStepEffects ==
  ASSUME TypeInv, ClosedIsDeaf, PayloadIsData, NEW s \in Socket, NEW fate \in Fate,
         CloseStep(s, fate)
  PROVE  Effects(s)
<1> USE DEF TypeInv
<1>1. CASE CallClose(s, fate)
  <2>1. InboxEffect(s)
    BY <1>1, InboxCases DEF CallClose
  <2>2. PlaceEffect(s) /\ ReadEffect(s) /\ SendEffect(s)
    BY <1>1 DEF CallClose, Calls, PlaceEffect, ReadEffect, SendEffect, Ending, sendVars, recvVars,
                TypeOK
  <2> QED BY <2>1, <2>2 DEF Effects
<1>2. ASSUME NEW i \in DOMAIN inbox[s], AcksendFin(s, i, fate)
      PROVE  Effects(s)
  <2>1. InboxEffect(s)
    BY <1>2, InboxCases DEF AcksendFin
  <2>2. PlaceEffect(s) /\ ReadEffect(s) /\ SendEffect(s)
    BY <1>2 DEF AcksendFin, Return, InCall, PlaceEffect, ReadEffect, SendEffect, Ending, recvVars,
                TypeOK
  <2> QED BY <2>1, <2>2 DEF Effects
<1>3. ASSUME NEW i \in DOMAIN inbox[s], RecvFin(s, i, fate)
      PROVE  Effects(s)
  <2>1. InboxEffect(s)
    BY <1>3, InboxCases DEF RecvFin
  <2>2. script[s] # << >> /\ Head(script[s]).op = "recv" /\ isClosing'[s]
    BY <1>3 DEF RecvFin, InCall, TypeOK
  <2>3. ReturnRead(s) /\ (UNCHANGED accepted \/ accepted' = [accepted EXCEPT ![s] = Append(@, inbox[s][i].msg)])
    BY <1>3 DEF RecvFin
  <2>4. inbox[s][i].msg.flags = "FIN" /\ inbox[s][i].msg.data = << >> /\ inbox[s][i].msg \in Message
    BY <1>3, ArrivesOpen DEF RecvFin, HasFlag, Plain
  <2>5. ReadEffect(s)
    BY <2>2, <2>3, <2>4 DEF ReadEffect, Returning
  <2>6. PlaceEffect(s) /\ SendEffect(s)
    BY <1>3, <2>2 DEF RecvFin, ReturnRead, Return, PlaceEffect, SendEffect, Ending, sendVars, TypeOK
  <2> QED BY <2>1, <2>5, <2>6 DEF Effects
<1>4. ASSUME NEW i \in DOMAIN inbox[s], FinalizeFin(s, i, fate)
      PROVE  Effects(s)
  <2>1. InboxEffect(s)
    BY <1>4, InboxCases DEF FinalizeFin
  <2>2. PlaceEffect(s) /\ ReadEffect(s) /\ SendEffect(s)
    BY <1>4 DEF FinalizeFin, PlaceEffect, ReadEffect, SendEffect, sendVars, recvVars
  <2> QED BY <2>1, <2>2 DEF Effects
<1> QED BY <1>1, <1>2, <1>3, <1>4 DEF CloseStep

\* Leaving finalizeRecv() either returns from recv() or starts over.
LEMMA LeaveFinalizeEffects ==
  ASSUME TypeInv, NEW s \in Socket, ~isClosing[s], pc[s] = "finalize", LeaveFinalize(s)
  PROVE  PlaceEffect(s) /\ ReadEffect(s) /\ SendEffect(s)
<1> USE DEF TypeInv
<1>1. script[s] # << >> /\ Head(script[s]).op = "recv"
  BY DEF InCall
<1>2. CASE NoBytes(buffer[s])
  BY <1>2 DEF LeaveFinalize, PlaceEffect, ReadEffect, SendEffect, sendVars, TypeOK
<1>3. CASE ~NoBytes(buffer[s])
  <2>1. ReturnRead(s) /\ UNCHANGED <<accepted, sendVars, isClosing>>
    BY <1>3 DEF LeaveFinalize
  <2>2. ReadEffect(s)
    BY <1>1, <1>3, <2>1 DEF ReadEffect, Returning
  <2>3. PlaceEffect(s) /\ SendEffect(s)
    BY <1>1, <2>1 DEF ReturnRead, Return, PlaceEffect, SendEffect, Ending, sendVars, TypeOK
  <2> QED BY <2>2, <2>3
<1> QED BY <1>2, <1>3

\* A step that sends nothing.
LEMMA SilentStepEffects ==
  ASSUME TypeInv, ClosedIsDeaf, PayloadIsData, NEW s \in Socket, SilentStep(s)
  PROVE  Effects(s)
<1> USE DEF TypeInv
<1>1. CASE SendOnClosing(s)
  <2>1. InboxEffect(s)
    BY <1>1, InboxCases DEF SendOnClosing
  <2>2. PlaceEffect(s) /\ ReadEffect(s) /\ SendEffect(s)
    BY <1>1 DEF SendOnClosing, Calls, Return, PlaceEffect, ReadEffect, SendEffect, Ending, recvVars,
                TypeOK
  <2> QED BY <2>1, <2>2 DEF Effects
<1>2. CASE CallRecv(s)
  <2>1. InboxEffect(s)
    BY <1>2, InboxCases DEF CallRecv
  <2>2. PlaceEffect(s) /\ ReadEffect(s) /\ SendEffect(s)
    BY <1>2 DEF CallRecv, Calls, PlaceEffect, ReadEffect, SendEffect, sendVars, TypeOK
  <2> QED BY <2>1, <2>2 DEF Effects
<1>3. CASE RecvOnClosing(s)
  <2>1. InboxEffect(s)
    BY <1>3, InboxCases DEF RecvOnClosing
  <2>2. ReadEffect(s)
    BY <1>3 DEF RecvOnClosing, Calls, ReadEffect, Returning
  <2>3. PlaceEffect(s) /\ SendEffect(s)
    BY <1>3 DEF RecvOnClosing, Calls, ReturnRead, Return, PlaceEffect, SendEffect, Ending, sendVars,
                TypeOK
  <2> QED BY <2>1, <2>2, <2>3 DEF Effects
<1>4. CASE RecvTimeout(s)
  <2>1. InboxEffect(s)
    BY <1>4, InboxCases DEF RecvTimeout
  <2>2. PlaceEffect(s) /\ ReadEffect(s) /\ SendEffect(s)
    BY <1>4 DEF RecvTimeout, TimesOut, PlaceEffect, ReadEffect, SendEffect, sendVars, recvVars
  <2> QED BY <2>1, <2>2 DEF Effects
<1>5. CASE FinalizeTimeout(s)
  <2>1. InboxEffect(s)
    BY <1>5, InboxCases DEF FinalizeTimeout, LeaveFinalize
  <2>2. PlaceEffect(s) /\ ReadEffect(s) /\ SendEffect(s)
    BY <1>5, LeaveFinalizeEffects DEF FinalizeTimeout, TimesOut
  <2> QED BY <2>1, <2>2 DEF Effects
<1>6. CASE FinalizeSpin(s)
  <2>1. InboxEffect(s)
    BY <1>6, InboxCases DEF FinalizeSpin, vars
  <2>2. PlaceEffect(s) /\ ReadEffect(s) /\ SendEffect(s)
    BY <1>6 DEF FinalizeSpin, vars, PlaceEffect, ReadEffect, SendEffect, sendVars, recvVars
  <2> QED BY <2>1, <2>2 DEF Effects
<1>7. ASSUME NEW i \in DOMAIN inbox[s], AcksendDone(s, i)
      PROVE  Effects(s)
  <2>1. InboxEffect(s)
    BY <1>7, InboxCases DEF AcksendDone
  <2>2. PlaceEffect(s) /\ ReadEffect(s) /\ SendEffect(s)
    BY <1>7 DEF AcksendDone, Return, InCall, PlaceEffect, ReadEffect, SendEffect, Ending, recvVars,
                TypeOK
  <2> QED BY <2>1, <2>2 DEF Effects
<1>8. ASSUME NEW i \in DOMAIN inbox[s], RecvIgnore(s, i)
      PROVE  Effects(s)
  <2>1. InboxEffect(s)
    BY <1>8, InboxCases DEF RecvIgnore
  <2>2. PlaceEffect(s) /\ ReadEffect(s) /\ SendEffect(s)
    BY <1>8, ArrivesOpen DEF RecvIgnore, PlaceEffect, ReadEffect, SendEffect, sendVars, recvVars
  <2> QED BY <2>1, <2>2 DEF Effects
<1>9. ASSUME NEW i \in DOMAIN inbox[s], FinalizeLeave(s, i)
      PROVE  Effects(s)
  <2>1. InboxEffect(s)
    BY <1>9, InboxCases DEF FinalizeLeave, LeaveFinalize
  <2>2. PlaceEffect(s) /\ ReadEffect(s) /\ SendEffect(s)
    BY <1>9, ArrivesOpen, LeaveFinalizeEffects DEF FinalizeLeave
  <2> QED BY <2>1, <2>2 DEF Effects
<1> QED
  BY <1>1, <1>2, <1>3, <1>4, <1>5, <1>6, <1>7, <1>8, <1>9 DEF SilentStep

\* So every step is one of these.
LEMMA StepEffects ==
  ASSUME TypeInv, ClosedIsDeaf, PayloadIsData, NEW s \in Socket, Step(s)
  PROVE  Effects(s)
BY SilentStepEffects, SendStepEffects, AnswerStepEffects, CloseStepEffects DEF Step

-----------------------------------------------------------------------------
(* The queues *)

\* Queues of plain messages, none of them at a closed socket.
PlainDatagram == {d \in Datagram : Plain(d.msg)}
PlainQueues   == [Socket -> Seq(PlainDatagram)]
QuietQueues(box) ==
  box \in PlainQueues /\ \A t \in Socket : isClosing[t] => box[t] = << >>

\* This is what the invariant says of them.
LEMMA QuietInbox ==
  ASSUME TypeInv
  PROVE  QuietQueues(inbox) <=> PayloadIsData /\ \A t \in Socket : isClosing[t] => inbox[t] = << >>
<1>1. /\ inbox \in [Socket -> Seq(Datagram)]
      /\ \A t \in Socket : Len(inbox[t]) \in Nat /\ \A j \in 1 .. Len(inbox[t]) : inbox[t][j] \in Datagram
  BY LenProperties, ElementOfSeq DEF TypeInv, TypeOK
<1>2. ASSUME inbox \in PlainQueues, NEW t \in Socket, NEW j \in 1 .. Len(inbox[t])
      PROVE  Plain(inbox[t][j].msg)
  <2>1. inbox[t][j] \in PlainDatagram
    BY <1>2, ElementOfSeq DEF PlainQueues
  <2> QED BY <2>1 DEF PlainDatagram
<1>3. ASSUME \A t \in Socket : \A j \in 1 .. Len(inbox[t]) : Plain(inbox[t][j].msg)
      PROVE  inbox \in PlainQueues
  <2>1. ASSUME NEW t \in Socket  PROVE inbox[t] \in Seq(PlainDatagram)
    <3>1. inbox[t] \in [1 .. Len(inbox[t]) -> Datagram]
      BY <1>1, SeqDef, LenProperties, ElementOfSeq
    <3>2. inbox[t] \in [1 .. Len(inbox[t]) -> PlainDatagram]
      BY <1>1, <1>3, <3>1 DEF PlainDatagram
    <3> QED BY <1>1, <3>2, FunctionIsSeq
  <2> QED BY <1>1, <2>1 DEF PlainQueues
<1> QED BY <1>2, <1>3 DEF QuietQueues, PayloadIsData, Plain

\* Receiving a datagram keeps them so,
LEMMA QuietWithout ==
  ASSUME QuietQueues(inbox), NEW s \in Socket, NEW i \in DOMAIN inbox[s]
  PROVE  QuietQueues(Without(s, i))
<1>1. /\ inbox[s] \in Seq(PlainDatagram) /\ DOMAIN inbox[s] = 1 .. Len(inbox[s])
      /\ Len(inbox[s]) \in Nat
      /\ \A k \in 1 .. Len(inbox[s]) : inbox[s][k] \in PlainDatagram
  BY LenProperties, ElementOfSeq DEF QuietQueues, PlainQueues
<1>2. /\ SubSeq(inbox[s], 1, i - 1) \in Seq(PlainDatagram)
      /\ SubSeq(inbox[s], i + 1, Len(inbox[s])) \in Seq(PlainDatagram)
  BY <1>1, SubSeqProperties
<1>3. RemoveAt(inbox[s], i) \in Seq(PlainDatagram)
  BY <1>2, ConcatProperties DEF RemoveAt
<1>4. ~isClosing[s]
  BY <1>1, EmptySeq DEF QuietQueues
<1> QED BY <1>3, <1>4 DEF QuietQueues, PlainQueues, Without

\* and so does sending, whatever becomes of the message,
LEMMA QuietRawsend ==
  ASSUME NEW box, QuietQueues(box), NEW s \in Socket, NEW m \in Message, Plain(m),
         NEW fate \in Fate
  PROVE  QuietQueues(Rawsend(box, s, m, fate))
<1> DEFINE d == [from |-> s, form |-> Received(m, fate).form, msg |-> Received(m, fate).msg]
<1>1. d \in PlainDatagram
  <2>1. d \in Datagram
    BY ReceivedTypes DEF Datagram
  <2>2. Plain(d.msg)
    BY DEF Received, BlankMsg, ControlMsg, Plain
  <2> QED BY <2>1, <2>2 DEF PlainDatagram
<1> HIDE DEF d
<1>2. \A to \in Socket : Append(box[to], d) \in Seq(PlainDatagram)
  BY <1>1, AppendProperties DEF QuietQueues, PlainQueues
<1>3. QuietQueues(Deliver(box, endPoint'[s], d))
  BY <1>2 DEF Deliver, QuietQueues, PlainQueues
<1> QED BY <1>3 DEF Rawsend, d

\* and closing.
LEMMA QuietFinBurst ==
  ASSUME NEW box, QuietQueues(box), NEW s \in Socket, NEW fate \in Fate
  PROVE  QuietQueues(FinBurst(box, s, fate)) /\ FinBurst(box, s, fate)[s] = << >>
<1>1. "intact" \in Fate /\ Fin \in Message /\ Plain(Fin)
  BY MessageTypes DEF Fate, Fin, ControlMsg, Plain
<1>2. QuietQueues(Rawsend(Rawsend(box, s, Fin, fate), s, Fin, "intact"))
  BY <1>1, QuietRawsend
<1> QED BY <1>2, EmptySeq DEF FinBurst, QuietQueues, PlainQueues

\* Every step keeps PayloadIsData and ClosedIsDeaf.
LEMMA QueuesStay ==
  ASSUME TypeInv, TypeInv', PayloadIsData, ClosedIsDeaf, NEW s \in Socket,
         InboxEffect(s), PlaceEffect(s)
  PROVE  PayloadIsData' /\ ClosedIsDeaf' /\ \A t \in Socket : isClosing[t] => isClosing'[t]
<1>1. QuietQueues(inbox)
  BY QuietInbox DEF ClosedIsDeaf
<1>2. PICK box \in {inbox} \cup {Without(s, i) : i \in DOMAIN inbox[s]} :
        \/ inbox' = box /\ isClosing' = isClosing
        \/ \E m \in Message, fate \in Fate :
             Plain(m) /\ inbox' = Rawsend(box, s, m, fate) /\ isClosing' = isClosing
        \/ \E fate \in Fate :
             inbox' = FinBurst(box, s, fate) /\ isClosing' = [isClosing EXCEPT ![s] = TRUE]
  BY DEF InboxEffect
<1>3. QuietQueues(box)
  BY <1>1, <1>2, QuietWithout
<1>4. /\ inbox' \in PlainQueues
      /\ \A t \in Socket : isClosing'[t] => inbox'[t] = << >>
      /\ \A t \in Socket : isClosing'[t] # isClosing[t] => t = s /\ isClosing'[s]
  <2>1. isClosing \in [Socket -> BOOLEAN]
    BY DEF TypeInv, TypeOK
  <2>2. CASE inbox' = box /\ isClosing' = isClosing
    BY <1>3, <2>2 DEF QuietQueues
  <2>3. CASE \E m \in Message, fate \in Fate :
               Plain(m) /\ inbox' = Rawsend(box, s, m, fate) /\ isClosing' = isClosing
    BY <1>3, <2>3, QuietRawsend DEF QuietQueues
  <2>4. CASE \E fate \in Fate :
               inbox' = FinBurst(box, s, fate) /\ isClosing' = [isClosing EXCEPT ![s] = TRUE]
    <3>1. PICK fate \in Fate :
            inbox' = FinBurst(box, s, fate) /\ isClosing' = [isClosing EXCEPT ![s] = TRUE]
      BY <2>4
    <3>2. QuietQueues(inbox') /\ inbox'[s] = << >>
      BY <1>3, <3>1, QuietFinBurst
    <3> QED BY <2>1, <3>1, <3>2 DEF QuietQueues
  <2> QED BY <1>2, <2>2, <2>3, <2>4
<1>5. PayloadIsData'
  <2>1. ASSUME NEW t \in Socket, NEW j \in 1 .. Len(inbox'[t])
        PROVE  Plain(inbox'[t][j].msg)
    <3>1. inbox'[t][j] \in PlainDatagram
      BY <1>4, ElementOfSeq DEF PlainQueues
    <3> QED BY <3>1 DEF PlainDatagram
  <2> QED BY <2>1 DEF PayloadIsData, Plain
<1>6. ASSUME NEW t \in Socket, isClosing'[t]  PROVE pc'[t] \notin {"recv", "acksend"}
  BY <1>4, <1>6 DEF PlaceEffect, ClosedIsDeaf
<1>7. \A t \in Socket : isClosing[t] => isClosing'[t]
  BY <1>4 DEF TypeInv, TypeOK
<1> QED BY <1>4, <1>5, <1>6, <1>7 DEF ClosedIsDeaf

-----------------------------------------------------------------------------
(* The buffer *)

\* The invariant of one reader.
LEMMA ReadsOfAll ==
  NothingLost /\ MarksKept <=> \A t \in Socket : ReadsOf(buffer[t], accepted[t], returned[t])
BY DEF NothingLost, MarksKept, ReadsOf, BytesRead

\* Every step keeps NothingLost and MarksKept.
LEMMA ReadsStay ==
  ASSUME TypeInv, NothingLost, MarksKept, NEW s \in Socket, ReadEffect(s)
  PROVE  NothingLost' /\ MarksKept'
<1>1. \A t \in Socket : ReadsOf(buffer[t], accepted[t], returned[t])
  BY ReadsOfAll
<1>2. /\ buffer \in [Socket -> Seq(Cell)] /\ accepted \in [Socket -> Seq(Message)]
      /\ returned \in [Socket -> Seq(Seq(Byte))]
  BY DEF TypeInv, TypeOK
<1>3. ASSUME NEW t \in Socket  PROVE ReadsOf(buffer[t], accepted[t], returned[t])'
  <2>1. CASE UNCHANGED <<buffer, accepted, returned>>
    BY <1>1, <2>1
  <2>2. ASSUME NEW m \in Message, Queueing(s, m)
        PROVE  ReadsOf(buffer'[t], accepted'[t], returned'[t])
    BY <1>1, <1>2, <2>2, ReadsQueue DEF Queueing
  <2>3. CASE Returning(s)
    <3> DEFINE b  == buffer[s]
               n  == Head(script[s]).max
               rs == Append(returned[s], IF NoBytes(b) THEN << >> ELSE ReadBytes(b, n))
               c  == IF NoBytes(b) THEN b ELSE AfterRead(b, n)
    <3>1. n \in Nat \ {0}
      <4>1. Head(script[s]) \in Call
        BY <2>3, HeadTailProperties DEF Returning, TypeInv, TypeOK
      <4> QED BY <2>3, <4>1 DEF Returning, Call
    <3>2. ReadsOf(c, accepted[s], rs)
      BY <1>1, <1>2, <3>1, ReadsRead
    <3>3. c \in Seq(Cell) /\ rs \in Seq(Seq(Byte))
      BY <1>2, <3>1, ReadSplits, ReadTypes, EmptySeq, AppendProperties
    <3>4. /\ buffer' = [buffer EXCEPT ![s] = c]
          /\ returned' = [returned EXCEPT ![s] = rs]
      BY <2>3 DEF Returning, ReturnRead
    <3> HIDE DEF c, rs
    <3>5. CASE UNCHANGED accepted
      BY <1>1, <1>2, <3>2, <3>4, <3>5
    <3>6. ASSUME NEW m \in Message, m.flags = "FIN", m.data = << >>,
                 accepted' = [accepted EXCEPT ![s] = Append(@, m)]
          PROVE  ReadsOf(buffer'[t], accepted'[t], returned'[t])
      <4>1. ReadsOf(c, Append(accepted[s], m), rs)
        BY <1>2, <3>2, <3>3, <3>6, ReadsFin
      <4> QED BY <1>1, <1>2, <3>4, <3>6, <4>1
    <3> QED BY <2>3, <3>5, <3>6 DEF Returning
  <2> QED BY <2>1, <2>2, <2>3 DEF ReadEffect
<1> QED BY <1>3 DEF NothingLost, MarksKept, ReadsOf, BytesRead

\* Every step keeps ZeroAtEnd.
LEMMA EndStays ==
  ASSUME TypeInv, ZeroAtEnd, NEW s \in Socket, ReadEffect(s),
         \A t \in Socket : isClosing[t] => isClosing'[t]
  PROVE  ZeroAtEnd'
<1>1. /\ buffer \in [Socket -> Seq(Cell)] /\ returned \in [Socket -> Seq(Seq(Byte))]
  BY DEF TypeInv, TypeOK
<1>2. CASE UNCHANGED <<buffer, returned>>
  BY <1>2 DEF ZeroAtEnd
<1>3. ASSUME NEW m \in Message, Queueing(s, m)  PROVE ZeroAtEnd'
  BY <1>1, <1>3 DEF Queueing, ZeroAtEnd
<1>4. CASE Returning(s)
  <2> DEFINE b  == buffer[s]
             n  == Head(script[s]).max
             r  == IF NoBytes(b) THEN << >> ELSE ReadBytes(b, n)
             c  == IF NoBytes(b) THEN b ELSE AfterRead(b, n)
  <2>1. n \in Nat \ {0}
    <3>1. Head(script[s]) \in Call
      BY <1>4, HeadTailProperties DEF Returning, TypeInv, TypeOK
    <3> QED BY <1>4, <3>1 DEF Returning, Call
  <2>2. r \in Seq(Byte) /\ (r = << >> => NoBytes(b) /\ c = b)
    BY <1>1, <2>1, ReadSplits, ReadTypes, EmptySeq
  <2>3. /\ buffer' = [buffer EXCEPT ![s] = c]
        /\ returned' = [returned EXCEPT ![s] = Append(@, r)]
    BY <1>4 DEF Returning, ReturnRead
  <2>4. isClosing'[s] \/ ~NoBytes(b)
    BY <1>4 DEF Returning
  <2>5. NoBytes(b) => c = b
    OBVIOUS
  <2> HIDE DEF c, r
  <2>6. Range(Append(returned[s], r)) = Range(returned[s]) \cup {r}
    <3>1. /\ returned[s] \in Seq(Seq(Byte)) /\ Len(returned[s]) \in Nat
          /\ Append(returned[s], r) \in Seq(Seq(Byte))
          /\ Len(Append(returned[s], r)) = Len(returned[s]) + 1
          /\ Append(returned[s], r)[Len(returned[s]) + 1] = r
          /\ \A k \in 1 .. Len(returned[s]) : Append(returned[s], r)[k] = returned[s][k]
      BY <1>1, <2>2, AppendProperties, LenProperties
    <3>2. DOMAIN returned[s] = 1 .. Len(returned[s])
      BY <3>1, LenProperties
    <3>3. DOMAIN Append(returned[s], r) = 1 .. Len(returned[s]) + 1
      BY <3>1, LenProperties
    <3> QED BY <3>1, <3>2, <3>3 DEF Range
  <2>7. ASSUME NEW t \in Socket, << >> \in Range(returned'[t])
        PROVE  isClosing'[t] /\ NoBytes(buffer'[t])
    <3>1. CASE t = s
      BY <1>1, <2>2, <2>3, <2>4, <2>5, <2>6, <2>7, <3>1 DEF ZeroAtEnd
    <3>2. CASE t # s
      BY <1>1, <2>3, <2>7, <3>2 DEF ZeroAtEnd
    <3> QED BY <3>1, <3>2
  <2> QED BY <2>7 DEF ZeroAtEnd
<1> QED BY <1>2, <1>3, <1>4 DEF ReadEffect

-----------------------------------------------------------------------------
(* The calls *)

\* The message acksend() is given and what is left are all of the bytes, and it is
\* the EOS when there are none.
LEMMA MsgForLength ==
  ASSUME NEW n \in Seqnum, NEW bytes \in Seq(Byte)
  PROVE  /\ Len(MsgFor(n, bytes).data) \in Nat /\ Len(Rest(bytes)) \in Nat
         /\ Len(MsgFor(n, bytes).data) + Len(Rest(bytes)) = Len(bytes)
         /\ bytes = << >> => MsgFor(n, bytes).flags = "EOS" /\ Len(Rest(bytes)) = 0
<1>1. Len(bytes) \in Nat /\ \A i \in 1 .. Len(bytes) : bytes[i] \in Byte
  BY LenProperties, ElementOfSeq
<1>2. ChunkLen(bytes) \in 0 .. Len(bytes)
  BY <1>1, MsgAssumption DEF ChunkLen
<1>3. Len(Chunk(bytes)) = ChunkLen(bytes)
  BY <1>1, <1>2, SubSeqProperties DEF Chunk
<1>4. Len(Rest(bytes)) = Len(bytes) - ChunkLen(bytes)
  BY <1>1, <1>2, SubSeqProperties DEF Rest
<1>5. CASE bytes = << >>
  <2>1. Len(bytes) = 0 /\ Len(<< >>) = 0
    BY <1>5, EmptySeq
  <2> QED BY <1>2, <1>4, <1>5, <2>1 DEF MsgFor, ControlMsg
<1>6. CASE bytes # << >>
  BY <1>1, <1>2, <1>3, <1>4, <1>6 DEF MsgFor, DataMsg
<1> QED BY <1>5, <1>6

\* Call by call what is sent grows by the argument.
LEMMA SentTypes ==
  ASSUME NEW t \in Socket
  PROVE  /\ Len(Script[t]) \in Nat /\ SentUpTo(t, 0) = 0
         /\ \A k \in 0 .. Len(Script[t]) : SentUpTo(t, k) \in Nat
         /\ \A i, j \in 0 .. Len(Script[t]) : i <= j => SentUpTo(t, i) <= SentUpTo(t, j)
         /\ \A k \in 0 .. Len(Script[t]) - 1 :
              SentUpTo(t, k + 1) = SentUpTo(t, k) + Len(Argument(Script[t][k + 1]))
<1> DEFINE ss == Sent(t)
           N  == Len(Script[t])
<1>1. /\ N \in Nat /\ DOMAIN Script[t] = 1 .. N
      /\ \A i \in 1 .. N : Script[t][i] \in Call
  BY LinkAssumption, LenProperties, ElementOfSeq
<1>2. \A call \in Call : Argument(call) \in Seq(Byte)
  BY EmptySeq DEF Call, Argument
<1>3. ss \in [1 .. N -> Seq(Byte)] /\ \A i \in 1 .. N : ss[i] = Argument(Script[t][i])
  BY <1>1, <1>2 DEF Sent
<1>4. ss \in Seq(Seq(Byte)) /\ Len(ss) = N
  BY <1>1, <1>3, FunctionIsSeq
<1> HIDE DEF ss, N
<1>5. \A i, j \in 0 .. N : i <= j =>
        /\ Len(FlattenSeq(SubSeq(ss, 1, i))) \in Nat
        /\ Len(FlattenSeq(SubSeq(ss, 1, i))) <= Len(FlattenSeq(SubSeq(ss, 1, j)))
  BY <1>1, <1>4, FlattenPrefix
<1>6. Len(FlattenSeq(SubSeq(ss, 1, 0))) = 0
  <2>1. SubSeq(ss, 1, 0) = << >>
    BY SubSeqEmpty
  <2> QED BY <2>1, FlattenEmpty, EmptySeq
<1>7. ASSUME NEW k \in 0 .. N - 1
      PROVE  Len(FlattenSeq(SubSeq(ss, 1, k + 1)))
               = Len(FlattenSeq(SubSeq(ss, 1, k))) + Len(ss[k + 1])
  <2>1. /\ SubSeq(ss, 1, k) \in Seq(Seq(Byte)) /\ ss[k + 1] \in Seq(Byte)
        /\ SubSeq(ss, 1, k + 1) = Append(SubSeq(ss, 1, k), ss[k + 1])
    BY <1>1, <1>4, PrefixStep
  <2>2. FlattenSeq(SubSeq(ss, 1, k + 1)) = FlattenSeq(SubSeq(ss, 1, k)) \o ss[k + 1]
    BY <2>1, FlattenAppend
  <2>3. FlattenSeq(SubSeq(ss, 1, k)) \in Seq(Byte)
    BY <2>1, FlattenType
  <2> QED BY <2>1, <2>2, <2>3, ConcatProperties
<1>8. \A k \in 0 .. N - 1 : ss[k + 1] = Argument(Script[t][k + 1])
  BY <1>1, <1>3
<1>9. \A k \in 0 .. N : SentUpTo(t, k) = Len(FlattenSeq(SubSeq(ss, 1, k)))
  BY DEF SentUpTo, ss
<1>10. 0 \in 0 .. N /\ \A k \in 0 .. N - 1 : k \in 0 .. N /\ k + 1 \in 0 .. N
  BY <1>1
<1>11. \A k \in 0 .. N : SentUpTo(t, k) \in Nat
  BY <1>1, <1>5, <1>9
<1> QED BY <1>1, <1>5, <1>6, <1>7, <1>8, <1>9, <1>10, <1>11 DEF N

\* The current call, and what is left when it has returned.
LEMMA CurrentCall ==
  ASSUME TypeInv, CallsLeft, NEW t \in Socket
  PROVE  /\ CallsMade(t) \in 0 .. Len(Script[t])
         /\ script[t] # << >> =>
              /\ CallsMade(t) + 1 \in 1 .. Len(Script[t])
              /\ Head(script[t]) = Script[t][CallsMade(t) + 1]
              /\ Len(Tail(script[t])) = Len(script[t]) - 1
              /\ Tail(script[t]) = SubSeq(Script[t], CallsMade(t) + 2, Len(Script[t]))
<1> DEFINE all == Script[t]
           c   == CallsMade(t)
           N   == Len(Script[t])
<1>1. all \in Seq(Call) /\ script[t] \in Seq(Call)
  BY LinkAssumption DEF TypeInv, TypeOK
<1>2. N \in Nat /\ Len(script[t]) \in Nat /\ Len(all) = N
  BY <1>1, LenProperties
<1>3. Len(script[t]) <= N /\ script[t] = SubSeq(all, c + 1, N) /\ c = N - Len(script[t])
  BY Zenon DEF CallsLeft, CallsMade
<1> HIDE DEF all, c, N
<1>4. c \in 0 .. N
  BY <1>2, <1>3
<1>5. ASSUME script[t] # << >>
      PROVE  /\ c + 1 \in 1 .. N
             /\ Head(script[t]) = all[c + 1] /\ Len(Tail(script[t])) = Len(script[t]) - 1
             /\ Tail(script[t]) = SubSeq(all, c + 2, N)
  <2>1. Len(script[t]) # 0
    BY <1>1, <1>5, EmptySeq
  <2>2. c + 1 \in 1 .. Len(all) /\ N \in c + 1 .. Len(all) /\ (c + 1) + 1 = c + 2
    BY <1>2, <1>3, <1>4, <2>1
  <2>3. /\ Head(SubSeq(all, c + 1, N)) = all[c + 1]
        /\ Tail(SubSeq(all, c + 1, N)) = SubSeq(all, (c + 1) + 1, N)
    BY <1>1, <2>2, HeadTailOfSubSeq
  <2>4. Len(Tail(script[t])) = Len(script[t]) - 1
    BY <1>1, <1>5, HeadTailProperties
  <2> QED BY <1>2, <1>3, <2>2, <2>3, <2>4
<1> QED BY <1>4, <1>5 DEF all, c, N

\* The calls still to make remain the last ones of Script.
LEMMA CallsStay ==
  ASSUME TypeInv, CallsLeft, NEW s \in Socket, SendEffect(s)
  PROVE  CallsLeft'
<1>1. script \in [Socket -> Seq(Call)] /\ \A t \in Socket : Len(script[t]) \in Nat
  BY LenProperties DEF TypeInv, TypeOK
<1>2. \/ script' = script
      \/ script[s] # << >> /\ script' = [script EXCEPT ![s] = Tail(@)]
  BY DEF SendEffect, Sending, Ending, CallSend, AcksendNext
<1>3. ASSUME NEW t \in Socket, script'[t] = script[t]
      PROVE  /\ Len(script'[t]) <= Len(Script[t])
             /\ script'[t] = SubSeq(Script[t], (Len(Script[t]) - Len(script'[t])) + 1, Len(Script[t]))
  BY <1>3, Zenon DEF CallsLeft, CallsMade
<1>4. ASSUME script[s] # << >>, script'[s] = Tail(script[s])
      PROVE  /\ Len(script'[s]) <= Len(Script[s])
             /\ script'[s] = SubSeq(Script[s], (Len(Script[s]) - Len(script'[s])) + 1, Len(Script[s]))
  <2>1. /\ Len(Script[s]) \in Nat /\ Len(script[s]) <= Len(Script[s])
        /\ Len(Tail(script[s])) = Len(script[s]) - 1
        /\ CallsMade(s) = Len(Script[s]) - Len(script[s])
    BY <1>4, CurrentCall, SentTypes DEF CallsLeft, CallsMade
  <2>2. /\ (Len(Script[s]) - Len(script'[s])) + 1 = CallsMade(s) + 2
        /\ Len(script'[s]) <= Len(Script[s])
    BY <1>1, <1>4, <2>1
  <2>3. Tail(script[s]) = SubSeq(Script[s], CallsMade(s) + 2, Len(Script[s]))
    BY <1>4, CurrentCall
  <2> QED BY <1>4, <2>2, <2>3
<1>5. \A t \in Socket : \/ script'[t] = script[t]
                        \/ t = s /\ script[s] # << >> /\ script'[s] = Tail(script[s])
  BY <1>1, <1>2
<1> QED BY <1>3, <1>4, <1>5 DEF CallsLeft, CallsMade

\* What SendsEnd says of a socket that has made c calls and offered the messages ms.
CutOf(ms, e) == e = 0 \/ e \in Cuts(ms)
SendsOf(t, c, ms, rest, closed, waits) ==
  /\ \A k \in 0 .. Len(Script[t]) :
       CutOf(ms, SentUpTo(t, k)) \/ SentUpTo(t, k) >= Len(Payload(ms))
  /\ ~closed =>
       /\ \A k \in 0 .. c : CutOf(ms, SentUpTo(t, k))
       /\ ~waits => Len(Payload(ms)) = SentUpTo(t, c)
       /\ waits =>
            /\ Len(Payload(ms)) + Len(Rest(rest)) = SentUpTo(t, c + 1)
            /\ rest = << >> => CutOf(ms, Len(Payload(ms)))

LEMMA SendsOfAll ==
  /\ SendsEnd <=> \A t \in Socket :
       SendsOf(t, Len(Script[t]) - Len(script[t]), offered[t], unsent[t], isClosing[t],
               pc[t] = "acksend")
  /\ SendsEnd' <=> \A t \in Socket :
       SendsOf(t, Len(Script[t]) - Len(script'[t]), offered'[t], unsent'[t], isClosing'[t],
               pc'[t] = "acksend")
BY DEF SendsEnd, SendsOf, IsCut, CutOf, OfferedBytes, CallsMade, SentUpTo, Sent

\* acksend() begins with the next message of the current call.
LEMMA OfferStays ==
  ASSUME NEW s \in Socket, NEW c \in Nat, c + 1 \in 1 .. Len(Script[s]),
         NEW ms \in Seq(Message), NEW n \in Seqnum, NEW rest \in Seq(Byte),
         \A k \in 0 .. c : CutOf(ms, SentUpTo(s, k)),
         Len(Payload(ms)) + Len(rest) = SentUpTo(s, c + 1)
  PROVE  SendsOf(s, c, Append(ms, MsgFor(n, rest)), rest, FALSE, TRUE)
<1> DEFINE N  == Len(Script[s])
           m  == MsgFor(n, rest)
           ns == Append(ms, m)
           O  == Len(Payload(ms))
           P  == Len(Payload(ns))
<1>1. m \in Message /\ m.data \in Seq(Byte) /\ Payload(ms) \in Seq(Byte)
  BY MessageTypes, PayloadType DEF Message
<1>2. O \in Nat /\ P = O + Len(m.data)
  <2>1. Payload(ns) = Payload(ms) \o m.data
    BY <1>1, PayloadAppend
  <2> HIDE DEF m, ns
  <2> QED BY <1>1, <2>1, ConcatProperties, LenProperties
<1>3. /\ Len(m.data) \in Nat /\ Len(Rest(rest)) \in Nat /\ Len(m.data) + Len(Rest(rest)) = Len(rest)
      /\ rest = << >> => m.flags = "EOS"
  BY MsgForLength
<1>4. /\ \A e : CutOf(ms, e) => CutOf(ns, e)
      /\ rest = << >> => CutOf(ns, P)
  BY <1>1, <1>3, CutsAppend DEF CutOf
<1> HIDE DEF m, ns, O, P, N
<1>5. \A k \in 0 .. c : CutOf(ns, SentUpTo(s, k))
  BY <1>4
<1>6. P + Len(Rest(rest)) = SentUpTo(s, c + 1)
  BY <1>2, <1>3, SMTT(30) DEF O
<1>7. ASSUME NEW k \in 0 .. N  PROVE CutOf(ns, SentUpTo(s, k)) \/ SentUpTo(s, k) >= P
  <2>1. CASE k <= c
    BY <1>5, <1>7, <2>1
  <2>2. CASE k > c
    <3>1. N \in Nat /\ c + 1 \in 0 .. N /\ c + 1 <= k
      BY <1>7, <2>2, SentTypes DEF N
    <3>2. SentUpTo(s, c + 1) <= SentUpTo(s, k) /\ SentUpTo(s, k) \in Nat /\ SentUpTo(s, c + 1) \in Nat
      BY <3>1, SentTypes DEF N
    <3> QED BY <1>2, <1>3, <1>6, <3>2
  <2> QED BY <1>7, <2>1, <2>2
<1> QED BY <1>4, <1>5, <1>6, <1>7 DEF SendsOf, N, P, ns, m

\* A call ends: a send() whose EOS was answered, or one that sends nothing.
LEMMA EndingStays ==
  ASSUME NEW s \in Socket, NEW c \in Nat, c + 1 \in 1 .. Len(Script[s]),
         NEW ms \in Seq(Message), NEW rest \in Seq(Byte), NEW waits \in BOOLEAN,
         SendsOf(s, c, ms, rest, FALSE, waits),
         IF waits THEN rest = << >> ELSE Argument(Script[s][c + 1]) = << >>
  PROVE  \A bytes : SendsOf(s, c + 1, ms, bytes, FALSE, FALSE)
<1>1. Len(Payload(ms)) \in Nat /\ Len(Script[s]) \in Nat
  BY PayloadType, LenProperties, SentTypes
<1>2. CutOf(ms, SentUpTo(s, c + 1)) /\ Len(Payload(ms)) = SentUpTo(s, c + 1)
  <2>1. CASE waits
    <3>1. Len(Rest(rest)) = 0
      BY <2>1, MsgForLength, MsgAssumption DEF Seqnum
    <3>2. Len(Payload(ms)) + Len(Rest(rest)) = SentUpTo(s, c + 1) /\ CutOf(ms, Len(Payload(ms)))
      BY <2>1 DEF SendsOf
    <3> QED BY <1>1, <3>1, <3>2
  <2>2. CASE ~waits
    <3>1. SentUpTo(s, c + 1) = SentUpTo(s, c) + Len(Argument(Script[s][c + 1])) /\ SentUpTo(s, c) \in Nat
      BY <1>1, SentTypes
    <3>2. Len(Argument(Script[s][c + 1])) = 0
      BY <2>2, EmptySeq
    <3>3. Len(Payload(ms)) = SentUpTo(s, c) /\ CutOf(ms, SentUpTo(s, c))
      BY <2>2 DEF SendsOf
    <3> QED BY <3>1, <3>2, <3>3
  <2> QED BY <2>1, <2>2
<1>3. ASSUME NEW k \in 0 .. c + 1  PROVE CutOf(ms, SentUpTo(s, k))
  <2>1. CASE k \in 0 .. c
    BY <1>3, <2>1 DEF SendsOf
  <2>2. CASE k = c + 1
    BY <1>2, <2>2
  <2> QED BY <1>3, <2>1, <2>2
<1> QED BY <1>2, <1>3 DEF SendsOf

\* Every step keeps SendsEnd.
LEMMA SendsStay ==
  ASSUME TypeInv, TypeInv', CallsLeft, SendsEnd, ClosedIsDeaf, NEW s \in Socket,
         SendEffect(s), PlaceEffect(s), \A t \in Socket : isClosing[t] => isClosing'[t]
  PROVE  SendsEnd'
<1> DEFINE Of(t) == SendsOf(t, Len(Script[t]) - Len(script'[t]), offered'[t], unsent'[t],
                            isClosing'[t], pc'[t] = "acksend")
           c  == Len(Script[s]) - Len(script[s])
           ms == offered[s]
           waits == pc[s] = "acksend"
<1>1. \A t \in Socket :
        SendsOf(t, Len(Script[t]) - Len(script[t]), offered[t], unsent[t], isClosing[t],
                pc[t] = "acksend")
  BY SendsOfAll
<1>2. /\ script \in [Socket -> Seq(Call)] /\ unsent \in [Socket -> Seq(Byte)]
      /\ offered \in [Socket -> Seq(Message)] /\ pc \in [Socket -> Place]
      /\ isClosing \in [Socket -> BOOLEAN] /\ isClosing' \in [Socket -> BOOLEAN]
      /\ unsent' \in [Socket -> Seq(Byte)]
  BY DEF TypeInv, TypeOK
<1>3. ASSUME NEW t \in Socket, script'[t] = script[t], offered'[t] = offered[t],
             unsent'[t] = unsent[t], pc'[t] = "acksend" <=> pc[t] = "acksend"
      PROVE  Of(t)
  BY <1>1, <1>3 DEF SendsOf
<1>4. ASSUME NEW t \in Socket, t # s  PROVE Of(t)
  <2>1. /\ script'[t] = script[t] /\ offered'[t] = offered[t] /\ unsent'[t] = unsent[t]
        /\ pc'[t] = pc[t]
    BY <1>2, <1>4 DEF SendEffect, Sending, Ending, CallSend, AcksendNext, StartAcksend, PlaceEffect
  <2> HIDE DEF Of
  <2> QED BY <1>3, <1>4, <2>1
<1>5. script[s] # << >> =>
        /\ c \in Nat /\ c + 1 \in 1 .. Len(Script[s])
        /\ Head(script[s]) = Script[s][c + 1]
        /\ Len(Script[s]) - Len(Tail(script[s])) = c + 1
  <2> SUFFICES ASSUME script[s] # << >>
               PROVE  /\ c \in Nat /\ c + 1 \in 1 .. Len(Script[s])
                      /\ Head(script[s]) = Script[s][c + 1]
                      /\ Len(Script[s]) - Len(Tail(script[s])) = c + 1
    OBVIOUS
  <2> DEFINE N == Len(Script[s])
             l == Len(script[s])
             k == Len(Tail(script[s]))
  <2>1. N \in Nat /\ l \in Nat
    BY <1>2, SentTypes, LenProperties
  <2>2. c = N - l /\ CallsMade(s) = c
    BY DEF CallsMade
  <2>3. /\ c \in 0 .. N /\ c + 1 \in 1 .. N /\ k = l - 1
        /\ Head(script[s]) = Script[s][c + 1]
    BY <2>2, CurrentCall
  <2> HIDE DEF N, l, k, c
  <2>4. c \in Nat /\ N - k = c + 1
    BY <2>1, <2>2, <2>3
  <2> QED BY <2>3, <2>4 DEF N, k
<1>6. ASSUME ~isClosing[s], script[s] # << >>, NEW n \in Seqnum, NEW rest \in Seq(Byte),
             Len(Payload(ms)) + Len(rest) = SentUpTo(s, c + 1),
             offered' = [offered EXCEPT ![s] = Append(@, MsgFor(n, rest))],
             unsent' = [unsent EXCEPT ![s] = rest], script' = script, pc'[s] = "acksend"
      PROVE  Of(s)
  <2>1. c \in Nat /\ c + 1 \in 1 .. Len(Script[s]) /\ ms \in Seq(Message)
    BY <1>2, <1>5, <1>6
  <2>2. \A k \in 0 .. c : CutOf(ms, SentUpTo(s, k))
    BY <1>1, <1>6 DEF SendsOf
  <2>3. /\ offered'[s] = Append(ms, MsgFor(n, rest)) /\ unsent'[s] = rest
        /\ Len(Script[s]) - Len(script'[s]) = c
    BY <1>2, <1>6
  <2> HIDE DEF c, ms
  <2>4. SendsOf(s, c, Append(ms, MsgFor(n, rest)), rest, FALSE, TRUE)
    BY <1>6, <2>1, <2>2, OfferStays
  <2>5. SendsOf(s, c, Append(ms, MsgFor(n, rest)), rest, isClosing'[s], TRUE)
    BY <2>4 DEF SendsOf
  <2> QED BY <1>6, <2>3, <2>5
<1>7. Of(s)
  <2>1. CASE UNCHANGED <<script, offered, unsent>> /\ (pc'[s] = "acksend" <=> pc[s] = "acksend")
    <3> HIDE DEF Of
    <3> QED BY <1>3, <2>1
  <2>2. ASSUME NEW fate \in Fate, CallSend(s, fate)  PROVE Of(s)
    <3> DEFINE data == Head(script[s]).data
    <3>1. /\ script[s] # << >> /\ Head(script[s]).op = "send" /\ pc[s] # "acksend" /\ ~isClosing[s]
          /\ 0 \in Seqnum /\ data \in Seq(Byte)
      <4>1. script[s] # << >> /\ Head(script[s]).op = "send" /\ pc[s] # "acksend" /\ ~isClosing[s]
        BY <2>2 DEF CallSend, Calls
      <4>2. 0 \in Seqnum
        BY MsgAssumption DEF Seqnum
      <4>3. data \in Seq(Byte)
        BY <1>2, <4>1, CallTypes
      <4> QED BY <4>1, <4>2, <4>3
    <3>2. Len(Payload(ms)) + Len(data) = SentUpTo(s, c + 1)
      <4>1. Argument(Script[s][c + 1]) = data
        BY <1>5, <3>1 DEF Argument
      <4>2. Len(Payload(ms)) = SentUpTo(s, c)
        BY <1>1, <3>1 DEF SendsOf
      <4> HIDE DEF c, ms, data
      <4>3. c \in 0 .. Len(Script[s]) - 1
        <5>1. c \in Nat /\ c + 1 \in 1 .. Len(Script[s])
          BY <1>5, <3>1
        <5>2. Len(Script[s]) \in Nat
          BY SentTypes
        <5> QED BY <5>1, <5>2
      <4> QED BY <4>1, <4>2, <4>3, SentTypes
    <3>3. /\ offered' = [offered EXCEPT ![s] = Append(@, MsgFor(0, data))]
          /\ unsent' = [unsent EXCEPT ![s] = data]
          /\ script' = script /\ pc'[s] = "acksend"
      BY <1>2, <2>2 DEF CallSend, StartAcksend
    <3> HIDE DEF data, Of, c, ms
    <3> QED BY <1>6, <3>1, <3>2, <3>3
  <2>3. ASSUME NEW i \in DOMAIN inbox[s], NEW fate \in Fate, AcksendNext(s, i, fate)
        PROVE  Of(s)
    <3> DEFINE n == Succ(sendSeqnum[s])
               rest == Rest(unsent[s])
    <3>1. /\ script[s] # << >> /\ pc[s] = "acksend" /\ ~isClosing[s]
          /\ n \in Seqnum /\ rest \in Seq(Byte)
      BY <2>3, SeqnumStep, ChunkTypes DEF AcksendNext, InCall, ClosedIsDeaf, TypeInv, TypeOK
    <3>2. Len(Payload(ms)) + Len(rest) = SentUpTo(s, c + 1)
      BY <1>1, <3>1 DEF SendsOf
    <3>3. /\ offered' = [offered EXCEPT ![s] = Append(@, MsgFor(n, rest))]
          /\ unsent' = [unsent EXCEPT ![s] = rest]
          /\ script' = script /\ pc'[s] = "acksend"
      BY <1>2, <2>3 DEF AcksendNext, StartAcksend
    <3> HIDE DEF n, rest, Of, c, ms
    <3> QED BY <1>6, <3>1, <3>2, <3>3
  <2>4. CASE Ending(s)
    <3>1. /\ script[s] # << >> /\ offered' = offered /\ pc'[s] # "acksend"
          /\ Len(Script[s]) - Len(script'[s]) = c + 1
      BY <1>2, <1>5, <2>4 DEF Ending
    <3>2. CASE isClosing'[s]
      BY <1>1, <3>1, <3>2 DEF SendsOf
    <3>3. CASE ~isClosing'[s]
      <4>1. ~isClosing[s]
        BY <3>3
      <4>2. c \in Nat /\ c + 1 \in 1 .. Len(Script[s]) /\ ms \in Seq(Message) /\ unsent[s] \in Seq(Byte)
        BY <1>2, <1>5, <3>1
      <4>3. SendsOf(s, c, ms, unsent[s], FALSE, waits)
        BY <1>1, <4>1 DEF SendsOf
      <4>4. waits \in BOOLEAN /\ IF waits THEN unsent[s] = << >> ELSE Argument(Script[s][c + 1]) = << >>
        <5>1. \/ waits /\ unsent[s] = << >> /\ Head(script[s]).op = "send"
              \/ ~waits /\ Head(script[s]).op # "send"
          BY <2>4, <3>3 DEF Ending
        <5> QED BY <1>5, <3>1, <5>1 DEF Argument
      <4> HIDE DEF c, ms, waits
      <4>5. SendsOf(s, c + 1, ms, unsent'[s], FALSE, FALSE)
        BY <4>2, <4>3, <4>4, EndingStays
      <4>6. SendsOf(s, c + 1, ms, unsent'[s], isClosing'[s], pc'[s] = "acksend")
        BY <3>1, <3>3, <4>5 DEF SendsOf
      <4> QED BY <3>1, <4>6 DEF ms
    <3> QED BY <3>2, <3>3
  <2> QED BY <2>1, <2>2, <2>3, <2>4 DEF SendEffect, Sending
<1> QED BY <1>4, <1>7, SendsOfAll

-----------------------------------------------------------------------------
(* The invariant *)

\* A socket as rcs_t() leaves it has queued, read, offered and called nothing.
LEMMA StreamInit == Init => StreamInv
<1> SUFFICES ASSUME Init  PROVE StreamInv
  OBVIOUS
<1>1. \A t \in Socket :
        /\ pc[t] = "idle" /\ ~isClosing[t] /\ inbox[t] = << >> /\ buffer[t] = << >>
        /\ accepted[t] = << >> /\ returned[t] = << >> /\ offered[t] = << >> /\ script[t] = Script[t]
  BY DEF Init, SocketInit
<1>2. Len(<< >>) = 0 /\ << >> \o << >> = << >>
  BY EmptySeq, ConcatEmptySeq
<1>3. PayloadIsData /\ ClosedIsDeaf
  BY <1>1, <1>2 DEF PayloadIsData, ClosedIsDeaf
<1>4. NothingLost
  BY <1>1, <1>2, FlattenEmpty, UnreadEmpty, PayloadEmpty DEF NothingLost
<1>5. ZeroAtEnd
  BY <1>1 DEF ZeroAtEnd, Range
<1>6. MarksKept
  BY <1>1, <1>2 DEF MarksKept, Cuts
<1>7. CallsLeft
  <2>1. ASSUME NEW t \in Socket
        PROVE  Len(Script[t]) <= Len(Script[t])
               /\ Script[t] = SubSeq(Script[t], (Len(Script[t]) - Len(Script[t])) + 1, Len(Script[t]))
    <3>1. Len(Script[t]) \in Nat /\ SubSeq(Script[t], 1, Len(Script[t])) = Script[t]
      BY SentTypes, SubSeqFull, LinkAssumption
    <3>2. (Len(Script[t]) - Len(Script[t])) + 1 = 1
      BY <3>1
    <3> QED BY <3>1, <3>2
  <2> QED BY <1>1, <2>1 DEF CallsLeft, CallsMade
<1>8. SendsEnd
  <2>1. ASSUME NEW t \in Socket, NEW rest
        PROVE  SendsOf(t, Len(Script[t]) - Len(Script[t]), << >>, rest, FALSE, FALSE)
    <3>1. Len(Payload(<< >>)) = 0
      BY <1>2, PayloadEmpty
    <3>2. Len(Script[t]) - Len(Script[t]) = 0 /\ SentUpTo(t, 0) = 0
      BY SentTypes
    <3>3. \A k \in 0 .. Len(Script[t]) : SentUpTo(t, k) \in Nat
      BY SentTypes
    <3> QED BY <3>1, <3>2, <3>3 DEF SendsOf, CutOf
  <2>2. ASSUME NEW t \in Socket
        PROVE  SendsOf(t, Len(Script[t]) - Len(script[t]), offered[t], unsent[t], isClosing[t],
                       pc[t] = "acksend")
    <3>1. isClosing[t] = FALSE /\ (pc[t] = "acksend") = FALSE
      BY DEF Init, SocketInit
    <3> QED BY <1>1, <2>1, <3>1
  <2> QED BY <2>2, SendsOfAll
<1> QED BY <1>3, <1>4, <1>5, <1>6, <1>7, <1>8 DEF StreamInv

\* No step of either socket leaves it.
LEMMA StreamNext == TypeInv /\ TypeInv' /\ StreamInv /\ [Next]_vars => StreamInv'
<1> SUFFICES ASSUME TypeInv, TypeInv', StreamInv, [Next]_vars  PROVE StreamInv'
  OBVIOUS
<1>1. CASE UNCHANGED vars
  <2>1. UNCHANGED <<script, pc, isClosing, inbox, buffer, accepted, returned, offered, unsent>>
    BY <1>1 DEF vars, sendVars, recvVars
  <2>2. PayloadIsData' /\ ClosedIsDeaf' /\ NothingLost' /\ ZeroAtEnd'
    BY <2>1 DEF StreamInv, PayloadIsData, ClosedIsDeaf, NothingLost, ZeroAtEnd
  <2>3. MarksKept'
    BY <2>1 DEF StreamInv, MarksKept, BytesRead
  <2>4. CallsLeft'
    BY <2>1 DEF StreamInv, CallsLeft, CallsMade
  <2>5. SendsEnd'
    BY <2>1, SendsOfAll DEF StreamInv
  <2> QED BY <2>2, <2>3, <2>4, <2>5 DEF StreamInv
<1>2. ASSUME NEW s \in Socket, Step(s)  PROVE StreamInv'
  <2>1. InboxEffect(s) /\ PlaceEffect(s) /\ ReadEffect(s) /\ SendEffect(s)
    BY <1>2, StepEffects DEF StreamInv, Effects
  <2>2. PayloadIsData' /\ ClosedIsDeaf' /\ \A t \in Socket : isClosing[t] => isClosing'[t]
    BY <2>1, QueuesStay DEF StreamInv
  <2>3. NothingLost' /\ MarksKept'
    BY <2>1, ReadsStay DEF StreamInv
  <2>4. ZeroAtEnd'
    BY <2>1, <2>2, EndStays DEF StreamInv
  <2>5. CallsLeft'
    BY <2>1, CallsStay DEF StreamInv
  <2>6. SendsEnd'
    BY <2>1, <2>2, SendsStay DEF StreamInv
  <2> QED BY <2>2, <2>3, <2>4, <2>5, <2>6 DEF StreamInv
<1> QED BY <1>1, <1>2 DEF Next, Terminating

\* Whatever the two applications call and whatever becomes of the datagrams, on
\* any path: both buffers keep what was queued, byte by byte and with the ends of
\* the sends, recv() returns 0 only behind a FIN and with nothing left to read, and
\* what send() has passed on ends where a call ends, but for the one a FIN stopped.
THEOREM StreamInvariant == Spec => []StreamInv
<1>1. Spec => [](TypeInv /\ StreamInv)
  BY InitType, NextType, StreamInit, StreamNext, PTL DEF Spec
<1> QED BY <1>1, PTL

\* Every byte queued is read by the application once and in order, or is still in
\* the buffer, whatever the size arguments of recv() are.
THEOREM NothingIsLost == Spec => []NothingLost
<1>1. StreamInv => NothingLost
  BY DEF StreamInv
<1> QED BY <1>1, StreamInvariant, PTL

-----------------------------------------------------------------------------
(* What follows where messages arrive in order *)

\* What the peer has queued is the beginning of what was offered, and all that its
\* recv() has returned are bytes of it.
LEMMA QueuedIsPrefix ==
  ASSUME TypeInv, StreamInv, InOrder, NEW s \in Socket
  PROVE  LET A == accepted[Peer[s]]
             R == FlattenSeq(returned[Peer[s]])
         IN  /\ Peer[s] \in Socket
             /\ Len(A) \in Nat /\ Len(offered[s]) \in Nat /\ Len(A) <= Len(offered[s])
             /\ A = SubSeq(offered[s], 1, Len(A))
             /\ Len(R) \in Nat /\ Len(Payload(A)) \in Nat /\ Len(R) <= Len(Payload(A))
             /\ NoBytes(buffer[Peer[s]]) => R = Payload(A)
<1> DEFINE p == Peer[s]
           A == accepted[p]
           R == FlattenSeq(returned[p])
           U == Unread(buffer[p])
<1>1. p \in Socket
  BY LinkAssumption DEF Peer
<1>2. /\ A \in Seq(Message) /\ offered[s] \in Seq(Message)
      /\ returned[p] \in Seq(Seq(Byte)) /\ buffer[p] \in Seq(Cell)
  BY <1>1 DEF TypeInv, TypeOK
<1>3. Len(A) \in Nat /\ Len(offered[s]) \in Nat /\ SubSeq(A, 1, Len(A)) = A
  BY <1>2, LenProperties, SubSeqFull
<1>4. Len(A) <= Len(offered[s]) /\ SubSeq(A, 1, Len(A)) = SubSeq(offered[s], 1, Len(A))
  BY <1>1 DEF InOrder, IsPrefix
<1>5. R \in Seq(Byte) /\ U \in Seq(Byte) /\ Payload(A) \in Seq(Byte)
  BY <1>2, FlattenType, UnreadType, PayloadType
<1>6. R \o U = Payload(A)
  BY <1>1 DEF StreamInv, NothingLost
<1>7. NoBytes(buffer[p]) => U = << >>
  BY <1>2, UnreadOfMarks
<1> HIDE DEF p, A, R, U
<1>8. Len(R) \in Nat /\ Len(Payload(A)) \in Nat /\ Len(R) <= Len(Payload(A))
  <2>1. Len(R) \in Nat /\ Len(U) \in Nat /\ Len(R \o U) = Len(R) + Len(U)
    BY <1>5, ConcatProperties, LenProperties
  <2> QED BY <1>6, <2>1
<1>9. NoBytes(buffer[p]) => R = Payload(A)
  BY <1>5, <1>6, <1>7, ConcatEmptySeq
<1> QED BY <1>1, <1>3, <1>4, <1>8, <1>9 DEF p, A, R

\* An end of a send() is one of the queued messages', and then kept by the buffer,
\* or it lies behind everything that has been read.
LEMMA OneSendFollows ==
  ASSUME TypeInv, StreamInv, InOrder
  PROVE  OneSendPerRecv
<1> SUFFICES ASSUME NEW s \in Socket, NEW k \in 0 .. Len(Sent(s))
             PROVE  NotStraddled(returned[Peer[s]], Len(FlattenSeq(SubSeq(Sent(s), 1, k))))
  BY DEF OneSendPerRecv, Ends
<1> DEFINE p  == Peer[s]
           A  == accepted[p]
           O  == offered[s]
           rs == returned[p]
           e  == SentUpTo(s, k)
<1>1. /\ p \in Socket /\ Len(A) \in Nat /\ Len(O) \in Nat /\ Len(A) <= Len(O)
      /\ A = SubSeq(O, 1, Len(A))
      /\ Len(FlattenSeq(rs)) \in Nat /\ Len(Payload(A)) \in Nat
      /\ Len(FlattenSeq(rs)) <= Len(Payload(A))
  BY QueuedIsPrefix
<1>2. A \in Seq(Message) /\ O \in Seq(Message) /\ rs \in Seq(Seq(Byte))
  BY <1>1 DEF TypeInv, TypeOK
<1>3. k \in 0 .. Len(Script[s]) /\ e \in Nat
  <2>1. Len(Script[s]) \in Nat /\ \A j \in 0 .. Len(Script[s]) : SentUpTo(s, j) \in Nat
    BY SentTypes
  <2>2. Len(Sent(s)) = Len(Script[s])
    <3>1. /\ DOMAIN Script[s] = 1 .. Len(Script[s])
          /\ \A i \in 1 .. Len(Script[s]) : Script[s][i] \in Call
      BY LinkAssumption, LenProperties, ElementOfSeq
    <3>2. \A call \in Call : Argument(call) \in Seq(Byte)
      BY EmptySeq DEF Call, Argument
    <3>3. Sent(s) \in [1 .. Len(Script[s]) -> Seq(Byte)]
      BY <3>1, <3>2 DEF Sent
    <3> QED BY <2>1, <3>3, FunctionIsSeq
  <2> QED BY <2>1, <2>2
<1>4. e = 0 \/ e \in Cuts(O) \/ e >= Len(Payload(O))
  BY <1>3 DEF StreamInv, SendsEnd, IsCut, OfferedBytes
<1>5. Len(Payload(A)) <= Len(Payload(O)) /\ Len(Payload(O)) \in Nat
  <2>1. SubSeq(O, 1, Len(O)) = O
    BY <1>2, SubSeqFull
  <2> HIDE DEF A, O
  <2>2. /\ Len(Payload(SubSeq(O, 1, Len(O)))) \in Nat
        /\ Len(Payload(SubSeq(O, 1, Len(A)))) <= Len(Payload(SubSeq(O, 1, Len(O))))
    BY <1>1, <1>2, PayloadPrefix
  <2> QED BY <1>1, <2>1, <2>2
<1> SUFFICES NotStraddled(rs, e)
  BY DEF SentUpTo
<1>6. CASE e = 0
  <2>1. Len(rs) \in Nat
    BY <1>2, LenProperties
  <2>2. ASSUME NEW j \in 1 .. Len(rs)  PROVE 0 <= Len(FlattenSeq(SubSeq(rs, 1, j - 1)))
    <3> HIDE DEF rs
    <3>1. j - 1 \in Nat /\ j - 1 <= Len(rs)
      BY <2>1
    <3>2. Len(FlattenSeq(SubSeq(rs, 1, j - 1))) \in Nat
      BY <1>2, <3>1, FlattenPrefix
    <3> QED BY <3>2
  <2> QED BY <1>6, <2>2 DEF NotStraddled
<1>7. CASE e >= Len(Payload(A))
  <2> HIDE DEF rs, A, e
  <2>1. e >= Len(FlattenSeq(rs))
    BY <1>1, <1>3, <1>7
  <2> QED BY <1>2, <1>3, <2>1, BehindAll
<1>8. CASE e \in Cuts(O)
  <2>1. PICK i \in 1 .. Len(O) : O[i].flags = "EOS" /\ e = Len(Payload(SubSeq(O, 1, i)))
    BY <1>8 DEF Cuts
  <2>2. CASE i <= Len(A)
    <3> HIDE DEF e, A, O
    <3>1. A[i] = O[i] /\ SubSeq(A, 1, i) = SubSeq(O, 1, i)
      <4>1. i \in 1 .. Len(A)
        BY <1>1, <2>2
      <4>2. \A j \in 1 .. Len(O) : O[j] \in Message
        BY <1>2, ElementOfSeq
      <4>3. \A j \in 1 .. Len(A) : SubSeq(O, 1, Len(A))[j] = O[1 + j - 1]
        BY <1>1, <4>2, SubSeqProperties
      <4>4. SubSeq(O, 1, Len(A))[i] = O[i]
        BY <4>1, <4>3
      <4>5. SubSeq(SubSeq(O, 1, Len(A)), 1, i) = SubSeq(O, 1, i)
        <5>1. /\ 1 \in 1 .. Len(O) /\ Len(A) \in 1 .. Len(O)
              /\ 1 \in 1 .. Len(A) - 1 + 1 /\ i \in 1 .. Len(A) - 1 + 1
          BY <1>1, <4>1
        <5>2. SubSeq(SubSeq(O, 1, Len(A)), 1, i) = SubSeq(O, 1 + 1 - 1, 1 + i - 1)
          BY <1>2, <5>1, SubSeqOfSubSeq
        <5>3. 1 + 1 - 1 = 1 /\ 1 + i - 1 = i
          BY <4>1
        <5> QED BY <5>2, <5>3
      <4> QED BY <1>1, <4>4, <4>5
    <3>2. e \in Cuts(A)
      <4>1. i \in 1 .. Len(A)
        BY <1>1, <2>2
      <4>2. A[i].flags = "EOS" /\ e = Len(Payload(SubSeq(A, 1, i)))
        BY <2>1, <3>1
      <4> QED BY <4>1, <4>2 DEF Cuts
    <3> QED BY <1>1, <3>2 DEF StreamInv, MarksKept, A
  <2>3. CASE i > Len(A)
    <3> HIDE DEF e, A, O
    <3>1. i \in Nat /\ i <= Len(O) /\ Len(A) <= i
      BY <1>1, <2>3
    <3>2. Len(Payload(SubSeq(O, 1, Len(A)))) <= Len(Payload(SubSeq(O, 1, i)))
      BY <1>1, <1>2, <3>1, PayloadPrefix
    <3> QED BY <1>1, <1>7, <2>1, <3>2
  <2> QED BY <1>1, <2>2, <2>3
<1>9. CASE e >= Len(Payload(O))
  <2> HIDE DEF rs, A, O, e
  <2>1. e >= Len(Payload(A))
    BY <1>1, <1>3, <1>5, <1>9
  <2> QED BY <1>7, <2>1
<1> QED BY <1>4, <1>6, <1>8, <1>9

\* A recv() that returns 0 has read all that was queued, which begins with all that
\* was acknowledged.
LEMMA EofFollows ==
  ASSUME TypeInv, StreamInv, InOrder, AckedIsAccepted
  PROVE  EofIsEnd
<1> SUFFICES ASSUME NEW s \in Socket, << >> \in Range(returned[Peer[s]])
             PROVE  IsPrefix(Payload(SubSeq(offered[s], 1, confirmed[s])),
                             FlattenSeq(returned[Peer[s]]))
  BY DEF EofIsEnd
<1> DEFINE p == Peer[s]
           A == accepted[p]
           O == offered[s]
<1>1. /\ p \in Socket /\ Len(A) \in Nat /\ Len(O) \in Nat /\ Len(A) <= Len(O)
      /\ A = SubSeq(O, 1, Len(A))
      /\ NoBytes(buffer[p]) => FlattenSeq(returned[p]) = Payload(A)
  BY QueuedIsPrefix
<1>2. NoBytes(buffer[p])
  BY <1>1 DEF StreamInv, ZeroAtEnd
<1>3. confirmed[s] \in Nat /\ confirmed[s] <= Len(A) /\ O \in Seq(Message)
  BY DEF AckedIsAccepted, TypeInv, TypeOK
<1> HIDE DEF A, O, p
<1>4. IsPrefix(Payload(SubSeq(O, 1, confirmed[s])), Payload(SubSeq(O, 1, Len(A))))
  BY <1>1, <1>3, PayloadPrefix
<1> QED BY <1>1, <1>2, <1>4 DEF p, O

\* Wherever messages arrive in order, a recv() reads from one send() only.
THEOREM InOrderOneSend == Spec => ([]InOrder => []OneSendPerRecv)
<1>1. TypeInv /\ StreamInv /\ InOrder => OneSendPerRecv
  BY OneSendFollows
<1>2. Spec => []TypeInv
  BY InitType, NextType, PTL DEF Spec
<1> QED BY <1>1, <1>2, StreamInvariant, PTL

\* Wherever, besides, no message counts as acknowledged that is not queued, a recv()
\* returns 0 only at the end.
THEOREM InOrderEof == Spec => ([](InOrder /\ AckedIsAccepted) => []EofIsEnd)
<1>1. TypeInv /\ StreamInv /\ InOrder /\ AckedIsAccepted => EofIsEnd
  BY EofFollows
<1>2. Spec => []TypeInv
  BY InitType, NextType, PTL DEF Spec
<1> QED BY <1>1, <1>2, StreamInvariant, PTL

-----------------------------------------------------------------------------
(* Queues of datagrams *)

\* r is q, to which the message m may have been added in some form.
SentTo(q, r, m) ==
  r = q \/ \E d \in Datagram : r = Append(q, d) /\ (IsValid(d) => d.msg = m)

\* rawsend() adds at most the message, and that to the queue of the endpoint only.
LEMMA RawsendQueues ==
  ASSUME NEW box \in Queues, NEW s \in Socket, NEW p \in Socket, s # p, endPoint'[s] = p,
         NEW m \in Message, NEW fate \in Fate
  PROVE  /\ Rawsend(box, s, m, fate) \in Queues
         /\ SentTo(box[p], Rawsend(box, s, m, fate)[p], m)
         /\ Rawsend(box, s, m, fate)[s] = box[s]
<1> DEFINE d == [from |-> s, form |-> Received(m, fate).form, msg |-> Received(m, fate).msg]
<1>1. d \in Datagram
  BY ReceivedTypes DEF Datagram
<1>2. IsValid(d) => d.msg = m
  BY DEF IsValid, Received
<1> HIDE DEF d
<1>3. /\ SentTo(box[p], Deliver(box, p, d)[p], m)
      /\ Deliver(box, p, d)[s] = box[s]
  BY <1>1, <1>2 DEF Deliver, Queues, SentTo
<1>4. Rawsend(box, s, m, fate) = box \/ Rawsend(box, s, m, fate) = Deliver(box, p, d)
  BY DEF Rawsend, d
<1>5. SentTo(box[p], box[p], m)
  BY DEF SentTo
<1> QED BY <1>3, <1>4, <1>5, RawsendType

\* close() adds nothing but FINs, and empties the queue of the closing socket.
LEMMA FinBurstQueues ==
  ASSUME NEW box \in Queues, NEW s \in Socket, NEW p \in Socket, s # p, endPoint'[s] = p,
         NEW fate \in Fate
  PROVE  /\ FinBurst(box, s, fate)[s] = << >>
         /\ \E r \in Seq(Datagram) :
              SentTo(box[p], r, Fin) /\ SentTo(r, FinBurst(box, s, fate)[p], Fin)
<1> DEFINE box1 == Rawsend(box, s, Fin, fate)
           box2 == Rawsend(box1, s, Fin, "intact")
<1>1. Fin \in Message /\ "intact" \in Fate
  BY MessageTypes DEF Fate
<1>2. box1 \in Queues /\ SentTo(box[p], box1[p], Fin)
  BY <1>1, RawsendQueues
<1> HIDE DEF box1
<1>3. box2 \in Queues /\ SentTo(box1[p], box2[p], Fin)
  BY <1>1, <1>2, RawsendQueues
<1>4. FinBurst(box, s, fate) = [box2 EXCEPT ![s] = << >>]
  BY DEF FinBurst, box1
<1> HIDE DEF box2
<1>5. FinBurst(box, s, fate)[s] = << >> /\ FinBurst(box, s, fate)[p] = box2[p]
  BY <1>3, <1>4 DEF Queues
<1>6. box1[p] \in Seq(Datagram)
  BY <1>2 DEF Queues
<1> QED BY <1>2, <1>3, <1>5, <1>6

\* r is q, or what is left of q when its first datagram has been received.
LeftOf(q, r) ==
  \/ r = q
  \/ /\ Len(q) > 0 /\ Len(r) = Len(q) - 1
     /\ \A j \in 1 .. Len(q) - 1 : r[j] = q[j + 1]

\* What recvfrom returns is the datagram in front.
LEMMA FirstArrives ==
  ASSUME Path # "any", inbox \in Queues, NEW s \in Socket, NEW p \in Socket, s # p,
         NEW i \in DOMAIN inbox[s], MayArrive(s, i)
  PROVE  /\ i = 1 /\ Len(inbox[s]) > 0
         /\ inbox[s][i] = inbox[s][1] /\ inbox[s][1] \in Datagram
         /\ Without(s, i) \in Queues
         /\ Without(s, i)[p] = inbox[p]
         /\ Len(Without(s, i)[s]) = Len(inbox[s]) - 1
         /\ \A j \in 1 .. Len(inbox[s]) - 1 : Without(s, i)[s][j] = inbox[s][j + 1]
<1> DEFINE q == inbox[s]
<1>1. i = 1
  BY DEF MayArrive
<1>2. /\ q \in Seq(Datagram) /\ Len(q) \in Nat /\ 1 \in 1 .. Len(q)
      /\ \A j \in 1 .. Len(q) : q[j] \in Datagram
  BY <1>1, LenProperties, ElementOfSeq DEF Queues
<1>3. /\ SubSeq(q, 1, 0) \in Seq(Datagram) /\ Len(SubSeq(q, 1, 0)) = 0
      /\ SubSeq(q, 2, Len(q)) \in Seq(Datagram) /\ Len(SubSeq(q, 2, Len(q))) = Len(q) - 1
      /\ \A j \in 1 .. Len(q) - 1 : SubSeq(q, 2, Len(q))[j] = q[j + 1]
  BY <1>2, SubSeqProperties
<1>4. RemoveAt(q, 1) = SubSeq(q, 1, 0) \o SubSeq(q, 2, Len(q))
  BY <1>2 DEF RemoveAt
<1>5. /\ Len(RemoveAt(q, 1)) = Len(q) - 1
      /\ \A j \in 1 .. Len(q) - 1 : RemoveAt(q, 1)[j] = q[j + 1]
  BY <1>2, <1>3, <1>4, ConcatProperties
<1>6. Without(s, i)[s] = RemoveAt(q, 1) /\ Without(s, i)[p] = inbox[p]
  BY <1>1 DEF Without, Queues
<1> QED BY <1>1, <1>2, <1>5, <1>6, ArrivalTypes

\* A datagram added to a queue is its last one.
LEMMA LastOf ==
  ASSUME NEW q \in Seq(Datagram), NEW d \in Datagram
  PROVE  /\ Len(q) \in Nat /\ Len(Append(q, d)) = Len(q) + 1
         /\ \A j \in 1 .. Len(Append(q, d)) :
              \/ j \in 1 .. Len(q) /\ Append(q, d)[j] = q[j]
              \/ j = Len(q) + 1 /\ Append(q, d)[j] = d
BY LenProperties, AppendProperties

-----------------------------------------------------------------------------
(* Numbers *)

\* A message of the stream has a number below NoNumber and other than 0 is the
\* number after it: neighbours differ.
LEMMA Neighbours ==
  ASSUME FinSeqnum > 0, NEW m \in Message, WellFormed(m)
  PROVE  /\ m.seqnum # NoNumber /\ m.seqnum # FinSeqnum /\ m.flags \in {"NONE", "EOS"}
         /\ NumberAfter(m) # m.seqnum /\ NumberAfter(m) # FinSeqnum
         /\ NumberAfter(m) \in Seqnum /\ NumberAfter(m) # NoNumber
         /\ Pred(NumberAfter(m)) \in {NoNumber, m.seqnum}
<1>1. m.seqnum \in 0 .. SeqCount - 1 /\ SeqCount \in Nat /\ SeqCount > 1
  BY MsgAssumption DEF Message, Seqnum
<1>2. FinSeqnum \in 0 .. SeqCount - 1 /\ FinSeqnum > 0
  BY MsgAssumption
<1>3. CASE m.flags = "NONE" /\ m.seqnum + 1 < FinSeqnum
  BY <1>1, <1>2, <1>3 DEF NoNumber, NumberAfter, Pred, Seqnum
<1>4. CASE m.flags = "EOS" /\ m.seqnum \in 1 .. FinSeqnum - 1
  BY <1>1, <1>2, <1>4 DEF NoNumber, NumberAfter, Pred, Seqnum
<1> QED BY <1>3, <1>4 DEF WellFormed

\* The same of two messages that follow each other in the stream.
LEMMA StreamNeighbours ==
  ASSUME FinSeqnum > 0, NEW off \in Seq(Message), Stream(off), Len(off) > 0
  PROVE  /\ off[Len(off)] \in Message /\ WellFormed(off[Len(off)])
         /\ off[Len(off)].seqnum # NoNumber
         /\ Len(off) > 1 =>
              /\ off[Len(off) - 1] \in Message /\ WellFormed(off[Len(off) - 1])
              /\ off[Len(off) - 1].seqnum # NoNumber
              /\ off[Len(off)].seqnum = NumberAfter(off[Len(off) - 1])
              /\ off[Len(off) - 1].seqnum # off[Len(off)].seqnum
<1> DEFINE n == Len(off)
<1>1. n \in Nat /\ \A k \in 1 .. n : off[k] \in Message
  BY LenProperties, ElementOfSeq
<1>2. off[n] \in Message /\ WellFormed(off[n])
  BY <1>1 DEF Stream
<1>3. CASE n > 1
  <2>1. n - 1 \in 1 .. n /\ n \in 1 .. n /\ n # 1
    BY <1>1, <1>3
  <2>2. off[n - 1] \in Message /\ WellFormed(off[n - 1])
        /\ off[n].seqnum = NumberAfter(off[n - 1])
    BY <1>1, <2>1 DEF Stream
  <2> QED BY <1>2, <2>2, Neighbours
<1> QED BY <1>2, <1>3, Neighbours

-----------------------------------------------------------------------------
(* What is on its way to the receiver *)

\* Receiving a datagram leaves a queue of which the same can be said.
LEMMA DataDropFirst ==
  ASSUME NEW q, NEW r, Len(q) \in Nat, Len(q) > 0, Len(r) = Len(q) - 1,
         \A j \in 1 .. Len(q) - 1 : r[j] = q[j + 1],
         NEW off, NEW h, DataOnWay(q, off, h)
  PROVE  DataOnWay(r, off, h)
<1>1. \A j \in 1 .. Len(r) : j + 1 \in 1 .. Len(q) /\ r[j] = q[j + 1]
  OBVIOUS
<1>2. \A j, k \in 1 .. Len(r) : j < k => j + 1 < k + 1
  OBVIOUS
<1>3. \A j \in 1 .. Len(r) : IsData(r[j]) =>
        \/ Len(off) > 0 /\ r[j].msg = off[Len(off)]
        \/ Len(off) > 1 /\ h < Len(off) /\ r[j].msg = off[Len(off) - 1]
  BY <1>1 DEF DataOnWay
<1>4. ASSUME NEW j \in 1 .. Len(r), NEW k \in 1 .. Len(r), j < k,
             IsData(r[j]), IsData(r[k]), Len(off) > 0, r[j].msg = off[Len(off)]
      PROVE  r[k].msg = off[Len(off)]
  <2>1. /\ j + 1 \in 1 .. Len(q) /\ r[j] = q[j + 1]
        /\ k + 1 \in 1 .. Len(q) /\ r[k] = q[k + 1]
        /\ j + 1 < k + 1
    BY <1>1, <1>2, <1>4
  <2> QED BY <1>4, <2>1 DEF DataOnWay
<1> QED BY <1>3, <1>4 DEF DataOnWay

\* A copy of the last message, or a datagram that carries none, may be added.
LEMMA DataAppend ==
  ASSUME NEW q \in Seq(Datagram), NEW r, NEW m \in Message, SentTo(q, r, m),
         NEW off \in Seq(Message), NEW h, DataOnWay(q, off, h),
         m.flags \in {"FIN", "ACK"} \/ (Len(off) > 0 /\ m = off[Len(off)])
  PROVE  DataOnWay(r, off, h)
<1>1. CASE r = q
  BY <1>1
<1>2. CASE \E d \in Datagram : r = Append(q, d) /\ (IsValid(d) => d.msg = m)
  <2>1. PICK d \in Datagram : r = Append(q, d) /\ (IsValid(d) => d.msg = m)
    BY <1>2
  <2>2. /\ Len(q) \in Nat /\ Len(r) = Len(q) + 1
        /\ \A j \in 1 .. Len(r) :
             \/ j \in 1 .. Len(q) /\ r[j] = q[j]
             \/ j = Len(q) + 1 /\ r[j] = d
    BY <2>1, LastOf
  <2>3. IsData(d) => Len(off) > 0 /\ d.msg = off[Len(off)]
    BY <2>1 DEF IsData
  <2>4. \A j, k \in 1 .. Len(r) : j < k => j \in 1 .. Len(q) /\ r[j] = q[j]
    BY <2>2
  <2> QED BY <2>2, <2>3, <2>4 DEF DataOnWay
<1> QED BY <1>1, <1>2 DEF SentTo

\* Once the last message has been queued, only copies of it follow.
LEMMA DataTaken ==
  ASSUME NEW q, NEW r, Len(q) \in Nat, Len(q) > 0, Len(r) = Len(q) - 1,
         \A j \in 1 .. Len(q) - 1 : r[j] = q[j + 1],
         NEW off, Len(off) > 0, NEW h, DataOnWay(q, off, h),
         IsData(q[1]), q[1].msg = off[Len(off)]
  PROVE  DataOnWay(r, off, Len(off))
<1>1. \A j \in 1 .. Len(r) : j + 1 \in 1 .. Len(q) /\ 1 < j + 1 /\ r[j] = q[j + 1]
  OBVIOUS
<1>2. 1 \in 1 .. Len(q)
  OBVIOUS
<1>3. \A j \in 1 .. Len(r) : IsData(r[j]) => r[j].msg = off[Len(off)]
  BY <1>1, <1>2 DEF DataOnWay
<1> QED BY <1>3 DEF DataOnWay

\* When the next message is offered, those on their way are copies of the last.
LEMMA DataOffer ==
  ASSUME NEW q, Len(q) \in Nat, NEW off \in Seq(Message), DataOnWay(q, off, Len(off)),
         NEW m \in Message, Len(off) > 0 => m # off[Len(off)]
  PROVE  DataOnWay(q, Append(off, m), Len(off))
<1> DEFINE n == Len(off)
           new == Append(off, m)
<1>1. /\ n \in Nat /\ Len(new) = n + 1 /\ new[n + 1] = m
      /\ n > 0 => new[n] = off[n]
  BY LenProperties, AppendProperties
<1>2. \A j \in 1 .. Len(q) : IsData(q[j]) => n > 0 /\ q[j].msg = off[n]
  BY DEF DataOnWay
<1> HIDE DEF new
<1>3. DataOnWay(q, new, n)
  BY <1>1, <1>2 DEF DataOnWay
<1> QED BY <1>3 DEF new

-----------------------------------------------------------------------------
(* What is on its way to the sender *)

\* Receiving a datagram leaves a queue of which the same can be said.
LEMMA AnswersDropFirst ==
  ASSUME NEW q, NEW r, Len(q) \in Nat, Len(q) > 0, Len(r) = Len(q) - 1,
         \A j \in 1 .. Len(q) - 1 : r[j] = q[j + 1],
         NEW off, NEW h, NEW c, AnswersOnWay(q, off, h, c)
  PROVE  AnswersOnWay(r, off, h, c)
<1>1. \A j \in 1 .. Len(r) : j + 1 \in 1 .. Len(q) /\ r[j] = q[j + 1]
  OBVIOUS
<1>2. \A j, k \in 1 .. Len(r) : j < k => j + 1 < k + 1
  OBVIOUS
<1>3. \A j \in 1 .. Len(r) : IsAck(r[j]) =>
        \/ r[j].msg.seqnum = NoNumber
        \/ Len(off) > 0 /\ h = Len(off) /\ r[j].msg.seqnum = off[Len(off)].seqnum
        \/ Len(off) > 1 /\ c < Len(off) /\ r[j].msg.seqnum = off[Len(off) - 1].seqnum
  BY <1>1 DEF AnswersOnWay
<1>4. ASSUME NEW j \in 1 .. Len(r), NEW k \in 1 .. Len(r), j < k,
             IsAck(r[j]), IsAck(r[k]), Len(off) > 1,
             r[j].msg.seqnum = off[Len(off)].seqnum
      PROVE  r[k].msg.seqnum # off[Len(off) - 1].seqnum
  <2>1. /\ j + 1 \in 1 .. Len(q) /\ r[j] = q[j + 1]
        /\ k + 1 \in 1 .. Len(q) /\ r[k] = q[k + 1]
        /\ j + 1 < k + 1
    BY <1>1, <1>2, <1>4
  <2> QED BY <1>4, <2>1 DEF AnswersOnWay
<1> QED BY <1>3, <1>4 DEF AnswersOnWay

\* A FIN, an answer of a recv() that has nothing, or the answer to the message
\* queued last may be added.
LEMMA AnswersAppend ==
  ASSUME FinSeqnum > 0, NEW q \in Seq(Datagram), NEW r, NEW m \in Message, SentTo(q, r, m),
         NEW off \in Seq(Message), Stream(off),
         NEW h \in Nat, NEW c \in Nat, c <= h, h <= Len(off), c >= Len(off) - 1,
         AnswersOnWay(q, off, h, c),
         \/ m.flags # "ACK"
         \/ m.seqnum = NoNumber
         \/ h > 0 /\ m.seqnum = off[h].seqnum
  PROVE  AnswersOnWay(r, off, h, c)
<1> DEFINE n == Len(off)
<1>0. n \in Nat
  BY LenProperties
<1>1. CASE r = q
  BY <1>1
<1>2. CASE \E d \in Datagram : r = Append(q, d) /\ (IsValid(d) => d.msg = m)
  <2>1. PICK d \in Datagram : r = Append(q, d) /\ (IsValid(d) => d.msg = m)
    BY <1>2
  <2>2. /\ Len(q) \in Nat /\ Len(r) = Len(q) + 1
        /\ \A j \in 1 .. Len(r) :
             \/ j \in 1 .. Len(q) /\ r[j] = q[j]
             \/ j = Len(q) + 1 /\ r[j] = d
    BY <2>1, LastOf
  <2>3. IsAck(d) => \/ d.msg.seqnum = NoNumber
                    \/ n > 0 /\ h = n /\ d.msg.seqnum = off[n].seqnum
                    \/ n > 1 /\ c < n /\ h = n - 1 /\ d.msg.seqnum = off[n - 1].seqnum
    BY <1>0, <2>1 DEF IsAck
  <2>4. n > 1 => /\ off[n].seqnum # NoNumber /\ off[n - 1].seqnum # NoNumber
                 /\ off[n - 1].seqnum # off[n].seqnum
    BY StreamNeighbours
  <2>5. \A j, k \in 1 .. Len(r) : j < k => j \in 1 .. Len(q) /\ r[j] = q[j]
    BY <2>2
  <2>6. h = n - 1 => \A j \in 1 .. Len(q) : IsAck(q[j]) /\ n > 1 =>
                       q[j].msg.seqnum # off[n].seqnum
    BY <1>0, <2>4 DEF AnswersOnWay
  <2>7. \A j \in 1 .. Len(r) : IsAck(r[j]) =>
           \/ r[j].msg.seqnum = NoNumber
           \/ n > 0 /\ h = n /\ r[j].msg.seqnum = off[n].seqnum
           \/ n > 1 /\ c < n /\ r[j].msg.seqnum = off[n - 1].seqnum
    BY <2>2, <2>3 DEF AnswersOnWay
  <2>8. ASSUME NEW j \in 1 .. Len(r), NEW k \in 1 .. Len(r), j < k,
               IsAck(r[j]), IsAck(r[k]), n > 1, r[j].msg.seqnum = off[n].seqnum
        PROVE  r[k].msg.seqnum # off[n - 1].seqnum
    <3>1. j \in 1 .. Len(q) /\ r[j] = q[j]
      BY <2>5, <2>8
    <3>2. CASE k \in 1 .. Len(q) /\ r[k] = q[k]
      BY <2>8, <3>1, <3>2 DEF AnswersOnWay
    <3>3. CASE r[k] = d
      BY <1>0, <2>3, <2>4, <2>6, <2>8, <3>1, <3>3
    <3> QED BY <2>2, <3>2, <3>3
  <2> QED BY <2>7, <2>8 DEF AnswersOnWay
<1> QED BY <1>1, <1>2 DEF SentTo

\* Once the last message has been queued, its answer may be on its way.
LEMMA AnswersTaken ==
  ASSUME NEW q, NEW off, NEW h, NEW c, h # Len(off), AnswersOnWay(q, off, h, c)
  PROVE  AnswersOnWay(q, off, Len(off), c)
BY DEF AnswersOnWay

\* Once the sender has seen it, no answer to the message before follows.
LEMMA AnswersSeen ==
  ASSUME NEW q, NEW r, Len(q) \in Nat, Len(q) > 0, Len(r) = Len(q) - 1,
         \A j \in 1 .. Len(q) - 1 : r[j] = q[j + 1],
         NEW off, NEW c, AnswersOnWay(q, off, Len(off), c),
         IsAck(q[1]), Len(off) > 0, q[1].msg.seqnum = off[Len(off)].seqnum
  PROVE  AnswersOnWay(r, off, Len(off), Len(off))
<1>1. \A j \in 1 .. Len(r) : j + 1 \in 1 .. Len(q) /\ 1 < j + 1 /\ r[j] = q[j + 1]
  OBVIOUS
<1>2. 1 \in 1 .. Len(q)
  OBVIOUS
<1>3. \A j \in 1 .. Len(r) : IsAck(r[j]) =>
        \/ r[j].msg.seqnum = NoNumber
        \/ r[j].msg.seqnum = off[Len(off)].seqnum
  BY <1>1, <1>2 DEF AnswersOnWay
<1>4. \A j \in 1 .. Len(r) : IsAck(r[j]) /\ Len(off) > 1 =>
        r[j].msg.seqnum # off[Len(off) - 1].seqnum
  BY <1>1, <1>2 DEF AnswersOnWay
<1> QED BY <1>3, <1>4 DEF AnswersOnWay

\* When the next message is offered, answers to the last are those to the one before.
LEMMA AnswersOffer ==
  ASSUME NEW q, Len(q) \in Nat, NEW off \in Seq(Message),
         AnswersOnWay(q, off, Len(off), Len(off)),
         NEW m \in Message, m.seqnum # NoNumber, Len(off) > 0 => m.seqnum # off[Len(off)].seqnum
  PROVE  AnswersOnWay(q, Append(off, m), Len(off), Len(off))
<1> DEFINE n == Len(off)
           new == Append(off, m)
<1>1. /\ n \in Nat /\ Len(new) = n + 1 /\ new[n + 1] = m
      /\ n > 0 => new[n] = off[n]
  BY LenProperties, AppendProperties
<1>2. \A j \in 1 .. Len(q) : IsAck(q[j]) =>
        q[j].msg.seqnum = NoNumber \/ (n > 0 /\ q[j].msg.seqnum = off[n].seqnum)
  BY <1>1 DEF AnswersOnWay
<1> HIDE DEF new
<1>3. AnswersOnWay(q, new, n, n)
  BY <1>1, <1>2 DEF AnswersOnWay
<1> QED BY <1>3 DEF new

\* FinsOnWay survives the receipt of a datagram and the sending of a message.
LEMMA FinsStay ==
  ASSUME NEW q \in Seq(Datagram), NEW r, FinsOnWay(q)
  PROVE  /\ LeftOf(q, r) => FinsOnWay(r)
         /\ \A m \in Message : SentTo(q, r, m) /\ (m.flags = "FIN" => m = Fin) => FinsOnWay(r)
<1>1. ASSUME LeftOf(q, r)  PROVE FinsOnWay(r)
  <2>1. Len(q) \in Nat
    BY LenProperties
  <2> QED BY <1>1, <2>1 DEF LeftOf, FinsOnWay
<1>2. ASSUME NEW m \in Message, SentTo(q, r, m), m.flags = "FIN" => m = Fin
      PROVE  FinsOnWay(r)
  <2>1. CASE r = q
    BY <2>1
  <2>2. ASSUME NEW d \in Datagram, r = Append(q, d), IsValid(d) => d.msg = m
        PROVE  FinsOnWay(r)
    <3>1. \A j \in 1 .. Len(r) :
            \/ j \in 1 .. Len(q) /\ r[j] = q[j]
            \/ j = Len(q) + 1 /\ r[j] = d
      BY <2>2, LastOf
    <3> QED BY <1>2, <2>2, <3>1 DEF FinsOnWay, HasFlag
  <2> QED BY <1>2, <2>1, <2>2 DEF SentTo
<1> QED BY <1>1, <1>2

\* DataOnWay and AnswersOnWay survive the receipt of a datagram.
LEMMA StillOnWay ==
  ASSUME NEW q \in Seq(Datagram), NEW r, LeftOf(q, r), NEW off, NEW h, NEW c
  PROVE  /\ DataOnWay(q, off, h) => DataOnWay(r, off, h)
         /\ AnswersOnWay(q, off, h, c) => AnswersOnWay(r, off, h, c)
<1>1. Len(q) \in Nat
  BY LenProperties
<1> QED BY <1>1, DataDropFirst, AnswersDropFirst DEF LeftOf

-----------------------------------------------------------------------------
(* The messages of send() *)

\* Fewer chunks hold fewer bytes.
LEMMA ChunksHold ==
  ASSUME NEW a \in Nat, NEW b \in Nat, a <= b
  PROVE  a * MaxData <= b * MaxData
<1>1. MaxData \in Nat
  BY MsgAssumption
<1>2. PICK d \in Nat : b = a + d
  BY SMT
<1>3. (a + d) * MaxData = a * MaxData + d * MaxData
  BY <1>1
<1>4. a * MaxData \in Nat /\ d * MaxData \in Nat
  BY <1>1
<1> QED BY <1>2, <1>3, <1>4

\* Within that bound acksend() is given a message of the stream.
LEMMA MsgForWellFormed ==
  ASSUME FinSeqnum > 0, NEW n \in Seqnum, NEW rest \in Seq(Byte), SendPlace(n, rest)
  PROVE  /\ WellFormed(MsgFor(n, rest)) /\ MsgFor(n, rest).seqnum = n
         /\ rest # << >> => NumberAfter(MsgFor(n, rest)) = n + 1 /\ n + 1 \in 1 .. FinSeqnum - 1
         /\ rest = << >> => NumberAfter(MsgFor(n, rest)) = 0
<1>1. CASE rest = << >>
  BY <1>1 DEF SendPlace, WellFormed, MsgFor, ControlMsg, NumberAfter
<1>2. CASE rest # << >>
  <2>1. MsgFor(n, rest).flags = "NONE" /\ MsgFor(n, rest).seqnum = n
    BY <1>2 DEF MsgFor, DataMsg
  <2>2. n + 1 < FinSeqnum
    <3>1. Len(rest) \in Nat /\ Len(rest) > 0
      BY <1>2, EmptySeq
    <3>2. n \in Nat /\ FinSeqnum \in Nat /\ FinSeqnum - 1 \in Nat /\ MaxData \in Nat
      BY MsgAssumption DEF Seqnum
    <3>3. n * MaxData \in Nat /\ (FinSeqnum - 1) * MaxData \in Nat
      BY <3>2
    <3>4. CASE FinSeqnum - 1 <= n
      <4>1. (FinSeqnum - 1) * MaxData <= n * MaxData
        BY <3>2, <3>4, ChunksHold
      <4> HIDE DEF SendPlace
      <4>2. n * MaxData + Len(rest) <= (FinSeqnum - 1) * MaxData
        BY DEF SendPlace
      <4> QED BY <3>1, <3>3, <4>1, <4>2
    <3> QED BY <3>2, <3>4
  <2>3. MsgFor(n, rest).data # << >>
    <3>1. Len(rest) \in Nat /\ Len(rest) > 0 /\ \A i \in 1 .. Len(rest) : rest[i] \in Byte
      BY <1>2, EmptySeq, ElementOfSeq
    <3>2. ChunkLen(rest) \in 1 .. Len(rest)
      BY <3>1, MsgAssumption DEF ChunkLen
    <3>3. Len(Chunk(rest)) = ChunkLen(rest)
      BY <3>1, <3>2, SubSeqProperties DEF Chunk
    <3> QED BY <1>2, <3>2, <3>3, EmptySeq DEF MsgFor, DataMsg
  <2> QED BY <1>2, <2>1, <2>2, <2>3, MsgAssumption DEF WellFormed, NumberAfter, Seqnum
<1> QED BY <1>1, <1>2

\* The bound stays when send() goes on to the next chunk.
LEMMA NextChunk ==
  ASSUME FinSeqnum > 0, NEW n \in Seqnum, NEW rest \in Seq(Byte), SendPlace(n, rest), rest # << >>
  PROVE  Succ(n) = n + 1 /\ SendPlace(Succ(n), Rest(rest))
<1>1. n + 1 \in 1 .. FinSeqnum - 1
  BY MsgForWellFormed
<1>2. n \in Nat /\ FinSeqnum - 1 \in Nat /\ MaxData \in Nat \ {0} /\ FinSeqnum <= SeqCount - 1
      /\ SeqCount \in Nat /\ FinSeqnum \in Nat
  BY <1>1, MsgAssumption DEF Seqnum
<1>3. Succ(n) = n + 1
  BY <1>1, <1>2 DEF Succ
<1>4. Len(rest) \in Nat /\ \A i \in 1 .. Len(rest) : rest[i] \in Byte
  BY LenProperties, ElementOfSeq
<1>5. Len(Rest(rest)) = Len(rest) - ChunkLen(rest)
  <2>1. ChunkLen(rest) \in Nat /\ ChunkLen(rest) <= Len(rest)
    BY <1>2, <1>4 DEF ChunkLen
  <2>2. \A i \in ChunkLen(rest) + 1 .. Len(rest) : rest[i] \in Byte
    BY <1>4, <2>1
  <2> QED BY <1>4, <2>1, <2>2, SubSeqProperties DEF Rest
<1>6. (n + 1) * MaxData = n * MaxData + MaxData /\ n * MaxData \in Nat
      /\ (FinSeqnum - 1) * MaxData \in Nat
  BY <1>2
<1>7. (n + 1) * MaxData + Len(Rest(rest)) <= (FinSeqnum - 1) * MaxData
  <2>1. CASE Len(rest) < MaxData
    <3>1. Len(Rest(rest)) = 0
      BY <1>4, <1>5, <2>1 DEF ChunkLen
    <3>2. (n + 1) * MaxData <= (FinSeqnum - 1) * MaxData
      BY <1>1, <1>2, ChunksHold
    <3> QED BY <1>2, <1>6, <3>1, <3>2
  <2>2. CASE ~(Len(rest) < MaxData)
    <3>1. Len(Rest(rest)) = Len(rest) - MaxData
      BY <1>5, <2>2 DEF ChunkLen
    <3>2. n * MaxData + Len(rest) <= (FinSeqnum - 1) * MaxData
      BY DEF SendPlace
    <3> QED BY <1>2, <1>4, <1>6, <3>1, <3>2
  <2> QED BY <2>1, <2>2
<1> QED BY <1>1, <1>3, <1>7 DEF SendPlace

\* A stream stays one when a message with the next number is added.
LEMMA StreamAppend ==
  ASSUME NEW ms \in Seq(Message), Stream(ms), NEW m \in Message, WellFormed(m),
         m.seqnum = NextNumber(ms)
  PROVE  Stream(Append(ms, m)) /\ NextNumber(Append(ms, m)) = NumberAfter(m)
<1> DEFINE n == Len(ms)
           new == Append(ms, m)
<1>1. /\ n \in Nat /\ Len(new) = n + 1 /\ new # << >> /\ new[n + 1] = m
      /\ \A k \in 1 .. n : new[k] = ms[k]
      /\ ms = << >> <=> n = 0
  BY LenProperties, AppendProperties, EmptySeq
<1> HIDE DEF new
<1>2. ASSUME NEW k \in 1 .. n + 1
      PROVE  /\ WellFormed(new[k])
             /\ new[k].seqnum = IF k = 1 THEN 0 ELSE NumberAfter(new[k - 1])
  <2>1. CASE k \in 1 .. n
    <3>1. k # 1 => k - 1 \in 1 .. n
      BY <1>1, <2>1
    <3> QED BY <1>1, <2>1, <3>1 DEF Stream
  <2>2. CASE k = n + 1
    BY <1>1, <2>2 DEF NextNumber
  <2> QED BY <1>1, <1>2, <2>1, <2>2
<1>3. Stream(new)
  BY <1>1, <1>2 DEF Stream
<1>4. NextNumber(new) = NumberAfter(m)
  BY <1>1 DEF NextNumber
<1> QED BY <1>3, <1>4 DEF new
=============================================================================
