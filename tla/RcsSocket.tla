----------------------------- MODULE RcsSocket -----------------------------
(***************************************************************************)
(* The RCS socket (a4/rcs_t.cc): a blocking, stop-and-wait message service *)
(* over UCP datagrams.  Every socket of the set Socket is driven by one    *)
(* thread, which makes the calls of script[s] one after the other.         *)
(*                                                                         *)
(* A thread only waits in recvfrom.  An action is therefore one return of  *)
(* recvfrom (a datagram, or the expiry of SO_RCVTIMEO) or one call of the  *)
(* application, with everything the thread does up to its next recvfrom.   *)
(* `pc' names the function that waits.  The message an action sends is     *)
(* given its `fate' by ucpSendTo.                                          *)
(***************************************************************************)
EXTENDS RcsStream, SequencesExt

CONSTANTS
  Socket,     \* the sockets, each with the address it is bound to
  Garbage,    \* what a sockaddr_in holds that nobody assigned
  Unset,      \* endPoint_ while hasEndpoint_ is false
  Capacity,   \* datagrams a UDP receive queue holds; the next one is dropped
  Path,       \* how datagrams travel, see below
  LingerOutlastsRetries  \* TRUE: 500 ms hold many 10 ms retransmissions

ASSUME SocketAssumption ==
  /\ Garbage \notin Socket /\ Unset \notin Socket \cup {Garbage}
  /\ Capacity \in Nat \ {0}
  /\ Path \in {"loopback", "fifo", "any"} /\ LingerOutlastsRetries \in BOOLEAN

(***************************************************************************)
(* On the loopback interface sendto puts the datagram into the receiver's  *)
(* queue, so recvfrom times out only when there is none.  On a "fifo" path *)
(* a datagram of `inbox' may still be on its way when recvfrom times out,  *)
(* and on "any" path a later one may overtake it.                          *)
(***************************************************************************)

RECV_TIMEOUT     == 10
PROTOCOL_TIMEOUT == 500

Errno == {"EAGAIN", "other"}
Place == {"idle", "acksend", "recv", "finalize", "gone"}
Addr  == Socket \cup {Garbage}

Call == [op : {"send"}, data : Seq(Byte)]
          \cup [op : {"recv"}, max : Nat \ {0}]
          \cup [op : {"close"}]

Datagram == [from : Socket, form : Form, msg : Message]

VARIABLES
  script,       \* calls the application has still to make, the current one first
  pc,           \* the function of the current call that waits for a datagram
  endPoint, fromEndpoint, timeout, isClosing, errno,
  sendSeqnum, unsent,          \* send(): sendSeqnum_, bytes from processedSize on
  recvSeqnum, finAck, buffer,  \* recv(): recvSeqnum_, finalizeRecv's ack, buffer_
  inbox,        \* datagrams sent to the socket and not received yet
  \* history: what the properties are about, never read by an action
  offered,      \* messages handed to acksend()
  confirmed,    \* how many of them acksend() saw answered
  accepted,     \* messages recv() queued
  returned      \* results of recv()

addrVars == <<endPoint, fromEndpoint>>
sendVars == <<sendSeqnum, unsent, offered, confirmed>>
recvVars == <<recvSeqnum, finAck, buffer, accepted, returned>>
vars == <<script, pc, addrVars, timeout, isClosing, errno, sendVars, recvVars, inbox>>

\* A socket as rcs_t() leaves it.  errno is the thread's, whatever came before.
SocketInit ==
  /\ pc = [s \in Socket |-> "idle"]
  /\ fromEndpoint = [s \in Socket |-> Garbage]
  /\ timeout = [s \in Socket |-> RECV_TIMEOUT]
  /\ isClosing = [s \in Socket |-> FALSE]
  /\ errno \in [Socket -> Errno]
  /\ sendSeqnum = [s \in Socket |-> 0]
  /\ unsent = [s \in Socket |-> << >>]
  /\ recvSeqnum = [s \in Socket |-> 0]
  /\ finAck = [s \in Socket |-> 0]
  /\ buffer = [s \in Socket |-> << >>]
  /\ inbox = [s \in Socket |-> << >>]
  /\ offered = [s \in Socket |-> << >>]
  /\ confirmed = [s \in Socket |-> 0]
  /\ accepted = [s \in Socket |-> << >>]
  /\ returned = [s \in Socket |-> << >>]

-----------------------------------------------------------------------------
(* Datagrams *)

Deliver(box, to, d) ==
  IF to \in Socket /\ ~isClosing[to] /\ Len(box[to]) < Capacity
  THEN [box EXCEPT ![to] = Append(@, d)]
  ELSE box

\* rawsend(): the queues `box' once s has sent m and it met this fate.  It goes to
\* endPoint_ as this step has it: a rawrecv() before may just have adopted it.
Rawsend(box, s, m, fate) ==
  IF fate = "drop" \/ isClosing[s]
  THEN box
  ELSE Deliver(box, endPoint'[s],
               [from |-> s, form |-> Received(m, fate).form, msg |-> Received(m, fate).msg])

(***************************************************************************)
(* close(): 2048 FINs.  Up to the one that arrives intact, which the peer  *)
(* acts on, at most one other is kept; all are lost when the queue of the  *)
(* peer is full.  ucpClose then discards the closing socket's own queue.   *)
(***************************************************************************)
FinBurst(box, s, fate) ==
  [Rawsend(Rawsend(box, s, Fin, fate), s, Fin, "intact") EXCEPT ![s] = << >>]

\* A datagram recvfrom may return now, and the queues without it.
MayArrive(s, i) == i \in DOMAIN inbox[s] /\ (Path # "any" => i = 1)
Without(s, i)   == [inbox EXCEPT ![s] = RemoveAt(@, i)]

\* rawrecv() records the source, and adopts it when there is no endpoint yet.
LearnSource(s, d) ==
  /\ fromEndpoint' = [fromEndpoint EXCEPT ![s] = d.from]
  /\ endPoint' = [endPoint EXCEPT ![s] = IF @ = Unset THEN d.from ELSE @]

(***************************************************************************)
(* recvfrom returns a datagram of no bytes as it reports an error: 0.      *)
(* rawrecv() then consults errno, which still says EAGAIN when an earlier  *)
(* recvfrom of this thread timed out, and reports a timeout; otherwise it  *)
(* reports one byte and delivers no message.                               *)
(***************************************************************************)
TakenForTimeout(s, d) == d.form = "empty" /\ errno[s] = "EAGAIN"

\* recvfrom gives up: rawrecv() returns 0 and adopts whatever source it knows.
TimesOut(s) ==
  /\ timeout[s] # 0 /\ ~isClosing[s]
  /\ Path = "loopback" => inbox[s] = << >>
  /\ errno' = [errno EXCEPT ![s] = "EAGAIN"]
  /\ endPoint' = [endPoint EXCEPT ![s] = IF @ = Unset THEN fromEndpoint[s] ELSE @]
  /\ UNCHANGED fromEndpoint

\* The end of a call of the application.
Calls(s, op) == pc[s] = "idle" /\ script[s] # << >> /\ Head(script[s]).op = op
Return(s)    == pc' = [pc EXCEPT ![s] = "idle"] /\ script' = [script EXCEPT ![s] = Tail(@)]

-----------------------------------------------------------------------------
(* send() and acksend() *)

\* The message acksend() is busy with.
Current(s) == MsgFor(sendSeqnum[s], unsent[s])

\* acksend(m) begins: the history records m and m goes out.
StartAcksend(s, n, rest, box, fate) ==
  /\ sendSeqnum' = [sendSeqnum EXCEPT ![s] = n]
  /\ unsent' = [unsent EXCEPT ![s] = rest]
  /\ offered' = [offered EXCEPT ![s] = Append(@, MsgFor(n, rest))]
  /\ inbox' = Rawsend(box, s, MsgFor(n, rest), fate)

CallSend(s, fate) ==
  /\ Calls(s, "send") /\ ~isClosing[s]
  /\ pc' = [pc EXCEPT ![s] = "acksend"]
  /\ UNCHANGED <<script, addrVars, timeout, isClosing, errno, confirmed, recvVars>>
  /\ StartAcksend(s, 0, Head(script[s]).data, inbox, fate)

\* Once the peer's FIN has arrived send() does nothing and reports success.
SendOnClosing(s) ==
  /\ Calls(s, "send") /\ isClosing[s]
  /\ sendSeqnum' = [sendSeqnum EXCEPT ![s] = 0]
  /\ Return(s)
  /\ UNCHANGED <<addrVars, timeout, isClosing, errno, unsent, offered, confirmed,
                 recvVars, inbox>>

\* Slip: any valid message is taken for the answer.
AnswersSlip(d, m) == IsValid(d)

\* The only test acksend() makes of the answer: the flags are not looked at.
Answers(d, m) == IsValid(d) /\ d.msg.seqnum = m.seqnum

AcksendTimeout(s, fate) ==
  /\ pc[s] = "acksend"
  /\ TimesOut(s)
  /\ inbox' = Rawsend(inbox, s, Current(s), fate)
  /\ UNCHANGED <<script, pc, timeout, isClosing, sendVars, recvVars>>

\* Anything that is no answer makes acksend() send again at once.
AcksendAgain(s, i, fate) ==
  /\ pc[s] = "acksend" /\ MayArrive(s, i)
  /\ LET d == inbox[s][i]
     IN  /\ ~Answers(d, Current(s)) /\ ~HasFlag(d, "FIN")
         /\ LearnSource(s, d)
         /\ inbox' = Rawsend(Without(s, i), s, Current(s), fate)
  /\ UNCHANGED <<script, pc, timeout, isClosing, errno, sendVars, recvVars>>

\* The answer to a data message: send() goes on with the next one.
AcksendNext(s, i, fate) ==
  /\ pc[s] = "acksend" /\ unsent[s] # << >> /\ MayArrive(s, i)
  /\ LET d == inbox[s][i]
     IN  /\ Answers(d, Current(s)) /\ ~HasFlag(d, "FIN")
         /\ LearnSource(s, d)
  /\ confirmed' = [confirmed EXCEPT ![s] = @ + 1]
  /\ StartAcksend(s, Succ(sendSeqnum[s]), Rest(unsent[s]), Without(s, i), fate)
  /\ UNCHANGED <<script, pc, timeout, isClosing, errno, recvVars>>

\* The answer to the EOS message: send() returns.
AcksendDone(s, i) ==
  /\ pc[s] = "acksend" /\ unsent[s] = << >> /\ MayArrive(s, i)
  /\ LET d == inbox[s][i]
     IN  /\ Answers(d, Current(s)) /\ ~HasFlag(d, "FIN")
         /\ LearnSource(s, d)
  /\ confirmed' = [confirmed EXCEPT ![s] = @ + 1]
  /\ inbox' = Without(s, i)
  /\ Return(s)
  /\ UNCHANGED <<timeout, isClosing, errno, sendSeqnum, unsent, offered, recvVars>>

\* A FIN: rawrecv() closes the socket, and send() returns the full length.
AcksendFin(s, i, fate) ==
  /\ pc[s] = "acksend" /\ MayArrive(s, i)
  /\ LET d == inbox[s][i]
     IN  /\ HasFlag(d, "FIN")
         /\ LearnSource(s, d)
         /\ confirmed' = [confirmed EXCEPT ![s] = IF Answers(d, Current(s)) THEN @ + 1 ELSE @]
  /\ isClosing' = [isClosing EXCEPT ![s] = TRUE]
  /\ inbox' = FinBurst(Without(s, i), s, fate)
  /\ sendSeqnum' = [sendSeqnum EXCEPT ![s] = IF unsent[s] = << >> THEN @ ELSE Succ(@)]
  /\ Return(s)
  /\ UNCHANGED <<timeout, errno, unsent, offered, recvVars>>

-----------------------------------------------------------------------------
(* recv() *)

\* Slip: recvSeqnum_ keeps the value the last recv() left.
CallRecvSlip(s) ==
  /\ Calls(s, "recv") /\ ~isClosing[s]
  /\ pc' = [pc EXCEPT ![s] = "recv"]
  /\ UNCHANGED <<script, addrVars, timeout, isClosing, errno, sendVars, recvVars, inbox>>

CallRecv(s) ==
  /\ Calls(s, "recv") /\ ~isClosing[s]
  /\ pc' = [pc EXCEPT ![s] = "recv"]
  /\ recvSeqnum' = [recvSeqnum EXCEPT ![s] = 0]
  /\ UNCHANGED <<script, addrVars, timeout, isClosing, errno, sendVars, finAck, buffer,
                 accepted, returned, inbox>>

\* Slip: a recv() that a FIN has ended returns 0 without a look at the buffer.
ReturnReadSlip(s) ==
  LET n     == Head(script[s]).max
      empty == NoBytes(buffer[s]) \/ pc[s] # "finalize"
  IN  /\ returned' = [returned EXCEPT ![s] =
                        Append(@, IF empty THEN << >> ELSE ReadBytes(buffer[s], n))]
      /\ buffer' = [buffer EXCEPT ![s] = IF empty THEN @ ELSE AfterRead(@, n)]
      /\ Return(s)

\* recv() returns what read() gives, or 0 when there is nothing to read.
ReturnRead(s) ==
  LET n     == Head(script[s]).max
      empty == NoBytes(buffer[s])
  IN  /\ returned' = [returned EXCEPT ![s] =
                        Append(@, IF empty THEN << >> ELSE ReadBytes(buffer[s], n))]
      /\ buffer' = [buffer EXCEPT ![s] = IF empty THEN @ ELSE AfterRead(@, n)]
      /\ Return(s)

RecvOnClosing(s) ==
  /\ Calls(s, "recv") /\ isClosing[s]
  /\ recvSeqnum' = [recvSeqnum EXCEPT ![s] = 0]
  /\ ReturnRead(s)
  /\ UNCHANGED <<addrVars, timeout, isClosing, errno, sendVars, finAck, accepted, inbox>>

RecvTimeout(s) ==
  /\ pc[s] = "recv"
  /\ TimesOut(s)
  /\ UNCHANGED <<script, pc, timeout, isClosing, sendVars, recvVars, inbox>>

RecvIgnore(s, i) ==
  /\ pc[s] = "recv" /\ MayArrive(s, i)
  /\ TakenForTimeout(s, inbox[s][i])
  /\ LearnSource(s, inbox[s][i])
  /\ inbox' = Without(s, i)
  /\ UNCHANGED <<script, pc, timeout, isClosing, errno, sendVars, recvVars>>

\* Slip: a valid message is queued whatever its number.
ExpectedSlip(s, d) == IsValid(d)

\* The only test recv() makes of a message it queues: not the flags, not the source.
Expected(s, d) == IsValid(d) /\ d.msg.seqnum = recvSeqnum[s]

\* rawsend(ack), then finalizeRecv(ack) when the message ends a send().
Acknowledge(s, i, n, fate) ==
  LET d == inbox[s][i]
  IN  /\ inbox' = Rawsend(Without(s, i), s, ControlMsg(n, "ACK"), fate)
      /\ IF HasFlag(d, "EOS")
         THEN /\ pc' = [pc EXCEPT ![s] = "finalize"]
              /\ timeout' = [timeout EXCEPT ![s] = PROTOCOL_TIMEOUT]
              /\ finAck' = [finAck EXCEPT ![s] = n]
         ELSE UNCHANGED <<pc, timeout, finAck>>

RecvAccept(s, i, fate) ==
  /\ pc[s] = "recv" /\ MayArrive(s, i)
  /\ LET d == inbox[s][i]
     IN  /\ Expected(s, d) /\ ~HasFlag(d, "FIN")
         /\ LearnSource(s, d)
         /\ buffer' = [buffer EXCEPT ![s] = QueueMessage(@, d.msg)]
         /\ accepted' = [accepted EXCEPT ![s] = Append(@, d.msg)]
  /\ recvSeqnum' = [recvSeqnum EXCEPT ![s] = Succ(@)]
  /\ Acknowledge(s, i, recvSeqnum[s], fate)
  /\ UNCHANGED <<script, isClosing, errno, sendVars, returned>>

\* Anything else is answered with the number before the expected one.
RecvReject(s, i, fate) ==
  /\ pc[s] = "recv" /\ MayArrive(s, i)
  /\ LET d == inbox[s][i]
     IN  /\ ~Expected(s, d) /\ ~HasFlag(d, "FIN") /\ ~TakenForTimeout(s, d)
         /\ LearnSource(s, d)
  /\ Acknowledge(s, i, Pred(recvSeqnum[s]), fate)
  /\ UNCHANGED <<script, isClosing, errno, sendVars, recvSeqnum, buffer, accepted, returned>>

\* A FIN closes the socket; one with the expected number is queued all the same.
RecvFin(s, i, fate) ==
  /\ pc[s] = "recv" /\ MayArrive(s, i)
  /\ LET d == inbox[s][i]
     IN  /\ HasFlag(d, "FIN")
         /\ LearnSource(s, d)
         /\ IF Expected(s, d)
            THEN /\ accepted' = [accepted EXCEPT ![s] = Append(@, d.msg)]
                 /\ recvSeqnum' = [recvSeqnum EXCEPT ![s] = Succ(@)]
            ELSE UNCHANGED <<accepted, recvSeqnum>>
  /\ isClosing' = [isClosing EXCEPT ![s] = TRUE]
  /\ inbox' = FinBurst(Without(s, i), s, fate)
  /\ ReturnRead(s)
  /\ UNCHANGED <<timeout, errno, sendVars, finAck>>

-----------------------------------------------------------------------------
(* finalizeRecv() *)

\* A message that starts the next send() ends the wait; it is not kept.
Opens(d) == d.form \in {"intact", "partial"} /\ OpensMessage(d.msg)

\* The 500 ms pass in silence, which takes a peer that is not retransmitting.
Silence(s) ==
  LingerOutlastsRetries =>
    /\ inbox[s] = << >>
    /\ \A p \in Socket : ~(pc[p] = "acksend" /\ endPoint[p] = s)

\* Back in recv(), which starts over unless there is something to read.
LeaveFinalize(s) ==
  /\ timeout' = [timeout EXCEPT ![s] = RECV_TIMEOUT]
  /\ IF NoBytes(buffer[s])
     THEN /\ pc' = [pc EXCEPT ![s] = "recv"]
          /\ recvSeqnum' = [recvSeqnum EXCEPT ![s] = 0]
          /\ UNCHANGED <<script, buffer, returned>>
     ELSE ReturnRead(s) /\ UNCHANGED recvSeqnum
  /\ UNCHANGED <<isClosing, sendVars, finAck, accepted>>

FinalizeTimeout(s) ==
  /\ pc[s] = "finalize" /\ Silence(s)
  /\ TimesOut(s)
  /\ LeaveFinalize(s)
  /\ UNCHANGED inbox

FinalizeLeave(s, i) ==
  /\ pc[s] = "finalize" /\ MayArrive(s, i)
  /\ LET d == inbox[s][i]
     IN  /\ Opens(d) \/ TakenForTimeout(s, d)
         /\ LearnSource(s, d)
  /\ inbox' = Without(s, i)
  /\ LeaveFinalize(s)
  /\ UNCHANGED errno

FinalizeAnswer(s, i, fate) ==
  /\ pc[s] = "finalize" /\ MayArrive(s, i)
  /\ LET d == inbox[s][i]
     IN  /\ ~Opens(d) /\ ~TakenForTimeout(s, d) /\ ~HasFlag(d, "FIN")
         /\ LearnSource(s, d)
  /\ inbox' = Rawsend(Without(s, i), s, ControlMsg(finAck[s], "ACK"), fate)
  /\ UNCHANGED <<script, pc, timeout, isClosing, errno, sendVars, recvVars>>

\* A FIN: rawrecv() closes the socket, but the loop does not look at isClosing_.
FinalizeFin(s, i, fate) ==
  /\ pc[s] = "finalize" /\ MayArrive(s, i)
  /\ HasFlag(inbox[s][i], "FIN")
  /\ LearnSource(s, inbox[s][i])
  /\ isClosing' = [isClosing EXCEPT ![s] = TRUE]
  /\ inbox' = FinBurst(Without(s, i), s, fate)
  /\ errno' = [errno EXCEPT ![s] = "other"]
  /\ UNCHANGED <<script, pc, timeout, sendVars, recvVars>>

\* From then on recvfrom fails with EBADF, which rawrecv() reports as one byte.
FinalizeSpin(s) ==
  /\ pc[s] = "finalize" /\ isClosing[s]
  /\ UNCHANGED vars

-----------------------------------------------------------------------------
(* rcsClose() *)

CallClose(s, fate) ==
  /\ Calls(s, "close")
  /\ pc' = [pc EXCEPT ![s] = "gone"]
  /\ script' = [script EXCEPT ![s] = Tail(@)]
  /\ isClosing' = [isClosing EXCEPT ![s] = TRUE]
  /\ UNCHANGED <<addrVars, timeout, errno, sendVars, recvVars>>
  /\ inbox' = FinBurst(inbox, s, fate)

-----------------------------------------------------------------------------
(* What the thread of s does next, and the steps among them that send. *)

SendStep(s, fate) ==
  \/ CallSend(s, fate)
  \/ AcksendTimeout(s, fate)
  \/ \E i \in DOMAIN inbox[s] : AcksendAgain(s, i, fate) \/ AcksendNext(s, i, fate)

AnswerStep(s, fate) ==
  \E i \in DOMAIN inbox[s] :
    RecvAccept(s, i, fate) \/ RecvReject(s, i, fate) \/ FinalizeAnswer(s, i, fate)

CloseStep(s, fate) ==
  \/ CallClose(s, fate)
  \/ \E i \in DOMAIN inbox[s] :
       AcksendFin(s, i, fate) \/ RecvFin(s, i, fate) \/ FinalizeFin(s, i, fate)

SilentStep(s) ==
  \/ SendOnClosing(s) \/ CallRecv(s) \/ RecvOnClosing(s) \/ RecvTimeout(s)
  \/ FinalizeTimeout(s) \/ FinalizeSpin(s)
  \/ \E i \in DOMAIN inbox[s] :
       AcksendDone(s, i) \/ RecvIgnore(s, i) \/ FinalizeLeave(s, i)

Step(s) ==
  \/ SilentStep(s)
  \/ \E fate \in Fate : SendStep(s, fate) \/ AnswerStep(s, fate) \/ CloseStep(s, fate)
=============================================================================
