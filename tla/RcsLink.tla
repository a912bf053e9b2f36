------------------------------ MODULE RcsLink ------------------------------
(***************************************************************************)
(* Two RCS sockets joined to each other, as rcsAccept and rcsConnect leave *)
(* a child socket and its client: each has the other as its endpoint.      *)
(* Their applications make the calls of Script, which covers every         *)
(* behaviour of two applications as far as safety is concerned: whatever   *)
(* they call is some sequence of calls.                                    *)
(***************************************************************************)
EXTENDS RcsSocket

CONSTANTS Client, Server,
          Script    \* the calls of each socket's application

ASSUME LinkAssumption ==
  /\ Socket = {Client, Server} /\ Client # Server
  /\ Script \in [Socket -> Seq(Call)]

Peer == [s \in Socket |-> IF s = Client THEN Server ELSE Client]

Init ==
  /\ SocketInit
  /\ endPoint = Peer
  /\ script = Script

\* Both applications have made their last call.
Finished    == \A s \in Socket : script[s] = << >>
Terminating == Finished /\ UNCHANGED vars

Next == Terminating \/ \E s \in Socket : Step(s)

Spec == Init /\ [][Next]_vars

(***************************************************************************)
(* A thread that is not blocked is eventually scheduled.  ucpSendTo draws  *)
(* its evil anew for every datagram, so among endlessly many that a socket *)
(* sends some arrive intact and, when evil is done at all, some are lost.  *)
(***************************************************************************)
Fairness ==
  \A s \in Socket :
    /\ WF_vars(Step(s))
    /\ SF_vars(SendStep(s, "intact") \/ AnswerStep(s, "intact"))
    /\ "drop" \in Evil => SF_vars(SendStep(s, "drop") \/ AnswerStep(s, "drop"))

FairSpec == Spec /\ Fairness

-----------------------------------------------------------------------------
TypeOK ==
  /\ script \in [Socket -> Seq(Call)]
  /\ pc \in [Socket -> Place]
  /\ endPoint \in [Socket -> Addr \cup {Unset}]
  /\ fromEndpoint \in [Socket -> Addr]
  /\ timeout \in [Socket -> {0, RECV_TIMEOUT, PROTOCOL_TIMEOUT}]
  /\ isClosing \in [Socket -> BOOLEAN]
  /\ errno \in [Socket -> Errno]
  /\ sendSeqnum \in [Socket -> Seqnum]
  /\ unsent \in [Socket -> Seq(Byte)]
  /\ recvSeqnum \in [Socket -> Seqnum]
  /\ finAck \in [Socket -> Seqnum]
  /\ buffer \in [Socket -> Seq(Cell)]
  /\ inbox \in [Socket -> Seq(Datagram)]
  /\ offered \in [Socket -> Seq(Message)]
  /\ confirmed \in [Socket -> Nat]
  /\ accepted \in [Socket -> Seq(Message)]
  /\ returned \in [Socket -> Seq(Seq(Byte))]

\* A socket waits in the function its application's current call has led to.
InCall ==
  \A s \in Socket :
    /\ pc[s] = "acksend" => script[s] # << >> /\ Head(script[s]).op = "send"
    /\ pc[s] \in {"recv", "finalize"} => script[s] # << >> /\ Head(script[s]).op = "recv"

-----------------------------------------------------------------------------
(* Safety *)

\* What recv() queues is what the peer's send() handed to acksend(), in that
\* order, none missing and none twice, however datagrams are lost, spoilt,
\* repeated or answered late.
InOrder == \A s \in Socket : IsPrefix(accepted[Peer[s]], offered[s])

\* acksend() does not take a message for acknowledged before the peer's recv()
\* has queued it: stop-and-wait never runs ahead, whatever stale answers arrive.
AckedIsAccepted == \A s \in Socket : confirmed[s] <= Len(accepted[Peer[s]])

\* The bytes of the data messages among ms.
Payload(ms) == FlattenSeq([i \in DOMAIN ms |-> ms[i].data])

\* The bytes of a buffer, without the marks.
Unread(b) == FlattenSeq([i \in DOMAIN b |-> IF b[i] = Mark THEN << >> ELSE <<b[i]>>])

\* Every byte queued is read by the application once and in order, or is still
\* in the buffer: no recv() leaves a byte out, whatever its size argument.
NothingLost ==
  \A s \in Socket : FlattenSeq(returned[s]) \o Unread(buffer[s]) = Payload(accepted[s])

\* The arguments of send(), call by call; the other calls of s send nothing.
Argument(call) == IF call.op = "send" THEN call.data ELSE << >>
Sent(s) == [i \in DOMAIN Script[s] |-> Argument(Script[s][i])]

\* The places of the stream where one of the byte sequences bs ends.
Ends(bs) == {Len(FlattenSeq(SubSeq(bs, 1, k))) : k \in 0 .. Len(bs)}

\* No result of recv() runs over the place e of the stream.
NotStraddled(results, e) ==
  \A k \in 1 .. Len(results) :
    \/ e <= Len(FlattenSeq(SubSeq(results, 1, k - 1)))
    \/ e >= Len(FlattenSeq(SubSeq(results, 1, k)))

\* A recv() reads from one send() call only: no result runs over the end of
\* what a send() was given into the next one, however small its size argument.
OneSendPerRecv ==
  \A s \in Socket : \A e \in Ends(Sent(s)) : NotStraddled(returned[Peer[s]], e)

\* A recv() returns 0 only at the end of the stream: every byte whose message
\* the peer's send() saw acknowledged has been read before.
EofIsEnd ==
  \A s \in Socket :
    << >> \in Range(returned[Peer[s]]) =>
      IsPrefix(Payload(SubSeq(offered[s], 1, confirmed[s])),
               FlattenSeq(returned[Peer[s]]))

-----------------------------------------------------------------------------
(* The inductive invariant of the stream, which the three properties above *)
(* follow from where messages arrive in order.                             *)

\* Only data messages have a payload, also on their way.
PayloadIsData ==
  \A s \in Socket : \A j \in 1 .. Len(inbox[s]) :
    inbox[s][j].msg.flags # "NONE" => inbox[s][j].msg.data = << >>

\* A closed socket hears nothing; if it waits at all it spins in finalizeRecv().
ClosedIsDeaf ==
  \A s \in Socket : isClosing[s] => inbox[s] = << >> /\ pc[s] \notin {"recv", "acksend"}

\* recv() has returned 0 only when the socket was closed and all its bytes read.
ZeroAtEnd ==
  \A s \in Socket : << >> \in Range(returned[s]) => isClosing[s] /\ NoBytes(buffer[s])

\* The places of the stream where a send() ends: in the messages ms, and, from
\* where the application has read to, in the buffer b.
Cuts(ms)     == {Len(Payload(SubSeq(ms, 1, i))) : i \in {j \in 1 .. Len(ms) : ms[j].flags = "EOS"}}
Marks(b)     == {Len(Unread(SubSeq(b, 1, i))) : i \in {j \in 1 .. Len(b) : b[j] = Mark}}
BytesRead(s) == Len(FlattenSeq(returned[s]))

\* The buffer keeps a mark for each end of a send() that has not been read past,
\* so that no read() runs over one.
MarksKept ==
  \A s \in Socket : \A e \in Cuts(accepted[s]) :
    /\ e <= BytesRead(s) \/ e - BytesRead(s) \in Marks(buffer[s])
    /\ NotStraddled(returned[s], e)

\* The calls made, and where in the stream of s the k-th call ends.
CallsMade(s)    == Len(Script[s]) - Len(script[s])
SentUpTo(s, k)  == Len(FlattenSeq(SubSeq(Sent(s), 1, k)))
OfferedBytes(s) == Len(Payload(offered[s]))
IsCut(s, e)     == e = 0 \/ e \in Cuts(offered[s])

\* The calls still to make are the last ones of Script.
CallsLeft ==
  \A s \in Socket :
    /\ Len(script[s]) <= Len(Script[s])
    /\ script[s] = SubSeq(Script[s], CallsMade(s) + 1, Len(Script[s]))

\* Every send() that has returned ended in an EOS where its bytes end, except that
\* of the one a FIN interrupted, and of those after it, not all bytes went out.
SendsEnd ==
  \A s \in Socket :
    /\ \A k \in 0 .. Len(Script[s]) :
         IsCut(s, SentUpTo(s, k)) \/ SentUpTo(s, k) >= OfferedBytes(s)
    /\ ~isClosing[s] =>
         /\ \A k \in 0 .. CallsMade(s) : IsCut(s, SentUpTo(s, k))
         /\ pc[s] # "acksend" => OfferedBytes(s) = SentUpTo(s, CallsMade(s))
         /\ pc[s] = "acksend" =>
              /\ OfferedBytes(s) + Len(Rest(unsent[s])) = SentUpTo(s, CallsMade(s) + 1)
              /\ unsent[s] = << >> => IsCut(s, OfferedBytes(s))

StreamInv ==
  PayloadIsData /\ ClosedIsDeaf /\ NothingLost /\ ZeroAtEnd /\ MarksKept /\ CallsLeft /\ SendsEnd

-----------------------------------------------------------------------------
(* Refinement *)

FromClient == INSTANCE Handoff WITH
  offered <- offered[Client], accepted <- accepted[Server], confirmed <- confirmed[Client]
FromServer == INSTANCE Handoff WITH
  offered <- offered[Server], accepted <- accepted[Client], confirmed <- confirmed[Server]

\* acksend() and the peer's recv() hand messages over one at a time: a message
\* goes out first when the one before it has been queued, and is queued once.
ClientHandsOff == FromClient!Spec
ServerHandsOff == FromServer!Spec

-----------------------------------------------------------------------------
(* Liveness, under FairSpec *)

\* A send() returns: its last message is acknowledged or the peer has closed.
SendReturns == \A s \in Socket : pc[s] = "acksend" ~> pc[s] # "acksend"

\* A recv() returns once the peer has closed its socket.
RecvReturns ==
  \A s \in Socket :
    pc[s] \in {"recv", "finalize"} /\ pc[Peer[s]] = "gone" ~> pc[s] \notin {"recv", "finalize"}

\* A recv() that finds bytes of an earlier message in the buffer returns.
RemainderIsRead ==
  \A s \in Socket : pc[s] = "recv" /\ ~NoBytes(buffer[s]) ~> pc[s] # "recv"
=============================================================================
