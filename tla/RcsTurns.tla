------------------------------ MODULE RcsTurns ------------------------------
(***************************************************************************)
(* The use that applications make of a connection when they take turns:    *)
(* whenever one sends, the other receives.  This module states why both    *)
(* transfers are then correct, as an inductive invariant of RcsLink.       *)
(***************************************************************************)
EXTENDS RcsTransfer

(***************************************************************************)
(* The calls that the two applications make at the same turn: a send() and *)
(* a recv() that has room for all of it, unless one of them closes.        *)
(***************************************************************************)
Fills(send, recv) == send.op = "send" /\ recv.op = "recv" /\ Len(send.data) <= recv.max
Fit(a, b)         == a.op = "close" \/ b.op = "close" \/ Fills(a, b) \/ Fills(b, a)

ASSUME TurnsAssumption ==
  /\ \A s \in Socket : \A i \in DOMAIN Script[s] :
       Script[s][i].op = "send" => SendArgument(Script[s][i].data)
  /\ \A i \in DOMAIN Script[Client] \cap DOMAIN Script[Server] :
       Fit(Script[Client][i], Script[Server][i])
  /\ FinSeqnum > 0
  /\ Path # "any"

-----------------------------------------------------------------------------
(* Where a transfer has got to *)

\* All that s has offered is queued; so is, besides, the end of its send().
AllQueued(s) == Len(accepted[Peer[s]]) = Len(offered[s])
EndQueued(s) == pc[s] = "acksend" /\ unsent[s] = << >> /\ AllQueued(s)

\* A recv() that has its message and lingers for the peer's sake, which a recv()
\* that a repeated EOS has led into finalizeRecv() does not have.
Lingers(s) == pc[s] = "finalize" /\ ~NoBytes(buffer[s])

\* s has made as many calls as its peer, or one more.
SameTurn(s) == CallsMade(s) = CallsMade(Peer[s])
Ahead(s)    == CallsMade(s) = CallsMade(Peer[s]) + 1

\* The first message of the send() that s is in has not been queued.
Fresh(s) ==
  sendSeqnum[s] = 0 /\ unsent[s] = Head(script[s]).data /\ ~AllQueued(s)

-----------------------------------------------------------------------------
(* Messages and answers on the same way: off is what the peer of the socket  *)
(* has offered, h how many of these the socket has queued.                   *)

\* A datagram that carries the message offered last, which has not been queued.
IsNew(d, off, h) == IsData(d) /\ h < Len(off) /\ d.msg = off[Len(off)]

\* They do not mix: no answer is behind a new message, and behind answers come only
\* new messages that open a send().
Apart(q, off, h) ==
  /\ \A j, k \in 1 .. Len(q) : j < k /\ IsAck(q[k]) => ~IsNew(q[j], off, h)
  /\ \A j, k \in 1 .. Len(q) : j < k /\ IsAck(q[j]) /\ IsData(q[k]) =>
       IsNew(q[k], off, h) /\ q[k].msg.seqnum = 0

NoAnswers(q)   == \A j \in 1 .. Len(q) : ~IsAck(q[j])
OnlyOpeners(q) == \A j \in 1 .. Len(q) : IsData(q[j]) => q[j].msg.seqnum = 0
HasFin(q)      == \E j \in 1 .. Len(q) : HasFlag(q[j], "FIN")

-----------------------------------------------------------------------------
(* The inductive invariant, from the side of each socket s *)

\* What s has offered and its peer has queued.
HandedOver(s) ==
  /\ Stream(offered[s])
  /\ Len(accepted[Peer[s]]) <= Len(offered[s])
  /\ \A k \in 1 .. Len(accepted[Peer[s]]) : accepted[Peer[s]][k] = offered[s][k]
  /\ confirmed[s] <= Len(accepted[Peer[s]])
  /\ confirmed[s] \in {Len(offered[s]) - 1, Len(offered[s])}

\* Where its thread is as a sender, and as a receiver.
SenderPlace(s) ==
  /\ pc[s] = "acksend" =>
       /\ offered[s] # << >> /\ offered[s][Len(offered[s])] = Current(s)
       /\ confirmed[s] = Len(offered[s]) - 1
       /\ SendPlace(sendSeqnum[s], unsent[s])
  /\ pc[s] # "acksend" /\ ~isClosing[s] =>
       confirmed[s] = Len(offered[s]) /\ NextNumber(offered[s]) = 0

ReceiverPlace(s) ==
  /\ pc[s] = "recv" => recvSeqnum[s] = NextNumber(accepted[s])
  /\ pc[s] # "recv" /\ ~isClosing[s] => NextNumber(accepted[s]) = 0
  /\ pc[s] = "finalize" =>
       \/ finAck[s] = NoNumber
       \/ accepted[s] # << >> /\ finAck[s] = accepted[s][Len(accepted[s])].seqnum

\* What is on its way to s.
OnWay(s) ==
  /\ FinsOnWay(inbox[s])
  /\ DataOnWay(inbox[s], offered[Peer[s]], Len(accepted[s]))
  /\ AnswersOnWay(inbox[s], offered[s], Len(accepted[Peer[s]]), confirmed[s])
  /\ Apart(inbox[s], offered[Peer[s]], Len(accepted[s]))

\* No answer is on its way to a socket that is being sent to, and no message to one
\* that sends on, but for one that opens a send().
Unmixed(s) ==
  /\ NextNumber(accepted[s]) # 0 \/ (pc[Peer[s]] = "acksend" /\ AllQueued(Peer[s])) =>
       NoAnswers(inbox[s])
  /\ pc[s] = "acksend" /\ sendSeqnum[s] # 0 => OnlyOpeners(inbox[s])

\* A socket that has closed before its peer had nothing left to send.
ClosedAtEnd(s) ==
  /\ pc[s] = "gone" => isClosing[s]
  /\ isClosing[s] /\ ~isClosing[Peer[s]] => confirmed[s] = Len(offered[s])
  /\ HasFin(inbox[s]) => isClosing[Peer[s]]

\* s is at most one call ahead, which takes that its peer has only to return.
Turn(s) ==
  /\ CallsMade(s) <= CallsMade(Peer[s]) + 1
  /\ Ahead(s) => EndQueued(Peer[s]) \/ Lingers(Peer[s])
  /\ SameTurn(s) /\ EndQueued(s) => Lingers(Peer[s])
  /\ Lingers(Peer[s]) => Ahead(s) \/ (SameTurn(s) /\ EndQueued(s))
  /\ Ahead(s) /\ pc[s] = "acksend" => Fresh(s)

\* The bytes of a buffer without a mark among them.
OneRun(b) ==
  \A i, j, k \in 1 .. Len(b) : i < j /\ j < k /\ b[i] # Mark /\ b[k] # Mark => b[j] # Mark

\* A recv() finds no bytes and returns all of a send().
Buffered(s) ==
  /\ pc[s] \in {"idle", "acksend"} => NoBytes(buffer[s])
  /\ pc[s] = "recv" /\ recvSeqnum[s] = 0 => NoBytes(buffer[s])
  /\ pc[s] = "recv" /\ recvSeqnum[s] # 0 =>
       buffer[s] # << >> /\ buffer[s][Len(buffer[s])] # Mark
  /\ OneRun(buffer[s])
  /\ pc[s] = "finalize" => Len(Unread(buffer[s])) <= Head(script[s]).max

\* What s has not queued of the send() that its peer is in.
StillToCome(s) ==
  IF AllQueued(Peer[s]) THEN Len(Rest(unsent[Peer[s]])) ELSE Len(unsent[Peer[s]])

Portion(s) ==
  pc[Peer[s]] = "acksend" =>
    Len(Unread(buffer[s])) + StillToCome(s) = Len(Head(script[Peer[s]]).data)

\* Messages are handed over in order, whoever sends.
Transfers(s) ==
  /\ endPoint[s] = Peer[s]
  /\ HandedOver(s) /\ SenderPlace(s) /\ ReceiverPlace(s)
  /\ OnWay(s) /\ Unmixed(s) /\ ClosedAtEnd(s)

\* As long as both sockets are open their applications are at the same turn, or one
\* is a call ahead of the other, which has nothing more to wait for.
TakesTurns(s) ==
  /\ ~isClosing[s] => Buffered(s)
  /\ ~isClosing[s] /\ ~isClosing[Peer[s]] =>
       Turn(s) /\ (SameTurn(s) => Portion(s))

TurnsInv == \A s \in Socket : Transfers(s) /\ TakesTurns(s)
=============================================================================
