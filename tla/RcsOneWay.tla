----------------------------- MODULE RcsOneWay -----------------------------
(***************************************************************************)
(* The use that the applications rcsapp-client and rcsapp-server and the   *)
(* tests client_main and server_main make of a connection: one side sends, *)
(* the other receives.  This module states why the transfer is then        *)
(* correct, as an inductive invariant of RcsLink.                          *)
(***************************************************************************)
EXTENDS RcsTransfer

CONSTANTS Sender, Receiver

\* The calls of either side.  Datagrams do not overtake each other.
SenderCall(call)    == call.op # "recv" /\ (call.op = "send" => SendArgument(call.data))
ReceiverCall(call)  == call.op # "send"

ASSUME OneWayAssumption ==
  /\ Socket = {Sender, Receiver} /\ Sender # Receiver
  /\ \A i \in DOMAIN Script[Sender] : SenderCall(Script[Sender][i])
  /\ \A i \in DOMAIN Script[Receiver] : ReceiverCall(Script[Receiver][i])
  /\ FinSeqnum > 0
  /\ Path # "any"

-----------------------------------------------------------------------------
(* The inductive invariant *)

Off == offered[Sender]
Acc == accepted[Receiver]

HandedOver ==
  /\ Stream(Off)
  /\ Len(Acc) <= Len(Off)
  /\ \A k \in 1 .. Len(Acc) : Acc[k] = Off[k]
  /\ confirmed[Sender] <= Len(Acc)
  /\ confirmed[Sender] \in {Len(Off) - 1, Len(Off)}

SenderPlace ==
  /\ pc[Sender] \in {"idle", "acksend", "gone"}
  /\ pc[Sender] = "gone" => isClosing[Sender]
  /\ pc[Sender] = "acksend" =>
       /\ Off # << >> /\ Off[Len(Off)] = Current(Sender)
       /\ confirmed[Sender] = Len(Off) - 1
       /\ SendPlace(sendSeqnum[Sender], unsent[Sender])
  /\ pc[Sender] = "idle" /\ ~isClosing[Sender] =>
       /\ confirmed[Sender] = Len(Off)
       /\ NextNumber(Off) = 0

ReceiverPlace ==
  /\ pc[Receiver] \in {"idle", "recv", "finalize", "gone"}
  /\ pc[Receiver] = "gone" => isClosing[Receiver]
  /\ pc[Receiver] = "recv" => recvSeqnum[Receiver] = NextNumber(Acc)
  /\ pc[Receiver] = "idle" /\ ~isClosing[Receiver] => NextNumber(Acc) = 0
  /\ pc[Receiver] = "finalize" =>
       /\ Acc # << >> /\ NextNumber(Acc) = 0
       /\ finAck[Receiver] \in {NoNumber, Acc[Len(Acc)].seqnum}

OneWayUse ==
  /\ endPoint[Sender] = Receiver /\ endPoint[Receiver] = Sender
  /\ \A i \in 1 .. Len(script[Sender]) : SenderCall(script[Sender][i])
  /\ \A i \in 1 .. Len(script[Receiver]) : ReceiverCall(script[Receiver][i])
  /\ offered[Receiver] = << >> /\ confirmed[Receiver] = 0 /\ accepted[Sender] = << >>

\* Messages go one way, and answers the other; a FIN may go either.
KindsOnWay(s, q) ==
  /\ FinsOnWay(q)
  /\ \A j \in 1 .. Len(q) : (IsAck(q[j]) => s = Sender) /\ (IsData(q[j]) => s = Receiver)

OnWay ==
  /\ \A s \in Socket : KindsOnWay(s, inbox[s])
  /\ DataOnWay(inbox[Receiver], Off, Len(Acc))
  /\ AnswersOnWay(inbox[Sender], Off, Len(Acc), confirmed[Sender])

\* Why stop-and-wait over 16-bit numbers that start again with every send()
\* hands each message over once: numbers of neighbours differ, and what is on
\* its way belongs to the last message or the one before, in that order.
OneWayInv ==
  /\ HandedOver
  /\ SenderPlace
  /\ ReceiverPlace
  /\ OneWayUse
  /\ OnWay

-----------------------------------------------------------------------------
\* The messages of the one send() after the other, as handed over.
OneWay == INSTANCE Handoff WITH
  offered <- offered[Sender], accepted <- accepted[Receiver], confirmed <- confirmed[Sender]

\* What acksend() and the peer's recv() promise of this direction.
HandsOff == OneWay!Spec
=============================================================================
