-------------------------- MODULE RcsOneWayProofs --------------------------
(***************************************************************************)
(* The proof that a one-way transfer hands every message over once and in  *)
(* order, whatever becomes of the datagrams.                               *)
(***************************************************************************)
EXTENDS RcsOneWay, RcsLinkProofs

-----------------------------------------------------------------------------
(* The two sockets *)

\* The two sockets are each other's only company.
LEMMA TwoSockets ==
  /\ Sender \in Socket /\ Receiver \in Socket /\ Sender # Receiver
  /\ \A s \in Socket : s = Sender \/ s = Receiver
  /\ Unset \notin Socket /\ FinSeqnum > 0 /\ Path # "any"
BY OneWayAssumption, SocketAssumption

-----------------------------------------------------------------------------
(* What a step leaves as it is *)

\* OneWayInv is inductive together with the types.
IInv == TypeInv /\ OneWayInv

\* A step of one direction's handoff, or none.
HandoffStep == OneWay!Next \/ UNCHANGED OneWay!handoffVars

\* What the types and the invariant say of the two histories.
LEMMA Histories ==
  ASSUME IInv
  PROVE  /\ Off \in Seq(Message) /\ Acc \in Seq(Message)
         /\ Len(Off) \in Nat /\ Len(Acc) \in Nat /\ confirmed[Sender] \in Nat
         /\ Off # << >> <=> Len(Off) > 0
         /\ Acc # << >> <=> Len(Acc) > 0
         /\ Len(Acc) = Len(Off) => Acc = Off
         /\ \A k \in 1 .. Len(Off) : Off[k] \in Message /\ WellFormed(Off[k])
         /\ inbox \in Queues /\ endPoint[Sender] = Receiver /\ endPoint[Receiver] = Sender
         /\ FinSeqnum > 0
<1>1. Off \in Seq(Message) /\ Acc \in Seq(Message) /\ confirmed[Sender] \in Nat
  BY TwoSockets DEF IInv, TypeInv, TypeOK, Off, Acc
<1>2. Len(Off) \in Nat /\ Len(Acc) \in Nat /\ \A k \in 1 .. Len(Off) : Off[k] \in Message
  BY <1>1, LenProperties, ElementOfSeq
<1>3. (Off # << >> <=> Len(Off) > 0) /\ (Acc # << >> <=> Len(Acc) > 0)
  BY <1>1, <1>2, EmptySeq
<1>4. Len(Acc) = Len(Off) => Acc = Off
  BY <1>1, SeqEqual DEF IInv, OneWayInv, HandedOver
<1> QED
  BY <1>1, <1>2, <1>3, <1>4, TwoSockets
  DEF IInv, TypeInv, TypeOK, Queues, OneWayInv, HandedOver, Stream, OneWayUse

\* The number recv() expects is no FIN's; the one before it is NoNumber or that
\* of the message queued last; and while one is missing, it is that one's.
LEMMA ExpectedNumber ==
  ASSUME IInv
  PROVE  /\ NextNumber(Acc) \in Seqnum /\ NextNumber(Acc) # FinSeqnum
         /\ \/ Pred(NextNumber(Acc)) = NoNumber
            \/ Len(Acc) > 0 /\ Pred(NextNumber(Acc)) = Off[Len(Acc)].seqnum
         /\ Len(Acc) < Len(Off) =>
              Len(Acc) = Len(Off) - 1 /\ NextNumber(Acc) = Off[Len(Off)].seqnum
         /\ Len(Acc) > 0 =>
              /\ Acc[Len(Acc)] = Off[Len(Acc)] /\ NextNumber(Acc) = NumberAfter(Off[Len(Acc)])
              /\ NextNumber(Acc) # Off[Len(Acc)].seqnum
<1> USE Histories
<1>1. /\ Stream(Off) /\ Len(Acc) <= Len(Off) /\ \A k \in 1 .. Len(Acc) : Acc[k] = Off[k]
      /\ confirmed[Sender] <= Len(Acc) /\ confirmed[Sender] \in {Len(Off) - 1, Len(Off)}
  BY DEF IInv, OneWayInv, HandedOver
<1>2. Len(Acc) < Len(Off) => Len(Acc) = Len(Off) - 1
  BY <1>1
<1>3. CASE Len(Acc) = 0
  <2>1. NextNumber(Acc) = 0 /\ Pred(0) = NoNumber
    BY <1>3 DEF NextNumber, Pred, NoNumber
  <2>2. Len(Off) > 0 => Off[1].seqnum = 0
    BY <1>1 DEF Stream
  <2>3. 0 \in Seqnum /\ 0 # FinSeqnum
    BY MsgAssumption, OneWayAssumption DEF Seqnum
  <2> QED BY <1>2, <1>3, <2>1, <2>2, <2>3
<1>4. CASE Len(Acc) > 0
  <2> DEFINE h == Len(Acc)
  <2>1. Acc[h] = Off[h] /\ NextNumber(Acc) = NumberAfter(Off[h])
    BY <1>1, <1>4 DEF NextNumber
  <2>2. h \in 1 .. Len(Off)
    BY <1>1, <1>4
  <2>3. Off[h] \in Message /\ WellFormed(Off[h])
    BY <2>2
  <2>4. Len(Acc) < Len(Off) => Off[Len(Off)].seqnum = NumberAfter(Off[h])
    BY <1>1, <1>2, <1>4 DEF Stream
  <2> HIDE DEF h
  <2>5. /\ NumberAfter(Off[h]) \in Seqnum /\ NumberAfter(Off[h]) # FinSeqnum
        /\ NumberAfter(Off[h]) # Off[h].seqnum
        /\ Pred(NumberAfter(Off[h])) \in {NoNumber, Off[h].seqnum}
    BY <2>3, Neighbours
  <2> QED BY <1>2, <1>4, <2>1, <2>4, <2>5 DEF h
<1> QED BY <1>3, <1>4

\* A step that leaves what SenderPlace speaks of leaves SenderPlace.
LEMMA SenderStays ==
  ASSUME SenderPlace,
         pc'[Sender] = pc[Sender], isClosing'[Sender] = isClosing[Sender],
         sendSeqnum'[Sender] = sendSeqnum[Sender], unsent'[Sender] = unsent[Sender],
         offered'[Sender] = offered[Sender], confirmed'[Sender] = confirmed[Sender]
  PROVE  SenderPlace'
BY DEF SenderPlace, Off, Current

\* The same of ReceiverPlace.
LEMMA ReceiverStays ==
  ASSUME ReceiverPlace,
         pc'[Receiver] = pc[Receiver], isClosing'[Receiver] = isClosing[Receiver],
         recvSeqnum'[Receiver] = recvSeqnum[Receiver], finAck'[Receiver] = finAck[Receiver],
         accepted'[Receiver] = accepted[Receiver]
  PROVE  ReceiverPlace'
BY DEF ReceiverPlace, Acc

\* A step that leaves the histories leaves what is handed over.
LEMMA HistoriesStay ==
  ASSUME HandedOver, offered'[Sender] = offered[Sender],
         accepted'[Receiver] = accepted[Receiver], confirmed'[Sender] = confirmed[Sender]
  PROVE  HandedOver' /\ HandoffStep
BY DEF HandedOver, Off, Acc, HandoffStep, OneWay!handoffVars

\* A socket that knows its peer keeps it, whatever arrives or fails to.
LEMMA EndPointStays ==
  ASSUME IInv, NEW s \in Socket
  PROVE  /\ \A d \in Datagram : LearnSource(s, d) => endPoint' = endPoint
         /\ TimesOut(s) => endPoint' = endPoint
<1>1. endPoint[s] # Unset
  BY TwoSockets, Histories
<1> QED BY <1>1 DEF LearnSource, TimesOut, IInv, TypeInv, TypeOK

\* Calls are made in order, and the receiver sends nothing of its own.
LEMMA UseStays ==
  ASSUME IInv, endPoint' = endPoint,
         \/ script' = script
         \/ \E s \in Socket : script[s] # << >> /\ script' = [script EXCEPT ![s] = Tail(@)],
         offered'[Receiver] = offered[Receiver], confirmed'[Receiver] = confirmed[Receiver],
         accepted'[Sender] = accepted[Sender]
  PROVE  OneWayUse'
<1> USE DEF IInv, OneWayInv, OneWayUse
<1>1. CASE script' = script
  BY <1>1
<1>2. ASSUME NEW s \in Socket, script[s] # << >>, script' = [script EXCEPT ![s] = Tail(@)]
      PROVE  OneWayUse'
  <2>1. /\ Len(Tail(script[s])) = Len(script[s]) - 1 /\ Len(script[s]) \in Nat
        /\ \A i \in 1 .. Len(Tail(script[s])) : Tail(script[s])[i] = script[s][i + 1]
    BY <1>2, HeadTailProperties, LenProperties DEF TypeInv, TypeOK
  <2>2. \A i \in 1 .. Len(Tail(script[s])) : i + 1 \in 1 .. Len(script[s])
    BY <2>1
  <2>3. script \in [Socket -> Seq(Call)]
    BY DEF TypeInv, TypeOK
  <2>4. \A p \in Socket : script'[p] = IF p = s THEN Tail(script[s]) ELSE script[p]
    BY <1>2, <2>3
  <2>5. \A p \in Socket : \A i \in 1 .. Len(script'[p]) :
          \E k \in 1 .. Len(script[p]) : script'[p][i] = script[p][k]
    <3>1. ASSUME NEW i \in 1 .. Len(script'[s])
          PROVE  \E k \in 1 .. Len(script[s]) : script'[s][i] = script[s][k]
      <4>1. script'[s] = Tail(script[s])
        BY <2>4
      <4>2. i \in 1 .. Len(Tail(script[s]))
        BY <4>1
      <4>3. script'[s][i] = script[s][i + 1] /\ i + 1 \in 1 .. Len(script[s])
        BY <2>1, <2>2, <4>1, <4>2
      <4> QED BY <4>3
    <3> QED BY <2>4, <3>1
  <2>6. \A i \in 1 .. Len(script'[Sender]) : SenderCall(script'[Sender][i])
    BY <2>5, TwoSockets
  <2>7. \A i \in 1 .. Len(script'[Receiver]) : ReceiverCall(script'[Receiver][i])
    BY <2>5, TwoSockets
  <2> QED BY <2>6, <2>7
<1> QED BY <1>1, <1>2

-----------------------------------------------------------------------------
(* What a step leaves on its way *)

\* The kinds of datagrams that go to s stay what they are.
LEMMA KindsStay ==
  ASSUME NEW s, NEW q \in Seq(Datagram), NEW r, KindsOnWay(s, q)
  PROVE  /\ LeftOf(q, r) => KindsOnWay(s, r)
         /\ \A m \in Message :
              /\ SentTo(q, r, m) /\ (m.flags = "FIN" => m = Fin)
              /\ m.flags = "ACK" => s = Sender
              /\ m.flags \notin {"FIN", "ACK"} => s = Receiver
              => KindsOnWay(s, r)
<1>0. FinsOnWay(q)
  BY DEF KindsOnWay
<1>1. ASSUME LeftOf(q, r)  PROVE KindsOnWay(s, r)
  <2>1. Len(q) \in Nat
    BY LenProperties
  <2>2. FinsOnWay(r)
    BY <1>0, <1>1, FinsStay
  <2> QED BY <1>1, <2>1, <2>2 DEF LeftOf, KindsOnWay
<1>2. ASSUME NEW m \in Message, SentTo(q, r, m), m.flags = "FIN" => m = Fin,
             m.flags = "ACK" => s = Sender, m.flags \notin {"FIN", "ACK"} => s = Receiver
      PROVE  KindsOnWay(s, r)
  <2>1. FinsOnWay(r)
    BY <1>0, <1>2, FinsStay
  <2>2. CASE r = q
    BY <2>2
  <2>3. ASSUME NEW d \in Datagram, r = Append(q, d), IsValid(d) => d.msg = m
        PROVE  KindsOnWay(s, r)
    <3>1. \A j \in 1 .. Len(r) :
            \/ j \in 1 .. Len(q) /\ r[j] = q[j]
            \/ j = Len(q) + 1 /\ r[j] = d
      BY <2>3, LastOf
    <3> QED BY <1>2, <2>1, <2>3, <3>1 DEF KindsOnWay, IsAck, IsData
  <2> QED BY <1>2, <2>2, <2>3 DEF SentTo
<1> QED BY <1>1, <1>2

\* Receiving, without sending, leaves what is on its way.
LEMMA ReceiptOnWay ==
  ASSUME IInv, NEW box \in Queues, inbox' = box,
         LeftOf(inbox[Sender], box[Sender]), LeftOf(inbox[Receiver], box[Receiver]),
         offered'[Sender] = offered[Sender],
         accepted'[Receiver] = accepted[Receiver], confirmed'[Sender] = confirmed[Sender]
  PROVE  OnWay'
<1>1. inbox[Sender] \in Seq(Datagram) /\ inbox[Receiver] \in Seq(Datagram)
  BY TwoSockets, Histories DEF Queues
<1>2. \A s \in Socket : KindsOnWay(s, box[s])
  BY <1>1, KindsStay, TwoSockets DEF IInv, OneWayInv, OnWay
<1>3. /\ DataOnWay(box[Receiver], Off, Len(Acc))
      /\ AnswersOnWay(box[Sender], Off, Len(Acc), confirmed[Sender])
  BY <1>1, StillOnWay DEF IInv, OneWayInv, OnWay
<1> QED BY <1>2, <1>3 DEF OnWay, Off, Acc

\* Nor does it change when the sender repeats its last message.
LEMMA RepeatOnWay ==
  ASSUME IInv, endPoint' = endPoint,
         NEW box \in Queues, NEW fate \in Fate, Len(Off) > 0,
         LeftOf(inbox[Sender], box[Sender]), box[Receiver] = inbox[Receiver],
         inbox' = Rawsend(box, Sender, Off[Len(Off)], fate),
         offered'[Sender] = offered[Sender],
         accepted'[Receiver] = accepted[Receiver], confirmed'[Sender] = confirmed[Sender]
  PROVE  OnWay'
<1> DEFINE m == Off[Len(Off)]
<1>1. inbox[Sender] \in Seq(Datagram) /\ inbox[Receiver] \in Seq(Datagram)
  BY TwoSockets, Histories DEF Queues
<1>2. m \in Message /\ m.flags \in {"NONE", "EOS"}
  BY Histories, Neighbours
<1>3. SentTo(inbox[Receiver], inbox'[Receiver], m) /\ inbox'[Sender] = box[Sender]
  BY <1>2, RawsendQueues, TwoSockets, Histories
<1>4. \A s \in Socket : KindsOnWay(s, inbox'[s])
  BY <1>1, <1>2, <1>3, KindsStay, TwoSockets DEF IInv, OneWayInv, OnWay
<1>5. DataOnWay(inbox'[Receiver], Off, Len(Acc))
  BY <1>1, <1>2, <1>3, DataAppend, Histories DEF IInv, OneWayInv, OnWay
<1>6. AnswersOnWay(inbox'[Sender], Off, Len(Acc), confirmed[Sender])
  BY <1>1, <1>3, StillOnWay DEF IInv, OneWayInv, OnWay
<1> QED BY <1>4, <1>5, <1>6 DEF OnWay, Off, Acc

\* Nor when the receiver answers the message it has queued last, or with NoNumber.
LEMMA AnswerOnWay ==
  ASSUME IInv, endPoint' = endPoint,
         NEW box \in Queues, NEW fate \in Fate, NEW n \in Seqnum,
         n = NoNumber \/ (Len(Acc) > 0 /\ n = Off[Len(Acc)].seqnum),
         LeftOf(inbox[Receiver], box[Receiver]), box[Sender] = inbox[Sender],
         inbox' = Rawsend(box, Receiver, ControlMsg(n, "ACK"), fate),
         offered'[Sender] = offered[Sender],
         accepted'[Receiver] = accepted[Receiver], confirmed'[Sender] = confirmed[Sender]
  PROVE  OnWay'
<1> DEFINE m == ControlMsg(n, "ACK")
<1>1. inbox[Sender] \in Seq(Datagram) /\ inbox[Receiver] \in Seq(Datagram)
  BY TwoSockets, Histories DEF Queues
<1>2. m \in Message /\ m.flags = "ACK" /\ m.seqnum = n
  BY MessageTypes DEF ControlMsg, Flag
<1> HIDE DEF m
<1>3. SentTo(inbox[Sender], inbox'[Sender], m) /\ inbox'[Receiver] = box[Receiver]
  BY <1>2, RawsendQueues, TwoSockets, Histories DEF m
<1>4. \A s \in Socket : KindsOnWay(s, inbox'[s])
  BY <1>1, <1>2, <1>3, KindsStay, TwoSockets DEF IInv, OneWayInv, OnWay
<1>5. DataOnWay(inbox'[Receiver], Off, Len(Acc))
  BY <1>1, <1>3, StillOnWay DEF IInv, OneWayInv, OnWay
<1>6. AnswersOnWay(inbox'[Sender], Off, Len(Acc), confirmed[Sender])
  <2>1. /\ Stream(Off) /\ Len(Acc) <= Len(Off) /\ confirmed[Sender] <= Len(Acc)
        /\ confirmed[Sender] >= Len(Off) - 1
    BY Histories DEF IInv, OneWayInv, HandedOver
  <2>2. AnswersOnWay(inbox[Sender], Off, Len(Acc), confirmed[Sender])
    BY DEF IInv, OneWayInv, OnWay
  <2> QED BY <1>1, <1>2, <1>3, <2>1, <2>2, AnswersAppend, Histories
<1> QED BY <1>4, <1>5, <1>6 DEF OnWay, Off, Acc

\* Nor when either socket closes.
LEMMA CloseOnWay ==
  ASSUME IInv, endPoint' = endPoint,
         NEW s \in Socket, NEW p \in Socket, s # p, NEW box \in Queues,
         box[p] = inbox[p], NEW fate \in Fate, inbox' = FinBurst(box, s, fate),
         offered'[Sender] = offered[Sender],
         accepted'[Receiver] = accepted[Receiver], confirmed'[Sender] = confirmed[Sender]
  PROVE  OnWay'
<1>1. inbox[p] \in Seq(Datagram) /\ endPoint'[s] = p
  BY TwoSockets, Histories DEF Queues
<1>2. Fin \in Message /\ Fin.flags = "FIN"
  BY MessageTypes DEF Fin, ControlMsg
<1>3. inbox'[s] = << >>
  BY <1>1, FinBurstQueues
<1>4. PICK r \in Seq(Datagram) : SentTo(inbox[p], r, Fin) /\ SentTo(r, inbox'[p], Fin)
  BY <1>1, FinBurstQueues
<1>5. KindsOnWay(p, inbox'[p])
  <2>1. KindsOnWay(p, r)
    BY <1>1, <1>2, <1>4, KindsStay DEF IInv, OneWayInv, OnWay
  <2> QED BY <1>2, <1>4, <2>1, KindsStay
<1>6. /\ KindsOnWay(s, inbox'[s])
      /\ DataOnWay(inbox'[s], Off, Len(Acc))
      /\ AnswersOnWay(inbox'[s], Off, Len(Acc), confirmed[Sender])
  BY <1>3, EmptySeq DEF KindsOnWay, FinsOnWay, DataOnWay, AnswersOnWay
<1>7. ASSUME p = Receiver  PROVE DataOnWay(inbox'[p], Off, Len(Acc))
  <2>1. DataOnWay(r, Off, Len(Acc))
    BY <1>1, <1>2, <1>4, <1>7, DataAppend, Histories DEF IInv, OneWayInv, OnWay
  <2> QED BY <1>2, <1>4, <2>1, DataAppend, Histories
<1>8. ASSUME p = Sender  PROVE AnswersOnWay(inbox'[p], Off, Len(Acc), confirmed[Sender])
  <2>1. /\ Stream(Off) /\ Len(Acc) <= Len(Off) /\ confirmed[Sender] <= Len(Acc)
        /\ confirmed[Sender] >= Len(Off) - 1
    BY Histories DEF IInv, OneWayInv, HandedOver
  <2>2. AnswersOnWay(inbox[Sender], Off, Len(Acc), confirmed[Sender])
    BY DEF IInv, OneWayInv, OnWay
  <2>3. AnswersOnWay(r, Off, Len(Acc), confirmed[Sender])
    BY <1>1, <1>2, <1>4, <1>8, <2>1, <2>2, AnswersAppend, Histories
  <2> QED BY <1>2, <1>4, <2>1, <2>3, AnswersAppend, Histories
<1>9. \A t \in Socket : KindsOnWay(t, inbox'[t])
  BY <1>5, <1>6, TwoSockets
<1>10. CASE s = Sender /\ p = Receiver
  BY <1>6, <1>7, <1>9, <1>10 DEF OnWay, Off, Acc
<1>11. CASE s = Receiver /\ p = Sender
  BY <1>6, <1>8, <1>9, <1>11 DEF OnWay, Off, Acc
<1> QED BY <1>10, <1>11, TwoSockets

-----------------------------------------------------------------------------
(* The steps of the sender *)

\* acksend() begins with the next message once the one before has been queued.
LEMMA OfferStep ==
  ASSUME IInv, endPoint' = endPoint, Len(Acc) = Len(Off),
         NEW n \in Seqnum, NEW rest \in Seq(Byte), SendPlace(n, rest), n = NextNumber(Off),
         NEW box \in Queues, box[Receiver] = inbox[Receiver], KindsOnWay(Sender, box[Sender]),
         AnswersOnWay(box[Sender], Off, Len(Off), Len(Off)),
         NEW fate \in Fate, StartAcksend(Sender, n, rest, box, fate),
         pc'[Sender] = "acksend", confirmed'[Sender] = Len(Off),
         accepted'[Receiver] = accepted[Receiver]
  PROVE  HandedOver' /\ SenderPlace' /\ OnWay' /\ HandoffStep
<1> DEFINE m == MsgFor(n, rest)
           new == Append(Off, m)
<1>1. /\ WellFormed(m) /\ m.seqnum = n /\ m \in Message /\ m.seqnum # NoNumber
      /\ m.flags \in {"NONE", "EOS"}
  BY MsgForWellFormed, MessageTypes, Neighbours, Histories
<1>2. offered'[Sender] = new /\ sendSeqnum'[Sender] = n /\ unsent'[Sender] = rest
  BY TwoSockets DEF StartAcksend, IInv, TypeInv, TypeOK, Off
<1>3. inbox' = Rawsend(box, Sender, m, fate)
  BY DEF StartAcksend
<1>4. /\ new \in Seq(Message) /\ Len(new) = Len(Off) + 1 /\ new # << >>
      /\ new[Len(Off) + 1] = m /\ \A k \in 1 .. Len(Off) : new[k] = Off[k]
  BY <1>1, Histories, AppendProperties
<1>5. Stream(new)
  BY <1>1, StreamAppend, Histories DEF IInv, OneWayInv, HandedOver
<1>6. Len(Off) > 0 => m.seqnum # Off[Len(Off)].seqnum
  <2>1. CASE Len(Off) > 0
    <3>1. NextNumber(Off) = NumberAfter(Off[Len(Off)])
      BY <2>1, Histories DEF NextNumber
    <3> QED BY <1>1, <2>1, <3>1, Histories, Neighbours
  <2> QED BY <2>1
<1> HIDE DEF m, new
<1>7. HandedOver'
  BY <1>2, <1>4, <1>5, Histories DEF IInv, OneWayInv, HandedOver, Off, Acc
<1>8. SenderPlace'
  BY <1>2, <1>4, Histories DEF SenderPlace, Off, Current, m
<1>9. OnWay'
  <2>1. inbox[Receiver] \in Seq(Datagram) /\ box[Sender] \in Seq(Datagram)
    BY TwoSockets, Histories DEF Queues
  <2>2. Len(inbox[Receiver]) \in Nat /\ Len(box[Sender]) \in Nat
    BY <2>1, LenProperties
  <2>3. SentTo(inbox[Receiver], inbox'[Receiver], m) /\ inbox'[Sender] = box[Sender]
    BY <1>1, <1>3, RawsendQueues, TwoSockets, Histories
  <2>4. DataOnWay(inbox[Receiver], new, Len(Off))
    BY <1>1, <1>6, <2>2, DataOffer, Histories DEF IInv, OneWayInv, OnWay, new
  <2>5. DataOnWay(inbox'[Receiver], new, Len(Off))
    BY <1>1, <1>4, <2>1, <2>3, <2>4, DataAppend, Histories
  <2>6. AnswersOnWay(inbox'[Sender], new, Len(Off), Len(Off))
    BY <1>1, <1>6, <2>2, <2>3, AnswersOffer, Histories DEF new
  <2>7. \A s \in Socket : KindsOnWay(s, inbox'[s])
    BY <1>1, <2>1, <2>3, KindsStay, TwoSockets DEF IInv, OneWayInv, OnWay
  <2> QED BY <1>2, <2>5, <2>6, <2>7 DEF OnWay, Off, Acc
<1>10. HandoffStep
  <2>1. SubSeq(new, 1, Len(Off)) = Off
    <3>1. \A k \in 1 .. Len(Off) : new[k] \in Message
      BY <1>4, Histories
    <3>2. /\ SubSeq(new, 1, Len(Off)) \in Seq(Message)
          /\ Len(SubSeq(new, 1, Len(Off))) = Len(Off)
          /\ \A k \in 1 .. Len(Off) : SubSeq(new, 1, Len(Off))[k] = new[k]
      BY <3>1, Histories, SubSeqProperties
    <3> QED BY <1>4, <3>2, Histories, SeqEqual
  <2>2. accepted[Receiver] = offered[Sender]
    BY Histories DEF Off, Acc
  <2> QED
    BY <1>2, <1>4, <2>1, <2>2
    DEF HandoffStep, OneWay!Next, OneWay!Offer, OneWay!AllTaken, Off
<1> QED BY <1>7, <1>8, <1>9, <1>10

\* A valid FIN has a number that neither side waits for.
LEMMA FinUnexpected ==
  ASSUME IInv, NEW s \in Socket, NEW i \in 1 .. Len(inbox[s]), HasFlag(inbox[s][i], "FIN")
  PROVE  /\ s = Sender /\ pc[s] = "acksend" => ~Answers(inbox[s][i], Current(s))
         /\ s = Receiver /\ pc[s] = "recv" => ~Expected(s, inbox[s][i])
<1>1. inbox[s][i].msg.seqnum = FinSeqnum
  BY DEF IInv, OneWayInv, OnWay, KindsOnWay, FinsOnWay, Fin, ControlMsg
<1>2. CASE s = Sender /\ pc[s] = "acksend"
  <2>1. Len(Off) > 0 /\ Current(s) = Off[Len(Off)]
    BY <1>2, Histories DEF IInv, OneWayInv, SenderPlace
  <2>2. Current(s).seqnum # FinSeqnum
    BY <2>1, Histories, Neighbours
  <2> QED BY <1>1, <1>2, <2>2, TwoSockets DEF Answers
<1>3. CASE s = Receiver /\ pc[s] = "recv"
  BY <1>1, <1>3, ExpectedNumber, TwoSockets DEF Expected, IInv, OneWayInv, ReceiverPlace
<1> QED BY <1>2, <1>3

\* What acksend() takes for the answer is the answer to its message: that has been
\* queued, and no answer to an earlier one follows.
LEMMA AnswerSeen ==
  ASSUME IInv, pc[Sender] = "acksend", NEW i \in DOMAIN inbox[Sender], MayArrive(Sender, i),
         Answers(inbox[Sender][i], Current(Sender)), ~HasFlag(inbox[Sender][i], "FIN")
  PROVE  /\ Len(Acc) = Len(Off) /\ confirmed[Sender] = Len(Off) - 1
         /\ Off[Len(Off)] = Current(Sender) /\ Len(Off) > 0
         /\ KindsOnWay(Sender, Without(Sender, i)[Sender])
         /\ AnswersOnWay(Without(Sender, i)[Sender], Off, Len(Off), Len(Off))
<1> DEFINE q == inbox[Sender]
           r == Without(Sender, i)[Sender]
           n == Len(Off)
<1>1. /\ n > 0 /\ Off[n] = Current(Sender) /\ confirmed[Sender] = n - 1
      /\ Stream(Off) /\ Len(Acc) <= n
  BY Histories DEF IInv, OneWayInv, SenderPlace, HandedOver
<1>2. /\ Len(q) > 0 /\ q[i] = q[1] /\ Len(r) = Len(q) - 1
      /\ \A j \in 1 .. Len(q) - 1 : r[j] = q[j + 1]
  BY FirstArrives, TwoSockets, Histories
<1>3. q \in Seq(Datagram) /\ Len(q) \in Nat
  BY TwoSockets, Histories, LenProperties DEF Queues
<1>4. IsAck(q[1]) /\ q[1].msg.seqnum = Off[n].seqnum
  <2>1. IsValid(q[1]) /\ q[1].msg.flags # "FIN" /\ q[1].msg.seqnum = Off[n].seqnum
    BY <1>1, <1>2 DEF Answers, HasFlag
  <2>2. 1 \in 1 .. Len(q) /\ ~IsData(q[1])
    BY <1>2, <1>3, TwoSockets DEF IInv, OneWayInv, OnWay, KindsOnWay
  <2> QED BY <2>1, <2>2 DEF IsAck, IsData
<1>5. AnswersOnWay(q, Off, Len(Acc), n - 1) /\ KindsOnWay(Sender, q)
  BY <1>1, TwoSockets DEF IInv, OneWayInv, OnWay
<1> HIDE DEF q, r
<1>6. Len(Acc) = n
  <2>1. /\ Off[n].seqnum # NoNumber
        /\ n > 1 => Off[n - 1].seqnum # Off[n].seqnum
    BY <1>1, StreamNeighbours, Histories
  <2>2. 1 \in 1 .. Len(q)
    BY <1>2, <1>3
  <2> QED BY <1>4, <1>5, <2>1, <2>2 DEF AnswersOnWay
<1>7. AnswersOnWay(r, Off, n, n)
  <2>1. AnswersOnWay(q, Off, n, n - 1)
    BY <1>5, <1>6
  <2> QED BY <1>1, <1>2, <1>3, <1>4, <2>1, AnswersSeen
<1>8. KindsOnWay(Sender, r)
  BY <1>2, <1>3, <1>5, KindsStay DEF LeftOf
<1> QED BY <1>1, <1>6, <1>7, <1>8 DEF r

\* A send() begins.
LEMMA CallSendStep ==
  ASSUME IInv, NEW fate \in Fate, CallSend(Sender, fate)
  PROVE  OneWayInv' /\ HandoffStep
<1> DEFINE bytes == Head(script[Sender]).data
<1>1. /\ script[Sender] # << >> /\ Head(script[Sender]).op = "send"
      /\ pc[Sender] = "idle" /\ ~isClosing[Sender]
  BY DEF CallSend, Calls
<1>2. bytes \in Seq(Byte)
  BY <1>1, CallTypes, TwoSockets DEF IInv, TypeInv, TypeOK
<1>3. bytes # << >> /\ Len(bytes) <= (FinSeqnum - 1) * MaxData
  <2>1. script[Sender] \in Seq(Call)
    BY TwoSockets DEF IInv, TypeInv, TypeOK
  <2>2. 1 \in 1 .. Len(script[Sender]) /\ Head(script[Sender]) = script[Sender][1]
    BY <1>1, <2>1, EmptySeq
  <2> QED
    BY <1>1, <2>2 DEF IInv, OneWayInv, OneWayUse, SenderCall, SendArgument
<1>4. SendPlace(0, bytes) /\ 0 \in Seqnum
  <2>1. 0 * MaxData = 0 /\ Len(bytes) \in Nat /\ 0 \in Seqnum
    BY <1>2, MsgAssumption, LenProperties DEF Seqnum
  <2>2. 0 * MaxData + Len(bytes) = Len(bytes)
    BY <2>1
  <2> QED BY <1>3, <2>1, <2>2 DEF SendPlace
<1>5. /\ Len(Acc) = Len(Off) /\ confirmed[Sender] = Len(Off) /\ NextNumber(Off) = 0
  BY <1>1, Histories DEF IInv, OneWayInv, HandedOver, SenderPlace
<1>6. KindsOnWay(Sender, inbox[Sender]) /\ AnswersOnWay(inbox[Sender], Off, Len(Off), Len(Off))
  BY <1>5, TwoSockets DEF IInv, OneWayInv, OnWay
<1>7. StartAcksend(Sender, 0, bytes, inbox, fate)
  BY DEF CallSend
<1>8. /\ pc' = [pc EXCEPT ![Sender] = "acksend"]
      /\ UNCHANGED <<script, endPoint, isClosing, confirmed, recvSeqnum, finAck, accepted>>
  BY DEF CallSend, addrVars, recvVars
<1>9. pc'[Sender] = "acksend" /\ pc'[Receiver] = pc[Receiver]
  BY <1>8, TwoSockets DEF IInv, TypeInv, TypeOK
<1> HIDE DEF bytes
<1>10. HandedOver' /\ SenderPlace' /\ OnWay' /\ HandoffStep
  BY <1>2, <1>4, <1>5, <1>6, <1>7, <1>8, <1>9, OfferStep, Histories
<1>11. ReceiverPlace'
  BY <1>8, <1>9, ReceiverStays DEF IInv, OneWayInv
<1>12. OneWayUse'
  <2>1. offered'[Receiver] = offered[Receiver]
    BY <1>7, TwoSockets DEF StartAcksend, IInv, TypeInv, TypeOK
  <2> QED BY <1>8, <2>1, UseStays
<1> QED BY <1>10, <1>11, <1>12 DEF OneWayInv

\* A send() on a socket that a FIN has closed.
LEMMA SendOnClosingStep ==
  ASSUME IInv, SendOnClosing(Sender)
  PROVE  OneWayInv' /\ HandoffStep
<1>1. /\ pc[Sender] = "idle" /\ isClosing[Sender] /\ script[Sender] # << >>
      /\ pc' = [pc EXCEPT ![Sender] = "idle"]
      /\ script' = [script EXCEPT ![Sender] = Tail(@)]
      /\ UNCHANGED <<endPoint, isClosing, offered, confirmed, recvSeqnum, finAck, accepted, inbox>>
  BY DEF SendOnClosing, Calls, Return, addrVars, recvVars
<1>2. pc'[Sender] = "idle" /\ pc'[Receiver] = pc[Receiver]
  BY <1>1, TwoSockets DEF IInv, TypeInv, TypeOK
<1>3. HandedOver' /\ HandoffStep
  BY <1>1, HistoriesStay DEF IInv, OneWayInv
<1>4. SenderPlace'
  BY <1>1, <1>2 DEF SenderPlace
<1>5. ReceiverPlace'
  BY <1>1, <1>2, ReceiverStays DEF IInv, OneWayInv
<1>6. OneWayUse'
  BY <1>1, UseStays, TwoSockets
<1>7. OnWay'
  BY <1>1, ReceiptOnWay, Histories DEF LeftOf
<1> QED BY <1>3, <1>4, <1>5, <1>6, <1>7 DEF OneWayInv

\* acksend() sends its message again, after a timeout or for want of an answer.
LEMMA AcksendRepeatStep ==
  ASSUME IInv, NEW fate \in Fate,
         \/ AcksendTimeout(Sender, fate)
         \/ \E i \in DOMAIN inbox[Sender] : AcksendAgain(Sender, i, fate)
  PROVE  OneWayInv' /\ HandoffStep
<1>1. /\ pc[Sender] = "acksend"
      /\ UNCHANGED <<script, pc, isClosing, sendSeqnum, unsent, offered, confirmed,
                     recvSeqnum, finAck, accepted>>
  BY DEF AcksendTimeout, AcksendAgain, sendVars, recvVars
<1>2. \E box \in Queues : /\ LeftOf(inbox[Sender], box[Sender])
                          /\ box[Receiver] = inbox[Receiver]
                          /\ inbox' = Rawsend(box, Sender, Current(Sender), fate)
  <2>1. CASE AcksendTimeout(Sender, fate)
    BY <2>1, Histories DEF AcksendTimeout, LeftOf
  <2>2. ASSUME NEW i \in DOMAIN inbox[Sender], AcksendAgain(Sender, i, fate)
        PROVE  /\ Without(Sender, i) \in Queues
               /\ LeftOf(inbox[Sender], Without(Sender, i)[Sender])
               /\ Without(Sender, i)[Receiver] = inbox[Receiver]
               /\ inbox' = Rawsend(Without(Sender, i), Sender, Current(Sender), fate)
    BY <2>2, FirstArrives, TwoSockets, Histories DEF AcksendAgain, LeftOf
  <2> QED BY <2>1, <2>2
<1>3. endPoint' = endPoint
  <2>1. CASE AcksendTimeout(Sender, fate)
    BY <2>1, EndPointStays, TwoSockets DEF AcksendTimeout
  <2>2. ASSUME NEW i \in DOMAIN inbox[Sender], AcksendAgain(Sender, i, fate)
        PROVE  endPoint' = endPoint
    BY <2>2, EndPointStays, TwoSockets, ArrivalTypes, Histories DEF AcksendAgain
  <2> QED BY <2>1, <2>2
<1>4. Len(Off) > 0 /\ Off[Len(Off)] = Current(Sender)
  BY <1>1, Histories DEF IInv, OneWayInv, SenderPlace
<1>5. HandedOver' /\ HandoffStep
  BY <1>1, HistoriesStay DEF IInv, OneWayInv
<1>6. SenderPlace' /\ ReceiverPlace'
  BY <1>1, SenderStays, ReceiverStays DEF IInv, OneWayInv
<1>7. OneWayUse'
  BY <1>1, <1>3, UseStays
<1>8. OnWay'
  BY <1>1, <1>2, <1>3, <1>4, RepeatOnWay
<1> QED BY <1>5, <1>6, <1>7, <1>8 DEF OneWayInv

\* The answer to a data message, and the next message.
LEMMA AcksendNextStep ==
  ASSUME IInv, NEW fate \in Fate, NEW i \in DOMAIN inbox[Sender], AcksendNext(Sender, i, fate)
  PROVE  OneWayInv' /\ HandoffStep
<1> DEFINE n == sendSeqnum[Sender]
           rest == unsent[Sender]
           box == Without(Sender, i)
<1>1. /\ pc[Sender] = "acksend" /\ rest # << >> /\ MayArrive(Sender, i)
      /\ Answers(inbox[Sender][i], Current(Sender)) /\ ~HasFlag(inbox[Sender][i], "FIN")
      /\ StartAcksend(Sender, Succ(n), Rest(rest), box, fate)
      /\ confirmed' = [confirmed EXCEPT ![Sender] = @ + 1]
      /\ UNCHANGED <<script, pc, isClosing, recvSeqnum, finAck, accepted>>
  BY DEF AcksendNext, recvVars
<1>2. endPoint' = endPoint
  BY EndPointStays, TwoSockets, ArrivalTypes, Histories DEF AcksendNext
<1>3. n \in Seqnum /\ rest \in Seq(Byte) /\ SendPlace(n, rest)
  BY <1>1, TwoSockets DEF IInv, TypeInv, TypeOK, OneWayInv, SenderPlace
<1>4. /\ Len(Acc) = Len(Off) /\ confirmed[Sender] = Len(Off) - 1
      /\ Off[Len(Off)] = Current(Sender) /\ Len(Off) > 0
      /\ KindsOnWay(Sender, box[Sender])
      /\ AnswersOnWay(box[Sender], Off, Len(Off), Len(Off))
  BY <1>1, AnswerSeen
<1>5. box \in Queues /\ box[Receiver] = inbox[Receiver]
  BY <1>1, FirstArrives, TwoSockets, Histories
<1>6. /\ Succ(n) = n + 1 /\ SendPlace(Succ(n), Rest(rest))
      /\ Succ(n) \in Seqnum /\ Rest(rest) \in Seq(Byte)
  BY <1>1, <1>3, NextChunk, SeqnumStep, ChunkTypes, Histories
<1>7. Succ(n) = NextNumber(Off)
  <2>1. NumberAfter(MsgFor(n, rest)) = n + 1
    BY <1>1, <1>3, MsgForWellFormed, Histories
  <2> QED BY <1>4, <1>6, <2>1, Histories DEF NextNumber, Current
<1>8. /\ confirmed'[Sender] = Len(Off) /\ confirmed'[Receiver] = confirmed[Receiver]
      /\ offered'[Receiver] = offered[Receiver]
  BY <1>1, <1>4, TwoSockets, Histories DEF StartAcksend, IInv, TypeInv, TypeOK
<1> HIDE DEF n, rest, box
<1>9. HandedOver' /\ SenderPlace' /\ OnWay' /\ HandoffStep
  BY <1>1, <1>2, <1>4, <1>5, <1>6, <1>7, <1>8, OfferStep
<1>10. ReceiverPlace'
  BY <1>1, ReceiverStays DEF IInv, OneWayInv
<1>11. OneWayUse'
  BY <1>1, <1>2, <1>8, UseStays
<1> QED BY <1>9, <1>10, <1>11 DEF OneWayInv

\* The answer to the EOS, and the return of send().
LEMMA AcksendDoneStep ==
  ASSUME IInv, NEW i \in DOMAIN inbox[Sender], AcksendDone(Sender, i)
  PROVE  OneWayInv' /\ HandoffStep
<1> DEFINE box == Without(Sender, i)
<1>1. /\ pc[Sender] = "acksend" /\ unsent[Sender] = << >> /\ MayArrive(Sender, i)
      /\ Answers(inbox[Sender][i], Current(Sender)) /\ ~HasFlag(inbox[Sender][i], "FIN")
      /\ inbox' = box
      /\ confirmed' = [confirmed EXCEPT ![Sender] = @ + 1]
      /\ pc' = [pc EXCEPT ![Sender] = "idle"]
      /\ script' = [script EXCEPT ![Sender] = Tail(@)]
      /\ UNCHANGED <<isClosing, offered, recvSeqnum, finAck, accepted>>
  BY DEF AcksendDone, Return, recvVars
<1>2. endPoint' = endPoint
  BY EndPointStays, TwoSockets, ArrivalTypes, Histories DEF AcksendDone
<1>3. /\ Len(Acc) = Len(Off) /\ confirmed[Sender] = Len(Off) - 1
      /\ Off[Len(Off)] = Current(Sender) /\ Len(Off) > 0
      /\ KindsOnWay(Sender, box[Sender])
      /\ AnswersOnWay(box[Sender], Off, Len(Off), Len(Off))
  BY <1>1, AnswerSeen
<1>4. box[Receiver] = inbox[Receiver]
  BY <1>1, FirstArrives, TwoSockets, Histories
<1> HIDE DEF box
<1>5. /\ confirmed'[Sender] = Len(Off) /\ confirmed'[Receiver] = confirmed[Receiver]
      /\ pc'[Sender] = "idle" /\ pc'[Receiver] = pc[Receiver]
  BY <1>1, <1>3, TwoSockets, Histories DEF IInv, TypeInv, TypeOK
<1>6. NextNumber(Off) = 0
  <2>1. MsgFor(sendSeqnum[Sender], unsent[Sender]).flags = "EOS"
    BY <1>1 DEF MsgFor, ControlMsg
  <2> QED BY <1>3, <2>1, Histories DEF NextNumber, NumberAfter, Current
<1>7. HandedOver'
  BY <1>1, <1>3, <1>5, Histories DEF IInv, OneWayInv, HandedOver, Off, Acc
<1>8. SenderPlace'
  BY <1>1, <1>5, <1>6 DEF SenderPlace, Off
<1>9. ReceiverPlace'
  BY <1>1, <1>5, ReceiverStays DEF IInv, OneWayInv
<1>10. OneWayUse'
  BY <1>1, <1>2, <1>5, UseStays, TwoSockets DEF IInv, TypeInv, InCall
<1>11. OnWay'
  <2>1. DataOnWay(box[Receiver], Off, Len(Acc)) /\ KindsOnWay(Receiver, box[Receiver])
    BY <1>4, TwoSockets DEF IInv, OneWayInv, OnWay
  <2> QED BY <1>1, <1>3, <1>5, <2>1, TwoSockets DEF OnWay, Off, Acc
<1>12. HandoffStep
  BY <1>1, <1>3, <1>5, Histories
  DEF HandoffStep, OneWay!Next, OneWay!Confirm, OneWay!AllTaken, Off, Acc
<1> QED BY <1>7, <1>8, <1>9, <1>10, <1>11, <1>12 DEF OneWayInv

\* A FIN during acksend().
LEMMA AcksendFinStep ==
  ASSUME IInv, NEW fate \in Fate, NEW i \in DOMAIN inbox[Sender], AcksendFin(Sender, i, fate)
  PROVE  OneWayInv' /\ HandoffStep
<1>1. /\ pc[Sender] = "acksend" /\ MayArrive(Sender, i) /\ HasFlag(inbox[Sender][i], "FIN")
      /\ inbox' = FinBurst(Without(Sender, i), Sender, fate)
      /\ pc' = [pc EXCEPT ![Sender] = "idle"]
      /\ script' = [script EXCEPT ![Sender] = Tail(@)]
      /\ isClosing' = [isClosing EXCEPT ![Sender] = TRUE]
      /\ UNCHANGED <<offered, recvSeqnum, finAck, accepted>>
  BY DEF AcksendFin, Return, recvVars
<1>2. endPoint' = endPoint
  BY EndPointStays, TwoSockets, ArrivalTypes, Histories DEF AcksendFin
<1>3. confirmed' = confirmed
  <2>1. i \in 1 .. Len(inbox[Sender])
    BY TwoSockets, Histories, LenProperties DEF Queues
  <2>2. ~Answers(inbox[Sender][i], Current(Sender))
    BY <1>1, <2>1, FinUnexpected, TwoSockets
  <2> QED BY <2>2, TwoSockets DEF AcksendFin, IInv, TypeInv, TypeOK
<1>4. Without(Sender, i) \in Queues /\ Without(Sender, i)[Receiver] = inbox[Receiver]
  BY <1>1, FirstArrives, TwoSockets, Histories
<1>5. /\ pc'[Sender] = "idle" /\ pc'[Receiver] = pc[Receiver]
      /\ isClosing'[Sender] /\ isClosing'[Receiver] = isClosing[Receiver]
  BY <1>1, TwoSockets DEF IInv, TypeInv, TypeOK
<1>6. HandedOver' /\ HandoffStep
  BY <1>1, <1>3, HistoriesStay DEF IInv, OneWayInv
<1>7. SenderPlace'
  BY <1>5 DEF SenderPlace
<1>8. ReceiverPlace'
  BY <1>1, <1>5, ReceiverStays DEF IInv, OneWayInv
<1>9. OneWayUse'
  BY <1>1, <1>2, <1>3, UseStays, TwoSockets DEF IInv, TypeInv, InCall
<1>10. OnWay'
  BY <1>1, <1>2, <1>3, <1>4, CloseOnWay, TwoSockets
<1> QED BY <1>6, <1>7, <1>8, <1>9, <1>10 DEF OneWayInv

-----------------------------------------------------------------------------
(* Closing *)

\* rcsClose() of either application.
LEMMA CallCloseStep ==
  ASSUME IInv, NEW s \in Socket, NEW fate \in Fate, CallClose(s, fate)
  PROVE  OneWayInv' /\ HandoffStep
<1>1. /\ pc[s] = "idle" /\ script[s] # << >>
      /\ inbox' = FinBurst(inbox, s, fate)
      /\ pc' = [pc EXCEPT ![s] = "gone"]
      /\ script' = [script EXCEPT ![s] = Tail(@)]
      /\ isClosing' = [isClosing EXCEPT ![s] = TRUE]
      /\ UNCHANGED <<endPoint, sendSeqnum, unsent, offered, confirmed,
                     recvSeqnum, finAck, accepted>>
  BY DEF CallClose, Calls, addrVars, sendVars, recvVars
<1>2. /\ pc'[s] = "gone" /\ isClosing'[s]
      /\ \A p \in Socket : p # s => pc'[p] = pc[p] /\ isClosing'[p] = isClosing[p]
  BY <1>1 DEF IInv, TypeInv, TypeOK
<1>3. HandedOver' /\ HandoffStep
  BY <1>1, HistoriesStay DEF IInv, OneWayInv
<1>4. SenderPlace'
  <2>1. CASE s = Sender
    BY <1>2, <2>1 DEF SenderPlace
  <2>2. CASE s # Sender
    BY <1>1, <1>2, <2>2, SenderStays, TwoSockets DEF IInv, OneWayInv
  <2> QED BY <2>1, <2>2
<1>5. ReceiverPlace'
  <2>1. CASE s = Receiver
    BY <1>2, <2>1 DEF ReceiverPlace
  <2>2. CASE s # Receiver
    BY <1>1, <1>2, <2>2, ReceiverStays, TwoSockets DEF IInv, OneWayInv
  <2> QED BY <2>1, <2>2
<1>6. OneWayUse'
  BY <1>1, UseStays
<1>7. OnWay'
  <2>1. PICK p \in Socket : p # s
    BY TwoSockets
  <2> QED BY <1>1, <2>1, CloseOnWay, Histories
<1> QED BY <1>3, <1>4, <1>5, <1>6, <1>7 DEF OneWayInv

-----------------------------------------------------------------------------
(* The steps of the receiver *)

\* A valid message with the expected number is the last one offered, which was the
\* only one missing, and its copies are all that follows.
LEMMA ExpectedIsNext ==
  ASSUME IInv, pc[Receiver] = "recv",
         NEW i \in DOMAIN inbox[Receiver], MayArrive(Receiver, i),
         Expected(Receiver, inbox[Receiver][i]), ~HasFlag(inbox[Receiver][i], "FIN")
  PROVE  /\ Len(Off) > 0 /\ Len(Acc) = Len(Off) - 1
         /\ inbox[Receiver][i].msg = Off[Len(Off)]
         /\ Off[Len(Off)].seqnum = recvSeqnum[Receiver]
         /\ DataOnWay(Without(Receiver, i)[Receiver], Off, Len(Off))
<1> DEFINE q == inbox[Receiver]
           r == Without(Receiver, i)[Receiver]
           n == Len(Off)
<1>1. /\ Len(q) > 0 /\ q[i] = q[1] /\ Len(r) = Len(q) - 1
      /\ \A j \in 1 .. Len(q) - 1 : r[j] = q[j + 1]
  BY FirstArrives, TwoSockets, Histories
<1>2. Len(q) \in Nat
  BY TwoSockets, Histories, LenProperties DEF Queues
<1>3. IsData(q[1]) /\ q[1].msg.seqnum = NextNumber(Acc)
  <2>1. IsValid(q[1]) /\ q[1].msg.flags # "FIN" /\ q[1].msg.seqnum = NextNumber(Acc)
    BY <1>1 DEF Expected, HasFlag, IInv, OneWayInv, ReceiverPlace
  <2>2. 1 \in 1 .. Len(q) /\ ~IsAck(q[1])
    BY <1>1, <1>2, TwoSockets DEF IInv, OneWayInv, OnWay, KindsOnWay
  <2> QED BY <2>1, <2>2 DEF IsAck, IsData
<1>4. DataOnWay(q, Off, Len(Acc))
  BY DEF IInv, OneWayInv, OnWay
<1> HIDE DEF q, r
<1>5. \/ n > 0 /\ q[1].msg = Off[n]
      \/ n > 1 /\ Len(Acc) < n /\ q[1].msg = Off[n - 1]
  <2>1. 1 \in 1 .. Len(q)
    BY <1>1, <1>2
  <2> QED BY <1>3, <1>4, <2>1 DEF DataOnWay
<1>6. Len(Acc) < n
  <2>1. CASE Len(Acc) = n
    BY <1>3, <1>5, <2>1, ExpectedNumber, Histories
  <2> QED BY <2>1, Histories, SMTT(30) DEF IInv, OneWayInv, HandedOver
<1>7. Len(Acc) = n - 1 /\ NextNumber(Acc) = Off[n].seqnum
  BY <1>6, ExpectedNumber
<1>8. q[1].msg = Off[n] /\ n > 0
  <2>1. CASE n > 1 /\ q[1].msg = Off[n - 1]
    BY <1>3, <1>7, <2>1, StreamNeighbours, Histories DEF IInv, OneWayInv, HandedOver
  <2> QED BY <1>5, <2>1
<1>9. DataOnWay(r, Off, n)
  BY <1>1, <1>2, <1>3, <1>4, <1>8, DataTaken
<1> QED BY <1>1, <1>3, <1>7, <1>8, <1>9 DEF q, r, Expected

\* recv() queues a message and answers it.
LEMMA RecvAcceptStep ==
  ASSUME IInv, NEW fate \in Fate, NEW i \in DOMAIN inbox[Receiver],
         RecvAccept(Receiver, i, fate)
  PROVE  OneWayInv' /\ HandoffStep
<1> DEFINE d == inbox[Receiver][i]
           box == Without(Receiver, i)
           n == Len(Off)
           k == recvSeqnum[Receiver]
           new == Append(Acc, Off[n])
<1>1. /\ pc[Receiver] = "recv" /\ MayArrive(Receiver, i)
      /\ Expected(Receiver, d) /\ ~HasFlag(d, "FIN")
      /\ accepted' = [accepted EXCEPT ![Receiver] = Append(@, d.msg)]
      /\ recvSeqnum' = [recvSeqnum EXCEPT ![Receiver] = Succ(@)]
      /\ Acknowledge(Receiver, i, k, fate)
      /\ UNCHANGED <<script, isClosing, sendSeqnum, unsent, offered, confirmed>>
  BY DEF RecvAccept, sendVars
<1>2. endPoint' = endPoint
  BY EndPointStays, TwoSockets, ArrivalTypes, Histories DEF RecvAccept
<1>3. /\ n > 0 /\ Len(Acc) = n - 1 /\ d.msg = Off[n] /\ Off[n].seqnum = k
      /\ DataOnWay(box[Receiver], Off, n)
  BY <1>1, ExpectedIsNext
<1>4. /\ box \in Queues /\ box[Sender] = inbox[Sender]
      /\ LeftOf(inbox[Receiver], box[Receiver])
  BY <1>1, FirstArrives, TwoSockets, Histories DEF LeftOf
<1>5. /\ inbox' = Rawsend(box, Receiver, ControlMsg(k, "ACK"), fate)
      /\ IF d.msg.flags = "EOS"
         THEN /\ pc' = [pc EXCEPT ![Receiver] = "finalize"]
              /\ finAck' = [finAck EXCEPT ![Receiver] = k]
         ELSE UNCHANGED <<pc, finAck>>
  BY <1>1 DEF Acknowledge, HasFlag, Expected
<1>6. Off[n] \in Message /\ WellFormed(Off[n]) /\ k \in Seqnum
  <2>1. n \in 1 .. n
    BY <1>3, Histories
  <2>2. k \in Seqnum
    BY TwoSockets DEF IInv, TypeInv, TypeOK
  <2> QED BY <2>1, <2>2, Histories
<1> HIDE DEF d, box, k
<1>7. /\ accepted'[Receiver] = new /\ accepted'[Sender] = accepted[Sender]
      /\ recvSeqnum'[Receiver] = Succ(k)
      /\ pc'[Sender] = pc[Sender]
  BY <1>1, <1>3, <1>5, TwoSockets DEF IInv, TypeInv, TypeOK, Acc, k
<1>8. /\ new \in Seq(Message) /\ Len(new) = n /\ new # << >> /\ new[n] = Off[n]
      /\ \A j \in 1 .. Len(Acc) : new[j] = Acc[j]
  BY <1>3, <1>6, Histories, AppendProperties
<1>9. NextNumber(new) = NumberAfter(Off[n])
  BY <1>8 DEF NextNumber
<1> HIDE DEF new
<1>10. HandedOver'
  <2>1. \A j \in 1 .. n : new[j] = Off[j]
    BY <1>3, <1>8, Histories DEF IInv, OneWayInv, HandedOver
  <2>2. /\ Stream(Off) /\ confirmed[Sender] <= Len(new)
        /\ confirmed[Sender] \in {Len(Off) - 1, Len(Off)}
    BY <1>3, <1>8, Histories DEF IInv, OneWayInv, HandedOver
  <2>3. /\ offered'[Sender] = Off /\ accepted'[Receiver] = new
        /\ confirmed'[Sender] = confirmed[Sender]
    BY <1>1, <1>7 DEF Off
  <2> QED BY <1>8, <2>1, <2>2, <2>3, Histories DEF HandedOver, Off, Acc
<1>11. HandoffStep
  <2>1. accepted'[Receiver] = Append(accepted[Receiver], offered[Sender][Len(accepted[Receiver]) + 1])
        /\ Len(accepted[Receiver]) < Len(offered[Sender])
    BY <1>3, <1>7, Histories DEF new, Off, Acc
  <2> QED BY <1>1, <2>1 DEF HandoffStep, OneWay!Next, OneWay!Accept
<1>12. SenderPlace'
  BY <1>1, <1>7, SenderStays DEF IInv, OneWayInv
<1>13. ReceiverPlace'
  <2>1. CASE d.msg.flags = "EOS"
    <3>1. pc'[Receiver] = "finalize" /\ finAck'[Receiver] = k
      BY <1>5, <2>1, TwoSockets DEF IInv, TypeInv, TypeOK
    <3>2. NextNumber(new) = 0
      BY <1>3, <1>9, <2>1 DEF NumberAfter
    <3> QED BY <1>3, <1>7, <1>8, <3>1, <3>2 DEF ReceiverPlace, Acc
  <2>2. CASE d.msg.flags # "EOS"
    <3>1. pc'[Receiver] = "recv"
      BY <1>1, <1>5, <2>2
    <3>2. k + 1 < FinSeqnum /\ NumberAfter(Off[n]) = k + 1
      BY <1>3, <1>6, <2>2 DEF WellFormed, NumberAfter
    <3>3. Succ(k) = k + 1
      BY <1>6, <3>2, MsgAssumption DEF Succ, Seqnum
    <3> QED BY <1>7, <1>9, <3>1, <3>2, <3>3 DEF ReceiverPlace, Acc
  <2> QED BY <2>1, <2>2
<1>14. OneWayUse'
  BY <1>1, <1>2, <1>7, UseStays
<1>15. OnWay'
  <2> DEFINE m == ControlMsg(k, "ACK")
             c == confirmed[Sender]
  <2>1. m \in Message /\ m.flags = "ACK" /\ m.seqnum = Off[n].seqnum
    BY <1>3, <1>6, MessageTypes DEF ControlMsg, Flag
  <2> HIDE DEF m
  <2>2. SentTo(inbox[Sender], inbox'[Sender], m) /\ inbox'[Receiver] = box[Receiver]
    BY <1>2, <1>4, <1>5, <2>1, RawsendQueues, TwoSockets, Histories DEF m
  <2>3. inbox[Sender] \in Seq(Datagram) /\ inbox[Receiver] \in Seq(Datagram)
    BY TwoSockets, Histories DEF Queues
  <2>4. \A s \in Socket : KindsOnWay(s, inbox'[s])
    BY <1>4, <2>1, <2>2, <2>3, KindsStay, TwoSockets DEF IInv, OneWayInv, OnWay
  <2>5. AnswersOnWay(inbox[Sender], Off, n, c)
    BY <1>3, AnswersTaken, Histories DEF IInv, OneWayInv, OnWay
  <2>6. Stream(Off) /\ c \in Nat /\ c <= n /\ c >= n - 1
    BY <1>3, Histories DEF IInv, OneWayInv, HandedOver
  <2> HIDE DEF c
  <2>7. AnswersOnWay(inbox'[Sender], Off, n, c)
    BY <1>3, <2>1, <2>2, <2>3, <2>5, <2>6, AnswersAppend, Histories
  <2> QED BY <1>1, <1>3, <1>7, <1>8, <2>2, <2>4, <2>7 DEF OnWay, Off, Acc, c
<1> QED BY <1>10, <1>11, <1>12, <1>13, <1>14, <1>15 DEF OneWayInv

\* recv() answers a message it does not expect, and queues nothing; when that is the
\* EOS of the last send(), finalizeRecv() begins all the same.
LEMMA RecvRejectStep ==
  ASSUME IInv, NEW fate \in Fate, NEW i \in DOMAIN inbox[Receiver],
         RecvReject(Receiver, i, fate)
  PROVE  OneWayInv' /\ HandoffStep
<1> DEFINE d == inbox[Receiver][i]
           box == Without(Receiver, i)
           n == Pred(recvSeqnum[Receiver])
<1>1. /\ pc[Receiver] = "recv" /\ MayArrive(Receiver, i)
      /\ ~Expected(Receiver, d) /\ ~HasFlag(d, "FIN")
      /\ inbox' = Rawsend(box, Receiver, ControlMsg(n, "ACK"), fate)
      /\ IF HasFlag(d, "EOS")
         THEN /\ pc' = [pc EXCEPT ![Receiver] = "finalize"]
              /\ finAck' = [finAck EXCEPT ![Receiver] = n]
         ELSE UNCHANGED <<pc, finAck>>
      /\ UNCHANGED <<script, isClosing, sendSeqnum, unsent, offered, confirmed,
                     recvSeqnum, accepted>>
  BY DEF RecvReject, Acknowledge, sendVars
<1>2. endPoint' = endPoint
  BY EndPointStays, TwoSockets, ArrivalTypes, Histories DEF RecvReject
<1>3. recvSeqnum[Receiver] = NextNumber(Acc) /\ n = Pred(NextNumber(Acc)) /\ n \in Seqnum
  BY <1>1, SeqnumStep, ExpectedNumber DEF IInv, OneWayInv, ReceiverPlace
<1>4. n = NoNumber \/ (Len(Acc) > 0 /\ n = Off[Len(Acc)].seqnum)
  BY <1>3, ExpectedNumber
<1>5. /\ box \in Queues /\ box[Sender] = inbox[Sender]
      /\ LeftOf(inbox[Receiver], box[Receiver]) /\ d = inbox[Receiver][1]
      /\ 1 \in 1 .. Len(inbox[Receiver])
  <2>1. Len(inbox[Receiver]) \in Nat
    BY TwoSockets, Histories, LenProperties DEF Queues
  <2> QED BY <1>1, <2>1, FirstArrives, TwoSockets, Histories DEF LeftOf
<1>6. HasFlag(d, "EOS") => Len(Acc) > 0 /\ NextNumber(Acc) = 0
  <2> SUFFICES ASSUME HasFlag(d, "EOS")  PROVE Len(Acc) > 0 /\ NextNumber(Acc) = 0
    OBVIOUS
  <2>1. IsData(d) /\ d.msg.flags = "EOS" /\ d.msg.seqnum # NextNumber(Acc)
    BY <1>1, <1>3 DEF HasFlag, IsData, IsValid, Expected
  <2>2. \/ Len(Off) > 0 /\ d.msg = Off[Len(Off)]
        \/ Len(Off) > 1 /\ Len(Acc) < Len(Off) /\ d.msg = Off[Len(Off) - 1]
    BY <1>5, <2>1 DEF IInv, OneWayInv, OnWay, DataOnWay
  <2>3. Len(Acc) > 0 /\ d.msg = Off[Len(Acc)]
    <3>1. CASE Len(Acc) < Len(Off)
      BY <2>1, <2>2, <3>1, ExpectedNumber, Histories
    <3>2. CASE ~(Len(Acc) < Len(Off))
      BY <2>2, <3>2, Histories DEF IInv, OneWayInv, HandedOver
    <3> QED BY <3>1, <3>2
  <2> QED BY <2>1, <2>3, ExpectedNumber DEF NumberAfter
<1> HIDE DEF d, box, n
<1>7. pc'[Sender] = pc[Sender]
  BY <1>1, TwoSockets DEF IInv, TypeInv, TypeOK
<1>8. HandedOver' /\ HandoffStep
  BY <1>1, HistoriesStay DEF IInv, OneWayInv
<1>9. SenderPlace'
  BY <1>1, <1>7, SenderStays DEF IInv, OneWayInv
<1>10. ReceiverPlace'
  <2>1. CASE HasFlag(d, "EOS")
    <3>1. pc'[Receiver] = "finalize" /\ finAck'[Receiver] = n
      BY <1>1, <2>1, TwoSockets DEF IInv, TypeInv, TypeOK
    <3>2. n = NoNumber
      BY <1>3, <1>6, <2>1 DEF Pred, NoNumber
    <3> QED BY <1>1, <1>6, <2>1, <3>1, <3>2, Histories DEF ReceiverPlace, Acc
  <2>2. CASE ~HasFlag(d, "EOS")
    BY <1>1, <2>2, ReceiverStays DEF IInv, OneWayInv
  <2> QED BY <2>1, <2>2
<1>11. OneWayUse'
  BY <1>1, <1>2, UseStays
<1>12. OnWay'
  BY <1>1, <1>2, <1>3, <1>4, <1>5, AnswerOnWay
<1> QED BY <1>8, <1>9, <1>10, <1>11, <1>12 DEF OneWayInv

\* finalizeRecv() repeats its answer.
LEMMA FinalizeAnswerStep ==
  ASSUME IInv, NEW fate \in Fate, NEW i \in DOMAIN inbox[Receiver],
         FinalizeAnswer(Receiver, i, fate)
  PROVE  OneWayInv' /\ HandoffStep
<1> DEFINE box == Without(Receiver, i)
           n == finAck[Receiver]
<1>1. /\ pc[Receiver] = "finalize" /\ MayArrive(Receiver, i)
      /\ inbox' = Rawsend(box, Receiver, ControlMsg(n, "ACK"), fate)
      /\ UNCHANGED <<script, pc, isClosing, sendSeqnum, unsent, offered, confirmed,
                     recvSeqnum, finAck, accepted>>
  BY DEF FinalizeAnswer, sendVars, recvVars
<1>2. endPoint' = endPoint
  BY EndPointStays, TwoSockets, ArrivalTypes, Histories DEF FinalizeAnswer
<1>3. n \in Seqnum /\ (n = NoNumber \/ (Len(Acc) > 0 /\ n = Off[Len(Acc)].seqnum))
  <2>1. Acc # << >> /\ n \in {NoNumber, Acc[Len(Acc)].seqnum}
    BY <1>1 DEF IInv, OneWayInv, ReceiverPlace
  <2>2. n \in Seqnum
    BY TwoSockets DEF IInv, TypeInv, TypeOK
  <2> QED BY <2>1, <2>2, ExpectedNumber, Histories
<1>4. /\ box \in Queues /\ box[Sender] = inbox[Sender]
      /\ LeftOf(inbox[Receiver], box[Receiver])
  BY <1>1, FirstArrives, TwoSockets, Histories DEF LeftOf
<1> HIDE DEF box, n
<1>5. HandedOver' /\ HandoffStep
  BY <1>1, HistoriesStay DEF IInv, OneWayInv
<1>6. SenderPlace' /\ ReceiverPlace'
  BY <1>1, SenderStays, ReceiverStays DEF IInv, OneWayInv
<1>7. OneWayUse'
  BY <1>1, <1>2, UseStays
<1>8. OnWay'
  BY <1>1, <1>2, <1>3, <1>4, AnswerOnWay
<1> QED BY <1>5, <1>6, <1>7, <1>8 DEF OneWayInv

\* A FIN during recv() or finalizeRecv().
LEMMA ReceiverFinStep ==
  ASSUME IInv, NEW fate \in Fate, NEW i \in DOMAIN inbox[Receiver],
         RecvFin(Receiver, i, fate) \/ FinalizeFin(Receiver, i, fate)
  PROVE  OneWayInv' /\ HandoffStep
<1>1. /\ MayArrive(Receiver, i) /\ HasFlag(inbox[Receiver][i], "FIN")
      /\ inbox' = FinBurst(Without(Receiver, i), Receiver, fate)
      /\ isClosing' = [isClosing EXCEPT ![Receiver] = TRUE]
      /\ UNCHANGED <<sendSeqnum, unsent, offered, confirmed, finAck>>
  BY DEF RecvFin, FinalizeFin, sendVars, recvVars
<1>2. endPoint' = endPoint
  BY EndPointStays, TwoSockets, ArrivalTypes, Histories DEF RecvFin, FinalizeFin
<1>3. /\ accepted' = accepted
      /\ \/ /\ pc' = [pc EXCEPT ![Receiver] = "idle"]
            /\ script' = [script EXCEPT ![Receiver] = Tail(@)]
            /\ script[Receiver] # << >>
         \/ pc[Receiver] = "finalize" /\ UNCHANGED <<pc, script, recvSeqnum>>
  <2>1. CASE RecvFin(Receiver, i, fate)
    <3>1. i \in 1 .. Len(inbox[Receiver])
      BY TwoSockets, Histories, LenProperties DEF Queues
    <3>2. pc[Receiver] = "recv" /\ ~Expected(Receiver, inbox[Receiver][i])
      BY <1>1, <2>1, <3>1, FinUnexpected, TwoSockets DEF RecvFin
    <3> QED
      BY <2>1, <3>2, TwoSockets DEF RecvFin, ReturnRead, Return, IInv, TypeInv, InCall
  <2>2. CASE FinalizeFin(Receiver, i, fate)
    BY <2>2 DEF FinalizeFin, recvVars
  <2> QED BY <2>1, <2>2
<1>4. Without(Receiver, i) \in Queues /\ Without(Receiver, i)[Sender] = inbox[Sender]
  BY <1>1, FirstArrives, TwoSockets, Histories
<1>5. /\ pc'[Sender] = pc[Sender] /\ isClosing'[Sender] = isClosing[Sender]
      /\ isClosing'[Receiver]
      /\ pc'[Receiver] = "idle" \/ (pc'[Receiver] = "finalize" /\ pc[Receiver] = "finalize")
  BY <1>1, <1>3, TwoSockets DEF IInv, TypeInv, TypeOK
<1>6. HandedOver' /\ HandoffStep
  BY <1>1, <1>3, HistoriesStay DEF IInv, OneWayInv
<1>7. SenderPlace'
  BY <1>1, <1>5, SenderStays DEF IInv, OneWayInv
<1>8. ReceiverPlace'
  BY <1>1, <1>3, <1>5 DEF IInv, OneWayInv, ReceiverPlace, Acc
<1>9. OneWayUse'
  BY <1>1, <1>2, <1>3, UseStays, TwoSockets
<1>10. OnWay'
  BY <1>1, <1>2, <1>3, <1>4, CloseOnWay, TwoSockets
<1> QED BY <1>6, <1>7, <1>8, <1>9, <1>10 DEF OneWayInv

\* The remaining steps of the receiver send nothing and queue nothing.
LEMMA ReceiverSilentStep ==
  ASSUME IInv,
         \/ CallRecv(Receiver) \/ RecvOnClosing(Receiver) \/ RecvTimeout(Receiver)
         \/ FinalizeTimeout(Receiver) \/ FinalizeSpin(Receiver)
         \/ \E i \in DOMAIN inbox[Receiver] : RecvIgnore(Receiver, i) \/ FinalizeLeave(Receiver, i)
  PROVE  OneWayInv' /\ HandoffStep
<1>1. /\ UNCHANGED <<isClosing, sendSeqnum, unsent, offered, confirmed, finAck, accepted>>
  BY DEF CallRecv, RecvOnClosing, RecvTimeout, FinalizeTimeout, FinalizeSpin, RecvIgnore,
         FinalizeLeave, LeaveFinalize, vars, sendVars, recvVars
<1>2. endPoint' = endPoint
  <2>1. CASE RecvTimeout(Receiver) \/ FinalizeTimeout(Receiver)
    BY <2>1, EndPointStays, TwoSockets DEF RecvTimeout, FinalizeTimeout
  <2>2. ASSUME NEW i \in DOMAIN inbox[Receiver],
               RecvIgnore(Receiver, i) \/ FinalizeLeave(Receiver, i)
        PROVE  endPoint' = endPoint
    BY <2>2, EndPointStays, TwoSockets, ArrivalTypes, Histories DEF RecvIgnore, FinalizeLeave
  <2>3. CASE CallRecv(Receiver) \/ RecvOnClosing(Receiver) \/ FinalizeSpin(Receiver)
    BY <2>3 DEF CallRecv, RecvOnClosing, FinalizeSpin, vars, addrVars
  <2> QED BY <2>1, <2>2, <2>3
<1>3. \E box \in Queues : /\ inbox' = box
                          /\ box[Sender] = inbox[Sender]
                          /\ LeftOf(inbox[Receiver], box[Receiver])
  <2>1. ASSUME NEW i \in DOMAIN inbox[Receiver],
               RecvIgnore(Receiver, i) \/ FinalizeLeave(Receiver, i)
        PROVE  /\ Without(Receiver, i) \in Queues
               /\ inbox' = Without(Receiver, i)
               /\ Without(Receiver, i)[Sender] = inbox[Sender]
               /\ LeftOf(inbox[Receiver], Without(Receiver, i)[Receiver])
    BY <2>1, FirstArrives, TwoSockets, Histories DEF RecvIgnore, FinalizeLeave, LeftOf
  <2>2. CASE \/ CallRecv(Receiver) \/ RecvOnClosing(Receiver) \/ RecvTimeout(Receiver)
             \/ FinalizeTimeout(Receiver) \/ FinalizeSpin(Receiver)
    BY <2>2, Histories DEF CallRecv, RecvOnClosing, RecvTimeout, FinalizeTimeout,
                           FinalizeSpin, vars, LeftOf
  <2> QED BY <2>1, <2>2
<1>4. \/ UNCHANGED <<script, pc, recvSeqnum>>
      \/ /\ NextNumber(Acc) = 0 /\ script' = script
         /\ pc' = [pc EXCEPT ![Receiver] = "recv"]
         /\ recvSeqnum' = [recvSeqnum EXCEPT ![Receiver] = 0]
      \/ /\ NextNumber(Acc) = 0 \/ isClosing[Receiver]
         /\ pc' = [pc EXCEPT ![Receiver] = "idle"]
         /\ script[Receiver] # << >> /\ script' = [script EXCEPT ![Receiver] = Tail(@)]
  <2>1. CASE RecvTimeout(Receiver) \/ FinalizeSpin(Receiver)
    BY <2>1 DEF RecvTimeout, FinalizeSpin, vars, recvVars
  <2>2. ASSUME NEW i \in DOMAIN inbox[Receiver], RecvIgnore(Receiver, i)
        PROVE  UNCHANGED <<script, pc, recvSeqnum>>
    BY <2>2 DEF RecvIgnore, recvVars
  <2>3. CASE CallRecv(Receiver)
    BY <2>3 DEF CallRecv, Calls, IInv, OneWayInv, ReceiverPlace
  <2>4. CASE RecvOnClosing(Receiver)
    BY <2>4 DEF RecvOnClosing, Calls, ReturnRead, Return
  <2>5. ASSUME pc[Receiver] = "finalize", LeaveFinalize(Receiver)
        PROVE  /\ NextNumber(Acc) = 0 /\ script[Receiver] # << >>
               /\ \/ /\ script' = script /\ pc' = [pc EXCEPT ![Receiver] = "recv"]
                     /\ recvSeqnum' = [recvSeqnum EXCEPT ![Receiver] = 0]
                  \/ /\ pc' = [pc EXCEPT ![Receiver] = "idle"]
                     /\ script' = [script EXCEPT ![Receiver] = Tail(@)]
    <3>1. NextNumber(Acc) = 0 /\ script[Receiver] # << >>
      BY <2>5, TwoSockets DEF IInv, OneWayInv, ReceiverPlace, TypeInv, InCall
    <3> QED BY <2>5, <3>1 DEF LeaveFinalize, ReturnRead, Return
  <2>6. CASE FinalizeTimeout(Receiver)
    BY <2>5, <2>6 DEF FinalizeTimeout
  <2>7. ASSUME NEW i \in DOMAIN inbox[Receiver], FinalizeLeave(Receiver, i)
        PROVE  pc[Receiver] = "finalize" /\ LeaveFinalize(Receiver)
    BY <2>7 DEF FinalizeLeave
  <2> QED BY <2>1, <2>2, <2>3, <2>4, <2>5, <2>6, <2>7
<1>5. pc'[Sender] = pc[Sender]
  BY <1>4, TwoSockets DEF IInv, TypeInv, TypeOK
<1>6. HandedOver' /\ HandoffStep
  BY <1>1, HistoriesStay DEF IInv, OneWayInv
<1>7. SenderPlace'
  BY <1>1, <1>5, SenderStays DEF IInv, OneWayInv
<1>8. ReceiverPlace'
  <2>1. CASE UNCHANGED <<script, pc, recvSeqnum>>
    BY <1>1, <2>1, ReceiverStays DEF IInv, OneWayInv
  <2>2. CASE /\ NextNumber(Acc) = 0
             /\ pc' = [pc EXCEPT ![Receiver] = "recv"]
             /\ recvSeqnum' = [recvSeqnum EXCEPT ![Receiver] = 0]
    <3>1. pc'[Receiver] = "recv" /\ recvSeqnum'[Receiver] = 0
      BY <2>2, TwoSockets DEF IInv, TypeInv, TypeOK
    <3> QED BY <1>1, <2>2, <3>1 DEF ReceiverPlace, Acc
  <2>3. CASE /\ NextNumber(Acc) = 0 \/ isClosing[Receiver]
             /\ pc' = [pc EXCEPT ![Receiver] = "idle"]
    <3>1. pc'[Receiver] = "idle"
      BY <2>3, TwoSockets DEF IInv, TypeInv, TypeOK
    <3> QED BY <1>1, <2>3, <3>1 DEF ReceiverPlace, Acc
  <2> QED BY <1>4, <2>1, <2>2, <2>3
<1>9. OneWayUse'
  <2>1. script' = script \/ \E s \in Socket : script[s] # << >> /\ script' = [script EXCEPT ![s] = Tail(@)]
    BY <1>4, TwoSockets
  <2> QED BY <1>1, <1>2, <2>1, UseStays
<1>10. OnWay'
  BY <1>1, <1>3, ReceiptOnWay DEF LeftOf
<1> QED BY <1>6, <1>7, <1>8, <1>9, <1>10 DEF OneWayInv

-----------------------------------------------------------------------------
(* The invariant *)

\* The sender waits for no message of its own, and the receiver sends none.
LEMMA OneWayPlaces ==
  ASSUME IInv
  PROVE  /\ pc[Sender] \notin {"recv", "finalize"} /\ ~Calls(Sender, "recv")
         /\ pc[Receiver] # "acksend" /\ ~Calls(Receiver, "send")
<1>1. \A s \in Socket : script[s] # << >> =>
        1 \in 1 .. Len(script[s]) /\ Head(script[s]) = script[s][1]
  BY EmptySeq DEF IInv, TypeInv, TypeOK
<1>2. ~Calls(Sender, "recv")
  BY <1>1, TwoSockets DEF Calls, IInv, OneWayInv, OneWayUse, SenderCall
<1>3. ~Calls(Receiver, "send")
  BY <1>1, TwoSockets DEF Calls, IInv, OneWayInv, OneWayUse, ReceiverCall
<1> QED BY <1>2, <1>3 DEF IInv, OneWayInv, SenderPlace, ReceiverPlace

\* Every step of the sender keeps the invariant, and is a step of the handoff.
LEMMA SenderStep ==
  ASSUME IInv, Step(Sender)
  PROVE  OneWayInv' /\ HandoffStep
<1>1. /\ pc[Sender] \notin {"recv", "finalize"} /\ ~Calls(Sender, "recv")
  BY OneWayPlaces
<1>2. CASE SilentStep(Sender)
  <2>1. SendOnClosing(Sender) \/ \E i \in DOMAIN inbox[Sender] : AcksendDone(Sender, i)
    BY <1>1, <1>2 DEF SilentStep, CallRecv, RecvOnClosing, RecvTimeout, FinalizeTimeout,
                      FinalizeSpin, RecvIgnore, FinalizeLeave
  <2> QED BY <2>1, SendOnClosingStep, AcksendDoneStep
<1>3. ASSUME NEW fate \in Fate, SendStep(Sender, fate)
      PROVE  OneWayInv' /\ HandoffStep
  BY <1>3, CallSendStep, AcksendRepeatStep, AcksendNextStep DEF SendStep
<1>4. ASSUME NEW fate \in Fate, AnswerStep(Sender, fate)
      PROVE  FALSE
  BY <1>1, <1>4 DEF AnswerStep, RecvAccept, RecvReject, FinalizeAnswer
<1>5. ASSUME NEW fate \in Fate, CloseStep(Sender, fate)
      PROVE  OneWayInv' /\ HandoffStep
  <2>1. CallClose(Sender, fate) \/ \E i \in DOMAIN inbox[Sender] : AcksendFin(Sender, i, fate)
    BY <1>1, <1>5 DEF CloseStep, RecvFin, FinalizeFin
  <2> QED BY <2>1, CallCloseStep, AcksendFinStep, TwoSockets
<1> QED BY <1>2, <1>3, <1>4, <1>5 DEF Step

\* So does every step of the receiver.
LEMMA ReceiverStep ==
  ASSUME IInv, Step(Receiver)
  PROVE  OneWayInv' /\ HandoffStep
<1>1. pc[Receiver] # "acksend" /\ ~Calls(Receiver, "send")
  BY OneWayPlaces
<1>2. CASE SilentStep(Receiver)
  <2>1. \/ CallRecv(Receiver) \/ RecvOnClosing(Receiver) \/ RecvTimeout(Receiver)
        \/ FinalizeTimeout(Receiver) \/ FinalizeSpin(Receiver)
        \/ \E i \in DOMAIN inbox[Receiver] : RecvIgnore(Receiver, i) \/ FinalizeLeave(Receiver, i)
    BY <1>1, <1>2 DEF SilentStep, SendOnClosing, AcksendDone
  <2> QED BY <2>1, ReceiverSilentStep
<1>3. ASSUME NEW fate \in Fate, SendStep(Receiver, fate)
      PROVE  FALSE
  BY <1>1, <1>3 DEF SendStep, CallSend, AcksendTimeout, AcksendAgain, AcksendNext
<1>4. ASSUME NEW fate \in Fate, AnswerStep(Receiver, fate)
      PROVE  OneWayInv' /\ HandoffStep
  BY <1>4, RecvAcceptStep, RecvRejectStep, FinalizeAnswerStep DEF AnswerStep
<1>5. ASSUME NEW fate \in Fate, CloseStep(Receiver, fate)
      PROVE  OneWayInv' /\ HandoffStep
  <2>1. \/ CallClose(Receiver, fate)
        \/ \E i \in DOMAIN inbox[Receiver] :
             RecvFin(Receiver, i, fate) \/ FinalizeFin(Receiver, i, fate)
    BY <1>1, <1>5 DEF CloseStep, AcksendFin
  <2> QED BY <2>1, CallCloseStep, ReceiverFinStep, TwoSockets
<1> QED BY <1>2, <1>3, <1>4, <1>5 DEF Step

\* Two sockets joined to each other, before any call.
LEMMA OneWayInit == Init => OneWayInv
<1> SUFFICES ASSUME Init PROVE OneWayInv
  OBVIOUS
<1>1. /\ Off = << >> /\ Acc = << >> /\ confirmed[Sender] = 0
      /\ offered[Receiver] = << >> /\ confirmed[Receiver] = 0 /\ accepted[Sender] = << >>
      /\ pc[Sender] = "idle" /\ pc[Receiver] = "idle"
      /\ inbox[Sender] = << >> /\ inbox[Receiver] = << >>
  BY TwoSockets DEF Init, SocketInit, Off, Acc
<1>2. Len(<< >>) = 0
  BY EmptySeq
<1>3. HandedOver
  BY <1>1, <1>2 DEF HandedOver, Stream
<1>4. SenderPlace
  BY <1>1, <1>2 DEF SenderPlace, NextNumber
<1>5. ReceiverPlace
  BY <1>1, <1>2 DEF ReceiverPlace, NextNumber
<1>6. OneWayUse
  <2>1. endPoint[Sender] = Receiver /\ endPoint[Receiver] = Sender
    BY OneWayAssumption, LinkAssumption DEF Init, Peer
  <2>2. \A s \in Socket : script[s] = Script[s] /\ DOMAIN Script[s] = 1 .. Len(Script[s])
    BY LinkAssumption, LenProperties DEF Init
  <2> QED BY <1>1, <2>1, <2>2, TwoSockets, OneWayAssumption DEF OneWayUse
<1>7. OnWay
  BY <1>1, <1>2, TwoSockets DEF OnWay, KindsOnWay, FinsOnWay, DataOnWay, AnswersOnWay
<1> QED BY <1>3, <1>4, <1>5, <1>6, <1>7 DEF OneWayInv

\* No step of either socket leaves the invariant or breaks the handoff.
LEMMA OneWayNext == IInv /\ [Next]_vars => IInv' /\ HandoffStep
<1> SUFFICES ASSUME IInv, [Next]_vars PROVE IInv' /\ HandoffStep
  OBVIOUS
<1>1. TypeInv'
  BY NextType DEF IInv
<1>2. CASE UNCHANGED vars
  <2>1. UNCHANGED <<pc, isClosing, sendSeqnum, unsent, recvSeqnum, finAck, inbox, offered,
                    accepted, confirmed, script, endPoint>>
    BY <1>2 DEF vars, addrVars, sendVars, recvVars
  <2>2. HandedOver' /\ HandoffStep
    BY <2>1, HistoriesStay DEF IInv, OneWayInv
  <2>3. SenderPlace' /\ ReceiverPlace'
    BY <2>1, SenderStays, ReceiverStays DEF IInv, OneWayInv
  <2>4. OneWayUse'
    BY <2>1, UseStays
  <2>5. OnWay'
    BY <2>1, ReceiptOnWay, Histories DEF LeftOf
  <2> QED BY <1>1, <2>2, <2>3, <2>4, <2>5 DEF IInv, OneWayInv
<1>3. ASSUME NEW s \in Socket, Step(s)  PROVE OneWayInv' /\ HandoffStep
  BY <1>3, SenderStep, ReceiverStep, TwoSockets
<1> QED BY <1>1, <1>2, <1>3 DEF Next, Terminating, IInv

\* Over a path that keeps the order of datagrams, and with sends that are neither
\* empty nor too long, a one-way transfer stays within OneWayInv: whatever is on
\* its way belongs to the last message or the one before, and in that order.
THEOREM OneWayInvariant == Spec => []OneWayInv
<1>1. Init => IInv
  BY InitType, OneWayInit DEF IInv
<1>2. IInv /\ [Next]_vars => IInv'
  BY OneWayNext
<1>3. IInv => OneWayInv
  BY DEF IInv
<1> QED BY <1>1, <1>2, <1>3, PTL DEF Spec

\* recv() queues exactly what send() handed to acksend(), in that order, and
\* acksend() takes no message for acknowledged that recv() has not queued.
THEOREM OneWayDelivery == Spec => [](InOrder /\ AckedIsAccepted)
<1>1. Init => IInv
  BY InitType, OneWayInit DEF IInv
<1>2. IInv /\ [Next]_vars => IInv'
  BY OneWayNext
<1>3. IInv => InOrder /\ AckedIsAccepted
  <2> SUFFICES ASSUME IInv PROVE InOrder /\ AckedIsAccepted
    OBVIOUS
  <2>1. Peer[Sender] = Receiver /\ Peer[Receiver] = Sender
    BY OneWayAssumption, LinkAssumption DEF Peer
  <2>2. /\ Len(Acc) <= Len(Off) /\ \A k \in 1 .. Len(Acc) : Acc[k] = Off[k]
        /\ confirmed[Sender] <= Len(Acc)
    BY DEF IInv, OneWayInv, HandedOver
  <2>3. /\ offered[Receiver] = << >> /\ confirmed[Receiver] = 0 /\ accepted[Sender] = << >>
    BY DEF IInv, OneWayInv, OneWayUse
  <2>4. IsPrefix(Acc, Off)
    <3>1. \A k \in 1 .. Len(Acc) : Acc[k] \in Message /\ Off[k] \in Message
      BY <2>2, Histories
    <3>2. /\ SubSeq(Acc, 1, Len(Acc)) \in Seq(Message) /\ SubSeq(Off, 1, Len(Acc)) \in Seq(Message)
          /\ Len(SubSeq(Acc, 1, Len(Acc))) = Len(Acc) /\ Len(SubSeq(Off, 1, Len(Acc))) = Len(Acc)
          /\ \A k \in 1 .. Len(Acc) : /\ SubSeq(Acc, 1, Len(Acc))[k] = Acc[k]
                                      /\ SubSeq(Off, 1, Len(Acc))[k] = Off[k]
      BY <3>1, Histories, SubSeqProperties
    <3>3. SubSeq(Acc, 1, Len(Acc)) = SubSeq(Off, 1, Len(Acc))
      BY <2>2, <3>2, SeqEqual
    <3> QED BY <2>2, <3>3 DEF IsPrefix
  <2>5. IsPrefix(<< >>, << >>)
    BY EmptySeq DEF IsPrefix
  <2>6. InOrder
    BY <2>1, <2>3, <2>4, <2>5, TwoSockets DEF InOrder, Off, Acc
  <2>7. AckedIsAccepted
    BY <2>1, <2>2, <2>3, TwoSockets, EmptySeq DEF AckedIsAccepted, Acc
  <2> QED BY <2>6, <2>7
<1> QED BY <1>1, <1>2, <1>3, PTL DEF Spec

\* A message counts as acknowledged only when recv() has queued it.
THEOREM OneWayAcked == Spec => []AckedIsAccepted
BY OneWayDelivery, PTL

\* acksend() and the peer's recv() implement the handoff of one message at a time.
THEOREM OneWayImplementsHandoff == Spec => HandsOff
<1>1. Init => IInv
  BY InitType, OneWayInit DEF IInv
<1>2. IInv /\ [Next]_vars => IInv'
  BY OneWayNext
<1>3. Init => OneWay!Init
  BY TwoSockets DEF Init, SocketInit, OneWay!Init
<1>4. IInv /\ [Next]_vars => [OneWay!Next]_(OneWay!handoffVars)
  BY OneWayNext DEF HandoffStep
<1> QED BY <1>1, <1>2, <1>3, <1>4, PTL DEF Spec, HandsOff, OneWay!Spec

\* No recv() runs over the end of a send() into the next one.
THEOREM OneWayOneSend == Spec => []OneSendPerRecv
<1>1. Spec => []InOrder
  BY OneWayDelivery, PTL
<1> QED BY <1>1, InOrderOneSend, PTL

\* recv() returns 0 only when everything acknowledged has been read.
THEOREM OneWayEof == Spec => []EofIsEnd
BY OneWayDelivery, InOrderEof, PTL
=============================================================================
