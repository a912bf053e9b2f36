--------------------------- MODULE RcsTurnsProofs ---------------------------
(***************************************************************************)
(* The proof that two applications that take turns hand every message over *)
(* once and in order, either way, whatever becomes of the datagrams.       *)
(***************************************************************************)
EXTENDS RcsTurns, RcsLinkProofs

-----------------------------------------------------------------------------
(* What is on its way to a socket: q is its queue, in is what its peer has   *)
(* offered and h how many of these it has queued; out is what it has offered *)
(* itself, g how many of these its peer has queued and c how many it knows of. *)

Coming(q, in, h, out, g, c) ==
  /\ FinsOnWay(q) /\ DataOnWay(q, in, h) /\ AnswersOnWay(q, out, g, c) /\ Apart(q, in, h)

\* Receiving a datagram leaves a queue of which the same can be said.
LEMMA ApartStays ==
  ASSUME NEW q \in Seq(Datagram), NEW r, LeftOf(q, r), NEW off, NEW h
  PROVE  /\ Apart(q, off, h) => Apart(r, off, h)
         /\ NoAnswers(q) => NoAnswers(r)
         /\ OnlyOpeners(q) => OnlyOpeners(r)
         /\ HasFin(r) => HasFin(q)
<1>1. Len(q) \in Nat
  BY LenProperties
<1>2. CASE r = q
  BY <1>2
<1>3. CASE /\ Len(q) > 0 /\ Len(r) = Len(q) - 1
           /\ \A j \in 1 .. Len(q) - 1 : r[j] = q[j + 1]
  <2>1. \A j \in 1 .. Len(r) : j + 1 \in 1 .. Len(q) /\ r[j] = q[j + 1]
    BY <1>1, <1>3
  <2>2. \A j, k \in 1 .. Len(r) : j < k => j + 1 < k + 1
    BY <1>1, <1>3
  <2>3. ASSUME Apart(q, off, h), NEW j \in 1 .. Len(r), NEW k \in 1 .. Len(r), j < k
        PROVE  /\ IsAck(r[k]) => ~IsNew(r[j], off, h)
               /\ IsAck(r[j]) /\ IsData(r[k]) => IsNew(r[k], off, h) /\ r[k].msg.seqnum = 0
    <3>1. /\ j + 1 \in 1 .. Len(q) /\ r[j] = q[j + 1]
          /\ k + 1 \in 1 .. Len(q) /\ r[k] = q[k + 1] /\ j + 1 < k + 1
      BY <2>1, <2>2, <2>3
    <3> QED BY <2>3, <3>1 DEF Apart
  <2>4. Apart(q, off, h) => Apart(r, off, h)
    BY <2>3 DEF Apart
  <2> QED BY <2>1, <2>4 DEF NoAnswers, OnlyOpeners, HasFin
<1> QED BY <1>2, <1>3 DEF LeftOf

\* What of it survives the sending of a message.
LEMMA ApartAppend ==
  ASSUME NEW q \in Seq(Datagram), NEW r, NEW m \in Message, SentTo(q, r, m), NEW off, NEW h
  PROVE  /\ m.flags # "ACK" /\ NoAnswers(q) => NoAnswers(r)
         /\ m.flags \in {"FIN", "ACK"} \/ m.seqnum = 0 => (OnlyOpeners(q) => OnlyOpeners(r))
         /\ m.flags # "FIN" /\ HasFin(r) => HasFin(q)
         /\ /\ Apart(q, off, h)
            /\ m.flags = "ACK" => \A j \in 1 .. Len(q) : ~IsNew(q[j], off, h)
            /\ \/ m.flags \in {"FIN", "ACK"} \/ NoAnswers(q)
               \/ h < Len(off) /\ m = off[Len(off)] /\ m.seqnum = 0
            => Apart(r, off, h)
<1>1. CASE r = q
  BY <1>1
<1>2. ASSUME NEW d \in Datagram, r = Append(q, d), IsValid(d) => d.msg = m
      PROVE  /\ m.flags # "ACK" /\ NoAnswers(q) => NoAnswers(r)
             /\ m.flags \in {"FIN", "ACK"} \/ m.seqnum = 0 => (OnlyOpeners(q) => OnlyOpeners(r))
             /\ m.flags # "FIN" /\ HasFin(r) => HasFin(q)
             /\ /\ Apart(q, off, h)
                /\ m.flags = "ACK" => \A j \in 1 .. Len(q) : ~IsNew(q[j], off, h)
                /\ \/ m.flags \in {"FIN", "ACK"} \/ NoAnswers(q)
                   \/ h < Len(off) /\ m = off[Len(off)] /\ m.seqnum = 0
                => Apart(r, off, h)
  <2>1. /\ Len(q) \in Nat /\ Len(r) = Len(q) + 1
        /\ \A j \in 1 .. Len(r) :
             \/ j \in 1 .. Len(q) /\ r[j] = q[j]
             \/ j = Len(q) + 1 /\ r[j] = d
    BY <1>2, LastOf
  <2>2. /\ IsAck(d) => m.flags = "ACK"
        /\ IsData(d) => m.flags \notin {"FIN", "ACK"} /\ d.msg = m
        /\ HasFlag(d, "FIN") => m.flags = "FIN"
    BY <1>2 DEF IsAck, IsData, HasFlag
  <2>3. \A j, k \in 1 .. Len(r) : j < k => j \in 1 .. Len(q) /\ r[j] = q[j]
    BY <2>1
  <2>4. ASSUME Apart(q, off, h), m.flags = "ACK" => \A j \in 1 .. Len(q) : ~IsNew(q[j], off, h),
               \/ m.flags \in {"FIN", "ACK"} \/ NoAnswers(q)
               \/ h < Len(off) /\ m = off[Len(off)] /\ m.seqnum = 0,
               NEW j \in 1 .. Len(r), NEW k \in 1 .. Len(r), j < k
        PROVE  /\ IsAck(r[k]) => ~IsNew(r[j], off, h)
               /\ IsAck(r[j]) /\ IsData(r[k]) => IsNew(r[k], off, h) /\ r[k].msg.seqnum = 0
    <3>1. j \in 1 .. Len(q) /\ r[j] = q[j]
      BY <2>3, <2>4
    <3>2. CASE k \in 1 .. Len(q) /\ r[k] = q[k]
      BY <2>4, <3>1, <3>2 DEF Apart
    <3>3. CASE r[k] = d
      BY <2>2, <2>4, <3>1, <3>3 DEF NoAnswers, IsNew
    <3> QED BY <2>1, <3>2, <3>3
  <2>5. /\ Apart(q, off, h)
        /\ m.flags = "ACK" => \A j \in 1 .. Len(q) : ~IsNew(q[j], off, h)
        /\ \/ m.flags \in {"FIN", "ACK"} \/ NoAnswers(q)
           \/ h < Len(off) /\ m = off[Len(off)] /\ m.seqnum = 0
        => Apart(r, off, h)
    BY <2>4 DEF Apart
  <2>6. m.flags # "ACK" /\ NoAnswers(q) => NoAnswers(r)
    BY <2>1, <2>2 DEF NoAnswers
  <2>7. m.flags \in {"FIN", "ACK"} \/ m.seqnum = 0 => (OnlyOpeners(q) => OnlyOpeners(r))
    BY <2>1, <2>2 DEF OnlyOpeners
  <2>8. m.flags # "FIN" /\ HasFin(r) => HasFin(q)
    BY <2>1, <2>2 DEF HasFin
  <2> QED BY <2>5, <2>6, <2>7, <2>8
<1> QED BY <1>1, <1>2 DEF SentTo

\* When the next message is offered, nothing on its way is it.
LEMMA ApartOffer ==
  ASSUME NEW q, Len(q) \in Nat, NEW off \in Seq(Message), DataOnWay(q, off, Len(off)),
         Apart(q, off, Len(off)), NEW m \in Message, Len(off) > 0 => m # off[Len(off)]
  PROVE  Apart(q, Append(off, m), Len(off))
<1> DEFINE n == Len(off)
           new == Append(off, m)
<1>1. n \in Nat /\ Len(new) = n + 1 /\ new[n + 1] = m
  BY LenProperties, AppendProperties
<1>2. \A j \in 1 .. Len(q) : IsData(q[j]) => n > 0 /\ q[j].msg = off[n]
  BY <1>1 DEF DataOnWay
<1>3. \A j, k \in 1 .. Len(q) : j < k => ~(IsAck(q[j]) /\ IsData(q[k]))
  BY <1>1 DEF Apart, IsNew
<1> HIDE DEF new
<1>4. \A j \in 1 .. Len(q) : ~IsNew(q[j], new, n)
  BY <1>1, <1>2 DEF IsNew
<1>5. Apart(q, new, n)
  BY <1>3, <1>4 DEF Apart
<1> QED BY <1>5 DEF new

\* Once the last message has been queued, nothing but its copies and FINs follows.
LEMMA ApartTaken ==
  ASSUME NEW q, NEW r, Len(q) \in Nat, Len(q) > 0, Len(r) = Len(q) - 1,
         \A j \in 1 .. Len(q) - 1 : r[j] = q[j + 1],
         NEW off, NEW h, Apart(q, off, h), IsNew(q[1], off, h)
  PROVE  NoAnswers(r) /\ Apart(r, off, Len(off))
<1>1. \A j \in 1 .. Len(r) : j + 1 \in 1 .. Len(q) /\ 1 < j + 1 /\ r[j] = q[j + 1]
  OBVIOUS
<1>2. 1 \in 1 .. Len(q)
  OBVIOUS
<1>3. NoAnswers(r)
  BY <1>1, <1>2 DEF NoAnswers, Apart
<1> QED BY <1>3 DEF NoAnswers, Apart

\* Behind an answer nothing but messages that open a send() follows.
LEMMA ApartSeen ==
  ASSUME NEW q, NEW r, Len(q) \in Nat, Len(q) > 0, Len(r) = Len(q) - 1,
         \A j \in 1 .. Len(q) - 1 : r[j] = q[j + 1],
         NEW off, NEW h, Apart(q, off, h), IsAck(q[1])
  PROVE  OnlyOpeners(r)
<1>1. \A j \in 1 .. Len(r) : j + 1 \in 1 .. Len(q) /\ 1 < j + 1 /\ r[j] = q[j + 1]
  OBVIOUS
<1>2. 1 \in 1 .. Len(q)
  OBVIOUS
<1> QED BY <1>1, <1>2 DEF OnlyOpeners, Apart

\* Receiving without sending.
LEMMA ComingStays ==
  ASSUME NEW q \in Seq(Datagram), NEW r, LeftOf(q, r),
         NEW in, NEW h, NEW out, NEW g, NEW c, Coming(q, in, h, out, g, c)
  PROVE  Coming(r, in, h, out, g, c)
BY ApartStays, FinsStay, StillOnWay DEF Coming

\* An answer, a FIN, or the last message once more is sent to a socket.
LEMMA ComingAppend ==
  ASSUME FinSeqnum > 0, NEW q \in Seq(Datagram), NEW r, NEW m \in Message, SentTo(q, r, m),
         NEW in \in Seq(Message), NEW h, NEW out \in Seq(Message), Stream(out),
         NEW g \in Nat, NEW c \in Nat, c <= g, g <= Len(out), c >= Len(out) - 1,
         Coming(q, in, h, out, g, c),
         m.flags = "FIN" => m = Fin,
         m.flags = "ACK" =>
           /\ m.seqnum = NoNumber \/ (g > 0 /\ m.seqnum = out[g].seqnum)
           /\ \A j \in 1 .. Len(q) : ~IsNew(q[j], in, h),
         m.flags \notin {"FIN", "ACK"} =>
           /\ Len(in) > 0 /\ m = in[Len(in)]
           /\ NoAnswers(q) \/ (h < Len(in) /\ m.seqnum = 0)
  PROVE  Coming(r, in, h, out, g, c)
<1>1. FinsOnWay(r)
  BY FinsStay DEF Coming
<1>2. DataOnWay(r, in, h)
  BY DataAppend DEF Coming
<1>3. AnswersOnWay(r, out, g, c)
  BY AnswersAppend DEF Coming
<1>4. Apart(r, in, h)
  BY ApartAppend DEF Coming
<1> QED BY <1>1, <1>2, <1>3, <1>4 DEF Coming

-----------------------------------------------------------------------------
(* The two sockets *)

\* TurnsInv is inductive together with the types and what holds of the stream.
IInv == TypeInv /\ StreamInv /\ TurnsInv

\* The two sockets are each other's only company.
LEMMA Pair ==
  ASSUME NEW s \in Socket, NEW p, p = Peer[s]
  PROVE  /\ p \in Socket /\ p # s /\ s = Peer[p]
         /\ \A t \in Socket : t = s \/ t = p
         /\ FinSeqnum > 0 /\ Path # "any"
BY LinkAssumption, TurnsAssumption DEF Peer

\* What the types and the invariant say of the messages from s to its peer.
LEMMA Histories ==
  ASSUME IInv, NEW s \in Socket, NEW p, p = Peer[s]
  PROVE  /\ offered[s] \in Seq(Message) /\ accepted[p] \in Seq(Message)
         /\ Len(offered[s]) \in Nat /\ Len(accepted[p]) \in Nat /\ confirmed[s] \in Nat
         /\ (offered[s] # << >> <=> Len(offered[s]) > 0)
         /\ (accepted[p] # << >> <=> Len(accepted[p]) > 0)
         /\ Stream(offered[s]) /\ Len(accepted[p]) <= Len(offered[s])
         /\ \A k \in 1 .. Len(accepted[p]) : accepted[p][k] = offered[s][k]
         /\ confirmed[s] <= Len(accepted[p]) /\ confirmed[s] >= Len(offered[s]) - 1
         /\ confirmed[s] \in {Len(offered[s]) - 1, Len(offered[s])}
         /\ (AllQueued(s) <=> Len(accepted[p]) = Len(offered[s]))
         /\ AllQueued(s) => accepted[p] = offered[s]
         /\ ~AllQueued(s) =>
              /\ Len(accepted[p]) = Len(offered[s]) - 1 /\ Len(offered[s]) > 0
              /\ confirmed[s] = Len(offered[s]) - 1
         /\ \A k \in 1 .. Len(offered[s]) : offered[s][k] \in Message /\ WellFormed(offered[s][k])
<1>1. p \in Socket
  BY Pair
<1>2. offered[s] \in Seq(Message) /\ accepted[p] \in Seq(Message) /\ confirmed[s] \in Nat
  BY <1>1 DEF IInv, TypeInv, TypeOK
<1>3. /\ Len(offered[s]) \in Nat /\ Len(accepted[p]) \in Nat
      /\ \A k \in 1 .. Len(offered[s]) : offered[s][k] \in Message
  BY <1>2, LenProperties, ElementOfSeq
<1>4. (offered[s] # << >> <=> Len(offered[s]) > 0) /\ (accepted[p] # << >> <=> Len(accepted[p]) > 0)
  BY <1>2, <1>3, EmptySeq
<1>5. /\ Stream(offered[s]) /\ Len(accepted[p]) <= Len(offered[s])
      /\ \A k \in 1 .. Len(accepted[p]) : accepted[p][k] = offered[s][k]
      /\ confirmed[s] <= Len(accepted[p])
      /\ confirmed[s] \in {Len(offered[s]) - 1, Len(offered[s])}
  BY DEF IInv, TurnsInv, Transfers, HandedOver
<1>6. Len(accepted[p]) = Len(offered[s]) => accepted[p] = offered[s]
  BY <1>2, <1>5, SeqEqual
<1>7. AllQueued(s) <=> Len(accepted[p]) = Len(offered[s])
  BY DEF AllQueued
<1>8. \A k \in 1 .. Len(offered[s]) : WellFormed(offered[s][k])
  BY <1>5 DEF Stream
<1>9. confirmed[s] >= Len(offered[s]) - 1
  BY <1>3, <1>5
<1>10. Len(accepted[p]) # Len(offered[s]) =>
         /\ Len(accepted[p]) = Len(offered[s]) - 1 /\ Len(offered[s]) > 0
         /\ confirmed[s] = Len(offered[s]) - 1
  BY <1>2, <1>3, <1>5
<1> QED BY <1>2, <1>3, <1>4, <1>5, <1>6, <1>7, <1>8, <1>9, <1>10

\* What is on its way to s.
LEMMA Queue ==
  ASSUME IInv, NEW s \in Socket, NEW p, p = Peer[s]
  PROVE  /\ inbox \in Queues /\ inbox[s] \in Seq(Datagram) /\ Len(inbox[s]) \in Nat
         /\ endPoint[s] = p
         /\ Coming(inbox[s], offered[p], Len(accepted[s]), offered[s], Len(accepted[p]), confirmed[s])
<1>1. inbox \in Queues
  BY DEF IInv, TypeInv, TypeOK, Queues
<1>2. inbox[s] \in Seq(Datagram) /\ Len(inbox[s]) \in Nat
  BY <1>1, LenProperties DEF Queues
<1> QED BY <1>1, <1>2 DEF IInv, TurnsInv, Transfers, OnWay, Coming

\* The number p expects is no FIN's; the one before it is NoNumber or that of the
\* message it has queued last; and while one is missing, it is that one's.
LEMMA ExpectedNumber ==
  ASSUME IInv, NEW s \in Socket, NEW p, p = Peer[s]
  PROVE  LET off == offered[s]
             acc == accepted[p]
         IN  /\ NextNumber(acc) \in Seqnum /\ NextNumber(acc) # FinSeqnum
             /\ \/ Pred(NextNumber(acc)) = NoNumber
                \/ Len(acc) > 0 /\ Pred(NextNumber(acc)) = off[Len(acc)].seqnum
             /\ ~AllQueued(s) => NextNumber(acc) = off[Len(off)].seqnum
             /\ Len(acc) > 0 =>
                  /\ acc[Len(acc)] = off[Len(acc)] /\ NextNumber(acc) = NumberAfter(off[Len(acc)])
                  /\ NextNumber(acc) # off[Len(acc)].seqnum
                  /\ off[Len(acc)] \in Message /\ WellFormed(off[Len(acc)])
<1> DEFINE off == offered[s]
           acc == accepted[p]
           h   == Len(acc)
<1>1. /\ Stream(off) /\ h <= Len(off) /\ \A k \in 1 .. h : acc[k] = off[k]
      /\ Len(off) \in Nat /\ h \in Nat /\ (acc = << >> <=> h = 0)
      /\ ~AllQueued(s) => h = Len(off) - 1 /\ Len(off) > 0
      /\ \A k \in 1 .. Len(off) : off[k] \in Message /\ WellFormed(off[k])
      /\ FinSeqnum > 0
  BY Histories, Pair
<1> HIDE DEF off, acc
<1>2. CASE h = 0
  <2>1. NextNumber(acc) = 0 /\ Pred(0) = NoNumber
    BY <1>1, <1>2 DEF NextNumber, Pred, NoNumber
  <2>2. Len(off) > 0 => off[1].seqnum = 0
    BY <1>1 DEF Stream
  <2>3. 0 \in Seqnum /\ 0 # FinSeqnum
    BY <1>1, MsgAssumption DEF Seqnum
  <2> QED BY <1>1, <1>2, <2>1, <2>2, <2>3 DEF off, acc
<1>3. CASE h > 0
  <2>1. h \in 1 .. h /\ h \in 1 .. Len(off)
    BY <1>1, <1>3
  <2>2. acc[h] = off[h] /\ NextNumber(acc) = NumberAfter(off[h])
    BY <1>1, <1>3, <2>1 DEF NextNumber
  <2>3. off[h] \in Message /\ WellFormed(off[h])
    BY <1>1, <2>1
  <2>4. ~AllQueued(s) => off[Len(off)].seqnum = NumberAfter(off[h])
    BY <1>1, <1>3 DEF Stream
  <2>5. /\ NumberAfter(off[h]) \in Seqnum /\ NumberAfter(off[h]) # FinSeqnum
        /\ NumberAfter(off[h]) # off[h].seqnum
        /\ Pred(NumberAfter(off[h])) \in {NoNumber, off[h].seqnum}
    BY <1>1, <2>3, Neighbours
  <2> QED BY <1>1, <1>3, <2>2, <2>3, <2>4, <2>5 DEF off, acc
<1> QED BY <1>1, <1>2, <1>3

\* An open socket: it has been answered everything and expects a new send() unless
\* acksend() or recv() is at work; and it is open if it is at work or hears something.
LEMMA OpenSocket ==
  ASSUME IInv, NEW s \in Socket, NEW p, p = Peer[s]
  PROVE  /\ pc[s] \in {"acksend", "recv"} \/ Len(inbox[s]) > 0 => ~isClosing[s]
         /\ ~isClosing[s] =>
              /\ pc[s] # "acksend" =>
                   /\ confirmed[s] = Len(offered[s]) /\ NextNumber(offered[s]) = 0
                   /\ AllQueued(s) /\ accepted[p] = offered[s]
              /\ pc[s] = "acksend" =>
                   /\ offered[s][Len(offered[s])] = Current(s) /\ Len(offered[s]) > 0
                   /\ confirmed[s] = Len(offered[s]) - 1
                   /\ sendSeqnum[s] \in Seqnum /\ unsent[s] \in Seq(Byte)
                   /\ SendPlace(sendSeqnum[s], unsent[s])
              /\ pc[s] = "recv" => recvSeqnum[s] = NextNumber(accepted[s])
              /\ pc[s] # "recv" => NextNumber(accepted[s]) = 0
<1>1. pc[s] \in {"acksend", "recv"} \/ Len(inbox[s]) > 0 => ~isClosing[s]
  BY EmptySeq DEF IInv, StreamInv, ClosedIsDeaf
<1>2. SenderPlace(s) /\ ReceiverPlace(s)
  BY DEF IInv, TurnsInv, Transfers
<1>3. sendSeqnum[s] \in Seqnum /\ unsent[s] \in Seq(Byte)
  BY DEF IInv, TypeInv, TypeOK
<1> HIDE DEF IInv
<1>4. ~isClosing[s] /\ pc[s] # "acksend" => AllQueued(s) /\ accepted[p] = offered[s]
  BY <1>2, Histories DEF SenderPlace
<1> QED BY <1>1, <1>2, <1>3, <1>4, Histories DEF SenderPlace, ReceiverPlace

\* If a socket is open and what it expects has been offered and not queued, its peer
\* is open and in acksend().
LEMMA PeerSends ==
  ASSUME IInv, NEW s \in Socket, NEW p, p = Peer[s], ~isClosing[s], ~AllQueued(p)
  PROVE  ~isClosing[p] /\ pc[p] = "acksend"
<1>1. p \in Socket /\ s = Peer[p]
  BY Pair
<1>2. ~isClosing[p]
  BY <1>1, Histories DEF IInv, TurnsInv, Transfers, ClosedAtEnd
<1> QED BY <1>1, <1>2, OpenSocket

-----------------------------------------------------------------------------
(* What a step of s leaves as it is *)

\* All that belongs to t, but for its queue.
Rests(t) ==
  /\ pc'[t] = pc[t] /\ isClosing'[t] = isClosing[t] /\ script'[t] = script[t]
  /\ sendSeqnum'[t] = sendSeqnum[t] /\ unsent'[t] = unsent[t]
  /\ offered'[t] = offered[t] /\ confirmed'[t] = confirmed[t]
  /\ recvSeqnum'[t] = recvSeqnum[t] /\ finAck'[t] = finAck[t]
  /\ buffer'[t] = buffer[t] /\ accepted'[t] = accepted[t]

\* A socket that knows its peer keeps it, whatever arrives or fails to.
LEMMA EndPointStays ==
  ASSUME IInv, NEW s \in Socket, Step(s)
  PROVE  endPoint' = endPoint
<1>1. endPoint[s] # Unset /\ endPoint \in [Socket -> Addr \cup {Unset}]
  BY Queue, Pair, SocketAssumption DEF IInv, TypeInv, TypeOK
<1>2. /\ \A d : LearnSource(s, d) => endPoint' = endPoint
      /\ TimesOut(s) => endPoint' = endPoint
  BY <1>1 DEF LearnSource, TimesOut
<1>3. SilentStep(s) => endPoint' = endPoint
  BY <1>2 DEF SilentStep, SendOnClosing, CallRecv, RecvOnClosing, RecvTimeout, FinalizeTimeout,
              FinalizeSpin, AcksendDone, RecvIgnore, FinalizeLeave, vars, addrVars
<1>4. \A fate : SendStep(s, fate) => endPoint' = endPoint
  BY <1>2 DEF SendStep, CallSend, AcksendTimeout, AcksendAgain, AcksendNext, addrVars
<1>5. \A fate : AnswerStep(s, fate) => endPoint' = endPoint
  BY <1>2 DEF AnswerStep, RecvAccept, RecvReject, FinalizeAnswer
<1>6. \A fate : CloseStep(s, fate) => endPoint' = endPoint
  BY <1>2 DEF CloseStep, CallClose, AcksendFin, RecvFin, FinalizeFin, addrVars
<1> QED BY <1>3, <1>4, <1>5, <1>6 DEF Step

\* A step of s does nothing to its peer but send to it.
LEMMA PeerRests ==
  ASSUME IInv, NEW s \in Socket, NEW p \in Socket, p # s, Step(s)
  PROVE  Rests(p)
<1>1. TypeOK
  BY DEF IInv, TypeInv
<1> USE <1>1 DEF TypeOK, Rests, sendVars, recvVars
<1>2. ReturnRead(s) => script'[p] = script[p] /\ pc'[p] = pc[p] /\ buffer'[p] = buffer[p]
  BY DEF ReturnRead, Return
<1>3. Return(s) => script'[p] = script[p] /\ pc'[p] = pc[p]
  BY DEF Return
<1>4. LeaveFinalize(s) => Rests(p)
  BY <1>2 DEF LeaveFinalize
<1>5. SilentStep(s) => Rests(p)
  <2>1. SendOnClosing(s) \/ CallRecv(s) \/ RecvOnClosing(s) \/ RecvTimeout(s) => Rests(p)
    BY <1>2, <1>3 DEF SendOnClosing, CallRecv, RecvOnClosing, RecvTimeout
  <2>2. FinalizeTimeout(s) \/ FinalizeSpin(s) => Rests(p)
    BY <1>4 DEF FinalizeTimeout, FinalizeSpin, vars
  <2>3. ASSUME NEW i \in DOMAIN inbox[s],
               AcksendDone(s, i) \/ RecvIgnore(s, i) \/ FinalizeLeave(s, i)
        PROVE  Rests(p)
    BY <1>3, <1>4, <2>3 DEF AcksendDone, RecvIgnore, FinalizeLeave
  <2> QED BY <2>1, <2>2, <2>3 DEF SilentStep
<1>6. ASSUME NEW fate, SendStep(s, fate)  PROVE Rests(p)
  BY <1>6, SMTT(30) DEF SendStep, CallSend, AcksendTimeout, AcksendAgain, AcksendNext, StartAcksend
<1>7. ASSUME NEW fate, AnswerStep(s, fate)  PROVE Rests(p)
  BY <1>7, SMTT(30) DEF AnswerStep, RecvAccept, RecvReject, FinalizeAnswer, Acknowledge
<1>8. ASSUME NEW fate, CloseStep(s, fate)  PROVE Rests(p)
  BY <1>2, <1>3, <1>8, SMTT(30) DEF CloseStep, CallClose, AcksendFin, RecvFin, FinalizeFin
<1> QED BY <1>5, <1>6, <1>7, <1>8 DEF Step

-----------------------------------------------------------------------------
(* Turns *)

\* The calls that two sockets at the same turn are in fit.
LEMMA CallsFit ==
  ASSUME IInv, NEW s \in Socket, NEW p, p = Peer[s]
  PROVE  /\ CallsMade(s) \in Nat
         /\ SameTurn(s) /\ script[s] # << >> /\ script[p] # << >> =>
              \/ Fit(Head(script[s]), Head(script[p]))
              \/ Fit(Head(script[p]), Head(script[s]))
         /\ (pc[s] = "acksend" => script[s] # << >> /\ Head(script[s]).op = "send")
         /\ (pc[s] \in {"recv", "finalize"} => script[s] # << >> /\ Head(script[s]).op = "recv")
<1>1. TypeInv /\ CallsLeft
  BY DEF IInv, StreamInv
<1>2. p \in Socket
  BY Pair
<1>3. \A t \in Socket : DOMAIN Script[t] = 1 .. Len(Script[t]) /\ Len(Script[t]) \in Nat
  BY LinkAssumption, LenProperties
<1>4. CallsMade(s) \in Nat
  BY <1>1, <1>3, CurrentCall
<1>5. ASSUME SameTurn(s), script[s] # << >>, script[p] # << >>
      PROVE  \/ Fit(Head(script[s]), Head(script[p]))
             \/ Fit(Head(script[p]), Head(script[s]))
  <2>1. /\ CallsMade(s) + 1 \in 1 .. Len(Script[s]) /\ Head(script[s]) = Script[s][CallsMade(s) + 1]
        /\ CallsMade(p) + 1 \in 1 .. Len(Script[p]) /\ Head(script[p]) = Script[p][CallsMade(p) + 1]
    BY <1>1, <1>2, <1>5, CurrentCall
  <2>2. CallsMade(s) = CallsMade(p)
    BY <1>5 DEF SameTurn
  <2>3. (s = Client /\ p = Server) \/ (s = Server /\ p = Client)
    BY LinkAssumption DEF Peer
  <2> HIDE DEF CallsMade, Fit
  <2> QED BY <1>3, <2>1, <2>2, <2>3, TurnsAssumption
<1> QED BY <1>1, <1>4, <1>5 DEF TypeInv, InCall

\* Whether both are at the same turn is the same question from either side.
LEMMA TurnSides ==
  ASSUME IInv, NEW s \in Socket, NEW p, p = Peer[s]
  PROVE  /\ SameTurn(s) <=> SameTurn(p)
         /\ SameTurn(s) <=> CallsMade(s) = CallsMade(p)
         /\ Ahead(s) <=> CallsMade(s) = CallsMade(p) + 1
         /\ Ahead(p) <=> CallsMade(p) = CallsMade(s) + 1
         /\ CallsMade(s) \in Nat /\ CallsMade(p) \in Nat
         /\ ~isClosing[s] /\ ~isClosing[p] =>
              /\ Turn(s) /\ Turn(p)
              /\ SameTurn(s) \/ Ahead(s) \/ Ahead(p)
              /\ SameTurn(s) => Portion(s) /\ Portion(p)
         /\ ~isClosing[s] => Buffered(s)
<1>1. p \in Socket /\ s = Peer[p]
  BY Pair
<1>2. CallsMade(s) \in Nat /\ CallsMade(p) \in Nat
  BY <1>1, CallsFit
<1>3. /\ SameTurn(s) <=> SameTurn(p)
      /\ SameTurn(s) <=> CallsMade(s) = CallsMade(p)
      /\ Ahead(s) <=> CallsMade(s) = CallsMade(p) + 1
      /\ Ahead(p) <=> CallsMade(p) = CallsMade(s) + 1
  BY <1>1 DEF SameTurn, Ahead
<1>4. ASSUME ~isClosing[s], ~isClosing[p]
      PROVE  /\ Turn(s) /\ Turn(p)
             /\ SameTurn(s) \/ Ahead(s) \/ Ahead(p)
             /\ SameTurn(s) => Portion(s) /\ Portion(p)
  <2>1. Turn(s) /\ Turn(p) /\ (SameTurn(s) => Portion(s)) /\ (SameTurn(p) => Portion(p))
    BY <1>1, <1>4 DEF IInv, TurnsInv, TakesTurns
  <2>2. CallsMade(s) <= CallsMade(p) + 1 /\ CallsMade(p) <= CallsMade(s) + 1
    BY <1>1, <2>1 DEF Turn
  <2> QED BY <1>2, <1>3, <2>1, <2>2
<1> QED BY <1>2, <1>3, <1>4 DEF IInv, TurnsInv, TakesTurns

\* When both are in acksend(), one is a call ahead, and waits with the first message
\* for the other to return.
LEMMA BothSend ==
  ASSUME IInv, NEW s \in Socket, NEW p, p = Peer[s], pc[s] = "acksend", pc[p] = "acksend"
  PROVE  \/ Fresh(s) /\ EndQueued(p)
         \/ Fresh(p) /\ EndQueued(s)
<1>1. p \in Socket /\ s = Peer[p]
  BY Pair
<1>2. ~isClosing[s] /\ ~isClosing[p]
  BY <1>1, OpenSocket
<1>3. Turn(s) /\ Turn(p) /\ (SameTurn(s) \/ Ahead(s) \/ Ahead(p))
  BY <1>2, TurnSides
<1>4. ~SameTurn(s)
  <2>1. /\ script[s] # << >> /\ Head(script[s]).op = "send"
        /\ script[p] # << >> /\ Head(script[p]).op = "send"
    BY <1>1, CallsFit
  <2> QED BY <2>1, CallsFit DEF Fit, Fills
<1>5. ~Lingers(s) /\ ~Lingers(p)
  BY DEF Lingers
<1> QED BY <1>1, <1>3, <1>4, <1>5 DEF Turn

-----------------------------------------------------------------------------
(* What arrives *)

\* What acksend() takes for the answer is no message.
LEMMA AnswerIsAck ==
  ASSUME IInv, NEW s \in Socket, NEW p, p = Peer[s], pc[s] = "acksend", Len(inbox[s]) > 0,
         Answers(inbox[s][1], Current(s)), ~HasFlag(inbox[s][1], "FIN")
  PROVE  IsAck(inbox[s][1])
<1> DEFINE d   == inbox[s][1]
           off == offered[p]
           n   == Len(off)
<1>1. p \in Socket /\ s = Peer[p] /\ FinSeqnum > 0
  BY Pair
<1>2. /\ ~isClosing[s] /\ sendSeqnum[s] \in Seqnum /\ unsent[s] \in Seq(Byte)
      /\ SendPlace(sendSeqnum[s], unsent[s]) /\ NextNumber(accepted[s]) = 0
  BY OpenSocket
<1>3. d.msg.seqnum = sendSeqnum[s]
  BY <1>1, <1>2, MsgForWellFormed DEF Answers, Current
<1> SUFFICES ASSUME ~IsAck(d)  PROVE FALSE
  OBVIOUS
<1>4. IsData(d) /\ 1 \in 1 .. Len(inbox[s])
  BY Queue DEF Answers, HasFlag, IsAck, IsData
<1>5. sendSeqnum[s] = 0
  BY <1>3, <1>4 DEF IInv, TurnsInv, Transfers, Unmixed, OnlyOpeners
<1>6. \/ n > 0 /\ d.msg = off[n]
      \/ n > 1 /\ ~AllQueued(p) /\ d.msg = off[n - 1]
  <2>1. DataOnWay(inbox[s], off, Len(accepted[s]))
    BY Queue DEF Coming
  <2>2. \/ n > 0 /\ d.msg = off[n]
        \/ n > 1 /\ Len(accepted[s]) < n /\ d.msg = off[n - 1]
    BY <1>4, <2>1 DEF DataOnWay
  <2>3. AllQueued(p) => Len(accepted[s]) = n
    BY <1>1 DEF AllQueued
  <2>4. n \in Nat /\ Len(accepted[s]) \in Nat
    BY <1>1, Histories
  <2> HIDE DEF n, d, off
  <2> QED BY <2>2, <2>3, <2>4
<1>7. \A k \in 1 .. n : off[k] \in Message /\ WellFormed(off[k])
  BY <1>1, Histories
<1>8. ASSUME Len(accepted[s]) > 0, d.msg = off[Len(accepted[s])]  PROVE FALSE
  <2>1. NextNumber(accepted[s]) = NumberAfter(off[Len(accepted[s])]) /\ WellFormed(off[Len(accepted[s])])
    BY <1>1, <1>8, ExpectedNumber
  <2> QED BY <1>2, <1>3, <1>5, <1>8, <2>1, MsgAssumption DEF NumberAfter, WellFormed
<1>9. CASE AllQueued(p)
  BY <1>1, <1>6, <1>8, <1>9, Histories
<1>10. CASE ~AllQueued(p)
  <2>1. Len(accepted[s]) = n - 1 /\ n \in Nat
    BY <1>1, <1>10, Histories
  <2>2. pc[p] = "acksend"
    BY <1>2, <1>10, PeerSends
  <2>3. EndQueued(s)
    BY <1>10, <2>2, BothSend DEF EndQueued
  <2>4. unsent[s] = << >>
    BY <2>3 DEF EndQueued
  <2> QED BY <1>2, <1>5, <2>4 DEF SendPlace
<1> QED BY <1>9, <1>10

\* It is the answer to the message, which has been queued, and no answer to an earlier
\* one follows.
LEMMA AnswerSeen ==
  ASSUME IInv, NEW s \in Socket, NEW p, p = Peer[s], pc[s] = "acksend",
         NEW i \in DOMAIN inbox[s], MayArrive(s, i),
         Answers(inbox[s][i], Current(s)), ~HasFlag(inbox[s][i], "FIN")
  PROVE  /\ AllQueued(s) /\ accepted[p] = offered[s]
         /\ Coming(Without(s, i)[s], offered[p], Len(accepted[s]),
                   offered[s], Len(offered[s]), Len(offered[s]))
         /\ OnlyOpeners(Without(s, i)[s])
<1> DEFINE q == inbox[s]
           r == Without(s, i)[s]
           off == offered[s]
           n == Len(off)
<1>1. p \in Socket /\ s # p /\ FinSeqnum > 0 /\ Path # "any"
  BY Pair
<1>2. q \in Seq(Datagram) /\ Len(q) \in Nat /\ inbox \in Queues
  BY Queue
<1>3. /\ Len(q) > 0 /\ q[i] = q[1] /\ Len(r) = Len(q) - 1
      /\ \A j \in 1 .. Len(q) - 1 : r[j] = q[j + 1]
  BY <1>1, <1>2, FirstArrives
<1>4. /\ off[n] = Current(s) /\ n > 0 /\ confirmed[s] = n - 1
  BY OpenSocket
<1>5. IsAck(q[1]) /\ q[1].msg.seqnum = off[n].seqnum
  BY <1>3, <1>4, AnswerIsAck DEF Answers
<1>6. Coming(q, offered[p], Len(accepted[s]), off, Len(accepted[p]), n - 1)
  BY <1>4, Queue
<1>7. off \in Seq(Message) /\ Stream(off)
  BY Histories
<1> HIDE DEF q, r, off
<1>8. Len(accepted[p]) = n
  <2>1. /\ off[n].seqnum # NoNumber
        /\ n > 1 => off[n - 1].seqnum # off[n].seqnum
    BY <1>1, <1>4, <1>7, StreamNeighbours
  <2>2. 1 \in 1 .. Len(q)
    BY <1>2, <1>3
  <2> QED BY <1>5, <1>6, <2>1, <2>2 DEF Coming, AnswersOnWay
<1>9. AnswersOnWay(r, off, n, n)
  <2>1. AnswersOnWay(q, off, n, n - 1)
    BY <1>6, <1>8 DEF Coming
  <2> QED BY <1>2, <1>3, <1>4, <1>5, <2>1, AnswersSeen
<1>10. Coming(r, offered[p], Len(accepted[s]), off, Len(accepted[p]), n - 1)
  BY <1>2, <1>3, <1>6, ComingStays DEF LeftOf
<1>11. Coming(r, offered[p], Len(accepted[s]), off, n, n)
  BY <1>9, <1>10 DEF Coming
<1>12. OnlyOpeners(r)
  BY <1>2, <1>3, <1>5, <1>6, ApartSeen DEF Coming
<1>13. AllQueued(s)
  BY <1>8, Histories DEF off
<1> QED BY <1>11, <1>12, <1>13, Histories DEF r, off

\* What recv() expects is no answer.
LEMMA ExpectedIsData ==
  ASSUME IInv, NEW s \in Socket, NEW p, p = Peer[s], pc[s] = "recv", Len(inbox[s]) > 0,
         Expected(s, inbox[s][1]), ~HasFlag(inbox[s][1], "FIN")
  PROVE  IsData(inbox[s][1])
<1> DEFINE d   == inbox[s][1]
           off == offered[s]
           n   == Len(off)
<1>1. p \in Socket /\ s = Peer[p] /\ FinSeqnum > 0
  BY Pair
<1>2. /\ ~isClosing[s] /\ recvSeqnum[s] = NextNumber(accepted[s])
      /\ confirmed[s] = n /\ NextNumber(off) = 0 /\ AllQueued(s)
  BY OpenSocket
<1>3. d.msg.seqnum = NextNumber(accepted[s]) /\ 1 \in 1 .. Len(inbox[s])
  BY <1>2, Queue DEF Expected
<1> SUFFICES ASSUME IsAck(d)  PROVE FALSE
  BY DEF Expected, HasFlag, IsAck, IsData
<1>4. NextNumber(accepted[s]) = 0
  BY <1>3 DEF IInv, TurnsInv, Transfers, Unmixed, NoAnswers
<1>5. \/ d.msg.seqnum = NoNumber
      \/ n > 0 /\ d.msg.seqnum = off[n].seqnum
  BY <1>2, <1>3, Queue, Histories DEF Coming, AnswersOnWay
<1>6. NoNumber # 0
  BY MsgAssumption DEF NoNumber
<1>7. n > 0 => NumberAfter(off[n]) = 0 /\ WellFormed(off[n])
  BY <1>2, Histories DEF NextNumber
<1> QED BY <1>1, <1>3, <1>4, <1>5, <1>6, <1>7, MsgAssumption DEF NumberAfter, WellFormed

\* It is the last message offered, which was the only one missing, and nothing but its
\* copies follows.
LEMMA ExpectedIsNext ==
  ASSUME IInv, NEW s \in Socket, NEW p, p = Peer[s], pc[s] = "recv",
         NEW i \in DOMAIN inbox[s], MayArrive(s, i),
         Expected(s, inbox[s][i]), ~HasFlag(inbox[s][i], "FIN")
  PROVE  /\ ~AllQueued(p) /\ inbox[s][i].msg = offered[p][Len(offered[p])]
         /\ inbox[s][i].msg = Current(p) /\ Current(p).seqnum = recvSeqnum[s]
         /\ Coming(Without(s, i)[s], offered[p], Len(offered[p]),
                   offered[s], Len(accepted[p]), confirmed[s])
         /\ NoAnswers(Without(s, i)[s])
<1> DEFINE q == inbox[s]
           r == Without(s, i)[s]
           off == offered[p]
           n == Len(off)
<1>1. p \in Socket /\ s # p /\ s = Peer[p] /\ FinSeqnum > 0 /\ Path # "any"
  BY Pair
<1>2. q \in Seq(Datagram) /\ Len(q) \in Nat /\ inbox \in Queues
  BY Queue
<1>3. /\ Len(q) > 0 /\ q[i] = q[1] /\ Len(r) = Len(q) - 1
      /\ \A j \in 1 .. Len(q) - 1 : r[j] = q[j + 1]
  BY <1>1, <1>2, FirstArrives
<1>4. ~isClosing[s] /\ recvSeqnum[s] = NextNumber(accepted[s])
  BY OpenSocket
<1>5. IsData(q[1]) /\ q[1].msg.seqnum = NextNumber(accepted[s])
  BY <1>3, <1>4, ExpectedIsData DEF Expected
<1>6. Coming(q, off, Len(accepted[s]), offered[s], Len(accepted[p]), confirmed[s])
  BY Queue
<1>7. off \in Seq(Message) /\ Stream(off)
  BY <1>1, Histories
<1>8. \/ n > 0 /\ q[1].msg = off[n]
      \/ n > 1 /\ Len(accepted[s]) < n /\ q[1].msg = off[n - 1]
  <2>1. 1 \in 1 .. Len(q)
    BY <1>2, <1>3
  <2> QED BY <1>5, <1>6, <2>1 DEF Coming, DataOnWay
<1>9. ~AllQueued(p)
  <2>1. AllQueued(p) => Len(accepted[s]) = n /\ n \in Nat
    BY <1>1, Histories
  <2>2. Len(accepted[s]) > 0 => NextNumber(accepted[s]) # off[Len(accepted[s])].seqnum
    BY <1>1, ExpectedNumber
  <2> QED BY <1>5, <1>8, <2>1, <2>2
<1>10. Len(accepted[s]) = n - 1 /\ NextNumber(accepted[s]) = off[n].seqnum /\ n > 0 /\ n \in Nat
  BY <1>1, <1>9, Histories, ExpectedNumber
<1>11. q[1].msg = off[n]
  <2>1. n > 1 => off[n - 1].seqnum # off[n].seqnum
    BY <1>1, <1>7, <1>10, StreamNeighbours
  <2> QED BY <1>5, <1>8, <1>10, <2>1
<1>12. Current(p) = off[n]
  BY <1>1, <1>4, <1>9, PeerSends, OpenSocket
<1> HIDE DEF q, r, off
<1>13. Coming(r, off, Len(accepted[s]), offered[s], Len(accepted[p]), confirmed[s])
  BY <1>2, <1>3, <1>6, ComingStays DEF LeftOf
<1>14. DataOnWay(r, off, n)
  BY <1>2, <1>3, <1>5, <1>6, <1>10, <1>11, DataTaken DEF Coming
<1>15. IsNew(q[1], off, Len(accepted[s]))
  BY <1>5, <1>10, <1>11 DEF IsNew
<1>16. NoAnswers(r) /\ Apart(r, off, n)
  BY <1>2, <1>3, <1>6, <1>15, ApartTaken DEF Coming
<1>17. Coming(r, off, n, offered[s], Len(accepted[p]), confirmed[s])
  BY <1>13, <1>14, <1>16 DEF Coming
<1> QED BY <1>3, <1>4, <1>9, <1>10, <1>11, <1>12, <1>16, <1>17 DEF q, r, off

\* A valid FIN has a number that neither acksend() nor recv() waits for.
LEMMA FinUnexpected ==
  ASSUME IInv, NEW s \in Socket, NEW i \in DOMAIN inbox[s], HasFlag(inbox[s][i], "FIN")
  PROVE  /\ pc[s] = "acksend" => ~Answers(inbox[s][i], Current(s))
         /\ pc[s] = "recv" => ~Expected(s, inbox[s][i])
         /\ ~isClosing[s] /\ isClosing[Peer[s]]
<1> DEFINE p == Peer[s]
<1>1. p \in Socket /\ s = Peer[p] /\ FinSeqnum > 0
  BY Pair
<1>2. i \in 1 .. Len(inbox[s]) /\ Len(inbox[s]) > 0
  BY Queue, LenProperties
<1>3. inbox[s][i].msg.seqnum = FinSeqnum
  BY <1>2, Queue DEF Coming, FinsOnWay, Fin, ControlMsg
<1>4. pc[s] = "acksend" => Current(s).seqnum # FinSeqnum
  <2> SUFFICES ASSUME pc[s] = "acksend"  PROVE Current(s).seqnum # FinSeqnum
    OBVIOUS
  <2>1. offered[s][Len(offered[s])] = Current(s) /\ Len(offered[s]) \in 1 .. Len(offered[s])
    BY OpenSocket, Histories
  <2>2. Current(s) \in Message /\ WellFormed(Current(s))
    BY <2>1, Histories
  <2> QED BY <1>1, <2>2, Neighbours
<1>5. pc[s] = "recv" => recvSeqnum[s] # FinSeqnum
  BY <1>1, OpenSocket, ExpectedNumber
<1>6. ~isClosing[s] /\ isClosing[Peer[s]]
  BY <1>2, OpenSocket DEF HasFin, IInv, TurnsInv, Transfers, ClosedAtEnd
<1> QED BY <1>3, <1>4, <1>5, <1>6 DEF Answers, Expected

-----------------------------------------------------------------------------
(* The steps, by what they do to the transfers either way *)

\* The handoff of the messages of t: nothing changes, or one is offered, taken, or
\* learnt to be taken.
Stays(t) ==
  /\ offered'[t] = offered[t] /\ accepted'[Peer[t]] = accepted[Peer[t]]
  /\ confirmed'[t] = confirmed[t]

Offers(t) ==
  /\ accepted[Peer[t]] = offered[t] /\ accepted'[Peer[t]] = accepted[Peer[t]]
  /\ Len(offered'[t]) = Len(offered[t]) + 1
  /\ SubSeq(offered'[t], 1, Len(offered[t])) = offered[t]
  /\ confirmed'[t] = Len(offered[t])

Takes(t) ==
  /\ Len(accepted[Peer[t]]) < Len(offered[t])
  /\ accepted'[Peer[t]] = Append(accepted[Peer[t]], offered[t][Len(accepted[Peer[t]]) + 1])
  /\ offered'[t] = offered[t] /\ confirmed'[t] = confirmed[t]

Learns(t) ==
  /\ accepted[Peer[t]] = offered[t] /\ accepted'[Peer[t]] = accepted[Peer[t]]
  /\ offered'[t] = offered[t] /\ confirmed'[t] = Len(offered[t])

HandsOver(t) == Stays(t) \/ Offers(t) \/ Takes(t) \/ Learns(t)

\* Both directions after a step of s.
Kept(s) == Transfers(s)' /\ Transfers(Peer[s])' /\ HandsOver(s) /\ HandsOver(Peer[s])

\* A socket that rests is where it was.
LEMMA PlacesStay ==
  ASSUME IInv, NEW t \in Socket, Rests(t)
  PROVE  SenderPlace(t)' /\ ReceiverPlace(t)'
<1>1. SenderPlace(t) /\ ReceiverPlace(t)
  BY DEF IInv, TurnsInv, Transfers
<1>2. SenderPlace(t)'
  BY <1>1 DEF SenderPlace, Rests, Current
<1>3. ReceiverPlace(t)'
  BY <1>1 DEF ReceiverPlace, Rests
<1> QED BY <1>2, <1>3

\* A direction in which nothing is handed over.
LEMMA HistoriesStay ==
  ASSUME IInv, NEW t \in Socket, Stays(t)
  PROVE  HandedOver(t)' /\ HandsOver(t)
<1>1. HandedOver(t)
  BY DEF IInv, TurnsInv, Transfers
<1>2. HandedOver(t)'
  BY <1>1 DEF HandedOver, Stays
<1> QED BY <1>2 DEF HandsOver

\* How the two directions mix, on either side.
LEMMA Sides ==
  ASSUME IInv, NEW s \in Socket, NEW p, p = Peer[s]
  PROVE  Unmixed(s) /\ Unmixed(p) /\ ClosedAtEnd(s) /\ ClosedAtEnd(p)
<1>1. p \in Socket
  BY Pair
<1>2. \A t \in Socket : Unmixed(t) /\ ClosedAtEnd(t)
  BY DEF IInv, TurnsInv, Transfers
<1> QED BY <1>1, <1>2

\* Receiving does not mix them.
LEMMA UnmixedStays ==
  ASSUME NEW s \in Socket, NEW p, p = Peer[s], Unmixed(s),
         inbox[s] \in Seq(Datagram), LeftOf(inbox[s], inbox'[s]), accepted'[s] = accepted[s],
         pc'[p] = pc[p], AllQueued(p)' <=> AllQueued(p),
         pc'[s] = "acksend" => pc[s] = "acksend" /\ sendSeqnum'[s] = sendSeqnum[s]
  PROVE  Unmixed(s)'
<1>1. /\ NoAnswers(inbox[s]) => NoAnswers(inbox'[s])
      /\ OnlyOpeners(inbox[s]) => OnlyOpeners(inbox'[s])
  BY ApartStays
<1> QED BY <1>1 DEF Unmixed

\* Nor does it add a FIN.
LEMMA ClosedStays ==
  ASSUME NEW s \in Socket, NEW p, p = Peer[s], p # s, s = Peer[p], ClosedAtEnd(s), ClosedAtEnd(p),
         HasFin(inbox'[s]) => HasFin(inbox[s]), HasFin(inbox'[p]) => HasFin(inbox[p]),
         isClosing'[s] = isClosing[s], isClosing'[p] = isClosing[p], pc'[p] = pc[p],
         pc'[s] = "gone" => pc[s] = "gone",
         offered'[p] = offered[p], confirmed'[p] = confirmed[p],
         isClosing[s] => offered'[s] = offered[s] /\ confirmed'[s] = confirmed[s]
  PROVE  ClosedAtEnd(s)' /\ ClosedAtEnd(p)'
BY DEF ClosedAtEnd

\* The parts of Transfers that a step of s to which its peer has answered nothing
\* leaves to be looked at: what is on its way.
LEMMA Assemble ==
  ASSUME IInv, NEW s \in Socket, NEW p, p = Peer[s], Step(s),
         HandedOver(s)', HandedOver(p)', HandsOver(s), HandsOver(p),
         SenderPlace(s)', ReceiverPlace(s)',
         Coming(inbox'[s], offered'[p], Len(accepted'[s]),
                offered'[s], Len(accepted'[p]), confirmed'[s]),
         Coming(inbox'[p], offered'[s], Len(accepted'[p]),
                offered'[p], Len(accepted'[s]), confirmed'[p]),
         Unmixed(s)', Unmixed(p)', ClosedAtEnd(s)', ClosedAtEnd(p)'
  PROVE  Kept(s)
<1>1. p \in Socket /\ p # s /\ s = Peer[p] /\ \A t \in Socket : t = s \/ t = p
  BY Pair
<1>2. endPoint'[s] = p /\ endPoint'[p] = s
  <2>1. endPoint[s] = p /\ endPoint[p] = s
    BY <1>1, Queue
  <2>2. endPoint' = endPoint
    BY EndPointStays
  <2> QED BY <2>1, <2>2
<1>3. SenderPlace(p)' /\ ReceiverPlace(p)'
  <2>1. Rests(p)
    BY <1>1, PeerRests
  <2> QED BY <1>1, <2>1, PlacesStay
<1>4. OnWay(s)' /\ OnWay(p)'
  BY <1>1 DEF OnWay, Coming
<1>5. Transfers(s)'
  BY <1>1, <1>2, <1>4 DEF Transfers
<1>6. Transfers(p)'
  BY <1>1, <1>2, <1>3, <1>4 DEF Transfers
<1> QED BY <1>5, <1>6 DEF Kept

\* s receives, or not, and sends nothing.
LEMMA SilentKept ==
  ASSUME IInv, NEW s \in Socket, NEW p, p = Peer[s], Step(s),
         LeftOf(inbox[s], inbox'[s]), inbox'[p] = inbox[p],
         isClosing'[s] = isClosing[s], Stays(s), Stays(p),
         SenderPlace(s)', ReceiverPlace(s)',
         pc'[s] \in {"acksend", "gone"} => pc'[s] = pc[s] /\ sendSeqnum'[s] = sendSeqnum[s]
  PROVE  Kept(s)
<1>1. p \in Socket /\ p # s /\ s = Peer[p]
  BY Pair
<1>2. Rests(p)
  BY <1>1, PeerRests
<1>3. HandedOver(s)' /\ HandedOver(p)' /\ HandsOver(s) /\ HandsOver(p)
  BY <1>1, HistoriesStay
<1>4. /\ inbox[s] \in Seq(Datagram)
      /\ Coming(inbox[s], offered[p], Len(accepted[s]), offered[s], Len(accepted[p]), confirmed[s])
      /\ Coming(inbox[p], offered[s], Len(accepted[p]), offered[p], Len(accepted[s]), confirmed[p])
  BY <1>1, Queue
<1>5. Coming(inbox'[s], offered'[p], Len(accepted'[s]), offered'[s], Len(accepted'[p]), confirmed'[s])
  BY <1>1, <1>4, ComingStays DEF Stays
<1>6. Coming(inbox'[p], offered'[s], Len(accepted'[p]), offered'[p], Len(accepted'[s]), confirmed'[p])
  BY <1>1, <1>4 DEF Stays
<1>7. /\ Unmixed(s) /\ Unmixed(p) /\ ClosedAtEnd(s) /\ ClosedAtEnd(p)
      /\ HasFin(inbox'[s]) => HasFin(inbox[s])
  BY <1>4, Sides, ApartStays
<1>8. /\ accepted'[s] = accepted[s] /\ accepted'[p] = accepted[p]
      /\ offered'[s] = offered[s] /\ offered'[p] = offered[p]
      /\ confirmed'[s] = confirmed[s] /\ confirmed'[p] = confirmed[p]
      /\ pc'[p] = pc[p] /\ sendSeqnum'[p] = sendSeqnum[p] /\ isClosing'[p] = isClosing[p]
      /\ AllQueued(s)' <=> AllQueued(s)
      /\ AllQueued(p)' <=> AllQueued(p)
  BY <1>1, <1>2 DEF Stays, Rests, AllQueued
<1>9. Unmixed(s)'
  BY <1>4, <1>7, <1>8, UnmixedStays
<1>10. Unmixed(p)'
  <2>1. /\ NextNumber(accepted[p]) # 0 \/ (pc[s] = "acksend" /\ AllQueued(s)) => NoAnswers(inbox[p])
        /\ pc[p] = "acksend" /\ sendSeqnum[p] # 0 => OnlyOpeners(inbox[p])
    BY <1>1, <1>7 DEF Unmixed
  <2> QED BY <1>1, <1>8, <2>1 DEF Unmixed
<1>11. ClosedAtEnd(s)' /\ ClosedAtEnd(p)'
  BY <1>1, <1>7, <1>8, ClosedStays
<1> QED BY <1>3, <1>5, <1>6, <1>9, <1>10, <1>11, Assemble

\* What s may send to its peer when it offers or queues nothing new.
LEMMA ComingMore ==
  ASSUME IInv, NEW s \in Socket, NEW p, p = Peer[s],
         NEW q \in Seq(Datagram), NEW r, NEW m \in Message, SentTo(q, r, m),
         Coming(q, offered[s], Len(accepted[p]), offered[p], Len(accepted[s]), confirmed[p]),
         \/ m = Fin
         \/ /\ m.flags = "ACK" /\ AllQueued(s)
            /\ \/ m.seqnum = NoNumber
               \/ Len(accepted[s]) > 0 /\ m.seqnum = offered[p][Len(accepted[s])].seqnum
         \/ /\ m.flags \in {"NONE", "EOS"}
            /\ Len(offered[s]) > 0 /\ m = offered[s][Len(offered[s])]
            /\ NoAnswers(q) \/ (Len(accepted[p]) < Len(offered[s]) /\ m.seqnum = 0)
  PROVE  Coming(r, offered[s], Len(accepted[p]), offered[p], Len(accepted[s]), confirmed[p])
<1> DEFINE in == offered[s]
           h == Len(accepted[p])
           out == offered[p]
           g == Len(accepted[s])
           c == confirmed[p]
<1>1. p \in Socket /\ s = Peer[p] /\ FinSeqnum > 0
  BY Pair
<1>2. /\ out \in Seq(Message) /\ Stream(out) /\ g \in Nat /\ c \in Nat /\ c <= g
      /\ g <= Len(out) /\ c >= Len(out) - 1
  BY <1>1, Histories
<1>3. in \in Seq(Message) /\ (AllQueued(s) => h = Len(in)) /\ Len(in) \in Nat
  BY Histories
<1>4. Fin.flags = "FIN"
  BY DEF Fin, ControlMsg
<1> HIDE DEF in, h, out, g, c
<1>5. m.flags = "FIN" => m = Fin
  BY DEF in, h, out, g, c
<1>6. m.flags = "ACK" =>
        /\ m.seqnum = NoNumber \/ (g > 0 /\ m.seqnum = out[g].seqnum)
        /\ \A j \in 1 .. Len(q) : ~IsNew(q[j], in, h)
  BY <1>3, <1>4 DEF IsNew, out, g
<1>7. m.flags \notin {"FIN", "ACK"} =>
        /\ Len(in) > 0 /\ m = in[Len(in)]
        /\ NoAnswers(q) \/ (h < Len(in) /\ m.seqnum = 0)
  BY <1>4 DEF in, h
<1>8. Coming(q, in, h, out, g, c)
  BY DEF in, h, out, g, c
<1>9. Coming(r, in, h, out, g, c)
  BY <1>1, <1>2, <1>3, <1>5, <1>6, <1>7, <1>8, ComingAppend
<1> QED BY <1>9 DEF in, h, out, g, c

\* s sends the message of its acksend() once more.
LEMMA RepeatKept ==
  ASSUME IInv, NEW s \in Socket, NEW p, p = Peer[s], Step(s), Rests(s), pc[s] = "acksend",
         NEW box \in Queues, LeftOf(inbox[s], box[s]), box[p] = inbox[p],
         NEW fate \in Fate, inbox' = Rawsend(box, s, Current(s), fate)
  PROVE  Kept(s)
<1> DEFINE m == Current(s)
<1>1. p \in Socket /\ p # s /\ s = Peer[p] /\ FinSeqnum > 0 /\ Path # "any"
  BY Pair
<1>2. Rests(p)
  BY <1>1, PeerRests
<1>3. Stays(s) /\ Stays(p)
  BY <1>1, <1>2 DEF Stays, Rests
<1>4. HandedOver(s)' /\ HandedOver(p)' /\ HandsOver(s) /\ HandsOver(p)
  BY <1>1, <1>3, HistoriesStay
<1>5. /\ inbox[s] \in Seq(Datagram) /\ inbox[p] \in Seq(Datagram) /\ endPoint'[s] = p
      /\ Coming(inbox[s], offered[p], Len(accepted[s]), offered[s], Len(accepted[p]), confirmed[s])
      /\ Coming(inbox[p], offered[s], Len(accepted[p]), offered[p], Len(accepted[s]), confirmed[p])
  BY <1>1, Queue, EndPointStays
<1>6. /\ ~isClosing[s] /\ m = offered[s][Len(offered[s])] /\ Len(offered[s]) > 0
      /\ sendSeqnum[s] \in Seqnum /\ unsent[s] \in Seq(Byte) /\ SendPlace(sendSeqnum[s], unsent[s])
  BY OpenSocket
<1>7. m \in Message /\ m.flags \in {"NONE", "EOS"} /\ m.seqnum = sendSeqnum[s]
  <2>1. m \in Message /\ m.seqnum = sendSeqnum[s] /\ WellFormed(m)
    BY <1>1, <1>6, MessageTypes, MsgForWellFormed DEF Current
  <2> QED BY <1>1, <2>1, Neighbours
<1>8. Unmixed(s) /\ Unmixed(p) /\ ClosedAtEnd(s) /\ ClosedAtEnd(p)
  BY Sides
<1>9. NoAnswers(inbox[p]) \/ (Len(accepted[p]) < Len(offered[s]) /\ m.seqnum = 0)
  <2>1. CASE AllQueued(s)
    BY <1>1, <1>8, <2>1 DEF Unmixed
  <2>2. CASE ~AllQueued(s)
    <3>1. Len(accepted[p]) < Len(offered[s]) /\ NextNumber(accepted[p]) = m.seqnum
      BY <1>6, <2>2, Histories, ExpectedNumber
    <3> QED BY <1>8, <3>1 DEF Unmixed
  <2> QED BY <2>1, <2>2
<1>10. pc[p] = "acksend" /\ sendSeqnum[p] # 0 => m.seqnum = 0
  BY <1>7, BothSend DEF Fresh
<1> HIDE DEF m
<1>11. SentTo(inbox[p], inbox'[p], m) /\ inbox'[s] = box[s]
  BY <1>1, <1>5, <1>7, RawsendQueues, SMTT(30) DEF m
<1>12. Coming(inbox'[s], offered'[p], Len(accepted'[s]), offered'[s], Len(accepted'[p]), confirmed'[s])
  BY <1>1, <1>3, <1>5, <1>11, ComingStays DEF Stays
<1>13. Coming(inbox'[p], offered'[s], Len(accepted'[p]), offered'[p], Len(accepted'[s]), confirmed'[p])
  <2>1. Coming(inbox'[p], offered[s], Len(accepted[p]), offered[p], Len(accepted[s]), confirmed[p])
    BY <1>5, <1>6, <1>7, <1>9, <1>11, ComingMore
  <2> QED BY <1>1, <1>3, <2>1 DEF Stays
<1>14. Unmixed(s)'
  <2>1. /\ LeftOf(inbox[s], inbox'[s]) /\ accepted'[s] = accepted[s] /\ pc'[p] = pc[p]
        /\ AllQueued(p)' <=> AllQueued(p)
        /\ pc'[s] = pc[s] /\ sendSeqnum'[s] = sendSeqnum[s]
    BY <1>1, <1>2, <1>11 DEF AllQueued, Rests
  <2> QED BY <1>5, <1>8, <2>1, UnmixedStays
<1>15. Unmixed(p)'
  <2>1. NoAnswers(inbox[p]) => NoAnswers(inbox'[p])
    BY <1>5, <1>7, <1>11, ApartAppend
  <2>2. m.seqnum = 0 /\ OnlyOpeners(inbox[p]) => OnlyOpeners(inbox'[p])
    BY <1>5, <1>7, <1>11, ApartAppend
  <2>3. /\ NextNumber(accepted[p]) # 0 \/ (pc[s] = "acksend" /\ AllQueued(s)) =>
             NoAnswers(inbox[p])
        /\ pc[p] = "acksend" /\ sendSeqnum[p] # 0 => OnlyOpeners(inbox[p])
    BY <1>1, <1>8 DEF Unmixed
  <2>4. /\ accepted'[p] = accepted[p] /\ pc'[s] = pc[s] /\ (AllQueued(s)' <=> AllQueued(s))
        /\ pc'[p] = pc[p] /\ sendSeqnum'[p] = sendSeqnum[p]
    BY <1>1, <1>2 DEF Rests, AllQueued
  <2> QED BY <1>1, <1>10, <2>1, <2>2, <2>3, <2>4 DEF Unmixed
<1>16. ClosedAtEnd(s)' /\ ClosedAtEnd(p)'
  <2>1. HasFin(inbox'[s]) => HasFin(inbox[s])
    BY <1>5, <1>11, ApartStays
  <2>2. HasFin(inbox'[p]) => HasFin(inbox[p])
    BY <1>5, <1>7, <1>11, ApartAppend
  <2> QED BY <1>1, <1>2, <1>8, <2>1, <2>2 DEF ClosedAtEnd, Rests
<1>17. SenderPlace(s)' /\ ReceiverPlace(s)'
  BY PlacesStay
<1> QED BY <1>4, <1>12, <1>13, <1>14, <1>15, <1>16, <1>17, Assemble

\* What p hears when s answers: s is sending nothing, so that no answer can be missed.
LEMMA AnswerUnmixed ==
  ASSUME IInv, NEW s \in Socket, NEW p, p = Peer[s], Step(s),
         ~isClosing[s], pc[s] # "acksend", pc'[s] # "acksend", isClosing'[s] = isClosing[s],
         NEW m \in Message, m.flags = "ACK", SentTo(inbox[p], inbox'[p], m)
  PROVE  Unmixed(p)' /\ (HasFin(inbox'[p]) => HasFin(inbox[p]))
<1>1. p \in Socket /\ p # s /\ s = Peer[p]
  BY Pair
<1>2. Rests(p)
  BY <1>1, PeerRests
<1>3. inbox[p] \in Seq(Datagram)
  BY <1>1, Queue
<1>4. NextNumber(accepted[p]) = 0
  BY OpenSocket
<1>5. pc[p] = "acksend" /\ sendSeqnum[p] # 0 => OnlyOpeners(inbox[p])
  BY <1>1 DEF IInv, TurnsInv, Transfers, Unmixed
<1>6. /\ OnlyOpeners(inbox[p]) => OnlyOpeners(inbox'[p])
      /\ HasFin(inbox'[p]) => HasFin(inbox[p])
  BY <1>3, ApartAppend
<1> QED BY <1>1, <1>2, <1>4, <1>5, <1>6 DEF Unmixed, Rests

\* s answers a datagram, and queues nothing.
LEMMA AnswerKept ==
  ASSUME IInv, NEW s \in Socket, NEW p, p = Peer[s], Step(s),
         Stays(s), Stays(p), isClosing'[s] = isClosing[s], ~isClosing[s],
         pc[s] # "acksend", pc'[s] \notin {"acksend", "gone"},
         SenderPlace(s)', ReceiverPlace(s)',
         NEW box \in Queues, LeftOf(inbox[s], box[s]), box[p] = inbox[p],
         NEW n \in Seqnum,
         n = NoNumber \/ (Len(accepted[s]) > 0 /\ n = offered[p][Len(accepted[s])].seqnum),
         NEW fate \in Fate, inbox' = Rawsend(box, s, ControlMsg(n, "ACK"), fate)
  PROVE  Kept(s)
<1> DEFINE m == ControlMsg(n, "ACK")
<1>1. p \in Socket /\ p # s /\ s = Peer[p]
  BY Pair
<1>2. Rests(p)
  BY <1>1, PeerRests
<1>3. HandedOver(s)' /\ HandedOver(p)' /\ HandsOver(s) /\ HandsOver(p)
  BY <1>1, HistoriesStay
<1>4. /\ inbox[s] \in Seq(Datagram) /\ inbox[p] \in Seq(Datagram) /\ endPoint'[s] = p
      /\ Coming(inbox[s], offered[p], Len(accepted[s]), offered[s], Len(accepted[p]), confirmed[s])
      /\ Coming(inbox[p], offered[s], Len(accepted[p]), offered[p], Len(accepted[s]), confirmed[p])
  BY <1>1, Queue, EndPointStays
<1>5. m \in Message /\ m.flags = "ACK" /\ m.seqnum = n
  BY MessageTypes DEF ControlMsg, Flag
<1> HIDE DEF m
<1>6. SentTo(inbox[p], inbox'[p], m) /\ inbox'[s] = box[s]
  BY <1>1, <1>4, <1>5, RawsendQueues, SMTT(30) DEF m
<1>7. Coming(inbox'[s], offered'[p], Len(accepted'[s]), offered'[s], Len(accepted'[p]), confirmed'[s])
  BY <1>1, <1>4, <1>6, ComingStays DEF Stays
<1>8. Coming(inbox'[p], offered'[s], Len(accepted'[p]), offered'[p], Len(accepted'[s]), confirmed'[p])
  <2>1. AllQueued(s)
    BY OpenSocket
  <2>2. Coming(inbox'[p], offered[s], Len(accepted[p]), offered[p], Len(accepted[s]), confirmed[p])
    BY <1>4, <1>5, <1>6, <2>1, ComingMore
  <2> QED BY <1>1, <2>2 DEF Stays
<1>9. Unmixed(s) /\ ClosedAtEnd(s) /\ ClosedAtEnd(p)
  BY Sides
<1>10. Unmixed(s)'
  <2>1. /\ LeftOf(inbox[s], inbox'[s]) /\ accepted'[s] = accepted[s] /\ pc'[p] = pc[p]
        /\ AllQueued(p)' <=> AllQueued(p)
    BY <1>1, <1>2, <1>6 DEF AllQueued, Stays, Rests
  <2> QED BY <1>4, <1>9, <2>1, UnmixedStays
<1>11. Unmixed(p)' /\ (HasFin(inbox'[p]) => HasFin(inbox[p]))
  BY <1>5, <1>6, AnswerUnmixed
<1>12. HasFin(inbox'[s]) => HasFin(inbox[s])
  BY <1>4, <1>6, ApartStays
<1>13. ClosedAtEnd(s)' /\ ClosedAtEnd(p)'
  BY <1>1, <1>2, <1>9, <1>11, <1>12 DEF ClosedAtEnd, Stays, Rests
<1> QED BY <1>3, <1>7, <1>8, <1>10, <1>11, <1>13, Assemble

\* s queues what it has expected, and answers.
LEMMA TakeKept ==
  ASSUME IInv, NEW s \in Socket, NEW p, p = Peer[s], Step(s), Stays(s),
         pc[s] = "recv", isClosing'[s] = isClosing[s], pc'[s] \notin {"acksend", "gone"},
         NEW i \in DOMAIN inbox[s], MayArrive(s, i),
         Expected(s, inbox[s][i]), ~HasFlag(inbox[s][i], "FIN"),
         accepted'[s] = Append(accepted[s], inbox[s][i].msg),
         SenderPlace(s)', ReceiverPlace(s)', NEW fate \in Fate,
         inbox' = Rawsend(Without(s, i), s, ControlMsg(recvSeqnum[s], "ACK"), fate)
  PROVE  Kept(s)
<1> DEFINE box == Without(s, i)
           m == ControlMsg(recvSeqnum[s], "ACK")
           off == offered[p]
           n == Len(off)
           acc == accepted'[s]
<1>1. p \in Socket /\ p # s /\ s = Peer[p] /\ FinSeqnum > 0 /\ Path # "any"
  BY Pair
<1>2. Rests(p)
  BY <1>1, PeerRests
<1>3. /\ inbox \in Queues /\ inbox[p] \in Seq(Datagram) /\ endPoint'[s] = p
      /\ Coming(inbox[p], offered[s], Len(accepted[p]), off, Len(accepted[s]), confirmed[p])
  BY <1>1, Queue, EndPointStays, SMTT(30)
<1>4. /\ ~AllQueued(p) /\ inbox[s][i].msg = off[n]
      /\ off[n].seqnum = recvSeqnum[s]
      /\ Coming(box[s], off, n, offered[s], Len(accepted[p]), confirmed[s])
      /\ NoAnswers(box[s])
  BY ExpectedIsNext
<1>5. box \in Queues /\ box[p] = inbox[p] /\ LeftOf(inbox[s], box[s])
  BY <1>1, <1>3, FirstArrives DEF LeftOf
<1>6. /\ off \in Seq(Message) /\ n \in Nat /\ Stream(off) /\ Len(accepted[s]) = n - 1 /\ n > 0
      /\ accepted[s] \in Seq(Message) /\ confirmed[p] \in Nat /\ confirmed[p] = n - 1
      /\ off[n] \in Message
      /\ \A k \in 1 .. Len(accepted[s]) : accepted[s][k] = off[k]
  <2>1. /\ off \in Seq(Message) /\ n \in Nat /\ Stream(off) /\ accepted[s] \in Seq(Message)
        /\ confirmed[p] \in Nat /\ \A k \in 1 .. n : off[k] \in Message
        /\ \A k \in 1 .. Len(accepted[s]) : accepted[s][k] = off[k]
    BY <1>1, Histories
  <2>2. Len(accepted[s]) = n - 1 /\ n > 0 /\ confirmed[p] = n - 1
    BY <1>1, <1>4, Histories
  <2>3. n \in 1 .. n
    BY <2>1, <2>2
  <2> QED BY <2>1, <2>2, <2>3
<1>7. m \in Message /\ m.flags = "ACK" /\ m.seqnum = off[n].seqnum
  <2>1. recvSeqnum[s] \in Seqnum
    BY DEF IInv, TypeInv, TypeOK
  <2> QED BY <1>4, <2>1, MessageTypes DEF ControlMsg, Flag
<1>8. acc = Append(accepted[s], off[n])
  BY <1>4
<1> HIDE DEF m, box, acc
<1>9. /\ Len(acc) = n /\ acc[n] = off[n]
      /\ \A k \in 1 .. n : acc[k] = off[k]
  BY <1>6, <1>8, AppendProperties, SMTT(30)
<1>10. SentTo(inbox[p], inbox'[p], m) /\ inbox'[s] = box[s]
  BY <1>1, <1>3, <1>5, <1>7, RawsendQueues, SMTT(30) DEF m, box
<1>11. offered'[p] = off /\ confirmed'[p] = confirmed[p]
  BY <1>2 DEF Rests
<1>12. HandedOver(p)'
  <2>1. accepted'[Peer[p]] = acc
    BY <1>1 DEF acc
  <2> QED BY <1>6, <1>9, <1>11, <2>1 DEF HandedOver
<1>13. HandsOver(p)
  <2>1. accepted'[Peer[p]] = Append(accepted[s], off[n]) /\ accepted[Peer[p]] = accepted[s]
    BY <1>1, <1>8 DEF acc
  <2>2. Len(accepted[s]) + 1 = n /\ Len(accepted[s]) < n
    BY <1>6
  <2> QED BY <1>11, <2>1, <2>2, SMTT(30) DEF HandsOver, Takes
<1>14. HandedOver(s)' /\ HandsOver(s)
  BY HistoriesStay
<1>15. Coming(inbox'[s], offered'[p], Len(accepted'[s]), offered'[s], Len(accepted'[p]), confirmed'[s])
  BY <1>4, <1>9, <1>10, <1>11 DEF Stays, acc
<1>16. ~isClosing[s] /\ Len(accepted[p]) = Len(offered[s]) /\ offered[s] \in Seq(Message)
       /\ Len(offered[s]) \in Nat
  BY OpenSocket, Histories
<1>17. Coming(inbox'[p], offered'[s], Len(accepted'[p]), offered'[p], Len(accepted'[s]), confirmed'[p])
  <2> DEFINE q == inbox[p]
             r == inbox'[p]
             in == offered[s]
             h == Len(in)
             c == confirmed[p]
  <2>1. Coming(q, in, h, off, Len(accepted[s]), c)
    BY <1>3, <1>16
  <2>2. AnswersOnWay(q, off, n, c)
    BY <1>6, <2>1, AnswersTaken DEF Coming
  <2>3. /\ q \in Seq(Datagram) /\ SentTo(q, r, m) /\ in \in Seq(Message) /\ h = Len(in) /\ h \in Nat
        /\ c \in Nat /\ c <= n /\ c >= n - 1 /\ n \in Nat /\ n > 0 /\ n <= n
        /\ off \in Seq(Message) /\ Stream(off)
    BY <1>3, <1>6, <1>10, <1>16
  <2> HIDE DEF q, r, in, h, c
  <2>4. Coming(q, in, h, off, n, c)
    BY <2>1, <2>2 DEF Coming
  <2>5. \A j \in 1 .. Len(q) : ~IsNew(q[j], in, h)
    BY <2>3 DEF IsNew
  <2>6. Coming(r, in, h, off, n, c)
    <3> DEFINE g == n
    <3>1. m.flags = "ACK" => m.seqnum = NoNumber \/ (g > 0 /\ m.seqnum = off[g].seqnum)
      BY <1>7, <2>3
    <3>2. g \in Nat /\ c <= g /\ g <= Len(off) /\ c >= Len(off) - 1 /\ Coming(q, in, h, off, g, c)
      BY <2>3, <2>4
    <3>3. m \in Message /\ m.flags = "ACK" /\ FinSeqnum > 0
      BY <1>1, <1>7
    <3> HIDE DEF g, off
    <3>4. Coming(r, in, h, off, g, c)
      BY <2>3, <2>5, <3>1, <3>2, <3>3, ComingAppend
    <3> QED BY <3>4 DEF g, off
  <2> QED BY <1>9, <1>11, <1>16, <2>6 DEF Stays, acc, r, in, h, c
<1>18. Unmixed(s)'
  BY <1>4, <1>10 DEF Unmixed
<1>19. Unmixed(p)' /\ (HasFin(inbox'[p]) => HasFin(inbox[p]))
  BY <1>7, <1>10, <1>16, AnswerUnmixed
<1>20. HasFin(inbox'[s]) => HasFin(inbox[s])
  BY <1>5, <1>10, Queue, ApartStays
<1>21. ClosedAtEnd(s) /\ ClosedAtEnd(p)
  BY Sides
<1>22. ClosedAtEnd(s)' /\ ClosedAtEnd(p)'
  BY <1>1, <1>2, <1>19, <1>20, <1>21 DEF ClosedAtEnd, Stays, Rests
<1> QED BY <1>12, <1>13, <1>14, <1>15, <1>17, <1>18, <1>19, <1>22, Assemble

\* s offers the next message of its stream, the one before having been queued.
LEMMA OfferKept ==
  ASSUME IInv, NEW s \in Socket, NEW p, p = Peer[s], Step(s),
         ~isClosing[s], isClosing'[s] = isClosing[s], AllQueued(s), pc[s] # "recv",
         NEW n \in Seqnum, NEW rest \in Seq(Byte), SendPlace(n, rest), n = NextNumber(offered[s]),
         NEW box \in Queues, LeftOf(inbox[s], box[s]), box[p] = inbox[p],
         Coming(box[s], offered[p], Len(accepted[s]), offered[s], Len(offered[s]), Len(offered[s])),
         n # 0 => OnlyOpeners(box[s]) /\ NoAnswers(inbox[p]) /\ ~(pc[p] = "acksend" /\ sendSeqnum[p] # 0),
         NEW fate \in Fate, StartAcksend(s, n, rest, box, fate),
         pc'[s] = "acksend", confirmed'[s] = Len(offered[s]), accepted'[s] = accepted[s]
  PROVE  Kept(s)
<1> DEFINE m   == MsgFor(n, rest)
           off == offered[s]
           h   == Len(off)
           new == Append(off, m)
<1>1. p \in Socket /\ p # s /\ s = Peer[p] /\ FinSeqnum > 0 /\ Path # "any"
  BY Pair
<1>2. Rests(p)
  BY <1>1, PeerRests
<1>3. /\ off \in Seq(Message) /\ h \in Nat /\ Stream(off) /\ accepted[p] = off
      /\ \A k \in 1 .. h : off[k] \in Message /\ WellFormed(off[k])
      /\ h > 0 => NextNumber(off) = NumberAfter(off[h])
  BY Histories DEF NextNumber
<1>4. /\ inbox[s] \in Seq(Datagram) /\ inbox[p] \in Seq(Datagram) /\ endPoint'[s] = p
      /\ Len(inbox[p]) \in Nat /\ box[s] \in Seq(Datagram) /\ Len(box[s]) \in Nat
  BY <1>1, Queue, EndPointStays, LenProperties DEF Queues
<1>5. /\ WellFormed(m) /\ m.seqnum = n /\ m \in Message /\ m.flags \in {"NONE", "EOS"}
      /\ m.seqnum # NoNumber
  BY <1>1, MsgForWellFormed, MessageTypes, Neighbours
<1>6. offered'[s] = new /\ sendSeqnum'[s] = n /\ unsent'[s] = rest
      /\ inbox' = Rawsend(box, s, m, fate)
  BY DEF StartAcksend, IInv, TypeInv, TypeOK
<1> HIDE DEF m, off, h, new
<1>7. /\ new \in Seq(Message) /\ Len(new) = h + 1 /\ new # << >> /\ new[h + 1] = m
      /\ \A k \in 1 .. h : new[k] = off[k]
  BY <1>3, <1>5, AppendProperties DEF new, h
<1>8. Stream(new)
  BY <1>3, <1>5, StreamAppend DEF new, off
<1>9. h > 0 => m.seqnum # off[h].seqnum
  <2>1. CASE h > 0
    <3>1. off[h] \in Message /\ WellFormed(off[h]) /\ m.seqnum = NumberAfter(off[h])
      BY <1>3, <1>5, <2>1 DEF off
    <3> QED BY <1>1, <3>1, Neighbours
  <2> QED BY <2>1
<1>10. SentTo(inbox[p], inbox'[p], m) /\ inbox'[s] = box[s]
  BY <1>1, <1>4, <1>5, <1>6, RawsendQueues
<1>11. /\ offered'[p] = offered[p] /\ accepted'[p] = off /\ confirmed'[p] = confirmed[p]
       /\ pc'[p] = pc[p] /\ sendSeqnum'[p] = sendSeqnum[p] /\ isClosing'[p] = isClosing[p]
  BY <1>2, <1>3 DEF Rests
<1>12. HandedOver(s)'
  <2>1. /\ offered'[s] = new /\ accepted'[Peer[s]] = off /\ Len(off) = h /\ confirmed'[s] = h
        /\ Len(new) = h + 1 /\ h \in Nat /\ h <= h + 1 /\ h = (h + 1) - 1
    BY <1>3, <1>6, <1>7, <1>11, SMTT(30) DEF off, h
  <2> QED BY <1>7, <1>8, <2>1 DEF HandedOver
<1>13. HandsOver(s)
  <2>1. SubSeq(new, 1, h) = off
    <3>1. \A k \in 1 .. h : new[k] \in Message
      BY <1>3, <1>7
    <3>2. /\ SubSeq(new, 1, h) \in Seq(Message) /\ Len(SubSeq(new, 1, h)) = h
          /\ \A k \in 1 .. h : SubSeq(new, 1, h)[k] = new[k]
      BY <1>3, <1>7, <3>1, SubSeqProperties
    <3> QED BY <1>3, <1>7, <3>2, SeqEqual DEF h
  <2> QED BY <1>1, <1>3, <1>6, <1>7, <1>11, <2>1 DEF HandsOver, Offers, off, h
<1>14. HandedOver(p)' /\ HandsOver(p)
  BY <1>1, <1>11, HistoriesStay DEF Stays
<1>15. SenderPlace(s)'
  BY <1>3, <1>6, <1>7 DEF SenderPlace, Current, m, off, h
<1>16. NextNumber(accepted[s]) = 0
  BY OpenSocket
<1>17. ReceiverPlace(s)'
  BY <1>16 DEF ReceiverPlace
<1>18. Coming(inbox'[s], offered'[p], Len(accepted'[s]), offered'[s], Len(accepted'[p]), confirmed'[s])
  <2>1. AnswersOnWay(box[s], new, h, h)
    BY <1>3, <1>4, <1>5, <1>9, AnswersOffer DEF Coming, new, off, h
  <2>2. Coming(box[s], offered[p], Len(accepted[s]), new, h, h)
    BY <2>1 DEF Coming
  <2> QED BY <1>6, <1>10, <1>11, <2>2 DEF h, off
<1>19. Coming(inbox'[p], offered'[s], Len(accepted'[p]), offered'[p], Len(accepted'[s]), confirmed'[p])
  <2> DEFINE q == inbox[p]
             r == inbox'[p]
             out == offered[p]
             g == Len(accepted[s])
             c == confirmed[p]
  <2>1. Coming(q, off, h, out, g, c)
    BY <1>1, <1>3, Queue DEF off, h
  <2>2. /\ q \in Seq(Datagram) /\ Len(q) \in Nat /\ SentTo(q, r, m)
        /\ out \in Seq(Message) /\ Stream(out) /\ g \in Nat /\ c \in Nat /\ c <= g
        /\ g <= Len(out) /\ c >= Len(out) - 1
    BY <1>1, <1>4, <1>10, Histories
  <2> HIDE DEF q, r, out, g, c
  <2>3. h > 0 => m # off[h]
    BY <1>9
  <2>4. DataOnWay(q, new, h) /\ Apart(q, new, h)
    BY <1>3, <1>5, <2>1, <2>2, <2>3, DataOffer, ApartOffer DEF Coming, new, h
  <2>5. Coming(q, new, h, out, g, c)
    BY <2>1, <2>4 DEF Coming
  <2>6. /\ Len(new) > 0 /\ m = new[Len(new)]
        /\ NoAnswers(q) \/ (h < Len(new) /\ m.seqnum = 0)
    BY <1>3, <1>5, <1>7 DEF q
  <2>7. Coming(r, new, h, out, g, c)
    BY <1>1, <1>5, <1>7, <2>2, <2>5, <2>6, ComingAppend
  <2> QED BY <1>6, <1>11, <2>7 DEF r, out, g, c, h
<1>20. Unmixed(s) /\ Unmixed(p) /\ ClosedAtEnd(s) /\ ClosedAtEnd(p)
  BY Sides
<1>21. NoAnswers(inbox[s]) => NoAnswers(box[s])
  BY <1>4, ApartStays
<1>22. Unmixed(s)'
  BY <1>1, <1>6, <1>10, <1>11, <1>16, <1>20, <1>21 DEF Unmixed, AllQueued
<1>23. Unmixed(p)'
  <2>1. NoAnswers(inbox[p]) => NoAnswers(inbox'[p])
    BY <1>4, <1>5, <1>10, ApartAppend
  <2>2. n = 0 /\ OnlyOpeners(inbox[p]) => OnlyOpeners(inbox'[p])
    BY <1>4, <1>5, <1>10, ApartAppend
  <2>3. NextNumber(accepted'[p]) = NextNumber(accepted[p])
    BY <1>3, <1>11
  <2>4. ~AllQueued(s)'
    BY <1>3, <1>6, <1>7, <1>11, SMTT(30) DEF AllQueued, h
  <2> QED BY <1>1, <1>11, <1>20, <2>1, <2>2, <2>3, <2>4 DEF Unmixed
<1>24. ClosedAtEnd(s)' /\ ClosedAtEnd(p)'
  <2>1. HasFin(inbox'[s]) => HasFin(inbox[s])
    BY <1>4, <1>10, ApartStays
  <2>2. HasFin(inbox'[p]) => HasFin(inbox[p])
    BY <1>4, <1>5, <1>10, ApartAppend
  <2> QED BY <1>1, <1>2, <1>20, <2>1, <2>2 DEF ClosedAtEnd, Rests
<1> QED
  BY <1>12, <1>13, <1>14, <1>15, <1>17, <1>18, <1>19, <1>22, <1>23, <1>24, Assemble

\* s learns that its peer has queued the last message of its send(), and returns.
LEMMA LearnKept ==
  ASSUME IInv, NEW s \in Socket, NEW p, p = Peer[s], Step(s), pc[s] = "acksend",
         isClosing'[s] = isClosing[s], unsent[s] = << >>, pc'[s] = "idle",
         NEW i \in DOMAIN inbox[s], MayArrive(s, i),
         Answers(inbox[s][i], Current(s)), ~HasFlag(inbox[s][i], "FIN"),
         inbox' = Without(s, i), offered'[s] = offered[s], accepted'[s] = accepted[s],
         confirmed'[s] = confirmed[s] + 1
  PROVE  Kept(s)
<1>1. p \in Socket /\ p # s /\ s = Peer[p] /\ FinSeqnum > 0 /\ Path # "any"
  BY Pair
<1>2. Rests(p)
  BY <1>1, PeerRests
<1>3. inbox \in Queues /\ inbox[s] \in Seq(Datagram)
  BY Queue
<1>4. /\ AllQueued(s) /\ accepted[p] = offered[s]
      /\ Coming(Without(s, i)[s], offered[p], Len(accepted[s]),
                offered[s], Len(offered[s]), Len(offered[s]))
  BY AnswerSeen
<1>5. LeftOf(inbox[s], inbox'[s]) /\ inbox'[p] = inbox[p]
  BY <1>1, <1>3, FirstArrives DEF LeftOf
<1>6. /\ ~isClosing[s] /\ Current(s) = offered[s][Len(offered[s])] /\ Len(offered[s]) > 0
      /\ offered[s] # << >> /\ confirmed[s] = Len(offered[s]) - 1 /\ Len(offered[s]) \in Nat
      /\ sendSeqnum[s] \in Seqnum /\ SendPlace(sendSeqnum[s], unsent[s])
      /\ NextNumber(accepted[s]) = 0
  BY OpenSocket, Histories
<1>7. confirmed'[s] = Len(offered[s])
  BY <1>6
<1>8. NextNumber(offered[s]) = 0
  <2>1. Current(s).flags = "EOS"
    BY DEF Current, MsgFor, ControlMsg
  <2> QED BY <1>6, <2>1 DEF NextNumber, NumberAfter
<1>9. /\ offered'[p] = offered[p] /\ accepted'[p] = accepted[p] /\ confirmed'[p] = confirmed[p]
  BY <1>2 DEF Rests
<1>10. HandedOver(p)' /\ HandsOver(p)
  <2>1. Stays(p)
    BY <1>1, <1>9 DEF Stays
  <2> QED BY <1>1, <2>1, HistoriesStay
<1>11. HandedOver(s)' /\ HandsOver(s)
  <2>1. HandedOver(s)
    BY DEF IInv, TurnsInv, Transfers
  <2> QED BY <1>1, <1>4, <1>6, <1>7, <1>9, <2>1 DEF HandedOver, HandsOver, Learns
<1>12. SenderPlace(s)' /\ ReceiverPlace(s)'
  BY <1>6, <1>7, <1>8 DEF SenderPlace, ReceiverPlace
<1>13. Coming(inbox'[s], offered'[p], Len(accepted'[s]), offered'[s], Len(accepted'[p]), confirmed'[s])
  BY <1>4, <1>7, <1>9
<1>14. Coming(inbox'[p], offered'[s], Len(accepted'[p]), offered'[p], Len(accepted'[s]), confirmed'[p])
  BY <1>1, <1>5, <1>9, Queue
<1>15. Unmixed(s) /\ Unmixed(p) /\ ClosedAtEnd(s) /\ ClosedAtEnd(p)
  BY Sides
<1>16. Unmixed(s)'
  <2>1. /\ accepted'[s] = accepted[s] /\ pc'[p] = pc[p]
        /\ AllQueued(p)' <=> AllQueued(p)
    BY <1>1, <1>2 DEF AllQueued, Rests
  <2> QED BY <1>3, <1>5, <1>15, <2>1, UnmixedStays
<1>17. Unmixed(p)'
  BY <1>1, <1>2, <1>5, <1>15 DEF Unmixed, AllQueued, Rests
<1>18. ClosedAtEnd(s)' /\ ClosedAtEnd(p)'
  BY <1>1, <1>2, <1>3, <1>5, <1>6, <1>15, ApartStays DEF ClosedAtEnd, Rests
<1> QED BY <1>10, <1>11, <1>12, <1>13, <1>14, <1>16, <1>17, <1>18, Assemble

\* s closes: its queue goes, and its peer is sent FINs.
LEMMA CloseKept ==
  ASSUME IInv, NEW s \in Socket, NEW p, p = Peer[s], Step(s), Stays(s),
         isClosing'[s], pc'[s] \notin {"acksend", "recv"}, pc'[s] = "finalize" => pc[s] = "finalize",
         finAck'[s] = finAck[s], accepted'[s] = accepted[s],
         ~isClosing[s] => pc[s] # "acksend" \/ isClosing[p],
         NEW box \in Queues, box[p] = inbox[p],
         NEW fate \in Fate, inbox' = FinBurst(box, s, fate)
  PROVE  Kept(s)
<1>1. p \in Socket /\ p # s /\ s = Peer[p] /\ FinSeqnum > 0 /\ Path # "any"
  BY Pair
<1>2. Rests(p)
  BY <1>1, PeerRests
<1>3. Stays(p)
  BY <1>1, <1>2 DEF Stays, Rests
<1>4. HandedOver(s)' /\ HandedOver(p)' /\ HandsOver(s) /\ HandsOver(p)
  BY <1>1, <1>3, HistoriesStay
<1>5. /\ inbox[p] \in Seq(Datagram) /\ endPoint'[s] = p
      /\ Coming(inbox[p], offered[s], Len(accepted[p]), offered[p], Len(accepted[s]), confirmed[p])
  BY <1>1, Queue, EndPointStays
<1>6. /\ inbox'[s] = << >>
      /\ \E r \in Seq(Datagram) : SentTo(inbox[p], r, Fin) /\ SentTo(r, inbox'[p], Fin)
  BY <1>1, <1>5, FinBurstQueues
<1>7. PICK r \in Seq(Datagram) : SentTo(inbox[p], r, Fin) /\ SentTo(r, inbox'[p], Fin)
  BY <1>6
<1>8. Fin \in Message /\ Fin.flags = "FIN"
  BY MessageTypes DEF Fin, ControlMsg
<1>9. Coming(r, offered[s], Len(accepted[p]), offered[p], Len(accepted[s]), confirmed[p])
  BY <1>5, <1>7, <1>8, ComingMore
<1>10. Coming(inbox'[p], offered[s], Len(accepted[p]), offered[p], Len(accepted[s]), confirmed[p])
  BY <1>7, <1>8, <1>9, ComingMore
<1>11. Coming(inbox'[p], offered'[s], Len(accepted'[p]), offered'[p], Len(accepted'[s]), confirmed'[p])
  BY <1>1, <1>3, <1>10 DEF Stays
<1>12. Coming(inbox'[s], offered'[p], Len(accepted'[s]), offered'[s], Len(accepted'[p]), confirmed'[s])
  <2>1. Len(inbox'[s]) = 0
    BY <1>6
  <2> QED BY <2>1 DEF Coming, FinsOnWay, DataOnWay, AnswersOnWay, Apart
<1>13. SenderPlace(s)' /\ ReceiverPlace(s)'
  BY DEF SenderPlace, ReceiverPlace, IInv, TurnsInv, Transfers
<1>14. Unmixed(s)'
  BY <1>6 DEF Unmixed, NoAnswers, OnlyOpeners
<1>15. Unmixed(p) /\ ClosedAtEnd(s) /\ ClosedAtEnd(p)
  BY Sides
<1>16. Unmixed(p)'
  <2>1. NoAnswers(inbox[p]) => NoAnswers(inbox'[p])
    BY <1>5, <1>7, <1>8, ApartAppend
  <2>2. OnlyOpeners(inbox[p]) => OnlyOpeners(inbox'[p])
    BY <1>5, <1>7, <1>8, ApartAppend
  <2>3. /\ NextNumber(accepted[p]) # 0 => NoAnswers(inbox[p])
        /\ pc[p] = "acksend" /\ sendSeqnum[p] # 0 => OnlyOpeners(inbox[p])
    BY <1>1, <1>15 DEF Unmixed
  <2> QED BY <1>1, <1>2, <2>1, <2>2, <2>3 DEF Unmixed, Rests
<1>17. ClosedAtEnd(s)'
  <2>1. ~isClosing[s] /\ ~isClosing[p] => confirmed[s] = Len(offered[s])
    BY OpenSocket
  <2>2. ~HasFin(inbox'[s])
    BY <1>6 DEF HasFin
  <2> QED BY <1>2, <1>15, <2>1, <2>2 DEF ClosedAtEnd, Stays, Rests
<1>18. ClosedAtEnd(p)'
  BY <1>1, <1>2, <1>15 DEF ClosedAtEnd, Rests
<1> QED BY <1>4, <1>11, <1>12, <1>13, <1>14, <1>16, <1>17, <1>18, Assemble

-----------------------------------------------------------------------------
(* The steps, one by one: what they do to the messages *)

\* The datagram that has arrived, and the queues without it.
LEMMA Arrival ==
  ASSUME IInv, NEW s \in Socket, NEW p, p = Peer[s], NEW i \in DOMAIN inbox[s], MayArrive(s, i)
  PROVE  /\ Without(s, i) \in Queues /\ Without(s, i)[p] = inbox[p]
         /\ LeftOf(inbox[s], Without(s, i)[s])
         /\ inbox[s][i] = inbox[s][1] /\ 1 \in 1 .. Len(inbox[s]) /\ ~isClosing[s]
<1>1. p \in Socket /\ p # s /\ Path # "any"
  BY Pair
<1>2. inbox \in Queues /\ Len(inbox[s]) \in Nat
  BY Queue
<1>3. Len(inbox[s]) > 0
  BY <1>1, <1>2, FirstArrives
<1> QED BY <1>1, <1>2, <1>3, FirstArrives, OpenSocket DEF LeftOf

\* The argument of the send() to come.
LEMMA SendCall ==
  ASSUME IInv, NEW s \in Socket, script[s] # << >>, Head(script[s]).op = "send"
  PROVE  /\ Head(script[s]).data \in Seq(Byte) /\ Head(script[s]).data # << >>
         /\ 0 \in Seqnum /\ SendPlace(0, Head(script[s]).data)
<1> DEFINE bytes == Head(script[s]).data
<1>1. TypeInv /\ CallsLeft
  BY DEF IInv, StreamInv
<1>2. bytes \in Seq(Byte)
  BY <1>1, CallTypes DEF TypeInv, TypeOK
<1>3. SendArgument(bytes)
  <2>1. /\ CallsMade(s) + 1 \in 1 .. Len(Script[s])
        /\ Head(script[s]) = Script[s][CallsMade(s) + 1]
    BY <1>1, CurrentCall
  <2>2. DOMAIN Script[s] = 1 .. Len(Script[s])
    BY LinkAssumption, LenProperties
  <2> HIDE DEF CallsMade, SendArgument
  <2> QED BY <2>1, <2>2, TurnsAssumption
<1>4. 0 * MaxData = 0 /\ Len(bytes) \in Nat /\ 0 \in Seqnum
  BY <1>2, MsgAssumption, LenProperties DEF Seqnum
<1>5. 0 * MaxData + Len(bytes) = Len(bytes)
  BY <1>4
<1> HIDE DEF bytes
<1>6. bytes # << >> /\ SendPlace(0, bytes)
  BY <1>3, <1>5 DEF SendPlace, SendArgument
<1> QED BY <1>2, <1>4, <1>6 DEF bytes

\* send() offers its first message.
LEMMA CallSendKept ==
  ASSUME IInv, NEW s \in Socket, Step(s), NEW fate \in Fate, CallSend(s, fate)
  PROVE  Kept(s)
<1> DEFINE p == Peer[s]
           bytes == Head(script[s]).data
<1>1. /\ script[s] # << >> /\ Head(script[s]).op = "send" /\ pc[s] = "idle" /\ ~isClosing[s]
      /\ StartAcksend(s, 0, bytes, inbox, fate)
      /\ pc' = [pc EXCEPT ![s] = "acksend"]
      /\ UNCHANGED <<script, isClosing, confirmed, recvSeqnum, finAck, accepted>>
  BY DEF CallSend, Calls, recvVars
<1>2. bytes \in Seq(Byte) /\ bytes # << >> /\ 0 \in Seqnum /\ SendPlace(0, bytes)
  BY <1>1, SendCall
<1>3. /\ confirmed[s] = Len(offered[s]) /\ NextNumber(offered[s]) = 0 /\ AllQueued(s)
  BY <1>1, OpenSocket
<1>4. pc'[s] = "acksend"
  BY <1>1 DEF IInv, TypeInv, TypeOK
<1>5. /\ inbox \in Queues /\ LeftOf(inbox[s], inbox[s])
      /\ Coming(inbox[s], offered[p], Len(accepted[s]), offered[s], Len(offered[s]), Len(offered[s]))
  BY <1>3, Queue, Histories DEF LeftOf
<1> HIDE DEF bytes
<1> QED BY <1>1, <1>2, <1>3, <1>4, <1>5, OfferKept

\* acksend() sends its message again.
LEMMA AcksendRepeatKept ==
  ASSUME IInv, NEW s \in Socket, Step(s), NEW fate \in Fate,
         AcksendTimeout(s, fate) \/ \E i \in DOMAIN inbox[s] : AcksendAgain(s, i, fate)
  PROVE  Kept(s) /\ Rests(s) /\ pc[s] = "acksend"
<1> DEFINE p == Peer[s]
<1>1. pc[s] = "acksend" /\ Rests(s)
  BY DEF AcksendTimeout, AcksendAgain, Rests, sendVars, recvVars
<1>2. CASE AcksendTimeout(s, fate)
  <2>1. inbox \in Queues /\ LeftOf(inbox[s], inbox[s]) /\ inbox' = Rawsend(inbox, s, Current(s), fate)
    BY <1>2, Queue DEF LeftOf, AcksendTimeout
  <2> QED BY <1>1, <2>1, RepeatKept
<1>3. ASSUME NEW i \in DOMAIN inbox[s], AcksendAgain(s, i, fate)
      PROVE  Kept(s)
  <2>1. /\ Without(s, i) \in Queues /\ Without(s, i)[p] = inbox[p]
        /\ LeftOf(inbox[s], Without(s, i)[s])
    BY <1>3, Arrival DEF AcksendAgain
  <2>2. inbox' = Rawsend(Without(s, i), s, Current(s), fate)
    BY <1>3 DEF AcksendAgain
  <2> QED BY <1>1, <2>1, <2>2, RepeatKept
<1> QED BY <1>1, <1>2, <1>3

\* send() goes on with the next message.
LEMMA AcksendNextKept ==
  ASSUME IInv, NEW s \in Socket, Step(s), NEW fate \in Fate,
         NEW i \in DOMAIN inbox[s], AcksendNext(s, i, fate)
  PROVE  Kept(s)
<1> DEFINE p == Peer[s]
           n == sendSeqnum[s]
           rest == unsent[s]
           box == Without(s, i)
<1>1. /\ pc[s] = "acksend" /\ rest # << >> /\ MayArrive(s, i)
      /\ Answers(inbox[s][i], Current(s)) /\ ~HasFlag(inbox[s][i], "FIN")
      /\ StartAcksend(s, Succ(n), Rest(rest), box, fate)
      /\ confirmed' = [confirmed EXCEPT ![s] = @ + 1]
      /\ UNCHANGED <<script, pc, isClosing, recvSeqnum, finAck, accepted>>
  BY DEF AcksendNext, recvVars
<1>2. /\ ~isClosing[s] /\ n \in Seqnum /\ rest \in Seq(Byte) /\ SendPlace(n, rest)
      /\ offered[s][Len(offered[s])] = Current(s) /\ Len(offered[s]) > 0
      /\ offered[s] # << >> /\ confirmed[s] = Len(offered[s]) - 1 /\ Len(offered[s]) \in Nat
  BY <1>1, OpenSocket, Histories
<1>3. /\ AllQueued(s)
      /\ Coming(box[s], offered[p], Len(accepted[s]), offered[s], Len(offered[s]), Len(offered[s]))
      /\ OnlyOpeners(box[s])
  BY <1>1, AnswerSeen
<1>4. box \in Queues /\ box[p] = inbox[p] /\ LeftOf(inbox[s], box[s])
  BY <1>1, Arrival
<1>5. p \in Socket /\ s = Peer[p] /\ FinSeqnum > 0
  BY Pair
<1>6. /\ Succ(n) = n + 1 /\ SendPlace(Succ(n), Rest(rest))
      /\ Succ(n) \in Seqnum /\ Rest(rest) \in Seq(Byte)
  BY <1>1, <1>2, <1>5, NextChunk, SeqnumStep, ChunkTypes
<1>7. Succ(n) = NextNumber(offered[s])
  <2>1. NumberAfter(MsgFor(n, rest)) = n + 1
    BY <1>1, <1>2, <1>5, MsgForWellFormed
  <2> QED BY <1>2, <1>6, <2>1 DEF NextNumber, Current
<1>8. NoAnswers(inbox[p])
  BY <1>1, <1>3, <1>5 DEF Unmixed, IInv, TurnsInv, Transfers
<1>9. ~(pc[p] = "acksend" /\ sendSeqnum[p] # 0)
  BY <1>1, <1>3, BothSend DEF Fresh
<1>10. confirmed'[s] = Len(offered[s]) /\ pc'[s] = "acksend"
  BY <1>1, <1>2 DEF IInv, TypeInv, TypeOK
<1> HIDE DEF n, rest, box
<1> QED
  BY <1>1, <1>2, <1>3, <1>4, <1>6, <1>7, <1>8, <1>9, <1>10, OfferKept

\* send() returns.
LEMMA AcksendDoneKept ==
  ASSUME IInv, NEW s \in Socket, Step(s), NEW i \in DOMAIN inbox[s], AcksendDone(s, i)
  PROVE  Kept(s)
<1>1. /\ pc[s] = "acksend" /\ unsent[s] = << >> /\ MayArrive(s, i)
      /\ Answers(inbox[s][i], Current(s)) /\ ~HasFlag(inbox[s][i], "FIN")
      /\ confirmed' = [confirmed EXCEPT ![s] = @ + 1]
      /\ inbox' = Without(s, i)
      /\ pc' = [pc EXCEPT ![s] = "idle"]
      /\ UNCHANGED <<isClosing, offered, accepted>>
  BY DEF AcksendDone, Return, recvVars
<1>2. confirmed'[s] = confirmed[s] + 1 /\ pc'[s] = "idle"
  BY <1>1 DEF IInv, TypeInv, TypeOK
<1> QED BY <1>1, <1>2, LearnKept

\* A FIN, or rcsClose().
LEMMA ClosesKept ==
  ASSUME IInv, NEW s \in Socket, Step(s), NEW fate \in Fate, CloseStep(s, fate)
  PROVE  Kept(s) /\ isClosing'[s]
<1> DEFINE p == Peer[s]
<1>1. p \in Socket /\ p # s /\ s = Peer[p]
  BY Pair
<1>2. CASE CallClose(s, fate)
  <2>1. /\ pc[s] = "idle" /\ pc' = [pc EXCEPT ![s] = "gone"]
        /\ isClosing' = [isClosing EXCEPT ![s] = TRUE] /\ inbox' = FinBurst(inbox, s, fate)
        /\ UNCHANGED <<finAck, accepted, offered, confirmed>>
    BY <1>2 DEF CallClose, Calls, sendVars, recvVars
  <2>2. isClosing'[s] /\ pc'[s] = "gone"
    BY <2>1 DEF IInv, TypeInv, TypeOK
  <2>3. inbox \in Queues
    BY Queue
  <2> QED BY <2>1, <2>2, <2>3, CloseKept DEF Stays
<1>3. ASSUME NEW i \in DOMAIN inbox[s],
             AcksendFin(s, i, fate) \/ RecvFin(s, i, fate) \/ FinalizeFin(s, i, fate)
      PROVE  Kept(s) /\ isClosing'[s]
  <2>1. /\ MayArrive(s, i) /\ HasFlag(inbox[s][i], "FIN")
        /\ isClosing' = [isClosing EXCEPT ![s] = TRUE]
        /\ inbox' = FinBurst(Without(s, i), s, fate)
        /\ pc[s] \in {"acksend", "recv", "finalize"}
        /\ pc' = [pc EXCEPT ![s] = "idle"] \/ (pc' = pc /\ pc[s] = "finalize")
        /\ UNCHANGED <<offered, finAck>>
    BY <1>3 DEF AcksendFin, RecvFin, FinalizeFin, Return, ReturnRead, sendVars, recvVars
  <2>2. /\ pc[s] = "acksend" => ~Answers(inbox[s][i], Current(s))
        /\ pc[s] = "recv" => ~Expected(s, inbox[s][i])
        /\ isClosing[p]
    BY <2>1, FinUnexpected
  <2>3. accepted' = accepted
    BY <1>3, <2>2 DEF AcksendFin, RecvFin, FinalizeFin, recvVars
  <2>4. confirmed'[s] = confirmed[s]
    <3>1. CASE AcksendFin(s, i, fate)
      BY <2>2, <3>1 DEF AcksendFin, IInv, TypeInv, TypeOK
    <3>2. CASE RecvFin(s, i, fate) \/ FinalizeFin(s, i, fate)
      BY <3>2 DEF RecvFin, FinalizeFin, sendVars
    <3> QED BY <1>3, <3>1, <3>2
  <2>5. isClosing'[s] /\ pc'[s] \in {"idle", "finalize"} /\ (pc'[s] = "finalize" => pc[s] = "finalize")
    BY <2>1 DEF IInv, TypeInv, TypeOK
  <2>6. Without(s, i) \in Queues /\ Without(s, i)[p] = inbox[p]
    BY <2>1, Arrival
  <2>7. Stays(s)
    BY <2>1, <2>3, <2>4 DEF Stays
  <2> QED BY <2>1, <2>2, <2>3, <2>5, <2>6, <2>7, CloseKept
<1> QED BY <1>2, <1>3 DEF CloseStep

\* recv() queues the message it has expected.
LEMMA RecvAcceptKept ==
  ASSUME IInv, NEW s \in Socket, Step(s), NEW fate \in Fate,
         NEW i \in DOMAIN inbox[s], RecvAccept(s, i, fate)
  PROVE  Kept(s)
<1> DEFINE p == Peer[s]
           d == inbox[s][i]
           k == recvSeqnum[s]
           new == Append(accepted[s], d.msg)
           n == Len(offered[p])
<1>1. /\ pc[s] = "recv" /\ MayArrive(s, i) /\ Expected(s, d) /\ ~HasFlag(d, "FIN")
      /\ accepted' = [accepted EXCEPT ![s] = Append(@, d.msg)]
      /\ recvSeqnum' = [recvSeqnum EXCEPT ![s] = Succ(@)]
      /\ Acknowledge(s, i, k, fate)
      /\ UNCHANGED <<script, isClosing, sendSeqnum, unsent, offered, confirmed>>
  BY DEF RecvAccept, sendVars
<1>2. p \in Socket /\ p # s /\ s = Peer[p]
  BY Pair
<1>3. d.msg = offered[p][n] /\ offered[p][n].seqnum = k /\ ~AllQueued(p)
  BY <1>1, ExpectedIsNext
<1>4. /\ d.msg \in Message /\ WellFormed(d.msg) /\ d.msg.seqnum = k /\ k \in Seqnum
      /\ accepted[s] \in Seq(Message)
  <2>1. n \in Nat /\ n > 0 /\ accepted[s] \in Seq(Message)
        /\ \A j \in 1 .. n : offered[p][j] \in Message /\ WellFormed(offered[p][j])
    BY <1>2, <1>3, Histories
  <2>2. n \in 1 .. n
    BY <2>1
  <2>3. k \in Seqnum
    BY DEF IInv, TypeInv, TypeOK
  <2> QED BY <1>3, <2>1, <2>2, <2>3
<1>5. /\ inbox' = Rawsend(Without(s, i), s, ControlMsg(k, "ACK"), fate)
      /\ IF d.msg.flags = "EOS"
         THEN /\ pc' = [pc EXCEPT ![s] = "finalize"]
              /\ finAck' = [finAck EXCEPT ![s] = k]
         ELSE UNCHANGED <<pc, finAck>>
  BY <1>1 DEF Acknowledge, HasFlag, Expected
<1>6. /\ ~isClosing[s] /\ confirmed[s] = Len(offered[s]) /\ NextNumber(offered[s]) = 0
  BY <1>1, OpenSocket
<1> HIDE DEF d, k, n
<1>7. /\ accepted'[s] = new /\ accepted'[p] = accepted[p] /\ recvSeqnum'[s] = Succ(k)
      /\ pc'[s] = IF d.msg.flags = "EOS" THEN "finalize" ELSE "recv"
      /\ d.msg.flags = "EOS" => finAck'[s] = k
  BY <1>1, <1>2, <1>5 DEF IInv, TypeInv, TypeOK, k
<1>8. new # << >> /\ new[Len(new)] = d.msg /\ NextNumber(new) = NumberAfter(d.msg)
  BY <1>4, AppendProperties DEF NextNumber
<1> HIDE DEF new
<1>9. SenderPlace(s)'
  BY <1>1, <1>6, <1>7 DEF SenderPlace
<1>10. ReceiverPlace(s)'
  <2>1. CASE d.msg.flags = "EOS"
    <3>1. NextNumber(new) = 0
      BY <1>8, <2>1 DEF NumberAfter
    <3> QED BY <1>4, <1>7, <1>8, <2>1, <3>1 DEF ReceiverPlace
  <2>2. CASE d.msg.flags # "EOS"
    <3>1. k + 1 < FinSeqnum /\ NumberAfter(d.msg) = k + 1
      BY <1>4, <2>2 DEF WellFormed, NumberAfter
    <3>2. Succ(k) = k + 1
      BY <1>4, <3>1, MsgAssumption DEF Succ, Seqnum
    <3> QED BY <1>7, <1>8, <2>2, <3>1, <3>2 DEF ReceiverPlace
  <2> QED BY <2>1, <2>2
<1>11. Stays(s)
  BY <1>1, <1>7 DEF Stays
<1>12. pc'[s] \notin {"acksend", "gone"}
  BY <1>7
<1> QED BY <1>1, <1>5, <1>7, <1>9, <1>10, <1>11, <1>12, TakeKept DEF new, d, k

\* An EOS that recv() does not expect is that of the last send(), once more.
LEMMA RejectedEos ==
  ASSUME IInv, NEW s \in Socket, pc[s] = "recv", NEW i \in DOMAIN inbox[s], MayArrive(s, i),
         ~Expected(s, inbox[s][i]), HasFlag(inbox[s][i], "EOS")
  PROVE  Len(accepted[s]) > 0 /\ NextNumber(accepted[s]) = 0 /\ recvSeqnum[s] = 0
<1> DEFINE p == Peer[s]
           d == inbox[s][i]
           off == offered[p]
           n == Len(off)
           h == Len(accepted[s])
<1>1. p \in Socket /\ p # s /\ s = Peer[p]
  BY Pair
<1>2. recvSeqnum[s] = NextNumber(accepted[s])
  BY OpenSocket
<1>3. IsData(d) /\ d.msg.flags = "EOS" /\ d.msg.seqnum # NextNumber(accepted[s])
  BY <1>2 DEF HasFlag, IsData, IsValid, Expected
<1>4. d = inbox[s][1] /\ 1 \in 1 .. Len(inbox[s])
  BY Arrival
<1>5. DataOnWay(inbox[s], off, h)
  BY Queue DEF Coming
<1>6. \/ n > 0 /\ d.msg = off[n]
      \/ n > 1 /\ h < n /\ d.msg = off[n - 1]
  BY <1>3, <1>4, <1>5 DEF DataOnWay
<1>7. /\ n \in Nat /\ h \in Nat
      /\ AllQueued(p) => h = n
      /\ ~AllQueued(p) => h = n - 1 /\ NextNumber(accepted[s]) = off[n].seqnum
      /\ h > 0 => NextNumber(accepted[s]) = NumberAfter(off[h])
  BY <1>1, Histories, ExpectedNumber
<1>8. h > 0 /\ d.msg = off[h]
  BY <1>3, <1>6, <1>7
<1> QED BY <1>2, <1>3, <1>7, <1>8 DEF NumberAfter

\* recv() answers what it has not expected.
LEMMA RecvRejectKept ==
  ASSUME IInv, NEW s \in Socket, Step(s), NEW fate \in Fate,
         NEW i \in DOMAIN inbox[s], RecvReject(s, i, fate)
  PROVE  Kept(s)
<1> DEFINE p == Peer[s]
           d == inbox[s][i]
           box == Without(s, i)
           n == Pred(recvSeqnum[s])
<1>1. /\ pc[s] = "recv" /\ MayArrive(s, i) /\ ~Expected(s, d) /\ ~HasFlag(d, "FIN")
      /\ inbox' = Rawsend(box, s, ControlMsg(n, "ACK"), fate)
      /\ IF HasFlag(d, "EOS")
         THEN /\ pc' = [pc EXCEPT ![s] = "finalize"]
              /\ finAck' = [finAck EXCEPT ![s] = n]
         ELSE UNCHANGED <<pc, finAck>>
      /\ UNCHANGED <<script, isClosing, sendSeqnum, unsent, offered, confirmed,
                     recvSeqnum, accepted>>
  BY DEF RecvReject, Acknowledge, sendVars
<1>2. p \in Socket /\ p # s /\ s = Peer[p]
  BY Pair
<1>3. recvSeqnum[s] = NextNumber(accepted[s]) /\ ~isClosing[s]
      /\ confirmed[s] = Len(offered[s]) /\ NextNumber(offered[s]) = 0
  BY <1>1, OpenSocket
<1>4. /\ n \in Seqnum
      /\ n = NoNumber \/ (Len(accepted[s]) > 0 /\ n = offered[p][Len(accepted[s])].seqnum)
  <2>1. recvSeqnum[s] \in Seqnum
    BY DEF IInv, TypeInv, TypeOK
  <2> QED BY <1>2, <1>3, <2>1, ExpectedNumber, SeqnumStep
<1>5. box \in Queues /\ box[p] = inbox[p] /\ LeftOf(inbox[s], box[s])
  BY <1>1, Arrival
<1>6. HasFlag(d, "EOS") => NextNumber(accepted[s]) = 0 /\ recvSeqnum[s] = 0
  BY <1>1, RejectedEos
<1> HIDE DEF d, box
<1>7. /\ pc'[s] = (IF HasFlag(d, "EOS") THEN "finalize" ELSE "recv")
      /\ HasFlag(d, "EOS") => finAck'[s] = n
  BY <1>1 DEF IInv, TypeInv, TypeOK
<1>8. SenderPlace(s)'
  BY <1>1, <1>3, <1>7 DEF SenderPlace
<1>9. ReceiverPlace(s)'
  <2>1. CASE HasFlag(d, "EOS")
    <3>1. n = NoNumber
      BY <1>6, <2>1 DEF Pred, NoNumber
    <3> QED BY <1>1, <1>6, <1>7, <2>1, <3>1 DEF ReceiverPlace
  <2>2. CASE ~HasFlag(d, "EOS")
    BY <1>1, <1>3, <1>7, <2>2 DEF ReceiverPlace
  <2> QED BY <2>1, <2>2
<1>10. Stays(s) /\ Stays(p)
  BY <1>1 DEF Stays
<1>11. isClosing'[s] = isClosing[s] /\ pc[s] # "acksend" /\ pc'[s] \notin {"acksend", "gone"}
  BY <1>1, <1>7
<1> HIDE DEF n
<1> QED BY <1>1, <1>3, <1>4, <1>5, <1>8, <1>9, <1>10, <1>11, AnswerKept

\* finalizeRecv() repeats its answer.
LEMMA FinalizeAnswerKept ==
  ASSUME IInv, NEW s \in Socket, Step(s), NEW fate \in Fate,
         NEW i \in DOMAIN inbox[s], FinalizeAnswer(s, i, fate)
  PROVE  Kept(s) /\ Rests(s) /\ pc[s] = "finalize"
<1> DEFINE p == Peer[s]
           box == Without(s, i)
           n == finAck[s]
           h == Len(accepted[s])
<1>1. /\ pc[s] = "finalize" /\ MayArrive(s, i)
      /\ inbox' = Rawsend(box, s, ControlMsg(n, "ACK"), fate)
      /\ UNCHANGED <<script, pc, isClosing, sendVars, recvVars>>
  BY DEF FinalizeAnswer
<1>2. p \in Socket /\ p # s /\ s = Peer[p]
  BY Pair
<1>3. Rests(s)
  BY <1>1 DEF Rests, sendVars, recvVars
<1>4. Stays(s) /\ Stays(p)
  BY <1>1 DEF Stays, sendVars, recvVars
<1>5. n \in Seqnum /\ (n = NoNumber \/ (h > 0 /\ n = offered[p][h].seqnum))
  <2>1. n \in Seqnum
    BY DEF IInv, TypeInv, TypeOK
  <2>2. n = NoNumber \/ (accepted[s] # << >> /\ n = accepted[s][h].seqnum)
    BY <1>1 DEF IInv, TurnsInv, Transfers, ReceiverPlace
  <2>3. h \in Nat /\ (accepted[s] # << >> => h > 0) /\ (h > 0 => accepted[s][h] = offered[p][h])
    BY <1>2, Histories, ExpectedNumber
  <2> QED BY <2>1, <2>2, <2>3
<1>6. box \in Queues /\ box[p] = inbox[p] /\ LeftOf(inbox[s], box[s]) /\ ~isClosing[s]
  BY <1>1, Arrival
<1>7. SenderPlace(s)' /\ ReceiverPlace(s)'
  BY <1>3, PlacesStay
<1>8. isClosing'[s] = isClosing[s] /\ pc[s] # "acksend" /\ pc'[s] \notin {"acksend", "gone"}
  BY <1>1
<1> HIDE DEF n, box, h
<1>9. Kept(s)
  BY <1>1, <1>4, <1>5, <1>6, <1>7, <1>8, AnswerKept DEF h
<1> QED BY <1>1, <1>3, <1>9

\* The steps that neither send nor learn an answer.
QuietStep(s) ==
  \/ SendOnClosing(s) \/ CallRecv(s) \/ RecvOnClosing(s) \/ RecvTimeout(s)
  \/ FinalizeTimeout(s) \/ FinalizeSpin(s)
  \/ \E i \in DOMAIN inbox[s] : RecvIgnore(s, i) \/ FinalizeLeave(s, i)

\* Where they lead.
LEMMA QuietPlaces ==
  ASSUME IInv, NEW s \in Socket, QuietStep(s)
  PROVE  /\ pc[s] # "acksend"
         /\ \/ pc'[s] = pc[s] /\ recvSeqnum'[s] = recvSeqnum[s] /\ pc[s] \in {"recv", "finalize"}
            \/ ~isClosing[s] /\ pc[s] # "recv" /\ pc'[s] = "recv" /\ recvSeqnum'[s] = 0
            \/ (isClosing[s] \/ pc[s] # "recv") /\ pc'[s] = "idle"
<1> USE DEF IInv, TypeInv, TypeOK
<1>1. CASE RecvTimeout(s) \/ FinalizeSpin(s)
  BY <1>1 DEF RecvTimeout, FinalizeSpin, vars, recvVars
<1>2. CASE SendOnClosing(s) \/ RecvOnClosing(s)
  BY <1>2 DEF SendOnClosing, RecvOnClosing, Calls, ReturnRead, Return
<1>3. CASE CallRecv(s)
  BY <1>3 DEF CallRecv, Calls
<1>4. ASSUME pc[s] = "finalize", LeaveFinalize(s)
      PROVE  pc'[s] = "idle" \/ (pc'[s] = "recv" /\ recvSeqnum'[s] = 0)
  BY <1>4 DEF LeaveFinalize, ReturnRead, Return
<1>5. CASE FinalizeTimeout(s)
  BY <1>4, <1>5 DEF FinalizeTimeout, TimesOut
<1>6. ASSUME NEW i \in DOMAIN inbox[s], RecvIgnore(s, i) \/ FinalizeLeave(s, i)
      PROVE  /\ pc[s] # "acksend"
             /\ \/ pc'[s] = pc[s] /\ recvSeqnum'[s] = recvSeqnum[s] /\ pc[s] \in {"recv", "finalize"}
                \/ ~isClosing[s] /\ pc[s] # "recv" /\ pc'[s] = "recv" /\ recvSeqnum'[s] = 0
                \/ (isClosing[s] \/ pc[s] # "recv") /\ pc'[s] = "idle"
  <2>1. CASE RecvIgnore(s, i)
    BY <2>1 DEF RecvIgnore, recvVars
  <2>2. CASE FinalizeLeave(s, i)
    <3>1. MayArrive(s, i) /\ pc[s] = "finalize" /\ LeaveFinalize(s)
      BY <2>2 DEF FinalizeLeave
    <3>2. ~isClosing[s]
      BY <3>1, Arrival
    <3> QED BY <1>4, <3>1, <3>2
  <2> QED BY <1>6, <2>1, <2>2
<1> QED BY <1>1, <1>2, <1>3, <1>5, <1>6 DEF QuietStep

LEMMA QuietKept ==
  ASSUME IInv, NEW s \in Socket, Step(s), QuietStep(s)
  PROVE  Kept(s) /\ isClosing' = isClosing
<1> DEFINE p == Peer[s]
<1>1. UNCHANGED <<isClosing, offered, confirmed, finAck, accepted>>
  BY DEF QuietStep, SendOnClosing, CallRecv, RecvOnClosing, RecvTimeout, FinalizeTimeout,
         FinalizeSpin, RecvIgnore, FinalizeLeave, LeaveFinalize, vars, sendVars, recvVars
<1>2. LeftOf(inbox[s], inbox'[s]) /\ inbox'[p] = inbox[p]
  <2>1. ASSUME NEW i \in DOMAIN inbox[s], RecvIgnore(s, i) \/ FinalizeLeave(s, i)
        PROVE  inbox' = Without(s, i) /\ MayArrive(s, i)
    BY <2>1 DEF RecvIgnore, FinalizeLeave
  <2>2. CASE \/ SendOnClosing(s) \/ CallRecv(s) \/ RecvOnClosing(s) \/ RecvTimeout(s)
             \/ FinalizeTimeout(s) \/ FinalizeSpin(s)
    BY <2>2 DEF SendOnClosing, CallRecv, RecvOnClosing, RecvTimeout, FinalizeTimeout,
                FinalizeSpin, vars, LeftOf
  <2> QED BY <2>1, <2>2, Arrival DEF QuietStep
<1>3. Stays(s) /\ Stays(p)
  BY <1>1 DEF Stays
<1>4. /\ pc[s] # "acksend"
      /\ \/ pc'[s] = pc[s] /\ recvSeqnum'[s] = recvSeqnum[s] /\ pc[s] \in {"recv", "finalize"}
         \/ ~isClosing[s] /\ pc[s] # "recv" /\ pc'[s] = "recv" /\ recvSeqnum'[s] = 0
         \/ (isClosing[s] \/ pc[s] # "recv") /\ pc'[s] = "idle"
  BY QuietPlaces
<1>5. /\ ~isClosing[s] => confirmed[s] = Len(offered[s]) /\ NextNumber(offered[s]) = 0
      /\ ~isClosing[s] /\ pc[s] # "recv" => NextNumber(accepted[s]) = 0
      /\ SenderPlace(s) /\ ReceiverPlace(s)
  BY <1>4, OpenSocket DEF IInv, TurnsInv, Transfers
<1>6. SenderPlace(s)'
  BY <1>1, <1>4, <1>5 DEF SenderPlace
<1>7. ReceiverPlace(s)'
  BY <1>1, <1>4, <1>5 DEF ReceiverPlace
<1>8. pc'[s] \notin {"acksend", "gone"}
  BY <1>4
<1>9. Kept(s)
  BY <1>1, <1>2, <1>3, <1>6, <1>7, <1>8, SilentKept
<1> QED BY <1>1, <1>9

-----------------------------------------------------------------------------
(* The buffer of a recv() that has room for all of a send() *)

\* Without bytes there is nothing unread, and a buffer with bytes has some.
LEMMA UnreadLength ==
  ASSUME NEW b \in Seq(Cell)
  PROVE  /\ Unread(b) \in Seq(Byte) /\ Len(Unread(b)) \in Nat
         /\ NoBytes(b) <=> Len(Unread(b)) = 0
         /\ NoBytes(b) => OneRun(b)
<1>1. Unread(b) \in Seq(Byte) /\ Len(Unread(b)) \in Nat
  BY UnreadType, LenProperties
<1>2. NoBytes(b) => Len(Unread(b)) = 0
  BY UnreadOfMarks
<1>3. ~NoBytes(b) => Len(Unread(b)) # 0
  <2> SUFFICES ASSUME ~NoBytes(b)  PROVE Len(Unread(b)) # 0
    OBVIOUS
  <2> DEFINE i == ReadStart(b)
             j == ReadEnd(b, 1)
             r == ReadBytes(b, 1)
             u == Unread(AfterRead(b, 1))
  <2>1. r # << >> /\ AfterRead(b, 1) \in Seq(Cell) /\ Unread(b) = r \o u
    BY ReadSplits
  <2>2. i \in 1 .. Len(b) /\ j \in i + 1 .. Len(b) + 1 /\ Len(b) \in Nat
    BY ReadPlaces, LenProperties
  <2>3. r \in Seq(Byte)
    <3> HIDE DEF i, j
    <3>1. Len(b) \in j - 1 .. Len(b)
      BY <2>2
    <3> QED BY <3>1, ReadPrefix DEF j
  <2>4. u \in Seq(Byte)
    BY <2>1, UnreadType
  <2> HIDE DEF r, u
  <2>5. Len(r) \in Nat /\ Len(r) # 0 /\ Len(u) \in Nat /\ Len(r \o u) = Len(r) + Len(u)
    BY <2>1, <2>3, <2>4, LenProperties, EmptySeq, ConcatProperties
  <2> QED BY <2>1, <2>5
<1>4. NoBytes(b) => OneRun(b)
  BY DEF NoBytes, OneRun
<1> QED BY <1>1, <1>2, <1>3, <1>4

\* read() with room for all the bytes of one run leaves none.
LEMMA ReadTakesAll ==
  ASSUME NEW b \in Seq(Cell), OneRun(b), ~NoBytes(b), NEW n \in Nat \ {0}, Len(Unread(b)) <= n
  PROVE  AfterRead(b, n) \in Seq(Cell) /\ NoBytes(AfterRead(b, n))
<1> DEFINE i == ReadStart(b)
           j == ReadEnd(b, n)
           rest == AfterRead(b, n)
           r == ReadBytes(b, n)
           u == Unread(rest)
<1>1. /\ i \in 1 .. Len(b) /\ j \in i + 1 .. Len(b) + 1 /\ Len(b) \in Nat
      /\ \A k \in i .. j - 1 : b[k] # Mark
      /\ \/ rest = SubSeq(b, j, Len(b)) /\ (j = Len(b) + 1 \/ j = i + n)
         \/ j <= Len(b) /\ b[j] = Mark /\ rest = SubSeq(b, j + 1, Len(b))
  BY ReadPlaces, LenProperties
<1>2. rest \in Seq(Cell) /\ Unread(b) = r \o u
  BY ReadSplits
<1>3. r \in Seq(Byte) /\ Len(r) = j - i
  <2>1. Len(b) \in j - 1 .. Len(b)
    BY <1>1
  <2> QED BY <2>1, ReadPrefix
<1>4. u \in Seq(Byte) /\ Len(u) \in Nat /\ (NoBytes(rest) <=> Len(u) = 0)
  BY <1>2, UnreadLength
<1> HIDE DEF i, j, rest, r, u
<1>5. Len(r \o u) = Len(r) + Len(u) /\ Len(r) \in Nat
  BY <1>3, <1>4, ConcatProperties, LenProperties
<1>6. CASE j = i + n
  <2>1. Len(r) = n
    BY <1>1, <1>3, <1>6
  <2>2. Len(u) = 0
    BY <1>2, <1>4, <1>5, <2>1
  <2> QED BY <1>2, <1>4, <2>2 DEF rest
<1>7. CASE rest = SubSeq(b, j, Len(b)) /\ j = Len(b) + 1
  <2>1. rest = << >>
    BY <1>1, <1>7, SubSeqProperties, EmptySeq
  <2> QED BY <1>2, <2>1, EmptySeq DEF rest, NoBytes
<1>8. CASE j <= Len(b) /\ b[j] = Mark /\ rest = SubSeq(b, j + 1, Len(b))
  <2>1. \A k \in j + 1 .. Len(b) : b[k] = Mark
    <3> SUFFICES ASSUME NEW k \in j + 1 .. Len(b), b[k] # Mark  PROVE FALSE
      OBVIOUS
    <3>1. i \in 1 .. Len(b) /\ j \in 1 .. Len(b) /\ k \in 1 .. Len(b) /\ i < j /\ j < k
      BY <1>1, <1>8
    <3>2. b[i] # Mark
      BY <1>1
    <3> QED BY <1>8, <3>1, <3>2 DEF OneRun
  <2>2. /\ Len(rest) = Len(b) - j
        /\ \A k \in 1 .. Len(b) - j : rest[k] = b[j + k]
    <3>1. \A k \in j + 1 .. Len(b) : b[k] \in Cell
      BY <1>1, ElementOfSeq
    <3>2. /\ Len(rest) = IF j + 1 <= Len(b) THEN Len(b) - (j + 1) + 1 ELSE 0
          /\ \A k \in 1 .. Len(b) - (j + 1) + 1 : rest[k] = b[j + 1 + k - 1]
      BY <1>1, <1>8, <3>1, SubSeqProperties
    <3> QED BY <1>1, <1>8, <3>2
  <2>3. \A k \in 1 .. Len(b) - j : j + k \in j + 1 .. Len(b)
    BY <1>1
  <2> QED BY <1>2, <2>1, <2>2, <2>3 DEF rest, NoBytes
<1> QED BY <1>1, <1>6, <1>7, <1>8

\* Queueing a message lengthens the run, and its bytes come behind.
LEMMA QueueRun ==
  ASSUME NEW b \in Seq(Cell), OneRun(b), NoBytes(b) \/ (b # << >> /\ b[Len(b)] # Mark),
         NEW m \in Message, WellFormed(m)
  PROVE  /\ QueueMessage(b, m) \in Seq(Cell) /\ OneRun(QueueMessage(b, m))
         /\ Len(Unread(QueueMessage(b, m))) = Len(Unread(b)) + Len(m.data)
         /\ m.flags = "NONE" =>
              /\ QueueMessage(b, m) # << >>
              /\ QueueMessage(b, m)[Len(QueueMessage(b, m))] # Mark
         /\ m.flags = "EOS" /\ ~NoBytes(b) => ~NoBytes(QueueMessage(b, m))
<1> DEFINE d == m.data
           c == b \o d
           q == QueueMessage(b, m)
<1>1. /\ d \in Seq(Byte) /\ d \in Seq(Cell) /\ q \in Seq(Cell)
      /\ Unread(q) = Unread(b) \o d
  BY QueueCells, QueueConcat
<1>2. q = (IF m.flags = "EOS" THEN Append(c, Mark) ELSE c)
  BY DEF QueueMessage
<1>3. Unread(b) \in Seq(Byte) /\ Len(Unread(b)) \in Nat /\ Len(d) \in Nat /\ Len(b) \in Nat
  BY <1>1, UnreadLength, LenProperties
<1>4. \A k \in 1 .. Len(d) : d[k] # Mark
  BY <1>1, ElementOfSeq, MarkAssumption
<1> HIDE DEF d, q
<1>5. Len(Unread(q)) = Len(Unread(b)) + Len(d)
  BY <1>1, <1>3, ConcatProperties
<1>6. /\ c \in Seq(Cell) /\ Len(c) = Len(b) + Len(d)
      /\ \A k \in 1 .. Len(b) : c[k] = b[k]
      /\ \A k \in 1 .. Len(d) : c[Len(b) + k] = d[k]
  BY <1>1, ConcatProperties
<1> HIDE DEF c
<1>7. \A k \in Len(b) + 1 .. Len(c) : c[k] # Mark
  <2> SUFFICES ASSUME NEW k \in Len(b) + 1 .. Len(c)  PROVE c[k] # Mark
    OBVIOUS
  <2>1. k - Len(b) \in 1 .. Len(d) /\ k = Len(b) + (k - Len(b))
    BY <1>3, <1>6
  <2> QED BY <1>4, <1>6, <2>1
<1>8. OneRun(c)
  <2> SUFFICES ASSUME NEW i \in 1 .. Len(c), NEW j \in 1 .. Len(c), NEW k \in 1 .. Len(c),
                      i < j, j < k, c[i] # Mark, c[k] # Mark
               PROVE  c[j] # Mark
    BY DEF OneRun
  <2>1. CASE j > Len(b)
    BY <1>3, <1>6, <1>7, <2>1
  <2>2. CASE j <= Len(b)
    <3>1. i \in 1 .. Len(b) /\ j \in 1 .. Len(b) /\ b[i] # Mark /\ c[j] = b[j] /\ Len(b) \in 1 .. Len(b)
      BY <1>3, <1>6, <2>2
    <3>2. ~NoBytes(b)
      BY <3>1 DEF NoBytes
    <3>3. b[Len(b)] # Mark
      BY <3>2
    <3> QED BY <3>1, <3>3 DEF OneRun
  <2> QED BY <1>3, <1>6, <2>1, <2>2
<1>9. OneRun(q)
  <2>1. CASE m.flags = "EOS"
    <3>1. /\ Len(q) = Len(c) + 1 /\ q[Len(c) + 1] = Mark /\ Len(c) \in Nat
          /\ \A k \in 1 .. Len(c) : q[k] = c[k]
      <4>1. q = Append(c, Mark) /\ Mark \in Cell /\ Len(c) \in Nat
        BY <1>2, <1>6, <2>1, LenProperties DEF Cell
      <4> QED BY <1>6, <4>1, AppendProperties, SMTT(30)
    <3> SUFFICES ASSUME NEW i \in 1 .. Len(q), NEW j \in 1 .. Len(q), NEW k \in 1 .. Len(q),
                        i < j, j < k, q[i] # Mark, q[k] # Mark
                 PROVE  q[j] # Mark
      BY DEF OneRun
    <3>2. k # Len(c) + 1
      BY <3>1
    <3>3. i \in 1 .. Len(c) /\ j \in 1 .. Len(c) /\ k \in 1 .. Len(c)
      BY <3>1, <3>2
    <3> QED BY <1>8, <3>1, <3>3 DEF OneRun
  <2>2. CASE m.flags # "EOS"
    BY <1>2, <1>8, <2>2
  <2> QED BY <2>1, <2>2
<1>10. ASSUME m.flags = "NONE"  PROVE q # << >> /\ q[Len(q)] # Mark
  <2>1. d # << >> /\ q = c
    BY <1>2, <1>10 DEF WellFormed, d
  <2>2. Len(d) > 0
    BY <1>1, <1>3, <2>1, EmptySeq
  <2>3. Len(c) \in Len(b) + 1 .. Len(c) /\ Len(c) > 0
    BY <1>3, <1>6, <2>2
  <2> QED BY <1>6, <1>7, <2>1, <2>3, EmptySeq
<1>11. m.flags = "EOS" /\ ~NoBytes(b) => ~NoBytes(q)
  BY <1>1, <1>3, <1>5, UnreadLength
<1> QED BY <1>1, <1>5, <1>9, <1>10, <1>11 DEF d, q

-----------------------------------------------------------------------------
(* The steps, one by one: what they do to the turns *)

\* Both applications after a step of s.
Turned(s) == TakesTurns(s)' /\ TakesTurns(Peer[s])'

\* What a step of s leaves of its peer's turn.
LEMMA PeerTurn ==
  ASSUME IInv, NEW s \in Socket, NEW p, p = Peer[s], Step(s)
  PROVE  /\ p \in Socket /\ p # s /\ s = Peer[p] /\ Rests(p)
         /\ CallsMade(s) \in Nat /\ CallsMade(p) \in Nat
         /\ CallsMade(p)' = CallsMade(p)
         /\ script'[s] = script[s] => CallsMade(s)' = CallsMade(s)
         /\ script[s] # << >> /\ script'[s] = Tail(script[s]) => CallsMade(s)' = CallsMade(s) + 1
         /\ Lingers(p)' <=> Lingers(p)
         /\ accepted'[s] = accepted[s] =>
              /\ AllQueued(p)' <=> AllQueued(p)
              /\ EndQueued(p)' <=> EndQueued(p)
              /\ Fresh(p)' <=> Fresh(p)
              /\ StillToCome(s)' = StillToCome(s)
<1>1. p \in Socket /\ p # s /\ s = Peer[p]
  BY Pair
<1>2. Rests(p)
  BY <1>1, PeerRests
<1>3. CallsMade(s) \in Nat /\ CallsMade(p) \in Nat
  BY <1>1, CallsFit
<1>4. CallsMade(p)' = CallsMade(p) /\ (script'[s] = script[s] => CallsMade(s)' = CallsMade(s))
  BY <1>2 DEF CallsMade, Rests
<1>5. ASSUME script[s] # << >>, script'[s] = Tail(script[s])
      PROVE  CallsMade(s)' = CallsMade(s) + 1
  <2>1. Len(Tail(script[s])) = Len(script[s]) - 1
    BY <1>5, CurrentCall DEF IInv, StreamInv
  <2>2. Len(script[s]) \in Nat /\ Len(Script[s]) \in Nat
    BY LinkAssumption, LenProperties DEF IInv, TypeInv, TypeOK
  <2>3. Len(script'[s]) = Len(script[s]) - 1
    BY <1>5, <2>1
  <2>4. CallsMade(s)' = Len(Script[s]) - Len(script'[s]) /\ CallsMade(s) = Len(Script[s]) - Len(script[s])
    BY DEF CallsMade
  <2> QED BY <2>2, <2>3, <2>4
<1>6. Lingers(p)' <=> Lingers(p)
  BY <1>2 DEF Lingers, Rests
<1>7. ASSUME accepted'[s] = accepted[s]
      PROVE  /\ AllQueued(p)' <=> AllQueued(p)
             /\ EndQueued(p)' <=> EndQueued(p)
             /\ Fresh(p)' <=> Fresh(p)
             /\ StillToCome(s)' = StillToCome(s)
  <2>1. AllQueued(p)' <=> AllQueued(p)
    BY <1>1, <1>2, <1>7 DEF AllQueued, Rests
  <2> QED BY <1>1, <1>2, <2>1 DEF EndQueued, Fresh, StillToCome, Rests
<1> QED BY <1>1, <1>2, <1>3, <1>4, <1>5, <1>6, <1>7

\* The parts of TakesTurns that a step of s leaves to be looked at.
LEMMA TurnsAssemble ==
  ASSUME IInv, NEW s \in Socket, NEW p, p = Peer[s], Step(s),
         ~isClosing'[s] => Buffered(s)',
         ~isClosing'[s] /\ ~isClosing[p] =>
           Turn(s)' /\ Turn(p)' /\ (SameTurn(s)' => Portion(s)' /\ Portion(p)')
  PROVE  Turned(s)
<1>1. p \in Socket /\ p # s /\ s = Peer[p] /\ Rests(p)
  BY PeerTurn
<1>2. ~isClosing[p] => Buffered(p)
  BY <1>1 DEF IInv, TurnsInv, TakesTurns
<1>3. Buffered(p)' <=> Buffered(p)
  BY <1>1 DEF Buffered, Rests
<1>4. isClosing'[p] = isClosing[p]
  BY <1>1 DEF Rests
<1>5. SameTurn(p)' => SameTurn(s)'
  BY <1>1 DEF SameTurn
<1>6. TakesTurns(s)'
  BY <1>4 DEF TakesTurns
<1>7. TakesTurns(p)'
  BY <1>1, <1>2, <1>3, <1>4, <1>5 DEF TakesTurns
<1> QED BY <1>6, <1>7 DEF Turned

\* A socket that has closed takes no more part in it.
LEMMA ClosedTurned ==
  ASSUME IInv, NEW s \in Socket, Step(s), isClosing'[s]
  PROVE  Turned(s)
BY TurnsAssemble

\* Where the two applications are: at the same turn, or one is a call ahead.
LEMMA TurnCases ==
  ASSUME IInv, NEW s \in Socket, NEW p, p = Peer[s], ~isClosing[s], ~isClosing[p]
  PROVE  \/ /\ CallsMade(s) = CallsMade(p)
            /\ (EndQueued(s) <=> Lingers(p)) /\ (EndQueued(p) <=> Lingers(s))
            /\ Portion(s) /\ Portion(p)
         \/ /\ CallsMade(s) = CallsMade(p) + 1
            /\ EndQueued(p) \/ Lingers(p)
            /\ pc[s] = "acksend" => Fresh(s)
            /\ ~Lingers(s)
         \/ /\ CallsMade(p) = CallsMade(s) + 1
            /\ EndQueued(s) \/ Lingers(s)
            /\ pc[p] = "acksend" => Fresh(p)
            /\ ~Lingers(p)
<1> DEFINE a == CallsMade(s)
           b == CallsMade(p)
<1>1. p \in Socket /\ p # s /\ s = Peer[p]
  BY Pair
<1>2. /\ a \in Nat /\ b \in Nat
      /\ SameTurn(s) <=> a = b
      /\ SameTurn(p) <=> a = b
      /\ Ahead(s) <=> a = b + 1
      /\ Ahead(p) <=> b = a + 1
      /\ Turn(s) /\ Turn(p) /\ (SameTurn(s) \/ Ahead(s) \/ Ahead(p))
      /\ SameTurn(s) => Portion(s) /\ Portion(p)
  BY <1>1, TurnSides
<1> HIDE DEF a, b
<1>3. /\ Ahead(s) => ~Ahead(p) /\ ~SameTurn(s) /\ ~SameTurn(p)
      /\ Ahead(p) => ~Ahead(s) /\ ~SameTurn(s) /\ ~SameTurn(p)
      /\ SameTurn(s) => ~Ahead(s) /\ ~Ahead(p) /\ SameTurn(p)
  BY <1>2
<1>4. /\ Ahead(s) => EndQueued(p) \/ Lingers(p)
      /\ Ahead(p) => EndQueued(s) \/ Lingers(s)
      /\ SameTurn(s) /\ EndQueued(s) => Lingers(p)
      /\ SameTurn(p) /\ EndQueued(p) => Lingers(s)
      /\ Lingers(p) => Ahead(s) \/ (SameTurn(s) /\ EndQueued(s))
      /\ Lingers(s) => Ahead(p) \/ (SameTurn(p) /\ EndQueued(p))
      /\ Ahead(s) /\ pc[s] = "acksend" => Fresh(s)
      /\ Ahead(p) /\ pc[p] = "acksend" => Fresh(p)
  BY <1>1, <1>2 DEF Turn
<1>5. CASE SameTurn(s)
  BY <1>2, <1>3, <1>4, <1>5 DEF a, b
<1>6. CASE Ahead(s)
  BY <1>2, <1>3, <1>4, <1>6 DEF a, b
<1>7. CASE Ahead(p)
  BY <1>2, <1>3, <1>4, <1>7 DEF a, b
<1> QED BY <1>2, <1>5, <1>6, <1>7

\* And where they are after a step of s.
LEMMA TurnsTogether ==
  ASSUME IInv, NEW s \in Socket, NEW p, p = Peer[s], Step(s),
         CallsMade(s)' \in {CallsMade(s), CallsMade(s) + 1},
         ~isClosing'[s] => Buffered(s)',
         ~isClosing'[s] /\ ~isClosing[p] =>
           \/ /\ CallsMade(s)' = CallsMade(p)
              /\ (EndQueued(s)' <=> Lingers(p)) /\ (EndQueued(p)' <=> Lingers(s)')
              /\ Portion(s)' /\ Portion(p)'
           \/ /\ CallsMade(s)' = CallsMade(p) + 1
              /\ EndQueued(p)' \/ Lingers(p)
              /\ pc'[s] = "acksend" => Fresh(s)'
              /\ ~Lingers(s)'
           \/ /\ CallsMade(p) = CallsMade(s)' + 1
              /\ EndQueued(s)' \/ Lingers(s)'
              /\ pc[p] = "acksend" => Fresh(p)'
              /\ ~Lingers(p)
  PROVE  Turned(s)
<1>1. /\ p \in Socket /\ p # s /\ s = Peer[p]
      /\ CallsMade(p)' = CallsMade(p) /\ CallsMade(p) \in Nat /\ CallsMade(s) \in Nat
      /\ pc'[p] = pc[p] /\ (Lingers(p)' <=> Lingers(p))
  BY PeerTurn DEF Rests
<1> DEFINE a == CallsMade(s)'
           b == CallsMade(p)'
<1>2. a \in Nat /\ b \in Nat /\ b = CallsMade(p)
  BY <1>1
<1>3. /\ SameTurn(s)' <=> a = b
      /\ SameTurn(p)' <=> a = b
      /\ Ahead(s)' <=> a = b + 1
      /\ Ahead(p)' <=> b = a + 1
  BY <1>1 DEF SameTurn, Ahead
<1>4. /\ Turn(s)' <=>
           /\ a <= b + 1
           /\ Ahead(s)' => EndQueued(p)' \/ Lingers(p)'
           /\ SameTurn(s)' /\ EndQueued(s)' => Lingers(p)'
           /\ Lingers(p)' => Ahead(s)' \/ (SameTurn(s)' /\ EndQueued(s)')
           /\ Ahead(s)' /\ pc'[s] = "acksend" => Fresh(s)'
      /\ Turn(p)' <=>
           /\ b <= a + 1
           /\ Ahead(p)' => EndQueued(s)' \/ Lingers(s)'
           /\ SameTurn(p)' /\ EndQueued(p)' => Lingers(s)'
           /\ Lingers(s)' => Ahead(p)' \/ (SameTurn(p)' /\ EndQueued(p)')
           /\ Ahead(p)' /\ pc'[p] = "acksend" => Fresh(p)'
  BY <1>1 DEF Turn
<1> HIDE DEF a, b
<1>5. /\ Ahead(s)' => ~Ahead(p)' /\ ~SameTurn(s)' /\ ~SameTurn(p)'
      /\ Ahead(p)' => ~Ahead(s)' /\ ~SameTurn(s)' /\ ~SameTurn(p)'
      /\ SameTurn(s)' => ~Ahead(s)' /\ ~Ahead(p)' /\ SameTurn(p)'
      /\ SameTurn(s)' \/ Ahead(s)' \/ Ahead(p)' => a <= b + 1 /\ b <= a + 1
  BY <1>2, <1>3
<1> SUFFICES ASSUME ~isClosing'[s], ~isClosing[p]
             PROVE  Turn(s)' /\ Turn(p)' /\ (SameTurn(s)' => Portion(s)' /\ Portion(p)')
  BY TurnsAssemble
<1>6. \/ /\ SameTurn(s)'
         /\ (EndQueued(s)' <=> Lingers(p)') /\ (EndQueued(p)' <=> Lingers(s)')
         /\ Portion(s)' /\ Portion(p)'
      \/ /\ Ahead(s)'
         /\ EndQueued(p)' \/ Lingers(p)'
         /\ pc'[s] = "acksend" => Fresh(s)'
         /\ ~Lingers(s)'
      \/ /\ Ahead(p)'
         /\ EndQueued(s)' \/ Lingers(s)'
         /\ pc'[p] = "acksend" => Fresh(p)'
         /\ ~Lingers(p)'
  BY <1>1, <1>2, <1>3 DEF a
<1> QED BY <1>4, <1>5, <1>6

\* A step that leaves s where it was, but for its queue.
LEMMA RestsTurned ==
  ASSUME IInv, NEW s \in Socket, Step(s), Rests(s)
  PROVE  Turned(s)
<1> DEFINE p == Peer[s]
<1>1. /\ p \in Socket /\ p # s /\ s = Peer[p] /\ Rests(p)
      /\ CallsMade(s)' = CallsMade(s) /\ CallsMade(p)' = CallsMade(p)
      /\ EndQueued(p)' <=> EndQueued(p)
      /\ Fresh(p)' <=> Fresh(p)
      /\ StillToCome(s)' = StillToCome(s)
  BY PeerTurn DEF Rests
<1>2. /\ AllQueued(s)' <=> AllQueued(s)
      /\ pc'[s] = pc[s] /\ isClosing'[s] = isClosing[s]
  BY <1>1 DEF AllQueued, Rests
<1>3. /\ EndQueued(s)' <=> EndQueued(s)
      /\ Fresh(s)' <=> Fresh(s)
      /\ Lingers(s)' <=> Lingers(s)
      /\ StillToCome(p)' = StillToCome(p)
      /\ Buffered(s)' <=> Buffered(s)
  BY <1>1, <1>2 DEF EndQueued, Fresh, Lingers, StillToCome, Buffered, Rests
<1>4. /\ Portion(s)' <=> Portion(s)
      /\ Portion(p)' <=> Portion(p)
  BY <1>1, <1>2, <1>3 DEF Portion, Rests
<1>5. ~isClosing[s] => Buffered(s)
  BY TurnSides
<1>6. ~isClosing[s] /\ ~isClosing[p] =>
        \/ /\ CallsMade(s) = CallsMade(p)
           /\ (EndQueued(s) <=> Lingers(p)) /\ (EndQueued(p) <=> Lingers(s))
           /\ Portion(s) /\ Portion(p)
        \/ /\ CallsMade(s) = CallsMade(p) + 1
           /\ EndQueued(p) \/ Lingers(p)
           /\ pc[s] = "acksend" => Fresh(s)
           /\ ~Lingers(s)
        \/ /\ CallsMade(p) = CallsMade(s) + 1
           /\ EndQueued(s) \/ Lingers(s)
           /\ pc[p] = "acksend" => Fresh(p)
           /\ ~Lingers(p)
  BY TurnCases
<1> QED BY <1>1, <1>2, <1>3, <1>4, <1>5, <1>6, TurnsTogether

\* A step to or from recv() or finalizeRecv() without bytes in the buffer.
LEMMA EmptyTurned ==
  ASSUME IInv, NEW s \in Socket, Step(s), NoBytes(buffer[s]),
         script[s] # << >>, Head(script[s]).op = "recv",
         pc[s] # "acksend", pc'[s] \in {"recv", "finalize"}, pc'[s] = "recv" => recvSeqnum'[s] = 0,
         isClosing'[s] = isClosing[s], script'[s] = script[s], buffer'[s] = buffer[s],
         accepted'[s] = accepted[s]
  PROVE  Turned(s)
<1> DEFINE p == Peer[s]
<1>1. /\ p \in Socket /\ p # s /\ s = Peer[p] /\ Rests(p)
      /\ CallsMade(s)' = CallsMade(s) /\ CallsMade(p)' = CallsMade(p)
      /\ EndQueued(p)' <=> EndQueued(p)
      /\ Fresh(p)' <=> Fresh(p)
      /\ StillToCome(s)' = StillToCome(s)
  BY PeerTurn
<1>2. /\ ~EndQueued(s) /\ ~EndQueued(s)' /\ ~Lingers(s) /\ ~Lingers(s)' /\ pc'[s] # "acksend"
  BY DEF EndQueued, Lingers
<1>3. Portion(p)' /\ (Portion(s)' <=> Portion(s))
  BY <1>1, <1>2 DEF Portion, Rests
<1>4. Buffered(s)'
  <2>1. buffer[s] \in Seq(Cell) /\ buffer'[s] \in Seq(Cell)
    BY DEF IInv, TypeInv, TypeOK
  <2>2. Len(Unread(buffer'[s])) = 0 /\ OneRun(buffer'[s])
    BY <2>1, UnreadLength
  <2>3. pc'[s] = "finalize" => Len(Unread(buffer'[s])) <= Head(script'[s]).max
    <3>1. Head(script[s]).max \in Nat
      BY CallTypes DEF IInv, TypeInv, TypeOK
    <3> QED BY <2>2, <3>1
  <2> QED BY <2>1, <2>2, <2>3 DEF Buffered
<1>5. ~isClosing[s] /\ ~isClosing[p] =>
        \/ /\ CallsMade(s) = CallsMade(p)
           /\ (EndQueued(s) <=> Lingers(p)) /\ (EndQueued(p) <=> Lingers(s))
           /\ Portion(s) /\ Portion(p)
        \/ /\ CallsMade(s) = CallsMade(p) + 1
           /\ EndQueued(p) \/ Lingers(p)
           /\ pc[s] = "acksend" => Fresh(s)
           /\ ~Lingers(s)
        \/ /\ CallsMade(p) = CallsMade(s) + 1
           /\ EndQueued(s) \/ Lingers(s)
           /\ pc[p] = "acksend" => Fresh(p)
           /\ ~Lingers(p)
  BY TurnCases
<1> QED BY <1>1, <1>2, <1>3, <1>4, <1>5, TurnsTogether

\* A send() begins while its peer's recv() has yet to begin, or waits for it, or lingers
\* after the one before.
LEMMA CallSendTurned ==
  ASSUME IInv, NEW s \in Socket, Step(s), NEW fate \in Fate, CallSend(s, fate)
  PROVE  Turned(s)
<1> DEFINE p == Peer[s]
           bytes == Head(script[s]).data
<1>1. /\ p \in Socket /\ p # s /\ s = Peer[p] /\ Rests(p)
      /\ accepted'[s] = accepted[s] =>
           /\ EndQueued(p)' <=> EndQueued(p)
           /\ Fresh(p)' <=> Fresh(p)
           /\ StillToCome(s)' = StillToCome(s)
      /\ script'[s] = script[s] => CallsMade(s)' = CallsMade(s)
  BY PeerTurn
<1>2. /\ script[s] # << >> /\ Head(script[s]).op = "send" /\ pc[s] = "idle" /\ ~isClosing[s]
      /\ StartAcksend(s, 0, bytes, inbox, fate)
      /\ pc' = [pc EXCEPT ![s] = "acksend"]
      /\ UNCHANGED <<script, isClosing, recvSeqnum, buffer, accepted>>
  BY DEF CallSend, Calls, recvVars
<1>3. pc'[s] = "acksend" /\ sendSeqnum'[s] = 0 /\ unsent'[s] = bytes /\ ~AllQueued(s)'
  <2>1. pc'[s] = "acksend" /\ sendSeqnum'[s] = 0 /\ unsent'[s] = bytes
    BY <1>2 DEF StartAcksend, IInv, TypeInv, TypeOK
  <2>2. offered'[s] = Append(offered[s], MsgFor(0, bytes))
    BY <1>2 DEF StartAcksend, IInv, TypeInv, TypeOK
  <2>3. offered[s] \in Seq(Message) /\ Len(offered[s]) \in Nat /\ Len(accepted[p]) <= Len(offered[s])
        /\ Len(accepted[p]) \in Nat
    BY Histories
  <2>4. bytes \in Seq(Byte) /\ 0 \in Seqnum
    BY <1>2, SendCall
  <2>5. Len(offered'[s]) = Len(offered[s]) + 1
    BY <2>2, <2>3, <2>4, MessageTypes, AppendProperties
  <2> QED BY <1>2, <2>1, <2>3, <2>5 DEF AllQueued
<1>4. Fresh(s)' /\ ~EndQueued(s)' /\ ~Lingers(s)'
  BY <1>2, <1>3 DEF Fresh, EndQueued, Lingers
<1>5. ~EndQueued(s) /\ ~Lingers(s)
  BY <1>2 DEF EndQueued, Lingers
<1>6. Buffered(s) /\ NoBytes(buffer[s])
  BY <1>2, TurnSides DEF Buffered
<1>7. Buffered(s)'
  BY <1>2, <1>3, <1>6 DEF Buffered
<1>8. ASSUME ~isClosing[p], CallsMade(s) = CallsMade(p)
      PROVE  pc[p] # "acksend"
  <2>1. SameTurn(s)
    BY <1>1, <1>8 DEF SameTurn
  <2>2. pc[p] = "acksend" => script[p] # << >> /\ Head(script[p]).op = "send"
    BY <1>1, CallsFit
  <2>3. script[p] # << >> => Fit(Head(script[s]), Head(script[p])) \/ Fit(Head(script[p]), Head(script[s]))
    BY <1>2, <2>1, CallsFit
  <2> QED BY <1>2, <2>2, <2>3 DEF Fit, Fills
<1>9. ASSUME ~isClosing[p], CallsMade(s) = CallsMade(p), ~Lingers(p)
      PROVE  Portion(s)' /\ Portion(p)'
  <2>1. Portion(s)'
    BY <1>1, <1>8, <1>9 DEF Portion, Rests
  <2>2. NoBytes(buffer[p])
    <3>1. CASE pc[p] = "recv"
      <4>1. recvSeqnum[p] = NextNumber(accepted[p])
        BY <1>1, <1>9, <3>1, OpenSocket
      <4>2. accepted[p] = offered[s] /\ NextNumber(offered[s]) = 0
        BY <1>2, OpenSocket
      <4> QED BY <1>1, <1>9, <3>1, <4>1, <4>2, TurnSides DEF Buffered
    <3>2. CASE pc[p] = "finalize"
      BY <1>9, <3>2 DEF Lingers
    <3>3. CASE pc[p] \in {"idle", "acksend"}
      BY <1>1, <1>9, <3>3, TurnSides DEF Buffered
    <3>4. pc[p] # "gone"
      BY <1>1, <1>9 DEF IInv, TurnsInv, Transfers, ClosedAtEnd
    <3>5. pc[p] \in Place
      BY <1>1 DEF IInv, TypeInv, TypeOK
    <3> QED BY <3>1, <3>2, <3>3, <3>4, <3>5 DEF Place
  <2>3. Len(Unread(buffer[p])) = 0
    <3>1. buffer[p] \in Seq(Cell)
      BY <1>1 DEF IInv, TypeInv, TypeOK
    <3> QED BY <2>2, <3>1, UnreadLength
  <2>4. Len(bytes) \in Nat
    BY <1>2, SendCall, LenProperties
  <2>5. StillToCome(p)' = Len(bytes) /\ buffer'[p] = buffer[p] /\ Head(script'[s]).data = bytes
    BY <1>1, <1>2, <1>3 DEF StillToCome, Rests
  <2>6. Len(Unread(buffer'[p])) + StillToCome(p)' = Len(Head(script'[s]).data)
    <3>1. Len(Unread(buffer'[p])) = 0 /\ Len(Head(script'[s]).data) = Len(bytes)
      BY <2>3, <2>5
    <3> HIDE DEF bytes
    <3> QED BY <2>4, <2>5, <3>1
  <2>7. Portion(p)'
    BY <1>1, <2>6 DEF Portion
  <2> QED BY <2>1, <2>7
<1>10. ~isClosing[p] =>
        \/ /\ CallsMade(s) = CallsMade(p)
           /\ (EndQueued(s) <=> Lingers(p)) /\ (EndQueued(p) <=> Lingers(s))
        \/ /\ CallsMade(s) = CallsMade(p) + 1
           /\ EndQueued(p) \/ Lingers(p)
        \/ /\ CallsMade(p) = CallsMade(s) + 1
           /\ EndQueued(s) \/ Lingers(s)
  BY <1>2, TurnCases
<1> HIDE DEF bytes
<1>11. /\ EndQueued(p)' <=> EndQueued(p)
       /\ CallsMade(s)' = CallsMade(s)
  BY <1>1, <1>2
<1> QED BY <1>4, <1>5, <1>7, <1>9, <1>10, <1>11, TurnsTogether

\* send() goes on, and the peer's recv() waits for the rest.
LEMMA AcksendNextTurned ==
  ASSUME IInv, NEW s \in Socket, Step(s), NEW fate \in Fate,
         NEW i \in DOMAIN inbox[s], AcksendNext(s, i, fate)
  PROVE  Turned(s)
<1> DEFINE p == Peer[s]
<1>1. /\ p \in Socket /\ p # s /\ s = Peer[p] /\ Rests(p)
      /\ accepted'[s] = accepted[s] =>
           /\ AllQueued(p)' <=> AllQueued(p)
           /\ EndQueued(p)' <=> EndQueued(p)
           /\ Fresh(p)' <=> Fresh(p)
           /\ StillToCome(s)' = StillToCome(s)
      /\ script'[s] = script[s] => CallsMade(s)' = CallsMade(s)
  BY PeerTurn
<1>2. /\ pc[s] = "acksend" /\ unsent[s] # << >> /\ MayArrive(s, i)
      /\ Answers(inbox[s][i], Current(s)) /\ ~HasFlag(inbox[s][i], "FIN")
      /\ StartAcksend(s, Succ(sendSeqnum[s]), Rest(unsent[s]), Without(s, i), fate)
      /\ UNCHANGED <<script, pc, isClosing, recvSeqnum, buffer, accepted>>
  BY DEF AcksendNext, recvVars
<1>3. AllQueued(s) /\ ~isClosing[s] /\ Buffered(s)
  BY <1>2, AnswerSeen, OpenSocket, TurnSides
<1>4. unsent'[s] = Rest(unsent[s]) /\ ~AllQueued(s)'
  <2> DEFINE m == MsgFor(Succ(sendSeqnum[s]), Rest(unsent[s]))
  <2>1. unsent'[s] = Rest(unsent[s]) /\ offered'[s] = Append(offered[s], m)
    BY <1>2 DEF StartAcksend, IInv, TypeInv, TypeOK
  <2>2. offered[s] \in Seq(Message) /\ Len(offered[s]) \in Nat /\ Len(accepted[p]) = Len(offered[s])
    BY <1>3, Histories
  <2>3. m \in Message
    BY SeqnumStep, ChunkTypes, MessageTypes DEF IInv, TypeInv, TypeOK
  <2> HIDE DEF m
  <2>4. Len(offered'[s]) = Len(offered[s]) + 1
    BY <2>1, <2>2, <2>3, AppendProperties
  <2> QED BY <1>2, <2>1, <2>2, <2>4 DEF AllQueued
<1>5. /\ ~EndQueued(s) /\ ~EndQueued(s)' /\ ~Lingers(s) /\ ~Lingers(s)' /\ ~Fresh(s)
  BY <1>2, <1>3, <1>4 DEF EndQueued, Lingers, Fresh
<1>6. Buffered(s)'
  BY <1>2, <1>3 DEF Buffered
<1>7. StillToCome(p)' = StillToCome(p)
  BY <1>1, <1>3, <1>4 DEF StillToCome
<1>8. /\ Portion(s)' <=> Portion(s)
      /\ Portion(p)' <=> Portion(p)
  BY <1>1, <1>2, <1>7 DEF Portion, Rests
<1>9. ~isClosing[p] =>
        /\ CallsMade(s) = CallsMade(p)
        /\ (EndQueued(s) <=> Lingers(p)) /\ (EndQueued(p) <=> Lingers(s))
        /\ Portion(s) /\ Portion(p)
  BY <1>2, <1>3, <1>5, TurnCases
<1> QED BY <1>1, <1>2, <1>5, <1>6, <1>8, <1>9, TurnsTogether

\* send() returns: s is then a call ahead of a recv() that lingers, or again at the
\* same turn as a peer that has been ahead of it.
LEMMA AcksendDoneTurned ==
  ASSUME IInv, NEW s \in Socket, Step(s), NEW i \in DOMAIN inbox[s], AcksendDone(s, i)
  PROVE  Turned(s)
<1> DEFINE p == Peer[s]
<1>1. /\ p \in Socket /\ p # s /\ s = Peer[p] /\ Rests(p)
      /\ accepted'[s] = accepted[s] =>
           /\ AllQueued(p)' <=> AllQueued(p)
           /\ EndQueued(p)' <=> EndQueued(p)
           /\ Fresh(p)' <=> Fresh(p)
           /\ StillToCome(s)' = StillToCome(s)
      /\ script[s] # << >> /\ script'[s] = Tail(script[s]) => CallsMade(s)' = CallsMade(s) + 1
      /\ CallsMade(s) \in Nat /\ CallsMade(p) \in Nat
  BY PeerTurn
<1>2. /\ pc[s] = "acksend" /\ unsent[s] = << >> /\ MayArrive(s, i)
      /\ Answers(inbox[s][i], Current(s)) /\ ~HasFlag(inbox[s][i], "FIN")
      /\ pc' = [pc EXCEPT ![s] = "idle"]
      /\ script' = [script EXCEPT ![s] = Tail(@)]
      /\ UNCHANGED <<isClosing, recvSeqnum, buffer, accepted>>
  BY DEF AcksendDone, Return, recvVars
<1>3. pc'[s] = "idle" /\ script'[s] = Tail(script[s]) /\ script[s] # << >>
  BY <1>2, CallsFit DEF IInv, TypeInv, TypeOK
<1>4. AllQueued(s) /\ ~isClosing[s] /\ Buffered(s)
  BY <1>2, AnswerSeen, OpenSocket, TurnSides
<1>5. /\ EndQueued(s) /\ ~EndQueued(s)' /\ ~Lingers(s) /\ ~Lingers(s)' /\ ~Fresh(s)
  BY <1>2, <1>3, <1>4 DEF EndQueued, Lingers, Fresh
<1>6. NoBytes(buffer[s])
  BY <1>2, <1>4 DEF Buffered
<1>7. Buffered(s)'
  BY <1>2, <1>3, <1>4, <1>6 DEF Buffered
<1>8. pc[p] = "acksend" /\ Fresh(p) => ~EndQueued(p)
  BY DEF Fresh, EndQueued
<1>9. pc[p] # "acksend" => ~EndQueued(p)
  BY DEF EndQueued
<1>10. Portion(p)'
  BY <1>1, <1>3 DEF Portion
<1>11. (pc[p] = "acksend" => Fresh(p)) => Portion(s)'
  <2> SUFFICES ASSUME pc[p] = "acksend", Fresh(p)  PROVE Portion(s)'
    BY <1>1 DEF Portion, Rests
  <2>1. Len(Unread(buffer[s])) = 0
    <3>1. buffer[s] \in Seq(Cell)
      BY DEF IInv, TypeInv, TypeOK
    <3> QED BY <1>6, <3>1, UnreadLength
  <2>2. StillToCome(s)' = Len(Head(script[p]).data)
    BY <1>1, <1>2 DEF StillToCome, Fresh
  <2>3. Len(unsent[p]) \in Nat /\ unsent[p] = Head(script[p]).data
    BY <1>1, LenProperties DEF Fresh, IInv, TypeInv, TypeOK
  <2>4. buffer'[s] = buffer[s] /\ script'[p] = script[p]
    BY <1>1, <1>2 DEF Rests
  <2> DEFINE l == Len(unsent[p])
  <2>5. Len(Unread(buffer'[s])) = 0 /\ Len(Head(script'[p]).data) = l /\ StillToCome(s)' = l /\ l \in Nat
    BY <2>1, <2>2, <2>3, <2>4
  <2> HIDE DEF l
  <2>6. Len(Unread(buffer'[s])) + StillToCome(s)' = Len(Head(script'[p]).data)
    BY <2>5
  <2> QED BY <2>6 DEF Portion
<1>12. ~isClosing[p] =>
        \/ /\ CallsMade(s) = CallsMade(p)
           /\ Lingers(p) /\ ~EndQueued(p)
        \/ /\ CallsMade(p) = CallsMade(s) + 1
           /\ pc[p] = "acksend" => Fresh(p)
           /\ ~Lingers(p)
  BY <1>2, <1>4, <1>5, TurnCases
<1> QED BY <1>1, <1>2, <1>3, <1>5, <1>7, <1>8, <1>9, <1>10, <1>11, <1>12, TurnsTogether

\* recv() queues a message: of a send() at the same turn, for which it has room; with
\* the EOS of it recv() begins to linger.
LEMMA RecvAcceptTurned ==
  ASSUME IInv, NEW s \in Socket, Step(s), NEW fate \in Fate,
         NEW i \in DOMAIN inbox[s], RecvAccept(s, i, fate)
  PROVE  Turned(s)
<1> DEFINE p == Peer[s]
           d == inbox[s][i]
           m == Current(p)
           k == recvSeqnum[s]
           b == buffer[s]
           q == QueueMessage(b, m)
<1>1. /\ p \in Socket /\ p # s /\ s = Peer[p] /\ Rests(p)
      /\ script'[s] = script[s] => CallsMade(s)' = CallsMade(s)
  BY PeerTurn
<1>2. /\ pc[s] = "recv" /\ MayArrive(s, i) /\ Expected(s, d) /\ ~HasFlag(d, "FIN")
      /\ buffer' = [buffer EXCEPT ![s] = QueueMessage(@, d.msg)]
      /\ recvSeqnum' = [recvSeqnum EXCEPT ![s] = Succ(@)]
      /\ accepted' = [accepted EXCEPT ![s] = Append(@, d.msg)]
      /\ Acknowledge(s, i, k, fate)
      /\ UNCHANGED <<script, isClosing>>
  BY DEF RecvAccept
<1>3. ~AllQueued(p) /\ d.msg = m /\ m.seqnum = k /\ d.msg = offered[p][Len(offered[p])]
  BY <1>2, ExpectedIsNext
<1>4. ~isClosing[s] /\ ~isClosing[p] /\ pc[p] = "acksend" /\ Buffered(s)
  BY <1>2, <1>3, OpenSocket, PeerSends, TurnSides
<1>5. /\ sendSeqnum[p] \in Seqnum /\ unsent[p] \in Seq(Byte)
      /\ SendPlace(sendSeqnum[p], unsent[p]) /\ FinSeqnum > 0
      /\ b \in Seq(Cell) /\ k \in Seqnum
  BY <1>1, <1>4, OpenSocket, Pair DEF IInv, TypeInv, TypeOK
<1>6. /\ m \in Message /\ WellFormed(m) /\ m.flags \in {"NONE", "EOS"}
      /\ m.flags = "EOS" <=> unsent[p] = << >>
  <2>1. m \in Message /\ WellFormed(m)
    BY <1>5, MessageTypes, MsgForWellFormed DEF Current
  <2>2. m.flags = "EOS" <=> unsent[p] = << >>
    <3>1. CASE unsent[p] = << >>
      BY <3>1 DEF Current, MsgFor, ControlMsg
    <3>2. CASE unsent[p] # << >>
      BY <3>2 DEF Current, MsgFor, DataMsg
    <3> QED BY <3>1, <3>2
  <2> QED BY <2>1, <2>2 DEF WellFormed
<1>7. /\ buffer'[s] = q /\ recvSeqnum'[s] = Succ(k)
      /\ pc'[s] = IF m.flags = "EOS" THEN "finalize" ELSE "recv"
  <2>1. HasFlag(d, "EOS") <=> m.flags = "EOS"
    BY <1>2, <1>3 DEF HasFlag, Expected
  <2>2. pc'[s] = IF m.flags = "EOS" THEN "finalize" ELSE "recv"
    <3>1. pc \in [Socket -> Place] /\ pc[s] = "recv"
      BY <1>2 DEF IInv, TypeInv, TypeOK
    <3>2. pc' = IF m.flags = "EOS" THEN [pc EXCEPT ![s] = "finalize"] ELSE pc
      BY <1>2, <2>1 DEF Acknowledge
    <3> HIDE DEF m
    <3> QED BY <3>1, <3>2
  <2>3. buffer \in [Socket -> Seq(Cell)] /\ recvSeqnum \in [Socket -> Seqnum]
    BY DEF IInv, TypeInv, TypeOK
  <2>4. buffer'[s] = q /\ recvSeqnum'[s] = Succ(k)
    BY <1>2, <1>3, <2>3
  <2> QED BY <2>2, <2>4
<1>8. AllQueued(p)'
  <2>1. /\ Len(accepted[s]) = Len(offered[p]) - 1 /\ Len(offered[p]) \in Nat
        /\ accepted[s] \in Seq(Message)
    BY <1>1, <1>3, Histories
  <2>2. accepted'[s] = Append(accepted[s], m)
    BY <1>2, <1>3 DEF IInv, TypeInv, TypeOK
  <2>3. Len(accepted'[s]) = Len(offered[p])
    BY <1>6, <2>1, <2>2, AppendProperties
  <2> QED BY <1>1, <2>3 DEF AllQueued, Rests
<1>9. /\ ~EndQueued(p) /\ ~EndQueued(s) /\ ~Lingers(p) /\ ~Lingers(s) /\ ~EndQueued(s)'
      /\ EndQueued(p)' <=> m.flags = "EOS"
  <2>1. EndQueued(p)' <=> unsent[p] = << >>
    BY <1>1, <1>4, <1>8 DEF EndQueued, Rests
  <2>2. pc'[s] # "acksend"
    BY <1>7
  <2> QED BY <1>2, <1>3, <1>4, <1>6, <2>1, <2>2 DEF EndQueued, Lingers
<1>10. CallsMade(s) = CallsMade(p) /\ Portion(s)
  BY <1>4, <1>9, TurnCases
<1>11. /\ script[s] # << >> /\ Head(script[s]).op = "recv" /\ script[p] # << >>
       /\ Head(script[p]).op = "send" /\ Len(Head(script[p]).data) <= Head(script[s]).max
       /\ Head(script[s]).max \in Nat
  <2>1. /\ script[s] # << >> /\ Head(script[s]).op = "recv" /\ script[p] # << >>
        /\ Head(script[p]).op = "send"
    BY <1>1, <1>2, <1>4, CallsFit
  <2>2. Fit(Head(script[s]), Head(script[p])) \/ Fit(Head(script[p]), Head(script[s]))
    BY <1>10, <2>1, CallsFit DEF SameTurn
  <2>3. Head(script[s]).max \in Nat
    BY <2>1, CallTypes DEF IInv, TypeInv, TypeOK
  <2> QED BY <2>1, <2>2, <2>3 DEF Fit, Fills
<1>12. /\ b # << >> => b \in Seq(Cell)
       /\ k = 0 => NoBytes(b)
       /\ k # 0 => b # << >> /\ b[Len(b)] # Mark
       /\ OneRun(b)
  BY <1>2, <1>4, <1>5 DEF Buffered
<1>13. m.flags = "EOS" => ~NoBytes(b)
  <2> SUFFICES ASSUME m.flags = "EOS"  PROVE ~NoBytes(b)
    OBVIOUS
  <2>1. k # 0
    BY <1>3, <1>6 DEF WellFormed
  <2>2. Len(b) \in 1 .. Len(b)
    BY <1>5, <1>12, <2>1, EmptySeq, LenProperties
  <2> QED BY <1>12, <2>1, <2>2 DEF NoBytes
<1>14. /\ q \in Seq(Cell) /\ OneRun(q)
       /\ Len(Unread(q)) = Len(Unread(b)) + Len(m.data)
       /\ m.flags = "NONE" => q # << >> /\ q[Len(q)] # Mark
       /\ m.flags = "EOS" => ~NoBytes(q)
  BY <1>5, <1>6, <1>12, <1>13, QueueRun
<1>15. /\ Len(m.data) \in Nat /\ Len(Rest(unsent[p])) \in Nat /\ Len(Unread(b)) \in Nat
       /\ Len(m.data) + Len(Rest(unsent[p])) = Len(unsent[p])
       /\ unsent[p] = << >> => Len(Rest(unsent[p])) = 0
  BY <1>5, MsgForLength, UnreadLength DEF Current
<1>16. Len(Unread(b)) + Len(unsent[p]) = Len(Head(script[p]).data)
  BY <1>3, <1>4, <1>10 DEF Portion, StillToCome
<1> HIDE DEF m, k, b, q, d
<1>17. Len(Unread(q)) + Len(Rest(unsent[p])) = Len(Head(script[p]).data)
  <2> DEFINE u == Len(Unread(b))
             x == Len(m.data)
             r == Len(Rest(unsent[p]))
             l == Len(unsent[p])
             t == Len(Head(script[p]).data)
  <2>1. u \in Nat /\ x \in Nat /\ r \in Nat /\ x + r = l /\ u + l = t /\ Len(Unread(q)) = u + x
    BY <1>14, <1>15, <1>16
  <2> HIDE DEF u, x, r, l, t
  <2>2. (u + x) + r = t
    BY <2>1
  <2> QED BY <2>1, <2>2 DEF r, t
<1>18. Portion(s)' /\ Portion(p)'
  <2>1. StillToCome(s)' = Len(Rest(unsent[p]))
    BY <1>1, <1>8 DEF StillToCome, Rests
  <2>2. Portion(s)'
    BY <1>1, <1>7, <1>17, <2>1 DEF Portion, Rests
  <2>3. Portion(p)'
    BY <1>1, <1>7 DEF Portion
  <2> QED BY <2>2, <2>3
<1>19. Lingers(s)' <=> m.flags = "EOS"
  BY <1>7, <1>14 DEF Lingers
<1>20. Buffered(s)'
  <2>1. CASE m.flags = "EOS"
    <3>1. Len(Unread(q)) = Len(Head(script[p]).data)
      <4> DEFINE x == Len(Unread(q))
                 r == Len(Rest(unsent[p]))
                 t == Len(Head(script[p]).data)
      <4>1. r = 0 /\ x + r = t
        BY <1>6, <1>15, <1>17, <2>1
      <4>2. x \in Nat
        BY <1>14, UnreadLength
      <4> HIDE DEF x, r, t
      <4>3. x = t
        BY <4>1, <4>2
      <4> QED BY <4>3 DEF x, t
    <3>2. Len(Unread(q)) <= Head(script[s]).max
      BY <1>11, <3>1
    <3> QED BY <1>2, <1>7, <1>14, <2>1, <3>2 DEF Buffered
  <2>2. CASE m.flags # "EOS"
    <3>1. Succ(k) # 0
      <4>1. k + 1 < FinSeqnum
        BY <1>3, <1>6, <2>2 DEF WellFormed
      <4> QED BY <1>5, <4>1, MsgAssumption DEF Succ, Seqnum
    <3> QED BY <1>6, <1>7, <1>14, <2>2, <3>1 DEF Buffered
  <2> QED BY <2>1, <2>2
<1> QED BY <1>1, <1>2, <1>9, <1>10, <1>18, <1>19, <1>20, TurnsTogether

\* recv() answers what it has not expected: if that is an EOS, it has no bytes.
LEMMA RecvRejectTurned ==
  ASSUME IInv, NEW s \in Socket, Step(s), NEW fate \in Fate,
         NEW i \in DOMAIN inbox[s], RecvReject(s, i, fate)
  PROVE  Turned(s)
<1> DEFINE d == inbox[s][i]
<1>1. /\ pc[s] = "recv" /\ MayArrive(s, i) /\ ~Expected(s, d)
      /\ IF HasFlag(d, "EOS") THEN pc' = [pc EXCEPT ![s] = "finalize"] ELSE UNCHANGED <<pc, finAck>>
      /\ UNCHANGED <<script, isClosing, sendSeqnum, unsent, offered, confirmed,
                     recvSeqnum, buffer, accepted>>
  BY DEF RecvReject, Acknowledge, sendVars
<1>2. CASE HasFlag(d, "EOS")
  <2>1. pc'[s] = "finalize"
    BY <1>1, <1>2 DEF IInv, TypeInv, TypeOK
  <2>2. recvSeqnum[s] = 0 /\ ~isClosing[s]
    BY <1>1, <1>2, RejectedEos, OpenSocket
  <2>3. NoBytes(buffer[s])
    BY <1>1, <2>2, TurnSides DEF Buffered
  <2>4. script[s] # << >> /\ Head(script[s]).op = "recv"
    BY <1>1, CallsFit
  <2> QED BY <1>1, <2>1, <2>3, <2>4, EmptyTurned
<1>3. CASE ~HasFlag(d, "EOS")
  <2>1. Rests(s)
    BY <1>1, <1>3 DEF Rests
  <2> QED BY <2>1, RestsTurned
<1> QED BY <1>2, <1>3

\* finalizeRecv() ends: its recv() starts over, or returns, and s is then a call ahead of
\* a send() that waits for the last answer, or again at the same turn as its peer.
LEMMA LeaveFinalizeTurned ==
  ASSUME IInv, NEW s \in Socket, Step(s), pc[s] = "finalize", ~isClosing[s], LeaveFinalize(s)
  PROVE  Turned(s)
<1> DEFINE p == Peer[s]
           n == Head(script[s]).max
<1>1. /\ p \in Socket /\ p # s /\ s = Peer[p] /\ Rests(p)
      /\ accepted'[s] = accepted[s] =>
           /\ AllQueued(p)' <=> AllQueued(p)
           /\ EndQueued(p)' <=> EndQueued(p)
           /\ Fresh(p)' <=> Fresh(p)
           /\ StillToCome(s)' = StillToCome(s)
      /\ script[s] # << >> /\ script'[s] = Tail(script[s]) => CallsMade(s)' = CallsMade(s) + 1
      /\ CallsMade(s) \in Nat /\ CallsMade(p) \in Nat
  BY PeerTurn
<1>2. script[s] # << >> /\ Head(script[s]).op = "recv" /\ n \in Nat
  BY CallsFit, CallTypes DEF IInv, TypeInv, TypeOK
<1>3. Buffered(s) /\ buffer[s] \in Seq(Cell)
  BY TurnSides DEF IInv, TypeInv, TypeOK
<1>4. CASE NoBytes(buffer[s])
  <2>1. pc'[s] = "recv" /\ recvSeqnum'[s] = 0
    BY <1>4 DEF LeaveFinalize, IInv, TypeInv, TypeOK
  <2>2. /\ isClosing'[s] = isClosing[s] /\ script'[s] = script[s]
        /\ buffer'[s] = buffer[s] /\ accepted'[s] = accepted[s]
    BY <1>4 DEF LeaveFinalize
  <2> QED BY <1>2, <1>4, <2>1, <2>2, EmptyTurned
<1>5. CASE ~NoBytes(buffer[s])
  <2>1. /\ pc'[s] = "idle" /\ script'[s] = Tail(script[s])
        /\ buffer'[s] = AfterRead(buffer[s], n)
        /\ isClosing'[s] = isClosing[s] /\ accepted'[s] = accepted[s]
    BY <1>5 DEF LeaveFinalize, ReturnRead, Return, IInv, TypeInv, TypeOK
  <2>2. n \in Nat \ {0} /\ Len(Unread(buffer[s])) <= n /\ OneRun(buffer[s])
    <3>1. Len(Unread(buffer[s])) <= n /\ OneRun(buffer[s])
      BY <1>3 DEF Buffered
    <3>2. Len(Unread(buffer[s])) \in Nat /\ Len(Unread(buffer[s])) # 0
      BY <1>3, <1>5, UnreadLength
    <3> HIDE DEF n
    <3> QED BY <1>2, <3>1, <3>2
  <2>3. AfterRead(buffer[s], n) \in Seq(Cell) /\ NoBytes(AfterRead(buffer[s], n))
    BY <1>3, <1>5, <2>2, ReadTakesAll
  <2>4. /\ buffer'[s] \in Seq(Cell) /\ NoBytes(buffer'[s])
        /\ OneRun(buffer'[s]) /\ Len(Unread(buffer'[s])) = 0
    BY <2>1, <2>3, UnreadLength
  <2>5. Buffered(s)'
    BY <2>1, <2>4 DEF Buffered
  <2>6. ~EndQueued(s)' /\ Lingers(s) /\ ~Lingers(s)'
    BY <1>5, <2>1 DEF EndQueued, Lingers
  <2>7. (pc[p] = "acksend" => Fresh(p)) => ~EndQueued(p)
    BY DEF Fresh, EndQueued
  <2>8. Portion(p)'
    BY <1>1, <2>1 DEF Portion
  <2>9. (pc[p] = "acksend" => Fresh(p)) => Portion(s)'
    <3> SUFFICES ASSUME pc[p] = "acksend", Fresh(p)  PROVE Portion(s)'
      BY <1>1 DEF Portion, Rests
    <3>1. StillToCome(s)' = Len(Head(script[p]).data)
      BY <1>1, <2>1 DEF StillToCome, Fresh
    <3>2. Len(unsent[p]) \in Nat /\ unsent[p] = Head(script[p]).data
      BY <1>1, LenProperties DEF Fresh, IInv, TypeInv, TypeOK
    <3>3. script'[p] = script[p]
      BY <1>1 DEF Rests
    <3> DEFINE l == Len(unsent[p])
    <3>4. Len(Head(script'[p]).data) = l /\ StillToCome(s)' = l /\ l \in Nat
      BY <3>1, <3>2, <3>3
    <3> HIDE DEF l
    <3>5. Len(Unread(buffer'[s])) + StillToCome(s)' = Len(Head(script'[p]).data)
      BY <2>4, <3>4
    <3> QED BY <3>5 DEF Portion
  <2>10. ~isClosing[p] =>
           \/ /\ CallsMade(s) = CallsMade(p)
              /\ EndQueued(p)
           \/ /\ CallsMade(p) = CallsMade(s) + 1
              /\ pc[p] = "acksend" => Fresh(p)
              /\ ~Lingers(p)
    BY <2>6, TurnCases
  <2> QED BY <1>1, <1>2, <2>1, <2>5, <2>6, <2>7, <2>8, <2>9, <2>10, TurnsTogether
<1> QED BY <1>4, <1>5

LEMMA QuietTurned ==
  ASSUME IInv, NEW s \in Socket, Step(s), QuietStep(s)
  PROVE  Turned(s)
<1>1. CASE SendOnClosing(s) \/ RecvOnClosing(s) \/ FinalizeSpin(s)
  <2>1. isClosing'[s]
    BY <1>1 DEF SendOnClosing, RecvOnClosing, FinalizeSpin, vars
  <2> QED BY <2>1, ClosedTurned
<1>2. CASE CallRecv(s)
  <2>1. /\ script[s] # << >> /\ Head(script[s]).op = "recv" /\ pc[s] = "idle" /\ ~isClosing[s]
        /\ pc'[s] = "recv" /\ recvSeqnum'[s] = 0
        /\ isClosing'[s] = isClosing[s] /\ script'[s] = script[s]
        /\ buffer'[s] = buffer[s] /\ accepted'[s] = accepted[s]
    BY <1>2 DEF CallRecv, Calls, IInv, TypeInv, TypeOK
  <2>2. NoBytes(buffer[s])
    BY <2>1, TurnSides DEF Buffered
  <2> QED BY <2>1, <2>2, EmptyTurned
<1>3. CASE RecvTimeout(s)
  <2>1. Rests(s)
    BY <1>3 DEF RecvTimeout, Rests, sendVars, recvVars
  <2> QED BY <2>1, RestsTurned
<1>4. CASE FinalizeTimeout(s)
  <2>1. pc[s] = "finalize" /\ ~isClosing[s] /\ LeaveFinalize(s)
    BY <1>4 DEF FinalizeTimeout, TimesOut
  <2> QED BY <2>1, LeaveFinalizeTurned
<1>5. ASSUME NEW i \in DOMAIN inbox[s], RecvIgnore(s, i)  PROVE Turned(s)
  <2>1. Rests(s)
    BY <1>5 DEF RecvIgnore, Rests, sendVars, recvVars
  <2> QED BY <2>1, RestsTurned
<1>6. ASSUME NEW i \in DOMAIN inbox[s], FinalizeLeave(s, i)  PROVE Turned(s)
  <2>1. MayArrive(s, i) /\ pc[s] = "finalize" /\ LeaveFinalize(s)
    BY <1>6 DEF FinalizeLeave
  <2>2. ~isClosing[s]
    BY <2>1, Arrival
  <2> QED BY <2>1, <2>2, LeaveFinalizeTurned
<1> QED BY <1>1, <1>2, <1>3, <1>4, <1>5, <1>6 DEF QuietStep

-----------------------------------------------------------------------------
(* All steps together *)

LEMMA TurnStep ==
  ASSUME IInv, NEW s \in Socket, Step(s)
  PROVE  Kept(s) /\ Turned(s)
<1>1. CASE QuietStep(s)
  BY <1>1, QuietKept, QuietTurned
<1>2. ASSUME NEW i \in DOMAIN inbox[s], AcksendDone(s, i)  PROVE Kept(s) /\ Turned(s)
  BY <1>2, AcksendDoneKept, AcksendDoneTurned
<1>3. ASSUME NEW fate \in Fate, SendStep(s, fate)  PROVE Kept(s) /\ Turned(s)
  <2>1. CASE CallSend(s, fate)
    BY <2>1, CallSendKept, CallSendTurned
  <2>2. CASE AcksendTimeout(s, fate) \/ \E i \in DOMAIN inbox[s] : AcksendAgain(s, i, fate)
    <3>1. Kept(s) /\ Rests(s)
      BY <2>2, AcksendRepeatKept
    <3> QED BY <3>1, RestsTurned
  <2>3. ASSUME NEW i \in DOMAIN inbox[s], AcksendNext(s, i, fate)  PROVE Kept(s) /\ Turned(s)
    BY <2>3, AcksendNextKept, AcksendNextTurned
  <2> QED BY <1>3, <2>1, <2>2, <2>3 DEF SendStep
<1>4. ASSUME NEW fate \in Fate, AnswerStep(s, fate)  PROVE Kept(s) /\ Turned(s)
  <2> SUFFICES ASSUME NEW i \in DOMAIN inbox[s],
                      RecvAccept(s, i, fate) \/ RecvReject(s, i, fate) \/ FinalizeAnswer(s, i, fate)
               PROVE  Kept(s) /\ Turned(s)
    BY <1>4 DEF AnswerStep
  <2>1. CASE RecvAccept(s, i, fate)
    BY <2>1, RecvAcceptKept, RecvAcceptTurned
  <2>2. CASE RecvReject(s, i, fate)
    BY <2>2, RecvRejectKept, RecvRejectTurned
  <2>3. CASE FinalizeAnswer(s, i, fate)
    <3>1. Kept(s) /\ Rests(s)
      BY <2>3, FinalizeAnswerKept
    <3> QED BY <3>1, RestsTurned
  <2> QED BY <2>1, <2>2, <2>3
<1>5. ASSUME NEW fate \in Fate, CloseStep(s, fate)  PROVE Kept(s) /\ Turned(s)
  <2>1. Kept(s) /\ isClosing'[s]
    BY <1>5, ClosesKept
  <2> QED BY <2>1, ClosedTurned
<1>6. SilentStep(s) => QuietStep(s) \/ \E i \in DOMAIN inbox[s] : AcksendDone(s, i)
  BY DEF SilentStep, QuietStep
<1> QED BY <1>1, <1>2, <1>3, <1>4, <1>5, <1>6 DEF Step

\* Two sockets joined to each other, before any call.
LEMMA TurnsInit == Init => TurnsInv
<1> SUFFICES ASSUME Init, NEW s \in Socket  PROVE Transfers(s) /\ TakesTurns(s)
  BY DEF TurnsInv
<1> DEFINE p == Peer[s]
<1>1. p \in Socket /\ p # s /\ s = Peer[p]
  BY Pair
<1>2. \A t \in Socket :
        /\ offered[t] = << >> /\ accepted[t] = << >> /\ confirmed[t] = 0
        /\ pc[t] = "idle" /\ inbox[t] = << >> /\ buffer[t] = << >> /\ ~isClosing[t]
        /\ endPoint[t] = Peer[t] /\ script[t] = Script[t]
  BY DEF Init, SocketInit
<1>3. Len(<< >>) = 0
  BY EmptySeq
<1>4. HandedOver(s)
  BY <1>1, <1>2, <1>3 DEF HandedOver, Stream
<1>5. SenderPlace(s) /\ ReceiverPlace(s)
  BY <1>2, <1>3 DEF SenderPlace, ReceiverPlace, NextNumber
<1>6. OnWay(s)
  BY <1>1, <1>2, <1>3 DEF OnWay, FinsOnWay, DataOnWay, AnswersOnWay, Apart
<1>7. Unmixed(s) /\ ClosedAtEnd(s)
  BY <1>1, <1>2, <1>3 DEF Unmixed, ClosedAtEnd, NextNumber, HasFin
<1>8. Buffered(s)
  BY <1>2, <1>3 DEF Buffered, NoBytes, OneRun
<1>9. Turn(s) /\ Portion(s)
  <2>1. \A t \in Socket : CallsMade(t) = 0
    <3> SUFFICES ASSUME NEW t \in Socket  PROVE CallsMade(t) = 0
      OBVIOUS
    <3>1. Len(Script[t]) \in Nat
      BY LinkAssumption, LenProperties
    <3> QED BY <1>2, <3>1 DEF CallsMade
  <2>2. ~Ahead(s)
    BY <1>1, <2>1 DEF Ahead
  <2>3. ~EndQueued(s) /\ ~Lingers(p)
    BY <1>1, <1>2 DEF EndQueued, Lingers
  <2> QED BY <1>1, <1>2, <2>1, <2>2, <2>3 DEF Turn, Portion
<1> QED BY <1>2, <1>4, <1>5, <1>6, <1>7, <1>8, <1>9 DEF Transfers, TakesTurns

\* No step of either socket leaves the invariant or breaks the handoff either way.
LEMMA TurnsNext ==
  IInv /\ [Next]_vars => IInv' /\ \A t \in Socket : HandsOver(t)
<1> SUFFICES ASSUME IInv, [Next]_vars  PROVE IInv' /\ \A t \in Socket : HandsOver(t)
  OBVIOUS
<1>1. TypeInv' /\ StreamInv'
  BY NextType, StreamNext DEF IInv
<1>2. ASSUME UNCHANGED vars  PROVE TurnsInv' /\ \A t \in Socket : HandsOver(t)
  <2> SUFFICES ASSUME NEW t \in Socket  PROVE Transfers(t)' /\ TakesTurns(t)' /\ HandsOver(t)
    BY DEF TurnsInv
  <2>1. UNCHANGED <<pc, isClosing, sendSeqnum, unsent, recvSeqnum, finAck, inbox, buffer, offered,
                    accepted, confirmed, script, endPoint>>
    BY <1>2 DEF vars, addrVars, sendVars, recvVars
  <2>2. HandedOver(t)' /\ HandsOver(t)
    BY <2>1, HistoriesStay DEF Stays
  <2>3. Rests(t) /\ Rests(Peer[t])
    BY <2>1 DEF Rests
  <2>4. SenderPlace(t)' /\ ReceiverPlace(t)'
    BY <2>3, PlacesStay
  <2>5. /\ endPoint[t] = Peer[t] /\ OnWay(t) /\ Unmixed(t) /\ ClosedAtEnd(t)
        /\ ~isClosing[t] => Buffered(t)
        /\ ~isClosing[t] /\ ~isClosing[Peer[t]] => Turn(t) /\ (SameTurn(t) => Portion(t))
    BY DEF IInv, TurnsInv, Transfers, TakesTurns
  <2>6. endPoint'[t] = Peer[t] /\ OnWay(t)'
    BY <2>1, <2>5 DEF OnWay
  <2>7. /\ \A u : AllQueued(u)' <=> AllQueued(u)
        /\ \A u : CallsMade(u)' = CallsMade(u)
    BY <2>1 DEF AllQueued, CallsMade
  <2>8. Unmixed(t)' /\ ClosedAtEnd(t)'
    BY <2>1, <2>5, <2>7 DEF Unmixed, ClosedAtEnd
  <2>9. /\ Buffered(t)' <=> Buffered(t)
        /\ \A u : EndQueued(u)' <=> EndQueued(u)
        /\ \A u : Lingers(u)' <=> Lingers(u)
        /\ \A u : Fresh(u)' <=> Fresh(u)
        /\ \A u : SameTurn(u)' <=> SameTurn(u)
        /\ \A u : Ahead(u)' <=> Ahead(u)
        /\ \A u : StillToCome(u)' = StillToCome(u)
    BY <2>1, <2>7 DEF Buffered, EndQueued, Lingers, Fresh, SameTurn, Ahead, StillToCome
  <2>10. /\ Turn(t)' <=> Turn(t)
         /\ Portion(t)' <=> Portion(t)
    BY <2>1, <2>7, <2>9 DEF Turn, Portion
  <2>11. TakesTurns(t)'
    BY <2>1, <2>5, <2>9, <2>10 DEF TakesTurns
  <2>12. Transfers(t)'
    BY <2>2, <2>4, <2>6, <2>8 DEF Transfers
  <2> QED BY <2>2, <2>11, <2>12
<1>3. ASSUME NEW s \in Socket, Step(s)  PROVE TurnsInv' /\ \A t \in Socket : HandsOver(t)
  <2>1. Kept(s) /\ Turned(s)
    BY <1>3, TurnStep
  <2>2. \A t \in Socket : t = s \/ t = Peer[s]
    BY Pair
  <2>3. \A t \in Socket : Transfers(t)' /\ TakesTurns(t)' /\ HandsOver(t)
    BY <2>1, <2>2 DEF Kept, Turned
  <2> QED BY <2>3 DEF TurnsInv
<1> QED BY <1>1, <1>2, <1>3 DEF Next, Terminating, IInv

-----------------------------------------------------------------------------
(* What applications that take turns may rely on *)

\* Over a path that keeps the order of datagrams, and as long as one application
\* receives where the other sends, with room for all of it, a connection stays within
\* TurnsInv, whichever of the two sends and however often that changes.
THEOREM TurnsInvariant == Spec => []TurnsInv
<1>1. Init => IInv
  BY InitType, StreamInit, TurnsInit DEF IInv
<1>2. IInv /\ [Next]_vars => IInv'
  BY TurnsNext
<1>3. IInv => TurnsInv
  BY DEF IInv
<1> QED BY <1>1, <1>2, <1>3, PTL DEF Spec

\* Either way, recv() queues exactly what send() handed to acksend(), in that order,
\* and acksend() takes no message for acknowledged that recv() has not queued.
THEOREM TurnsDelivery == Spec => [](InOrder /\ AckedIsAccepted)
<1>1. Init => IInv
  BY InitType, StreamInit, TurnsInit DEF IInv
<1>2. IInv /\ [Next]_vars => IInv'
  BY TurnsNext
<1>3. IInv => InOrder /\ AckedIsAccepted
  <2> SUFFICES ASSUME IInv, NEW s \in Socket
               PROVE  IsPrefix(accepted[Peer[s]], offered[s]) /\ confirmed[s] <= Len(accepted[Peer[s]])
    BY DEF InOrder, AckedIsAccepted
  <2> DEFINE off == offered[s]
             acc == accepted[Peer[s]]
             n == Len(acc)
  <2>1. /\ off \in Seq(Message) /\ acc \in Seq(Message) /\ n \in Nat /\ Len(off) \in Nat
        /\ n <= Len(off) /\ \A k \in 1 .. n : acc[k] = off[k]
        /\ confirmed[s] <= n
    BY Histories
  <2> HIDE DEF off, acc
  <2>2. \A k \in 1 .. n : acc[k] \in Message /\ off[k] \in Message
    BY <2>1, ElementOfSeq
  <2>3. /\ SubSeq(acc, 1, n) \in Seq(Message) /\ SubSeq(off, 1, n) \in Seq(Message)
        /\ Len(SubSeq(acc, 1, n)) = n /\ Len(SubSeq(off, 1, n)) = n
        /\ \A k \in 1 .. n : SubSeq(acc, 1, n)[k] = acc[k] /\ SubSeq(off, 1, n)[k] = off[k]
    BY <2>1, <2>2, SubSeqProperties
  <2>4. SubSeq(acc, 1, n) = SubSeq(off, 1, n)
    BY <2>1, <2>3, SeqEqual
  <2>5. IsPrefix(acc, off)
    BY <2>1, <2>4 DEF IsPrefix
  <2> QED BY <2>1, <2>5 DEF off, acc
<1> QED BY <1>1, <1>2, <1>3, PTL DEF Spec

\* acksend() and the peer's recv() implement the handoff of one message at a time in
\* both directions.
THEOREM TurnsImplementHandoff == Spec => ClientHandsOff /\ ServerHandsOff
<1>1. Init => IInv
  BY InitType, StreamInit, TurnsInit DEF IInv
<1>2. IInv /\ [Next]_vars => IInv'
  BY TurnsNext
<1>3. /\ Client \in Socket /\ Server \in Socket
      /\ Peer[Client] = Server /\ Peer[Server] = Client
  BY LinkAssumption DEF Peer
<1>4. Init => FromClient!Init /\ FromServer!Init
  BY <1>3 DEF Init, SocketInit, FromClient!Init, FromServer!Init
<1>5. ASSUME IInv, [Next]_vars
      PROVE  /\ [FromClient!Next]_(FromClient!handoffVars)
             /\ [FromServer!Next]_(FromServer!handoffVars)
  <2>1. HandsOver(Client) /\ HandsOver(Server)
    BY <1>3, <1>5, TurnsNext
  <2>2. [FromClient!Next]_(FromClient!handoffVars)
    BY <1>3, <2>1
    DEF HandsOver, Stays, Offers, Takes, Learns, FromClient!Next, FromClient!Offer,
        FromClient!Accept, FromClient!Confirm, FromClient!AllTaken, FromClient!handoffVars
  <2>3. [FromServer!Next]_(FromServer!handoffVars)
    BY <1>3, <2>1
    DEF HandsOver, Stays, Offers, Takes, Learns, FromServer!Next, FromServer!Offer,
        FromServer!Accept, FromServer!Confirm, FromServer!AllTaken, FromServer!handoffVars
  <2> QED BY <2>2, <2>3
<1> QED BY <1>1, <1>2, <1>4, <1>5, PTL
        DEF Spec, ClientHandsOff, ServerHandsOff, FromClient!Spec, FromServer!Spec

\* No recv() runs over the end of a send() into the next one, whoever sends.
THEOREM TurnsOneSend == Spec => []OneSendPerRecv
<1>1. Spec => []InOrder
  BY TurnsDelivery, PTL
<1> QED BY <1>1, InOrderOneSend, PTL

\* recv() returns 0 only when everything acknowledged has been read, either way.
THEOREM TurnsEof == Spec => []EofIsEnd
BY TurnsDelivery, InOrderEof, PTL
=============================================================================
