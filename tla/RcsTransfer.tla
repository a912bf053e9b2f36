---------------------------- MODULE RcsTransfer ----------------------------
(***************************************************************************)
(* What a transfer from one socket of RcsLink to the other looks like: the *)
(* stream of messages its send() calls make, and which of these messages   *)
(* and of their answers may be on their way while stop-and-wait works.     *)
(***************************************************************************)
EXTENDS RcsLink

(***************************************************************************)
(* No send() is empty, and none is so long that its EOS gets the number of *)
(* a FIN, which no message that opens a transfer has.                      *)
(***************************************************************************)
SendArgument(bytes) == bytes # << >> /\ Len(bytes) <= (FinSeqnum - 1) * MaxData

-----------------------------------------------------------------------------
(* The stream of messages *)

\* What a message looks like, and the number of the one after it.
WellFormed(m) ==
  \/ m.flags = "NONE" /\ m.seqnum + 1 < FinSeqnum /\ m.data # << >>
  \/ m.flags = "EOS"  /\ m.seqnum \in 1 .. FinSeqnum - 1

NumberAfter(m)   == IF m.flags = "EOS" THEN 0 ELSE m.seqnum + 1
NextNumber(ms)   == IF ms = << >> THEN 0 ELSE NumberAfter(ms[Len(ms)])

Stream(ms) ==
  \A k \in 1 .. Len(ms) :
    /\ WellFormed(ms[k])
    /\ ms[k].seqnum = IF k = 1 THEN 0 ELSE NumberAfter(ms[k - 1])

\* Chunk n of a send() goes out, of which the bytes `rest' are left: its message
\* never has the number of a FIN.
SendPlace(n, rest) ==
  /\ n * MaxData + Len(rest) <= (FinSeqnum - 1) * MaxData
  /\ rest = << >> => n \in 1 .. FinSeqnum - 1

-----------------------------------------------------------------------------
(* What may be on its way: off is what has been offered, h how many of these *)
(* the receiver has queued, c how many the sender knows of.                  *)

NoNumber  == SeqCount - 1   \* the answer of a recv() that has nothing yet
IsData(d) == IsValid(d) /\ d.msg.flags \notin {"FIN", "ACK"}
IsAck(d)  == IsValid(d) /\ d.msg.flags = "ACK"

\* To the receiver: copies of the last message, after copies of the one before
\* unless the last has been queued.
DataOnWay(q, off, h) ==
  LET n == Len(off)
  IN  /\ \A j \in 1 .. Len(q) : IsData(q[j]) =>
           \/ n > 0 /\ q[j].msg = off[n]
           \/ n > 1 /\ h < n /\ q[j].msg = off[n - 1]
      /\ \A j, k \in 1 .. Len(q) :
           (j < k /\ IsData(q[j]) /\ IsData(q[k]) /\ n > 0 /\ q[j].msg = off[n])
             => q[k].msg = off[n]

\* To the sender: answers to the last message once it has been queued, after
\* answers to the one before until the sender has seen the last answered.
AnswersOnWay(q, off, h, c) ==
  LET n == Len(off)
  IN  /\ \A j \in 1 .. Len(q) : IsAck(q[j]) =>
           \/ q[j].msg.seqnum = NoNumber
           \/ n > 0 /\ h = n /\ q[j].msg.seqnum = off[n].seqnum
           \/ n > 1 /\ c < n /\ q[j].msg.seqnum = off[n - 1].seqnum
      /\ \A j, k \in 1 .. Len(q) :
           (j < k /\ IsAck(q[j]) /\ IsAck(q[k]) /\ n > 1
              /\ q[j].msg.seqnum = off[n].seqnum)
             => q[k].msg.seqnum # off[n - 1].seqnum

\* A valid FIN is what close() sends.
FinsOnWay(q) == \A j \in 1 .. Len(q) : HasFlag(q[j], "FIN") => q[j].msg = Fin
=============================================================================
