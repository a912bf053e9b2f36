------------------------------- MODULE RcsMsg -------------------------------
(***************************************************************************)
(* The messages of the RCS protocol (a4/msg_t.h, a4/msg_t.cc) and what     *)
(* becomes of one on its way through the UCP layer (a4/ucp.c).             *)
(*                                                                         *)
(* A message keeps its sequence number, its flags and its payload.  The    *)
(* checksum covers the last payload byte only; together with the length    *)
(* test it decides validity, so it is kept as the "form" of the datagram   *)
(* that arrives and not as a number.                                       *)
(***************************************************************************)
EXTENDS Integers, Sequences

CONSTANTS Byte,       \* payload bytes
          SeqCount,     \* number of sequence numbers: 2^16 in the code
          MaxData,    \* MAX_DATA_LENGTH: 500 in the code
          FinSeqnum,  \* sequence number of every FIN: 666 in the code
          Evil        \* the kinds of evil ucpSendTo is allowed in a run

EvilKind == {"truncate", "void", "corrupt", "drop"}

ASSUME MsgAssumption ==
  /\ SeqCount \in Nat /\ SeqCount > 1
  /\ MaxData \in Nat \ {0}
  /\ FinSeqnum \in 0 .. SeqCount - 1
  /\ Evil \subseteq EvilKind

Seqnum == 0 .. SeqCount - 1

(***************************************************************************)
(* A definition whose name ends in "Slip" is not part of the model: it is  *)
(* what the definition after it would be with a plausible mistake in the   *)
(* code, and serves to see that a property notices that mistake.           *)
(***************************************************************************)
PredUnwrappedSlip(n)  == n - 1
PredForgottenSlip(n)  == n

\* uint16_t arithmetic on sendSeqnum_ and recvSeqnum_.
Succ(n) == IF n = SeqCount - 1 THEN 0 ELSE n + 1
Pred(n) == IF n = 0 THEN SeqCount - 1 ELSE n - 1

Flag == {"NONE", "ACK", "EOS", "FIN"}

Message == [seqnum : Seqnum, flags : Flag, data : Seq(Byte)]

\* msg_t(seqnum, srcData, len): a chunk of the bytes given to send().
DataMsg(n, bytes) == [seqnum |-> n, flags |-> "NONE", data |-> bytes]

\* msg_t(seqnum, flags): a message without payload.
ControlMsg(n, flag) == [seqnum |-> n, flags |-> flag, data |-> << >>]

\* msg_t(): what a receive that delivers no message leaves in its argument.
BlankMsg == ControlMsg(0, "NONE")

Fin == ControlMsg(FinSeqnum, "FIN")

(***************************************************************************)
(* How send() cuts its argument: the chunk sent next and what is left once *)
(* that chunk has been acknowledged.                                       *)
(***************************************************************************)
ChunkLen(bytes) == IF Len(bytes) < MaxData THEN Len(bytes) ELSE MaxData
Chunk(bytes)    == SubSeq(bytes, 1, ChunkLen(bytes))
Rest(bytes)     == SubSeq(bytes, ChunkLen(bytes) + 1, Len(bytes))

\* The message acksend() is given when the bytes `rest' are not sent yet.
MsgFor(n, rest) ==
  IF rest = << >> THEN ControlMsg(n, "EOS") ELSE DataMsg(n, Chunk(rest))

\* The test by which finalizeRecv() recognises the start of the next message.
OpensMessage(m) == m.seqnum = 0 /\ m.data # << >>

(***************************************************************************)
(* ucpSendTo sends a datagram untouched with probability 63%; otherwise it *)
(* does one of three kinds of evil.  Cutting the datagram short may leave  *)
(* nothing of it ("void", an empty datagram) or a part ("truncate").       *)
(***************************************************************************)
Fate == {"intact"} \cup Evil

Form == {"intact", "partial", "garbled", "empty"}

(***************************************************************************)
(* The form in which a datagram reaches recvfrom.  A partial datagram does *)
(* not have the length its header announces, yet valid() holds of it: the  *)
(* buffer of rawrecv is zero-filled, so the checksum fits when the last    *)
(* payload byte was a NUL.  Only finalizeRecv() tells partial from         *)
(* garbled, and only for the message that opens a send(); every other      *)
(* truncated datagram is handled as a garbled one.                         *)
(***************************************************************************)
FormAfter(m, fate) ==
  CASE fate = "intact"   -> "intact"
    [] fate = "truncate" -> IF OpensMessage(m) THEN "partial" ELSE "garbled"
    [] fate = "void"     -> "empty"
    [] OTHER             -> "garbled"

Received(m, fate) ==
  [form |-> FormAfter(m, fate),
   msg  |-> IF FormAfter(m, fate) \in {"intact", "partial"} THEN m ELSE BlankMsg]

\* valid() and the length test of lowrecv() and rawrecv() together.
IsValid(d) == d.form = "intact"

HasFlag(d, flag) == IsValid(d) /\ d.msg.flags = flag
=============================================================================
