------------------------------ MODULE RcsStream -----------------------------
(***************************************************************************)
(* What msg_buffer_t (a4/msg_buffer_t.cc) keeps for its reader: the bytes  *)
(* not read yet, in order, with a Mark where an EOS message was queued.    *)
(* The deque of messages together with offset_ is one position in that     *)
(* stream, and totalSize_ is the number of its bytes.                      *)
(***************************************************************************)
EXTENDS RcsMsg, FiniteSetsExt

CONSTANT Mark

ASSUME MarkAssumption == Mark \notin Byte

Cell == Byte \cup {Mark}

\* Slip: the end of a send() is not kept.
QueueMessageSlip(b, m) == b \o m.data

\* queueMessage(): the payload, and the mark when the message ends a send().
QueueMessage(b, m) ==
  IF m.flags = "EOS" THEN Append(b \o m.data, Mark) ELSE b \o m.data

\* empty(): totalSize_ counts bytes, not messages, so marks may remain.
NoBytes(b) == \A i \in 1 .. Len(b) : b[i] = Mark

(***************************************************************************)
(* read(): leading marks are dropped; bytes are copied up to the next mark *)
(* or until `n' are copied; a mark that follows is dropped too, but only   *)
(* while the reader still has room (the loop tests length > 0 first).      *)
(***************************************************************************)
ReadStart(b)   == Min({i \in 1 .. Len(b) : b[i] # Mark})
ReadEnd(b, n)  == Min({i \in ReadStart(b) .. Len(b) + 1 :
                         i = Len(b) + 1 \/ b[i] = Mark \/ i = ReadStart(b) + n})
ReadBytes(b, n) == SubSeq(b, ReadStart(b), ReadEnd(b, n) - 1)
\* Slip: what read() had no room for goes with the message it belongs to.
AfterReadSlip(b, n) == SubSeq(b, ReadEnd(b, n) + 1, Len(b))
AfterRead(b, n) ==
  LET stopsAtMark == /\ ReadEnd(b, n) <= Len(b)
                     /\ ReadEnd(b, n) < ReadStart(b) + n
  IN  SubSeq(b, IF stopsAtMark THEN ReadEnd(b, n) + 1 ELSE ReadEnd(b, n), Len(b))
=============================================================================
