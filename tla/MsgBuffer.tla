----------------------------- MODULE MsgBuffer -----------------------------
(***************************************************************************)
(* msg_buffer_t (a4/msg_buffer_t.cc) as it is programmed: a deque of       *)
(* messages, an offset into the first of them, and a count of bytes.       *)
(***************************************************************************)
EXTENDS RcsStream, SequencesExt

\* msg_buffer_t(): the buffer of a new socket.
EmptyDeque == [messages |-> << >>, offset |-> 0, totalSize |-> 0]

\* queueMessage()
Enqueue(b, m) == [b EXCEPT !.messages = Append(@, m), !.totalSize = @ + Len(m.data)]

\* Slip: a mark that is left counts as something to read.
IsEmptySlip(b) == b.messages = << >>

\* empty()
IsEmpty(b) == b.totalSize = 0

PopFront(b) == [b EXCEPT !.messages = Tail(@)]

\* Slip: the offset is not reset when a message has been copied to its end.
AdvanceSlip(b, n) ==
  LET past == [b EXCEPT !.offset = @ + n]
  IN  IF past.offset >= Len(Head(b.messages).data) THEN PopFront(past) ELSE past

\* n bytes of the first message have been copied: it goes when they were its last.
Advance(b, n) ==
  LET past == [b EXCEPT !.offset = @ + n]
  IN  IF past.offset >= Len(Head(b.messages).data)
      THEN PopFront([past EXCEPT !.offset = 0]) ELSE past

\* The loop of read(): `length' more bytes may be copied; `left' is the break.
Start(b, n) == [deque |-> b, bytes |-> << >>, length |-> n, left |-> FALSE]
Running(r)  == r.length > 0 /\ r.deque.messages # << >> /\ ~r.left

\* A round of it.
Round(r) ==
  LET b     == r.deque
      front == Head(b.messages)
      rest  == Len(front.data) - b.offset
      n     == IF r.length < rest THEN r.length ELSE rest
  IN  IF front.flags = "EOS"
      THEN [r EXCEPT !.deque = PopFront(b), !.left = r.bytes # << >>]
      ELSE [r EXCEPT !.deque = Advance(b, n), !.length = @ - n,
                     !.bytes = @ \o SubSeq(front.data, b.offset + 1, b.offset + n)]

\* All of it: a round drops the first message or is the last, so that there are
\* at most as many as there are messages.
Copy(b, n) ==
  LET after[k \in 0 .. Len(b.messages)] ==
        IF k = 0 THEN Start(b, n)
        ELSE IF Running(after[k - 1]) THEN Round(after[k - 1]) ELSE after[k - 1]
  IN  after[Len(b.messages)]

\* read(): totalSize_ is reduced at the end.
ReadDeque(b, n) ==
  LET r == Copy(b, n)
  IN  [deque |-> [r.deque EXCEPT !.totalSize = @ - Len(r.bytes)], bytes |-> r.bytes]

(***************************************************************************)
(* The stream of bytes and marks that a deque stands for.                  *)
(***************************************************************************)
Cells(m, from) == SubSeq(m.data, from + 1, Len(m.data))
                    \o (IF m.flags = "EOS" THEN <<Mark>> ELSE << >>)
Represents(b) ==
  FlattenSeq([i \in DOMAIN b.messages |-> Cells(b.messages[i], IF i = 1 THEN b.offset ELSE 0)])
=============================================================================
