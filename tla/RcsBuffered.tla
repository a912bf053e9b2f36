---------------------------- MODULE RcsBuffered ----------------------------
(***************************************************************************)
(* The one-way transfer with the deque of msg_buffer_t beside the stream   *)
(* that RcsSocket keeps in its place: recv() queues into it and reads from *)
(* it in the same steps.                                                   *)
(***************************************************************************)
EXTENDS RcsOneWay, MsgBuffer

VARIABLES
  deque,   \* buffer_ of each socket
  copied   \* history: what read() has put into the arguments of recv()

bufferedVars == <<vars, deque, copied>>

BufferedInit ==
  /\ Init
  /\ deque = [s \in Socket |-> EmptyDeque]
  /\ copied = [s \in Socket |-> << >>]

\* The deque of s after queueMessage(), if this step has called it.
Queued(s) ==
  IF accepted'[s] = accepted[s] THEN deque[s] ELSE Enqueue(deque[s], Last(accepted'[s]))

\* recv() ends: it reads unless the deque is empty, in which case it returns 0.
RecvEnds(s) == returned'[s] # returned[s]
ReadNow(s)  == IF IsEmpty(Queued(s)) THEN [deque |-> Queued(s), bytes |-> << >>]
               ELSE ReadDeque(Queued(s), Head(script[s]).max)

BufferedNext ==
  /\ Next
  /\ deque' = [s \in Socket |-> IF RecvEnds(s) THEN ReadNow(s).deque ELSE Queued(s)]
  /\ copied' = [s \in Socket |-> IF RecvEnds(s) THEN Append(copied[s], ReadNow(s).bytes)
                                               ELSE copied[s]]

BufferedSpec == BufferedInit /\ [][BufferedNext]_bufferedVars

\* The deque is the stream: bytes and ends of messages are where they should be,
\* read() has copied what the stream gives, and totalSize_, which alone decides
\* whether recv() waits or returns 0, is the number of bytes that are left.
DequeIsStream ==
  \A s \in Socket :
    /\ Represents(deque[s]) = buffer[s]
    /\ copied[s] = returned[s]
    /\ IsEmpty(deque[s]) = NoBytes(buffer[s])

-----------------------------------------------------------------------------
(* The inductive invariant DequeIsStream follows from. *)

Deque == [messages : Seq(Message), offset : Nat, totalSize : Nat]

\* offset_ is a place within the first message, and 0 when there is none; only
\* data messages have bytes.
InFirst(b) ==
  /\ b.offset = 0 \/ (b.messages # << >> /\ b.offset < Len(Head(b.messages).data))
  /\ \A i \in 1 .. Len(b.messages) :
       b.messages[i].flags # "NONE" => b.messages[i].data = << >>

DequeInv ==
  /\ deque \in [Socket -> Deque] /\ copied = returned
  /\ \A s \in Socket :
       /\ InFirst(deque[s])
       /\ Represents(deque[s]) = buffer[s]
       /\ deque[s].totalSize = Len(Unread(buffer[s]))
=============================================================================
