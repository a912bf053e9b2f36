----------------------------- MODULE RcsAccept -----------------------------
(***************************************************************************)
(* A listener, the sockets it makes for its clients and the clients: the   *)
(* accept() and connect() of a4/rcs_t.cc, as the two file applications use *)
(* them.  rcsapp-server accepts for ever and starts a thread for every     *)
(* socket it gets, which reads until there is no more; rcsapp-client       *)
(* connects, sends and closes.  It sleeps 0 to 6 seconds after each send,  *)
(* which is a pause of any length here, none included: the next call may   *)
(* come while the peer still lingers, or after.                            *)
(*                                                                         *)
(* accept() and connect() are made of calls of send() and recv(); they put *)
(* these in front of the script of their socket, with the steps between.   *)
(***************************************************************************)
EXTENDS RcsSocket

CONSTANTS
  Listener,
  Children,   \* the sockets accept() makes, in this order; as many as accepts
  Client,     \* the sockets of the clients
  Script,     \* the calls of each client
  Request,    \* the byte for "rcs connect"
  BufSize     \* what recv() is called with: 256 in the applications

Child == Range(Children)

(***************************************************************************)
(* A port takes one byte of a message here; it is the socket bound to it.  *)
(* A child is bound to a port nobody else has: that mybind() may find none *)
(* is left out.                                                            *)
(***************************************************************************)
ASSUME AcceptAssumption ==
  /\ IsInjective(Children) /\ Children # << >>
  /\ Socket = Client \cup Child \cup {Listener}
  /\ Client \cap Child = {} /\ Listener \notin Client \cup Child
  /\ Child \subseteq Byte /\ Request \in Byte \ Child
  /\ BufSize \in Nat \ {0}

VARIABLES
  made,       \* how many children the listener has made
  serving     \* the children that have a thread

acceptVars == <<vars, made, serving>>

Send(bytes) == [op |-> "send", data |-> bytes]
Recv(n)     == [op |-> "recv", max |-> n]
Close       == [op |-> "close"]
Accept      == [op |-> "accept"]
Connect(to) == [op |-> "connect", to |-> to]

\* The listener is bound and listens, the clients are bound.
Init ==
  /\ SocketInit
  /\ endPoint = [s \in Socket |-> Unset]
  /\ script = [s \in Socket |-> IF s \in Client THEN Script[s]
                                ELSE IF s = Listener THEN <<Accept>> ELSE << >>]
  /\ made = 0 /\ serving = {}

-----------------------------------------------------------------------------
(* accept() *)

\* The current call of s goes on with the calls `first'.
GoOn(s, first) == script' = [script EXCEPT ![s] = first \o Tail(@)]

\* The child is made and bound; then recv() from anybody, without a timeout.
CallAccept ==
  /\ Calls(Listener, "accept") /\ made < Len(Children)
  /\ made' = made + 1
  /\ GoOn(Listener, <<Recv(BufSize), [op |-> "answer"], Send(<<Children[made + 1]>>),
                      [op |-> "spawn"]>>)
  /\ timeout' = [timeout EXCEPT ![Listener] = 0]
  /\ endPoint' = [endPoint EXCEPT ![Listener] = Unset]
  /\ UNCHANGED <<pc, fromEndpoint, isClosing, errno, sendVars, recvVars, inbox, serving>>

\* recv() is over: the child gets the source of the last datagram.
Answer ==
  /\ Calls(Listener, "answer")
  /\ endPoint' = [endPoint EXCEPT ![Children[made]] = fromEndpoint[Listener]]
  /\ GoOn(Listener, << >>)
  /\ UNCHANGED <<pc, fromEndpoint, timeout, isClosing, errno, sendVars, recvVars, inbox,
                 made, serving>>

\* send() is over: main() starts a thread for the child and accepts again.
Spawn ==
  /\ Calls(Listener, "spawn")
  /\ serving' = serving \cup {Children[made]}
  /\ GoOn(Listener, IF made < Len(Children) THEN <<Accept>> ELSE << >>)
  /\ UNCHANGED <<pc, addrVars, timeout, isClosing, errno, sendVars, recvVars, inbox, made>>

-----------------------------------------------------------------------------
(* serviceConnection() *)

\* Slip: a result shorter than the buffer is taken for the last.
ReadsOnSlip(k) == returned[k] = << >> \/ Len(Last(returned[k])) = BufSize

\* The last rcsRecv() returned something, or there was none yet.
ReadsOn(k) == returned[k] = << >> \/ Last(returned[k]) # << >>

Serve(k) ==
  /\ k \in serving /\ pc[k] = "idle" /\ script[k] = << >>
  /\ script' = [script EXCEPT ![k] = IF ReadsOn(k) THEN <<Recv(BufSize)>> ELSE <<Close>>]
  /\ UNCHANGED <<pc, addrVars, timeout, isClosing, errno, sendVars, recvVars, inbox,
                 made, serving>>

-----------------------------------------------------------------------------
(* connect() *)

CallConnect(c) ==
  /\ Calls(c, "connect")
  /\ endPoint' = [endPoint EXCEPT ![c] = Head(script[c]).to]
  /\ GoOn(c, <<Send(<<Request>>), Recv(BufSize), [op |-> "connected"]>>)
  /\ UNCHANGED <<pc, fromEndpoint, timeout, isClosing, errno, sendVars, recvVars, inbox,
                 made, serving>>

\* Slip: the endpoint is copied back before the port is put into it.
PortSlip(c) == endPoint[c]

\* The port: what recv() has put over the request, if anything.
Port(c) ==
  LET bytes == Last(returned[c])
  IN  IF bytes # << >> /\ Head(bytes) \in Child THEN Head(bytes) ELSE Garbage

Connected(c) ==
  /\ Calls(c, "connected")
  /\ endPoint' = [endPoint EXCEPT ![c] = Port(c)]
  /\ GoOn(c, << >>)
  /\ UNCHANGED <<pc, fromEndpoint, timeout, isClosing, errno, sendVars, recvVars, inbox,
                 made, serving>>

-----------------------------------------------------------------------------
(* Specification *)

AcceptStep(s) ==
  \/ s = Listener /\ (CallAccept \/ Answer \/ Spawn)
  \/ s \in Child /\ Serve(s)
  \/ s \in Client /\ (CallConnect(s) \/ Connected(s))
  \/ Step(s) /\ UNCHANGED <<made, serving>>

\* The clients have made their calls, and the threads are through.
Finished == \A s \in Client \cup serving : pc[s] = "gone"

Next ==
  \/ \E s \in Socket : AcceptStep(s)
  \/ Finished /\ UNCHANGED acceptVars

Spec == Init /\ [][Next]_acceptVars

Sends(s, fate) == (SendStep(s, fate) \/ AnswerStep(s, fate)) /\ UNCHANGED <<made, serving>>

\* As for RcsLink: threads are scheduled, and the evil of ucpSendTo is random.
Fairness ==
  \A s \in Socket :
    /\ WF_acceptVars(AcceptStep(s))
    /\ SF_acceptVars(Sends(s, "intact"))
    /\ "drop" \in Evil => SF_acceptVars(Sends(s, "drop"))

FairSpec == Spec /\ Fairness

-----------------------------------------------------------------------------
(* Safety *)

\* A client that has been told a port talks to a child that talks to it.
Joined == \A c \in Client : endPoint[c] \in Child => endPoint[endPoint[c]] = c

\* The bytes a client sends once it is connected.
File(c) == LET sends == SelectSeq(Script[c], LAMBDA call : call.op = "send")
           IN  FlattenSeq([i \in DOMAIN sends |-> sends[i].data])

\* When a thread has closed its file, the file is that of the client the child
\* was made for: rcsRecv() has returned all of it, in order, and then 0.
FileIsWhole ==
  \A k \in serving : pc[k] = "gone" =>
    /\ endPoint[k] \in Client
    /\ FlattenSeq(returned[k]) = File(endPoint[k])

-----------------------------------------------------------------------------
(* Refinement, for one client: the request goes to the listener, the file to  *)
(* the first child.                                                           *)

TheClient == CHOOSE c \in Client : TRUE

ToServer == INSTANCE Handoff WITH
  offered   <- offered[TheClient],
  accepted  <- accepted[Listener] \o accepted[Children[1]],
  confirmed <- confirmed[TheClient]

FromListener == INSTANCE Handoff WITH
  offered   <- offered[Listener],
  accepted  <- accepted[TheClient],
  confirmed <- confirmed[Listener]

\* What the client sends is handed over one message at a time, and nothing that
\* is late from the listener disturbs it once the child has taken over.
RequestThenFile == ToServer!Spec

\* So is the port, which the listener sends with the lingering of its recv() and
\* its next accept() right before and after.
PortHandedOver == FromListener!Spec

-----------------------------------------------------------------------------
(* Liveness, under FairSpec *)

\* What the thread of k has read, and what it has still to read.
BytesOf(k) == FlattenSeq(returned[k]) \o SelectSeq(buffer[k], LAMBDA cell : cell # Mark)

\* The two ways to stay for ever: the FIN has met the linger (the run OneFile of
\* RcsLink), or all FINs were lost because the queue was full.
FinInLinger(k) == pc[k] = "finalize" /\ isClosing[k]
FinLost(k)     == ~isClosing[k] /\ \A i \in DOMAIN inbox[k] : ~HasFlag(inbox[k][i], "FIN")

\* Every client comes to its end, whether it pauses between its calls or not, and
\* a thread has its file, whole and in order; and every thread comes to its end but
\* for those two ways.
FileArrives ==
  <>(/\ \A c \in Client : pc[c] = "gone"
                         /\ \E k \in serving : endPoint[k] = c /\ BytesOf(k) = File(c)
     /\ \A k \in serving : pc[k] = "gone" \/ FinInLinger(k) \/ FinLost(k))
=============================================================================
