----------------------------- MODULE TcpService -----------------------------
(***************************************************************************)
(* The TCP name service (a2, built with -DTCP): one server, which polls    *)
(* its connections and answers GETs from a table of names, and clients     *)
(* that ask it one thing at a time.  Each process is single-threaded; an   *)
(* action is one of its system calls with what it does up to the next one. *)
(*                                                                         *)
(* A message of 12 bytes and a reply shorter than the 1024 bytes of the    *)
(* buffers arrive in one piece.  A client is also its connection.          *)
(***************************************************************************)
EXTENDS NameTable

CONSTANTS
  Client,
  Script,     \* the lines each client reads from its stdin, then EOF
  Garbage,    \* what a reply buffer holds that nobody wrote
  Leftover,   \* messages the server's buffer may hold before its first recv()
  Killable,   \* clients that may end at any time
  Idle        \* TRUE: three minutes may pass in which nobody speaks

\* Lines of a client's standard input, and the messages.
ClientLine == [op : {"get"}, key : Key] \cup [op : {"stop", "bad"}]
Message    == [op : {"get"}, key : Key] \cup [op : {"stop", "stop_session", "invalid"}]

StopSession == [op |-> "stop_session"]

ASSUME TcpAssumption ==
  /\ IsFiniteSet(Client)
  /\ Script \in [Client -> Seq(ClientLine)] /\ Garbage \notin Name \cup Key
  /\ Leftover \subseteq Message /\ Leftover # {}
  /\ Killable \subseteq Client /\ Idle \in BOOLEAN

Listener == 0   \* the descriptor of the listening socket; clients get 1, 2, ...

\* A connection as the other end sees it: up, closed, reset, or closed and
\* then reset because something was sent to it all the same.
End == {"up", "fin", "rst", "dead"}

VARIABLES
  serverPc, it,        \* what the server does; the index run() looks at
  clients, ready,      \* clients_, listener included; those with revents # 0
  open,                \* the server's connected descriptors and their clients
  buffer,              \* the buffer of run(), a set of at most one message
  lines, clientPc,     \* a client's lines still to be answered; what it does
  reply,               \* the buffer of send_message()
  backlog,             \* connections not accepted yet
  toServer, toClient,  \* what has been sent and not received
  clientEnd, serverEnd,\* how the ends of the connection look from the other one
  printed,             \* history: what a client has printed for each of its GETs
  killed               \* history: clients that ended before they were through

serverVars == <<serverPc, it, clients, ready, open, buffer>>
clientVars == <<lines, clientPc, reply, printed, killed>>
netVars    == <<backlog, toServer, toClient, clientEnd, serverEnd>>
vars == <<tableVars, serverVars, clientVars, netVars>>

\* The server listens before it reads its input.
Init ==
  /\ TableInit
  /\ serverPc = "load" /\ it = 1 /\ clients = <<Listener>> /\ ready = {}
  /\ open = << >> /\ buffer = {}
  /\ lines = Script
  /\ clientPc = [c \in Client |-> "start"]
  /\ reply = [c \in Client |-> <<Garbage>>]
  /\ printed = [c \in Client |-> << >>] /\ killed = {}
  /\ backlog = << >>
  /\ toServer = [c \in Client |-> << >>]
  /\ toClient = [c \in Client |-> << >>]
  /\ clientEnd = [c \in Client |-> "up"]
  /\ serverEnd = [c \in Client |-> "up"]

-----------------------------------------------------------------------------
(* The end of a process: the kernel closes its connections, and resets     *)
(* those with something left to read and those not accepted.               *)

EndOf(unread) == IF unread = << >> THEN "fin" ELSE "rst"

ServerExit ==
  /\ serverPc' = "gone" /\ open' = << >> /\ backlog' = << >>
  /\ serverEnd' = [c \in Client |->
       IF c \in Range(backlog) THEN "rst"
       ELSE IF c \in Range(open) THEN EndOf(toServer[c]) ELSE serverEnd[c]]

ClientExit(c) ==
  /\ clientPc' = [clientPc EXCEPT ![c] = "gone"]
  /\ clientEnd' = [clientEnd EXCEPT ![c] = EndOf(toClient[c])]

\* How an end may look once something was sent to it: the peer of a connection
\* it has closed answers with a reset, and a reset is reported once.
AfterSend(end) == CASE end = "up"  -> {"up"}
                    [] end = "fin" -> {"fin", "dead"}
                    [] OTHER       -> {"dead"}

-----------------------------------------------------------------------------
(* main() of the server: the input, line by line *)

LoadGroup   == serverPc = "load" /\ ReadGroup /\ UNCHANGED <<serverVars, clientVars, netVars>>
LoadStudent == serverPc = "load" /\ ReadStudent /\ UNCHANGED <<serverVars, clientVars, netVars>>

LoadFails ==
  /\ serverPc = "load" /\ BadInput
  /\ ServerExit
  /\ UNCHANGED <<tableVars, it, clients, ready, buffer, clientVars, toServer, toClient, clientEnd>>

LoadDone ==
  /\ serverPc = "load" /\ InputEnds
  /\ serverPc' = "poll"
  /\ UNCHANGED <<tableVars, it, clients, ready, open, buffer, clientVars, netVars>>

-----------------------------------------------------------------------------
(* run(): poll() and the walk over clients_ *)

\* poll() reports a descriptor that is not open too, with POLLNVAL.
HasEvents(fd) ==
  IF fd = Listener THEN backlog # << >>
  ELSE fd \notin DOMAIN open \/ toServer[open[fd]] # << >> \/ clientEnd[open[fd]] # "up"

Polled == {fd \in Range(clients) : HasEvents(fd)}

\* Slip: the walk ends one element early.
WalkSlip(i, set) == SelectInSubSeq(clients, i, Len(clients) - 1, LAMBDA fd : fd \in set)

\* The index of the first element from i on with events; 0 when there is none.
Walk(i, set) == SelectInSubSeq(clients, i, Len(clients), LAMBDA fd : fd \in set)

\* On to that element, or back to poll().
WalkFrom(i, set) ==
  LET j == Walk(i, set)
  IN  /\ it' = IF j = 0 THEN 1 ELSE j
      /\ serverPc' = IF j = 0 THEN "poll"
                     ELSE IF clients[j] = Listener THEN "accept" ELSE "recv"

Poll ==
  /\ serverPc = "poll" /\ Polled # {}
  /\ ready' = Polled
  /\ WalkFrom(1, Polled)
  /\ UNCHANGED <<tableVars, clients, open, buffer, clientVars, netVars>>

PollTimeout ==
  /\ serverPc = "poll" /\ Polled = {} /\ Idle
  /\ ServerExit
  /\ UNCHANGED <<tableVars, it, clients, ready, buffer, clientVars, toServer, toClient, clientEnd>>

\* Slip: the new connection is not polled.
WatchSlip(fds, fd) == fds

Watch(fds, fd) == Append(fds, fd)

\* The kernel gives out the least descriptor that is free.
NewFd == CHOOSE fd \in 1 .. Cardinality(Client) :
           fd \notin DOMAIN open /\ \A f \in 1 .. fd - 1 : f \in DOMAIN open

Accept ==
  /\ serverPc = "accept" /\ backlog # << >>
  /\ open' = [fd \in DOMAIN open \cup {NewFd} |->
                IF fd = NewFd THEN Head(backlog) ELSE open[fd]]
  /\ clients' = Watch(clients, NewFd)
  /\ backlog' = Tail(backlog)
  /\ UNCHANGED <<tableVars, serverPc, it, ready, buffer, clientVars, toServer, toClient,
                 clientEnd, serverEnd>>

\* All are accepted: back to poll(), the rest of clients_ is left for then.
AcceptDone ==
  /\ serverPc = "accept" /\ backlog = << >>
  /\ serverPc' = "poll" /\ it' = 1
  /\ UNCHANGED <<tableVars, clients, ready, open, buffer, clientVars, netVars>>

-----------------------------------------------------------------------------
(* run(): recv() from the element `it', and handle_msg() *)

Receiving(c) == serverPc = "recv" /\ clients[it] \in DOMAIN open /\ open[clients[it]] = c

\* recv() returns data, all there is; handle_msg() looks at the first message.
ReceivesData(c, m) ==
  /\ toServer[c] # << >> /\ m = Head(toServer[c])
  /\ toServer' = [toServer EXCEPT ![c] = << >>]
  /\ buffer' = {m}

\* recv() returns 0; handle_msg() looks at what the buffer holds all the same.
ReceivesEnd(c, m) ==
  /\ toServer[c] = << >> /\ clientEnd[c] \in {"fin", "dead"}
  /\ m \in IF buffer = {} THEN Leftover ELSE buffer
  /\ buffer' = {m}
  /\ UNCHANGED toServer

Receives(c, m) == Receiving(c) /\ (ReceivesData(c, m) \/ ReceivesEnd(c, m))

\* respond(): a reply of no bytes sends nothing, for which nobody resets.
Respond(c, r) ==
  /\ toClient' = IF clientEnd[c] = "up" /\ r # NoName
                 THEN [toClient EXCEPT ![c] = Append(@, r)] ELSE toClient
  /\ \E end \in AfterSend(clientEnd[c]) :
       /\ r = NoName /\ clientEnd[c] = "fin" => end = "fin"
       /\ clientEnd' = [clientEnd EXCEPT ![c] = end]

HandleGet(c, m) ==
  /\ m.op = "get" /\ clientEnd[c] # "dead"
  /\ Receives(c, m)
  /\ Respond(c, Get(m.key))
  /\ UNCHANGED <<tableVars, serverPc, it, clients, ready, open, clientVars, backlog, serverEnd>>

\* Nobody handles SIGPIPE.
HandleGetDead(c, m) ==
  /\ m.op = "get" /\ clientEnd[c] = "dead"
  /\ Receives(c, m)
  /\ ServerExit
  /\ UNCHANGED <<tableVars, it, clients, ready, clientVars, toClient, clientEnd>>

\* Slip: the element before the one that asked is erased.
UnwatchSlip(fds, i) == RemoveAt(fds, i - 1)

Unwatch(fds, i) == RemoveAt(fds, i)

\* Slip: handle_msg() returns what its comment says.
KeepsSessionSlip(m) == m.op = "stop_session"

\* What handle_msg() returns.
KeepsSession(m) == m.op # "stop_session"

\* close(), erase(), and back to poll().
CloseSession(c, m) ==
  /\ ~KeepsSession(m) /\ Receives(c, m)
  /\ serverEnd' = [serverEnd EXCEPT ![c] = "fin"]
  /\ open' = [fd \in DOMAIN open \ {clients[it]} |-> open[fd]]
  /\ clients' = Unwatch(clients, it)
  /\ serverPc' = "poll" /\ it' = 1
  /\ UNCHANGED <<tableVars, ready, clientVars, backlog, toClient, clientEnd>>

HandleStop(c, m) ==
  /\ m.op = "stop" /\ Receives(c, m)
  /\ ServerExit
  /\ UNCHANGED <<tableVars, it, clients, ready, clientVars, toClient, clientEnd>>

HandleInvalid(c, m) ==
  /\ m.op = "invalid" /\ Receives(c, m)
  /\ UNCHANGED <<tableVars, serverPc, it, clients, ready, open, clientVars,
                 backlog, toClient, clientEnd, serverEnd>>

\* EWOULDBLOCK: on to the next element.
RecvNothing(c) ==
  /\ Receiving(c) /\ toServer[c] = << >> /\ clientEnd[c] = "up"
  /\ WalkFrom(it + 1, ready)
  /\ UNCHANGED <<tableVars, clients, ready, open, buffer, clientVars, netVars>>

\* Any other error, ECONNRESET or EBADF: exit().
RecvError ==
  /\ serverPc = "recv"
  /\ clients[it] \in DOMAIN open =>
       toServer[open[clients[it]]] = << >> /\ clientEnd[open[clients[it]]] = "rst"
  /\ ServerExit
  /\ UNCHANGED <<tableVars, it, clients, ready, buffer, clientVars, toServer, toClient, clientEnd>>

-----------------------------------------------------------------------------
(* The clients: main() and send_message() *)

HasLine(c, op) == clientPc[c] = "reading" /\ lines[c] # << >> /\ Head(lines[c]).op = op

Connect(c) ==
  /\ clientPc[c] = "start" /\ serverPc # "gone"
  /\ backlog' = Append(backlog, c)
  /\ clientPc' = [clientPc EXCEPT ![c] = "reading"]
  /\ UNCHANGED <<tableVars, serverVars, lines, reply, printed, killed, toServer, toClient,
                 clientEnd, serverEnd>>

ConnectFails(c) ==
  /\ clientPc[c] = "start" /\ serverPc = "gone"
  /\ clientPc' = [clientPc EXCEPT ![c] = "gone"]
  /\ UNCHANGED <<tableVars, serverVars, lines, reply, printed, killed, netVars>>

BadLine(c) ==
  /\ HasLine(c, "bad")
  /\ lines' = [lines EXCEPT ![c] = Tail(@)]
  /\ UNCHANGED <<tableVars, serverVars, clientPc, reply, printed, killed, netVars>>

\* The message for the next line; EOF ends the session.
Request(c) == IF lines[c] = << >> THEN StopSession ELSE Head(lines[c])

Send(c) ==
  /\ clientPc[c] = "reading" /\ ~HasLine(c, "bad") /\ serverEnd[c] \in {"up", "fin"}
  /\ clientPc' = [clientPc EXCEPT ![c] = "waiting"]
  /\ toServer' = IF serverEnd[c] = "up"
                 THEN [toServer EXCEPT ![c] = Append(@, Request(c))] ELSE toServer
  /\ \E end \in AfterSend(serverEnd[c]) : serverEnd' = [serverEnd EXCEPT ![c] = end]
  /\ UNCHANGED <<tableVars, serverVars, lines, reply, printed, killed, backlog, toClient, clientEnd>>

\* send() fails, with SIGPIPE or -1: either way the process ends.
SendFails(c) ==
  /\ clientPc[c] = "reading" /\ ~HasLine(c, "bad") /\ serverEnd[c] \in {"rst", "dead"}
  /\ ClientExit(c)
  /\ UNCHANGED <<tableVars, serverVars, lines, reply, printed, killed, backlog, toServer, toClient,
                 serverEnd>>

\* send_message() returns r.  A GET prints it; any other request was the last.
Returns(c, r) ==
  /\ reply' = [reply EXCEPT ![c] = r]
  /\ toClient' = [toClient EXCEPT ![c] = << >>]
  /\ IF Request(c).op = "get"
     THEN /\ printed' = [printed EXCEPT ![c] = Append(@, r)]
          /\ lines' = [lines EXCEPT ![c] = Tail(@)]
          /\ clientPc' = [clientPc EXCEPT ![c] = "reading"]
          /\ UNCHANGED clientEnd
     ELSE /\ clientPc' = [clientPc EXCEPT ![c] = "gone"]
          /\ clientEnd' = [clientEnd EXCEPT ![c] = "fin"]
          /\ UNCHANGED <<printed, lines>>
  /\ UNCHANGED <<tableVars, serverVars, killed, backlog, toServer>>

RecvReply(c) ==
  /\ clientPc[c] = "waiting" /\ toClient[c] # << >>
  /\ Returns(c, toClient[c])
  /\ UNCHANGED serverEnd

\* recv() returns 0, and send_message() the empty string.
RecvEof(c) ==
  /\ clientPc[c] = "waiting" /\ toClient[c] = << >> /\ serverEnd[c] \in {"fin", "dead"}
  /\ Returns(c, << >>)
  /\ UNCHANGED serverEnd

\* recv() returns -1, which nobody looks at: the NUL goes before the buffer, and
\* what is in there is returned, from the last send_message() or from others.
RecvReset(c) ==
  /\ clientPc[c] = "waiting" /\ toClient[c] = << >> /\ serverEnd[c] = "rst"
  /\ \E r \in {reply[c], <<Garbage>>} : Returns(c, r)
  /\ serverEnd' = [serverEnd EXCEPT ![c] = "dead"]

Kill(c) ==
  /\ c \in Killable /\ clientPc[c] \in {"reading", "waiting"}
  /\ ClientExit(c)
  /\ killed' = killed \cup {c}
  /\ UNCHANGED <<tableVars, serverVars, lines, reply, printed, backlog, toServer, toClient,
                 serverEnd>>

-----------------------------------------------------------------------------
(* Specification *)

Handle(c, m) ==
  HandleGet(c, m) \/ HandleGetDead(c, m) \/ CloseSession(c, m) \/ HandleStop(c, m)
    \/ HandleInvalid(c, m)

ServerStep ==
  \/ LoadGroup \/ LoadStudent \/ LoadFails \/ LoadDone
  \/ Poll \/ Accept \/ AcceptDone \/ RecvError
  \/ \E c \in Client : RecvNothing(c) \/ \E m \in Message : Handle(c, m)

ClientSends(c) == Connect(c) \/ ConnectFails(c) \/ BadLine(c) \/ Send(c) \/ SendFails(c)
ClientHears(c) == RecvReply(c) \/ RecvEof(c) \/ RecvReset(c)

\* Every process has come to its end.
Ended == serverPc = "gone" /\ \A c \in Client : clientPc[c] = "gone"

Next ==
  \/ ServerStep \/ PollTimeout
  \/ \E c \in Client : ClientSends(c) \/ ClientHears(c) \/ Kill(c)
  \/ Ended /\ UNCHANGED vars

Spec == Init /\ [][Next]_vars

\* Nobody has to type, to be killed or to be silent; the programs run.
FairSpec ==
  /\ Spec
  /\ WF_vars(ServerStep)
  /\ \A c \in Client : WF_vars(ClientHears(c))

TypeOK ==
  /\ TableTypeOK
  /\ serverPc \in {"load", "poll", "accept", "recv", "gone"}
  /\ clients \in Seq(Nat) /\ it \in DOMAIN clients /\ ready \subseteq Nat
  /\ DOMAIN open \subseteq Nat \ {Listener} /\ Range(open) \subseteq Client
  /\ buffer \subseteq Message /\ Cardinality(buffer) <= 1
  /\ lines \in [Client -> Seq(ClientLine)]
  /\ clientPc \in [Client -> {"start", "reading", "waiting", "gone"}]
  /\ reply \in [Client -> Seq(Name \cup Key \cup {Garbage})]
  /\ printed \in [Client -> Seq(Seq(Name \cup Key \cup {Garbage}))]
  /\ killed \subseteq Killable /\ backlog \in Seq(Client)
  /\ toServer \in [Client -> Seq(Message)]
  /\ toClient \in [Client -> Seq(Name \cup Key)]
  /\ clientEnd \in [Client -> End] /\ serverEnd \in [Client -> End]

-----------------------------------------------------------------------------
(* Safety *)

\* What a client is to print for a line, and for lines of its input.
AnswerTo(l)   == IF l.op = "get" THEN << <<TrueName(l.key)>> >> ELSE << >>
AnswersTo(ls) == FlattenSeq([i \in DOMAIN ls |-> AnswerTo(ls[i])])

\* The replies a client prints are the answers to what it asked, one for each
\* GET and in that order, from all of its input that the server reads.
RepliesAreAnswers == \A c \in Client : IsPrefix(printed[c], AnswersTo(Script[c]))

\* So it is as long as the server runs, whoever else connects, asks, leaves or
\* is killed in the meantime.
AnswersWhileServing == serverPc # "gone" => RepliesAreAnswers

\* What run() polls is the listener and the connections that are open, each once:
\* clients_ and the descriptor table agree, though close() frees numbers that
\* accept() gives out again.
PollsWhatIsOpen ==
  serverPc = "poll" =>
    /\ Range(clients) = {Listener} \cup DOMAIN open
    /\ Len(clients) = Cardinality(DOMAIN open) + 1
    /\ IsInjective(open)

\* A client finds its connection closed only after it has asked for that, or when
\* the server has ended, or after it has gone itself.
ClosedOnRequest ==
  \A c \in Client :
    serverEnd[c] # "up" => \/ serverPc = "gone" \/ clientPc[c] = "gone"
                           \/ clientPc[c] = "waiting" /\ Request(c) = StopSession

\* run() ends only because a client has sent STOP.
RunsUntilStop ==
  serverPc = "gone" =>
    \E c \in Client : \E i \in DOMAIN Script[c] : Script[c][i].op = "stop"
                       /\ Len(lines[c]) + i = Len(Script[c]) + 1 /\ clientPc[c] # "reading"

-----------------------------------------------------------------------------
(* Liveness, under FairSpec *)

\* A GET whose answer is the empty name, for which respond() sends nothing.
AsksNoName(c) == Request(c).op = "get" /\ TrueName(Request(c).key) = NoName

\* send_message() returns, as long as no client ends without a STOP_SESSION: also for
\* those who ask while another waits for the empty name, which never comes.
CallsReturn ==
  [](killed = {}) =>
    \A c \in Client :
      clientPc[c] = "waiting" /\ ~AsksNoName(c) ~> clientPc[c] # "waiting"
=============================================================================
