----------------------------- MODULE UdpService -----------------------------
(***************************************************************************)
(* The UDP name service (a2, built without -DTCP): one server that takes   *)
(* datagrams in a loop, and clients that send one and wait for another.    *)
(* An action is one system call that a process waits in, with what the     *)
(* process does until it waits again.                                      *)
(*                                                                         *)
(* Datagrams may be lost and may overtake each other; none is repeated.    *)
(***************************************************************************)
EXTENDS NameTable

CONSTANTS
  Client,
  Script,       \* the lines each client reads from its stdin, then EOF
  Host, Port,
  AddressOf,    \* the host and the port each client is bound to
  Stray,        \* other addresses, from which an empty datagram may come
  Leftover,     \* messages the server's buffer may hold before its first datagram
  Lossy,        \* clients that may lose a request or a reply
  Killable      \* clients that may end at any time

ClientLine == [op : {"get"}, key : Key] \cup [op : {"stop", "bad"}]
Message    == [op : {"get"}, key : Key] \cup [op : {"stop", "stop_session", "invalid"}]

StopSession == [op |-> "stop_session"]
Nothing     == [op |-> "nothing"]        \* what an empty datagram carries

ASSUME UdpAssumption ==
  /\ Script \in [Client -> Seq(ClientLine)]
  /\ AddressOf \in [Client -> [host : Host, port : Port]]
  /\ \A c, d \in Client : AddressOf[c] = AddressOf[d] => c = d
  /\ Stray \subseteq [host : Host, port : Port]
  /\ \A c \in Client : AddressOf[c] \notin Stray
  /\ Leftover \subseteq Message /\ Leftover # {}
  /\ Lossy \subseteq Client /\ Killable \subseteq Client

Address == {AddressOf[c] : c \in Client} \cup Stray

VARIABLES
  serverPc,     \* what the server does
  clients,      \* clients_
  buffer,       \* the buffer of run(), a set of at most one message
  lines,        \* a client's lines still to be answered
  clientPc,
  toServer,     \* datagrams on their way or in the server's queue
  toClients,    \* replies on their way or in a client's queue
  strayed,      \* the stray addresses that have sent their datagram
  asked,        \* history: the keys of the GETs a client has sent
  printed,      \* history: what it has printed for them
  lost          \* history: clients that have lost a datagram

serverVars == <<serverPc, clients, buffer>>
clientVars == <<lines, clientPc, asked, printed>>
netVars    == <<toServer, toClients, strayed, lost>>
vars == <<tableVars, serverVars, clientVars, netVars>>

\* The server is bound before it reads its input.
Init ==
  /\ TableInit
  /\ serverPc = "load" /\ clients = << >> /\ buffer = {}
  /\ lines = Script
  /\ clientPc = [c \in Client |-> "reading"]
  /\ toServer = {} /\ toClients = {} /\ strayed = {} /\ lost = {}
  /\ asked = [c \in Client |-> << >>]
  /\ printed = [c \in Client |-> << >>]

-----------------------------------------------------------------------------
(* main() of the server *)

LoadGroup   == serverPc = "load" /\ ReadGroup /\ UNCHANGED <<serverVars, clientVars, netVars>>
LoadStudent == serverPc = "load" /\ ReadStudent /\ UNCHANGED <<serverVars, clientVars, netVars>>

\* stop() and exit(): the queue of the socket goes with it.
ServerExit == serverPc' = "gone" /\ toServer' = {}

LoadFails ==
  /\ serverPc = "load" /\ BadInput
  /\ ServerExit
  /\ UNCHANGED <<tableVars, clients, buffer, clientVars, toClients, strayed, lost>>

LoadDone ==
  /\ serverPc = "load" /\ InputEnds
  /\ serverPc' = "run"
  /\ UNCHANGED <<tableVars, clients, buffer, clientVars, netVars>>

-----------------------------------------------------------------------------
(* run(), handle_msg() and respond() *)

\* Slip: the port is not compared.
SameClientSlip(a, b) == a.host = b.host

SameClient(a, b) == a.port = b.port /\ a.host = b.host

\* Slip: every datagram adds its source.
EnrolledSlip(from) == Append(clients, from)

\* get_client_num(): clients_ with the source in it, and the source's index.
Enrolled(from) ==
  IF \E i \in DOMAIN clients : SameClient(clients[i], from) THEN clients ELSE Append(clients, from)

\* Slip: the index of the newest client, also for one that is known.
ClientNumSlip(from) == Len(Enrolled(from))

ClientNum(from) ==
  CHOOSE i \in DOMAIN Enrolled(from) :
    /\ SameClient(Enrolled(from)[i], from)
    /\ \A j \in 1 .. i - 1 : ~SameClient(Enrolled(from)[j], from)

\* recvfrom: the buffer afterwards.  An empty datagram leaves it as it was.
Filled(d) == IF d.msg # Nothing THEN {d.msg} ELSE IF buffer # {} THEN buffer ELSE Leftover

Receives(d, m) ==
  /\ serverPc = "run" /\ d \in toServer
  /\ m \in Filled(d)
  /\ buffer' = {m}
  /\ clients' = Enrolled(d.from)

\* A reply to nobody is dropped on the way.
HandleGet(d, m) ==
  /\ m.op = "get" /\ Receives(d, m)
  /\ toServer' = toServer \ {d}
  /\ toClients' = toClients \cup {[to |-> clients'[ClientNum(d.from)], reply |-> Get(m.key)]}
  /\ UNCHANGED <<tableVars, serverPc, clientVars, strayed, lost>>

\* STOP_SESSION too: a client leaves nothing behind but its address.
HandleNone(d, m) ==
  /\ m.op \in {"stop_session", "invalid"} /\ Receives(d, m)
  /\ toServer' = toServer \ {d}
  /\ UNCHANGED <<tableVars, serverPc, clientVars, toClients, strayed, lost>>

HandleStop(d, m) ==
  /\ m.op = "stop" /\ Receives(d, m)
  /\ ServerExit
  /\ UNCHANGED <<tableVars, clientVars, toClients, strayed, lost>>

Handle(d) == \E m \in Message : HandleGet(d, m) \/ HandleNone(d, m) \/ HandleStop(d, m)

-----------------------------------------------------------------------------
(* main() and send_message() of a client *)

HasLine(c, op) == clientPc[c] = "reading" /\ lines[c] # << >> /\ Head(lines[c]).op = op

BadLine(c) ==
  /\ HasLine(c, "bad")
  /\ lines' = [lines EXCEPT ![c] = Tail(@)]
  /\ UNCHANGED <<tableVars, serverVars, clientPc, asked, printed, netVars>>

\* The message for the next line; EOF ends the session.
Request(c) == IF lines[c] = << >> THEN StopSession ELSE Head(lines[c])

\* sendto succeeds whether anybody listens or not.
Send(c) ==
  /\ clientPc[c] = "reading" /\ ~HasLine(c, "bad")
  /\ clientPc' = [clientPc EXCEPT ![c] = "waiting"]
  /\ asked' = IF Request(c).op = "get" THEN [asked EXCEPT ![c] = Append(@, Request(c).key)]
              ELSE asked
  /\ toServer' = IF serverPc = "gone" THEN toServer
                 ELSE toServer \cup {[from |-> AddressOf[c], msg |-> Request(c)]}
  /\ UNCHANGED <<tableVars, serverVars, lines, printed, toClients, strayed, lost>>

\* Any datagram is the reply.  Its sender becomes host_addr_, to which the next
\* request goes: the server, as long as nobody else sends to a client.  After a
\* STOP or a STOP_SESSION, which nobody answers, the client waits for ever.
Hear(c, d) ==
  /\ clientPc[c] = "waiting" /\ d \in toClients /\ d.to = AddressOf[c]
  /\ toClients' = toClients \ {d}
  /\ IF Request(c).op = "get"
     THEN /\ printed' = [printed EXCEPT ![c] = Append(@, d.reply)]
          /\ lines' = [lines EXCEPT ![c] = Tail(@)]
          /\ clientPc' = [clientPc EXCEPT ![c] = "reading"]
     ELSE /\ clientPc' = [clientPc EXCEPT ![c] = "gone"]
          /\ UNCHANGED <<printed, lines>>
  /\ UNCHANGED <<tableVars, serverVars, asked, toServer, strayed, lost>>

\* Its port is not given to another client in the model.
Kill(c) ==
  /\ c \in Killable /\ clientPc[c] # "gone"
  /\ clientPc' = [clientPc EXCEPT ![c] = "gone"]
  /\ UNCHANGED <<tableVars, serverVars, lines, asked, printed, netVars>>

-----------------------------------------------------------------------------
(* The network *)

LoseRequest(c) ==
  /\ c \in Lossy
  /\ \E d \in toServer : d.from = AddressOf[c] /\ toServer' = toServer \ {d}
  /\ lost' = lost \cup {c}
  /\ UNCHANGED <<tableVars, serverVars, clientVars, toClients, strayed>>

LoseReply(c) ==
  /\ c \in Lossy
  /\ \E d \in toClients : d.to = AddressOf[c] /\ toClients' = toClients \ {d}
  /\ lost' = lost \cup {c}
  /\ UNCHANGED <<tableVars, serverVars, clientVars, toServer, strayed>>

\* A datagram without content from a program that is no client.
StrayArrives(a) ==
  /\ a \in Stray \ strayed /\ serverPc # "gone"
  /\ strayed' = strayed \cup {a}
  /\ toServer' = toServer \cup {[from |-> a, msg |-> Nothing]}
  /\ UNCHANGED <<tableVars, serverVars, clientVars, toClients, lost>>

-----------------------------------------------------------------------------
(* Specification *)

Load == LoadGroup \/ LoadStudent \/ LoadFails \/ LoadDone

ClientStep(c) ==
  BadLine(c) \/ Send(c) \/ Kill(c) \/ LoseRequest(c) \/ LoseReply(c)
    \/ \E d \in toClients : Hear(c, d)

Next ==
  \/ Load \/ \E d \in toServer : Handle(d)
  \/ \E c \in Client : ClientStep(c)
  \/ \E a \in Stray : StrayArrives(a)

Spec == Init /\ [][Next]_vars

(***************************************************************************)
(* The programs run, and a queued datagram is received in the end: the     *)
(* queue of a socket is first come, first served.  Nobody has to type.     *)
(***************************************************************************)
Fairness ==
  /\ WF_vars(Load)
  /\ \A c \in Client :
       /\ WF_vars(\E d \in toServer : d.from = AddressOf[c] /\ Handle(d))
       /\ WF_vars(\E d \in toClients : Hear(c, d))

FairSpec == Spec /\ Fairness

Datagram == [from : Address, msg : Message \cup {Nothing}]
Reply    == [to : Address, reply : Name \cup Key]

TypeOK ==
  /\ TableTypeOK
  /\ serverPc \in {"load", "run", "gone"}
  /\ clients \in Seq(Address) /\ buffer \subseteq Message
  /\ lines \in [Client -> Seq(ClientLine)]
  /\ clientPc \in [Client -> {"reading", "waiting", "gone"}]
  /\ toServer \subseteq Datagram /\ toClients \subseteq Reply
  /\ strayed \subseteq Stray /\ lost \subseteq Lossy
  /\ asked \in [Client -> Seq(Key)] /\ printed \in [Client -> Seq(Name \cup Key)]

-----------------------------------------------------------------------------
(* Safety *)

\* What a client prints are the names it asked for, from all of its input that
\* the server reads, in the order of its requests: no answer goes to another
\* client, belongs to an earlier request, or comes from what a stray datagram
\* made the server repeat.
RepliesAreAnswers ==
  \A c \in Client :
    /\ Len(printed[c]) <= Len(asked[c])
    /\ \A i \in DOMAIN printed[c] : printed[c][i] = TrueName(asked[c][i])

\* A client waits with at most one request or reply of its own under way, and
\* that is about the GET it is waiting for: nothing late is left for the next.
OneAtATime ==
  \A c \in Client :
    LET requests == {d \in toServer : d.from = AddressOf[c]}
        replies  == {d \in toClients : d.to = AddressOf[c]}
    IN  /\ Cardinality(requests) + Cardinality(replies) <= 1
        /\ clientPc[c] = "reading" => requests \cup replies = {}

\* clients_ grows with the addresses that have spoken and not with what they say,
\* and a number in it means one address for good.
EnrolledOnce == [][IsPrefix(clients, clients') /\ IsInjective(clients')]_clients

-----------------------------------------------------------------------------
(* Liveness, under FairSpec *)

\* A GET returns, whatever other clients do and strays send to the server, unless
\* a datagram of its own is lost, the server is stopped, or the client killed.
GetReturns ==
  \A c \in Client :
    (clientPc[c] = "waiting" /\ Request(c).op = "get")
      ~> (clientPc[c] # "waiting" \/ c \in lost \/ serverPc = "gone")
=============================================================================
