# Verification of the RCS protocol and the name services

This directory holds TLA+ specifications of the programs in `src/`, TLC configurations
that check them on small instances, and TLAPS proofs of what matters most about them.

## 1. The system

The repository holds three courseworks: `a2`, a name service over UDP and over TCP; `a4`,
RCS, a reliable message service over unreliable datagrams, with a file transfer on top;
`a7`, a written report without a program. RCS carries the protocol logic and is modelled
first, with the file applications on top of it; the two name services, whose single
threads serve many clients, come second.

| component | state | operations | interacts with |
|---|---|---|---|
| `a4/msg_t` | sequence number, flags, length, checksum, payload | constructors, `serialize`, `deserialize`, `valid`, `hasFlag` | `rcs_t` sends and receives it |
| `a4/ucp.c` (UCP) | none of its own: a UDP socket | `ucpSendTo`, which spoils 37% of the datagrams on purpose, `ucpRecvFrom`, `ucpSetSockRecvTimeout`, `ucpBind`, `ucpClose` | the kernel, `rcs_t`, `mybind` |
| `a4/mybind.c` | none | binds to a free port | `ucpBind` |
| `a4/msg_buffer_t` | deque of messages, `offset_`, `totalSize_` | `queueMessage`, `empty`, `read` | filled and read by `recv` of `rcs_t` |
| `a4/rcs_t` | `endPoint_`, `fromEndpoint_`, `hasEndpoint_`, `sendSeqnum_`, `recvSeqnum_`, `isClosing_`, `isListenerSocket_`, the buffer, the UCP socket and its timeout; `errno` of the thread | `bind`, `listen`, `accept`, `connect`, `send`, `recv`, `close`; inside: `acksend`, `rawsend`, `lowrecv`, `rawrecv`, `finalizeRecv` | its peer, through datagrams |
| `a4/rcs.cc` | the map from descriptors to sockets, the next descriptor | `rcsSocket` ... `rcsClose` | called by the applications, from several threads in `rcsapp-server` |
| `a4/rcsapp-client`, `rcsapp-server`, `tests/client_main`, `tests/server_main` | a file, a connection | send a file, receive a file; a thread per connection | `rcs.cc` |
| `a2/UDPServer`, `UDPClient` | the table of known clients, the group's database | commands and answers in single datagrams | each other, through UDP |
| `a2/TCPServer`, `TCPClient` | `clients_`, the descriptors that `poll()` watches, listener included; a buffer; at the client a socket and a buffer | the same commands over connections; accepting, ending a session, ending the server | each other, through TCP |
| `a2/Server`, `Client`, `Message` and the main programs | the table of names | parsing, lookup | base classes of the four above |

How RCS works. `send` cuts its argument into chunks of at most 500 bytes, numbers them
from 0, and hands each, and then an empty EOS message with the next number, to `acksend`,
which sends it until a valid message with the same number comes back. `recv` numbers from
0 as well: a message with the expected number is queued in the buffer and acknowledged
with that number, any other is answered with the number before; on EOS it enters
`finalizeRecv`, which repeats the last answer until 500 ms pass in silence or the next
message starts, and returns what `read` gives. `close` sends 2048 FINs; a socket that
receives one closes itself, FINs included.

What makes it hard:

* every datagram may be lost, cut short to nothing or to a part, or spoilt, and may be
  answered late or twice; a datagram without bytes looks to `rawrecv` as an error does;
* both ends restart their numbers with every call, so a late message or answer may fit the
  next transfer;
* nothing but the number identifies an answer: not the flags, not the source;
* the end of a transfer needs one side to linger for the other; a FIN may arrive in any of
  the three loops that wait;
* `errno` is read after calls that did not set it;
* the size argument of `recv` is unrelated to the messages that arrive.

What makes each component correct:

* messages and UCP: a datagram is either what was sent or recognised as spoilt;
* `msg_buffer_t`: every byte is read once, in order, and no read runs over the end of one
  `send` into the next;
* `rcs_t`: what is handed to `send` is queued at the peer once and in order (`InOrder`);
  nothing counts as acknowledged that is not (`AckedIsAccepted`); every call returns; 0 is
  the end of the stream (`EofIsEnd`);
* `accept` and `connect`: each child is joined to the one client that it answered;
* descriptor table: a descriptor means one socket from `rcsSocket` to `rcsClose`;
* name services: an answer goes to the client that asked; a client that stops is
  forgotten; the server serves the others;
* the table of names: it is what the lines of the input say, the last one for a student
  counting (`TableIsInput`).

## 2. The modules

| module | models |
|---|---|
| `RcsMsg` | messages, their numbers, how `send` cuts its argument, and in which form `ucpSendTo` lets one arrive |
| `RcsStream` | `msg_buffer_t`, as the stream of bytes and message ends that the deque represents |
| `RcsSocket` | `rcs_t`: one action per return of `recvfrom` or call of the application, for every socket of a set |
| `RcsLink` | two sockets joined to each other, `Init`, `Next`, fairness, the properties |
| `Handoff` | the abstract specification: a message is offered, accepted, confirmed, one at a time |
| `RcsTransfer` | what a transfer looks like: the stream of messages of one socket, and what may be on its way, in terms both invariants below are stated in |
| `RcsOneWay` | the one-way transfer of the file applications, and `OneWayInv`, the inductive invariant |
| `RcsTurns` | two applications that take turns at sending, and `TurnsInv`, the inductive invariant |
| `MsgBuffer` | `msg_buffer_t` as it is programmed: the deque, `offset_`, `totalSize_`, the loop of `read` |
| `RcsBuffered` | `RcsOneWay` with that deque beside the stream, fed and read in the same steps |
| `RcsAccept` | `accept` and `connect`: a listener, its children, their threads in `rcsapp-server`, and clients like `rcsapp-client`, on `RcsSocket` |
| `RcsDescriptors` | the map of RCS sockets, the kernel's descriptors under it, `main()` and the threads of `rcsapp-server` |
| `SeqLemmas` | lemmas for all the proofs: minima, induction over numbers and sequences, prefixes, `FlattenSeq` |
| `RcsLinkProofs` | proofs about `RcsLink` whatever is called: types, `StreamInv` (what happens to bytes between `send`, the buffer and `recv`), and lemmas about transfers |
| `RcsOneWayProofs` | proofs: `OneWayInv`, in-order delivery, refinement of `Handoff`, one `send` per `recv`, 0 at the end |
| `RcsTurnsProofs` | proofs: `TurnsInv`, and the same in both directions at once |
| `MsgBufferProofs` | proofs: `DequeInv`, the deque implements the stream |
| `NameTable` | the table of names of both name services and how `main()` fills it from the input |
| `UdpService` | the name service over UDP: the server's `recvfrom` and `handle_msg`, its clients, and a network that loses and reorders |
| `TcpService` | the name service over TCP: the server's input, `poll`, `accept`, `recv` and `handle_msg` one system call at a time, its clients, and how a connection ends |
| `NameTableProofs`, `UdpServiceProofs`, `TcpServiceProofs` | proofs: the table, and the safety of both services |
| `MCRcsLink`, `MCRcsOneWay`, `MCRcsTurns`, `MCRcsAccept`, `MCRcsDescriptors`, `MCUdpService`, `MCTcpService` | instances for TLC: the scripts of the applications |

`RcsLink` and `RcsAccept` compose sockets of `RcsSocket`, which works on `RcsMsg` and
`RcsStream`; `RcsTransfer`, `RcsOneWay` and `RcsTurns` speak of the two of `RcsLink`; `RcsBuffered` composes `RcsOneWay` and `MsgBuffer`; both
services extend `NameTable`. `RcsDescriptors` stands alone: it needs of a connection only
that `recv` returns or a FIN has come.

### State and code

A variable is a function from sockets. `endPoint`, `fromEndpoint`, `isClosing`,
`sendSeqnum`, `recvSeqnum`, `buffer` are the members of the same names; `endPoint[s] =
Unset` stands for `hasEndpoint_` false. `timeout` is `SO_RCVTIMEO`, `errno` that of the
thread, reduced to whether it is `EAGAIN`. `unsent` is the part of the argument of `send`
from `processedSize` on, `finAck` the message that `finalizeRecv` got. `inbox` is the UDP
receive queue with the datagrams on their way to it. `pc` names the function in whose
`recvfrom` the thread waits, `script` the calls that the application has still to make.
`offered`, `confirmed`, `accepted`, `returned` are histories: the properties speak of them
and no action reads them, except that `RcsAccept` takes the result of the last `recv` from
`returned`.

A thread waits nowhere but in `recvfrom`. An action is one return of `recvfrom`, or one
call, with all that follows until the thread waits again: the handling of the datagram,
what is sent then, the way back to `send` or `recv` and on to the next chunk or to the
return. Threads share nothing but the queues, so nothing is lost by this grain. The
actions by name: `Call...` begin a call, `...OnClosing` are the calls that a closed socket
returns from at once, `Acksend...` are what can happen in `acksend`, `Recv...` in `recv`,
`Finalize...` in `finalizeRecv`.

The bytes of a message are model values. `IsValid` stands for `valid()` and the length
tests: a datagram arrives as it was sent, in part, spoilt, or empty. The address of a
socket is the socket.

A definition whose name ends in `Slip` is not part of the model. It states the definition
after it with a mistake that the code could have had, and serves to see that a property
notices.

`RcsAccept`. `accept` and `connect` are themselves made of calls of `recv` and `send`:
`CallAccept` and `CallConnect` put these in front of what the socket has still to do, and
`Answer`, `Spawn` and `Connected` are the code between and after them. `Answer` gives the
child the source of the last datagram (`fromEndpoint_`), while the port goes to
`endPoint_`, as in the code. `made` counts the children, `serving` holds those that have a
thread; `Serve` is the loop of `serviceConnection`: `rcsRecv` until it returns 0, then
`rcsClose`. The socket, its port and the byte of a message that carries the port are one
value here.

`RcsBuffered`. `deque` is `buffer_` as `msg_buffer_t` keeps it; `Queued` and `ReadNow`
call `Enqueue` and `ReadDeque` in the steps in which `RcsSocket` queues and reads.
`copied` is what `read` has put into the caller's memory.

`RcsDescriptors`. `open` is the kernel's table, which gives out its least free number;
`sockets` is the static map of `rcs_t`, `nextId` its counter; `pc` is a thread's place in
`serviceConnection`, `wfd` its file. An action goes up to the next system call that takes
or gives back a descriptor, or waits. `FinArrives` is the `ucpClose` inside `rawrecv`,
`RcsClose` that of `destroySocket`.

`NameTable`. `roster` is the server's standard input, line by line, `loaded` how many
lines `main()` has read, `group` its `group_id`, `groups` the nested map `groups_` as one
function of group and student. A line "nogroup" is `Group` with something after it that is
no number, which ends the input (`InputEnds`, `Readable`). `NameAt` says the same as the
table from the lines alone: the last line that names the student under that group.

`UdpService`. `clients` is `clients_`, `buffer` the array of `run()`, which keeps its last
message because `handle_msg` gets no length; `toServer` and `toClients` are the datagrams
on their way or queued, as sets, so that any may come first. A client's main loop and
`send_message` are `BadLine`, `Send` and `Hear`. `LoseRequest` and `LoseReply` are the
network's, `StrayArrives` an empty datagram from some other program.

`TcpService` follows the two single-threaded programs of `a2` in the same way. `clients`
is `clients_` with the listener in front, `ready` the elements whose `revents` are not 0
since the last `poll()`, `it` the index of the walk; `open` is the kernel's table from
descriptors to connections, whose numbers are given out again. `buffer` is the one of
`run()`, `reply` that of `send_message()`: both keep what they held, because the code
reads them after a `recv()` that wrote nothing. `clientEnd` and `serverEnd` say how an end
of a connection looks from the other: up, closed, reset, or closed and then reset since
something was sent to it. `ServerStep` and `ClientHears` are the steps of programs that
are running; `Connect` and `Send` wait for somebody who types.

### What the model assumes

* A spoilt datagram is never taken for valid. Its checksum covers the last payload byte
  only, but its magic fields and its length have to fit too.
* A datagram that was cut fails its length test. `finalizeRecv` alone calls `valid()`
  without that test; its buffer is filled with zeros, so a cut opening message passes
  there, as "partial". That needs a payload that ends in NUL; the model allows it always.
* `Path`: on "loopback" a datagram is in the queue once it was sent; on "fifo" it may take
  its time but overtakes none; on "any" it may overtake. RCS promises nothing on the last:
  numbers restart at 0, and an old opening message then fits a new transfer.
* The queue of a socket holds `Capacity` datagrams; one that finds it full is lost. Of the
  2048 FINs of `close` the one that arrives intact first is kept with at most one before
  it, and all are lost when the queue is full.
* `LingerOutlastsRetries`: TRUE says that 500 ms of silence do not pass while the peer
  retransmits every 10 ms. The safety runs do without (FALSE), the others need it: the
  code relies on it.

* `accept` finds a free port: `mybind` never fails, and no child shares a port with
  another socket. The `sleep` between two calls of `rcsapp-client` takes 0 to 6 seconds,
  so it is a pause of any length: the next call may come while the peer lingers or after.
* The calls on the map of RCS sockets are atomic in `RcsDescriptors`. No lock makes them
  so; what a race on a `std::map` does is undefined and left out.
* UDP loses datagrams and lets them overtake, but does not repeat them. An empty datagram
  leaves the server's buffer as it was, or, if it is the first, with any message of
  `Leftover`. The port of a client that has ended is not given to another one.
* A message and a reply of the TCP service arrive in one piece: 12 bytes, and names far
  shorter than the buffer of 1024. Data that came before a reset can still be read. A
  process whose `send` fails ends, by SIGPIPE or by its own test.
* A `recv()` of a client that fails leaves the buffer as it was or as other calls left
  that part of the stack: the last reply or `Garbage`. What the NUL before the buffer does
  is left out. Before its first `recv()` the server's buffer holds one of `Leftover`.

## 3. What TLC checks

| run | properties | instance | states |
|---|---|---|---|
| `one_way` | `TypeOK`, `InOrder`, `AckedIsAccepted`, `NothingLost`, `OneSendPerRecv`, `EofIsEnd`, `StreamInv`, `OneWayInv`, `DequeInv`, `DequeIsStream`, `HandsOff` | sends of three bytes, of one and of one, in chunks of two, then close; reads of 1, 3, 1, 2, 2 bytes; fifo path, queues of 3, every evil | 473531 |
| `dialogue` | `TurnsInv`, `ClientHandsOff`, `ServerHandsOff` | a request in two sends, a reply of two messages, another request; the client closes while the server lingers or sends again; fifo path, queues of 3, every evil | 337059 |
| `exchange_ends` | `FileIsWhole`, `RequestThenFile`, `PortHandedOver`, `FileArrives` | a client connects, sends a file in two pieces with pauses of any length, and closes; loopback, no empty datagrams | 32552 |
| `udp_service` | `TypeOK`, `TableIsInput`, `RepliesAreAnswers`, `OneAtATime`, `EnrolledOnce`, `GetReturns` | three clients: two requests and a bad line, a request and STOP, one request; one may be killed and lose datagrams; two share a host, two a port number; a stray datagram; a good input, one with a group without a number, and two bad ones | 63234 |
| `tcp_service` | `TypeOK`, `AnswersWhileServing`, `PollsWhatIsOpen`, `ClosedOnRequest`, `CallsReturn` | three clients: two requests and a bad line, a request and STOP, nothing; one may be killed; a good input with a student without a name, one with a group without a number, and two bad ones; silence | 243885 |
| `tcp_killed` | `RunsUntilStop`, violated | one request each by two clients, of which one is killed | |
| `fin_in_linger` | `RecvReturns`, violated | the file transfer of the tests | |
| `linger_cut` | `SendReturns`, violated | two sends to a reader, with empty datagrams | |
| `crossing` | `AckedIsAccepted`, violated | both sides send first | |
| `leftover` | `RemainderIsRead`, violated | one message, read in two parts | |
| `two_clients` | `Joined`, violated | two clients connect at once, over a path without faults | |
| `double_close` | `OwnsDescriptor`, violated | `rcsapp-server` with two connections | |

`InOrder` and `AckedIsAccepted` say that stop-and-wait works: what is queued is a prefix
of what was offered, and what is confirmed has been queued. `HandsOff`, `ClientHandsOff`
and `ServerHandsOff` say the same of every step, as a refinement of `Handoff`: a message
goes out first when the one before has been queued. `NothingLost` and `OneSendPerRecv` tie
what `recv` returns to the buffer and to the calls of `send`; `EofIsEnd` says that 0 is
returned after all that was acknowledged has been read. `DequeIsStream` compares the deque
with the stream after every call: the bytes and ends of messages that are left, what
`read` has copied, and whether `empty` says so. The other modules may therefore keep the
stream. `StreamInv`, `OneWayInv`, `TurnsInv` and `DequeInv` are the inductive invariants of
section 4.

The handshake of `connect` is the place where a client changes its partner in the middle
of things: the listener still lingers, or answers late, while the child is already being
spoken to. `RequestThenFile` says that request and file are handed over as one sequence of
messages, each once and in order, first to the listener and then to the child;
`PortHandedOver` says it of the answer; both are refinements of `Handoff`. `FileIsWhole`
says that a thread that has closed its file holds the bytes of the client that its child
answered, all of them and in order. `FileArrives` is liveness: the client comes to its end,
and a thread has its whole file, in order, whether the client pauses between its calls or
not. It promises the end of the thread too, but for two ways to stay for ever, which it
names: the FIN meets the linger (`FinInLinger`, the violation of `fin_in_linger`, which a
sleep of 0 seconds allows here as well), or finds the queue full, and all are lost
(`FinLost`).

`RepliesAreAnswers` compares what the clients of the UDP service have printed with the
input as a whole, up to a group without a number if there is one, read by the definition
`TrueName` in place of the table. Nothing in a
reply names its request or its receiver, so this rests on two things that are no single
line of the code: `OneAtATime`, nothing late is left for a client's next request, and that
a stray datagram, which makes the server handle its old message again, is answered to the
stray's address. Strays reach the server only: a client would take one for its reply, and
its source for the server's address (`UDPClient.cc`, lines 83-90), and nothing in the code
or in its documents speaks of that. `EnrolledOnce` says that `clients_` grows with new addresses only, and
that a number in it keeps its meaning. `GetReturns` is liveness: a request that was sent
is answered unless a datagram of that client is lost, the server has been stopped or the
client killed. A client that sends STOP or STOP_SESSION waits for ever afterwards: nobody
answers these, although a comment of `ClientMain.cc` (lines 87 and 88) has it end there.

`AnswersWhileServing` compares what each client has printed with the input of the server
in the same way: requests that come in during the
load, or while others connect, leave or die, are answered rightly and in order.
`PollsWhatIsOpen` and `ClosedOnRequest` say that `clients_` and the descriptors stay
together although numbers are reused, so that nobody's session ends for another's sake.
`CallsReturn` is liveness: a request that was sent comes back, if with nothing when the
server stops, unless a client was killed, or the student asked for has no name: that
call need not return (see below), and another client's call must return nevertheless.
Three clients make `clients_` long enough for a
wrong element to be erased or left out.

Bounds. Messages hold one payload byte (`MaxData = 1`), so that a send of two bytes is two
chunks; in `one_way` they hold two, and the first read stops inside a message: `offset_` is
1 until the next read, which goes on from there over the end of that message, through the
next, and stops at the mark with room left; the third leaves a mark in front, which the
fourth skips; the fifth returns 0. Five sequence numbers hold all that a run needs with `FinSeqnum = 3`
above the numbers of data and EOS and 4 = NoNumber, the number before 0, apart from both.
Sends of different lengths, one after the other, are enough for messages and answers of one transfer to meet
the next; queues of three hold an answer to each of the last two messages and a FIN. Each
of `recv`'s ways to leave (EOS, FIN, silence, next message) happens in `one_way`. In
`exchange_ends` a listener with two children accepts again while its first child is
served, so that `accept` waits with a cleared endpoint when late answers come. Three
clients of a name service are enough for two to share a host, two to share a port, and a
third to interfere while one waits; an input of six or eight lines names a student twice,
one in two groups, and one with no name.

Fairness. `FairSpec` assumes that a thread that can go on eventually does, and that among
endlessly many datagrams that a socket sends some arrive and, if evil is done at all, some
are lost. `ucpSendTo` draws a random number per datagram, independently, with 63% for
intact: both have probability one. The second is needed: two sockets that both answer
everything end their exchange only when a datagram is lost.

`RcsAccept` assumes the same of its sockets, which have a thread each.

For the TCP service: the server and a client that has something to receive go on. Nobody
is assumed to type, to be killed or to be silent. For the UDP service: `main()` reads its
input, and of the datagrams that are queued each client's is received in the end, since
the queue of a socket is first come, first served; the network is not assumed to deliver
anything that it may lose.

Deadlock is checked in all runs but three. In `tcp_killed` the server may wait in `poll()`
when its clients are gone and nobody counts three minutes. In
`udp_service` everything stops by design: a client waits for an answer to its last message
that nobody sends. In
`double_close` threads stop when their descriptor is no longer theirs. Elsewhere two
sockets that wait for each other still time out, so only `Terminating`, when both scripts
are done, stops; `Ended` and `Finished` are its like in `TcpService` and `RcsAccept`.

### What the violated runs show

* `fin_in_linger`. `recv` has queued the EOS and lingers when the peer, its `send`
  complete, closes. The FIN closes the lingering socket inside `rawrecv`; `finalizeRecv`
  does not look at `isClosing_`, `recvfrom` now fails with EBADF, which counts as one
  byte, and the loop spins for ever. This is what two programs do that send a file and
  close.
* `linger_cut`. An empty datagram that arrives after a timeout is taken for another
  timeout (`errno` is stale), so the linger ends while the sender still lacks the answer
  to its EOS. The next `recv` answers that EOS with 65535, for ever.
* `crossing`. Both applications send first. Message 0 of each is the answer to message 0
  of the other. Both sends succeed, nothing is delivered.
* `leftover`. The second `recv` waits for another message although the rest of the first
  one is in the buffer; `recv` promises to return it.
* `tcp_killed`. A client ends without STOP_SESSION. `recv` returns 0; `run` does not know
  this case and hands its old buffer to `handle_msg`. A GET is left there, or, before the
  first message, zeros, which are a GET too. The reply goes to a closed connection and is
  answered with a reset, `recv` returns 0 again, the next reply raises SIGPIPE and the
  server is gone, though nobody sent STOP.
* `two_clients`. Two requests arrive in one `recv` of the listener, which looks at numbers
  only. No datagram is lost. `endPoint_` is the source of the first datagram and gets the port;
  `fromEndpoint_`, which the child answers to, is the source of the last. So one client is
  told to speak to a child that answers the other. The cleared endpoint has a second
  consequence: a late answer of an earlier client that comes first makes that client the
  one to whom `accept` answers.
* `double_close`. A FIN makes `rawrecv` close the socket's descriptor. The thread then
  reads 0 and calls `rcsClose`, which closes the number once more. Between the two,
  `main()` has made the next child, or another thread opened its file, under that number.

Three things are no runs of their own.

A student line with nothing after the number enters an empty name. Over TCP `respond`, of
which the comment says that it "Sends a reply to a client." (`TCPServer.cc`, line 231),
then sends no bytes, `run` goes back to `poll`, and the client waits in a `recv` without a
timeout until the server ends. So `CallsReturn` is false without its exception
(`AsksNoName`): in `tcp_service` a client asks for such a student. Over UDP the empty
datagram arrives and the client prints an empty line.

`cin >> group_id` fails on what is no number: nobody looks at that, the loop of `main()`
ends as at EOF, and the server, which ends with an error on any other bad line, serves
what came before, though a comment speaks of "the input terminated by EOF"
(`ServerMain.cc`, line 21). The properties of the table and of the replies hold for the
lines that were read.

Nothing in the repository speaks of the third: when a client stops the TCP server,
`send_message` of another one, whose request is on its way, tests `bytes`, a constant, in
place of the result of `recv`, and prints an empty line, or, after a reset, what its
buffer holds, as the reply. `AnswersWhileServing` ends where the server does.

## 4. What is proved

TLAPS proves these for every set of constants that satisfies the assumptions in the
modules: any bytes, any number of sequence numbers, any chunk size, any queue capacity,
any scripts of any length.

* `TypesAreKept` (`RcsLinkProofs`): `Spec => [](TypeOK /\ InCall)`. The types alone are not
  inductive: what a step of `recv` reads from `Head(script)` is a size only while the
  current call is a `recv`; `InCall` says so. Lemma `ReadTypes` shows that what `read`
  returns contains no mark, for every buffer and every size.
* `StreamInvariant`, `NothingIsLost`, `InOrderOneSend`, `InOrderEof` (`RcsLinkProofs`):
  the bytes between `send`, the buffer and `recv`, for two joined sockets with any
  scripts, in both directions, over any path, reordering included.
* `OneWayInvariant`, `OneWayDelivery`, `OneWayImplementsHandoff` (`RcsOneWayProofs`): for
  a one-way transfer over a path that keeps the order, `OneWayInv` is an invariant,
  `InOrder` and `AckedIsAccepted` follow, and `Handoff` is implemented.
* `OneWayOneSend`, `OneWayEof` (`RcsOneWayProofs`): there, too, no `recv` returns bytes of
  two sends, and one that returns 0 has left nothing acknowledged unread.
* `TurnsInvariant`, `TurnsDelivery`, `TurnsImplementHandoff`, `TurnsOneSend`, `TurnsEof`
  (`RcsTurnsProofs`): for two applications that take turns, over a path that keeps the
  order, `TurnsInv` is an invariant, and all of the above holds in both directions at
  once. Taking turns means that the n-th calls of the two fit, for each n: one is a `send`
  and the other a `recv` with room for all of it, or one of them closes.
* `DequeInvariant`, `DequeStream` (`MsgBufferProofs`): `msg_buffer_t` as it is programmed
  implements the stream that all other modules use.

The argument about the stream (`RcsLinkProofs`). `NothingLost` alone is nearly inductive: `recv` cuts
the buffer in two where `read` stops, and drops nothing but marks there. The other two
need more, since places in the stream of bytes are compared that different calls have
made. `StreamInv` says where the ends of `send` are: each call that has returned ended in
an EOS where its bytes end, but for the one that a FIN cut off, after which no bytes went
out (`SendsEnd`); each EOS that was queued is a mark in the buffer until it has been read
past, and no result of `recv` runs over it (`MarksKept`). A result may not run over the
end of a call either, once the queued messages are a prefix of the offered ones: that is
`InOrder`, hence the form of `InOrderOneSend`, `Spec => ([]InOrder => []OneSendPerRecv)`.
`InOrder` is not true of every pair of scripts (see `crossing`); where it is proved, as in
`RcsOneWay`, the conclusion is free of it. Likewise `InOrderEof`: `recv` has returned 0
only on a socket that a FIN has closed and with its bytes read (`ZeroAtEnd`,
`ClosedIsDeaf`), so that what was returned is all that was queued, and with
`AckedIsAccepted` all that was confirmed. `PayloadIsData` says that only data messages
carry bytes: `recv` looks at the number first, so it may count a FIN that has the expected
one, or queue an acknowledgement, and neither may add or lose a byte.

The argument of `RcsOneWayProofs`. Let the last message offered be the n-th. `InOrder`
alone is not inductive: it says nothing of copies still on their way. `OneWayInv` adds
where each side is (`SenderPlace`, `ReceiverPlace`) and what is on its way: to the
receiver, copies of message n, behind copies of n-1 as long as n has not been queued
(`DataOnWay`); to the sender, answers to n once n has been queued, behind answers to n-1
as long as the sender has not seen one to n, and answers with `NoNumber` from a `recv`
that has nothing yet (`AnswersOnWay`). Since numbers of neighbours differ (`Neighbours`),
a message with the expected number is the n-th and is new (`ExpectedIsNext`), and an
answer with the number of the n-th says that it has been queued (`AnswerSeen`). The order
is used in both: once a copy of n has been taken, no n-1 follows. A send must not be
empty, for else its EOS has number 0 and so has the message after it; nor so long that a
message gets the number of a FIN. `OneWayAssumption` states all this. It has one lemma per
step; the three theorems follow from `OneWayNext`.

The argument of `RcsTurnsProofs`. A dialogue shares its two queues: on the way to a socket
are messages of its peer and answers to its own, and `acksend` looks at nothing but the
number, so it would take a message of the peer for an answer, and `recv` would queue an
answer as a message. That this does not happen takes more than the two directions on their
own. `Transfers` says of each direction what `OneWayInv` says, and besides how the two
mix: no answer comes behind a new message, behind answers come only messages that open a
`send` (`Apart`), no answer is on its way to a socket in the middle of a `recv`, and no
message but an opening one to a socket that has had an answer to its first (`Unmixed`).
An opening message has number 0 and `acksend` that waits for 0 does not get one, since its
peer is not sending. That is what `TakesTurns` is for: as long as both are open, both have
made the same number of calls, or one is ahead by one, and then the other has only to
return: its EOS has been queued and it waits for the answer, or it lingers with its message
in the buffer (`Turn`). A socket may therefore open the next `send` while its peer still
waits for the answer to an EOS: that peer takes the opening message, number 0, for no
answer, since an EOS never has number 0.

That an application knows from the return of its call where the other is, rests on what
`recv` returns: all of one `send` (`Buffered`, `Portion`: what is unread and what is still
to come make up the argument of the peer's call). It is here that the size of a `recv`
matters. With a smaller one, bytes stay in the buffer; the next `recv` waits for a message
all the same, and when an empty datagram ends the linger before it, the copy of the old EOS
makes it return these bytes without a message. The two are then out of step, both may open a
`send`, and each takes the other's first message for its answer, as in `crossing`. So the
assumption that a `recv` has room for the message is needed, and `TurnsAssumption` states
it, with those of the one-way transfer. Once a socket has closed, turns no longer matter:
it hears nothing (`ClosedIsDeaf`), and what its peer still sends is not answered;
`ClosedAtEnd` says that nothing of it was left unconfirmed unless the peer had closed first.

There is one lemma per step for `Transfers` and the handoff of both directions (`...Kept`)
and one for `TakesTurns` (`...Turned`); they rest on what a kind of step does, whoever
takes it: send again (`RepeatKept`), send on (`OfferKept`), answer (`AnswerKept`), queue
(`TakeKept`), learn (`LearnKept`), close (`CloseKept`). `TurnsNext` puts them together, and
the theorems follow from it.

The argument of `MsgBufferProofs`. `DequeInv` says of each deque that `offset_` stands
inside the first message, that only data messages have bytes, that messages and offset
represent the stream, and that `totalSize_` counts its bytes. `queueMessage` appends to
both. For `read` there is a loop invariant, `Copying`: the stream at its start is some
marks that have been dropped, the bytes that have been copied, the mark that the loop was
left at, if it was, and what the deque now represents; and bytes copied and length left
make up the size argument. There is one lemma for a round that meets an EOS (`RoundMark`),
one for a round that copies bytes (`RoundBytes`), and one for the end (`CopyEnds`). `Copy`
runs at most as many rounds as there are messages because a round drops one or is the
last. `BufferedIsLink` says that `RcsBuffered` adds variables and no behaviour, so that
the theorems above hold of it.

What `FlattenSeq` and `Copy` compute is proved by induction. The library's theorems for
that take an operator and cannot be used here, so `SeqLemmas` states induction with a set
in its place: a set with 0, and with n + 1 for each n in it, contains all natural numbers
(`NatSetInduction`, from the minimum of the set of exceptions), and the same for sequences
that grow at their end (`SeqSetInduction`). From these follow the laws of `FlattenSeq`
(`FlattenAppend`, `FlattenConcat`, `FlattenPrefix`), which the proofs about bytes, about
deques and about the replies of the TCP service rest on.

The table and the two services.

* `UdpTableAndTypes`, `UdpTypes` (`UdpServiceProofs`): types, and `TableIsInput`. The
  table's part, `TableInv`, is proved once in `NameTableProofs` for both services: a line
  changes the last line of one student in one group (`LinesFor`), and leaves the others.
* `UdpRepliesAreAnswers`, `UdpOneAtATime`, `UdpEnrolledOnce`, for any number of clients,
  any input, any strays, with losses and reordering. The invariant is `UdpInv`. What is
  printed depends on what is on its way, so per client it says: there is at most one
  datagram of its own in the network, request or reply (`Alone`); that one is the request
  it waits with, or the true name for it (`UnderWay`); and it has printed one less than it
  has asked while it waits, else as many (`Answered`). A stray has an address of its own,
  so its reply is nobody's. That a server that runs has read its input to the end, or to a
  group without a number (`Loaded`, `AllIsRead`), turns what `get` finds into what the
  input says.
* `TcpTypes`, `TcpPollsWhatIsOpen`, `TcpClosedOnRequest`, `TcpPrintsItsAnswer`
  (`TcpServiceProofs`). The invariant is `TcpInv`. `Watching`: the elements of `clients_`
  are the listener and the open descriptors, each once, and the walk stands on an open one
  when it receives; that there is a free number for a new connection is a counting
  argument (as many descriptors as elements, one candidate more than that).
  `AcceptedOnce`: no connection has two descriptors. `Fresh`, `Due` and `Served`, per
  client: what its two streams hold before `connect`, while it waits (the request, or
  after it the answer, never both), and while it reads its next line (nothing).
  `TcpPrintsItsAnswer`: whatever a client prints while the server runs is the answer to
  the request it has waited with.
* `TcpAnswersWhileServing`: so all that a client has printed by then are the answers to
  its first GETs, in order. Beside `TcpInv` this needs `TcpProgress`: the lines of a
  client are those that are done, followed by those that are left, and while the server
  runs it has printed the answers to the former. A line that is no request is done without
  an answer, and no step of the server does a line.

All of these assume of the constants only what the `ASSUME`s of the modules say: addresses
of clients differ, scripts and inputs consist of lines, and, over TCP, the set of clients
is finite.

Only model-checked: all of `exchange_ends`, that is what happens through a listener and
its child, and `FileIsWhole`; and the liveness properties, which are out of the prover's
reach. In `RcsAccept` a client changes its partner in the middle of a conversation, and the
listener's late answers mix with the child's; an invariant for it has three queues to
follow and a socket that knows its peer only from the last datagram. Scripts that do not
take turns are not covered by the proofs of order, and cannot be: `crossing` is one.
`StreamInvariant` and its consequences hold for them too.

## 5. Not modelled, and what could come next

1. Numbers at their limit: a send so long that its EOS has number 0 again, an empty send,
   a FIN whose number 666 is expected by `recv` or by `acksend`. And the result of `send`,
   which is the full length even when a FIN has stopped it in the middle.
2. `mybind` that finds no free port: `accept` does not look at the result.
3. The data race on the map of sockets, which C++ leaves undefined.
4. All 2048 FINs lost because the peer's queue is full: the model has the case, but no
   document says what `recv` of the peer should do then.
5. RCS over a path that reorders: `Path = "any"` is in the model; numbers restart at 0 in
   each call, so nothing holds there, and nothing is promised.
6. A UDP client's port given to another program while a reply is on its way.
7. Proofs: the join of a single client in `RcsAccept`, and from it `FileIsWhole`; turns in
   which a `recv` has less room than the `send`, over a path without empty datagrams.

Left out for good: output, parsing of command lines and messages, the formats of `a2`
beyond what changes state, the search for a network interface, the test programs (two of
them are scripts of `MCRcsLink`), and `a7`.
