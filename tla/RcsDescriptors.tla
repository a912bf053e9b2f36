--------------------------- MODULE RcsDescriptors ---------------------------
(***************************************************************************)
(* The descriptors of rcsapp-server: the map of RCS sockets (a4/rcs.cc and *)
(* the static part of a4/rcs_t.cc), the kernel's table of open files under *)
(* it, and the threads that use both.  What goes over the connections is   *)
(* left open: a recv() returns something, or a FIN has come.               *)
(*                                                                         *)
(* An action is what a thread does up to its next system call that takes   *)
(* or gives back a descriptor, or that waits.  Calls on the map are taken  *)
(* as atomic, although no lock makes them so.                              *)
(***************************************************************************)
EXTENDS Integers, FiniteSets, Functions

CONSTANTS
  FirstFd,        \* the least descriptor the program was not started with
  MaxConnections  \* how many clients connect

Connection == 1 .. MaxConnections   \* the RCS descriptors rcsAccept returns
Listener   == 0

\* What a descriptor of the kernel stands for, and a file a thread does not have.
SocketOf(id) == [kind |-> "socket", id |-> id]
FileOf(id)   == [kind |-> "file", id |-> id]
NoFile       == -1

VARIABLES
  open,     \* the kernel's table: from descriptors to what they stand for
  sockets,  \* sSocketIdentifiers: from RCS descriptors to sockets
  nextId,   \* sNextId
  mainPc,   \* what main() does
  pc, wfd   \* for the thread of a connection: what it does, and its file

threadVars == <<pc, wfd>>
vars == <<open, sockets, nextId, mainPc, threadVars>>

-----------------------------------------------------------------------------
\* The kernel gives out the least descriptor that is free.
NewFd == CHOOSE fd \in FirstFd .. FirstFd + Cardinality(DOMAIN open) :
           fd \notin DOMAIN open /\ \A f \in FirstFd .. fd - 1 : f \in DOMAIN open

Opened(what) == [fd \in DOMAIN open \cup {NewFd} |-> IF fd = NewFd THEN what ELSE open[fd]]

\* close() of a number, whatever it stands for by now.
Closed(fd) == Restrict(open, DOMAIN open \ {fd})

\* makeSocket(): the constructor of rcs_t takes the descriptor.
MakeSocket ==
  /\ sockets' = [id \in DOMAIN sockets \cup {nextId} |->
                   IF id = nextId THEN [fd |-> NewFd, isClosing |-> FALSE] ELSE sockets[id]]
  /\ open' = Opened(SocketOf(nextId))
  /\ nextId' = nextId + 1

\* main() has made the listener with makeSocket() and accepts.
Init ==
  /\ open = [fd \in {FirstFd} |-> SocketOf(Listener)]
  /\ sockets = [id \in {Listener} |-> [fd |-> FirstFd, isClosing |-> FALSE]]
  /\ nextId = 1 /\ mainPc = "accept"
  /\ pc = [id \in Connection |-> "none"] /\ wfd = [id \in Connection |-> NoFile]

-----------------------------------------------------------------------------
(* main() *)

\* accept() makes the child and waits for a client.
AcceptBegins ==
  /\ mainPc = "accept" /\ nextId <= MaxConnections
  /\ MakeSocket
  /\ mainPc' = "wait"
  /\ UNCHANGED threadVars

\* A client has come: accept() returns and a thread is started.
AcceptReturns ==
  /\ mainPc = "wait"
  /\ mainPc' = "accept"
  /\ pc' = [pc EXCEPT ![nextId - 1] = "open"]
  /\ UNCHANGED <<open, sockets, nextId, wfd>>

-----------------------------------------------------------------------------
(* serviceConnection() *)

Moves(id, from, to) == pc[id] = from /\ pc' = [pc EXCEPT ![id] = to]

OpenFile(id) ==
  /\ Moves(id, "open", "recv")
  /\ open' = Opened(FileOf(id))
  /\ wfd' = [wfd EXCEPT ![id] = NewFd]
  /\ UNCHANGED <<sockets, nextId, mainPc>>

\* recvfrom works on the socket of this connection.  What a thread does with a
\* descriptor that is no longer its own is left out: it comes after the damage.
Hears(id) == /\ sockets[id].fd \in DOMAIN open
             /\ open[sockets[id].fd] = SocketOf(id) /\ ~sockets[id].isClosing

\* recv() returns bytes and they are written; if they cannot be, that is the end.
RecvAndWrite(id) ==
  /\ pc[id] = "recv" /\ Hears(id)
  /\ pc' = [pc EXCEPT ![id] = IF wfd[id] \in DOMAIN open THEN "recv" ELSE "close"]
  /\ UNCHANGED <<open, sockets, nextId, mainPc, wfd>>

\* A FIN: close() inside rawrecv().  recv() still returns what is in the buffer.
FinArrives(id) ==
  /\ pc[id] = "recv" /\ Hears(id)
  /\ sockets' = [sockets EXCEPT ![id].isClosing = TRUE]
  /\ open' = Closed(sockets[id].fd)
  /\ UNCHANGED <<nextId, mainPc, threadVars>>

\* recv() returns 0.
RecvEnds(id) ==
  /\ sockets[id].isClosing
  /\ Moves(id, "recv", "close")
  /\ UNCHANGED <<open, sockets, nextId, mainPc, wfd>>

CloseFile(id) ==
  /\ Moves(id, "close", "rcsClose")
  /\ open' = Closed(wfd[id])
  /\ wfd' = [wfd EXCEPT ![id] = NoFile]
  /\ UNCHANGED <<sockets, nextId, mainPc>>

\* rcsClose(): destroySocket() closes the socket, also one a FIN has closed.
RcsClose(id) ==
  /\ Moves(id, "rcsClose", "gone")
  /\ open' = Closed(sockets[id].fd)
  /\ sockets' = Restrict(sockets, DOMAIN sockets \ {id})
  /\ UNCHANGED <<nextId, mainPc, wfd>>

-----------------------------------------------------------------------------
Thread(id) ==
  /\ pc[id] \notin {"none", "gone"}
  /\ \/ OpenFile(id) \/ RecvAndWrite(id) \/ FinArrives(id) \/ RecvEnds(id)
     \/ CloseFile(id) \/ RcsClose(id)

Next == AcceptBegins \/ AcceptReturns \/ \E id \in Connection : Thread(id)

Spec == Init /\ [][Next]_vars

-----------------------------------------------------------------------------
(* Safety *)

\* rcsClose() closes its own socket only: as long as nobody has closed a socket
\* or a file, its descriptor stands for it.
OwnsDescriptor ==
  /\ \A id \in DOMAIN sockets : ~sockets[id].isClosing =>
       sockets[id].fd \in DOMAIN open /\ open[sockets[id].fd] = SocketOf(id)
  /\ \A id \in Connection : wfd[id] # NoFile =>
       wfd[id] \in DOMAIN open /\ open[wfd[id]] = FileOf(id)
=============================================================================
