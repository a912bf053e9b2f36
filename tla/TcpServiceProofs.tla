-------------------------- MODULE TcpServiceProofs --------------------------
(***************************************************************************)
(* Proofs about the TCP name service, for any inputs, any number of        *)
(* clients and any lines they send, and whoever is killed: what run()      *)
(* polls is what is open, nobody's session ends for another's sake, and a  *)
(* client is given the answer to its request.                              *)
(***************************************************************************)
EXTENDS TcpService, NameTableProofs, SeqLemmas

(***************************************************************************)
(* The invariant.                                                          *)
(***************************************************************************)
Loaded == serverPc \in {"poll", "accept", "recv"} => loaded = Readable

\* clients_ is the descriptor table, whatever run() does, with the listener and
\* without repetition; and recv() is called for a connection.
Watching ==
  serverPc # "gone" =>
    /\ Range(clients) = {Listener} \cup DOMAIN open
    /\ IsInjective(clients)
    /\ IsFiniteSet(DOMAIN open) /\ Len(clients) = Cardinality(DOMAIN open) + 1
    /\ serverPc = "recv" => clients[it] \in DOMAIN open

\* A connection is accepted once.
AcceptedOnce ==
  /\ IsInjective(backlog) /\ IsInjective(open)
  /\ Range(backlog) \cap Range(open) = {}

\* Before connect() a client has no connection.
Fresh(c) ==
  clientPc[c] = "start" =>
    /\ c \notin Range(backlog) \cup Range(open)
    /\ toServer[c] = << >> /\ toClient[c] = << >> /\ serverEnd[c] = "up"

\* One request at a time, and what is sent back is its answer.
Due(c) ==
  /\ toServer[c] \in {<< >>, <<Request(c)>>}
  /\ toClient[c] # << >> =>
       /\ toServer[c] = << >> /\ Request(c).op = "get"
       /\ toClient[c] = <<TrueName(Request(c).key)>>

Served(c) ==
  serverPc # "gone" =>
    /\ serverEnd[c] # "up" => \/ clientPc[c] = "gone"
                              \/ clientPc[c] = "waiting" /\ Request(c) = StopSession
    /\ clientPc[c] = "reading" => toServer[c] = << >> /\ toClient[c] = << >>
    /\ clientPc[c] = "waiting" => Due(c)

AwaitsName(c) == clientPc[c] = "waiting" /\ Request(c).op = "get"

ConnInv(c) == Fresh(c) /\ (clientEnd[c] # "up" => clientPc[c] = "gone") /\ Served(c)

TcpInv ==
  /\ TypeOK /\ TableIsInput /\ AllReadable /\ Loaded
  /\ Watching /\ AcceptedOnce
  /\ \A c \in Client : ConnInv(c)

\* Of its lines a client has done some, and printed their answers if the server
\* has run so far; the others are left.
Progress(c) ==
  \E done \in Seq(ClientLine) :
    /\ Script[c] = done \o lines[c]
    /\ serverPc # "gone" => printed[c] = AnswersTo(done)

TcpProgress == \A c \in Client : Progress(c)

-----------------------------------------------------------------------------
(* Operators *)

\* The walk stops at an element with events, or nowhere.
LEMMA WalkStops ==
  ASSUME clients \in Seq(Nat), NEW i \in Nat \ {0}, NEW set
  PROVE  \/ Walk(i, set) = 0
         \/ Walk(i, set) \in DOMAIN clients /\ clients[Walk(i, set)] \in set
<1> DEFINE I == {j \in i .. Len(clients) : clients[j] \in set}
<1>1. Walk(i, set) = IF I # {} THEN Min(I) ELSE 0
  BY DEF Walk, SelectInSubSeq
<1>2. Len(clients) \in Nat /\ DOMAIN clients = 1 .. Len(clients)
  OBVIOUS
<1>3. I \subseteq 1 .. Len(clients)
  BY <1>2
<1>4. CASE I # {}
  <2>1. I \subseteq Nat
    BY <1>3
  <2> HIDE DEF I
  <2>2. Min(I) \in I
    BY <1>4, <2>1, MinOfNats
  <2> QED BY <1>1, <1>2, <1>3, <1>4, <2>2 DEF I
<1> QED BY <1>1, <1>4

\* A descriptor that is free and one for each client: the least is not open.
LEMMA FreeFd ==
  ASSUME TcpInv, backlog # << >>
  PROVE  NewFd \in Nat \ {Listener} /\ NewFd \notin DOMAIN open
<1> DEFINE n == Cardinality(Client)
           Free == (1 .. n) \ DOMAIN open
           c == Head(backlog)
<1>1. n \in Nat /\ IsFiniteSet(Client)
  BY TcpAssumption, FS_CardinalityType
<1>2. c \in Client /\ c \in Range(backlog)
  <2>1. backlog \in Seq(Client) /\ Len(backlog) \in Nat \ {0}
    BY DEF TcpInv, TypeOK
  <2> QED BY <2>1 DEF Range
<1>3. c \notin Range(open)
  BY <1>2 DEF TcpInv, AcceptedOnce
<1>4. /\ IsFiniteSet(Client \ {c}) /\ Cardinality(Client \ {c}) = n - 1
  BY <1>1, <1>2, FS_RemoveElement
<1>5. [fd \in DOMAIN open |-> open[fd]] \in Injection(DOMAIN open, Client \ {c})
  <2>1. \A fd \in DOMAIN open : open[fd] \in Client \ {c}
    BY <1>3 DEF TcpInv, TypeOK, Range
  <2> QED BY <2>1 DEF TcpInv, AcceptedOnce, IsInjective, Injection
<1>6. IsFiniteSet(DOMAIN open) /\ Cardinality(DOMAIN open) <= n - 1
  BY <1>4, <1>5, FS_Injection
<1>7. Cardinality(1 .. n) = n
  BY <1>1, FS_Interval
<1>8. Free # {}
  <2> SUFFICES ASSUME Free = {}  PROVE FALSE
    OBVIOUS
  <2>1. 1 .. n \in SUBSET DOMAIN open
    OBVIOUS
  <2>2. Cardinality(1 .. n) <= Cardinality(DOMAIN open) /\ Cardinality(DOMAIN open) \in Nat
    BY <1>6, <2>1, FS_Subset, FS_CardinalityType
  <2> QED BY <1>1, <1>6, <1>7, <2>2
<1>9. /\ Min(Free) \in Free /\ \A fd \in Free : Min(Free) <= fd
  <2>1. Free \subseteq Nat
    BY <1>1
  <2> HIDE DEF Free
  <2> QED BY <1>8, <2>1, MinOfNats
<1>10. \E fd \in 1 .. n : fd \notin DOMAIN open /\ \A f \in 1 .. fd - 1 : f \in DOMAIN open
  <2>1. \A f \in 1 .. Min(Free) - 1 : f \in 1 .. n /\ ~(Min(Free) <= f)
    BY <1>1, <1>9
  <2>2. \A f \in 1 .. Min(Free) - 1 : f \in DOMAIN open
    BY <1>9, <2>1
  <2> QED BY <1>9, <2>2
<1>11. NewFd \in 1 .. n /\ NewFd \notin DOMAIN open
  BY <1>10 DEF NewFd
<1> QED BY <1>1, <1>11 DEF Listener

\* erase() removes the element and nothing else.
LEMMA Erased ==
  ASSUME NEW s \in Seq(Nat), IsInjective(s), NEW i \in DOMAIN s
  PROVE  /\ RemoveAt(s, i) \in Seq(Nat)
         /\ Len(RemoveAt(s, i)) = Len(s) - 1
         /\ IsInjective(RemoveAt(s, i))
         /\ Range(RemoveAt(s, i)) = Range(s) \ {s[i]}
<1> DEFINE t == RemoveAt(s, i)
           n == Len(s)
           u == SubSeq(s, 1, i - 1)
           v == SubSeq(s, i + 1, n)
<1>1. n \in Nat /\ DOMAIN s = 1 .. n /\ i \in 1 .. n /\ \A k \in 1 .. n : s[k] \in Nat
  OBVIOUS
<1>2. u \in Seq(Nat) /\ Len(u) = i - 1 /\ \A k \in 1 .. i - 1 : u[k] = s[k]
  BY <1>1, SubSeqProperties
<1>3. v \in Seq(Nat) /\ Len(v) = n - i /\ \A k \in 1 .. n - i : v[k] = s[i + k]
  <2>1. \A k \in i + 1 .. n : s[k] \in Nat
    BY <1>1
  <2>2. i + 1 \in Int /\ n \in Int
    BY <1>1
  <2> HIDE DEF n
  <2>3. /\ v \in Seq(Nat) /\ Len(v) = IF i + 1 <= n THEN n - (i + 1) + 1 ELSE 0
        /\ \A k \in 1 .. n - (i + 1) + 1 : v[k] = s[(i + 1) + k - 1]
    BY <2>1, <2>2, SubSeqProperties
  <2> HIDE DEF v
  <2>4. \A k \in 1 .. n - i : k \in 1 .. n - (i + 1) + 1 /\ (i + 1) + k - 1 = i + k
    BY <1>1
  <2>5. \A k \in 1 .. n - i : v[k] = s[i + k]
    BY <2>3, <2>4
  <2> QED BY <1>1, <2>3, <2>5
<1>4. /\ t \in Seq(Nat) /\ Len(t) = n - 1 /\ DOMAIN t = 1 .. n - 1
      /\ \A k \in 1 .. n - 1 : t[k] = IF k < i THEN s[k] ELSE s[k + 1]
  <2>1. t = u \o v
    BY DEF RemoveAt
  <2> HIDE DEF t, u, v, n
  <2>2. t \in Seq(Nat) /\ Len(t) = n - 1
    BY <1>1, <1>2, <1>3, <2>1
  <2>3. ASSUME NEW k \in 1 .. n - 1
        PROVE  t[k] = IF k < i THEN s[k] ELSE s[k + 1]
    <3>1. CASE k < i
      BY <1>1, <1>2, <1>3, <2>1, <3>1
    <3>2. CASE ~(k < i)
      <4>1. k - (i - 1) \in 1 .. n - i /\ i + (k - (i - 1)) = k + 1
        BY <1>1, <3>2
      <4>2. k \in 1 .. Len(u) + Len(v) /\ ~(k <= Len(u)) /\ k - Len(u) = k - (i - 1)
        BY <1>1, <1>2, <1>3, <3>2
      <4>3. t[k] = v[k - Len(u)]
        BY <1>2, <1>3, <2>1, <4>2, ConcatProperties
      <4>4. t[k] = v[k - (i - 1)]
        BY <4>2, <4>3
      <4> QED BY <1>3, <3>2, <4>1, <4>4
    <3> QED BY <3>1, <3>2
  <2> QED BY <2>2, <2>3
<1> HIDE DEF t, n, u, v
<1> DEFINE From(k) == IF k < i THEN k ELSE k + 1
<1>5. ASSUME NEW k \in 1 .. n - 1
      PROVE  From(k) \in 1 .. n /\ From(k) # i /\ t[k] = s[From(k)]
  BY <1>1, <1>4, SMTT(30)
<1>6. \A a, b \in 1 .. n - 1 : From(a) = From(b) => a = b
  BY <1>1
<1>7. ASSUME NEW k \in 1 .. n, k # i
      PROVE  \E j \in 1 .. n - 1 : From(j) = k
  <2>1. CASE k < i
    BY <1>1, <2>1
  <2>2. CASE ~(k < i)
    <3>1. k - 1 \in 1 .. n - 1 /\ From(k - 1) = k
      BY <1>1, <1>7, <2>2
    <3> QED BY <3>1
  <2> QED BY <2>1, <2>2
<1> HIDE DEF From
<1>8. \A a, b \in 1 .. n : s[a] = s[b] => a = b
  BY <1>1 DEF IsInjective
<1>9. IsInjective(t)
  <2> SUFFICES ASSUME NEW a \in 1 .. n - 1, NEW b \in 1 .. n - 1, t[a] = t[b]
               PROVE  a = b
    BY <1>4 DEF IsInjective
  <2>1. From(a) = From(b)
    BY <1>5, <1>8
  <2> QED BY <1>6, <2>1
<1>10. Range(t) = Range(s) \ {s[i]}
  <2>1. ASSUME NEW k \in 1 .. n - 1  PROVE t[k] \in Range(s) \ {s[i]}
    BY <1>1, <1>5, <1>8 DEF Range
  <2>2. ASSUME NEW k \in 1 .. n, s[k] # s[i]  PROVE s[k] \in Range(t)
    <3>1. PICK j \in 1 .. n - 1 : From(j) = k
      BY <1>7, <2>2
    <3>2. t[j] = s[k]
      BY <1>5, <3>1
    <3> QED BY <1>4, <3>2 DEF Range
  <2>3. Range(t) \subseteq Range(s) \ {s[i]}
    BY <1>4, <2>1 DEF Range
  <2>4. Range(s) \ {s[i]} \subseteq Range(t)
    BY <1>1, <2>2 DEF Range
  <2> QED BY <2>3, <2>4
<1> QED BY <1>4, <1>9, <1>10 DEF t, n

\* What the input says of a key does not change.
LEMMA TrueNameStays ==
  ASSUME roster' = roster  PROVE \A k : TrueName(k)' = TrueName(k)
BY RosterFixed DEF TrueName

\* The ends of connections, and a buffer with one message in it.
LEMMA EndTypes ==
  /\ \A end \in End : AfterSend(end) \subseteq End
  /\ \A q : EndOf(q) \in End
BY DEF End, AfterSend, EndOf

LEMMA OneMessage ==
  ASSUME NEW m \in Message
  PROVE  {m} \subseteq Message /\ Cardinality({m}) <= 1
BY FS_Singleton

-----------------------------------------------------------------------------
(* Steps, as far as they are alike *)

\* A connection that nothing happens to is as before.
LEMMA ConnUntouched ==
  ASSUME NEW c \in Client, ConnInv(c), roster' = roster,
         lines'[c] = lines[c], clientPc'[c] = clientPc[c],
         toServer'[c] = toServer[c], toClient'[c] = toClient[c],
         clientEnd'[c] = clientEnd[c], serverEnd'[c] = serverEnd[c],
         c \in Range(backlog') \cup Range(open') => c \in Range(backlog) \cup Range(open),
         serverPc' # "gone" => serverPc # "gone"
  PROVE  ConnInv(c)'
<1>1. Request(c)' = Request(c) /\ \A k : TrueName(k)' = TrueName(k)
  BY TrueNameStays DEF Request
<1>2. Due(c) => Due(c)'
  BY <1>1 DEF Due
<1>3. Fresh(c)' /\ Served(c)'
  BY <1>1, <1>2 DEF ConnInv, Fresh, Served
<1> QED BY <1>3 DEF ConnInv

\* What run() keeps stays when it does nothing.
LEMMA ServerUntouched ==
  ASSUME TcpInv, UNCHANGED <<tableVars, serverVars>>
  PROVE  TableInv' /\ Loaded' /\ Watching'
<1>1. TableInv'
  BY TableStays DEF TcpInv, TypeOK, TableInv
<1>2. Loaded'
  BY RosterFixed DEF TcpInv, Loaded, tableVars, serverVars
<1>3. Watching'
  BY DEF TcpInv, Watching, serverVars
<1> QED BY <1>1, <1>2, <1>3

\* A step of one client: it is enough to look at it.
LEMMA OneClient ==
  ASSUME TcpInv, NEW c \in Client, UNCHANGED <<tableVars, serverVars, backlog>>, TypeOK',
         \A b \in Client \ {c} :
           /\ lines'[b] = lines[b] /\ clientPc'[b] = clientPc[b]
           /\ toServer'[b] = toServer[b] /\ toClient'[b] = toClient[b]
           /\ clientEnd'[b] = clientEnd[b] /\ serverEnd'[b] = serverEnd[b],
         ConnInv(c)'
  PROVE  TcpInv'
<1>1. \A b \in Client : ConnInv(b)'
  <2> SUFFICES ASSUME NEW b \in Client, b # c  PROVE ConnInv(b)'
    OBVIOUS
  <2>1. /\ roster' = roster /\ ConnInv(b)
        /\ backlog' = backlog /\ open' = open /\ serverPc' = serverPc
    BY DEF tableVars, serverVars, TcpInv
  <2> QED BY <2>1, ConnUntouched
<1>2. TableInv' /\ Loaded' /\ Watching'
  BY ServerUntouched
<1>3. AcceptedOnce'
  BY DEF TcpInv, AcceptedOnce, serverVars
<1> QED BY <1>1, <1>2, <1>3 DEF TcpInv, TableInv

\* The server ends, from whatever it does.
LEMMA ExitStep ==
  ASSUME TcpInv, ServerExit,
         UNCHANGED <<tableVars, it, clients, ready, clientVars, toClient, clientEnd>>,
         buffer' \subseteq Message, Cardinality(buffer') <= 1,
         toServer' \in [Client -> Seq(Message)],
         \A c \in Client : clientPc[c] = "start" => toServer'[c] = toServer[c]
  PROVE  TcpInv'
<1>1. /\ serverPc' = "gone" /\ open' = << >> /\ backlog' = << >>
      /\ serverEnd' = [c \in Client |->
           IF c \in Range(backlog) THEN "rst"
           ELSE IF c \in Range(open) THEN EndOf(toServer[c]) ELSE serverEnd[c]]
  BY DEF ServerExit
<1>2. DOMAIN open' = {} /\ Range(open') = {} /\ Range(backlog') = {}
  BY <1>1 DEF Range
<1>3. serverEnd' \in [Client -> End]
  <2>1. "rst" \in End /\ serverEnd \in [Client -> End]
    BY DEF End, TcpInv, TypeOK
  <2> QED BY <1>1, <2>1, EndTypes
<1>4. TableInv'
  BY TableStays DEF TcpInv, TypeOK, TableInv
<1>5. TypeOK'
  <2>1. backlog' \in Seq(Client)
    BY <1>1
  <2> QED BY <1>1, <1>2, <1>3, <1>4, <2>1 DEF TcpInv, TypeOK, TableInv, clientVars
<1>6. Loaded' /\ Watching' /\ AcceptedOnce'
  BY <1>1, <1>2 DEF Loaded, Watching, AcceptedOnce, IsInjective
<1>7. ASSUME NEW c \in Client  PROVE ConnInv(c)'
  <2>1. ConnInv(c) /\ clientPc'[c] = clientPc[c] /\ clientEnd'[c] = clientEnd[c]
        /\ toClient'[c] = toClient[c]
    BY DEF TcpInv, clientVars
  <2>2. Fresh(c)'
    BY <1>1, <1>2, <2>1 DEF ConnInv, Fresh
  <2> QED BY <1>1, <2>1, <2>2 DEF ConnInv, Served
<1> QED BY <1>4, <1>5, <1>6, <1>7 DEF TcpInv, TableInv

-----------------------------------------------------------------------------
(* main() of the server *)

LEMMA TcpInitInv == Init => TcpInv
<1> SUFFICES ASSUME Init  PROVE TcpInv
  OBVIOUS
<1>1. TableInv
  BY TableStarts DEF Init
<1>2. DOMAIN open = {} /\ Range(open) = {} /\ Range(backlog) = {} /\ Range(clients) = {Listener}
  BY DEF Init, Range
<1>3. Cardinality({}) = 0 /\ IsFiniteSet({})
  BY FS_EmptySet
<1>4. TypeOK
  <2>1. clients \in Seq(Nat) /\ it \in DOMAIN clients
    BY DEF Init, Listener
  <2>2. <<Garbage>> \in Seq(Name \cup Key \cup {Garbage})
    OBVIOUS
  <2>3. "up" \in End
    BY DEF End
  <2> QED BY <1>1, <1>2, <1>3, <2>1, <2>2, <2>3, TcpAssumption DEF Init, TypeOK, TableInv
<1>5. Watching
  BY <1>2, <1>3 DEF Init, Watching, IsInjective, Listener
<1>6. Loaded /\ AcceptedOnce
  BY <1>2 DEF Init, Loaded, AcceptedOnce, IsInjective
<1>7. \A c \in Client : ConnInv(c)
  BY <1>2 DEF Init, ConnInv, Fresh, Served
<1> QED BY <1>1, <1>4, <1>5, <1>6, <1>7 DEF TcpInv, TableInv

LEMMA LoadStep ==
  ASSUME TcpInv, LoadGroup \/ LoadStudent \/ LoadFails \/ LoadDone  PROVE TcpInv'
<1>1. CASE LoadFails
  <2>1. /\ ServerExit /\ UNCHANGED <<tableVars, it, clients, ready, clientVars, toClient, clientEnd>>
        /\ buffer' = buffer /\ toServer' = toServer
    BY <1>1 DEF LoadFails
  <2> QED BY <2>1, ExitStep DEF TcpInv, TypeOK
<1>2. CASE LoadGroup \/ LoadStudent \/ LoadDone
  <2>1. /\ serverPc = "load" /\ serverPc' \in {"load", "poll"}
        /\ UNCHANGED <<it, clients, ready, open, buffer, clientVars, netVars>>
        /\ roster' = roster
    BY <1>2 DEF LoadGroup, LoadStudent, LoadDone, ReadGroup, ReadStudent, tableVars, serverVars
  <2>2. TableInv'
    <3>1. TableInv
      BY DEF TcpInv, TypeOK, TableInv
    <3> QED BY <1>2, <3>1, GroupRead, StudentRead, TableStays
            DEF LoadGroup, LoadStudent, LoadDone
  <2>3. TypeOK'
    BY <2>1, <2>2 DEF TcpInv, TypeOK, TableInv, clientVars, netVars
  <2>4. Loaded'
    <3>1. CASE LoadDone
      <4>1. loaded' = loaded /\ InputEnds /\ TableInv
        BY <3>1 DEF LoadDone, tableVars, TcpInv, TypeOK, TableInv
      <4> QED BY <2>1, <4>1, AllIsRead, RosterFixed DEF Loaded
    <3>2. CASE ~LoadDone
      BY <1>2, <2>1, <3>2 DEF LoadGroup, LoadStudent, Loaded, serverVars
    <3> QED BY <3>1, <3>2
  <2>5. Watching' /\ AcceptedOnce'
    BY <2>1 DEF TcpInv, Watching, AcceptedOnce, netVars
  <2>6. \A c \in Client : ConnInv(c)'
    BY <2>1, ConnUntouched DEF TcpInv, clientVars, netVars
  <2> QED BY <2>2, <2>3, <2>4, <2>5, <2>6 DEF TcpInv, TableInv
<1> QED BY <1>1, <1>2

-----------------------------------------------------------------------------
(* run(): poll(), accept() and the walk *)

\* A step of run() that does not touch connections.
LEMMA WalkStep ==
  ASSUME TcpInv, serverPc \in {"poll", "accept", "recv"},
         serverPc' \in {"poll", "accept", "recv"},
         it' \in DOMAIN clients, ready' \subseteq Nat,
         serverPc' = "recv" => clients[it'] \in DOMAIN open,
         UNCHANGED <<tableVars, clients, open, buffer, clientVars, netVars>>
  PROVE  TcpInv'
<1>1. TableInv'
  BY TableStays DEF TcpInv, TypeOK, TableInv
<1>2. TypeOK'
  BY <1>1 DEF TcpInv, TypeOK, TableInv, clientVars, netVars
<1>3. Loaded' /\ Watching' /\ AcceptedOnce'
  BY RosterFixed DEF TcpInv, Loaded, Watching, AcceptedOnce, tableVars, netVars
<1>4. \A c \in Client : ConnInv(c)'
  BY ConnUntouched DEF TcpInv, clientVars, netVars, tableVars
<1> QED BY <1>1, <1>2, <1>3, <1>4 DEF TcpInv, TableInv

\* The walk comes to a connection that is open, to the listener, or to its end.
LEMMA WalkComesTo ==
  ASSUME TcpInv, serverPc # "gone", NEW i \in Nat \ {0}, NEW set, WalkFrom(i, set)
  PROVE  /\ serverPc' \in {"poll", "accept", "recv"} /\ it' \in DOMAIN clients
         /\ serverPc' = "recv" => clients[it'] \in DOMAIN open
<1>1. clients \in Seq(Nat) /\ it \in DOMAIN clients /\ 1 \in DOMAIN clients
  BY DEF TcpInv, TypeOK
<1>2. \/ Walk(i, set) = 0
      \/ Walk(i, set) \in DOMAIN clients /\ clients[Walk(i, set)] \in set
  BY <1>1, WalkStops
<1>3. \A j \in DOMAIN clients : clients[j] # Listener => clients[j] \in DOMAIN open
  BY DEF TcpInv, Watching, Range
<1>4. 0 \notin DOMAIN clients
  BY <1>1
<1> QED BY <1>1, <1>2, <1>3, <1>4 DEF WalkFrom

LEMMA PollStep == ASSUME TcpInv, Poll  PROVE TcpInv'
<1>1. Polled \subseteq Nat
  BY DEF Polled, TcpInv, TypeOK, Range
<1> QED BY <1>1, WalkComesTo, WalkStep DEF Poll

LEMMA RecvNothingStep ==
  ASSUME TcpInv, NEW c \in Client, RecvNothing(c)  PROVE TcpInv'
<1>1. it + 1 \in Nat \ {0}
  BY DEF TcpInv, TypeOK
<1>2. ready \subseteq Nat
  BY DEF TcpInv, TypeOK
<1> QED BY <1>1, <1>2, WalkComesTo, WalkStep DEF RecvNothing, Receiving

LEMMA AcceptDoneStep == ASSUME TcpInv, AcceptDone  PROVE TcpInv'
<1>1. 1 \in DOMAIN clients /\ ready \subseteq Nat
  BY DEF TcpInv, TypeOK
<1> QED BY <1>1, WalkStep DEF AcceptDone

LEMMA PollTimeoutStep == ASSUME TcpInv, PollTimeout \/ RecvError  PROVE TcpInv'
<1>1. /\ ServerExit /\ UNCHANGED <<tableVars, it, clients, ready, clientVars, toClient, clientEnd>>
      /\ buffer' = buffer /\ toServer' = toServer
  BY DEF PollTimeout, RecvError
<1> QED BY <1>1, ExitStep DEF TcpInv, TypeOK

\* accept() takes the first of the backlog, under a descriptor that was free.
LEMMA AcceptStep == ASSUME TcpInv, Accept  PROVE TcpInv'
<1> DEFINE h == Head(backlog)
<1>1. /\ serverPc = "accept" /\ backlog # << >>
      /\ open' = [fd \in DOMAIN open \cup {NewFd} |-> IF fd = NewFd THEN h ELSE open[fd]]
      /\ clients' = Append(clients, NewFd)
      /\ backlog' = Tail(backlog)
      /\ UNCHANGED <<tableVars, serverPc, it, ready, buffer, clientVars, toServer, toClient,
                     clientEnd, serverEnd>>
  BY DEF Accept, Watch
<1>2. NewFd \in Nat \ {Listener} /\ NewFd \notin DOMAIN open
  BY <1>1, FreeFd
<1>3. /\ backlog \in Seq(Client) /\ Len(backlog) \in Nat \ {0} /\ clients \in Seq(Nat)
      /\ \A i \in 1 .. Len(backlog) - 1 : backlog'[i] = backlog[i + 1]
      /\ backlog' \in Seq(Client) /\ DOMAIN backlog' = 1 .. Len(backlog) - 1
      /\ h = backlog[1] /\ h \in Client
      /\ DOMAIN backlog = 1 .. Len(backlog) /\ 1 \in DOMAIN backlog
  BY <1>1, SMTT(30) DEF TcpInv, TypeOK
<1> HIDE DEF h
<1>4. h \in Range(backlog) /\ h \notin Range(open) /\ IsInjective(backlog)
  <2>1. h \in Range(backlog)
    BY <1>3 DEF Range
  <2> QED BY <2>1 DEF TcpInv, AcceptedOnce
<1>5. Range(backlog') \subseteq Range(backlog) \ {h}
  <2> SUFFICES ASSUME NEW i \in 1 .. Len(backlog) - 1
               PROVE  backlog[i + 1] \in Range(backlog) /\ backlog[i + 1] # backlog[1]
    <3>1. \A i \in DOMAIN backlog' : backlog'[i] \in Range(backlog) \ {h}
      BY <1>3
    <3> QED BY <3>1 DEF Range
  <2>1. i + 1 \in DOMAIN backlog /\ 1 \in DOMAIN backlog /\ i + 1 # 1
    BY <1>3
  <2> QED BY <1>4, <2>1 DEF Range, IsInjective
<1>6. IsInjective(backlog')
  <2> SUFFICES ASSUME NEW i \in 1 .. Len(backlog) - 1, NEW j \in 1 .. Len(backlog) - 1,
                      backlog'[i] = backlog'[j]
               PROVE  i = j
    BY <1>3 DEF IsInjective
  <2>1. i + 1 \in DOMAIN backlog /\ j + 1 \in DOMAIN backlog /\ backlog[i + 1] = backlog[j + 1]
    BY <1>3
  <2>2. i + 1 = j + 1
    BY <1>4, <2>1 DEF IsInjective
  <2> QED BY <2>2
<1>7. /\ DOMAIN open' = DOMAIN open \cup {NewFd} /\ open'[NewFd] = h
      /\ \A fd \in DOMAIN open : open'[fd] = open[fd]
  BY <1>1, <1>2
<1>8. Range(open') = Range(open) \cup {h}
  BY <1>7 DEF Range
<1>9. AcceptedOnce'
  <2>1. IsInjective(open')
    <3> SUFFICES ASSUME NEW a \in DOMAIN open', NEW b \in DOMAIN open', open'[a] = open'[b]
                 PROVE  a = b
      BY DEF IsInjective
    <3>1. \A fd \in DOMAIN open : open[fd] # h
      BY <1>4 DEF Range
    <3> QED BY <1>7, <3>1 DEF TcpInv, AcceptedOnce, IsInjective
  <2>2. Range(backlog') \cap Range(open') = {}
    BY <1>5, <1>8 DEF TcpInv, AcceptedOnce
  <2> QED BY <1>6, <2>1, <2>2 DEF AcceptedOnce
<1>10. /\ clients' \in Seq(Nat) /\ Len(clients') = Len(clients) + 1 /\ Len(clients) \in Nat
       /\ DOMAIN clients = 1 .. Len(clients) /\ DOMAIN clients' = 1 .. Len(clients) + 1
       /\ \A i \in 1 .. Len(clients) : clients'[i] = clients[i]
       /\ clients'[Len(clients) + 1] = NewFd
  BY <1>1, <1>2, <1>3
<1>11. Range(clients') = Range(clients) \cup {NewFd}
  BY <1>10 DEF Range
<1>12. Watching'
  <2>1. /\ Range(clients) = {Listener} \cup DOMAIN open /\ IsInjective(clients)
        /\ IsFiniteSet(DOMAIN open) /\ Len(clients) = Cardinality(DOMAIN open) + 1
    BY <1>1 DEF TcpInv, Watching
  <2>2. /\ IsFiniteSet(DOMAIN open')
        /\ Cardinality(DOMAIN open') = Cardinality(DOMAIN open) + 1
    BY <1>2, <1>7, <2>1, FS_AddElement
  <2>3. IsInjective(clients')
    <3>1. \A i \in 1 .. Len(clients) : clients[i] # NewFd
      BY <1>2, <1>10, <2>1 DEF Range
    <3> QED BY <1>10, <2>1, <3>1 DEF IsInjective
  <2> QED BY <1>1, <1>7, <1>10, <1>11, <2>1, <2>2, <2>3 DEF Watching
<1>13. TableInv'
  BY <1>1, TableStays DEF TcpInv, TypeOK, TableInv
<1>14. TypeOK'
  <2>1. DOMAIN open' \subseteq Nat \ {Listener} /\ Range(open') \subseteq Client
    BY <1>2, <1>3, <1>7, <1>8 DEF TcpInv, TypeOK
  <2>2. it' \in DOMAIN clients'
    BY <1>1, <1>10 DEF TcpInv, TypeOK
  <2> QED BY <1>1, <1>3, <1>10, <1>13, <2>1, <2>2 DEF TcpInv, TypeOK, TableInv, clientVars
<1>15. Loaded'
  BY <1>1, RosterFixed DEF TcpInv, Loaded, tableVars
<1>16. \A c \in Client : ConnInv(c)'
  <2> SUFFICES ASSUME NEW c \in Client  PROVE ConnInv(c)'
    OBVIOUS
  <2>1. c \in Range(backlog') \cup Range(open') => c \in Range(backlog) \cup Range(open)
    BY <1>4, <1>5, <1>8
  <2> QED BY <1>1, <2>1, ConnUntouched DEF TcpInv, clientVars, tableVars
<1> QED BY <1>9, <1>12, <1>13, <1>14, <1>15, <1>16 DEF TcpInv, TableInv

-----------------------------------------------------------------------------
(* run(): recv() and handle_msg() *)

\* What recv() gives is a message of the client that waits for its answer, or what
\* the buffer held, when the client is gone.
LEMMA ReceivesKeeps ==
  ASSUME TcpInv, NEW c \in Client, NEW m \in Message, Receives(c, m)
  PROVE  /\ serverPc = "recv" /\ clients[it] \in DOMAIN open /\ open[clients[it]] = c
         /\ c \in Range(open)
         /\ buffer' \subseteq Message /\ Cardinality(buffer') <= 1
         /\ toServer' \in [Client -> Seq(Message)] /\ toServer'[c] = << >>
         /\ \A b \in Client \ {c} : toServer'[b] = toServer[b]
         /\ clientPc[c] \in {"waiting", "gone"}
         /\ clientPc[c] = "waiting" => /\ clientEnd[c] = "up"
                                       /\ m = Request(c) /\ toClient[c] = << >>
<1>1. serverPc = "recv" /\ clients[it] \in DOMAIN open /\ open[clients[it]] = c
  BY DEF Receives, Receiving
<1>2. c \in Range(open)
  BY <1>1 DEF Range
<1>3. ConnInv(c) /\ clientPc[c] \in {"start", "reading", "waiting", "gone"}
  BY DEF TcpInv, TypeOK
<1>4. clientPc[c] # "start"
  BY <1>2, <1>3 DEF ConnInv, Fresh
<1>5. buffer' = {m}
  BY DEF Receives, ReceivesData, ReceivesEnd
<1>6. buffer' \subseteq Message /\ Cardinality(buffer') <= 1
  BY <1>5, OneMessage
<1>7. toServer \in [Client -> Seq(Message)]
  BY DEF TcpInv, TypeOK
<1>8. CASE ReceivesData(c, m)
  <2>1. /\ toServer[c] # << >> /\ m = Head(toServer[c])
        /\ toServer' = [toServer EXCEPT ![c] = << >>]
    BY <1>8 DEF ReceivesData
  <2>2. toServer' \in [Client -> Seq(Message)]
    BY <1>7, <2>1
  <2>3. clientPc[c] # "reading" /\ (clientPc[c] = "waiting" => Due(c))
    BY <1>1, <1>3, <2>1 DEF ConnInv, Served
  <2>4. clientPc[c] = "waiting" => m = Request(c) /\ toClient[c] = << >>
    BY <2>1, <2>3 DEF Due
  <2>5. clientPc[c] = "waiting" => clientEnd[c] = "up"
    BY <1>3 DEF ConnInv
  <2> QED BY <1>1, <1>2, <1>3, <1>4, <1>6, <1>7, <2>1, <2>2, <2>3, <2>4, <2>5
<1>9. CASE ReceivesEnd(c, m)
  <2>1. /\ toServer[c] = << >> /\ clientEnd[c] # "up" /\ toServer' = toServer
    BY <1>9 DEF ReceivesEnd
  <2>2. clientPc[c] = "gone"
    BY <1>3, <2>1 DEF ConnInv
  <2> QED BY <1>1, <1>2, <1>6, <1>7, <2>1, <2>2
<1> QED BY <1>8, <1>9 DEF Receives

\* The server ends while it handles a message.
LEMMA LastHandleStep ==
  ASSUME TcpInv, NEW c \in Client, NEW m \in Message,
         HandleGetDead(c, m) \/ HandleStop(c, m)
  PROVE  TcpInv'
<1>1. /\ Receives(c, m) /\ ServerExit
      /\ UNCHANGED <<tableVars, it, clients, ready, clientVars, toClient, clientEnd>>
  BY DEF HandleGetDead, HandleStop
<1>2. /\ buffer' \subseteq Message /\ Cardinality(buffer') <= 1
      /\ toServer' \in [Client -> Seq(Message)]
      /\ \A b \in Client : clientPc[b] = "start" => toServer'[b] = toServer[b]
  BY <1>1, ReceivesKeeps
<1> QED BY <1>1, <1>2, ExitStep

\* A message after which the session goes on: what is sent back, if anything, is
\* the answer to the request of the client that waits for it.
LEMMA GoOnStep ==
  ASSUME TcpInv, NEW c \in Client, NEW m \in Message, Receives(c, m),
         UNCHANGED <<tableVars, serverPc, it, clients, ready, open, clientVars, backlog, serverEnd>>,
         toClient' \in [Client -> Seq(Name \cup Key)], clientEnd' \in [Client -> End],
         \A b \in Client \ {c} : toClient'[b] = toClient[b] /\ clientEnd'[b] = clientEnd[b],
         clientPc[c] = "waiting" => /\ clientEnd'[c] = "up"
                                    /\ toClient'[c] # << >> =>
                                         m.op = "get" /\ toClient'[c] = <<TrueName(m.key)>>
  PROVE  TcpInv'
<1>1. /\ serverPc = "recv" /\ c \in Range(open)
      /\ buffer' \subseteq Message /\ Cardinality(buffer') <= 1
      /\ toServer' \in [Client -> Seq(Message)] /\ toServer'[c] = << >>
      /\ \A b \in Client \ {c} : toServer'[b] = toServer[b]
      /\ clientPc[c] \in {"waiting", "gone"}
      /\ clientPc[c] = "waiting" => m = Request(c)
  BY ReceivesKeeps
<1>2. TableInv'
  BY TableStays DEF TcpInv, TypeOK, TableInv
<1>3. TypeOK'
  BY <1>1, <1>2 DEF TcpInv, TypeOK, TableInv, clientVars
<1>4. Loaded' /\ Watching' /\ AcceptedOnce'
  BY RosterFixed DEF TcpInv, Loaded, Watching, AcceptedOnce, tableVars
<1>5. \A b \in Client \ {c} : ConnInv(b)'
  BY <1>1, ConnUntouched DEF TcpInv, clientVars, tableVars
<1>6. ConnInv(c)'
  <2>1. /\ ConnInv(c) /\ clientPc'[c] = clientPc[c] /\ serverEnd'[c] = serverEnd[c]
        /\ Request(c)' = Request(c) /\ \A k : TrueName(k)' = TrueName(k)
    BY TrueNameStays DEF TcpInv, clientVars, tableVars, Request
  <2>2. clientPc[c] = "waiting" => Due(c)'
    BY <1>1, <2>1 DEF Due
  <2>3. Served(c)'
    BY <1>1, <2>1, <2>2 DEF ConnInv, Served
  <2> QED BY <1>1, <2>1, <2>3 DEF ConnInv, Fresh
<1> QED BY <1>2, <1>3, <1>4, <1>5, <1>6 DEF TcpInv, TableInv

LEMMA InvalidStep ==
  ASSUME TcpInv, NEW c \in Client, NEW m \in Message, HandleInvalid(c, m)  PROVE TcpInv'
<1>1. /\ Receives(c, m)
      /\ UNCHANGED <<tableVars, serverPc, it, clients, ready, open, clientVars, backlog, serverEnd>>
      /\ toClient' = toClient /\ clientEnd' = clientEnd
  BY DEF HandleInvalid
<1>2. clientPc[c] = "waiting" => toClient[c] = << >> /\ clientEnd[c] = "up"
  BY <1>1, ReceivesKeeps
<1>3. toClient \in [Client -> Seq(Name \cup Key)] /\ clientEnd \in [Client -> End]
  BY DEF TcpInv, TypeOK
<1> QED BY <1>1, <1>2, <1>3, GoOnStep

LEMMA GetStep ==
  ASSUME TcpInv, NEW c \in Client, NEW m \in Message, HandleGet(c, m)  PROVE TcpInv'
<1> DEFINE r == Get(m.key)
<1>1. /\ Receives(c, m) /\ m.op = "get"
      /\ UNCHANGED <<tableVars, serverPc, it, clients, ready, open, clientVars, backlog, serverEnd>>
      /\ toClient' = IF clientEnd[c] = "up" /\ r # NoName
                     THEN [toClient EXCEPT ![c] = Append(@, r)] ELSE toClient
  BY DEF HandleGet, Respond
<1>2. PICK end \in AfterSend(clientEnd[c]) : clientEnd' = [clientEnd EXCEPT ![c] = end]
  BY DEF HandleGet, Respond
<1>3. toClient \in [Client -> Seq(Name \cup Key)] /\ clientEnd \in [Client -> End]
  BY DEF TcpInv, TypeOK
<1>4. m.key \in Key
  BY <1>1 DEF Message
<1>5. r \in Name \cup Key
  BY <1>4 DEF TcpInv, TypeOK, TableTypeOK, Get
<1>6. r = TrueName(m.key)
  <2>1. serverPc = "recv"
    BY <1>1, ReceivesKeeps
  <2> QED BY <1>4, <2>1 DEF TcpInv, Loaded, TableIsInput, TrueName
<1> HIDE DEF r
<1>7. toClient' \in [Client -> Seq(Name \cup Key)]
  BY <1>1, <1>3, <1>5
<1>8. clientEnd' \in [Client -> End]
  BY <1>2, <1>3, EndTypes
<1>9. clientEnd[c] = "up" => clientEnd'[c] = "up"
  BY <1>2, <1>3 DEF AfterSend
<1>10. toClient[c] = << >> => toClient'[c] \in {<< >>, <<r>>}
  <2>1. Append(<< >>, r) = <<r>>
    OBVIOUS
  <2> QED BY <1>1, <1>3, <2>1
<1>11. \A b \in Client \ {c} : toClient'[b] = toClient[b] /\ clientEnd'[b] = clientEnd[b]
  BY <1>1, <1>2, <1>3
<1>12. clientPc[c] = "waiting" => /\ clientEnd'[c] = "up"
                                  /\ toClient'[c] # << >> =>
                                       m.op = "get" /\ toClient'[c] = <<TrueName(m.key)>>
  BY <1>1, <1>6, <1>9, <1>10, ReceivesKeeps
<1> QED BY <1>1, <1>7, <1>8, <1>11, <1>12, GoOnStep

\* close() and erase(): only the session of the client that has asked for it, or is
\* gone, and its descriptor goes from clients_ and from the table.
LEMMA CloseSessionStep ==
  ASSUME TcpInv, NEW c \in Client, NEW m \in Message, CloseSession(c, m)  PROVE TcpInv'
<1> DEFINE fd == clients[it]
<1>1. /\ Receives(c, m) /\ m.op = "stop_session"
      /\ serverEnd' = [serverEnd EXCEPT ![c] = "fin"]
      /\ open' = [f \in DOMAIN open \ {fd} |-> open[f]]
      /\ clients' = RemoveAt(clients, it)
      /\ serverPc' = "poll" /\ it' = 1
      /\ UNCHANGED <<tableVars, ready, clientVars, backlog, toClient, clientEnd>>
  BY DEF CloseSession, KeepsSession, Unwatch
<1>2. /\ serverPc = "recv" /\ fd \in DOMAIN open /\ open[fd] = c /\ c \in Range(open)
      /\ buffer' \subseteq Message /\ Cardinality(buffer') <= 1
      /\ toServer' \in [Client -> Seq(Message)] /\ toServer'[c] = << >>
      /\ \A b \in Client \ {c} : toServer'[b] = toServer[b]
      /\ clientPc[c] \in {"waiting", "gone"}
      /\ clientPc[c] = "waiting" => m = Request(c) /\ toClient[c] = << >>
  BY <1>1, ReceivesKeeps
<1>3. /\ Range(clients) = {Listener} \cup DOMAIN open /\ IsInjective(clients)
      /\ IsFiniteSet(DOMAIN open) /\ Len(clients) = Cardinality(DOMAIN open) + 1
  BY <1>2 DEF TcpInv, Watching
<1>4. clients \in Seq(Nat) /\ it \in DOMAIN clients
  BY DEF TcpInv, TypeOK
<1>5. /\ clients' \in Seq(Nat) /\ Len(clients') = Len(clients) - 1
      /\ IsInjective(clients') /\ Range(clients') = Range(clients) \ {fd}
  BY <1>1, <1>3, <1>4, Erased
<1>6. Listener \notin DOMAIN open /\ DOMAIN open \subseteq Nat
  BY DEF TcpInv, TypeOK
<1>7. DOMAIN open' = DOMAIN open \ {fd} /\ \A f \in DOMAIN open' : open'[f] = open[f]
  BY <1>1
<1> HIDE DEF fd
<1>8. /\ IsFiniteSet(DOMAIN open') /\ Cardinality(DOMAIN open') = Cardinality(DOMAIN open) - 1
      /\ Cardinality(DOMAIN open) \in Nat /\ Cardinality(DOMAIN open') \in Nat
  BY <1>2, <1>3, <1>7, FS_RemoveElement, FS_CardinalityType
<1>9. Range(open') \subseteq Range(open)
  BY <1>7 DEF Range
<1>10. Watching'
  BY <1>1, <1>2, <1>3, <1>5, <1>6, <1>7, <1>8 DEF Watching
<1>11. AcceptedOnce'
  <2>1. IsInjective(open')
    BY <1>7 DEF TcpInv, AcceptedOnce, IsInjective
  <2> QED BY <1>1, <1>9, <2>1 DEF TcpInv, AcceptedOnce
<1>12. TableInv'
  BY <1>1, TableStays DEF TcpInv, TypeOK, TableInv
<1>13. serverEnd' \in [Client -> End]
  BY <1>1 DEF TcpInv, TypeOK, End
<1>14. TypeOK'
  <2>1. it' \in DOMAIN clients'
    <3>1. Len(clients') \in Nat \ {0} /\ DOMAIN clients' = 1 .. Len(clients')
      BY <1>3, <1>5, <1>8
    <3> QED BY <1>1, <3>1
  <2>2. DOMAIN open' \subseteq Nat \ {Listener} /\ Range(open') \subseteq Client
    BY <1>6, <1>7, <1>9 DEF TcpInv, TypeOK
  <2> QED BY <1>1, <1>2, <1>5, <1>12, <1>13, <2>1, <2>2 DEF TcpInv, TypeOK, TableInv, clientVars
<1>15. Loaded'
  BY <1>1, <1>2, RosterFixed DEF TcpInv, Loaded, tableVars
<1>16. \A b \in Client \ {c} : ConnInv(b)'
  <2> SUFFICES ASSUME NEW b \in Client \ {c}  PROVE ConnInv(b)'
    OBVIOUS
  <2>1. serverEnd'[b] = serverEnd[b]
    BY <1>1 DEF TcpInv, TypeOK
  <2> QED BY <1>1, <1>2, <1>9, <2>1, ConnUntouched DEF TcpInv, clientVars, tableVars
<1>17. ConnInv(c)'
  <2>1. /\ ConnInv(c) /\ clientPc'[c] = clientPc[c] /\ clientEnd'[c] = clientEnd[c]
        /\ toClient'[c] = toClient[c] /\ Request(c)' = Request(c)
    BY <1>1 DEF TcpInv, clientVars, Request
  <2>2. clientPc[c] = "waiting" => Request(c) = StopSession
    <3>1. lines \in [Client -> Seq(ClientLine)]
      BY DEF TcpInv, TypeOK
    <3>2. lines[c] # << >> => Head(lines[c]).op # "stop_session"
      <4>1. lines[c] # << >> => Head(lines[c]) \in ClientLine
        BY <3>1
      <4> QED BY <4>1 DEF ClientLine
    <3> QED BY <1>1, <1>2, <3>2 DEF Request
  <2>3. clientPc[c] = "waiting" => Due(c)'
    BY <1>2, <2>1 DEF Due
  <2>4. Served(c)'
    BY <1>2, <2>1, <2>2, <2>3 DEF Served, StopSession
  <2>5. Fresh(c)'
    BY <1>2, <2>1 DEF Fresh
  <2> QED BY <2>1, <2>4, <2>5 DEF ConnInv
<1> QED BY <1>10, <1>11, <1>12, <1>14, <1>15, <1>16, <1>17 DEF TcpInv, TableInv

-----------------------------------------------------------------------------
(* The clients *)

\* The types of what a client keeps and of its connection.
ClientTypes ==
  /\ lines \in [Client -> Seq(ClientLine)]
  /\ clientPc \in [Client -> {"start", "reading", "waiting", "gone"}]
  /\ reply \in [Client -> Seq(Name \cup Key \cup {Garbage})]
  /\ printed \in [Client -> Seq(Seq(Name \cup Key \cup {Garbage}))]
  /\ killed \subseteq Killable
  /\ toServer \in [Client -> Seq(Message)]
  /\ toClient \in [Client -> Seq(Name \cup Key)]
  /\ clientEnd \in [Client -> End] /\ serverEnd \in [Client -> End]

LEMMA ClientStepTypes ==
  ASSUME TcpInv, UNCHANGED <<tableVars, serverVars>>, backlog' \in Seq(Client), ClientTypes'
  PROVE  TypeOK'
<1>1. TableInv'
  BY ServerUntouched
<1> QED BY <1>1 DEF TcpInv, TypeOK, TableInv, ClientTypes, serverVars

\* Only a client that has not connected may connect, so it is in the backlog once.
LEMMA ConnectStep ==
  ASSUME TcpInv, NEW c \in Client, Connect(c)  PROVE TcpInv'
<1>1. /\ clientPc[c] = "start" /\ backlog' = Append(backlog, c)
      /\ clientPc' = [clientPc EXCEPT ![c] = "reading"]
      /\ UNCHANGED <<tableVars, serverVars, lines, reply, printed, killed, toServer, toClient,
                     clientEnd, serverEnd>>
  BY DEF Connect
<1>2. ClientTypes /\ backlog \in Seq(Client)
  BY DEF TcpInv, TypeOK, ClientTypes
<1>3. /\ backlog' \in Seq(Client) /\ DOMAIN backlog' = 1 .. Len(backlog) + 1
      /\ DOMAIN backlog = 1 .. Len(backlog) /\ Len(backlog) \in Nat
      /\ backlog'[Len(backlog) + 1] = c
      /\ \A i \in 1 .. Len(backlog) : backlog'[i] = backlog[i]
  BY <1>1, <1>2
<1>4. ClientTypes'
  BY <1>1, <1>2 DEF ClientTypes
<1>5. TypeOK'
  BY <1>1, <1>3, <1>4, ClientStepTypes
<1>6. TableInv' /\ Loaded' /\ Watching'
  BY <1>1, ServerUntouched
<1>7. c \notin Range(backlog) \cup Range(open) /\ ConnInv(c)
  BY <1>1 DEF TcpInv, ConnInv, Fresh
<1>8. Range(backlog') = Range(backlog) \cup {c}
  BY <1>3 DEF Range
<1>9. AcceptedOnce'
  <2>1. \A i \in 1 .. Len(backlog) : backlog[i] # c
    BY <1>3, <1>7 DEF Range
  <2>2. IsInjective(backlog')
    BY <1>3, <2>1 DEF TcpInv, AcceptedOnce, IsInjective
  <2> QED BY <1>1, <1>7, <1>8, <2>2 DEF TcpInv, AcceptedOnce, serverVars
<1>10. \A b \in Client \ {c} : ConnInv(b)'
  <2> SUFFICES ASSUME NEW b \in Client \ {c}  PROVE ConnInv(b)'
    OBVIOUS
  <2>1. clientPc'[b] = clientPc[b]
    BY <1>1, <1>2 DEF ClientTypes
  <2> QED BY <1>1, <1>8, <2>1, ConnUntouched DEF TcpInv, tableVars, serverVars
<1>11. ConnInv(c)'
  <2>1. clientPc'[c] = "reading" /\ clientEnd[c] = "up"
    BY <1>1, <1>2, <1>7 DEF ClientTypes, ConnInv
  <2> QED BY <1>1, <1>7, <2>1 DEF ConnInv, Fresh, Served
<1> QED BY <1>5, <1>6, <1>9, <1>10, <1>11 DEF TcpInv, TableInv

\* A client whose process ends has no more claims.
LEMMA GoneStep ==
  ASSUME TcpInv, NEW c \in Client, ConnectFails(c) \/ SendFails(c) \/ Kill(c)  PROVE TcpInv'
<1>1. /\ clientPc' = [clientPc EXCEPT ![c] = "gone"]
      /\ clientEnd' \in {clientEnd, [clientEnd EXCEPT ![c] = EndOf(toClient[c])]}
      /\ killed' \subseteq Killable
      /\ UNCHANGED <<tableVars, serverVars, lines, reply, printed, backlog, toServer, toClient,
                     serverEnd>>
  BY DEF ConnectFails, SendFails, Kill, ClientExit, netVars, TcpInv, TypeOK
<1>2. ClientTypes /\ backlog \in Seq(Client)
  BY DEF TcpInv, TypeOK, ClientTypes
<1>3. ClientTypes'
  BY <1>1, <1>2, EndTypes DEF ClientTypes
<1>4. TypeOK'
  BY <1>1, <1>2, <1>3, ClientStepTypes
<1>5. clientPc'[c] = "gone"
  BY <1>1, <1>2 DEF ClientTypes
<1>6. ConnInv(c)'
  BY <1>5 DEF ConnInv, Fresh, Served
<1>7. \A b \in Client \ {c} : clientPc'[b] = clientPc[b] /\ clientEnd'[b] = clientEnd[b]
  BY <1>1, <1>2 DEF ClientTypes
<1> QED BY <1>1, <1>4, <1>6, <1>7, OneClient

LEMMA BadLineStep ==
  ASSUME TcpInv, NEW c \in Client, BadLine(c)  PROVE TcpInv'
<1>1. /\ clientPc[c] = "reading" /\ lines[c] # << >>
      /\ lines' = [lines EXCEPT ![c] = Tail(@)]
      /\ UNCHANGED <<tableVars, serverVars, clientPc, reply, printed, killed, netVars>>
  BY DEF BadLine, HasLine
<1>2. ClientTypes /\ backlog \in Seq(Client)
  BY DEF TcpInv, TypeOK, ClientTypes
<1>3. lines' \in [Client -> Seq(ClientLine)]
  BY <1>1, <1>2 DEF ClientTypes
<1>4. TypeOK'
  BY <1>1, <1>2, <1>3, ClientStepTypes DEF ClientTypes, netVars
<1>5. ConnInv(c)'
  BY <1>1 DEF TcpInv, ConnInv, Fresh, Served, serverVars, netVars
<1>6. \A b \in Client \ {c} : lines'[b] = lines[b]
  BY <1>1, <1>2 DEF ClientTypes
<1> QED BY <1>1, <1>4, <1>5, <1>6, OneClient DEF netVars

\* A client sends when nothing of its own is under way in either direction.
LEMMA SendStep ==
  ASSUME TcpInv, NEW c \in Client, Send(c)  PROVE TcpInv'
<1>1. /\ clientPc[c] = "reading" /\ ~HasLine(c, "bad") /\ serverEnd[c] \in {"up", "fin"}
      /\ clientPc' = [clientPc EXCEPT ![c] = "waiting"]
      /\ toServer' = IF serverEnd[c] = "up"
                     THEN [toServer EXCEPT ![c] = Append(@, Request(c))] ELSE toServer
      /\ UNCHANGED <<tableVars, serverVars, lines, reply, printed, killed, backlog, toClient,
                     clientEnd>>
  BY DEF Send
<1>2. PICK end \in AfterSend(serverEnd[c]) : serverEnd' = [serverEnd EXCEPT ![c] = end]
  BY DEF Send
<1>3. ClientTypes /\ backlog \in Seq(Client) /\ ConnInv(c)
  BY DEF TcpInv, TypeOK, ClientTypes
<1>4. Request(c) \in Message
  <2>1. CASE lines[c] = << >>
    BY <2>1 DEF Request, StopSession, Message
  <2>2. CASE lines[c] # << >>
    <3>1. Head(lines[c]) \in ClientLine /\ Head(lines[c]).op # "bad"
      BY <1>1, <1>3, <2>2 DEF ClientTypes, HasLine
    <3> QED BY <2>2, <3>1 DEF Request, ClientLine, Message
  <2> QED BY <2>1, <2>2
<1>5. serverEnd' \in [Client -> End] /\ (serverEnd[c] = "up" => serverEnd'[c] = "up")
  BY <1>2, <1>3, EndTypes DEF ClientTypes, AfterSend
<1>6. toServer' \in [Client -> Seq(Message)]
  BY <1>1, <1>3, <1>4 DEF ClientTypes
<1>7. clientPc' \in [Client -> {"start", "reading", "waiting", "gone"}]
  BY <1>1, <1>3 DEF ClientTypes
<1>8. TypeOK'
  <2>1. ClientTypes'
    BY <1>1, <1>3, <1>5, <1>6, <1>7 DEF ClientTypes
  <2> QED BY <1>1, <1>3, <2>1, ClientStepTypes
<1>9. ConnInv(c)'
  <2>1. /\ clientPc'[c] = "waiting" /\ Request(c)' = Request(c)
        /\ serverPc' = serverPc /\ toClient'[c] = toClient[c] /\ clientEnd'[c] = clientEnd[c]
    BY <1>1, <1>3 DEF ClientTypes, Request, serverVars
  <2>2. clientEnd'[c] = "up"
    BY <1>1, <1>3, <2>1 DEF ConnInv
  <2>3. serverPc # "gone" => /\ serverEnd[c] = "up"
                             /\ toServer[c] = << >> /\ toClient[c] = << >>
    BY <1>1, <1>3 DEF ConnInv, Served
  <2>4. Append(<< >>, Request(c)) = <<Request(c)>>
    OBVIOUS
  <2>5. serverPc # "gone" => toServer'[c] = <<Request(c)>>
    BY <1>1, <1>3, <2>3, <2>4 DEF ClientTypes
  <2>6. serverPc # "gone" => Due(c)'
    BY <2>1, <2>3, <2>5 DEF Due
  <2>7. Served(c)'
    BY <1>5, <2>1, <2>3, <2>6 DEF Served
  <2> QED BY <2>1, <2>2, <2>7 DEF ConnInv, Fresh
<1>10. \A b \in Client \ {c} :
         /\ clientPc'[b] = clientPc[b] /\ toServer'[b] = toServer[b]
         /\ serverEnd'[b] = serverEnd[b]
  BY <1>1, <1>2, <1>3 DEF ClientTypes
<1> QED BY <1>1, <1>8, <1>9, <1>10, OneClient

\* send_message() returns what has come, if the server runs the answer to the GET.
LEMMA ReturnsStep ==
  ASSUME TcpInv, NEW c \in Client, clientPc[c] = "waiting",
         NEW r \in Seq(Name \cup Key \cup {Garbage}), Returns(c, r),
         serverEnd' \in [Client -> End],
         \A b \in Client \ {c} : serverEnd'[b] = serverEnd[b],
         serverPc # "gone" /\ Request(c).op = "get" =>
           serverEnd'[c] = serverEnd[c] /\ r # << >> /\ r = toClient[c]
  PROVE  TcpInv' /\ (serverPc # "gone" /\ printed' # printed =>
                       /\ Request(c).op = "get"
                       /\ printed' = [printed EXCEPT ![c] = Append(@, <<TrueName(Request(c).key)>>)])
<1>1. /\ reply' = [reply EXCEPT ![c] = r] /\ toClient' = [toClient EXCEPT ![c] = << >>]
      /\ UNCHANGED <<tableVars, serverVars, killed, backlog, toServer>>
  BY DEF Returns
<1>2. ClientTypes /\ backlog \in Seq(Client) /\ ConnInv(c)
  BY DEF TcpInv, TypeOK, ClientTypes
<1>3. reply' \in [Client -> Seq(Name \cup Key \cup {Garbage})]
  BY <1>1, <1>2 DEF ClientTypes
<1>4. toClient' \in [Client -> Seq(Name \cup Key)] /\ toClient'[c] = << >>
  BY <1>1, <1>2 DEF ClientTypes
<1>5. clientEnd[c] = "up" /\ (serverPc # "gone" => Due(c))
  BY <1>2 DEF ConnInv, Served
<1>6. serverPc' = serverPc /\ toServer'[c] = toServer[c]
  BY <1>1 DEF serverVars
<1>7. CASE Request(c).op = "get"
  <2>1. /\ printed' = [printed EXCEPT ![c] = Append(@, r)]
        /\ lines' = [lines EXCEPT ![c] = Tail(@)]
        /\ clientPc' = [clientPc EXCEPT ![c] = "reading"] /\ clientEnd' = clientEnd
    BY <1>7 DEF Returns
  <2>2. lines[c] # << >>
    BY <1>7 DEF Request, StopSession
  <2>3. lines' \in [Client -> Seq(ClientLine)]
    BY <1>2, <2>1, <2>2 DEF ClientTypes
  <2>4. printed' \in [Client -> Seq(Seq(Name \cup Key \cup {Garbage}))]
    BY <1>2, <2>1 DEF ClientTypes
  <2>5. clientPc' \in [Client -> {"start", "reading", "waiting", "gone"}]
        /\ clientPc'[c] = "reading"
    BY <1>2, <2>1 DEF ClientTypes
  <2>6. TypeOK'
    <3>1. ClientTypes'
      BY <1>1, <1>2, <1>3, <1>4, <2>1, <2>3, <2>4, <2>5 DEF ClientTypes
    <3> QED BY <1>1, <1>2, <3>1, ClientStepTypes
  <2>7. ConnInv(c)'
    <3>1. serverPc # "gone" => serverEnd[c] = "up"
      BY <1>2, <1>7 DEF ConnInv, Served, StopSession
    <3>2. serverPc # "gone" => toServer[c] = << >>
      BY <1>5, <1>7 DEF Due
    <3>3. Served(c)'
      BY <1>4, <1>6, <1>7, <2>5, <3>1, <3>2 DEF Served
    <3> QED BY <1>5, <2>1, <2>5, <3>3 DEF ConnInv, Fresh
  <2>8. \A b \in Client \ {c} :
          /\ lines'[b] = lines[b] /\ clientPc'[b] = clientPc[b]
          /\ toClient'[b] = toClient[b] /\ clientEnd'[b] = clientEnd[b]
    BY <1>1, <1>2, <2>1 DEF ClientTypes
  <2>9. TcpInv'
    BY <1>1, <2>6, <2>7, <2>8, OneClient
  <2>10. serverPc # "gone" => r = <<TrueName(Request(c).key)>>
    BY <1>5, <1>7 DEF Due
  <2> QED BY <1>7, <2>1, <2>9, <2>10
<1>8. CASE Request(c).op # "get"
  <2>1. /\ clientPc' = [clientPc EXCEPT ![c] = "gone"] /\ printed' = printed /\ lines' = lines
        /\ clientEnd' = [clientEnd EXCEPT ![c] = "fin"]
    BY <1>8 DEF Returns
  <2>2. clientEnd' \in [Client -> End]
    BY <1>2, <2>1 DEF ClientTypes, End
  <2>3. clientPc' \in [Client -> {"start", "reading", "waiting", "gone"}]
        /\ clientPc'[c] = "gone"
    BY <1>2, <2>1 DEF ClientTypes
  <2>4. TypeOK'
    <3>1. ClientTypes'
      BY <1>1, <1>2, <1>3, <1>4, <2>1, <2>2, <2>3 DEF ClientTypes
    <3> QED BY <1>1, <1>2, <3>1, ClientStepTypes
  <2>5. ConnInv(c)'
    BY <2>3 DEF ConnInv, Fresh, Served
  <2>6. \A b \in Client \ {c} :
          /\ lines'[b] = lines[b] /\ clientPc'[b] = clientPc[b]
          /\ toClient'[b] = toClient[b] /\ clientEnd'[b] = clientEnd[b]
    BY <1>1, <1>2, <2>1 DEF ClientTypes
  <2>7. TcpInv'
    BY <1>1, <2>4, <2>5, <2>6, OneClient
  <2> QED BY <2>1, <2>7
<1> QED BY <1>7, <1>8

LEMMA HearsStep ==
  ASSUME TcpInv, NEW c \in Client, ClientHears(c)
  PROVE  TcpInv' /\ (serverPc # "gone" /\ printed' # printed =>
                       /\ Request(c).op = "get"
                       /\ printed' = [printed EXCEPT ![c] = Append(@, <<TrueName(Request(c).key)>>)])
<1>1. /\ ClientTypes /\ ConnInv(c) /\ clientPc[c] = "waiting"
  BY DEF TcpInv, TypeOK, ClientTypes, ClientHears, RecvReply, RecvEof, RecvReset
<1>2. serverEnd[c] # "up" /\ serverPc # "gone" => Request(c).op # "get"
  BY <1>1 DEF ConnInv, Served, StopSession
<1>3. CASE RecvReply(c)
  <2>1. toClient[c] # << >> /\ Returns(c, toClient[c]) /\ serverEnd' = serverEnd
    BY <1>3 DEF RecvReply
  <2>2. toClient[c] \in Seq(Name \cup Key \cup {Garbage})
    <3>1. toClient[c] \in Seq(Name \cup Key)
      BY <1>1 DEF ClientTypes
    <3> QED BY <3>1, SeqMonotonic
  <2> QED BY <1>1, <2>1, <2>2, ReturnsStep DEF ClientTypes
<1>4. CASE RecvEof(c)
  <2>1. serverEnd[c] # "up" /\ Returns(c, << >>) /\ serverEnd' = serverEnd
    BY <1>4 DEF RecvEof
  <2>2. << >> \in Seq(Name \cup Key \cup {Garbage})
    OBVIOUS
  <2> QED BY <1>1, <1>2, <2>1, <2>2, ReturnsStep DEF ClientTypes
<1>5. CASE RecvReset(c)
  <2>1. serverEnd[c] = "rst" /\ serverEnd' = [serverEnd EXCEPT ![c] = "dead"]
    BY <1>5 DEF RecvReset
  <2>2. PICK r \in {reply[c], <<Garbage>>} : Returns(c, r)
    BY <1>5 DEF RecvReset
  <2>3. r \in Seq(Name \cup Key \cup {Garbage})
    <3>1. reply[c] \in Seq(Name \cup Key \cup {Garbage})
      BY <1>1 DEF ClientTypes
    <3>2. <<Garbage>> \in Seq(Name \cup Key \cup {Garbage})
      OBVIOUS
    <3> QED BY <2>2, <3>1, <3>2
  <2>4. /\ serverEnd' \in [Client -> End]
        /\ \A b \in Client \ {c} : serverEnd'[b] = serverEnd[b]
    BY <1>1, <2>1 DEF ClientTypes, End
  <2>5. serverPc # "gone" => Request(c).op # "get"
    BY <1>2, <2>1
  <2> QED BY <1>1, <2>2, <2>3, <2>4, <2>5, ReturnsStep
<1> QED BY <1>3, <1>4, <1>5 DEF ClientHears

-----------------------------------------------------------------------------
(* Theorems *)

LEMMA TcpNext == TcpInv /\ [Next]_vars => TcpInv'
<1> SUFFICES ASSUME TcpInv, [Next]_vars  PROVE TcpInv'
  OBVIOUS
<1>1. CASE LoadGroup \/ LoadStudent \/ LoadFails \/ LoadDone
  BY <1>1, LoadStep
<1>2. CASE Poll \/ Accept \/ AcceptDone \/ RecvError \/ PollTimeout
  BY <1>2, PollStep, AcceptStep, AcceptDoneStep, PollTimeoutStep
<1>3. ASSUME NEW c \in Client, RecvNothing(c)  PROVE TcpInv'
  BY <1>3, RecvNothingStep
<1>4. ASSUME NEW c \in Client, NEW m \in Message, Handle(c, m)  PROVE TcpInv'
  BY <1>4, GetStep, InvalidStep, CloseSessionStep, LastHandleStep DEF Handle
<1>5. ASSUME NEW c \in Client, ClientSends(c) \/ Kill(c)  PROVE TcpInv'
  BY <1>5, ConnectStep, BadLineStep, SendStep, GoneStep DEF ClientSends
<1>6. ASSUME NEW c \in Client, ClientHears(c)  PROVE TcpInv'
  BY <1>6, HearsStep
<1>7. CASE UNCHANGED vars
  <2>1. UNCHANGED <<tableVars, serverVars>> /\ backlog' = backlog /\ open' = open
        /\ UNCHANGED <<lines, clientPc, toServer, toClient, clientEnd, serverEnd>>
        /\ serverPc' = serverPc /\ roster' = roster
    BY <1>7 DEF vars, clientVars, netVars, serverVars, tableVars
  <2>2. TypeOK'
    <3>1. ClientTypes' /\ backlog' \in Seq(Client)
      BY <1>7 DEF vars, clientVars, netVars, TcpInv, TypeOK, ClientTypes
    <3> QED BY <2>1, <3>1, ClientStepTypes
  <2>3. TableInv' /\ Loaded' /\ Watching'
    BY <2>1, ServerUntouched
  <2>4. AcceptedOnce'
    BY <2>1 DEF TcpInv, AcceptedOnce
  <2>5. \A c \in Client : ConnInv(c)'
    BY <2>1, ConnUntouched DEF TcpInv
  <2> QED BY <2>2, <2>3, <2>4, <2>5 DEF TcpInv, TableInv
<1> QED BY <1>1, <1>2, <1>3, <1>4, <1>5, <1>6, <1>7 DEF Next, ServerStep

\* The state of the TCP service keeps its types: the walk never leaves clients_, and
\* recv() finds at most one message in its buffer.
THEOREM TcpTypes == Spec => []TypeOK
<1>1. TcpInv => TypeOK
  BY DEF TcpInv
<1> QED BY <1>1, TcpInitInv, TcpNext, PTL DEF Spec

\* clients_ and the kernel's table of descriptors agree whenever run() polls.
THEOREM TcpPollsWhatIsOpen == Spec => []PollsWhatIsOpen
<1>1. TcpInv => PollsWhatIsOpen
  BY DEF TcpInv, Watching, AcceptedOnce, PollsWhatIsOpen
<1> QED BY <1>1, TcpInitInv, TcpNext, PTL DEF Spec

\* run() closes nobody's connection but that of the client that asked for it.
THEOREM TcpClosedOnRequest == Spec => []ClosedOnRequest
<1>1. TcpInv => ClosedOnRequest
  BY DEF TcpInv, ConnInv, Served, ClosedOnRequest
<1> QED BY <1>1, TcpInitInv, TcpNext, PTL DEF Spec

\* A client that prints something while the server runs has waited with a GET, and
\* prints the one name that the input main() has read gives to its key.
PrintsItsAnswer ==
  serverPc # "gone" /\ printed' # printed =>
    \E c \in Client :
      /\ AwaitsName(c)
      /\ printed' = [printed EXCEPT ![c] = Append(@, <<TrueName(Request(c).key)>>)]

\* Each reply that send_message() returns while the server runs is the answer to the
\* request it has sent, for any number of requests and of clients.
THEOREM TcpPrintsItsAnswer == Spec => [][PrintsItsAnswer]_vars
<1>1. TcpInv /\ [Next]_vars => [PrintsItsAnswer]_vars
  <2> SUFFICES ASSUME TcpInv, Next, serverPc # "gone", printed' # printed
               PROVE  PrintsItsAnswer
    BY DEF PrintsItsAnswer
  <2>1. PICK c \in Client : ClientHears(c)
    BY DEF Next, ServerStep, LoadGroup, LoadStudent, LoadFails, LoadDone, Poll, Accept, AcceptDone,
           RecvError, RecvNothing, Handle, HandleGet, HandleGetDead, CloseSession, HandleStop,
           HandleInvalid, PollTimeout, ClientSends, Connect, ConnectFails, BadLine, Send, SendFails,
           Kill, clientVars, vars
  <2>2. clientPc[c] = "waiting"
    BY <2>1 DEF ClientHears, RecvReply, RecvEof, RecvReset
  <2> QED BY <2>1, <2>2, HearsStep DEF PrintsItsAnswer, AwaitsName
<1> QED BY <1>1, TcpInitInv, TcpNext, PTL DEF Spec

-----------------------------------------------------------------------------
(* The whole dialogue of a client *)

\* Answers to GETs, whatever the keys.
Replies == {<<TrueName(k)>> : k \in Key}

\* The answers to lines are those to one after the other.
LEMMA AnswersTyped ==
  ASSUME NEW ls \in Seq(ClientLine)
  PROVE  /\ [i \in DOMAIN ls |-> AnswerTo(ls[i])] \in Seq(Seq(Replies))
         /\ Len([i \in DOMAIN ls |-> AnswerTo(ls[i])]) = Len(ls)
         /\ AnswersTo(ls) \in Seq(Replies)
<1>1. Len(ls) \in Nat /\ DOMAIN ls = 1 .. Len(ls) /\ \A i \in 1 .. Len(ls) : ls[i] \in ClientLine
  BY LenProperties, ElementOfSeq
<1>2. ASSUME NEW l \in ClientLine  PROVE AnswerTo(l) \in Seq(Replies)
  <2>1. CASE l.op = "get"
    <3>1. <<TrueName(l.key)>> \in Replies
      BY <2>1 DEF ClientLine, Replies
    <3> QED BY <2>1, <3>1 DEF AnswerTo
  <2>2. CASE l.op # "get"
    BY <2>2 DEF AnswerTo
  <2> QED BY <2>1, <2>2
<1>3. [i \in DOMAIN ls |-> AnswerTo(ls[i])] \in [1 .. Len(ls) -> Seq(Replies)]
  BY <1>1, <1>2
<1>4. /\ [i \in DOMAIN ls |-> AnswerTo(ls[i])] \in Seq(Seq(Replies))
      /\ Len([i \in DOMAIN ls |-> AnswerTo(ls[i])]) = Len(ls)
  BY <1>1, <1>3, FunctionIsSeq
<1> QED BY <1>4, FlattenType DEF AnswersTo

LEMMA AnswersConcat ==
  ASSUME NEW ls \in Seq(ClientLine), NEW ms \in Seq(ClientLine)
  PROVE  AnswersTo(ls \o ms) = AnswersTo(ls) \o AnswersTo(ms)
<1> DEFINE All(s) == [i \in DOMAIN s |-> AnswerTo(s[i])]
<1>1. /\ ls \o ms \in Seq(ClientLine) /\ Len(ls \o ms) = Len(ls) + Len(ms)
      /\ Len(ls) \in Nat /\ Len(ms) \in Nat
      /\ DOMAIN ls = 1 .. Len(ls) /\ DOMAIN ms = 1 .. Len(ms)
      /\ DOMAIN (ls \o ms) = 1 .. Len(ls) + Len(ms)
      /\ \A i \in 1 .. Len(ls) + Len(ms) :
           (ls \o ms)[i] = IF i <= Len(ls) THEN ls[i] ELSE ms[i - Len(ls)]
  BY LenProperties, ConcatProperties
<1>2. /\ All(ls) \in Seq(Seq(Replies)) /\ Len(All(ls)) = Len(ls)
      /\ All(ms) \in Seq(Seq(Replies)) /\ Len(All(ms)) = Len(ms)
      /\ All(ls \o ms) \in Seq(Seq(Replies)) /\ Len(All(ls \o ms)) = Len(ls) + Len(ms)
  BY <1>1, AnswersTyped
<1>3. /\ \A i \in 1 .. Len(ls) : All(ls)[i] = AnswerTo(ls[i])
      /\ \A i \in 1 .. Len(ms) : All(ms)[i] = AnswerTo(ms[i])
      /\ \A i \in 1 .. Len(ls) + Len(ms) : All(ls \o ms)[i] = AnswerTo((ls \o ms)[i])
  BY <1>1
<1> DEFINE a == All(ls)
           b == All(ms)
           ab == All(ls \o ms)
<1>4. ab = a \o b
  <2> HIDE DEF All
  <2>0. /\ a \in Seq(Seq(Replies)) /\ Len(a) = Len(ls)
        /\ b \in Seq(Seq(Replies)) /\ Len(b) = Len(ms)
        /\ ab \in Seq(Seq(Replies)) /\ Len(ab) = Len(ls) + Len(ms)
        /\ \A i \in 1 .. Len(ls) : a[i] = AnswerTo(ls[i])
        /\ \A i \in 1 .. Len(ms) : b[i] = AnswerTo(ms[i])
        /\ \A i \in 1 .. Len(ls) + Len(ms) : ab[i] = AnswerTo((ls \o ms)[i])
    BY <1>2, <1>3
  <2> HIDE DEF a, b, ab
  <2> DEFINE R == Seq(Replies)
  <2>1. /\ a \o b \in Seq(R) /\ Len(a \o b) = Len(a) + Len(b)
        /\ \A i \in 1 .. Len(a) + Len(b) :
             (a \o b)[i] = IF i <= Len(a) THEN a[i] ELSE b[i - Len(a)]
    <3>1. a \in Seq(R) /\ b \in Seq(R)
      BY <2>0
    <3> HIDE DEF R
    <3> QED BY <3>1, ConcatProperties
  <2>2. ASSUME NEW i \in 1 .. Len(ab)  PROVE ab[i] = (a \o b)[i]
    <3>1. CASE i <= Len(ls)
      <4>1. i \in 1 .. Len(ls) /\ i \in 1 .. Len(ls) + Len(ms)
        BY <1>1, <2>0, <3>1
      <4> QED BY <1>1, <2>0, <2>1, <3>1, <4>1
    <3>2. CASE ~(i <= Len(ls))
      <4>1. i \in 1 .. Len(ls) + Len(ms) /\ i - Len(ls) \in 1 .. Len(ms)
        BY <1>1, <2>0, <3>2, SMTT(30)
      <4>2. ab[i] = AnswerTo(ms[i - Len(ls)])
        BY <1>1, <2>0, <3>2, <4>1
      <4>3. (a \o b)[i] = b[i - Len(ls)]
        BY <2>0, <2>1, <3>2, <4>1
      <4> QED BY <2>0, <4>1, <4>2, <4>3
    <3> QED BY <3>1, <3>2
  <2>3. Len(ab) = Len(a \o b)
    BY <2>0, <2>1
  <2> QED BY <2>0, <2>1, <2>2, <2>3, SeqEqual
<1>5. FlattenSeq(ab) = FlattenSeq(a) \o FlattenSeq(b)
  <2>1. a \in Seq(Seq(Replies)) /\ b \in Seq(Seq(Replies))
    BY <1>2
  <2> HIDE DEF a, b, ab
  <2> QED BY <1>4, <2>1, FlattenConcat
<1> QED BY <1>5 DEF AnswersTo

\* The answers to no line and to one.
LEMMA AnswersOne ==
  /\ AnswersTo(<< >>) = << >>
  /\ \A l : AnswersTo(<<l>>) = AnswerTo(l)
<1>1. AnswersTo(<< >>) = << >>
  <2>1. [i \in DOMAIN << >> |-> AnswerTo(<< >>[i])] = << >>
    OBVIOUS
  <2> QED BY <2>1, FlattenEmpty DEF AnswersTo
<1>2. ASSUME NEW l  PROVE AnswersTo(<<l>>) = AnswerTo(l)
  <2> DEFINE a == AnswerTo(l)
             S == Replies \cup {<<TrueName(l.key)>>}
  <2>1. a \in Seq(S)
    <3> DEFINE n == <<TrueName(l.key)>>
    <3>1. n \in S
      OBVIOUS
    <3>2. a = << >> \/ a = <<n>>
      BY DEF AnswerTo
    <3>3. << >> \in Seq(S) /\ <<n>> \in Seq(S)
      <4> HIDE DEF n, S
      <4> QED BY <3>1
    <3> HIDE DEF n, a, S
    <3> QED BY <3>2, <3>3, Zenon
  <2>2. [i \in DOMAIN <<l>> |-> AnswerTo(<<l>>[i])] = <<a>>
    OBVIOUS
  <2> HIDE DEF a, S
  <2>3. Append(<< >>, a) = <<a>> /\ << >> \in Seq(Seq(S)) /\ << >> \o a = a
    BY <2>1
  <2>4. FlattenSeq(<<a>>) = a
    BY <2>1, <2>3, FlattenAppend, FlattenEmpty
  <2> QED BY <2>2, <2>4 DEF AnswersTo, a
<1> QED BY <1>1, <1>2

\* A line is done: what it says is printed, if the server runs.
LEMMA LineDone ==
  ASSUME TcpInv, TcpProgress, NEW c \in Client, lines[c] # << >>,
         lines' = [lines EXCEPT ![c] = Tail(@)], roster' = roster, serverPc' = serverPc,
         \A b \in Client \ {c} : printed'[b] = printed[b],
         serverPc # "gone" => printed'[c] = printed[c] \o AnswerTo(Head(lines[c]))
  PROVE  TcpProgress'
<1>1. lines \in [Client -> Seq(ClientLine)]
  BY DEF TcpInv, TypeOK
<1>2. \A ls : AnswersTo(ls)' = AnswersTo(ls)
  BY TrueNameStays DEF AnswersTo, AnswerTo
<1>3. ASSUME NEW b \in Client \ {c}  PROVE Progress(b)'
  <2>1. PICK done \in Seq(ClientLine) :
          /\ Script[b] = done \o lines[b]
          /\ serverPc # "gone" => printed[b] = AnswersTo(done)
    BY DEF TcpProgress, Progress
  <2>2. lines'[b] = lines[b]
    BY <1>1
  <2> QED BY <1>2, <2>1, <2>2 DEF Progress
<1>4. Progress(c)'
  <2>1. PICK done \in Seq(ClientLine) :
          /\ Script[c] = done \o lines[c]
          /\ serverPc # "gone" => printed[c] = AnswersTo(done)
    BY DEF TcpProgress, Progress
  <2> DEFINE l == Head(lines[c])
             more == done \o <<l>>
  <2>2. /\ l \in ClientLine /\ <<l>> \in Seq(ClientLine) /\ more \in Seq(ClientLine)
        /\ Tail(lines[c]) \in Seq(ClientLine) /\ lines'[c] = Tail(lines[c])
    BY <1>1, ConcatProperties
  <2>3. lines[c] = <<l>> \o Tail(lines[c])
    BY <1>1
  <2>4. Script[c] = more \o lines'[c]
    <3>1. done \o (<<l>> \o Tail(lines[c])) = more \o Tail(lines[c])
      <4>1. \A r, s, t \in Seq(ClientLine) : (r \o s) \o t = r \o (s \o t)
        BY ConcatAssociative
      <4> HIDE DEF l
      <4> QED BY <2>2, <4>1, Zenon DEF more
    <3> QED BY <2>1, <2>2, <2>3, <3>1, Zenon
  <2>5. AnswersTo(more) = AnswersTo(done) \o AnswerTo(l)
    BY <2>2, AnswersConcat, AnswersOne
  <2>6. serverPc' # "gone" => printed'[c] = AnswersTo(more)
    BY <2>1, <2>5
  <2> HIDE DEF more
  <2> QED BY <1>2, <2>2, <2>4, <2>6 DEF Progress
<1> QED BY <1>3, <1>4 DEF TcpProgress

\* Steps in which no line is done.
LEMMA NoLineDone ==
  ASSUME TcpProgress, lines' = lines, printed' = printed, roster' = roster,
         serverPc' # "gone" => serverPc # "gone"
  PROVE  TcpProgress'
<1>1. \A ls : AnswersTo(ls)' = AnswersTo(ls)
  BY TrueNameStays DEF AnswersTo, AnswerTo
<1>2. ASSUME NEW c \in Client  PROVE Progress(c)'
  <2>1. PICK done \in Seq(ClientLine) :
          /\ Script[c] = done \o lines[c]
          /\ serverPc # "gone" => printed[c] = AnswersTo(done)
    BY DEF TcpProgress, Progress
  <2> QED BY <1>1, <2>1 DEF Progress
<1> QED BY <1>2 DEF TcpProgress

\* The server does no client's lines, and does not come back.
LEMMA ServerDoesNoLine ==
  ASSUME ServerStep \/ PollTimeout
  PROVE  UNCHANGED <<clientVars, roster>> /\ (serverPc' # "gone" => serverPc # "gone")
<1>1. CASE LoadGroup \/ LoadStudent \/ LoadFails \/ LoadDone
  BY <1>1 DEF LoadGroup, LoadStudent, LoadFails, LoadDone, ReadGroup, ReadStudent, tableVars,
              serverVars
<1>2. CASE Poll \/ Accept \/ AcceptDone \/ RecvError \/ PollTimeout
  BY <1>2 DEF Poll, Accept, AcceptDone, RecvError, PollTimeout, tableVars
<1>3. ASSUME NEW c \in Client, RecvNothing(c)
      PROVE  UNCHANGED <<clientVars, roster>> /\ serverPc # "gone"
  BY <1>3 DEF RecvNothing, Receiving, tableVars
<1>4. ASSUME NEW c \in Client, NEW m \in Message, Handle(c, m)
      PROVE  UNCHANGED <<clientVars, roster>> /\ serverPc # "gone"
  BY <1>4 DEF Handle, HandleGet, HandleGetDead, CloseSession, HandleStop, HandleInvalid, Receives,
              Receiving, tableVars
<1> QED BY <1>1, <1>2, <1>3, <1>4 DEF ServerStep

LEMMA ProgressInit == Init => TcpProgress
<1> SUFFICES ASSUME Init, NEW c \in Client  PROVE Progress(c)
  BY DEF TcpProgress
<1>1. << >> \in Seq(ClientLine) /\ Script[c] \in Seq(ClientLine)
  BY TcpAssumption
<1>2. Script[c] = << >> \o lines[c]
  BY <1>1, ConcatEmptySeq DEF Init
<1> QED BY <1>1, <1>2, AnswersOne DEF Init, Progress

LEMMA ProgressNext == TcpInv /\ TcpProgress /\ [Next]_vars => TcpProgress'
<1> SUFFICES ASSUME TcpInv, TcpProgress, [Next]_vars  PROVE TcpProgress'
  OBVIOUS
<1>1. CASE ServerStep \/ PollTimeout
  BY <1>1, ServerDoesNoLine, NoLineDone DEF clientVars
<1>2. ASSUME NEW c \in Client, Connect(c) \/ ConnectFails(c) \/ Send(c) \/ SendFails(c) \/ Kill(c)
      PROVE  TcpProgress'
  <2>1. lines' = lines /\ printed' = printed /\ roster' = roster /\ serverPc' = serverPc
    BY <1>2 DEF Connect, ConnectFails, Send, SendFails, Kill, tableVars, serverVars
  <2> QED BY <2>1, NoLineDone
<1>3. ASSUME NEW c \in Client, BadLine(c)  PROVE TcpProgress'
  <2>1. /\ lines[c] # << >> /\ Head(lines[c]).op = "bad"
        /\ lines' = [lines EXCEPT ![c] = Tail(@)]
        /\ printed' = printed /\ roster' = roster /\ serverPc' = serverPc
    BY <1>3 DEF BadLine, HasLine, tableVars, serverVars
  <2>2. printed[c] = printed[c] \o AnswerTo(Head(lines[c]))
    <3>1. AnswerTo(Head(lines[c])) = << >>
      BY <2>1 DEF AnswerTo
    <3>2. printed[c] \in Seq(Seq(Name \cup Key \cup {Garbage}))
      BY DEF TcpInv, TypeOK
    <3> QED BY <3>1, <3>2, ConcatEmptySeq
  <2> QED BY <2>1, <2>2, LineDone
<1>4. ASSUME NEW c \in Client, ClientHears(c)  PROVE TcpProgress'
  <2>1. PICK r : Returns(c, r)
    BY <1>4 DEF ClientHears, RecvReply, RecvEof, RecvReset
  <2>2. roster' = roster /\ serverPc' = serverPc
    BY <2>1 DEF Returns, tableVars, serverVars
  <2>3. CASE Request(c).op # "get"
    BY <2>1, <2>2, <2>3, NoLineDone DEF Returns
  <2>4. CASE Request(c).op = "get"
    <3>1. /\ lines' = [lines EXCEPT ![c] = Tail(@)]
          /\ printed' = [printed EXCEPT ![c] = Append(@, r)]
      BY <2>1, <2>4 DEF Returns
    <3>2. lines[c] # << >> /\ Head(lines[c]) = Request(c)
      BY <2>4 DEF Request, StopSession
    <3>3. printed \in [Client -> Seq(Seq(Name \cup Key \cup {Garbage}))]
      BY DEF TcpInv, TypeOK
    <3>4. \A b \in Client \ {c} : printed'[b] = printed[b]
      BY <3>1, <3>3
    <3>5. ASSUME serverPc # "gone"
          PROVE  printed'[c] = printed[c] \o AnswerTo(Head(lines[c]))
      <4> DEFINE n == <<TrueName(Request(c).key)>>
      <4>1. printed' # printed
        <5>1. printed'[c] = Append(printed[c], r) /\ Len(printed[c]) \in Nat
          BY <3>1, <3>3
        <5>2. Len(printed'[c]) = Len(printed[c]) + 1
          BY <3>3, <5>1
        <5> QED BY <5>1, <5>2
      <4>2. printed' = [printed EXCEPT ![c] = Append(@, n)]
        BY <1>4, <3>5, <4>1, HearsStep
      <4>3. AnswerTo(Head(lines[c])) = <<n>>
        BY <2>4, <3>2 DEF AnswerTo
      <4> HIDE DEF n
      <4>4. printed'[c] = Append(printed[c], n)
        BY <3>3, <4>2
      <4>5. Append(printed[c], n) = printed[c] \o <<n>>
        BY <3>3
      <4> QED BY <4>3, <4>4, <4>5
    <3> QED BY <2>2, <3>1, <3>2, <3>4, <3>5, LineDone
  <2> QED BY <2>3, <2>4
<1>5. CASE UNCHANGED vars
  BY <1>5, NoLineDone DEF vars, clientVars, serverVars, tableVars
<1> QED BY <1>1, <1>2, <1>3, <1>4, <1>5 DEF Next, ClientSends

\* As long as the server runs, what a client has printed are the answers to its
\* first GETs, one for each and in order, however many lines it has, whoever else
\* connects, asks, leaves or is killed, and though the server listens before it has
\* read its input.
THEOREM TcpAnswersWhileServing == Spec => []AnswersWhileServing
<1>1. TcpInv /\ TcpProgress => AnswersWhileServing
  <2> SUFFICES ASSUME TcpInv, TcpProgress, serverPc # "gone", NEW c \in Client
               PROVE  IsPrefix(printed[c], AnswersTo(Script[c]))
    BY DEF AnswersWhileServing, RepliesAreAnswers
  <2>1. PICK done \in Seq(ClientLine) :
          Script[c] = done \o lines[c] /\ printed[c] = AnswersTo(done)
    BY DEF TcpProgress, Progress
  <2>2. lines[c] \in Seq(ClientLine)
    BY DEF TcpInv, TypeOK
  <2>3. AnswersTo(Script[c]) = AnswersTo(done) \o AnswersTo(lines[c])
    BY <2>1, <2>2, AnswersConcat
  <2> QED BY <2>1, <2>2, <2>3, AnswersTyped, PrefixOfConcat
<1> QED BY <1>1, TcpInitInv, TcpNext, ProgressInit, ProgressNext, PTL DEF Spec
=============================================================================
