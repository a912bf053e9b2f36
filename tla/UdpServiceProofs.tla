-------------------------- MODULE UdpServiceProofs --------------------------
(***************************************************************************)
(* Proofs about the UDP name service, for any inputs, any number of        *)
(* clients, any lines they send and any losses and strays: what a client   *)
(* prints is what it asked for.                                            *)
(***************************************************************************)
EXTENDS UdpService, NameTableProofs, SequenceTheorems

(***************************************************************************)
(* The invariant.  RepliesAreAnswers does not say what is on its way: a    *)
(* reply is right only because there is never more than one datagram of a  *)
(* client, and it is about the request the client waits for.               *)
(***************************************************************************)
Mine(c, d)   == d.from = AddressOf[c]
ForMe(c, d)  == d.to = AddressOf[c]

Alone(c) ==
  /\ \A d, e \in toServer : Mine(c, d) /\ Mine(c, e) => d = e
  /\ \A d, e \in toClients : ForMe(c, d) /\ ForMe(c, e) => d = e
  /\ \A d \in toServer, e \in toClients : ~(Mine(c, d) /\ ForMe(c, e))

UnderWay(c) ==
  /\ \A d \in toServer : Mine(c, d) =>
       /\ clientPc[c] # "reading" /\ d.msg # Nothing
       /\ clientPc[c] = "waiting" => d.msg = Request(c)
  /\ \A d \in toClients : ForMe(c, d) =>
       /\ clientPc[c] # "reading"
       /\ clientPc[c] = "waiting" =>
            Request(c).op = "get" /\ d.reply = TrueName(Request(c).key)

AwaitsName(c) == clientPc[c] = "waiting" /\ Request(c).op = "get"

Answered(c) ==
  /\ Len(printed[c]) <= Len(asked[c])
  /\ \A i \in DOMAIN printed[c] : printed[c][i] = TrueName(asked[c][i])
  /\ AwaitsName(c) => /\ Len(asked[c]) = Len(printed[c]) + 1
                      /\ asked[c][Len(asked[c])] = Request(c).key
  /\ ~AwaitsName(c) /\ clientPc[c] # "gone" => Len(asked[c]) = Len(printed[c])

ClientInv(c) == Alone(c) /\ UnderWay(c) /\ Answered(c)

Loaded == serverPc = "run" => loaded = Readable

UdpInv ==
  /\ TypeOK /\ TableIsInput /\ AllReadable /\ Loaded
  /\ IsInjective(clients)
  /\ \A c \in Client : ClientInv(c)

-----------------------------------------------------------------------------
(* Operators *)

\* The same host and port are the same address.
LEMMA SameAddress ==
  ASSUME NEW a \in Address, NEW b \in Address, SameClient(a, b)
  PROVE  a = b
<1>1. a \in [host : Host, port : Port] /\ b \in [host : Host, port : Port]
  BY UdpAssumption DEF Address
<1> QED BY <1>1 DEF SameClient

\* get_client_num() keeps clients_ free of repetitions and its numbers as they
\* were, and the number it returns is that of the source.
LEMMA EnrolledKeeps ==
  ASSUME clients \in Seq(Address), IsInjective(clients), NEW from \in Address
  PROVE  /\ Enrolled(from) \in Seq(Address)
         /\ IsInjective(Enrolled(from))
         /\ IsPrefix(clients, Enrolled(from))
         /\ Enrolled(from)[ClientNum(from)] = from
<1>1. CASE \E i \in DOMAIN clients : SameClient(clients[i], from)
  <2>1. Enrolled(from) = clients
    BY <1>1 DEF Enrolled
  <2>2. PICK i \in DOMAIN clients : SameClient(clients[i], from)
    BY <1>1
  <2>3. \A j \in DOMAIN clients : clients[j] \in Address
    OBVIOUS
  <2>4. clients[i] = from
    BY <2>2, <2>3, SameAddress
  <2>5. \A j \in DOMAIN clients : SameClient(clients[j], from) => j = i
    <3>1. \A j \in DOMAIN clients : SameClient(clients[j], from) => clients[j] = clients[i]
      BY <2>3, <2>4, SameAddress
    <3> QED BY <3>1 DEF IsInjective
  <2>6. \A j \in 1 .. i - 1 : j \in DOMAIN clients /\ j # i
    OBVIOUS
  <2>7. ClientNum(from) = i
    <3> DEFINE Is(n) == /\ SameClient(clients[n], from)
                        /\ \A j \in 1 .. n - 1 : ~SameClient(clients[j], from)
    <3>1. Is(i) /\ \A n \in DOMAIN clients : Is(n) => n = i
      BY <2>2, <2>5, <2>6
    <3> HIDE DEF Is
    <3>2. (CHOOSE n \in DOMAIN clients : Is(n)) = i
      BY <3>1
    <3> QED BY <2>1, <3>2 DEF ClientNum, Is
  <2>8. IsPrefix(clients, clients)
    BY DEF IsPrefix
  <2> QED BY <2>1, <2>4, <2>7, <2>8
<1>2. CASE ~ \E i \in DOMAIN clients : SameClient(clients[i], from)
  <2> DEFINE n == Len(clients) + 1
  <2>1. Enrolled(from) = Append(clients, from)
    BY <1>2 DEF Enrolled
  <2>2. /\ Append(clients, from) \in Seq(Address)
        /\ DOMAIN Append(clients, from) = 1 .. n /\ n \in Nat
        /\ Append(clients, from)[n] = from
        /\ \A i \in 1 .. Len(clients) : Append(clients, from)[i] = clients[i]
    OBVIOUS
  <2>3. \A i \in 1 .. Len(clients) : i \in DOMAIN clients /\ clients[i] # from
    <3>1. SameClient(from, from)
      BY DEF SameClient
    <3> QED BY <1>2, <3>1
  <2>4. IsInjective(Append(clients, from))
    BY <2>2, <2>3 DEF IsInjective
  <2>5. IsPrefix(clients, Append(clients, from))
    BY <2>2 DEF IsPrefix
  <2>6. ClientNum(from) = n
    <3> DEFINE s == Append(clients, from)
               Is(k) == /\ SameClient(s[k], from)
                        /\ \A j \in 1 .. k - 1 : ~SameClient(s[j], from)
    <3>1. Is(n)
      BY <1>2, <2>2, <2>3 DEF SameClient
    <3>2. \A k \in 1 .. n : Is(k) => k = n
      BY <1>2, <2>2, <2>3
    <3> HIDE DEF Is, s
    <3>3. (CHOOSE k \in 1 .. n : Is(k)) = n
      BY <3>1, <3>2, <2>2
    <3> QED BY <2>1, <2>2, <3>3 DEF ClientNum, Is, s
  <2> QED BY <2>1, <2>2, <2>4, <2>5, <2>6
<1> QED BY <1>1, <1>2

\* get() gives a name or repeats the key.
LEMMA GetType ==
  ASSUME TableTypeOK, NEW k \in Key  PROVE Get(k) \in Name \cup Key
BY DEF TableTypeOK, Get

\* What the input says of a key does not change.
LEMMA TrueNameFixed ==
  ASSUME roster' = roster  PROVE \A k : TrueName(k)' = TrueName(k)
BY RosterFixed DEF TrueName

\* An empty datagram is no message.
LEMMA NothingIsNone == Nothing \notin Message
BY DEF Nothing, Message

\* What a client sends is a message, since a bad line is not sent.
LEMMA RequestType ==
  ASSUME TypeOK, NEW c \in Client, clientPc[c] = "reading", ~HasLine(c, "bad")
  PROVE  Request(c) \in Message /\ (Request(c).op = "get" => Request(c).key \in Key)
<1>1. CASE lines[c] = << >>
  BY <1>1 DEF Request, StopSession, Message
<1>2. CASE lines[c] # << >>
  <2>1. Head(lines[c]) \in ClientLine /\ Head(lines[c]).op # "bad"
    BY <1>2 DEF TypeOK, HasLine
  <2> QED BY <1>2, <2>1 DEF Request, ClientLine, Message
<1> QED BY <1>1, <1>2

-----------------------------------------------------------------------------
(* Steps, as far as they are alike *)

\* A client whose own variables stay and who gets no new datagram is as before;
\* some of its datagrams may be gone.
LEMMA ClientUntouched ==
  ASSUME NEW c \in Client, ClientInv(c), roster' = roster,
         lines'[c] = lines[c], clientPc'[c] = clientPc[c],
         asked'[c] = asked[c], printed'[c] = printed[c],
         \A d \in toServer' : Mine(c, d) => d \in toServer,
         \A d \in toClients' : ForMe(c, d) => d \in toClients
  PROVE  ClientInv(c)'
<1>1. \A d : Mine(c, d)' = Mine(c, d) /\ ForMe(c, d)' = ForMe(c, d)
  BY DEF Mine, ForMe
<1>2. Request(c)' = Request(c)
  BY DEF Request
<1>3. \A k : TrueName(k)' = TrueName(k)
  BY TrueNameFixed
<1>4. Alone(c)'
  BY <1>1 DEF ClientInv, Alone
<1>5. UnderWay(c)'
  BY <1>1, <1>2, <1>3 DEF ClientInv, UnderWay
<1>6. Answered(c)'
  BY <1>2, <1>3 DEF ClientInv, Answered, AwaitsName
<1> QED BY <1>4, <1>5, <1>6 DEF ClientInv

\* So is every client, when no client does anything and no datagram is sent to one
\* or by one.
LEMMA ClientsUntouched ==
  ASSUME \A c \in Client : ClientInv(c), roster' = roster, UNCHANGED clientVars,
         \A d \in toServer' : d \in toServer \/ d.from \in Stray,
         \A d \in toClients' : d \in toClients \/ d.to \in Stray
  PROVE  \A c \in Client : ClientInv(c)'
<1> SUFFICES ASSUME NEW c \in Client  PROVE ClientInv(c)'
  OBVIOUS
<1>1. AddressOf[c] \notin Stray
  BY UdpAssumption
<1>2. /\ \A d \in toServer' : Mine(c, d) => d \in toServer
      /\ \A d \in toClients' : ForMe(c, d) => d \in toClients
  BY <1>1 DEF Mine, ForMe
<1> QED BY <1>2, ClientUntouched DEF clientVars

\* The parts of the invariant about the server stay when it does nothing.
LEMMA ServerUntouched ==
  ASSUME UdpInv, UNCHANGED <<tableVars, serverVars>>
  PROVE  TableInv' /\ Loaded' /\ IsInjective(clients)'
<1>1. TableInv'
  BY TableStays DEF UdpInv, TypeOK, TableInv
<1> QED BY <1>1, RosterFixed DEF UdpInv, Loaded, serverVars, tableVars, IsInjective

\* A step of one client: it is enough to look at it.
LEMMA OneClient ==
  ASSUME UdpInv, NEW c \in Client, UNCHANGED <<tableVars, serverVars>>, TypeOK',
         \A b \in Client \ {c} :
           /\ lines'[b] = lines[b] /\ clientPc'[b] = clientPc[b]
           /\ asked'[b] = asked[b] /\ printed'[b] = printed[b],
         \A d \in toServer' : d \in toServer \/ Mine(c, d),
         toClients' \subseteq toClients,
         ClientInv(c)'
  PROVE  UdpInv'
<1>1. \A b \in Client : ClientInv(b)'
  <2> SUFFICES ASSUME NEW b \in Client, b # c  PROVE ClientInv(b)'
    OBVIOUS
  <2>1. AddressOf[b] # AddressOf[c]
    BY UdpAssumption
  <2>2. \A d \in toServer' : Mine(b, d) => d \in toServer
    BY <2>1 DEF Mine
  <2>3. roster' = roster /\ ClientInv(b)
    BY DEF tableVars, UdpInv
  <2> QED BY <2>2, <2>3, ClientUntouched
<1>2. TableInv' /\ Loaded' /\ IsInjective(clients)'
  BY ServerUntouched
<1> QED BY <1>1, <1>2 DEF UdpInv, TableInv

-----------------------------------------------------------------------------
(* main() of the server *)

LEMMA UdpInitInv == Init => UdpInv
<1> SUFFICES ASSUME Init  PROVE UdpInv
  OBVIOUS
<1>1. TableInv
  BY TableStarts DEF Init
<1>2. TypeOK
  BY <1>1, UdpAssumption DEF Init, TypeOK, TableInv
<1>3. IsInjective(clients)
  BY DEF Init, IsInjective
<1>4. \A c \in Client : ClientInv(c)
  BY DEF Init, ClientInv, Alone, UnderWay, Answered, AwaitsName
<1> QED BY <1>1, <1>2, <1>3, <1>4 DEF UdpInv, TableInv, Loaded, Init

\* A step of main() changes the table or what the server does next; a server that
\* ends takes its queue with it.
LEMMA LoadStep == ASSUME UdpInv, Load  PROVE UdpInv'
<1>1. /\ serverPc = "load" /\ serverPc' \in {"load", "run", "gone"}
      /\ UNCHANGED <<clients, buffer, clientVars, toClients, strayed, lost>>
      /\ toServer' \subseteq toServer
  BY DEF Load, LoadGroup, LoadStudent, LoadFails, LoadDone, ServerExit, serverVars, netVars
<1>2. TableInv /\ TableInv'
  <2>1. TableInv
    BY DEF UdpInv, TypeOK, TableInv
  <2> QED BY <2>1, GroupRead, StudentRead, TableStays
          DEF Load, LoadGroup, LoadStudent, LoadFails, LoadDone
<1>3. TypeOK'
  BY <1>1, <1>2 DEF UdpInv, TypeOK, TableInv, clientVars
<1>4. roster' = roster
  BY DEF Load, LoadGroup, LoadStudent, LoadFails, LoadDone, ReadGroup, ReadStudent, tableVars
<1>5. Loaded'
  <2>1. CASE LoadDone
    <3>1. loaded' = loaded /\ InputEnds
      BY <2>1 DEF LoadDone, tableVars
    <3> QED BY <1>2, <1>4, <3>1, AllIsRead, RosterFixed DEF Loaded
  <2>2. CASE ~LoadDone
    BY <1>1, <2>2 DEF Load, LoadGroup, LoadStudent, LoadFails, Loaded, ServerExit, serverVars
  <2> QED BY <2>1, <2>2
<1>6. \A c \in Client : ClientInv(c)'
  BY <1>1, <1>4, ClientsUntouched DEF UdpInv
<1>7. IsInjective(clients)'
  BY <1>1 DEF UdpInv, IsInjective
<1> QED BY <1>2, <1>3, <1>5, <1>6, <1>7 DEF UdpInv, TableInv

-----------------------------------------------------------------------------
(* run() *)

\* What every datagram received does to clients_ and to the buffer.
LEMMA ReceivesKeeps ==
  ASSUME UdpInv, NEW d, NEW m \in Message, Receives(d, m)
  PROVE  /\ d \in toServer /\ d.from \in Address
         /\ clients' \in Seq(Address) /\ buffer' \subseteq Message
         /\ IsInjective(clients') /\ IsPrefix(clients, clients')
         /\ clients'[ClientNum(d.from)] = d.from
<1>1. d \in toServer /\ d.from \in Address /\ clients \in Seq(Address)
  BY DEF Receives, UdpInv, TypeOK, Datagram
<1> QED BY <1>1, EnrolledKeeps DEF Receives, UdpInv

\* A message that nobody answers.
LEMMA NoneStep ==
  ASSUME UdpInv, NEW d, NEW m \in Message, HandleNone(d, m) \/ HandleStop(d, m)
  PROVE  UdpInv'
<1>1. /\ Receives(d, m) /\ toServer' \subseteq toServer
      /\ serverPc = "run" /\ serverPc' \in {"run", "gone"}
      /\ UNCHANGED <<tableVars, clientVars, toClients, strayed, lost>>
  BY DEF HandleNone, HandleStop, ServerExit, Receives
<1>2. TableInv'
  BY <1>1, TableStays DEF UdpInv, TypeOK, TableInv
<1>3. TypeOK' /\ IsInjective(clients)'
  BY <1>1, <1>2, ReceivesKeeps DEF UdpInv, TypeOK, TableInv, clientVars, IsInjective
<1>4. Loaded'
  BY <1>1, RosterFixed DEF UdpInv, Loaded, tableVars
<1>5. \A c \in Client : ClientInv(c)'
  BY <1>1, ClientsUntouched DEF UdpInv, tableVars
<1> QED BY <1>2, <1>3, <1>4, <1>5 DEF UdpInv, TableInv

\* A GET: the reply takes the place of the request, goes back to where that came
\* from, and is right because main() has read its input to the end.
LEMMA GetStep ==
  ASSUME UdpInv, NEW d, NEW m \in Message, HandleGet(d, m)
  PROVE  UdpInv'
<1> DEFINE r == [to |-> d.from, reply |-> Get(m.key)]
<1>1. /\ Receives(d, m) /\ serverPc = "run" /\ m.op = "get" /\ m \in Filled(d)
      /\ toServer' = toServer \ {d}
      /\ UNCHANGED <<tableVars, serverPc, clientVars, strayed, lost>>
  BY DEF HandleGet, Receives
<1>2. /\ d \in toServer /\ d.from \in Address
      /\ clients' \in Seq(Address) /\ buffer' \subseteq Message /\ IsInjective(clients')
      /\ clients'[ClientNum(d.from)] = d.from
  BY <1>1, ReceivesKeeps
<1>3. toClients' = toClients \cup {r}
  BY <1>2 DEF HandleGet
<1>4. m.key \in Key
  BY <1>1 DEF Message
<1>5. TableInv'
  BY <1>1, TableStays DEF UdpInv, TypeOK, TableInv
<1>6. r \in Reply
  BY <1>2, <1>4, GetType DEF UdpInv, TypeOK, Reply
<1>7. TypeOK'
  BY <1>1, <1>2, <1>3, <1>5, <1>6 DEF UdpInv, TypeOK, TableInv, clientVars
<1>8. Loaded'
  BY <1>1, RosterFixed DEF UdpInv, Loaded, tableVars
<1>9. IsInjective(clients)'
  BY <1>2 DEF IsInjective
<1>10. \A c \in Client : ClientInv(c)'
  <2> SUFFICES ASSUME NEW c \in Client  PROVE ClientInv(c)'
    OBVIOUS
  <2>1. ClientInv(c) /\ roster' = roster
    BY <1>1 DEF UdpInv, tableVars
  <2>2. CASE ~Mine(c, d)
    <3>1. ~ForMe(c, r)
      BY <2>2 DEF Mine, ForMe
    <3>2. /\ \A e \in toServer' : Mine(c, e) => e \in toServer
          /\ \A e \in toClients' : ForMe(c, e) => e \in toClients
      BY <1>1, <1>3, <3>1
    <3> QED BY <1>1, <2>1, <3>2, ClientUntouched DEF clientVars
  <2>3. CASE Mine(c, d)
    <3>1. \A e : Mine(c, e)' = Mine(c, e) /\ ForMe(c, e)' = ForMe(c, e)
      BY DEF Mine, ForMe
    <3>2. /\ \A e \in toServer' : ~Mine(c, e)
          /\ \A e \in toClients' : ForMe(c, e) => e = r
      BY <1>1, <1>2, <1>3, <2>1, <2>3 DEF ClientInv, Alone
    <3>3. Alone(c)'
      BY <3>1, <3>2 DEF Alone
    <3>4. /\ clientPc'[c] = clientPc[c] /\ Request(c)' = Request(c)
          /\ asked'[c] = asked[c] /\ printed'[c] = printed[c]
          /\ \A k : TrueName(k)' = TrueName(k)
      BY <1>1, <2>1, TrueNameFixed DEF clientVars, Request
    <3>5. m = d.msg
      BY <1>1, <1>2, <2>1, <2>3 DEF ClientInv, UnderWay, Filled
    <3>6. r.reply = TrueName(m.key)
      BY <1>1, <1>4 DEF UdpInv, Loaded, TableIsInput, TrueName
    <3>7. UnderWay(c)'
      BY <1>1, <1>2, <2>1, <2>3, <3>1, <3>2, <3>4, <3>5, <3>6 DEF ClientInv, UnderWay
    <3>8. Answered(c)'
      BY <2>1, <3>4 DEF ClientInv, Answered, AwaitsName
    <3> QED BY <3>3, <3>7, <3>8 DEF ClientInv
  <2> QED BY <2>2, <2>3
<1> QED BY <1>5, <1>7, <1>8, <1>9, <1>10 DEF UdpInv, TableInv

-----------------------------------------------------------------------------
(* The clients *)

LEMMA BadLineStep ==
  ASSUME UdpInv, NEW c \in Client, BadLine(c)  PROVE UdpInv'
<1>1. /\ clientPc[c] = "reading" /\ lines' = [lines EXCEPT ![c] = Tail(@)] /\ lines[c] # << >>
      /\ UNCHANGED <<tableVars, serverVars, clientPc, asked, printed, netVars>>
  BY DEF BadLine, HasLine
<1>2. lines \in [Client -> Seq(ClientLine)]
  BY DEF UdpInv, TypeOK
<1>3. TableInv'
  BY <1>1, ServerUntouched
<1>4. TypeOK'
  <2>1. lines' \in [Client -> Seq(ClientLine)]
    BY <1>1, <1>2
  <2> QED BY <1>1, <1>3, <2>1 DEF UdpInv, TypeOK, TableInv, serverVars, netVars
<1>5. ClientInv(c)'
  <2>1. ClientInv(c) /\ \A k : TrueName(k)' = TrueName(k)
    BY <1>1, TrueNameFixed DEF UdpInv, tableVars
  <2> QED BY <1>1, <2>1
          DEF ClientInv, Alone, UnderWay, Answered, AwaitsName, Mine, ForMe, netVars
<1>6. /\ \A b \in Client \ {c} : lines'[b] = lines[b]
      /\ toServer' = toServer /\ toClients' = toClients
  BY <1>1, <1>2 DEF netVars
<1> QED BY <1>1, <1>4, <1>5, <1>6, OneClient

\* A client that sends had nothing under way: its request is its only datagram.
LEMMA SendStep ==
  ASSUME UdpInv, NEW c \in Client, Send(c)  PROVE UdpInv'
<1> DEFINE d == [from |-> AddressOf[c], msg |-> Request(c)]
<1>1. /\ clientPc[c] = "reading" /\ ~HasLine(c, "bad")
      /\ clientPc' = [clientPc EXCEPT ![c] = "waiting"]
      /\ asked' = IF Request(c).op = "get" THEN [asked EXCEPT ![c] = Append(@, Request(c).key)]
                  ELSE asked
      /\ toServer' = IF serverPc = "gone" THEN toServer ELSE toServer \cup {d}
      /\ UNCHANGED <<tableVars, serverVars, lines, printed, toClients, strayed, lost>>
  BY DEF Send
<1>2. /\ clientPc \in [Client -> {"reading", "waiting", "gone"}]
      /\ asked \in [Client -> Seq(Key)] /\ printed \in [Client -> Seq(Name \cup Key)]
  BY DEF UdpInv, TypeOK
<1>3. /\ Request(c) \in Message
      /\ Request(c).op = "get" => Request(c).key \in Key
  BY <1>1, RequestType DEF UdpInv
<1>4. TableInv'
  BY <1>1, ServerUntouched
<1>5. TypeOK'
  <2>1. d \in Datagram
    BY <1>3 DEF Datagram, Address
  <2>2. clientPc' \in [Client -> {"reading", "waiting", "gone"}]
    BY <1>1, <1>2
  <2>3. asked' \in [Client -> Seq(Key)]
    BY <1>1, <1>2, <1>3
  <2> QED BY <1>1, <1>4, <2>1, <2>2, <2>3 DEF UdpInv, TypeOK, TableInv, serverVars
<1>6. /\ ClientInv(c) /\ Request(c)' = Request(c) /\ clientPc'[c] = "waiting"
      /\ \A k : TrueName(k)' = TrueName(k)
      /\ \A e : Mine(c, e)' = Mine(c, e) /\ ForMe(c, e)' = ForMe(c, e)
  BY <1>1, <1>2, TrueNameFixed DEF UdpInv, tableVars, Request, Mine, ForMe
<1>7. /\ \A e \in toServer' : Mine(c, e) => e = d
      /\ \A e \in toClients' : ~ForMe(c, e)
  BY <1>1, <1>6 DEF ClientInv, UnderWay
<1>8. Alone(c)'
  BY <1>6, <1>7 DEF Alone
<1>9. UnderWay(c)'
  BY <1>3, <1>6, <1>7, NothingIsNone DEF UnderWay
<1>10. Answered(c)'
  <2>1. /\ Len(asked[c]) = Len(printed[c]) /\ Len(asked[c]) \in Nat
        /\ \A i \in DOMAIN printed[c] : printed[c][i] = TrueName(asked[c][i])
        /\ DOMAIN printed[c] = 1 .. Len(printed[c])
    BY <1>1, <1>2, <1>6 DEF ClientInv, Answered, AwaitsName
  <2>2. printed'[c] = printed[c]
    BY <1>1
  <2>3. CASE Request(c).op = "get"
    <3>1. asked'[c] = Append(asked[c], Request(c).key)
      BY <1>1, <1>2, <2>3
    <3>2. /\ Len(asked'[c]) = Len(asked[c]) + 1
          /\ asked'[c][Len(asked'[c])] = Request(c).key
          /\ \A i \in 1 .. Len(asked[c]) : asked'[c][i] = asked[c][i]
      BY <1>2, <1>3, <2>3, <3>1
    <3> QED BY <1>6, <2>1, <2>2, <2>3, <3>2, SMTT(30) DEF Answered, AwaitsName
  <2>4. CASE Request(c).op # "get"
    <3>1. asked'[c] = asked[c]
      BY <1>1, <2>4
    <3> QED BY <1>6, <2>1, <2>2, <2>4, <3>1 DEF Answered, AwaitsName
  <2> QED BY <2>3, <2>4
<1>11. /\ \A b \in Client \ {c} : /\ lines'[b] = lines[b] /\ clientPc'[b] = clientPc[b]
                                  /\ asked'[b] = asked[b] /\ printed'[b] = printed[b]
       /\ \A e \in toServer' : e \in toServer \/ Mine(c, e)
       /\ toClients' \subseteq toClients
  BY <1>1, <1>2 DEF Mine
<1>12. ClientInv(c)'
  BY <1>8, <1>9, <1>10 DEF ClientInv
<1> QED BY <1>1, <1>5, <1>11, <1>12, OneClient

\* The reply that is heard is the only datagram of the client and answers its GET.
LEMMA HearStep ==
  ASSUME UdpInv, NEW c \in Client, NEW d \in toClients, Hear(c, d)  PROVE UdpInv'
<1>1. /\ clientPc[c] = "waiting" /\ ForMe(c, d)
      /\ toClients' = toClients \ {d}
      /\ UNCHANGED <<tableVars, serverVars, asked, toServer, strayed, lost>>
  BY DEF Hear, ForMe
<1>2. /\ clientPc \in [Client -> {"reading", "waiting", "gone"}]
      /\ asked \in [Client -> Seq(Key)] /\ printed \in [Client -> Seq(Name \cup Key)]
      /\ lines \in [Client -> Seq(ClientLine)] /\ d.reply \in Name \cup Key
  BY DEF UdpInv, TypeOK, Reply
<1>3. ClientInv(c) /\ Request(c).op = "get" /\ d.reply = TrueName(Request(c).key)
  BY <1>1 DEF UdpInv, ClientInv, UnderWay
<1>4. /\ printed' = [printed EXCEPT ![c] = Append(@, d.reply)]
      /\ lines' = [lines EXCEPT ![c] = Tail(@)]
      /\ clientPc' = [clientPc EXCEPT ![c] = "reading"]
  BY <1>3 DEF Hear
<1>5. TableInv'
  BY <1>1, ServerUntouched
<1>6. lines[c] # << >>
  BY <1>3 DEF Request, StopSession
<1>7. TypeOK'
  <2>1. lines' \in [Client -> Seq(ClientLine)]
    BY <1>2, <1>4, <1>6
  <2>2. printed' \in [Client -> Seq(Name \cup Key)]
    BY <1>2, <1>4
  <2>3. clientPc' \in [Client -> {"reading", "waiting", "gone"}]
    BY <1>2, <1>4
  <2> QED BY <1>1, <1>5, <2>1, <2>2, <2>3 DEF UdpInv, TypeOK, TableInv, serverVars
<1>8. /\ \A k : TrueName(k)' = TrueName(k)
      /\ \A e : Mine(c, e)' = Mine(c, e) /\ ForMe(c, e)' = ForMe(c, e)
  BY <1>1, TrueNameFixed DEF tableVars, Mine, ForMe
<1>9. /\ \A e \in toServer' : ~Mine(c, e)
      /\ \A e \in toClients' : ~ForMe(c, e)
  BY <1>1, <1>3 DEF ClientInv, Alone
<1>10. Alone(c)' /\ UnderWay(c)'
  BY <1>8, <1>9 DEF Alone, UnderWay
<1>11. Answered(c)'
  <2>1. /\ Len(asked[c]) = Len(printed[c]) + 1 /\ Len(printed[c]) \in Nat
        /\ asked[c][Len(asked[c])] = Request(c).key
        /\ \A i \in 1 .. Len(printed[c]) : printed[c][i] = TrueName(asked[c][i])
    BY <1>1, <1>2, <1>3 DEF ClientInv, Answered, AwaitsName
  <2>2. printed'[c] = Append(printed[c], d.reply) /\ clientPc'[c] = "reading"
    BY <1>2, <1>4
  <2>3. /\ Len(printed'[c]) = Len(printed[c]) + 1
        /\ DOMAIN printed'[c] = 1 .. Len(printed[c]) + 1
        /\ printed'[c][Len(printed[c]) + 1] = d.reply
        /\ \A i \in 1 .. Len(printed[c]) : printed'[c][i] = printed[c][i]
    BY <1>2, <2>2
  <2>4. \A i \in DOMAIN printed'[c] : printed'[c][i] = TrueName(asked[c][i])
    BY <1>3, <2>1, <2>3
  <2> QED BY <1>1, <1>8, <2>1, <2>2, <2>3, <2>4 DEF Answered, AwaitsName
<1>12. \A b \in Client \ {c} : /\ lines'[b] = lines[b] /\ clientPc'[b] = clientPc[b]
                               /\ asked'[b] = asked[b] /\ printed'[b] = printed[b]
  BY <1>1, <1>2, <1>4
<1>13. ClientInv(c)'
  BY <1>10, <1>11 DEF ClientInv
<1> QED BY <1>1, <1>7, <1>12, <1>13, OneClient

LEMMA KillStep ==
  ASSUME UdpInv, NEW c \in Client, Kill(c)  PROVE UdpInv'
<1>1. /\ clientPc' = [clientPc EXCEPT ![c] = "gone"]
      /\ UNCHANGED <<tableVars, serverVars, lines, asked, printed, netVars>>
  BY DEF Kill
<1>2. clientPc \in [Client -> {"reading", "waiting", "gone"}]
  BY DEF UdpInv, TypeOK
<1>3. TableInv'
  BY <1>1, ServerUntouched
<1>4. TypeOK'
  <2>1. clientPc' \in [Client -> {"reading", "waiting", "gone"}]
    BY <1>1, <1>2
  <2> QED BY <1>1, <1>3, <2>1 DEF UdpInv, TypeOK, TableInv, serverVars, netVars
<1>5. ClientInv(c)'
  <2>1. /\ ClientInv(c) /\ clientPc'[c] = "gone"
        /\ \A k : TrueName(k)' = TrueName(k)
    BY <1>1, <1>2, TrueNameFixed DEF UdpInv, tableVars
  <2> QED BY <1>1, <2>1
          DEF ClientInv, Alone, UnderWay, Answered, AwaitsName, Mine, ForMe, netVars
<1>6. /\ \A b \in Client \ {c} : clientPc'[b] = clientPc[b]
      /\ toServer' = toServer /\ toClients' = toClients
  BY <1>1, <1>2 DEF netVars
<1> QED BY <1>1, <1>4, <1>5, <1>6, OneClient

-----------------------------------------------------------------------------
(* The network *)

LEMMA NetworkStep ==
  ASSUME UdpInv,
         \/ \E c \in Client : LoseRequest(c) \/ LoseReply(c)
         \/ \E a \in Stray : StrayArrives(a)
  PROVE  UdpInv'
<1>1. /\ UNCHANGED <<tableVars, serverVars, clientVars>>
      /\ toClients' \subseteq toClients
      /\ strayed' \subseteq Stray /\ lost' \subseteq Lossy
      /\ \A d \in toServer' \ toServer : d \in Datagram /\ d.from \in Stray
  BY DEF LoseRequest, LoseReply, StrayArrives, UdpInv, TypeOK, Datagram, Address
<1>2. TableInv' /\ Loaded' /\ IsInjective(clients)'
  BY <1>1, ServerUntouched
<1>3. TypeOK'
  BY <1>1, <1>2 DEF UdpInv, TypeOK, TableInv, serverVars, clientVars
<1>4. \A c \in Client : ClientInv(c)'
  BY <1>1, ClientsUntouched DEF UdpInv, tableVars
<1> QED BY <1>2, <1>3, <1>4 DEF UdpInv, TableInv

-----------------------------------------------------------------------------
(* Theorems *)

LEMMA UdpNext == UdpInv /\ [Next]_vars => UdpInv'
<1> SUFFICES ASSUME UdpInv, [Next]_vars  PROVE UdpInv'
  OBVIOUS
<1>1. CASE Load
  BY <1>1, LoadStep
<1>2. ASSUME NEW d \in toServer, Handle(d)  PROVE UdpInv'
  BY <1>2, GetStep, NoneStep DEF Handle
<1>3. ASSUME NEW c \in Client, ClientStep(c)  PROVE UdpInv'
  BY <1>3, BadLineStep, SendStep, KillStep, HearStep, NetworkStep DEF ClientStep
<1>4. ASSUME NEW a \in Stray, StrayArrives(a)  PROVE UdpInv'
  BY <1>4, NetworkStep
<1>5. CASE UNCHANGED vars
  <2>1. TableInv' /\ Loaded' /\ IsInjective(clients)'
    BY <1>5, ServerUntouched DEF vars
  <2>2. TypeOK'
    BY <1>5, <2>1 DEF vars, UdpInv, TypeOK, TableInv, serverVars, clientVars, netVars
  <2>3. \A c \in Client : ClientInv(c)'
    BY <1>5, ClientsUntouched DEF vars, UdpInv, tableVars, netVars
  <2> QED BY <2>1, <2>2, <2>3 DEF UdpInv, TableInv
<1> QED BY <1>1, <1>2, <1>3, <1>4, <1>5 DEF Next

\* A client's datagrams under way are none or one.
LEMMA UnderWayCount ==
  ASSUME NEW c \in Client, ClientInv(c)
  PROVE  LET requests == {d \in toServer : d.from = AddressOf[c]}
             replies  == {d \in toClients : d.to = AddressOf[c]}
         IN  /\ Cardinality(requests) + Cardinality(replies) <= 1
             /\ clientPc[c] = "reading" => requests \cup replies = {}
<1> DEFINE requests == {d \in toServer : d.from = AddressOf[c]}
           replies  == {d \in toClients : d.to = AddressOf[c]}
<1>1. /\ \A d, e \in requests : d = e
      /\ \A d, e \in replies : d = e
      /\ requests = {} \/ replies = {}
      /\ clientPc[c] = "reading" => requests = {} /\ replies = {}
  BY DEF ClientInv, Alone, UnderWay, Mine, ForMe
<1> HIDE DEF requests, replies
<1>2. ASSUME NEW S, \A d, e \in S : d = e
      PROVE  S = {} \/ Cardinality(S) = 1
  <2> SUFFICES ASSUME S # {}  PROVE Cardinality(S) = 1
    OBVIOUS
  <2>1. PICK d : S = {d}
    BY <1>2
  <2> QED BY <2>1, FS_Singleton
<1>3. Cardinality({}) = 0
  BY FS_EmptySet
<1>4. Cardinality(requests) + Cardinality(replies) <= 1
  <2>1. requests = {} \/ Cardinality(requests) = 1
    BY <1>1, <1>2
  <2>2. replies = {} \/ Cardinality(replies) = 1
    BY <1>1, <1>2
  <2> QED BY <1>1, <1>3, <2>1, <2>2
<1> QED BY <1>1, <1>4 DEF requests, replies

\* The state of the UDP service keeps its types, and its table is always what the
\* lines that main() has read so far say.
THEOREM UdpTableAndTypes == Spec => [](TypeOK /\ TableIsInput)
<1>1. UdpInv => TypeOK /\ TableIsInput
  BY DEF UdpInv
<1> QED BY <1>1, UdpInitInv, UdpNext, PTL DEF Spec

\* Whatever arrives, and from whom, handle_msg() and the clients keep to their types:
\* the numbers of clients_ are those of addresses, and a reply is a name or a key.
THEOREM UdpTypes == Spec => []TypeOK
BY UdpTableAndTypes, PTL

\* Every name handle_msg() sends and send_message() prints answers the request
\* that the client was waiting with, out of the input as main() has read it.
THEOREM UdpRepliesAreAnswers == Spec => []RepliesAreAnswers
<1>1. UdpInv => RepliesAreAnswers
  BY DEF UdpInv, ClientInv, Answered, RepliesAreAnswers
<1> QED BY <1>1, UdpInitInv, UdpNext, PTL DEF Spec

\* A client that waits for an answer before it sends again has never more than one
\* datagram in the network, and none when it reads its next line.
THEOREM UdpOneAtATime == Spec => []OneAtATime
<1>1. UdpInv => OneAtATime
  BY UnderWayCount DEF UdpInv, OneAtATime
<1> QED BY <1>1, UdpInitInv, UdpNext, PTL DEF Spec

\* get_client_num() adds an address once and never gives its number to another.
THEOREM UdpEnrolledOnce == Spec => EnrolledOnce
<1>1. UdpInv /\ [Next]_vars => [IsPrefix(clients, clients') /\ IsInjective(clients')]_clients
  <2> SUFFICES ASSUME UdpInv, Next, clients' # clients
               PROVE  IsPrefix(clients, clients') /\ IsInjective(clients')
    BY DEF vars, serverVars
  <2>1. PICK d \in toServer : Handle(d)
    BY DEF Next, Load, LoadGroup, LoadStudent, LoadFails, LoadDone, ClientStep, BadLine, Send,
           Hear, Kill, LoseRequest, LoseReply, StrayArrives, serverVars
  <2>2. PICK m \in Message : Receives(d, m)
    BY <2>1 DEF Handle, HandleGet, HandleNone, HandleStop
  <2> QED BY <2>2, ReceivesKeeps
<1> QED BY <1>1, UdpInitInv, UdpNext, PTL DEF Spec, EnrolledOnce
=============================================================================
