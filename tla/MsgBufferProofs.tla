--------------------------- MODULE MsgBufferProofs --------------------------
(***************************************************************************)
(* The proof that the deque of msg_buffer_t, with its offset and its count *)
(* of bytes, is the stream of bytes and marks that RcsSocket keeps.        *)
(***************************************************************************)
EXTENDS RcsBuffered, RcsLinkProofs

-----------------------------------------------------------------------------
(* Streams *)

\* What comes second in a concatenation, and its parts.
LEMMA BehindPrefix ==
  ASSUME NEW S, NEW u \in Seq(S), NEW v \in Seq(S), NEW k \in 1 .. Len(v) + 1
  PROVE  SubSeq(u \o v, Len(u) + k, Len(u \o v)) = SubSeq(v, k, Len(v))
<1>1. /\ Len(u) \in Nat /\ Len(v) \in Nat /\ u \o v \in Seq(S) /\ Len(u \o v) = Len(u) + Len(v)
      /\ \A i \in 1 .. Len(v) : v[i] \in S
      /\ \A i \in 1 .. Len(u) + Len(v) :
           (u \o v)[i] \in S /\ (i > Len(u) => (u \o v)[i] = v[i - Len(u)])
  BY ConcatProperties, LenProperties, ElementOfSeq
<1>2. /\ SubSeq(u \o v, Len(u) + k, Len(u) + Len(v)) \in Seq(S)
      /\ Len(SubSeq(u \o v, Len(u) + k, Len(u) + Len(v))) = Len(v) - k + 1
      /\ \A i \in 1 .. Len(v) - k + 1 :
           SubSeq(u \o v, Len(u) + k, Len(u) + Len(v))[i] = (u \o v)[Len(u) + k + i - 1]
  <2>1. \A i \in Len(u) + k .. Len(u) + Len(v) : (u \o v)[i] \in S
    BY <1>1
  <2>2. /\ Len(u) + k \in Int /\ Len(u) + Len(v) \in Int
        /\ (Len(u) + Len(v)) - (Len(u) + k) + 1 = Len(v) - k + 1
        /\ (IF Len(u) + k <= Len(u) + Len(v) THEN Len(v) - k + 1 ELSE 0) = Len(v) - k + 1
    BY <1>1
  <2> QED BY <2>1, <2>2, SubSeqProperties
<1>3. /\ SubSeq(v, k, Len(v)) \in Seq(S) /\ Len(SubSeq(v, k, Len(v))) = Len(v) - k + 1
      /\ \A i \in 1 .. Len(v) - k + 1 : SubSeq(v, k, Len(v))[i] = v[k + i - 1]
  <2>1. \A i \in k .. Len(v) : v[i] \in S
    BY <1>1
  <2> QED BY <1>1, <2>1, SubSeqProperties
<1>4. \A i \in 1 .. Len(v) - k + 1 :
        (u \o v)[Len(u) + k + i - 1] = v[k + i - 1]
  <2> SUFFICES ASSUME NEW i \in 1 .. Len(v) - k + 1
               PROVE  (u \o v)[Len(u) + k + i - 1] = v[k + i - 1]
    OBVIOUS
  <2>1. /\ Len(u) + k + i - 1 \in 1 .. Len(u) + Len(v) /\ Len(u) + k + i - 1 > Len(u)
        /\ (Len(u) + k + i - 1) - Len(u) = k + i - 1
    BY <1>1
  <2> QED BY <1>1, <2>1
<1> QED BY <1>1, <1>2, <1>3, <1>4, SeqEqual

\* read() on a stream of marks, bytes and a rest copies those bytes if they are as
\* many as it may copy or the stream or the send() ends there.
LEMMA ReadOf ==
  ASSUME NEW marks \in Seq(Cell), NoBytes(marks),
         NEW x \in Seq(Byte), x # << >>, NEW rest \in Seq(Cell),
         NEW n \in Nat \ {0}, Len(x) <= n, Len(x) = n \/ rest = << >> \/ rest[1] = Mark
  PROVE  LET b == (marks \o x) \o rest
         IN  /\ b \in Seq(Cell) /\ ~NoBytes(b) /\ ReadBytes(b, n) = x
             /\ AfterRead(b, n) = IF Len(x) = n \/ rest = << >> THEN rest ELSE Tail(rest)
<1> DEFINE u == marks \o x
           b == u \o rest
           p == Len(marks)
           q == Len(x)
           i == ReadStart(b)
           j == ReadEnd(b, n)
<1>1. x \in Seq(Cell) /\ \A k \in 1 .. Len(x) : x[k] \in Byte /\ x[k] # Mark
  BY SeqMonotonic, ElementOfSeq, MarkAssumption DEF Cell
<1>2. /\ p \in Nat /\ q \in Nat /\ q # 0 /\ Len(rest) \in Nat
      /\ Len(x) = q /\ q <= n /\ (q = n \/ rest = << >> \/ rest[1] = Mark)
      /\ u \in Seq(Cell) /\ Len(u) = p + q
      /\ \A k \in 1 .. p + q : u[k] = IF k <= p THEN marks[k] ELSE x[k - p]
  BY <1>1, ConcatProperties, LenProperties, EmptySeq
<1>3. /\ b \in Seq(Cell) /\ Len(b) = p + q + Len(rest)
      /\ \A k \in 1 .. p + q + Len(rest) : b[k] = IF k <= p + q THEN u[k] ELSE rest[k - (p + q)]
  <2> HIDE DEF u, p, q
  <2>1. /\ b \in Seq(Cell) /\ Len(b) = Len(u) + Len(rest)
        /\ \A k \in 1 .. Len(u) + Len(rest) : b[k] = IF k <= Len(u) THEN u[k] ELSE rest[k - Len(u)]
    BY <1>2, ConcatProperties
  <2> HIDE DEF b
  <2> QED BY <1>2, <2>1
<1> HIDE DEF u, b, p, q
<1>0. p \in Nat /\ q \in Nat /\ q # 0 /\ Len(rest) \in Nat /\ Len(b) = p + q + Len(rest)
  BY <1>2, <1>3
<1>4. /\ \A k \in 1 .. p : b[k] = Mark
      /\ \A k \in 1 .. q : b[p + k] = x[k] /\ b[p + k] # Mark
      /\ rest # << >> => p + q + 1 <= Len(b) /\ b[p + q + 1] = rest[1]
  <2>1. \A k \in 1 .. p : b[k] = Mark
    <3> SUFFICES ASSUME NEW k \in 1 .. p  PROVE b[k] = Mark
      OBVIOUS
    <3>1. k \in 1 .. p + q /\ k \in 1 .. p + q + Len(rest) /\ k <= p
      BY <1>0
    <3>2. marks[k] = Mark
      BY DEF NoBytes, p
    <3> QED BY <1>2, <1>3, <3>1, <3>2
  <2>2. ASSUME NEW k \in 1 .. q  PROVE b[p + k] = x[k] /\ b[p + k] # Mark
    <3>1. p + k \in 1 .. p + q /\ ~(p + k <= p) /\ (p + k) - p = k /\ p + k \in 1 .. p + q + Len(rest)
      BY <1>2
    <3> QED BY <1>1, <1>2, <1>3, <3>1 DEF q
  <2>3. ASSUME rest # << >>  PROVE p + q + 1 <= Len(b) /\ b[p + q + 1] = rest[1]
    <3>1. Len(rest) # 0
      BY <2>3, EmptySeq
    <3>2. p + q + 1 \in 1 .. p + q + Len(rest) /\ ~(p + q + 1 <= p + q) /\ (p + q + 1) - (p + q) = 1
      BY <1>0, <3>1
    <3> QED BY <1>0, <1>3, <3>2
  <2> QED BY <2>1, <2>2, <2>3
<1>5. ~NoBytes(b)
  <2>1. p + 1 \in 1 .. Len(b) /\ 1 \in 1 .. q
    BY <1>2, <1>3
  <2> QED BY <1>4, <2>1 DEF NoBytes
<1>6. /\ i \in 1 .. Len(b) /\ j \in i + 1 .. Len(b) + 1
      /\ \A k \in 1 .. i - 1 : b[k] = Mark
      /\ \A k \in i .. j - 1 : b[k] # Mark
      /\ j <= i + n
      /\ \/ AfterRead(b, n) = SubSeq(b, j, Len(b)) /\ (j = Len(b) + 1 \/ j = i + n)
         \/ /\ j <= Len(b) /\ b[j] = Mark /\ j < i + n
            /\ AfterRead(b, n) = SubSeq(b, j + 1, Len(b))
  BY <1>3, <1>5, ReadPlaces
<1> HIDE DEF i, j
<1>7. i = p + 1
  <2>1. ~(p + 1 < i)
    <3>1. 1 \in 1 .. q
      BY <1>2
    <3>2. b[p + 1] # Mark
      BY <1>4, <3>1
    <3> QED BY <1>2, <1>3, <1>6, <3>2
  <2>2. ~(i <= p)
    <3>1. i \in i .. j - 1
      BY <1>3, <1>6
    <3> QED BY <1>4, <1>6, <3>1
  <2> QED BY <1>2, <1>3, <1>6, <2>1, <2>2
<1>8. j = p + q + 1
  <2>1. ~(j > p + q + 1)
    <3> SUFFICES ASSUME j > p + q + 1  PROVE FALSE
      OBVIOUS
    <3>1. CASE q = n
      BY <1>2, <1>3, <1>6, <1>7, <3>1, SMTT(30)
    <3>2. CASE rest = << >>
      BY <1>2, <1>3, <1>6, <3>2, EmptySeq
    <3>3. CASE rest # << >> /\ rest[1] = Mark
      <4>1. p + q + 1 \in i .. j - 1
        BY <1>2, <1>3, <1>6, <1>7
      <4> QED BY <1>4, <1>6, <3>3, <4>1
    <3> QED BY <1>2, <3>1, <3>2, <3>3
  <2>2. ~(j < p + q + 1)
    <3> SUFFICES ASSUME j < p + q + 1  PROVE FALSE
      OBVIOUS
    <3>1. j - p \in 1 .. q /\ p + (j - p) = j
      BY <1>2, <1>3, <1>6, <1>7
    <3>2. b[j] # Mark
      BY <1>4, <3>1
    <3> QED BY <1>2, <1>3, <1>6, <1>7, <3>2
  <2> QED BY <1>2, <1>3, <1>6, <2>1, <2>2
<1>9. ReadBytes(b, n) = x
  <2>1. /\ SubSeq(b, p + 1, p + q) \in Seq(Cell) /\ Len(SubSeq(b, p + 1, p + q)) = q
        /\ \A k \in 1 .. q : SubSeq(b, p + 1, p + q)[k] = b[(p + 1) + k - 1]
    <3>1. \A k \in p + 1 .. p + q : b[k] \in Cell
      BY <1>2, <1>3, ElementOfSeq
    <3>2. /\ p + 1 \in Int /\ p + q \in Int
          /\ (p + q) - (p + 1) + 1 = q /\ (IF p + 1 <= p + q THEN q ELSE 0) = q
      BY <1>0
    <3>3. /\ SubSeq(b, p + 1, p + q) \in Seq(Cell)
          /\ Len(SubSeq(b, p + 1, p + q)) = IF p + 1 <= p + q THEN (p + q) - (p + 1) + 1 ELSE 0
          /\ \A k \in 1 .. (p + q) - (p + 1) + 1 : SubSeq(b, p + 1, p + q)[k] = b[(p + 1) + k - 1]
      BY <3>1, <3>2, SubSeqProperties
    <3> QED BY <3>2, <3>3
  <2>2. \A k \in 1 .. q : (p + 1) + k - 1 = p + k
    BY <1>2
  <2>3. SubSeq(b, p + 1, p + q) = x
    <3>1. \A k \in 1 .. q : SubSeq(b, p + 1, p + q)[k] = x[k]
      BY <1>4, <2>1, <2>2
    <3> QED BY <1>1, <1>2, <2>1, <3>1, SeqEqual
  <2>4. j - 1 = p + q
    BY <1>2, <1>8
  <2> QED BY <1>7, <2>3, <2>4 DEF ReadBytes, i, j
<1>10. /\ SubSeq(b, p + q + 1, Len(b)) = rest
       /\ rest # << >> => SubSeq(b, p + q + 2, Len(b)) = Tail(rest)
  <2>1. SubSeq(b, Len(u) + 1, Len(b)) = SubSeq(rest, 1, Len(rest))
    <3>1. 1 \in 1 .. Len(rest) + 1
      BY <1>2
    <3> QED BY <1>2, <3>1, BehindPrefix DEF b
  <2>2. ASSUME rest # << >>  PROVE SubSeq(b, Len(u) + 2, Len(b)) = SubSeq(rest, 2, Len(rest))
    <3>1. Len(rest) # 0
      BY <2>2, EmptySeq
    <3>2. 2 \in 1 .. Len(rest) + 1
      BY <1>2, <3>1
    <3> QED BY <1>2, <3>2, BehindPrefix DEF b
  <2> QED BY <1>2, <2>1, <2>2, SubSeqFull, TailIsSubSeq
<1>11. AfterRead(b, n) = IF q = n \/ rest = << >> THEN rest ELSE Tail(rest)
  <2>1. CASE q = n \/ rest = << >>
    <3>1. ~(j <= Len(b) /\ j < i + n)
      <4>1. CASE q = n
        BY <1>2, <1>3, <1>6, <1>7, <1>8, <4>1
      <4>2. CASE rest = << >>
        BY <1>2, <1>3, <1>8, <4>2, EmptySeq
      <4> QED BY <2>1, <4>1, <4>2
    <3>2. AfterRead(b, n) = SubSeq(b, p + q + 1, Len(b))
      BY <1>6, <1>8, <3>1
    <3> QED BY <1>10, <2>1, <3>2
  <2>2. CASE ~(q = n \/ rest = << >>)
    <3>1. j # Len(b) + 1 /\ j # i + n
      <4>1. q < n /\ p + q + 1 <= Len(b)
        BY <1>2, <1>4, <1>0, <2>2
      <4> QED BY <1>0, <1>7, <1>8, <4>1
    <3>2. AfterRead(b, n) = SubSeq(b, j + 1, Len(b)) /\ j + 1 = p + q + 2
      BY <1>0, <1>6, <1>8, <3>1
    <3> QED BY <1>10, <2>2, <3>2
  <2> QED BY <2>1, <2>2
<1> QED BY <1>3, <1>5, <1>9, <1>11 DEF b, u, q
-----------------------------------------------------------------------------
(* What a deque stands for *)

\* The cells of each message.
CellsAt(b) ==
  [i \in DOMAIN b.messages |-> Cells(b.messages[i], IF i = 1 THEN b.offset ELSE 0)]

\* A deque without its first message, which read() has come to the end of.
Behind(b) == [messages |-> Tail(b.messages), offset |-> 0, totalSize |-> b.totalSize]

\* What is left of a message behind a place of it.
LEMMA CellsType ==
  ASSUME NEW m \in Message, NEW k \in Nat
  PROVE  /\ SubSeq(m.data, k + 1, Len(m.data)) \in Seq(Byte) /\ Cells(m, k) \in Seq(Cell)
         /\ m.flags # "EOS" => Cells(m, k) = SubSeq(m.data, k + 1, Len(m.data))
<1> DEFINE bytes == m.data
           tail  == IF m.flags = "EOS" THEN <<Mark>> ELSE << >>
           part  == SubSeq(bytes, k + 1, Len(bytes))
<1>1. bytes \in Seq(Byte)
  BY DEF Message
<1>2. part \in Seq(Byte)
  <2> HIDE DEF bytes
  <2>1. Len(bytes) \in Nat /\ \A i \in 1 .. Len(bytes) : bytes[i] \in Byte
    BY <1>1, LenProperties, ElementOfSeq
  <2>2. \A i \in k + 1 .. Len(bytes) : bytes[i] \in Byte
    BY <2>1
  <2> QED BY <2>1, <2>2, SubSeqProperties
<1>3. Cells(m, k) = part \o tail
  BY DEF Cells
<1>4. part \in Seq(Cell) /\ tail \in Seq(Cell)
  <2>1. Mark \in Cell /\ Byte \subseteq Cell
    BY DEF Cell
  <2>2. <<Mark>> \in Seq(Cell) /\ << >> \in Seq(Cell)
    BY <2>1, EmptySeq
  <2> HIDE DEF part
  <2> QED BY <1>2, <2>1, <2>2, SeqMonotonic
<1>5. m.flags # "EOS" => tail = << >>
  OBVIOUS
<1> HIDE DEF part, tail
<1>6. part \o tail \in Seq(Cell) /\ part \o << >> = part
  BY <1>2, <1>4, ConcatProperties, ConcatEmptySeq
<1> QED BY <1>2, <1>3, <1>5, <1>6 DEF part, bytes

\* There are as many as there are messages.
LEMMA CellsAtType ==
  ASSUME NEW b \in Deque
  PROVE  /\ b.messages \in Seq(Message) /\ Len(b.messages) \in Nat
         /\ CellsAt(b) \in Seq(Seq(Cell)) /\ Len(CellsAt(b)) = Len(b.messages)
         /\ \A i \in 1 .. Len(b.messages) :
              CellsAt(b)[i] = Cells(b.messages[i], IF i = 1 THEN b.offset ELSE 0)
<1> DEFINE ms == b.messages
<1>1. ms \in Seq(Message) /\ b.offset \in Nat
  BY DEF Deque
<1> HIDE DEF ms
<1>2. Len(ms) \in Nat /\ DOMAIN ms = 1 .. Len(ms) /\ \A i \in 1 .. Len(ms) : ms[i] \in Message
  BY <1>1, LenProperties, ElementOfSeq
<1>3. \A i \in 1 .. Len(ms) : Cells(ms[i], IF i = 1 THEN b.offset ELSE 0) \in Seq(Cell)
  BY <1>1, <1>2, CellsType
<1>4. CellsAt(b) = [i \in 1 .. Len(ms) |-> Cells(ms[i], IF i = 1 THEN b.offset ELSE 0)]
  BY <1>2 DEF CellsAt, ms
<1>5. CellsAt(b) \in [1 .. Len(ms) -> Seq(Cell)]
  BY <1>3, <1>4
<1>6. CellsAt(b) \in Seq(Seq(Cell)) /\ Len(CellsAt(b)) = Len(ms)
  BY <1>2, <1>5, FunctionIsSeq
<1> QED BY <1>1, <1>2, <1>4, <1>6 DEF ms

\* A deque stands for a stream; one without messages for the empty one.
LEMMA RepresentsType ==
  ASSUME NEW b \in Deque
  PROVE  /\ Represents(b) \in Seq(Cell) /\ Represents(b) = FlattenSeq(CellsAt(b))
         /\ b.messages = << >> => Represents(b) = << >>
<1>1. Represents(b) = FlattenSeq(CellsAt(b))
  BY DEF Represents, CellsAt
<1>2. b.messages = << >> => CellsAt(b) = << >>
  BY CellsAtType, EmptySeq
<1> QED BY <1>1, <1>2, CellsAtType, FlattenType, FlattenEmpty

\* The first sequence comes first.
LEMMA FlattenFirst ==
  ASSUME NEW S, NEW ss \in Seq(Seq(S)), ss # << >>
  PROVE  FlattenSeq(ss) = ss[1] \o FlattenSeq(Tail(ss))
<1>1. Len(ss) \in Nat /\ Len(ss) # 0
  BY EmptySeq, LenProperties
<1>2. ss[1] \in Seq(S) /\ Tail(ss) \in Seq(Seq(S)) /\ <<ss[1]>> \in Seq(Seq(S))
  <2>1. 1 \in 1 .. Len(ss)
    BY <1>1
  <2>2. ss[1] \in Seq(S)
    BY <2>1, ElementOfSeq
  <2> QED BY <2>2, HeadTailProperties
<1>3. ss = <<ss[1]>> \o Tail(ss)
  <2>1. 1 \in 1 .. Len(ss) /\ Len(ss) \in 1 .. Len(ss)
    BY <1>1
  <2>2. SubSeq(ss, 1, Len(ss)) = <<ss[1]>> \o SubSeq(ss, 1 + 1, Len(ss))
    BY <2>1, SubSeqRecursiveFirst
  <2> QED BY <2>2, SubSeqFull, TailIsSubSeq
<1>4. FlattenSeq(<<ss[1]>>) = ss[1]
  <2>1. << >> \in Seq(Seq(S)) /\ Append(<< >>, ss[1]) = <<ss[1]>>
    BY EmptySeq
  <2>2. FlattenSeq(Append(<< >>, ss[1])) = FlattenSeq(<< >>) \o ss[1]
    BY <1>2, <2>1, FlattenAppend
  <2> QED BY <1>2, <2>1, <2>2, FlattenEmpty, ConcatEmptySeq
<1>5. FlattenSeq(<<ss[1]>> \o Tail(ss)) = FlattenSeq(<<ss[1]>>) \o FlattenSeq(Tail(ss))
  BY <1>2, FlattenConcat
<1> QED BY <1>3, <1>4, <1>5

\* A deque stands for what is left of its first message, and then the others.
LEMMA RepresentsFirst ==
  ASSUME NEW b \in Deque, b.messages # << >>
  PROVE  /\ Head(b.messages) \in Message /\ Behind(b) \in Deque
         /\ Len(Behind(b).messages) = Len(b.messages) - 1
         /\ Represents(b) = Cells(Head(b.messages), b.offset) \o Represents(Behind(b))
<1> DEFINE ms == b.messages
<1>1. ms \in Seq(Message) /\ b.offset \in Nat /\ b.totalSize \in Nat /\ ms # << >>
  BY DEF Deque
<1> HIDE DEF ms
<1>2. /\ Len(ms) \in Nat /\ Len(ms) # 0 /\ Head(ms) \in Message /\ Tail(ms) \in Seq(Message)
      /\ Len(Tail(ms)) = Len(ms) - 1 /\ \A i \in 1 .. Len(Tail(ms)) : Tail(ms)[i] = ms[i + 1]
  BY <1>1, EmptySeq, LenProperties, HeadTailProperties
<1>3. Head(ms) = ms[1]
  <2>1. 1 \in 1 .. Len(ms) /\ Len(ms) \in 1 .. Len(ms)
    BY <1>2
  <2> QED BY <1>1, <2>1, HeadTailOfSubSeq, SubSeqFull
<1>4. Behind(b) \in Deque /\ Behind(b).messages = Tail(ms) /\ Behind(b).offset = 0
  BY <1>1, <1>2 DEF Deque, Behind, ms
<1>5. /\ CellsAt(b) \in Seq(Seq(Cell)) /\ Len(CellsAt(b)) = Len(ms)
      /\ \A i \in 1 .. Len(ms) : CellsAt(b)[i] = Cells(ms[i], IF i = 1 THEN b.offset ELSE 0)
  BY CellsAtType DEF ms
<1>6. /\ CellsAt(Behind(b)) \in Seq(Seq(Cell)) /\ Len(CellsAt(Behind(b))) = Len(ms) - 1
      /\ \A i \in 1 .. Len(ms) - 1 : CellsAt(Behind(b))[i] = Cells(Tail(ms)[i], 0)
  <2> DEFINE a == Behind(b)
  <2>1. a \in Deque /\ a.messages = Tail(ms) /\ a.offset = 0
    BY <1>4
  <2> HIDE DEF a
  <2>2. /\ CellsAt(a) \in Seq(Seq(Cell)) /\ Len(CellsAt(a)) = Len(a.messages)
        /\ \A i \in 1 .. Len(a.messages) :
             CellsAt(a)[i] = Cells(a.messages[i], IF i = 1 THEN a.offset ELSE 0)
    BY <2>1, CellsAtType
  <2>3. \A i : (IF i = 1 THEN a.offset ELSE 0) = 0
    BY <2>1
  <2>4. \A i \in 1 .. Len(a.messages) : CellsAt(a)[i] = Cells(a.messages[i], 0)
    BY <2>2, <2>3
  <2>5. Len(a.messages) = Len(ms) - 1
    BY <1>2, <2>1
  <2> QED BY <2>1, <2>2, <2>4, <2>5 DEF a
<1>7. CellsAt(b) # << >> /\ CellsAt(b)[1] = Cells(Head(ms), b.offset)
  <2>1. 1 \in 1 .. Len(ms)
    BY <1>2
  <2> QED BY <1>2, <1>3, <1>5, <2>1, EmptySeq
<1>8. Tail(CellsAt(b)) = CellsAt(Behind(b))
  <2>1. /\ Tail(CellsAt(b)) \in Seq(Seq(Cell)) /\ Len(Tail(CellsAt(b))) = Len(ms) - 1
        /\ \A i \in 1 .. Len(ms) - 1 : Tail(CellsAt(b))[i] = CellsAt(b)[i + 1]
    BY <1>5, <1>7, HeadTailProperties
  <2>2. \A i \in 1 .. Len(ms) - 1 : Tail(CellsAt(b))[i] = CellsAt(Behind(b))[i]
    <3> SUFFICES ASSUME NEW i \in 1 .. Len(ms) - 1
                 PROVE  Tail(CellsAt(b))[i] = CellsAt(Behind(b))[i]
      OBVIOUS
    <3>1. i + 1 \in 1 .. Len(ms) /\ i + 1 # 1
      BY <1>2
    <3> QED BY <1>2, <1>5, <1>6, <2>1, <3>1
  <2> QED BY <1>6, <2>1, <2>2, SeqEqual
<1>9. FlattenSeq(CellsAt(b)) = CellsAt(b)[1] \o FlattenSeq(Tail(CellsAt(b)))
  BY <1>5, <1>7, FlattenFirst
<1> QED BY <1>2, <1>4, <1>7, <1>8, <1>9, RepresentsType DEF ms

\* A deque loses its first message.
LEMMA PopIsBehind ==
  ASSUME NEW b \in Deque, b.offset = 0
  PROVE  PopFront(b) = Behind(b)
<1> DEFINE y == PopFront(b)
<1>1. DOMAIN b = {"messages", "offset", "totalSize"} /\ b.offset = 0
  BY DEF Deque
<1>2. /\ DOMAIN y = DOMAIN b /\ y = [f \in DOMAIN b |-> y[f]]
      /\ y.messages = Tail(b.messages) /\ y.offset = 0 /\ y.totalSize = b.totalSize
  BY <1>1 DEF PopFront
<1> HIDE DEF y
<1>3. y = [messages |-> Tail(b.messages), offset |-> 0, totalSize |-> b.totalSize]
  BY <1>1, <1>2
<1> QED BY <1>3 DEF y, Behind

\* The messages behind the first one are as they should be.
LEMMA BehindInFirst ==
  ASSUME NEW b \in Deque, b.messages # << >>, InFirst(b)
  PROVE  InFirst(Behind(b))
<1> DEFINE c == Behind(b)
<1>1. b.messages \in Seq(Message) /\ c.messages = Tail(b.messages) /\ c.offset = 0
  BY DEF Deque, Behind
<1>2. /\ Len(Tail(b.messages)) = Len(b.messages) - 1 /\ Len(b.messages) \in Nat
      /\ \A i \in 1 .. Len(Tail(b.messages)) : Tail(b.messages)[i] = b.messages[i + 1]
  BY <1>1, HeadTailProperties, LenProperties
<1> HIDE DEF c
<1>3. ASSUME NEW i \in 1 .. Len(c.messages), c.messages[i].flags # "NONE"
      PROVE  c.messages[i].data = << >>
  <2>1. i + 1 \in 1 .. Len(b.messages) /\ c.messages[i] = b.messages[i + 1]
    BY <1>1, <1>2
  <2> QED BY <1>3, <2>1 DEF InFirst
<1>4. InFirst(c)
  BY <1>1, <1>3 DEF InFirst
<1> QED BY <1>4 DEF c

\* queueMessage() puts into the stream what recv() puts there, and counts its bytes.
LEMMA RepresentsEnqueue ==
  ASSUME NEW b \in Deque, InFirst(b), NEW m \in Message, Plain(m),
         b.totalSize = Len(Unread(Represents(b)))
  PROVE  LET c == Enqueue(b, m)
         IN  /\ c \in Deque /\ InFirst(c) /\ Represents(c) = QueueMessage(Represents(b), m)
             /\ c.totalSize = Len(Unread(Represents(c)))
<1> DEFINE ms == b.messages
           ns == Append(ms, m)
           c  == Enqueue(b, m)
<1>1. ms \in Seq(Message) /\ b.offset \in Nat /\ b.totalSize \in Nat
  BY DEF Deque
<1>2. m.data \in Seq(Byte) /\ Len(m.data) \in Nat
  BY LenProperties DEF Message
<1>3. c = [messages |-> ns, offset |-> b.offset, totalSize |-> b.totalSize + Len(m.data)]
  <2>1. DOMAIN b = {"messages", "offset", "totalSize"}
    BY DEF Deque
  <2>2. DOMAIN c = DOMAIN b /\ c.messages = ns /\ c.offset = b.offset
        /\ c.totalSize = b.totalSize + Len(m.data)
    BY <2>1 DEF Enqueue
  <2>3. c = [f \in DOMAIN b |-> c[f]]
    BY DEF Enqueue
  <2> HIDE DEF c, ns
  <2> QED BY <2>1, <2>2, <2>3
<1> HIDE DEF ms, c
<1>4. /\ Len(ms) \in Nat /\ ns \in Seq(Message) /\ ns # << >> /\ Len(ns) = Len(ms) + 1
      /\ ns[Len(ms) + 1] = m /\ \A i \in 1 .. Len(ms) : ns[i] = ms[i]
  BY <1>1, AppendProperties, LenProperties
<1>5. c \in Deque /\ c.messages = ns /\ c.offset = b.offset
  BY <1>1, <1>2, <1>3, <1>4 DEF Deque
<1>6. b.offset = 0 \/ (ms # << >> /\ b.offset < Len(Head(ms).data))
  BY DEF InFirst, ms
<1>7. ms # << >> => Head(ns) = Head(ms)
  BY <1>1, HeadTailAppend
<1>8. InFirst(c)
  <2>1. c.offset = 0 \/ (ns # << >> /\ c.offset < Len(Head(ns).data))
    BY <1>4, <1>5, <1>6, <1>7
  <2>2. \A i \in 1 .. Len(ns) : ns[i].flags # "NONE" => ns[i].data = << >>
    <3> SUFFICES ASSUME NEW i \in 1 .. Len(ns), ns[i].flags # "NONE"  PROVE ns[i].data = << >>
      OBVIOUS
    <3>1. i = Len(ms) + 1 \/ i \in 1 .. Len(ms)
      BY <1>4
    <3>2. CASE i = Len(ms) + 1
      BY <1>4, <3>2 DEF Plain
    <3>3. CASE i \in 1 .. Len(ms)
      BY <1>4, <3>3 DEF InFirst, ms
    <3> QED BY <3>1, <3>2, <3>3
  <2> HIDE DEF ns
  <2> QED BY <1>5, <2>1, <2>2 DEF InFirst
<1>9. CellsAt(c) = Append(CellsAt(b), Cells(m, 0))
  <2> DEFINE x == CellsAt(c)
             y == Append(CellsAt(b), Cells(m, 0))
  <2> HIDE DEF ns
  <2>1. /\ x \in Seq(Seq(Cell)) /\ Len(x) = Len(ms) + 1
        /\ \A i \in 1 .. Len(ms) + 1 : x[i] = Cells(ns[i], IF i = 1 THEN b.offset ELSE 0)
    BY <1>4, <1>5, CellsAtType
  <2>2. /\ CellsAt(b) \in Seq(Seq(Cell)) /\ Len(CellsAt(b)) = Len(ms)
        /\ \A i \in 1 .. Len(ms) : CellsAt(b)[i] = Cells(ms[i], IF i = 1 THEN b.offset ELSE 0)
    BY CellsAtType DEF ms
  <2>3. /\ y \in Seq(Seq(Cell)) /\ Len(y) = Len(ms) + 1 /\ y[Len(ms) + 1] = Cells(m, 0)
        /\ \A i \in 1 .. Len(ms) : y[i] = CellsAt(b)[i]
    <3>1. Cells(m, 0) \in Seq(Cell)
      BY CellsType
    <3> QED BY <2>2, <3>1, AppendProperties
  <2> HIDE DEF x, y
  <2>4. \A i \in 1 .. Len(ms) + 1 : x[i] = y[i]
    <3> SUFFICES ASSUME NEW i \in 1 .. Len(ms) + 1  PROVE x[i] = y[i]
      OBVIOUS
    <3>1. i = Len(ms) + 1 \/ i \in 1 .. Len(ms)
      BY <1>4
    <3>2. CASE i = Len(ms) + 1
      <4>1. (IF i = 1 THEN b.offset ELSE 0) = 0
        <5>1. CASE i = 1
          <6>1. ms = << >>
            BY <1>1, <1>4, <3>2, <5>1, EmptySeq
          <6> QED BY <1>6, <6>1
        <5> QED BY <5>1
      <4> QED BY <1>4, <2>1, <2>3, <3>2, <4>1
    <3>3. CASE i \in 1 .. Len(ms)
      <4>1. x[i] = Cells(ns[i], IF i = 1 THEN b.offset ELSE 0)
        BY <2>1
      <4>2. y[i] = Cells(ms[i], IF i = 1 THEN b.offset ELSE 0) /\ ns[i] = ms[i]
        BY <1>4, <2>2, <2>3, <3>3
      <4> QED BY <4>1, <4>2
    <3> QED BY <3>1, <3>2, <3>3
  <2>5. x = y
    BY <2>1, <2>3, <2>4, SeqEqual
  <2> QED BY <2>5 DEF x, y
<1>10. Represents(c) = Represents(b) \o Cells(m, 0)
  <2>1. CellsAt(b) \in Seq(Seq(Cell)) /\ Cells(m, 0) \in Seq(Cell)
    BY CellsAtType, CellsType
  <2>2. FlattenSeq(Append(CellsAt(b), Cells(m, 0))) = FlattenSeq(CellsAt(b)) \o Cells(m, 0)
    BY <2>1, FlattenAppend
  <2>3. Represents(c) = FlattenSeq(CellsAt(c)) /\ Represents(b) = FlattenSeq(CellsAt(b))
    BY <1>5, RepresentsType
  <2> QED BY <1>9, <2>2, <2>3
<1>11. Cells(m, 0) = m.data \o (IF m.flags = "EOS" THEN <<Mark>> ELSE << >>)
  <2>1. SubSeq(m.data, 0 + 1, Len(m.data)) = m.data
    BY <1>2, SubSeqFull
  <2> QED BY <2>1 DEF Cells
<1>12. Represents(c) = QueueMessage(Represents(b), m)
  BY <1>10, <1>11, RepresentsType, QueueConcat
<1>13. c.totalSize = Len(Unread(Represents(c)))
  <2>1. Unread(Represents(c)) = Unread(Represents(b)) \o m.data /\ Unread(Represents(b)) \in Seq(Byte)
    BY <1>12, RepresentsType, QueueCells, UnreadType
  <2>2. Len(Unread(Represents(c))) = Len(Unread(Represents(b))) + Len(m.data)
    BY <1>2, <2>1, ConcatProperties
  <2> QED BY <1>3, <2>2
<1> QED BY <1>5, <1>8, <1>12, <1>13 DEF c
-----------------------------------------------------------------------------
(* The loop of read() *)

\* The recursion of Copy, for as many as z rounds.
Another(r) == IF Running(r) THEN Round(r) ELSE r
Rounds(f, b, n, z) ==
  f = [k \in 0 .. z |-> IF k = 0 THEN Start(b, n)
                        ELSE IF Running(f[k - 1]) THEN Round(f[k - 1]) ELSE f[k - 1]]

\* Each round is given by the one before it.
LEMMA RoundsAt ==
  ASSUME NEW f, NEW b, NEW n, NEW z \in Nat, Rounds(f, b, n, z)
  PROVE  f[0] = Start(b, n) /\ \A k \in 0 .. z - 1 : f[k + 1] = Another(f[k])
<1> DEFINE Rhs(k) == IF k = 0 THEN Start(b, n)
                     ELSE IF Running(f[k - 1]) THEN Round(f[k - 1]) ELSE f[k - 1]
<1>1. f = [k \in 0 .. z |-> Rhs(k)]
  BY Zenon DEF Rounds
<1>2. ASSUME NEW k \in 0 .. z  PROVE f[k] = Rhs(k)
  <2> HIDE DEF Rhs
  <2> QED BY <1>1, Zenon
<1>3. 0 \in 0 .. z /\ \A k \in 0 .. z - 1 : k + 1 \in 0 .. z /\ k + 1 # 0 /\ (k + 1) - 1 = k
  OBVIOUS
<1>4. f[0] = Start(b, n)
  BY <1>2, <1>3
<1>5. ASSUME NEW k \in 0 .. z - 1  PROVE f[k + 1] = Another(f[k])
  <2>1. f[k + 1] = IF Running(f[(k + 1) - 1]) THEN Round(f[(k + 1) - 1]) ELSE f[(k + 1) - 1]
    BY <1>2, <1>3, Zenon
  <2>2. (k + 1) - 1 = k
    OBVIOUS
  <2> QED BY <2>1, <2>2, Zenon DEF Another
<1> QED BY <1>4, <1>5

\* There is such a function, for any number of rounds.
LEMMA RoundsExist == ASSUME NEW b, NEW n, NEW z \in Nat  PROVE \E f : Rounds(f, b, n, z)
<1> DEFINE S == {m \in Nat : \E f : Rounds(f, b, n, m)}
           Rhs(f, k) == IF k = 0 THEN Start(b, n)
                        ELSE IF Running(f[k - 1]) THEN Round(f[k - 1]) ELSE f[k - 1]
<1>1. 0 \in S
  <2> DEFINE e == [k \in 0 .. 0 |-> Start(b, n)]
  <2>1. e = [k \in 0 .. 0 |-> Rhs(e, k)]
    <3>1. \A k \in 0 .. 0 : k = 0
      OBVIOUS
    <3>2. \A k \in 0 .. 0 : Start(b, n) = Rhs(e, k)
      BY <3>1, Zenon
    <3> HIDE DEF Rhs
    <3> QED BY <3>2
  <2> HIDE DEF e
  <2>2. Rounds(e, b, n, 0)
    BY <2>1, Zenon DEF Rounds
  <2> QED BY <2>2
<1>2. ASSUME NEW m \in Nat, m \in S  PROVE m + 1 \in S
  <2>1. PICK f : Rounds(f, b, n, m)
    BY <1>2
  <2> DEFINE g == [k \in 0 .. m + 1 |-> Rhs(f, k)]
  <2>2. f = [k \in 0 .. m |-> Rhs(f, k)]
    BY <2>1, Zenon DEF Rounds
  <2>3. \A k \in 0 .. m + 1 : Rhs(f, k) = Rhs(g, k)
    <3> SUFFICES ASSUME NEW k \in 0 .. m + 1, k # 0  PROVE f[k - 1] = g[k - 1]
      BY Zenon
    <3>1. k - 1 \in 0 .. m /\ k - 1 \in 0 .. m + 1
      OBVIOUS
    <3> HIDE DEF Rhs
    <3>2. f[k - 1] = Rhs(f, k - 1)
      BY <2>2, <3>1, Zenon
    <3>3. g[k - 1] = Rhs(f, k - 1)
      BY <3>1
    <3> QED BY <3>2, <3>3
  <2> HIDE DEF Rhs
  <2>4. g = [k \in 0 .. m + 1 |-> Rhs(g, k)]
    BY <2>3
  <2> HIDE DEF g
  <2>5. Rounds(g, b, n, m + 1)
    BY <2>4, Zenon DEF Rounds, Rhs
  <2> QED BY <2>5
<1> HIDE DEF S
<1>3. Nat \subseteq S
  BY <1>1, <1>2, NatSetInduction
<1> QED BY <1>3 DEF S

\* What Copy chooses.
LEMMA CopyRounds ==
  ASSUME NEW b, NEW n, Len(b.messages) \in Nat
  PROVE  \E f : Rounds(f, b, n, Len(b.messages)) /\ Copy(b, n) = f[Len(b.messages)]
<1> DEFINE f == CHOOSE h : Rounds(h, b, n, Len(b.messages))
<1>1. Rounds(f, b, n, Len(b.messages))
  BY RoundsExist
<1>2. Copy(b, n) = f[Len(b.messages)]
  BY Zenon DEF Copy, Rounds
<1> QED BY <1>1, <1>2

\* Where the loop is: of the stream R that it began with, marks have gone, then come
\* the bytes it has copied; it has left at a mark behind them, or it goes on.
Copying(R, n, size, r) ==
  /\ r = [deque |-> r.deque, bytes |-> r.bytes, length |-> r.length, left |-> r.left]
  /\ r.deque \in Deque /\ InFirst(r.deque) /\ r.deque.totalSize = size
  /\ r.bytes \in Seq(Byte) /\ r.length \in Nat /\ r.left \in BOOLEAN
  /\ Len(r.bytes) + r.length = n
  /\ r.left => r.length # 0 /\ r.bytes # << >>
  /\ \E marks \in Seq(Cell) :
       /\ NoBytes(marks)
       /\ R = (marks \o r.bytes)
                \o ((IF r.left THEN <<Mark>> ELSE << >>) \o Represents(r.deque))

\* One mark more is still marks only.
LEMMA MarksAppend ==
  ASSUME NEW marks \in Seq(Cell), NoBytes(marks)
  PROVE  marks \o <<Mark>> \in Seq(Cell) /\ NoBytes(marks \o <<Mark>>) /\ <<Mark>> \in Seq(Cell)
<1>1. Mark \in Cell /\ <<Mark>> \in Seq(Cell)
  <2>1. Mark \in Cell
    BY DEF Cell
  <2> QED BY <2>1
<1>2. marks \o <<Mark>> = Append(marks, Mark)
  BY <1>1, AppendIsConcat
<1>3. /\ Len(marks) \in Nat /\ Append(marks, Mark) \in Seq(Cell)
      /\ Len(Append(marks, Mark)) = Len(marks) + 1 /\ Append(marks, Mark)[Len(marks) + 1] = Mark
      /\ \A i \in 1 .. Len(marks) : Append(marks, Mark)[i] = marks[i]
  BY <1>1, AppendProperties, LenProperties
<1>4. NoBytes(Append(marks, Mark))
  BY <1>3 DEF NoBytes
<1> QED BY <1>1, <1>2, <1>3, <1>4

\* A round that finds an EOS in front: it is dropped, and ends the loop when bytes
\* have been copied.
LEMMA RoundMark ==
  ASSUME NEW R, NEW n \in Nat, NEW size, NEW r, Copying(R, n, size, r), Running(r),
         Head(r.deque.messages).flags = "EOS"
  PROVE  /\ Copying(R, n, size, Round(r))
         /\ Len(Round(r).deque.messages) = Len(r.deque.messages) - 1
<1> DEFINE b == r.deque
           x == Round(r)
           c == Behind(b)
           bytes == r.bytes
           S == Represents(c)
<1>1. b \in Deque /\ InFirst(b) /\ b.messages # << >> /\ ~r.left /\ r.length > 0
  BY DEF Copying, Running
<1>2. /\ Head(b.messages) \in Message /\ c \in Deque /\ Len(c.messages) = Len(b.messages) - 1
      /\ Represents(b) = Cells(Head(b.messages), b.offset) \o S
  BY <1>1, RepresentsFirst
<1>3. Head(b.messages).data = << >> /\ b.offset = 0
  <2>1. 1 \in 1 .. Len(b.messages) /\ Head(b.messages) = b.messages[1]
    <3>1. b.messages \in Seq(Message)
      BY <1>1 DEF Deque
    <3>2. Len(b.messages) \in Nat /\ Len(b.messages) # 0
      BY <1>1, <3>1, EmptySeq
    <3>3. 1 \in 1 .. Len(b.messages) /\ Len(b.messages) \in 1 .. Len(b.messages)
      BY <3>2
    <3>4. Head(SubSeq(b.messages, 1, Len(b.messages))) = b.messages[1]
      BY <3>1, <3>3, HeadTailOfSubSeq
    <3> QED BY <3>1, <3>3, <3>4, SubSeqFull
  <2>2. Head(b.messages).data = << >>
    BY <1>1, <2>1 DEF InFirst
  <2>3. b.offset \in Nat /\ Len(<< >>) = 0
    BY <1>1, EmptySeq DEF Deque
  <2> QED BY <1>1, <2>2, <2>3 DEF InFirst
<1>4. Cells(Head(b.messages), b.offset) = <<Mark>>
  <2>1. Len(<< >>) = 0 /\ SubSeq(<< >>, 0 + 1, 0) = << >>
    BY EmptySeq, SubSeqEmpty
  <2>2. << >> \o <<Mark>> = <<Mark>>
    BY MarksAppend, EmptySeq, ConcatEmptySeq
  <2> QED BY <1>3, <2>1, <2>2 DEF Cells
<1>5. PopFront(b) = c
  BY <1>1, <1>3, PopIsBehind
<1>6. /\ x = [deque |-> c, bytes |-> bytes, length |-> r.length, left |-> bytes # << >>]
      /\ r = [deque |-> b, bytes |-> bytes, length |-> r.length, left |-> r.left]
  <2>1. r = [deque |-> b, bytes |-> bytes, length |-> r.length, left |-> r.left]
    BY DEF Copying
  <2>2. x = [r EXCEPT !.deque = c, !.left = bytes # << >>]
    BY <1>5 DEF Round
  <2> HIDE DEF b, bytes, x, c
  <2>3. DOMAIN r = {"deque", "bytes", "length", "left"} /\ r.bytes = bytes
    BY <2>1 DEF bytes
  <2>4. /\ DOMAIN x = DOMAIN r /\ x = [f \in DOMAIN r |-> x[f]] /\ x.deque = c
        /\ x.bytes = bytes /\ x.length = r.length /\ x.left = (bytes # << >>)
    BY <2>2, <2>3
  <2>5. x = [deque |-> c, bytes |-> bytes, length |-> r.length, left |-> bytes # << >>]
    BY <2>3, <2>4
  <2> QED BY <2>1, <2>5
<1>7. InFirst(c)
  BY <1>1, BehindInFirst
<1>8. PICK marks \in Seq(Cell) : NoBytes(marks) /\ R = (marks \o bytes) \o (<< >> \o (<<Mark>> \o S))
  BY <1>1, <1>2, <1>4 DEF Copying
<1>9. /\ bytes \in Seq(Byte) /\ r.length \in Nat /\ Len(bytes) + r.length = n
      /\ b.totalSize = size /\ c.totalSize = b.totalSize
  BY DEF Copying, Behind
<1> HIDE DEF b, x, c, bytes
<1>10. bytes \in Seq(Cell) /\ S \in Seq(Cell) /\ <<Mark>> \o S \in Seq(Cell) /\ <<Mark>> \in Seq(Cell)
  <2>1. bytes \in Seq(Cell)
    BY <1>9, SeqMonotonic DEF Cell
  <2>2. S \in Seq(Cell)
    BY <1>2, RepresentsType
  <2> HIDE DEF S
  <2>3. <<Mark>> \in Seq(Cell)
    BY <1>8, MarksAppend
  <2> QED BY <2>1, <2>2, <2>3, ConcatProperties
<1> HIDE DEF S
<1>11. R = (marks \o bytes) \o (<<Mark>> \o S)
  BY <1>8, <1>10, ConcatEmptySeq
<1>12. \E ks \in Seq(Cell) :
         /\ NoBytes(ks)
         /\ R = (ks \o bytes) \o ((IF bytes # << >> THEN <<Mark>> ELSE << >>) \o S)
  <2>1. CASE bytes # << >>
    BY <1>8, <1>11, <2>1
  <2>2. CASE bytes = << >>
    <3>1. (marks \o bytes) \o (<<Mark>> \o S) = (marks \o <<Mark>>) \o S
      BY <1>8, <1>10, <2>2, ConcatEmptySeq, ConcatAssociative
    <3>2. marks \o <<Mark>> \in Seq(Cell) /\ NoBytes(marks \o <<Mark>>)
      BY <1>8, MarksAppend
    <3>3. (marks \o <<Mark>>) \o bytes = marks \o <<Mark>> /\ << >> \o S = S
      BY <1>10, <2>2, <3>2, ConcatEmptySeq
    <3>4. R = ((marks \o <<Mark>>) \o bytes) \o (<< >> \o S)
      BY <1>11, <3>1, <3>3
    <3> QED BY <2>2, <3>2, <3>4
  <2> QED BY <2>1, <2>2
<1>13. /\ x.deque = c /\ x.bytes = bytes /\ x.length = r.length /\ x.left = (bytes # << >>)
       /\ x = [deque |-> x.deque, bytes |-> x.bytes, length |-> x.length, left |-> x.left]
  BY <1>6
<1>14. Copying(R, n, size, x)
  <2>1. /\ x.deque \in Deque /\ InFirst(x.deque) /\ x.deque.totalSize = size
        /\ x.bytes \in Seq(Byte) /\ x.length \in Nat /\ Len(x.bytes) + x.length = n
    BY <1>2, <1>7, <1>9, <1>13
  <2>2. Represents(x.deque) = S
    BY <1>13 DEF S
  <2>3. \E ks \in Seq(Cell) :
          /\ NoBytes(ks)
          /\ R = (ks \o x.bytes) \o ((IF x.left THEN <<Mark>> ELSE << >>) \o Represents(x.deque))
    BY <1>12, <1>13, <2>2
  <2>4. x.left \in BOOLEAN /\ (x.left => x.length # 0 /\ x.bytes # << >>)
    <3>1. r.length # 0
      BY <1>1, <1>9
    <3> QED BY <1>13, <3>1
  <2> QED BY <1>13, <2>1, <2>3, <2>4 DEF Copying
<1> QED BY <1>2, <1>13, <1>14 DEF x, b
\* n bytes of the first message are copied: they leave the stream.
LEMMA AdvanceCells ==
  ASSUME NEW b \in Deque, InFirst(b), b.messages # << >>, Head(b.messages).flags # "EOS",
         NEW n \in Nat, n <= Len(Head(b.messages).data) - b.offset
  PROVE  LET c     == Advance(b, n)
             front == Head(b.messages)
             piece == SubSeq(front.data, b.offset + 1, b.offset + n)
         IN  /\ c \in Deque /\ InFirst(c) /\ c.totalSize = b.totalSize
             /\ piece \in Seq(Byte) /\ Len(piece) = n
             /\ Represents(b) = piece \o Represents(c)
             /\ b.offset + n >= Len(front.data) => Len(c.messages) = Len(b.messages) - 1
<1> DEFINE c     == Advance(b, n)
           front == Head(b.messages)
           bytes == front.data
           o     == b.offset
           piece == SubSeq(bytes, o + 1, o + n)
           S     == Represents(Behind(b))
<1>1. /\ b.messages \in Seq(Message) /\ o \in Nat /\ b.totalSize \in Nat
      /\ DOMAIN b = {"messages", "offset", "totalSize"}
  BY DEF Deque
<1>2. /\ front \in Message /\ Behind(b) \in Deque /\ InFirst(Behind(b))
      /\ Len(Behind(b).messages) = Len(b.messages) - 1
      /\ Represents(b) = Cells(front, o) \o S
  BY RepresentsFirst, BehindInFirst
<1>3. bytes \in Seq(Byte) /\ Len(bytes) \in Nat /\ o + n <= Len(bytes)
  <2>1. bytes \in Seq(Byte) /\ n <= Len(bytes) - o
    BY <1>2 DEF Message
  <2> HIDE DEF bytes, o
  <2> QED BY <1>1, <2>1, LenProperties
<1>4. S \in Seq(Cell)
  BY <1>2, RepresentsType
<1>5. piece \in Seq(Byte) /\ Len(piece) = n
  <2> HIDE DEF bytes, o
  <2>1. \A i \in o + 1 .. o + n : bytes[i] \in Byte
    BY <1>1, <1>3, ElementOfSeq
  <2>2. o + 1 \in Int /\ o + n \in Int /\ (IF o + 1 <= o + n THEN (o + n) - (o + 1) + 1 ELSE 0) = n
    BY <1>1
  <2> QED BY <2>1, <2>2, SubSeqProperties
<1>6. Cells(front, o) = piece \o SubSeq(bytes, o + n + 1, Len(bytes))
  <2>1. Cells(front, o) = SubSeq(bytes, o + 1, Len(bytes))
    BY <1>1, <1>2, CellsType
  <2>2. SubSeq(bytes, o + 1, o + n) \o SubSeq(bytes, (o + n) + 1, Len(bytes))
          = SubSeq(bytes, o + 1, Len(bytes))
    <3> HIDE DEF bytes, o
    <3>1. /\ o + 1 \in 1 .. Len(bytes) + 1 /\ o + n \in (o + 1) - 1 .. Len(bytes)
          /\ Len(bytes) \in o + n .. Len(bytes)
      BY <1>1, <1>3
    <3> QED BY <1>3, <3>1, ConcatAdjacentSubSeq
  <2> QED BY <2>1, <2>2
<1>7. CASE o + n >= Len(bytes)
  <2>1. c = Behind(b)
    <3> DEFINE past == [b EXCEPT !.offset = @ + n]
               gone == [past EXCEPT !.offset = 0]
    <3>1. past.offset = o + n /\ DOMAIN past = DOMAIN b
          /\ past.messages = b.messages /\ past.totalSize = b.totalSize
      BY <1>1
    <3>2. c = PopFront(gone)
      BY <1>7, <3>1 DEF Advance
    <3>3. /\ gone.offset = 0 /\ gone.messages = b.messages /\ gone.totalSize = b.totalSize
          /\ DOMAIN gone = {"messages", "offset", "totalSize"}
      BY <1>1, <3>1
    <3>4. gone = [messages |-> b.messages, offset |-> 0, totalSize |-> b.totalSize]
      <4>1. gone = [f \in DOMAIN gone |-> gone[f]]
        OBVIOUS
      <4> HIDE DEF gone
      <4> QED BY <3>3, <4>1
    <3>5. gone \in Deque
      BY <1>1, <3>4 DEF Deque
    <3> HIDE DEF gone
    <3>6. PopFront(gone) = Behind(gone)
      BY <3>3, <3>5, PopIsBehind
    <3>7. Behind(gone) = Behind(b)
      BY <3>3 DEF Behind
    <3> QED BY <3>2, <3>6, <3>7
  <2>2. Cells(front, o) = piece
    <3> HIDE DEF bytes, o
    <3>1. SubSeq(bytes, o + n + 1, Len(bytes)) = << >>
      BY <1>1, <1>3, <1>7, SubSeqEmpty
    <3> HIDE DEF piece, front
    <3> QED BY <1>5, <1>6, <3>1, ConcatEmptySeq
  <2>3. Behind(b).totalSize = b.totalSize
    BY DEF Behind
  <2> QED BY <1>2, <1>5, <2>1, <2>2, <2>3
<1>8. CASE ~(o + n >= Len(bytes))
  <2>1. c = [b EXCEPT !.offset = @ + n]
    BY <1>1, <1>8 DEF Advance
  <2>2. /\ c.messages = b.messages /\ c.offset = o + n /\ c.totalSize = b.totalSize
        /\ DOMAIN c = DOMAIN b /\ c = [f \in DOMAIN c |-> c[f]]
    BY <1>1, <2>1
  <2> HIDE DEF c
  <2>3. c \in Deque
    <3>1. c = [messages |-> b.messages, offset |-> o + n, totalSize |-> b.totalSize]
      BY <1>1, <2>2
    <3> HIDE DEF o
    <3> QED BY <1>1, <3>1 DEF Deque
  <2>4. InFirst(c)
    <3>1. o + n < Len(bytes)
      <4> HIDE DEF o, bytes
      <4> QED BY <1>1, <1>3, <1>8
    <3> QED BY <2>2, <3>1 DEF InFirst
  <2>5. Represents(c) = Cells(front, o + n) \o S
    <3>1. Represents(c) = Cells(Head(c.messages), c.offset) \o Represents(Behind(c))
      BY <2>2, <2>3, RepresentsFirst
    <3>2. Behind(c) = Behind(b)
      BY <2>2 DEF Behind
    <3> QED BY <2>2, <3>1, <3>2
  <2>6. Cells(front, o + n) = SubSeq(bytes, o + n + 1, Len(bytes)) /\ Cells(front, o + n) \in Seq(Cell)
    <3>1. o + n \in Nat
      BY <1>1
    <3> QED BY <1>2, <3>1, CellsType
  <2>7. Represents(b) = piece \o Represents(c)
    <3> DEFINE d == Cells(front, o + n)
    <3>1. d \in Seq(Cell) /\ Represents(b) = (piece \o d) \o S /\ Represents(c) = d \o S
      BY <1>2, <1>6, <2>5, <2>6
    <3>2. piece \in Seq(Cell)
      <4> HIDE DEF piece
      <4> QED BY <1>5, SeqMonotonic DEF Cell
    <3> HIDE DEF d, piece, S
    <3>3. (piece \o d) \o S = piece \o (d \o S)
      BY <1>4, <3>1, <3>2, CellsConcat, Zenon
    <3> QED BY <3>1, <3>3
  <2> QED BY <1>5, <1>8, <2>2, <2>3, <2>4, <2>7 DEF c
<1> QED BY <1>7, <1>8

\* A round that finds another message in front: it copies bytes of it, as many as it
\* may or all that are left, and then drops it.
LEMMA RoundBytes ==
  ASSUME NEW R, NEW n \in Nat, NEW size, NEW r, Copying(R, n, size, r), Running(r),
         Head(r.deque.messages).flags # "EOS"
  PROVE  /\ Copying(R, n, size, Round(r))
         /\ \/ Round(r).length = 0
            \/ Len(Round(r).deque.messages) = Len(r.deque.messages) - 1
<1> DEFINE b     == r.deque
           x     == Round(r)
           bytes == r.bytes
           front == Head(b.messages)
           room  == r.length
           o     == b.offset
           rest  == Len(front.data) - o
           w     == IF room < rest THEN room ELSE rest
           c     == Advance(b, w)
           piece == SubSeq(front.data, o + 1, o + w)
           S     == Represents(c)
<1>1. b \in Deque /\ InFirst(b) /\ b.messages # << >> /\ r.left = FALSE /\ b.totalSize = size
  BY DEF Copying, Running
<1>2. bytes \in Seq(Byte) /\ room \in Nat /\ Len(bytes) + room = n
  BY DEF Copying
<1>3. /\ o \in Nat /\ rest \in Nat /\ Len(front.data) = o + rest
      /\ w \in Nat /\ w <= rest /\ w <= room /\ room - w \in Nat
      /\ o + w >= Len(front.data) \/ room - w = 0
  <2>1. front \in Message /\ o \in Nat
    BY <1>1, RepresentsFirst DEF Deque
  <2>2. Len(front.data) \in Nat
    BY <2>1, LenProperties DEF Message
  <2>3. o = 0 \/ o < Len(front.data)
    BY <1>1 DEF InFirst
  <2> HIDE DEF front, o, room
  <2>4. rest \in Nat /\ Len(front.data) = o + rest
    BY <2>1, <2>2, <2>3
  <2> HIDE DEF rest
  <2> QED BY <1>2, <2>1, <2>4
<1>4. /\ c \in Deque /\ InFirst(c) /\ c.totalSize = b.totalSize
      /\ piece \in Seq(Byte) /\ Len(piece) = w /\ Represents(b) = piece \o S
      /\ o + w >= Len(front.data) => Len(c.messages) = Len(b.messages) - 1
  <2>1. w <= Len(Head(b.messages).data) - b.offset
    BY <1>3
  <2> HIDE DEF w
  <2> QED BY <1>1, <1>3, <2>1, AdvanceCells
<1>5. x = [deque |-> c, bytes |-> bytes \o piece, length |-> room - w, left |-> FALSE]
  <2>1. r = [deque |-> b, bytes |-> bytes, length |-> room, left |-> r.left]
    BY DEF Copying
  <2>2. x = [r EXCEPT !.deque = c, !.length = room - w, !.bytes = bytes \o piece]
    BY DEF Round
  <2> HIDE DEF x, c, piece, w, bytes, room
  <2>3. DOMAIN r = {"deque", "bytes", "length", "left"}
    BY <2>1
  <2>4. /\ DOMAIN x = DOMAIN r /\ x = [f \in DOMAIN r |-> x[f]] /\ x.deque = c
        /\ x.bytes = bytes \o piece /\ x.length = room - w /\ x.left = r.left
    BY <2>2, <2>3
  <2> QED BY <1>1, <2>3, <2>4
<1>6. PICK marks \in Seq(Cell) : NoBytes(marks) /\ R = (marks \o bytes) \o (<< >> \o (piece \o S))
  <2>1. \E marks \in Seq(Cell) :
          /\ NoBytes(marks)
          /\ R = (marks \o bytes)
                   \o ((IF r.left THEN <<Mark>> ELSE << >>) \o Represents(b))
    BY Zenon DEF Copying
  <2>2. (IF r.left THEN <<Mark>> ELSE << >>) = << >>
    BY <1>1, Zenon
  <2>3. Represents(b) = piece \o S
    BY <1>4, Zenon
  <2> HIDE DEF b, bytes, piece, S
  <2> QED BY <2>1, <2>2, <2>3, Zenon
<1>7. S \in Seq(Cell)
  <2>1. c \in Deque
    BY <1>4, Zenon
  <2> HIDE DEF c
  <2> QED BY <2>1, RepresentsType, Zenon
<1> HIDE DEF x, c, piece, S, bytes, w, room
<1>8. bytes \o piece \in Seq(Byte) /\ Len(bytes \o piece) + (room - w) = n
  <2>1. bytes \o piece \in Seq(Byte) /\ Len(bytes \o piece) = Len(bytes) + w /\ Len(bytes) \in Nat
    BY <1>2, <1>4, ConcatProperties, LenProperties
  <2>2. w \in Nat /\ room \in Nat /\ Len(bytes) + room = n
    BY <1>2, <1>3
  <2>3. Len(bytes \o piece) + (room - w) = n
    BY <2>1, <2>2
  <2> QED BY <2>1, <2>3
<1>9. R = (marks \o (bytes \o piece)) \o (<< >> \o S)
  <2>1. bytes \in Seq(Cell) /\ piece \in Seq(Cell)
    BY <1>2, <1>4, SeqMonotonic DEF Cell
  <2>2. marks \o bytes \in Seq(Cell) /\ piece \o S \in Seq(Cell)
    BY <1>7, <2>1, ConcatProperties
  <2>3. (marks \o bytes) \o (piece \o S) = ((marks \o bytes) \o piece) \o S
    <3> DEFINE u == marks \o bytes
    <3>1. u \in Seq(Cell)
      BY <2>2
    <3> HIDE DEF u
    <3>2. u \o (piece \o S) = (u \o piece) \o S
      BY <1>7, <2>1, <3>1, CellsConcat, Zenon
    <3> QED BY <3>2 DEF u
  <2>4. (marks \o bytes) \o piece = marks \o (bytes \o piece)
    BY <2>1, CellsConcat, Zenon
  <2> QED BY <1>6, <1>7, <2>2, <2>3, <2>4, ConcatEmptySeq
<1>10. /\ x.deque = c /\ x.bytes = bytes \o piece /\ x.length = room - w /\ x.left = FALSE
       /\ x = [deque |-> x.deque, bytes |-> x.bytes, length |-> x.length, left |-> x.left]
  BY <1>5
<1>11. Copying(R, n, size, x)
  <2>1. /\ x.deque \in Deque /\ InFirst(x.deque) /\ x.deque.totalSize = size
        /\ x.bytes \in Seq(Byte) /\ x.length \in Nat /\ Len(x.bytes) + x.length = n
    BY <1>1, <1>3, <1>4, <1>8, <1>10
  <2>2. Represents(x.deque) = S
    BY <1>10 DEF S
  <2>3. \E ks \in Seq(Cell) :
          /\ NoBytes(ks)
          /\ R = (ks \o x.bytes) \o ((IF x.left THEN <<Mark>> ELSE << >>) \o Represents(x.deque))
    BY <1>6, <1>9, <1>10, <2>2
  <2> QED BY <1>10, <2>1, <2>3 DEF Copying
<1>12. x.length = 0 \/ Len(x.deque.messages) = Len(b.messages) - 1
  BY <1>3, <1>4, <1>10
<1> QED BY <1>11, <1>12 DEF x
\* After as many rounds as there are messages the loop has ended.
LEMMA CopyEnds ==
  ASSUME NEW b \in Deque, InFirst(b), NEW n \in Nat
  PROVE  Copying(Represents(b), n, b.totalSize, Copy(b, n)) /\ ~Running(Copy(b, n))
<1> DEFINE R == Represents(b)
           z == Len(b.messages)
           size == b.totalSize
<1>1. z \in Nat /\ R \in Seq(Cell) /\ size \in Nat
  BY CellsAtType, RepresentsType DEF Deque
<1>2. PICK f : Rounds(f, b, n, z) /\ Copy(b, n) = f[z]
  BY <1>1, CopyRounds
<1>3. f[0] = Start(b, n) /\ \A k \in 0 .. z - 1 : f[k + 1] = Another(f[k])
  <2> HIDE DEF z
  <2> QED BY <1>1, <1>2, RoundsAt
<1> DEFINE left(k) == Len(f[k].deque.messages)
           S == {k \in Nat : k <= z =>
                   Copying(R, n, size, f[k]) /\ (Running(f[k]) => left(k) + k <= z)}
<1>4. 0 \in S
  <2> DEFINE r == Start(b, n)
  <2>1. /\ r.deque = b /\ r.bytes = << >> /\ r.length = n /\ r.left = FALSE
        /\ r = [deque |-> r.deque, bytes |-> r.bytes, length |-> r.length, left |-> r.left]
    BY DEF Start
  <2>2. << >> \in Seq(Cell) /\ NoBytes(<< >>) /\ << >> \in Seq(Byte) /\ Len(<< >>) = 0
    BY EmptySeq DEF NoBytes
  <2> HIDE DEF r
  <2>3. R = (<< >> \o r.bytes) \o ((IF r.left THEN <<Mark>> ELSE << >>) \o Represents(r.deque))
    <3>1. << >> \o R = R /\ << >> \o << >> = << >>
      BY <1>1, <2>2, ConcatEmptySeq
    <3> QED BY <2>1, <3>1
  <2>4. Copying(R, n, size, r)
    <3>1. /\ r.deque \in Deque /\ InFirst(r.deque) /\ r.deque.totalSize = size
          /\ r.bytes \in Seq(Byte) /\ r.length \in Nat /\ Len(r.bytes) + r.length = n
      BY <2>1, <2>2
    <3> QED BY <2>1, <2>2, <2>3, <3>1 DEF Copying
  <2>5. Len(r.deque.messages) + 0 <= z
    BY <1>1, <2>1
  <2> QED BY <1>3, <2>4, <2>5 DEF r
<1>5. ASSUME NEW k \in Nat, k \in S  PROVE k + 1 \in S
  <2> HIDE DEF R, size, left, z
  <2> SUFFICES ASSUME k + 1 <= z
               PROVE  Copying(R, n, size, f[k + 1]) /\ (Running(f[k + 1]) => left(k + 1) + (k + 1) <= z)
    <3>1. k + 1 \in Nat
      OBVIOUS
    <3> QED BY <3>1, Zenon
  <2>1. k <= z /\ k \in 0 .. z - 1
    BY <1>1
  <2>2. f[k + 1] = Another(f[k])
    BY <1>3, <2>1
  <2>3. Copying(R, n, size, f[k]) /\ (Running(f[k]) => left(k) + k <= z)
    BY <1>5, <2>1
  <2>4. CASE ~Running(f[k])
    BY <2>2, <2>3, <2>4 DEF Another
  <2>5. CASE Running(f[k])
    <3>1. f[k + 1] = Round(f[k])
      BY <2>2, <2>5 DEF Another
    <3>2. /\ Copying(R, n, size, Round(f[k]))
          /\ \/ Round(f[k]).length = 0
             \/ Len(Round(f[k]).deque.messages) = Len(f[k].deque.messages) - 1
      BY <2>3, <2>5, RoundMark, RoundBytes
    <3>3. Len(f[k].deque.messages) \in Nat
      BY <2>3, CellsAtType DEF Copying
    <3>4. ASSUME Running(f[k + 1])  PROVE left(k + 1) + (k + 1) <= z
      <4>1. Round(f[k]).length # 0
        BY <3>1, <3>4 DEF Running
      <4>2. left(k + 1) = left(k) - 1
        BY <3>1, <3>2, <4>1 DEF left
      <4>3. left(k) \in Nat /\ left(k) + k <= z
        BY <2>3, <2>5, <3>3 DEF left
      <4> HIDE DEF left, z
      <4> QED BY <1>1, <4>2, <4>3
    <3> QED BY <3>1, <3>2, <3>4
  <2> QED BY <2>4, <2>5
<1> HIDE DEF S
<1>6. Nat \subseteq S
  BY <1>4, <1>5, NatSetInduction
<1>7. Copying(R, n, size, f[z]) /\ (Running(f[z]) => left(z) + z <= z)
  <2>1. z \in S /\ z <= z
    BY <1>1, <1>6
  <2> HIDE DEF z
  <2> QED BY <2>1 DEF S
<1>8. ~Running(f[z])
  <2> SUFFICES ASSUME Running(f[z])  PROVE FALSE
    OBVIOUS
  <2>1. f[z].deque.messages \in Seq(Message) /\ f[z].deque.messages # << >>
    BY <1>7 DEF Copying, Running, Deque
  <2>2. left(z) \in Nat /\ left(z) # 0
    <3> HIDE DEF z
    <3> QED BY <2>1, EmptySeq
  <2>3. left(z) + z <= z
    BY <1>7
  <2> HIDE DEF left, z
  <2> QED BY <1>1, <2>2, <2>3
<1> QED BY <1>2, <1>7, <1>8

\* read() gives what the stream gives, and leaves what the stream leaves.
LEMMA ReadDequeIsRead ==
  ASSUME NEW b \in Deque, InFirst(b), b.totalSize = Len(Unread(Represents(b))),
         ~NoBytes(Represents(b)), NEW n \in Nat \ {0}
  PROVE  LET c == ReadDeque(b, n).deque
         IN  /\ ReadDeque(b, n).bytes = ReadBytes(Represents(b), n)
             /\ c \in Deque /\ InFirst(c) /\ Represents(c) = AfterRead(Represents(b), n)
             /\ c.totalSize = Len(Unread(Represents(c)))
<1> DEFINE R     == Represents(b)
           r     == Copy(b, n)
           x     == r.bytes
           d     == r.deque
           S     == Represents(d)
           front == IF r.left THEN <<Mark>> ELSE << >>
           c     == ReadDeque(b, n).deque
<1>1. R \in Seq(Cell) /\ n \in Nat /\ n # 0
  BY RepresentsType
<1>2. /\ d \in Deque /\ InFirst(d) /\ d.totalSize = b.totalSize
      /\ x \in Seq(Byte) /\ r.length \in Nat /\ r.left \in BOOLEAN /\ Len(x) + r.length = n
      /\ r.left => r.length # 0 /\ x # << >>
      /\ ~(r.length > 0 /\ d.messages # << >> /\ ~r.left)
  BY <1>1, CopyEnds DEF Copying, Running
<1>3. PICK marks \in Seq(Cell) : NoBytes(marks) /\ R = (marks \o x) \o (front \o S)
  BY <1>1, CopyEnds DEF Copying
<1>4. S \in Seq(Cell) /\ (d.messages = << >> => S = << >>) /\ front \in Seq(Cell)
      /\ front \o S \in Seq(Cell)
  <2>1. S \in Seq(Cell) /\ (d.messages = << >> => S = << >>)
    BY <1>2, RepresentsType
  <2>2. front \in Seq(Cell)
    BY <1>3, MarksAppend, EmptySeq
  <2> HIDE DEF S, front
  <2> QED BY <2>1, <2>2, ConcatProperties
<1>5. Len(x) \in Nat /\ (Len(x) = 0 => x = << >>) /\ Len(<< >>) = 0
  BY <1>2, EmptySeq, LenProperties
<1>6. /\ ReadDeque(b, n).bytes = x
      /\ c = [d EXCEPT !.totalSize = @ - Len(x)]
  BY DEF ReadDeque
<1> HIDE DEF R, r, x, d, S
<1>7. ~r.left => front \o S = S
  BY <1>4, ConcatEmptySeq
<1>8. r.left => front \o S # << >> /\ (front \o S)[1] = Mark /\ Tail(front \o S) = S
  <2> SUFFICES ASSUME r.left
               PROVE  <<Mark>> \o S # << >> /\ (<<Mark>> \o S)[1] = Mark /\ Tail(<<Mark>> \o S) = S
    OBVIOUS
  <2> DEFINE u == <<Mark>> \o S
  <2>1. /\ u \in Seq(Cell) /\ Len(u) = 1 + Len(S) /\ Len(S) \in Nat
        /\ \A i \in 1 .. 1 + Len(S) : u[i] = IF i <= 1 THEN Mark ELSE S[i - 1]
    <3>1. <<Mark>> \in Seq(Cell) /\ Len(<<Mark>>) = 1 /\ <<Mark>>[1] = Mark
      BY <1>3, MarksAppend
    <3>2. \A i \in 1 .. 1 + Len(S) : i <= 1 => i = 1
      OBVIOUS
    <3> QED BY <1>4, <3>1, <3>2, ConcatProperties, LenProperties
  <2> HIDE DEF u
  <2>2. u # << >> /\ u[1] = Mark
    <3>1. 1 \in 1 .. 1 + Len(S) /\ Len(u) # 0
      BY <2>1
    <3> QED BY <2>1, <3>1, EmptySeq
  <2>3. Tail(u) = S
    <3>1. /\ Tail(u) \in Seq(Cell) /\ Len(Tail(u)) = Len(S)
          /\ \A i \in 1 .. Len(S) : Tail(u)[i] = u[i + 1]
      BY <2>1, <2>2, HeadTailProperties
    <3>2. \A i \in 1 .. Len(S) : u[i + 1] = S[i]
      <4> SUFFICES ASSUME NEW i \in 1 .. Len(S)  PROVE u[i + 1] = S[i]
        OBVIOUS
      <4>1. i + 1 \in 1 .. 1 + Len(S) /\ ~(i + 1 <= 1) /\ (i + 1) - 1 = i
        BY <2>1
      <4> QED BY <2>1, <4>1
    <3> QED BY <1>4, <3>1, <3>2, SeqEqual
  <2> QED BY <2>2, <2>3 DEF u
<1>9. x # << >>
  <2> SUFFICES ASSUME x = << >>  PROVE FALSE
    OBVIOUS
  <2>1. ~r.left /\ d.messages = << >>
    BY <1>1, <1>2, <1>5
  <2>2. R = (marks \o << >>) \o (<< >> \o << >>)
    BY <1>3, <1>4, <2>1
  <2>3. R = marks
    BY <1>3, <2>2, EmptySeq, ConcatEmptySeq
  <2> QED BY <1>3, <2>3 DEF R
<1>10. Len(x) <= n /\ (Len(x) = n \/ front \o S = << >> \/ (front \o S)[1] = Mark)
       /\ S = IF Len(x) = n \/ front \o S = << >> THEN front \o S ELSE Tail(front \o S)
  <2>1. Len(x) <= n /\ (Len(x) = n <=> r.length = 0)
    BY <1>2, <1>5
  <2>2. CASE r.left
    BY <1>2, <1>8, <2>1, <2>2
  <2>3. CASE ~r.left
    BY <1>2, <1>4, <1>7, <2>1, <2>3
  <2> QED BY <2>1, <2>2, <2>3, SMTT(30)
<1>11. ReadBytes(R, n) = x /\ AfterRead(R, n) = S
  <2> DEFINE rest == front \o S
             q    == (marks \o x) \o rest
  <2>1. /\ rest \in Seq(Cell) /\ (Len(x) = n \/ rest = << >> \/ rest[1] = Mark)
        /\ Len(x) <= n /\ x \in Seq(Byte) /\ x # << >> /\ NoBytes(marks)
        /\ S = IF Len(x) = n \/ rest = << >> THEN rest ELSE Tail(rest)
    BY <1>2, <1>3, <1>4, <1>9, <1>10
  <2>2. R = q
    BY <1>3
  <2> HIDE DEF rest
  <2>3. /\ ReadBytes(q, n) = x
        /\ AfterRead(q, n) = IF Len(x) = n \/ rest = << >> THEN rest ELSE Tail(rest)
    BY <2>1, ReadOf
  <2> QED BY <2>1, <2>2, <2>3
<1>12. Len(Unread(R)) = Len(x) + Len(Unread(S)) /\ Len(Unread(S)) \in Nat
  <2>1. ~NoBytes(R)
    BY DEF R
  <2>2. Unread(R) = x \o Unread(S)
    BY <1>1, <1>11, <2>1, ReadSplits
  <2> QED BY <1>2, <1>4, <2>2, UnreadType, ConcatProperties, LenProperties
<1>13. /\ c.messages = d.messages /\ c.offset = d.offset /\ c.totalSize = Len(Unread(S))
       /\ c = [messages |-> d.messages, offset |-> d.offset, totalSize |-> Len(Unread(S))]
  <2>1. DOMAIN d = {"messages", "offset", "totalSize"} /\ d.totalSize = Len(Unread(R))
    BY <1>2 DEF Deque, R
  <2>2. d.totalSize - Len(x) = Len(Unread(S))
    BY <1>5, <1>12, <2>1
  <2>3. /\ c.messages = d.messages /\ c.offset = d.offset /\ c.totalSize = d.totalSize - Len(x)
        /\ DOMAIN c = DOMAIN d /\ c = [f \in DOMAIN c |-> c[f]]
    BY <1>6, <2>1
  <2> HIDE DEF c
  <2> QED BY <2>1, <2>2, <2>3
<1> HIDE DEF c
<1>14. c \in Deque /\ InFirst(c)
  BY <1>2, <1>12, <1>13 DEF Deque, InFirst
<1>15. Represents(c) = S
  BY <1>13 DEF Represents, S
<1> QED BY <1>6, <1>11, <1>13, <1>14, <1>15 DEF c, R
-----------------------------------------------------------------------------
(* The invariant *)

\* DequeInv for the deque d of one socket, with b in its buffer.
Stands(d, b) ==
  /\ d \in Deque /\ InFirst(d)
  /\ Represents(d) = b /\ d.totalSize = Len(Unread(b))

\* totalSize_ tells whether there is something to read.
LEMMA EmptyIsNoBytes ==
  ASSUME NEW d, NEW b, Stands(d, b)
  PROVE  b \in Seq(Cell) /\ (IsEmpty(d) <=> NoBytes(b))
<1>1. b \in Seq(Cell) /\ d.totalSize = Len(Unread(b))
  BY RepresentsType DEF Stands
<1>2. NoBytes(b) => Len(Unread(b)) = 0
  BY <1>1, UnreadOfMarks, EmptySeq
<1>3. ASSUME ~NoBytes(b)  PROVE Len(Unread(b)) # 0
  <2> DEFINE x == ReadBytes(b, 1)
             y == Unread(AfterRead(b, 1))
  <2>1. x # << >> /\ Unread(b) = x \o y /\ x \in Seq(Byte) /\ y \in Seq(Byte)
    <3>1. 1 \in Nat \ {0} /\ b \in Seq(Cell) /\ ~NoBytes(b)
      BY <1>1, <1>3
    <3>2. x # << >> /\ AfterRead(b, 1) \in Seq(Cell) /\ Unread(b) = x \o y
      BY <3>1, ReadSplits
    <3>3. x \in Seq(Byte)
      BY <3>1, ReadTypes
    <3> QED BY <3>2, <3>3, UnreadType
  <2> HIDE DEF x, y
  <2>2. Len(x) \in Nat /\ Len(x) # 0 /\ Len(y) \in Nat /\ Len(x \o y) = Len(x) + Len(y)
    BY <2>1, EmptySeq, LenProperties, ConcatProperties
  <2>3. Len(x \o y) # 0
    BY <2>2
  <2> QED BY <2>1, <2>3
<1> QED BY <1>1, <1>2, <1>3 DEF IsEmpty

\* What has been appended to is another sequence, and ends with what was appended.
LEMMA AppendChanges ==
  ASSUME NEW S, NEW x \in Seq(S), NEW e \in S
  PROVE  Append(x, e) # x /\ Last(Append(x, e)) = e
<1>1. /\ Len(x) \in Nat /\ Len(Append(x, e)) = Len(x) + 1
      /\ Append(x, e)[Len(x) + 1] = e
  BY AppendProperties, LenProperties
<1>2. Len(Append(x, e)) # Len(x)
  BY <1>1
<1> QED BY <1>1, <1>2 DEF Last

\* queueMessage() of a plain message, also of the FIN that recv() queues.
LEMMA StandsQueue ==
  ASSUME NEW d, NEW b, Stands(d, b), NEW m \in Message, Plain(m)
  PROVE  /\ Stands(Enqueue(d, m), QueueMessage(b, m))
         /\ m.flags = "FIN" => QueueMessage(b, m) = b
<1>1. Stands(Enqueue(d, m), QueueMessage(b, m))
  BY RepresentsEnqueue DEF Stands
<1>2. ASSUME m.flags = "FIN"  PROVE QueueMessage(b, m) = b
  <2>1. b \in Seq(Cell) /\ m.data = << >>
    BY <1>2, EmptyIsNoBytes DEF Plain
  <2> QED BY <1>2, <2>1, ConcatEmptySeq DEF QueueMessage
<1> QED BY <1>1, <1>2

\* Every step of a socket keeps deques and streams together.
LEMMA DequesStay ==
  ASSUME TypeInv, TypeInv', DequeInv, BufferedNext, NEW s \in Socket, ReadEffect(s)
  PROVE  DequeInv'
<1>1. /\ buffer \in [Socket -> Seq(Cell)] /\ accepted \in [Socket -> Seq(Message)]
      /\ returned \in [Socket -> Seq(Seq(Byte))] /\ returned' \in [Socket -> Seq(Seq(Byte))]
  BY DEF TypeInv, TypeOK
<1>2. copied = returned /\ \A t \in Socket : Stands(deque[t], buffer[t])
  BY DEF DequeInv, Stands
<1>3. /\ deque' = [t \in Socket |-> IF RecvEnds(t) THEN ReadNow(t).deque ELSE Queued(t)]
      /\ copied' = [t \in Socket |-> IF RecvEnds(t) THEN Append(copied[t], ReadNow(t).bytes)
                                                   ELSE copied[t]]
  BY DEF BufferedNext
<1> SUFFICES ASSUME NEW t \in Socket
             PROVE  Stands(deque'[t], buffer'[t]) /\ copied'[t] = returned'[t]
  <2>1. \A t \in Socket : Stands(deque'[t], buffer'[t]) /\ copied'[t] = returned'[t]
    OBVIOUS
  <2>2. deque' \in [Socket -> Deque]
    BY <1>3, <2>1 DEF Stands
  <2>3. copied' = returned'
    <3>1. copied' = [u \in Socket |-> copied'[u]]
      BY <1>3
    <3>2. returned' = [u \in Socket |-> returned'[u]]
      BY <1>1
    <3>3. [u \in Socket |-> copied'[u]] = [u \in Socket |-> returned'[u]]
      BY <2>1
    <3> QED BY <3>1, <3>2, <3>3
  <2> QED BY <2>1, <2>2, <2>3 DEF DequeInv, Stands
<1>4. CASE accepted'[t] = accepted[t] /\ returned'[t] = returned[t] /\ buffer'[t] = buffer[t]
  <2>1. deque'[t] = deque[t] /\ copied'[t] = copied[t]
    BY <1>3, <1>4 DEF RecvEnds, Queued
  <2> QED BY <1>2, <1>4, <2>1
<1>5. CASE UNCHANGED <<buffer, accepted, returned>> \/ t # s
  BY <1>1, <1>4, <1>5 DEF ReadEffect, Queueing, Returning, ReturnRead
<1>6. ASSUME t = s, NEW m \in Message, Queueing(s, m)
      PROVE  Stands(deque'[t], buffer'[t]) /\ copied'[t] = returned'[t]
  <2>1. /\ accepted'[s] = Append(accepted[s], m) /\ returned'[s] = returned[s]
        /\ buffer'[s] = QueueMessage(buffer[s], m) /\ Plain(m)
    BY <1>1, <1>6 DEF Queueing
  <2>2. Queued(s) = Enqueue(deque[s], m)
    BY <1>1, <2>1, AppendChanges DEF Queued
  <2>3. deque'[s] = Enqueue(deque[s], m) /\ copied'[s] = copied[s]
    BY <1>3, <2>1, <2>2 DEF RecvEnds
  <2> QED BY <1>2, <1>6, <2>1, <2>3, StandsQueue
<1>7. CASE t = s /\ Returning(s)
  <2> DEFINE b == buffer[s]
             q == Queued(s)
             n == Head(script[s]).max
  <2>1. n \in Nat \ {0}
    <3>1. Head(script[s]) \in Call
      BY <1>7, HeadTailProperties DEF Returning, TypeInv, TypeOK
    <3> QED BY <1>7, <3>1 DEF Returning, Call
  <2>2. Stands(q, b)
    <3>1. CASE accepted'[s] = accepted[s]
      BY <1>2, <3>1 DEF Queued
    <3>2. ASSUME NEW m \in Message, m.flags = "FIN", m.data = << >>,
                 accepted' = [accepted EXCEPT ![s] = Append(@, m)]
          PROVE  Stands(q, b)
      <4>1. q = Enqueue(deque[s], m)
        BY <1>1, <3>2, AppendChanges DEF Queued
      <4>2. Stands(Enqueue(deque[s], m), QueueMessage(b, m)) /\ QueueMessage(b, m) = b
        <5>1. Plain(m) /\ Stands(deque[s], b)
          BY <1>2, <3>2 DEF Plain
        <5> QED BY <3>2, <5>1, StandsQueue
      <4> QED BY <4>1, <4>2
    <3> QED BY <1>7, <3>1, <3>2 DEF Returning
  <2>3. b \in Seq(Cell) /\ (IsEmpty(q) <=> NoBytes(b))
    BY <2>2, EmptyIsNoBytes
  <2>4. /\ returned'[s] = Append(returned[s], IF NoBytes(b) THEN << >> ELSE ReadBytes(b, n))
        /\ buffer'[s] = IF NoBytes(b) THEN b ELSE AfterRead(b, n)
    BY <1>1, <1>7 DEF Returning, ReturnRead
  <2>5. RecvEnds(s)
    <3> DEFINE r == IF NoBytes(b) THEN << >> ELSE ReadBytes(b, n)
    <3>1. r \in Seq(Byte)
      BY <2>1, <2>3, ReadTypes, EmptySeq
    <3> HIDE DEF r
    <3>2. Append(returned[s], r) # returned[s]
      BY <1>1, <3>1, AppendChanges
    <3> QED BY <2>4, <3>2 DEF RecvEnds, r
  <2>6. deque'[s] = ReadNow(s).deque /\ copied'[s] = Append(returned[s], ReadNow(s).bytes)
    BY <1>2, <1>3, <2>5
  <2>7. CASE NoBytes(b)
    <3>1. ReadNow(s) = [deque |-> q, bytes |-> << >>]
      BY <2>3, <2>7 DEF ReadNow
    <3> QED BY <1>7, <2>2, <2>4, <2>6, <2>7, <3>1
  <2>8. CASE ~NoBytes(b)
    <3>1. ReadNow(s) = ReadDeque(q, n)
      BY <2>3, <2>8 DEF ReadNow
    <3> HIDE DEF q, b, n
    <3>2. /\ ReadDeque(q, n).bytes = ReadBytes(b, n)
          /\ Stands(ReadDeque(q, n).deque, AfterRead(b, n))
      BY <2>1, <2>2, <2>8, ReadDequeIsRead DEF Stands
    <3> QED BY <1>7, <2>4, <2>6, <2>8, <3>1, <3>2
  <2> QED BY <2>7, <2>8
<1> QED BY <1>5, <1>6, <1>7 DEF ReadEffect

\* A socket as rcs_t() leaves it has an empty deque.
LEMMA DequeInit == BufferedInit => DequeInv
<1> SUFFICES ASSUME BufferedInit  PROVE DequeInv
  OBVIOUS
<1>1. /\ buffer = [s \in Socket |-> << >>] /\ returned = [s \in Socket |-> << >>]
      /\ deque = [s \in Socket |-> EmptyDeque] /\ copied = [s \in Socket |-> << >>]
  BY DEF BufferedInit, Init, SocketInit
<1>2. EmptyDeque \in Deque /\ InFirst(EmptyDeque) /\ EmptyDeque.totalSize = 0
      /\ EmptyDeque.messages = << >>
  BY EmptySeq DEF EmptyDeque, Deque, InFirst
<1>3. Represents(EmptyDeque) = << >> /\ Len(Unread(<< >>)) = 0
  BY <1>2, RepresentsType, UnreadEmpty, EmptySeq
<1> QED BY <1>1, <1>2, <1>3 DEF DequeInv

\* No step leaves the invariant.
LEMMA DequeNext ==
  TypeInv /\ TypeInv' /\ StreamInv /\ DequeInv /\ [BufferedNext]_bufferedVars => DequeInv'
<1> SUFFICES ASSUME TypeInv, TypeInv', StreamInv, DequeInv, [BufferedNext]_bufferedVars
             PROVE  DequeInv'
  OBVIOUS
<1>1. CASE UNCHANGED bufferedVars
  BY <1>1 DEF bufferedVars, vars, recvVars, DequeInv
<1>2. CASE BufferedNext
  <2>1. CASE UNCHANGED vars
    <3>1. PICK s : s \in Socket
      BY LinkAssumption
    <3>2. ReadEffect(s)
      BY <2>1 DEF vars, recvVars, ReadEffect
    <3> QED BY <1>2, <3>1, <3>2, DequesStay
  <2>2. ASSUME NEW s \in Socket, Step(s)  PROVE DequeInv'
    <3>1. ReadEffect(s)
      BY <2>2, StepEffects DEF StreamInv, Effects
    <3> QED BY <1>2, <3>1, DequesStay
  <2> QED BY <1>2, <2>1, <2>2 DEF BufferedNext, Next, Terminating
<1> QED BY <1>1, <1>2

\* The deques are only beside the sockets: what they do is what sockets do.
LEMMA BufferedIsLink == BufferedSpec => Spec
<1>1. BufferedInit => Init
  BY DEF BufferedInit
<1>2. [BufferedNext]_bufferedVars => [Next]_vars
  BY DEF BufferedNext, bufferedVars
<1> QED BY <1>1, <1>2, PTL DEF BufferedSpec, Spec

\* Every deque is the stream of its socket, with the offset inside its first
\* message and the count equal to the bytes that are left.
THEOREM DequeInvariant == BufferedSpec => []DequeInv
<1>1. BufferedSpec => [](TypeInv /\ StreamInv)
  <2>1. Spec => [](TypeInv /\ StreamInv)
    BY InitType, NextType, StreamInit, StreamNext, PTL DEF Spec
  <2> QED BY <2>1, BufferedIsLink, PTL
<1> QED BY <1>1, DequeInit, DequeNext, PTL DEF BufferedSpec

\* read() copies what the stream gives, for every message and every size argument,
\* and recv() waits or returns 0 exactly when the stream has no bytes.
THEOREM DequeStream == BufferedSpec => []DequeIsStream
<1>1. DequeInv => DequeIsStream
  <2> SUFFICES ASSUME DequeInv, NEW s \in Socket
               PROVE  /\ Represents(deque[s]) = buffer[s] /\ copied[s] = returned[s]
                      /\ IsEmpty(deque[s]) = NoBytes(buffer[s])
    BY DEF DequeIsStream
  <2>1. Stands(deque[s], buffer[s])
    BY DEF DequeInv, Stands
  <2>2. IsEmpty(deque[s]) <=> NoBytes(buffer[s])
    BY <2>1, EmptyIsNoBytes
  <2>3. IsEmpty(deque[s]) \in BOOLEAN /\ NoBytes(buffer[s]) \in BOOLEAN
    BY DEF IsEmpty, NoBytes
  <2> QED BY <2>2, <2>3 DEF DequeInv
<1> QED BY <1>1, DequeInvariant, PTL
=============================================================================
