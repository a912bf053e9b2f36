----------------------------- MODULE SeqLemmas -----------------------------
(***************************************************************************)
(* Facts about natural numbers, minima and FlattenSeq that the proofs of   *)
(* several modules need.                                                   *)
(***************************************************************************)
EXTENDS Integers, SequencesExt, SequenceTheorems, NaturalsInduction, WellFoundedInduction, TLAPS

\* Every nonempty set of natural numbers has the minimum that Min chooses.
LEMMA MinOfNats ==
  ASSUME NEW S, S \subseteq Nat, S # {}
  PROVE  Min(S) \in S /\ \A n \in S : Min(S) <= n
<1> DEFINE Less == {p \in Nat \X Nat : p[1] < p[2]}
<1>1. IsWellFoundedOn(Less, Nat)
  BY NatLessThanWellFounded, Zenon DEF OpToRel
<1>2. \A m, n \in Nat : n < m => <<n, m>> \in Less
  OBVIOUS
<1> HIDE DEF Less
<1>3. PICK m \in S : \A n \in S : ~(<<n, m>> \in Less)
  BY <1>1, WFMin
<1>4. ASSUME NEW n \in S  PROVE m <= n
  <2>1. m \in Nat /\ n \in Nat /\ ~(n < m)
    BY <1>2, <1>3
  <2> QED BY <2>1
<1> QED BY <1>4 DEF Min

\* Induction over the natural numbers, for a set in place of a predicate.
LEMMA NatSetInduction ==
  ASSUME NEW S, 0 \in S, \A n \in Nat : n \in S => n + 1 \in S
  PROVE  Nat \subseteq S
<1> SUFFICES ASSUME NEW k \in Nat, k \notin S  PROVE FALSE
  OBVIOUS
<1> DEFINE T == Nat \ S
<1>1. Min(T) \in T /\ \A n \in T : Min(T) <= n
  <2>1. T \subseteq Nat /\ T # {}
    OBVIOUS
  <2> HIDE DEF T
  <2> QED BY <2>1, MinOfNats
<1> QED BY <1>1

\* Induction over sequences, for a set in place of a predicate.
LEMMA SeqSetInduction ==
  ASSUME NEW S, NEW T, << >> \in T,
         \A s \in Seq(S), e \in S : s \in T => Append(s, e) \in T
  PROVE  Seq(S) \subseteq T
<1> DEFINE N == {n \in Nat : \A s \in Seq(S) : Len(s) = n => s \in T}
<1>1. 0 \in N
  BY EmptySeq
<1>2. ASSUME NEW n \in Nat, n \in N  PROVE n + 1 \in N
  <2> SUFFICES ASSUME NEW s \in Seq(S), Len(s) = n + 1  PROVE s \in T
    OBVIOUS
  <2>1. PICK t \in Seq(S), e \in S : s = Append(t, e)
    BY EmptySeq, SequenceEmptyOrAppend
  <2>2. Len(t) = n
    BY <2>1, AppendProperties, LenProperties
  <2> QED BY <1>2, <2>1, <2>2
<1> HIDE DEF N
<1>3. Nat \subseteq N
  BY <1>1, <1>2, NatSetInduction
<1> QED BY <1>3, LenProperties DEF N

\* A function on 1 .. n is a sequence of length n.
LEMMA FunctionIsSeq ==
  ASSUME NEW S, NEW n \in Nat, NEW f \in [1 .. n -> S]
  PROVE  f \in Seq(S) /\ Len(f) = n
<1>1. f \in Seq(S)
  BY SeqDef
<1>2. Len(f) \in Nat /\ DOMAIN f = 1 .. Len(f) /\ DOMAIN f = 1 .. n
  BY <1>1, LenProperties
<1>3. ASSUME NEW k \in Nat, 1 .. k = 1 .. n  PROVE k = n
  <2>1. CASE k < n
    BY <1>3, <2>1, n \in 1 .. n, n \notin 1 .. k
  <2>2. CASE n < k
    BY <1>3, <2>2, k \in 1 .. k, k \notin 1 .. n
  <2> QED BY <2>1, <2>2
<1> QED BY <1>1, <1>2, <1>3

-----------------------------------------------------------------------------
(* Prefixes *)

\* A prefix one longer has one element more.
LEMMA PrefixStep ==
  ASSUME NEW S, NEW s \in Seq(S), NEW k \in Nat, k < Len(s)
  PROVE  /\ SubSeq(s, 1, k) \in Seq(S) /\ s[k + 1] \in S
         /\ SubSeq(s, 1, k + 1) = Append(SubSeq(s, 1, k), s[k + 1])
<1>1. Len(s) \in Nat /\ \A i \in 1 .. Len(s) : s[i] \in S
  BY LenProperties, ElementOfSeq
<1>2. SubSeq(s, 1, k) \in Seq(S) /\ s[k + 1] \in S
  BY <1>1, SubSeqProperties
<1>3. SubSeq(s, 1, k + 1) = SubSeq(s, 1, k) \o <<s[k + 1]>>
  <2>1. 1 \in 1 .. Len(s) /\ k + 1 \in 1 .. Len(s) /\ (k + 1) - 1 = k
    BY <1>1
  <2> QED BY <2>1, SubSeqRecursiveSecond
<1> QED BY <1>2, <1>3, AppendIsConcat

\* A prefix of what has been appended to.
LEMMA PrefixOfAppend ==
  ASSUME NEW S, NEW s \in Seq(S), NEW e \in S
  PROVE  /\ \A k \in 0 .. Len(s) : SubSeq(Append(s, e), 1, k) = SubSeq(s, 1, k)
         /\ SubSeq(Append(s, e), 1, Len(s) + 1) = Append(s, e)
<1>1. Len(s) \in Nat /\ <<e>> \in Seq(S) /\ Append(s, e) = s \o <<e>>
  BY LenProperties, AppendIsConcat
<1>2. ASSUME NEW k \in 0 .. Len(s)  PROVE SubSeq(s \o <<e>>, 1, k) = SubSeq(s, 1, k)
  <2>1. CASE k = 0
    BY <2>1, SubSeqEmpty
  <2>2. CASE k # 0
    <3>1. 1 \in 1 .. Len(s) /\ k \in 1 .. Len(s)
      BY <1>1, <2>2
    <3> QED BY <1>1, <3>1, SubSeqOfConcat1
  <2> QED BY <2>1, <2>2
<1>3. SubSeq(Append(s, e), 1, Len(s) + 1) = Append(s, e)
  BY AppendProperties, SubSeqFull
<1> QED BY <1>1, <1>2, <1>3

\* What comes first in a concatenation is a prefix of it.
LEMMA PrefixOfConcat ==
  ASSUME NEW S, NEW s \in Seq(S), NEW t \in Seq(S)
  PROVE  IsPrefix(s, s \o t)
<1>1. /\ Len(s) \in Nat /\ Len(t) \in Nat /\ s \o t \in Seq(S) /\ Len(s \o t) = Len(s) + Len(t)
      /\ \A i \in 1 .. Len(s) : s[i] \in S /\ (s \o t)[i] = s[i]
  BY LenProperties, ElementOfSeq, ConcatProperties
<1>2. /\ SubSeq(s \o t, 1, Len(s)) \in Seq(S) /\ Len(SubSeq(s \o t, 1, Len(s))) = Len(s)
      /\ \A i \in 1 .. Len(s) : SubSeq(s \o t, 1, Len(s))[i] = s[i]
  BY <1>1, SubSeqProperties
<1>3. SubSeq(s \o t, 1, Len(s)) = SubSeq(s, 1, Len(s))
  BY <1>1, <1>2, SeqEqual, SubSeqFull
<1> QED BY <1>1, <1>3 DEF IsPrefix

-----------------------------------------------------------------------------
(* FlattenSeq *)

\* The recursion of FlattenSeq, for the first n of the sequences ss.
Flattens(f, ss, n) ==
  f = [i \in 1 .. n |-> IF i = 1 THEN ss[i] ELSE f[i - 1] \o ss[i]]

\* Each place of the recursion is given by the one before it.
LEMMA FlattensAt ==
  ASSUME NEW f, NEW ss, NEW n, Flattens(f, ss, n), NEW i \in 1 .. n
  PROVE  f[i] = IF i = 1 THEN ss[i] ELSE f[i - 1] \o ss[i]
<1> DEFINE Rhs(j) == IF j = 1 THEN ss[j] ELSE f[j - 1] \o ss[j]
<1>1. f = [j \in 1 .. n |-> Rhs(j)]
  BY Zenon DEF Flattens
<1> HIDE DEF Rhs
<1>2. f[i] = Rhs(i)
  BY <1>1, Zenon
<1> QED BY <1>2, Zenon DEF Rhs

\* The place after k adds one sequence to what place k has.
LEMMA FlattensStep ==
  ASSUME NEW f, NEW ss, NEW n \in Nat, Flattens(f, ss, n), NEW k \in 1 .. n - 1
  PROVE  f[k + 1] = f[k] \o ss[k + 1]
<1>1. k + 1 \in 1 .. n /\ k + 1 # 1 /\ (k + 1) - 1 = k
  OBVIOUS
<1>2. ASSUME NEW j \in 1 .. n, j # 1  PROVE f[j] = f[j - 1] \o ss[j]
  <2>1. f[j] = IF j = 1 THEN ss[j] ELSE f[j - 1] \o ss[j]
    BY FlattensAt
  <2> QED BY <1>2, <2>1, Zenon
<1>3. f[k + 1] = f[(k + 1) - 1] \o ss[k + 1]
  BY <1>1, <1>2, Zenon
<1> QED BY <1>1, <1>3, Zenon

\* There is such a function, for any number of sequences.
LEMMA FlattensExists == ASSUME NEW ss, NEW n \in Nat  PROVE \E f : Flattens(f, ss, n)
<1> DEFINE S == {m \in Nat : \E f : Flattens(f, ss, m)}
<1>1. 0 \in S
  <2> DEFINE Rhs(f, j) == IF j = 1 THEN ss[j] ELSE f[j - 1] \o ss[j]
             e == [j \in {} |-> 0]
  <2>1. e = [j \in 1 .. 0 |-> Rhs(e, j)]
    <3>1. 1 .. 0 = {}
      OBVIOUS
    <3> QED BY <3>1
  <2>2. Flattens(e, ss, 0)
    BY <2>1, Zenon DEF Flattens
  <2> QED BY <2>2
<1>2. ASSUME NEW m \in Nat, m \in S  PROVE m + 1 \in S
  <2>1. PICK f : Flattens(f, ss, m)
    BY <1>2
  <2> DEFINE Rhs(h, j) == IF j = 1 THEN ss[j] ELSE h[j - 1] \o ss[j]
             g == [j \in 1 .. m + 1 |-> Rhs(f, j)]
  <2>2. \A j \in 1 .. m + 1 : Rhs(f, j) = Rhs(g, j)
    <3> SUFFICES ASSUME NEW j \in 1 .. m + 1, j # 1  PROVE f[j - 1] = g[j - 1]
      OBVIOUS
    <3>1. j - 1 \in 1 .. m /\ j - 1 \in 1 .. m + 1
      OBVIOUS
    <3>2. f[j - 1] = Rhs(f, j - 1)
      BY <2>1, <3>1, FlattensAt
    <3> HIDE DEF Rhs
    <3> QED BY <3>1, <3>2
  <2> HIDE DEF Rhs
  <2>3. g = [j \in 1 .. m + 1 |-> Rhs(g, j)]
    BY <2>2
  <2> HIDE DEF g
  <2>4. Flattens(g, ss, m + 1)
    BY <2>3, Zenon DEF Flattens, Rhs
  <2> QED BY <2>4
<1> HIDE DEF S
<1>3. Nat \subseteq S
  BY <1>1, <1>2, NatSetInduction
<1> QED BY <1>3 DEF S

\* Both agree where both are defined, also when they flatten sequences that
\* begin alike.
LEMMA FlattensUnique ==
  ASSUME NEW f, NEW g, NEW ss, NEW tt, NEW m \in Nat, NEW n \in Nat, m <= n,
         Flattens(f, ss, m), Flattens(g, tt, n), \A i \in 1 .. m : ss[i] = tt[i]
  PROVE  \A i \in 1 .. m : f[i] = g[i]
<1> DEFINE S == {k \in Nat : k \in 1 .. m => f[k] = g[k]}
<1>1. 0 \in S
  OBVIOUS
<1>2. ASSUME NEW k \in Nat, k \in S  PROVE k + 1 \in S
  <2>1. CASE k + 1 \notin 1 .. m
    BY <2>1
  <2>2. CASE k + 1 \in 1 .. m /\ k = 0
    <3>1. f[1] = ss[1] /\ g[1] = tt[1]
      BY <2>2, FlattensAt
    <3> QED BY <2>2, <3>1
  <2>3. CASE k + 1 \in 1 .. m /\ k # 0
    <3>1. f[k] = g[k]
      BY <1>2, <2>3
    <3>2. f[k + 1] = f[k] \o ss[k + 1] /\ g[k + 1] = g[k] \o tt[k + 1]
      <4>1. k \in 1 .. m - 1 /\ k \in 1 .. n - 1
        BY <2>3
      <4>2. f[k + 1] = f[k] \o ss[k + 1]
        BY <4>1, FlattensStep, Zenon
      <4>3. g[k + 1] = g[k] \o tt[k + 1]
        BY <4>1, FlattensStep, Zenon
      <4> QED BY <4>2, <4>3
    <3>3. ss[k + 1] = tt[k + 1]
      BY <2>3
    <3>4. f[k + 1] = g[k + 1]
      BY <3>1, <3>2, <3>3, Zenon
    <3> QED BY <3>4
  <2> QED BY <2>1, <2>2, <2>3
<1> HIDE DEF S
<1>3. Nat \subseteq S
  BY <1>1, <1>2, NatSetInduction
<1> QED BY <1>3 DEF S

\* What FlattenSeq chooses.
LEMMA FlattenDef ==
  ASSUME NEW ss, Len(ss) \in Nat
  PROVE  \E f : Flattens(f, ss, Len(ss)) /\ FlattenSeq(ss) = IF Len(ss) = 0 THEN ss ELSE f[Len(ss)]
<1> DEFINE f == CHOOSE h : Flattens(h, ss, Len(ss))
<1>1. Flattens(f, ss, Len(ss))
  BY FlattensExists
<1>2. FlattenSeq(ss) = IF Len(ss) = 0 THEN ss ELSE f[Len(ss)]
  BY Zenon DEF FlattenSeq, Flattens
<1> QED BY <1>1, <1>2

\* No sequences give the empty one.
LEMMA FlattenEmpty == FlattenSeq(<< >>) = << >>
BY DEF FlattenSeq

\* The last sequence comes last.
LEMMA FlattenAppend ==
  ASSUME NEW S, NEW ss \in Seq(Seq(S)), NEW s \in Seq(S)
  PROVE  FlattenSeq(Append(ss, s)) = FlattenSeq(ss) \o s
<1> DEFINE n  == Len(ss)
           tt == Append(ss, s)
<1>1. n \in Nat /\ Len(tt) = n + 1 /\ tt[n + 1] = s /\ \A i \in 1 .. n : tt[i] = ss[i]
  BY LenProperties, AppendProperties
<1>2. PICK f : Flattens(f, ss, n) /\ FlattenSeq(ss) = IF n = 0 THEN ss ELSE f[n]
  BY <1>1, FlattenDef
<1>3. PICK g : Flattens(g, tt, n + 1) /\ FlattenSeq(tt) = IF n + 1 = 0 THEN tt ELSE g[n + 1]
  <2>1. Len(tt) \in Nat
    BY <1>1
  <2> HIDE DEF tt
  <2> QED BY <1>1, <2>1, FlattenDef
<1> HIDE DEF tt
<1>4. FlattenSeq(tt) = g[n + 1]
  BY <1>1, <1>3
<1>5. CASE n = 0
  <2>1. g[1] = tt[1]
    BY <1>3, <1>5, FlattensAt
  <2>2. ss = << >>
    BY <1>5, EmptySeq
  <2> QED BY <1>1, <1>2, <1>4, <1>5, <2>1, <2>2, ConcatEmptySeq DEF tt
<1>6. CASE n # 0
  <2>1. g[n + 1] = g[n] \o tt[n + 1]
    <3>1. n \in 1 .. (n + 1) - 1 /\ n + 1 \in Nat
      BY <1>1, <1>6
    <3> HIDE DEF n
    <3> QED BY <1>3, <3>1, FlattensStep, Zenon
  <2>2. f[n] = g[n]
    <3>1. n \in 1 .. n /\ n + 1 \in Nat /\ n <= n + 1
      BY <1>1, <1>6
    <3>2. \A i \in 1 .. n : ss[i] = tt[i]
      BY <1>1
    <3> HIDE DEF n
    <3>3. \A i \in 1 .. n : f[i] = g[i]
      BY <1>1, <1>2, <1>3, <3>1, <3>2, FlattensUnique
    <3> QED BY <3>1, <3>3, Zenon
  <2> QED BY <1>1, <1>2, <1>4, <1>6, <2>1, <2>2 DEF tt
<1> QED BY <1>5, <1>6

\* What flattened sequences are made of.
LEMMA FlattenType ==
  ASSUME NEW S, NEW ss \in Seq(Seq(S))
  PROVE  FlattenSeq(ss) \in Seq(S)
<1> DEFINE T == {tt \in Seq(Seq(S)) : FlattenSeq(tt) \in Seq(S)}
<1>1. << >> \in T
  BY EmptySeq, FlattenEmpty
<1>2. ASSUME NEW tt \in Seq(Seq(S)), NEW t \in Seq(S), tt \in T
      PROVE  Append(tt, t) \in T
  <2>1. FlattenSeq(Append(tt, t)) = FlattenSeq(tt) \o t
    BY FlattenAppend
  <2> QED BY <1>2, <2>1, ConcatProperties, AppendProperties
<1> HIDE DEF T
<1>3. Seq(Seq(S)) \subseteq T
  BY <1>1, <1>2, SeqSetInduction
<1> QED BY <1>3 DEF T

\* Flattening goes part by part.
LEMMA FlattenConcat ==
  ASSUME NEW S, NEW ss \in Seq(Seq(S)), NEW tt \in Seq(Seq(S))
  PROVE  FlattenSeq(ss \o tt) = FlattenSeq(ss) \o FlattenSeq(tt)
<1> DEFINE T == {uu \in Seq(Seq(S)) : FlattenSeq(ss \o uu) = FlattenSeq(ss) \o FlattenSeq(uu)}
<1>1. << >> \in T
  BY EmptySeq, FlattenEmpty, FlattenType, ConcatEmptySeq
<1>2. ASSUME NEW uu \in Seq(Seq(S)), NEW u \in Seq(S), uu \in T
      PROVE  Append(uu, u) \in T
  <2>1. ss \o Append(uu, u) = Append(ss \o uu, u)
    <3>1. <<u>> \in Seq(Seq(S)) /\ ss \o uu \in Seq(Seq(S))
      BY ConcatProperties
    <3> QED BY <3>1, AppendIsConcat, ConcatAssociative, SMTT(30)
  <2>2. FlattenSeq(Append(ss \o uu, u)) = FlattenSeq(ss \o uu) \o u
    BY ConcatProperties, FlattenAppend
  <2>3. FlattenSeq(Append(uu, u)) = FlattenSeq(uu) \o u
    BY FlattenAppend
  <2>4. (FlattenSeq(ss) \o FlattenSeq(uu)) \o u = FlattenSeq(ss) \o (FlattenSeq(uu) \o u)
    <3>1. FlattenSeq(ss) \in Seq(S) /\ FlattenSeq(uu) \in Seq(S)
      BY FlattenType
    <3> QED BY <3>1, ConcatAssociative, SMTT(30)
  <2> QED BY <1>2, <2>1, <2>2, <2>3, <2>4, AppendProperties
<1> HIDE DEF T
<1>3. Seq(Seq(S)) \subseteq T
  BY <1>1, <1>2, SeqSetInduction
<1> QED BY <1>3 DEF T

\* More sequences give more elements.
LEMMA FlattenPrefix ==
  ASSUME NEW S, NEW ss \in Seq(Seq(S)), NEW i \in Nat, NEW j \in Nat, i <= j, j <= Len(ss)
  PROVE  /\ Len(FlattenSeq(SubSeq(ss, 1, i))) \in Nat
         /\ Len(FlattenSeq(SubSeq(ss, 1, i))) <= Len(FlattenSeq(SubSeq(ss, 1, j)))
<1>1. Len(ss) \in Nat /\ \A k \in 1 .. Len(ss) : ss[k] \in Seq(S)
  BY LenProperties, ElementOfSeq
<1>2. SubSeq(ss, 1, i) \in Seq(Seq(S)) /\ SubSeq(ss, i + 1, j) \in Seq(Seq(S))
  BY <1>1, SubSeqProperties
<1>3. SubSeq(ss, 1, i) \o SubSeq(ss, i + 1, j) = SubSeq(ss, 1, j)
  <2>1. 1 \in 1 .. Len(ss) + 1 /\ i \in 1 - 1 .. Len(ss) /\ j \in i .. Len(ss)
    BY <1>1
  <2> QED BY <2>1, ConcatAdjacentSubSeq
<1>4. FlattenSeq(SubSeq(ss, 1, j)) = FlattenSeq(SubSeq(ss, 1, i)) \o FlattenSeq(SubSeq(ss, i + 1, j))
  BY <1>2, <1>3, FlattenConcat
<1>5. /\ FlattenSeq(SubSeq(ss, 1, i)) \in Seq(S)
      /\ FlattenSeq(SubSeq(ss, i + 1, j)) \in Seq(S)
  BY <1>2, FlattenType
<1> QED BY <1>4, <1>5, ConcatProperties, LenProperties
=============================================================================
