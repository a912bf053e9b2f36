--------------------------- MODULE NameTableProofs ---------------------------
(***************************************************************************)
(* Proofs about the table of names: after every line main() has read, the  *)
(* table is what the input says so far, for any input and any names.       *)
(***************************************************************************)
EXTENDS NameTable, FiniteSetTheorems, TLAPS

\* No line that main() has read ends the input.
AllReadable == \A i \in 1 .. loaded : roster[i].op # "nogroup"

TableInv == TableTypeOK /\ TableIsInput /\ AllReadable

-----------------------------------------------------------------------------
(* Lines of the input *)

\* A line is a record of its kind.
LEMMA LineTypes ==
  ASSUME roster \in Rosters, NEW i \in 1 .. Len(roster)
  PROVE  /\ roster \in Seq(RosterLine)
         /\ roster[i].op = "group" => roster[i].group \in Group
         /\ roster[i].op = "student" => roster[i].student \in Student /\ roster[i].name \in Name
<1>1. roster \in Seq(RosterLine)
  BY TableAssumption
<1>2. roster[i] \in RosterLine
  BY <1>1
<1> QED BY <1>1, <1>2 DEF RosterLine

\* At most one group is the last one.
LEMMA OneGroup ==
  ASSUME NEW n \in Nat, NEW g \in GroupAt(n), NEW h \in GroupAt(n)
  PROVE  g = h
<1>1. PICK i \in GroupLines(n) : g = roster[i].group /\ \A k \in GroupLines(n) : k <= i
  BY DEF GroupAt
<1>2. PICK j \in GroupLines(n) : h = roster[j].group /\ \A k \in GroupLines(n) : k <= j
  BY DEF GroupAt
<1>3. i \in Nat /\ j \in Nat /\ i <= j /\ j <= i
  BY <1>1, <1>2 DEF GroupLines
<1> QED BY <1>1, <1>2, <1>3

\* A line that names no group does not change the group.
LEMMA SameGroup ==
  ASSUME NEW n \in Nat, roster[n + 1].op # "group"
  PROVE  GroupAt(n + 1) = GroupAt(n)
<1>1. GroupLines(n + 1) = GroupLines(n)
  BY DEF GroupLines
<1> QED BY <1>1 DEF GroupAt

\* A group line is the group from there on.
LEMMA NewGroup ==
  ASSUME NEW n \in Nat, roster[n + 1].op = "group"
  PROVE  GroupAt(n + 1) = {roster[n + 1].group}
<1>1. n + 1 \in GroupLines(n + 1) /\ \A h \in GroupLines(n + 1) : h \in Nat /\ h <= n + 1
  BY DEF GroupLines
<1>2. {j \in GroupLines(n + 1) : \A h \in GroupLines(n + 1) : h <= j} = {n + 1}
  BY <1>1
<1> QED BY <1>2 DEF GroupAt

\* The lines that name a student grow by the new line or by none.
LEMMA SameLines ==
  ASSUME NEW n \in Nat, NEW k,
         ~(/\ roster[n + 1].op = "student" /\ roster[n + 1].student = k[2]
           /\ k[1] \in GroupAt(n + 1))
  PROVE  NameAt(k, n + 1) = NameAt(k, n)
<1>1. LinesFor(k, n + 1) = LinesFor(k, n)
  BY DEF LinesFor
<1> QED BY <1>1 DEF NameAt

\* The last line that names a student counts.
LEMMA NewLine ==
  ASSUME NEW n \in Nat, NEW k, roster[n + 1].op = "student",
         roster[n + 1].student = k[2], k[1] \in GroupAt(n + 1)
  PROVE  NameAt(k, n + 1) = roster[n + 1].name
<1> DEFINE S == LinesFor(k, n + 1)
<1>1. n + 1 \in S /\ \A j \in S : j \in Nat /\ j <= n + 1
  BY DEF LinesFor
<1> HIDE DEF S
<1>2. Max(S) = n + 1
  <2>1. \E i \in S : \A j \in S : i >= j
    BY <1>1
  <2>2. Max(S) \in S /\ \A j \in S : Max(S) >= j
    BY <2>1 DEF Max
  <2> QED BY <1>1, <2>2
<1> QED BY <1>1, <1>2 DEF NameAt, S

-----------------------------------------------------------------------------
(* Steps *)

\* What the lines say does not depend on anything but them.
LEMMA RosterFixed ==
  ASSUME roster' = roster
  PROVE  /\ \A n : GroupAt(n)' = GroupAt(n)
         /\ \A k, n : NameAt(k, n)' = NameAt(k, n)
         /\ Readable' = Readable
<1>1. \A n : GroupLines(n)' = GroupLines(n)
  BY DEF GroupLines
<1>2. \A n : GroupAt(n)' = GroupAt(n)
  BY <1>1 DEF GroupAt
<1>3. \A k, n : LinesFor(k, n)' = LinesFor(k, n)
  BY <1>2 DEF LinesFor
<1> QED BY <1>2, <1>3 DEF NameAt, Readable

\* When the loop ends, main() has read all that it can.
LEMMA AllIsRead ==
  ASSUME TableInv, InputEnds  PROVE loaded = Readable
<1> DEFINE End(n) == /\ n = Len(roster) \/ roster[n + 1].op = "nogroup"
                     /\ \A i \in 1 .. n : roster[i].op # "nogroup"
<1>1. loaded \in 0 .. Len(roster) /\ Len(roster) \in Nat
  <2>1. roster \in Seq(RosterLine)
    BY TableAssumption DEF TableInv, TableTypeOK
  <2> QED BY <2>1 DEF TableInv, TableTypeOK
<1>2. End(loaded)
  BY DEF TableInv, AllReadable, InputEnds, NextLine
<1>3. ASSUME NEW n \in 0 .. Len(roster), End(n)  PROVE n = loaded
  <2>1. CASE n < loaded
    <3>1. n + 1 \in 1 .. loaded
      BY <1>1, <2>1
    <3> QED BY <1>1, <1>2, <1>3, <2>1, <3>1
  <2>2. CASE loaded < n
    <3>1. loaded + 1 \in 1 .. n
      BY <1>1, <2>2
    <3> QED BY <1>1, <1>2, <1>3, <2>2, <3>1
  <2> QED BY <1>1, <2>1, <2>2
<1> QED BY <1>1, <1>2, <1>3 DEF Readable

\* The table at the start, and a step that leaves it alone.
LEMMA TableStarts ==
  ASSUME TableInit  PROVE TableInv
<1>1. roster \in Seq(RosterLine)
  BY TableAssumption DEF TableInit
<1>2. Len(roster) \in Nat
  BY <1>1
<1>3. TableTypeOK
  BY <1>2 DEF TableInit, TableTypeOK
<1>4. GroupAt(0) = {}
  BY DEF GroupAt, GroupLines
<1>5. \A k \in Key : Get(k) = NameAt(k, 0)
  BY DEF TableInit, Get, NameAt, LinesFor
<1>6. AllReadable
  BY DEF TableInit, AllReadable
<1> QED BY <1>3, <1>4, <1>5, <1>6 DEF TableInv, TableIsInput, TableInit

LEMMA TableStays ==
  ASSUME TableInv, UNCHANGED tableVars  PROVE TableInv'
<1>1. roster' = roster /\ loaded' = loaded /\ group' = group /\ groups' = groups
  BY DEF tableVars
<1>2. TableTypeOK'
  BY <1>1 DEF TableInv, TableTypeOK
<1>3. \A k : Get(k)' = Get(k)
  BY <1>1 DEF Get
<1>4. TableIsInput'
  BY <1>1, <1>3, RosterFixed DEF TableInv, TableIsInput
<1>5. AllReadable'
  BY <1>1 DEF TableInv, AllReadable
<1> QED BY <1>2, <1>4, <1>5 DEF TableInv

\* A group line.
LEMMA GroupRead ==
  ASSUME TableInv, ReadGroup  PROVE TableInv'
<1>1. /\ roster' = roster /\ groups' = groups /\ loaded' = loaded + 1
      /\ group' = {roster[loaded + 1].group}
      /\ loaded < Len(roster) /\ roster[loaded + 1].op = "group"
  BY DEF ReadGroup, NextLine
<1>2. loaded \in Nat /\ loaded + 1 \in 1 .. Len(roster)
  <2>1. roster \in Seq(RosterLine)
    BY TableAssumption DEF TableInv, TableTypeOK
  <2> QED BY <1>1, <2>1 DEF TableInv, TableTypeOK
<1>3. TableTypeOK'
  BY <1>1, <1>2, LineTypes DEF TableInv, TableTypeOK
<1>4. group' = GroupAt(loaded)'
  BY <1>1, <1>2, NewGroup, RosterFixed
<1>5. \A k \in Key : Get(k)' = NameAt(k, loaded)'
  <2> SUFFICES ASSUME NEW k \in Key  PROVE Get(k)' = NameAt(k, loaded)'
    OBVIOUS
  <2>1. Get(k)' = Get(k)
    BY <1>1 DEF Get
  <2>2. NameAt(k, loaded + 1) = NameAt(k, loaded)
    BY <1>1, <1>2, SameLines
  <2> QED BY <1>1, <2>1, <2>2, RosterFixed DEF TableInv, TableIsInput
<1>6. AllReadable'
  BY <1>1, <1>2 DEF TableInv, AllReadable
<1> QED BY <1>3, <1>4, <1>5, <1>6 DEF TableInv, TableIsInput

\* A student line.
LEMMA StudentRead ==
  ASSUME TableInv, ReadStudent  PROVE TableInv'
<1> DEFINE line == roster[loaded + 1]
<1>1. /\ roster' = roster /\ group' = group /\ loaded' = loaded + 1
      /\ loaded < Len(roster) /\ line.op = "student"
  BY DEF ReadStudent, NextLine
<1>2. PICK g \in group : groups' = Enter(groups, <<g, line.student>>, line.name)
  BY DEF ReadStudent
<1>3. loaded \in Nat /\ loaded + 1 \in 1 .. Len(roster)
  <2>1. roster \in Seq(RosterLine)
    BY TableAssumption DEF TableInv, TableTypeOK
  <2> QED BY <1>1, <2>1 DEF TableInv, TableTypeOK
<1>4. line.student \in Student /\ line.name \in Name /\ g \in Group
  BY <1>1, <1>3, LineTypes DEF TableInv, TableTypeOK
<1>5. <<g, line.student>> \in Key
  BY <1>4 DEF Key
<1>6. /\ DOMAIN groups' = DOMAIN groups \cup {<<g, line.student>>}
      /\ \A j \in DOMAIN groups' :
           groups'[j] = IF j = <<g, line.student>> THEN line.name ELSE groups[j]
  BY <1>2 DEF Enter
<1>7. TableTypeOK'
  BY <1>1, <1>3, <1>4, <1>5, <1>6 DEF TableInv, TableTypeOK
<1>8. GroupAt(loaded + 1) = GroupAt(loaded) /\ group = GroupAt(loaded)
  BY <1>1, <1>3, SameGroup DEF TableInv, TableIsInput
<1>9. group' = GroupAt(loaded)'
  BY <1>1, <1>8, RosterFixed
<1>10. \A k \in Key : Get(k)' = NameAt(k, loaded)'
  <2> SUFFICES ASSUME NEW k \in Key  PROVE Get(k)' = NameAt(k, loaded + 1)
    BY <1>1, RosterFixed
  <2>1. k = <<k[1], k[2]>>
    BY DEF Key
  <2>2. CASE k = <<g, line.student>>
    <3>1. Get(k)' = line.name
      BY <1>6, <2>2 DEF Get
    <3>2. k[2] = line.student /\ k[1] \in GroupAt(loaded + 1)
      BY <1>2, <1>8, <2>2
    <3> QED BY <3>1, <3>2, <1>1, <1>3, NewLine
  <2>3. CASE k # <<g, line.student>>
    <3>1. Get(k)' = Get(k)
      BY <1>6, <2>3 DEF Get
    <3>2. ~(line.student = k[2] /\ k[1] \in GroupAt(loaded + 1))
      <4>1. g \in GroupAt(loaded)
        BY <1>2, <1>8
      <4> QED BY <1>3, <1>8, <2>1, <2>3, <4>1, OneGroup
    <3>3. NameAt(k, loaded + 1) = NameAt(k, loaded)
      BY <1>3, <3>2, SameLines
    <3> QED BY <3>1, <3>3 DEF TableInv, TableIsInput
  <2> QED BY <2>2, <2>3
<1>11. AllReadable'
  BY <1>1, <1>3 DEF TableInv, AllReadable
<1> QED BY <1>7, <1>9, <1>10, <1>11 DEF TableInv, TableIsInput
=============================================================================
