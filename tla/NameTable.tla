------------------------------ MODULE NameTable -----------------------------
(***************************************************************************)
(* The table of names both servers of a2 keep (a2/Server.cc), and how      *)
(* main() (a2/ServerMain.cc) fills it from the lines of its input before   *)
(* run() answers anybody.                                                  *)
(***************************************************************************)
EXTENDS Naturals, FiniteSets, SequencesExt

CONSTANTS
  Rosters,    \* the inputs the server may be given on its stdin
  Group, Student, Name,
  NoName      \* the name of a student line with nothing after the number

Key == Group \X Student

RosterLine == [op : {"group"}, group : Group]
                \cup [op : {"student"}, student : Student, name : Name]
                \cup [op : {"bad", "nogroup"}]   \* "nogroup": Group, and then no number

ASSUME TableAssumption ==
  /\ Rosters \subseteq Seq(RosterLine)
  /\ NoName \in Name /\ Name \cap Key = {}

VARIABLES
  roster, loaded,      \* the server's stdin, and how many lines main() has read
  group,               \* group_id of main(), a set of at most one group
  groups               \* groups_

tableVars == <<roster, loaded, group, groups>>

TableInit == roster \in Rosters /\ loaded = 0 /\ group = {} /\ groups = << >>

-----------------------------------------------------------------------------
\* Slip: groups_[student_id][group_id].
EnterSwappedSlip(names, k, n) ==
  [j \in DOMAIN names \cup {<<k[2], k[1]>>} |-> IF j \in DOMAIN names THEN names[j] ELSE n]

\* Slip: add_student() keeps the name that was there.
EnterSlip(names, k, n) ==
  [j \in DOMAIN names \cup {k} |-> IF j \in DOMAIN names THEN names[j] ELSE n]

\* add_student()
Enter(names, k, n) == [j \in DOMAIN names \cup {k} |-> IF j = k THEN n ELSE names[j]]

\* The next line of the input is of this kind.
NextLine(op) == loaded < Len(roster) /\ roster[loaded + 1].op = op

ReadGroup ==
  /\ NextLine("group")
  /\ group' = {roster[loaded + 1].group}
  /\ loaded' = loaded + 1
  /\ UNCHANGED <<roster, groups>>

ReadStudent ==
  /\ NextLine("student")
  /\ \E g \in group :
       groups' = Enter(groups, <<g, roster[loaded + 1].student>>, roster[loaded + 1].name)
  /\ loaded' = loaded + 1
  /\ UNCHANGED <<roster, group>>

\* A line of neither kind, or a student before the first group.
BadInput == NextLine("bad") \/ (NextLine("student") /\ group = {})

\* A number that does not parse makes the stream fail, which ends the loop as
\* the end of the input does.
InputEnds == loaded = Len(roster) \/ NextLine("nogroup")

\* get(): the name, or an error that repeats the key.
Get(k) == IF k \in DOMAIN groups THEN groups[k] ELSE k

-----------------------------------------------------------------------------
(* What the input says, line by line and as a whole *)

\* The group that the first n lines end in.
GroupLines(n) == {i \in 1 .. n : roster[i].op = "group"}
GroupAt(n)    == {roster[i].group : i \in {j \in GroupLines(n) : \A h \in GroupLines(n) : h <= j}}

\* Those of the first n lines that name the student of this key.
LinesFor(k, n) == {i \in 1 .. n : /\ roster[i].op = "student" /\ roster[i].student = k[2]
                                  /\ k[1] \in GroupAt(i)}

\* The name that the first n lines give to a key: the last one, or the key.
NameAt(k, n) ==
  IF LinesFor(k, n) = {} THEN k ELSE roster[Max(LinesFor(k, n))].name

\* The lines up to the end of the input or to a group without a number.
Readable ==
  CHOOSE n \in 0 .. Len(roster) :
    /\ n = Len(roster) \/ roster[n + 1].op = "nogroup"
    /\ \A i \in 1 .. n : roster[i].op # "nogroup"

TrueName(k) == NameAt(k, Readable)

\* The table is what the lines read so far say, and main() knows the group that
\* the next student belongs to.
TableIsInput ==
  /\ group = GroupAt(loaded)
  /\ \A k \in Key : Get(k) = NameAt(k, loaded)

TableTypeOK ==
  /\ roster \in Rosters /\ loaded \in 0 .. Len(roster)
  /\ group \subseteq Group
  /\ DOMAIN groups \subseteq Key /\ \A k \in DOMAIN groups : groups[k] \in Name
=============================================================================
