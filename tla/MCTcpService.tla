---------------------------- MODULE MCTcpService ----------------------------
(* Inputs for the server and its clients. *)
EXTENDS TcpService

CONSTANTS g1, g2, s1, s2, anne, bob, eve, noName, c1, c2, c3

InGroup(g)        == [op |-> "group", group |-> g]
Named(s, n)       == [op |-> "student", student |-> s, name |-> n]
Ask(g, s)         == [op |-> "get", key |-> <<g, s>>]
Stop              == [op |-> "stop"]
Bad               == [op |-> "bad"]
NoNumber          == [op |-> "nogroup"]

\* A name that is given twice, a number in two groups and a student without a name;
\* a group without a number, which hides the lines after it; a student before any
\* group; a line that is neither.
GoodRoster == <<InGroup(g1), Named(s1, anne), Named(s2, bob), InGroup(g2), Named(s1, eve),
                InGroup(g1), Named(s1, bob), Named(s2, noName)>>
GoodRosters == {GoodRoster}
CutRoster   == <<InGroup(g1), Named(s1, anne), NoNumber, InGroup(g2), Named(s1, bob)>>
AllRosters  == {GoodRoster, CutRoster, <<Named(s1, anne)>>, <<InGroup(g1), Bad>>}

\* c1 asks twice, with a line between that is no request; c2 asks and stops the
\* server; c3 only ends its session.
Busy == c1 :> <<Ask(g1, s1), Bad, Ask(g1, s2)>> @@ c2 :> <<Ask(g2, s1), Stop>> @@ c3 :> << >>

\* Nobody stops the server.
Quiet == c1 :> <<Ask(g1, s1)>> @@ c2 :> <<Ask(g2, s1)>>

Anything == {Ask(g1, s2), Stop, StopSession, [op |-> "invalid"]}
Zeros    == {Ask(g2, s2)}
=============================================================================
