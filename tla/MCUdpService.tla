---------------------------- MODULE MCUdpService ----------------------------
(* Inputs for the server and its clients, two of them on one host. *)
EXTENDS UdpService

CONSTANTS g1, g2, s1, s2, anne, bob, noName, c1, c2, c3

InGroup(g)  == [op |-> "group", group |-> g]
Named(s, n) == [op |-> "student", student |-> s, name |-> n]
Ask(g, s)   == [op |-> "get", key |-> <<g, s>>]
Stop        == [op |-> "stop"]
Bad         == [op |-> "bad"]
NoNumber    == [op |-> "nogroup"]

At(h, p) == [host |-> h, port |-> p]

\* A name given twice, a student without a name; a group without a number, which
\* hides the lines after it; a bad line; a student before any group.
CutRoster  == <<InGroup(g1), Named(s1, anne), NoNumber, InGroup(g2), Named(s1, bob)>>
AllRosters == {<<InGroup(g1), Named(s1, anne), InGroup(g2), Named(s2, noName), Named(s1, anne),
                 Named(s1, bob)>>,
               CutRoster, <<InGroup(g1), Bad>>, <<Named(s1, anne)>>}

\* c1 asks twice, c2 asks and stops the server, c3 asks once and may be killed.
Asking == c1 :> <<Ask(g1, s1), Bad, Ask(g2, s2)>> @@ c2 :> <<Ask(g2, s1), Stop>>
            @@ c3 :> <<Ask(g1, s2)>>

\* c1 and c2 share a host, c1 and c3 a port number.
Addresses == c1 :> At("a", 1) @@ c2 :> At("a", 2) @@ c3 :> At("b", 1)
Elsewhere == {At("c", 1)}

\* The buffer before the first datagram.
Anything == {Ask(g1, s2), Stop, StopSession, [op |-> "invalid"]}
=============================================================================
