---------------------------- MODULE MCRcsAccept ----------------------------
(* Clients of a listener. *)
EXTENDS RcsAccept

CONSTANTS listener, child1, child2, client1, client2

TwoChildren == <<child1, child2>>

Connects == Connect(listener)

\* Two pieces of the standard input.
OneClient == client1 :> <<Connects, Send(<<"a">>), Send(<<"b", "c">>), Close>>

\* Two clients that only connect.
TwoClients == client1 :> <<Connects, Close>> @@ client2 :> <<Connects, Close>>
=============================================================================
