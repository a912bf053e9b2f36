----------------------------- MODULE MCRcsTurns -----------------------------
(* A dialogue of two applications that take turns. *)
EXTENDS RcsTurns

Send(bytes) == [op |-> "send", data |-> bytes]
Recv(n)     == [op |-> "recv", max |-> n]
Close       == [op |-> "close"]

Between(client, server) == [s \in Socket |-> IF s = Client THEN client ELSE server]

\* A request in two parts, a reply of two chunks, another request, after which the
\* client closes while the server still listens for it, or sends what nobody waits
\* for; its calls go on after the FIN.
Dialogue == Between(<<Send(<<"a", "b">>), Send(<<"c">>), Recv(2), Send(<<"d">>), Close>>,
                    <<Recv(3), Recv(2), Send(<<"b", "c">>), Recv(2), Send(<<"d">>), Recv(2),
                      Send(<<"a">>)>>)
=============================================================================
