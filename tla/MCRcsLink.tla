----------------------------- MODULE MCRcsLink -----------------------------
(* Scripts for the two applications, one pair for each question asked of RcsLink. *)
EXTENDS RcsLink

Send(bytes) == [op |-> "send", data |-> bytes]
Recv(n)     == [op |-> "recv", max |-> n]
Close       == [op |-> "close"]

Between(client, server) == [s \in Socket |-> IF s = Client THEN client ELSE server]

\* tests/server_main.cc and tests/client_main.cc: one message, then both close.
OneFile == Between(<<Recv(2), Close>>, <<Send(<<"a", "b">>), Close>>)

\* Two messages to a client that goes on reading.
Reading == Between(<<Recv(2), Recv(2), Recv(2)>>, <<Send(<<"a", "b">>), Send(<<"c">>)>>)

\* Both applications speak first.
Crossing == Between(<<Send(<<"a">>), Recv(2)>>, <<Send(<<"b">>), Recv(2)>>)

\* A message read in two parts.
Leftover == Between(<<Recv(1), Recv(1)>>, <<Send(<<"a", "b">>)>>)
=============================================================================
