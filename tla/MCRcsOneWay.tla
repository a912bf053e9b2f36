---------------------------- MODULE MCRcsOneWay ----------------------------
(***************************************************************************)
(* Three sends, the first in a full chunk and a shorter one.  The first    *)
(* read stops inside a message, so that offset_ is 1 until the next, which *)
(* goes on over the end of that message and stops at the mark; the third   *)
(* leaves a mark in front, which the fourth has to skip; the last finds    *)
(* the end of the file.                                                    *)
(***************************************************************************)
EXTENDS RcsBuffered

Send(bytes) == [op |-> "send", data |-> bytes]
Recv(n)     == [op |-> "recv", max |-> n]
Close       == [op |-> "close"]

Streaming ==
  [s \in Socket |->
    IF s = Sender THEN <<Send(<<"a", "b", "c">>), Send(<<"d">>), Send(<<"e">>), Close>>
                  ELSE <<Recv(1), Recv(3), Recv(1), Recv(2), Recv(2)>>]
=============================================================================
