------------------------------ MODULE Handoff ------------------------------
(***************************************************************************)
(* What acksend() and recv() promise together, in one direction: messages  *)
(* are handed over one at a time.  The sender offers a message once the    *)
(* one before it has been taken, the receiver takes what is offered, and   *)
(* the sender learns of it afterwards.                                     *)
(***************************************************************************)
EXTENDS Naturals, Sequences

VARIABLES offered,    \* the messages offered, in order
          accepted,   \* the messages taken, in order
          confirmed   \* how many of them the sender knows to be taken

handoffVars == <<offered, accepted, confirmed>>

Init == offered = << >> /\ accepted = << >> /\ confirmed = 0

AllTaken == accepted = offered

Offer ==
  /\ AllTaken
  /\ Len(offered') = Len(offered) + 1
  /\ SubSeq(offered', 1, Len(offered)) = offered
  /\ confirmed' = Len(offered)
  /\ UNCHANGED accepted

Accept ==
  /\ Len(accepted) < Len(offered)
  /\ accepted' = Append(accepted, offered[Len(accepted) + 1])
  /\ UNCHANGED <<offered, confirmed>>

Confirm ==
  /\ AllTaken
  /\ confirmed' = Len(offered)
  /\ UNCHANGED <<offered, accepted>>

Next == Offer \/ Accept \/ Confirm

Spec == Init /\ [][Next]_handoffVars
=============================================================================
