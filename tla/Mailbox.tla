------------------------------ MODULE Mailbox -------------------------------
(***************************************************************************)
(* What the way from the HTTP handlers to the wallet task promises: while  *)
(* the process lives, every message that was put arrives once, in order.   *)
(***************************************************************************)
EXTENDS Naturals, Sequences

CONSTANT Messages

VARIABLES
  sent,  \* the messages put since the process started
  got    \* those that have arrived

Init == sent = <<>> /\ got = <<>>

Put(m) == sent' = Append(sent, m) /\ UNCHANGED got

Take ==
  /\ Len(got) < Len(sent)
  /\ got' = SubSeq(sent, 1, Len(got) + 1)
  /\ UNCHANGED sent

Restart == sent' = <<>> /\ got' = <<>>

Next == (\E m \in Messages : Put(m)) \/ Take \/ Restart

Spec == Init /\ [][Next]_<<sent, got>>
=============================================================================
