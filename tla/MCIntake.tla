------------------------------ MODULE MCIntake ------------------------------
(* An instance of Intake for TLC: two first requests for one account, one  *)
(* of them a swap, and a transfer for another.                             *)
EXTENDS Intake

MCRequests == {"i", "s", "t"}
MCKind     == [i |-> "info", s |-> "swap", t |-> "transfer"]
MCPassword == [i |-> "alice", s |-> "alice", t |-> "bob"]
=============================================================================
