----------------------------- MODULE Lifecycle ------------------------------
(***************************************************************************)
(* What a daemon promises about the swaps it accepts: a swap is accepted   *)
(* once, a delayed swap is filled at most once, and a swap that has ended  *)
(* stays ended.                                                            *)
(***************************************************************************)
CONSTANTS
  Swaps,    \* the swaps users post
  Delayed,  \* those whose details a callback fills in
  Fills     \* the details a callback may fill in

VARIABLE stage  \* stage[s]: "none", the details s has now, or "ended"

Init == stage = [s \in Swaps |-> "none"]

Become(s, next) == stage' = [stage EXCEPT ![s] = next]

Accept(s) ==
  /\ stage[s] = "none"
  /\ Become(s, IF s \in Delayed THEN "delay" ELSE "posted")

Fill(s) ==
  /\ stage[s] = "delay"
  /\ \E fill \in Fills : Become(s, fill)

End(s) ==
  /\ stage[s] \notin {"none", "ended"}
  /\ Become(s, "ended")

Next == \E s \in Swaps : Accept(s) \/ Fill(s) \/ End(s)

Spec == Init /\ [][Next]_stage
=============================================================================
