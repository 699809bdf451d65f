------------------------------ MODULE Exchange ------------------------------
(***************************************************************************)
(* What an atomic swap promises, without daemons, transactions or clocks:  *)
(* two escrows, one funded by each party.  The responder funds second; the *)
(* initiator claims the responder's escrow with the secret it alone knows, *)
(* the responder can claim only after that; a party takes its own money    *)
(* back only after the time lock has lapsed.                               *)
(*                                                                         *)
(* It does not promise that either both escrows are claimed or both are    *)
(* reclaimed: after the lapse a Reclaim and a Claim race.                  *)
(***************************************************************************)
VARIABLES escrow, lapsed

Parties == {"initiator", "responder"}
States  == {"none", "open", "redeemed", "refunded"}

Init ==
  /\ escrow = [p \in Parties |-> "none"]
  /\ lapsed = FALSE

Move(p, from, to) ==
  /\ escrow[p] = from
  /\ escrow' = [escrow EXCEPT ![p] = to]
  /\ UNCHANGED lapsed

Fund(p) ==
  /\ p = "responder" => escrow["initiator"] # "none"
  /\ Move(p, "none", "open")

(* The escrow of p goes to the other party.                                *)
Claim(p) ==
  /\ p = "initiator" => escrow["responder"] = "redeemed"
  /\ Move(p, "open", "redeemed")

Reclaim(p) ==
  /\ lapsed
  /\ Move(p, "open", "refunded")

Lapse ==
  /\ ~lapsed
  /\ lapsed' = TRUE
  /\ UNCHANGED escrow

Next ==
  \/ Lapse
  \/ \E p \in Parties : Fund(p) \/ Claim(p) \/ Reclaim(p)

Spec == Init /\ [][Next]_<<escrow, lapsed>>
=============================================================================
