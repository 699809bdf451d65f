------------------------------ MODULE Payments ------------------------------
(***************************************************************************)
(* What a wallet promises for the transfers its users ask for: nothing is  *)
(* paid that was not accepted, nothing is paid twice, and the book lists   *)
(* only what was paid.  It does not promise that an accepted transfer is   *)
(* paid, or that one that was paid is listed.                              *)
(***************************************************************************)
EXTENDS Naturals

CONSTANT Requests

VARIABLES
  stage,     \* stage[q]: "asked", "accepted" or "refused"
  payments,  \* payments[q]: how often q was paid
  book       \* the transfers that are listed

Init ==
  /\ stage = [q \in Requests |-> "asked"]
  /\ payments = [q \in Requests |-> 0]
  /\ book = {}

Decide(q, answer) ==
  /\ stage[q] = "asked"
  /\ stage' = [stage EXCEPT ![q] = answer]
  /\ UNCHANGED <<payments, book>>

Pay(q) ==
  /\ stage[q] = "accepted"
  /\ payments[q] = 0
  /\ payments' = [payments EXCEPT ![q] = 1]
  /\ UNCHANGED <<stage, book>>

List(q) ==
  /\ payments[q] = 1
  /\ book' = book \cup {q}
  /\ UNCHANGED <<stage, payments>>

(* The wallet may break off whatever it has not decided.                   *)
BreakOff ==
  /\ stage' \in [Requests -> {"asked", "accepted", "refused"}]
  /\ \A q \in Requests :
       stage'[q] = stage[q] \/ (stage[q] = "asked" /\ stage'[q] = "refused")
  /\ UNCHANGED <<payments, book>>

Next ==
  \/ BreakOff
  \/ \E q \in Requests :
       Decide(q, "accepted") \/ Decide(q, "refused") \/ Pay(q) \/ List(q)

Spec == Init /\ [][Next]_<<stage, payments, book>>
=============================================================================
