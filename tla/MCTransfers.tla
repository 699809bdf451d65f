---------------------------- MODULE MCTransfers -----------------------------
(* An instance of Transfers for TLC: two DGX transfers of one account that *)
(* its balance covers one by one, and a Bitcoin transfer of another that   *)
(* is covered just so or but for the fee.                                  *)
EXTENDS Transfers, TLC

CONSTANTS d1, d2, b1

Asked   == {d1, d2, b1}
TokenOf == d1 :> "erc20" @@ d2 :> "erc20" @@ b1 :> "btc"
Amounts == d1 :> 1000000 @@ d2 :> 2000000 @@ b1 :> 20000
Owners  == d1 :> "alice" @@ d2 :> "alice" @@ b1 :> "bob"

Balances ==
  { [ alice |-> [eth |-> 10, erc20 |-> 2500000, btc |-> 0],
      bob   |-> [eth |-> 0,  erc20 |-> 0,       btc |-> sats] ] : sats \in {25000, 30600} }
=============================================================================
