-------------------------------- MODULE HTLC --------------------------------
(***************************************************************************)
(* The two hash time-locked contracts of one swap, the clocks they live    *)
(* by, and the transactions on their way to them.                          *)
(*                                                                         *)
(* The contract of role c is the one c funds: it pays c's peer against the *)
(* secret, or gives c its money back after the time lock.  On Ethereum it  *)
(* is an entry of the Swapper contract whose bytecode is in                *)
(* adapter/binder/eth/bindings.go; on Bitcoin it is a P2SH script.         *)
(***************************************************************************)
EXTENDS Naturals, FiniteSets

CONSTANTS
  ExpiryUnit,  \* swap.ExpiryUnit, in ticks of the model's clock
  MaxClock,    \* bound of the model: the wall clock stops here
  Lag          \* how far a block's timestamp may be behind the wall clock

ASSUME ClockAssumption ==
  ExpiryUnit \in Nat \ {0} /\ MaxClock \in Nat /\ Lag \in Nat

VARIABLES
  wall,       \* time.Now() of the hosts
  blockTime,  \* blockTime[c]: the timestamp of the last block of c's chain
  htlc,       \* htlc[c]: the state of the contract that c funds
  pool        \* transactions published and not mined: pairs <<call, c>>

chainVars == <<wall, blockTime, htlc, pool>>

Roles == {"initiator", "responder"}
Peer(r) == IF r = "initiator" THEN "responder" ELSE "initiator"

States == {"none", "open", "redeemed", "refunded"}
Calls  == {"initiate", "redeem", "refund"}
Txs    == Calls \X Roles

(* The origin of time is the moment the initiator posts the swap.          *)
TimeLock == 3 * ExpiryUnit

(* The time lock of the contract of c.  calculateTimeLocks puts a day      *)
(* between the two; the builders do not use it and take blob.TimeLock.     *)
LockOf(c) == TimeLock

Initiatable(c) == htlc[c] = "none"
Redeemable(c)  == htlc[c] = "open"

(* Mutant of Refundable: a refund that does not wait for the time lock.    *)
RefundableEarly(c) == htlc[c] = "open"
Refundable(c)  == htlc[c] = "open" /\ blockTime[c] >= LockOf(c)

(* What the contract's require() guards, or the script, accept.            *)
Accepts(call, c) ==
  \/ call = "initiate" /\ Initiatable(c)
  \/ call = "redeem"   /\ Redeemable(c)
  \/ call = "refund"   /\ Refundable(c)

Effect(call) == IF call = "initiate" THEN "open"
                ELSE IF call = "redeem" THEN "redeemed" ELSE "refunded"

ChainInit ==
  /\ wall = 0
  /\ blockTime = [c \in Roles |-> 0]
  /\ htlc = [c \in Roles |-> "none"]
  /\ pool = {}

ChainTypeOK ==
  /\ wall \in Nat
  /\ blockTime \in [Roles -> Nat]
  /\ htlc \in [Roles -> States]
  /\ pool \in SUBSET Txs

(* A daemon publishes a transaction.                                       *)
Publish(call, c) == pool' = pool \cup {<<call, c>>}

(* A published transaction is mined: it takes effect, or it reverts (its   *)
(* inputs are spent) if the contract has moved on meanwhile.               *)
Mine(call, c) ==
  /\ <<call, c>> \in pool
  /\ pool' = pool \ {<<call, c>>}
  /\ htlc' = IF Accepts(call, c) THEN [htlc EXCEPT ![c] = Effect(call)] ELSE htlc
  /\ UNCHANGED <<wall, blockTime>>

(* Time passes, and on each chain no block, or a block with a timestamp    *)
(* that is at most Lag behind.                                             *)
AdvanceClock ==
  /\ wall < MaxClock
  /\ wall' = wall + 1
  /\ blockTime' \in [Roles -> {t \in 0..wall' : wall' <= t + Lag}]
  /\ \A c \in Roles : blockTime[c] <= blockTime'[c]
  /\ UNCHANGED <<htlc, pool>>

AdvanceBlock(c) ==
  /\ blockTime[c] < wall
  /\ blockTime' = [blockTime EXCEPT ![c] = wall]
  /\ UNCHANGED <<wall, htlc, pool>>

ChainNext ==
  \/ AdvanceClock
  \/ \E c \in Roles : AdvanceBlock(c) \/ \E call \in Calls : Mine(call, c)
=============================================================================
