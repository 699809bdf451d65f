------------------------------- MODULE Binder -------------------------------
(***************************************************************************)
(* The contract bindings under adapter/binder: what Initiate, Audit,       *)
(* AuditSecret, Redeem and Refund may answer for a contract, for the three *)
(* kinds of token, from the state of the chain and the wall clock.         *)
(*                                                                         *)
(* Each operator is the set of answers a call may give now.  The calls     *)
(* that write answer "send" when they publish a transaction, "skip" when   *)
(* their precondition check fails, which the bindings report as success,   *)
(* or "error".                                                             *)
(***************************************************************************)
EXTENDS HTLC

CONSTANTS
  Kind,    \* Kind[c]: the kind of token in the contract that c funds
  Faults   \* the faults of the environment that the model allows

ASSUME KindAssumption   == Kind \in [Roles -> {"eth", "erc20", "btc"}]
ASSUME FaultsAssumption == Faults \subseteq {"rpc", "timeout", "build"}

(* "rpc": a request to a node fails.                                       *)
OnRpcFault(replies) == IF "rpc" \in Faults THEN replies ELSE {}
SendFails(sending)  == IF sending THEN {"error"} ELSE {}

Spent(c) == htlc[c] \in {"redeemed", "refunded"}

ByKind(c, eth, erc20, btc) ==
  IF Kind[c] = "btc" THEN btc ELSE IF Kind[c] = "erc20" THEN erc20 ELSE eth

(* Mutants of StillWaiting.                                                *)
StillWaitingImpatient(c) == "expired"
StillWaitingForever(c) == "pending"

(* Where the code waits for the peer, it stops waiting at the time lock.   *)
StillWaiting(c) == IF wall > LockOf(c) THEN "expired" ELSE "pending"

-----------------------------------------------------------------------------
(* Audit of the foreign contract: one that was redeemed or refunded passes *)
(* as well as an open one.                                                 *)

EthAudit(c) ==
  {IF Initiatable(c) THEN StillWaiting(c) ELSE "ok"} \cup OnRpcFault({"error"})

Erc20Audit(c) == EthAudit(c)

(* An API error looks like a contract that is not funded.                  *)
BtcAudit(c) ==
  {IF Initiatable(c) THEN StillWaiting(c) ELSE "ok"} \cup OnRpcFault({StillWaiting(c)})

(* Mutants of AuditReplies: only an open contract passes; all of them do.  *)
AuditRepliesOpenOnly(c) == {IF htlc[c] # "open" THEN StillWaiting(c) ELSE "ok"}
AuditRepliesBlind(c) == {"ok", StillWaiting(c)}

AuditReplies(c) == ByKind(c, EthAudit(c), Erc20Audit(c), BtcAudit(c))

-----------------------------------------------------------------------------
(* Audit of the native contract for the secret.                            *)

(* The call reverts for a contract that was never funded or was refunded.  *)
EthAuditSecret(c) ==
  {IF Redeemable(c) THEN StillWaiting(c)
   ELSE IF htlc[c] = "redeemed" THEN "ok" ELSE "error"} \cup OnRpcFault({"error"})

Erc20AuditSecret(c) == EthAuditSecret(c)

(* A first request asks whether the script is spent, where an error counts *)
(* as no; the second gets the spending script, which a refund makes        *)
(* malformed.                                                              *)
BtcAuditSecret(c) ==
  {IF ~Spent(c) THEN StillWaiting(c)
   ELSE IF htlc[c] = "redeemed" THEN "ok" ELSE "error"}
    \cup OnRpcFault({StillWaiting(c)} \cup SendFails(Spent(c)))

(* Mutant of AuditSecretReplies: an open contract yields the secret.       *)
AuditSecretRepliesLeaky(c) == {"ok", StillWaiting(c)}

AuditSecretReplies(c) ==
  ByKind(c, EthAuditSecret(c), Erc20AuditSecret(c), BtcAuditSecret(c))

-----------------------------------------------------------------------------
(* The calls that write, up to the publication of the transaction.         *)

(* An error in the check before the transaction counts as "funded".        *)
EthInitiate(c) ==
  {IF Initiatable(c) THEN "send" ELSE "skip"}
    \cup OnRpcFault({"skip"} \cup SendFails(Initiatable(c)))

(* The ERC20 binding returns it.                                           *)
Erc20Initiate(c) ==
  {IF Initiatable(c) THEN "send" ELSE "skip"} \cup OnRpcFault({"error"})

BtcInitiate(c) == EthInitiate(c)

(* "skip" covers a contract that its owner has refunded.                   *)
EthRedeem(c) ==
  {IF Redeemable(c) THEN "send" ELSE "skip"}
    \cup OnRpcFault({"skip"} \cup SendFails(Redeemable(c)))

Erc20Redeem(c) == EthRedeem(c)
BtcRedeem(c) == EthRedeem(c)

(* "skip" covers a contract that the peer has redeemed, and a block whose  *)
(* timestamp has not reached the time lock.                                *)
EthRefund(c) ==
  {IF Refundable(c) THEN "send" ELSE "skip"}
    \cup OnRpcFault({"skip"} \cup SendFails(Refundable(c)))

Erc20Refund(c) == EthRefund(c)

(* The check for funds received cannot fail; a script that cannot be spent *)
(* yet, or any more, makes the publication fail.                           *)
BtcRefund(c) ==
  {IF Refundable(c) THEN "send" ELSE "error"} \cup OnRpcFault({"skip", "error"})

InitiateReplies(c) == ByKind(c, EthInitiate(c), Erc20Initiate(c), BtcInitiate(c))

(* Mutant of RedeemReplies: a redeem is reported without being sent.       *)
RedeemRepliesHasty(c) == {"skip", "send"}
RedeemReplies(c) == ByKind(c, EthRedeem(c), Erc20Redeem(c), BtcRedeem(c))

(* Mutant of RefundReplies: a refund is reported without being sent.       *)
RefundRepliesHasty(c) == {"skip", "send"}
RefundReplies(c) == ByKind(c, EthRefund(c), Erc20Refund(c), BtcRefund(c))

Replies(call, c) ==
  IF call = "initiate" THEN InitiateReplies(c)
  ELSE IF call = "redeem" THEN RedeemReplies(c) ELSE RefundReplies(c)

-----------------------------------------------------------------------------
(* The wait for a published transaction.  On Ethereum it is done when it   *)
(* was mined successfully; on Bitcoin when the script is spent, by either  *)
(* party.                                                                  *)
Confirmed(call, c) ==
  IF call = "initiate" THEN htlc[c] # "none"
  ELSE IF Kind[c] = "btc" THEN Spent(c) ELSE htlc[c] = Effect(call)

(* Waiting ends with an error when the ten (five) minutes of the context   *)
(* are over: always for a transaction that failed, and under the fault     *)
(* "timeout" for one that may still be mined, or has been.                 *)
GivesUp(call, c) ==
  \/ "timeout" \in Faults
  \/ <<call, c>> \notin pool /\ ~Confirmed(call, c)
=============================================================================
