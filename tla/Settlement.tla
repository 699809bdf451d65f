----------------------------- MODULE Settlement -----------------------------
(***************************************************************************)
(* The money of one swap: an AtomicSwap in which the contracts hold the    *)
(* amounts that the two daemons derive from their blobs (Terms), the       *)
(* publications cost a fee, and each daemon counts what the swap costs its *)
(* user and writes it to the receipt.                                      *)
(*                                                                         *)
(* A binding counts in a map that travels with the SwapRequest.  The       *)
(* receipt update that follows a call is a closure: the status task reads  *)
(* the map when it runs it, not when it was sent.  The nodes answer (Faults *)
(* is empty); a crash may come at any step.                                *)
(***************************************************************************)
EXTENDS AtomicSwap, Terms

CONSTANTS
  Addr,     \* the addresses of the two chains
  Offer,    \* the blob that the initiator's user posts
  Address,  \* Address[r][chain]: GetAddress of r's wallet
  GasLimit, \* the gas limit of a transaction of the bindings
  GasUsed   \* what such a transaction may use of it

ASSUME OfferAssumption ==
  /\ Offer \in Blobs(Addr)
  /\ \A r \in Roles : Address[r] \in Wallets(Addr)
  /\ Kind = [initiator |-> Offer.sendKind, responder |-> Offer.receiveKind]
  /\ Offer.sendTo = Address["responder"][Chain(Offer.sendKind)]
  /\ Offer.receiveFrom = Address["responder"][Chain(Offer.receiveKind)]

ASSUME GasAssumption == GasLimit \in Nat /\ GasUsed # {} /\ GasUsed \subseteq 1..GasLimit

(* Each SwapRequest has maps of costs of its own.  The one map of a role   *)
(* stands for them as long as there is one request at a time: with racing  *)
(* Bootload messages there can be two.                                     *)
ASSUME RequestAssumption == MaxBoots = 1

VARIABLES
  granted, \* granted[r][c]: what r's transactions for the contract of c let
           \* the miners take
  paid,    \* paid[r][c]: what the miners have taken of it
  cost,    \* cost[r][c]: SendCost (c = r) or ReceiveCost in r's SwapRequest
  told,    \* told[r][c]: the same in r's receipt
  late     \* late[r]: an update of r's receipt is on its way to the status task

ledger == <<granted, paid>>
money == <<ledger, cost, told, late>>
allVars == <<vars, money>>

Tokens == {"eth", "erc20", "btc"}
NoCost == [c \in Roles |-> [t \in Tokens |-> 0]]

(* The responder's user posts what the initiator's daemon answered.        *)
Blob(r) == IF r = "initiator" THEN Offer ELSE Response(Offer, Address["initiator"])

Native  == [r \in Roles |-> Bind(NativeSwap(Blob(r), Address[r]))]
Foreign == [r \in Roles |-> Bind(ForeignSwap(Blob(r), Address[r]))]

(* The contract of c as r sees it, and what it holds.                      *)
SwapOf(r, c) == IF r = c THEN Native[r] ELSE Foreign[r]
Held == [c \in Roles |-> Locks(Native[c])]

FeeToken(c) == IF Kind[c] = "btc" THEN "btc" ELSE "eth"

(* Initiate of an ERC20 contract takes an approval and an initiation.      *)
IsPair(call, c) == call = "initiate" /\ Kind[c] = "erc20"

(* What a binding charges: on Ethereum the price of the gas that a         *)
(* transaction may use at most, tx.Gas().                                  *)
MinersFee(r, call, c) ==
  IF Kind[c] = "btc" THEN SwapOf(r, c).fee
  ELSE SwapOf(r, c).fee * GasLimit * (IF IsPair(call, c) THEN 2 ELSE 1)

(* What a miner may take: the price of the gas that was used.              *)
Gas(call, c) ==
  IF IsPair(call, c) THEN {g + h : g \in GasUsed, h \in GasUsed} ELSE GasUsed

MinersTake(r, call, c) ==
  IF Kind[c] = "btc" THEN {SwapOf(r, c).fee} ELSE {SwapOf(r, c).fee * g : g \in Gas(call, c)}

(* What the call adds to the user's share of the broker's fee.             *)
BrokerShare(r, call, c) ==
  IF call = "initiate" THEN SwapOf(r, c).brokerFee
  ELSE IF call = "refund" THEN -SwapOf(r, c).brokerFee ELSE 0

(* Both, as entries of a map from tokens to amounts.                       *)
MinersEntry(r, call, c, t) == IF t = FeeToken(c) THEN MinersFee(r, call, c) ELSE 0
BrokersEntry(r, call, c, t) == IF t = Kind[c] THEN BrokerShare(r, call, c) ELSE 0

Grant(r, call, c) ==
  granted' = [granted EXCEPT ![r][c] = [t \in Tokens |-> @[t] + MinersEntry(r, call, c, t)]]

PayMiner(r, call, c) ==
  \E fee \in MinersTake(r, call, c) :
    paid' = [paid EXCEPT ![r][c] =
               [t \in Tokens |-> @[t] + IF t = FeeToken(c) THEN fee ELSE 0]]

(* A transaction of r, with what it allows and what is taken of it.        *)
Transact(r, call, c) == Grant(r, call, c) /\ PayMiner(r, call, c)

(* Mutant of Charge: a refund does not give the broker's share back.       *)
ChargeKeeps(r, call, c) ==
  cost' = [cost EXCEPT ![r][c] =
             [t \in Tokens |-> @[t] + MinersEntry(r, call, c, t)
                + (IF call = "refund" THEN 0 ELSE BrokersEntry(r, call, c, t))]]

Charge(r, call, c) ==
  cost' = [cost EXCEPT ![r][c] =
             [t \in Tokens |-> @[t] + MinersEntry(r, call, c, t) + BrokersEntry(r, call, c, t)]]

(* A call that ended came with a receipt update.                           *)
Report(r) == late' = [late EXCEPT ![r] = @ \/ pc'[r] = "idle"]

-----------------------------------------------------------------------------
SettleInit ==
  /\ Init
  /\ granted = [r \in Roles |-> NoCost]
  /\ paid = [r \in Roles |-> NoCost]
  /\ cost = [r \in Roles |-> NoCost]
  /\ told = [r \in Roles |-> NoCost]
  /\ late = [r \in Roles |-> FALSE]

(* On Bitcoin a fee is paid by the transaction that made it to a block.    *)
SettleMine(call, c) ==
  /\ Mine(call, c)
  /\ IF Kind[c] = "btc" /\ Accepts(call, c)
     THEN Transact(IF call = "redeem" THEN Peer(c) ELSE c, call, c)
     ELSE UNCHANGED ledger
  /\ UNCHANGED <<daemonVars, cost, told, late>>

SettleClock ==
  /\ AdvanceClock \/ \E c \in Roles : AdvanceBlock(c)
  /\ UNCHANGED <<daemonVars, money>>

(* A contract with other terms fails the audit, as "Mismatch" on Ethereum  *)
(* and as a script that is not funded on Bitcoin.                          *)
TermsAudit(r) ==
  IF Initiatable(Peer(r)) \/ AuditPasses(Foreign[r], Held[Peer(r)])
  THEN AuditReplies(Peer(r))
  ELSE {IF Kind[Peer(r)] = "btc" THEN StillWaiting(Peer(r)) ELSE "error"}

SettleAudit(r) ==
  /\ \/ /\ pc[r] = "audit"
        /\ UNCHANGED chainVars
        /\ \E reply \in TermsAudit(r) : AuditAnswer(r, reply)
     \/ AuditSecret(r)
  /\ Report(r)
  /\ UNCHANGED <<ledger, cost, told>>

(* A redeem that would leave dust is not sent and counts as done.          *)
TermsReplies(r, call) ==
  IF call = "redeem" /\ ~RedeemPays(Foreign[r], Held[Peer(r)]) THEN {"skip"}
  ELSE Replies(call, Target(r, call))

(* On Ethereum a fee is charged when a transaction is sent.  What a miner  *)
(* will take of it is settled with it, since one that reverts pays, too.   *)
SettleSend(r, call) ==
  /\ pc[r] = call
  /\ UNCHANGED <<wall, blockTime, htlc>>
  /\ \E reply \in TermsReplies(r, call) :
       /\ SendAnswer(r, call, reply)
       /\ IF reply = "send" /\ Kind[Target(r, call)] # "btc"
          THEN Transact(r, call, Target(r, call)) /\ Charge(r, call, Target(r, call))
          ELSE UNCHANGED <<ledger, cost>>
  /\ Report(r)
  /\ UNCHANGED told

(* On Bitcoin it is charged when the wait ends well.                       *)
SettleAwait(r, call) ==
  /\ Await(r, call)
  /\ IF Kind[Target(r, call)] = "btc" /\ Confirmed(call, Target(r, call))
     THEN Charge(r, call, Target(r, call))
     ELSE UNCHANGED cost
  /\ Report(r)
  /\ UNCHANGED <<ledger, told>>

SettleWork(r) ==
  \/ (HandleRequest(r) \/ HandleTick(r)) /\ UNCHANGED money
  \/ SettleAudit(r)
  \/ \E call \in Calls : SettleSend(r, call) \/ SettleAwait(r, call)

SettleDelete(r) == DeleteSwap(r) /\ UNCHANGED money

(* Mutant of StoreReceipt: the update adds its costs to the receipt.       *)
StoreReceiptAdds(r) ==
  /\ late[r]
  /\ told' = [told EXCEPT ![r] = [c \in Roles |-> [t \in Tokens |-> @[c][t] + cost[r][c][t]]]]
  /\ late' = [late EXCEPT ![r] = FALSE]
  /\ UNCHANGED <<vars, ledger, cost>>

(* The status task runs the closure of a receipt update.                   *)
StoreReceipt(r) ==
  /\ late[r]
  /\ told' = [told EXCEPT ![r] = cost[r]]
  /\ late' = [late EXCEPT ![r] = FALSE]
  /\ UNCHANGED <<vars, ledger, cost>>

(* The costs that a request starts with are those of the receipt.          *)
LoadCosts(r) == cost' = [cost EXCEPT ![r] = told[r]]

SettlePost(r) ==
  /\ PostSwap(r)
  /\ LoadCosts(r)
  /\ UNCHANGED <<ledger, told, late>>

SettleBootload(r) ==
  /\ Bootload(r)
  /\ LoadCosts(r)
  /\ UNCHANGED <<ledger, told, late>>

(* What was counted and not stored is lost.                                *)
SettleCrash(r) ==
  /\ Crash(r)
  /\ cost' = [cost EXCEPT ![r] = NoCost]
  /\ late' = [late EXCEPT ![r] = FALSE]
  /\ UNCHANGED <<ledger, told>>

SettleNext ==
  \/ SettleClock
  \/ \E c \in Roles, call \in Calls : SettleMine(call, c)
  \/ \E r \in Roles : \/ SettlePost(r)
                      \/ SettleBootload(r)
                      \/ SettleCrash(r)
                      \/ SettleWork(r)
                      \/ SettleDelete(r)
                      \/ StoreReceipt(r)

SettleFairness ==
  /\ \A c \in Roles, call \in Calls : WF_allVars(SettleMine(call, c))
  /\ \A r \in Roles :
       /\ WF_allVars(SettleWork(r))
       /\ WF_allVars(SettleDelete(r))
       /\ WF_allVars(StoreReceipt(r))
       /\ WF_allVars(boots[r] = 0 /\ SettleBootload(r))

SettleSpec == SettleInit /\ [][SettleNext]_allVars /\ SettleFairness

-----------------------------------------------------------------------------
(* The broker's part: from the native contract as long as it is not        *)
(* refunded.                                                               *)
WithBroker(fees, r, c) ==
  [fees EXCEPT ![Kind[c]] =
     @ + IF r = c /\ htlc[c] \in {"open", "redeemed"} THEN Native[c].brokerFee ELSE 0]

(* What the user has paid for the contract of c, and what the transactions *)
(* of its daemon allow to be taken at most.                                *)
Spending(r, c) == WithBroker(paid[r][c], r, c)
Allowed(r, c)  == WithBroker(granted[r][c], r, c)

(* The daemon of r does nothing, and nothing of it is on its way.          *)
AtRest(r) ==
  /\ pc[r] = "idle" /\ queued[r] = 0 /\ ~late[r]
  /\ \A call \in Calls : <<call, Target(r, call)>> \notin pool

(* What r has got for the swap, after the miner's fee of the redemption.   *)
Received(r) ==
  IF htlc[Peer(r)] = "redeemed" THEN Payout(Foreign[r], Held[Peer(r)]) ELSE 0

Agreed(r) ==
  Blob(r).receiveAmount - IF Blob(r).receiveKind = "btc" THEN Foreign[r].fee ELSE 0

(* On Bitcoin a transaction of r lost the race for the script of c: the    *)
(* wait ends well, and is charged, because the peer's has spent it.        *)
Beaten(r, c) ==
  /\ Kind[c] = "btc"
  /\ \/ r = c /\ reported[r] = "Refunded" /\ htlc[c] = "redeemed"
     \/ r # c /\ reported[r] = "Redeemed" /\ htlc[c] = "refunded"

(* On Ethereum a refund counts when it is sent, also one that reverts      *)
(* because the peer has redeemed first: the share is given back all the    *)
(* same.                                                                   *)
RefundReverted(r, c) ==
  r = c /\ Kind[c] # "btc" /\ htlc[c] = "redeemed" /\ wall > TimeLock

Counted(r, c) ==
  {Allowed(r, c)} \cup IF RefundReverted(r, c) THEN {granted[r][c]} ELSE {}

(* Without a crash the receipt counts every transaction once and at its    *)
(* limit, also after a refund and after attempts that failed: a call       *)
(* charges the map of its contract once for each transaction, and the last *)
(* update that is stored reads the map after the last charge.  On Bitcoin  *)
(* that is what the swap has cost; on Ethereum it is that or more, by the  *)
(* gas that was not used, and never less, but for a refund that reverted.  *)
CostsCounted ==
  crashes = 0 =>
    \A r, c \in Roles :
      AtRest(r) /\ ~Beaten(r, c) =>
        /\ told[r][c] \in Counted(r, c)
        /\ Kind[c] = "btc" => told[r][c] = Spending(r, c)
        /\ ~RefundReverted(r, c) => \A t \in Tokens : told[r][c][t] >= Spending(r, c)[t]

(* On Ethereum an initiation counts when it is sent.  A responder has an   *)
(* update of its receipt on its way from before, which can store the       *)
(* broker's share of an initiation in flight; after a crash the daemon     *)
(* sends another and counts the share again.                               *)
CountsTwice(r, c) == r = c /\ r = "responder" /\ Kind[c] # "btc"

(* Across a crash the receipt may miss costs, but until the time lock it   *)
(* never tells of more than the transactions sent allow to be taken: what  *)
(* was stored is what a restarted daemon goes on from, and an action done  *)
(* before the crash is skipped.                                            *)
WithinLimits ==
  \A r, c \in Roles :
    wall <= TimeLock /\ ~CountsTwice(r, c) =>
      \A t \in Tokens : told[r][c][t] <= Allowed(r, c)[t]

(* A swap that a daemon reports as redeemed has paid its user the agreed   *)
(* amount, less only the miner's fee: what one daemon locks, from its      *)
(* blob, is what the other expects from the answer to it, the broker's fee *)
(* comes on top, and the least amounts of Bitcoin do not shift it.         *)
PaidAsAgreed ==
  \A r \in Roles :
    reported[r] = "Redeemed" /\ wall <= TimeLock => Received(r) = Agreed(r)

(* Two daemons with the answer of one as the blob of the other find each   *)
(* other's contracts and both are paid, across a crash.                    *)
SettlesAsAgreed ==
  [](wall <= TimeLock) =>
    ((\A r \in Roles : reported[r] # "none")
       ~> (\A r \in Roles : Received(r) = Agreed(r) /\ ~pending[r]))

-----------------------------------------------------------------------------
(* Inductive strengthenings                                                *)

MoneyType ==
  /\ granted \in [Roles -> [Roles -> [Tokens -> Int]]]
  /\ paid \in [Roles -> [Roles -> [Tokens -> Int]]]
  /\ cost \in [Roles -> [Roles -> [Tokens -> Int]]]
  /\ told \in [Roles -> [Roles -> [Tokens -> Int]]]
  /\ late \in [Roles -> BOOLEAN]

(* The contract has gone past the state that the call asks for.            *)
Overtaken(call, c) == IF call = "initiate" THEN htlc[c] # "none" ELSE Spent(c)

(* A transaction that is waited for will be accepted, or is not needed any *)
(* more.                                                                   *)
FlightInv ==
  \A r \in Roles, call \in Calls :
    pc[r] = WaitOf(call) =>
      \/ Overtaken(call, Target(r, call))
      \/ <<call, Target(r, call)>> \in pool /\ Accepts(call, Target(r, call))

(* The miners take at most what they may, on Bitcoin all of it.            *)
TakenInv ==
  \A r, c \in Roles, t \in Tokens :
    IF Kind[c] = "btc" THEN paid[r][c][t] = granted[r][c][t]
    ELSE paid[r][c][t] <= granted[r][c][t]

(* On Bitcoin the state of a contract tells what its parties have paid to  *)
(* the miners.                                                             *)
MinedFees(r, c) ==
  LET fee == SwapOf(r, c).fee
  IN  IF r = c
      THEN IF htlc[c] = "none" THEN 0 ELSE IF htlc[c] = "refunded" THEN fee + fee ELSE fee
      ELSE IF htlc[c] = "redeemed" THEN fee ELSE 0

MinedInv ==
  \A r, c \in Roles, t \in Tokens :
    Kind[c] = "btc" => granted[r][c][t] = IF t = "btc" THEN MinedFees(r, c) ELSE 0

(* A daemon that was never restarted waits for every transaction of its    *)
(* own until that is overtaken, executes nothing after the end of the      *)
(* swap, and has reported all that it has counted or is about to.          *)
FirstStart(r) ==
  /\ reported[r] # "none" => boots[r] >= MaxBoots
  /\ reported[r] = "none" => ~late[r]
  /\ reported[r] \in {"Redeemed", "Refunded"} => Quiet(r)
  /\ pc[r] = "idle" /\ ~late[r] => told[r] = cost[r]
  /\ \A call \in Calls :
       <<call, Target(r, call)>> \in pool =>
         pc[r] = WaitOf(call) \/ Overtaken(call, Target(r, call))

(* On Ethereum the cost of a contract differs from what the miners got by  *)
(* the broker's share, from the publication of an initiation to that of a  *)
(* refund.                                                                 *)
Shares(c) ==
  LET share == Native[c].brokerFee
  IN  IF pc[c] = "refund_wait" \/ htlc[c] = "refunded" THEN {0}
      ELSE IF htlc[c] = "redeemed" THEN {share} \cup IF wall > TimeLock THEN {0} ELSE {}
      ELSE IF pc[c] = "initiate_wait" \/ htlc[c] = "open" THEN {share} ELSE {0}

EtherCosts(r, c) ==
  /\ \A t \in Tokens \ {Kind[c]} : cost[r][c][t] = granted[r][c][t]
  /\ cost[r][c][Kind[c]] - granted[r][c][Kind[c]] \in IF r = c THEN Shares(c) ELSE {0}

(* On Bitcoin a call is charged when its wait ends, and a swap that ended  *)
(* with it is reported.                                                    *)
NativeCost(c) ==
  LET swap == Native[c]
  IN  (IF htlc[c] = "none" \/ pc[c] = "initiate_wait" THEN 0 ELSE swap.fee + swap.brokerFee)
      + (IF reported[c] = "Refunded" THEN swap.fee - swap.brokerFee ELSE 0)

ForeignCost(r, c) == IF reported[r] = "Redeemed" THEN SwapOf(r, c).fee ELSE 0

BitcoinCosts(r, c) ==
  /\ \A t \in Tokens \ {"btc"} : cost[r][c][t] = 0
  /\ r = c =>
       /\ cost[r][c]["btc"] = NativeCost(c)
       /\ reported[r] = "Refunded" => Spent(c)
       /\ htlc[c] = "refunded" => pc[r] = "refund_wait" \/ reported[r] = "Refunded"
  /\ r # c =>
       /\ cost[r][c]["btc"] = ForeignCost(r, c) \/ Beaten(r, c)
       /\ reported[r] = "Redeemed" => Spent(c)
       /\ htlc[c] = "redeemed" => pc[r] = "redeem_wait" \/ reported[r] = "Redeemed"

CostsOf(r, c) == IF Kind[c] = "btc" THEN BitcoinCosts(r, c) ELSE EtherCosts(r, c)

CostsInv ==
  crashes = 0 => \A r \in Roles : FirstStart(r) /\ \A c \in Roles : CostsOf(r, c)

(* Before the time lock neither the request nor the receipt knows of more  *)
(* than was spent, but for an initiation on Ethereum in flight, and what   *)
(* Bitcoin is about to charge it has not charged.                          *)
AwaitsCharge(r, c) ==
  Kind[c] = "btc" /\ pc[r] = IF r = c THEN "initiate_wait" ELSE "redeem_wait"

Ahead(r, c) == r = c /\ Kind[c] # "btc" /\ pc[r] = "initiate_wait"

ShareOf(c, t) == IF t = Kind[c] THEN Native[c].brokerFee ELSE 0

WithinAllowed(r, c) ==
  \A t \in Tokens :
    /\ told[r][c][t] <= Allowed(r, c)[t]
    /\ \/ cost[r][c][t] <= Allowed(r, c)[t]
       \/ Ahead(r, c) /\ cost[r][c][t] <= granted[r][c][t] + ShareOf(c, t)
    /\ AwaitsCharge(r, c) => cost[r][c][t] <= 0 /\ told[r][c][t] <= 0

WithinInv ==
  /\ \A r, c \in Roles, t \in Tokens : granted[r][c][t] >= 0
  /\ wall <= TimeLock =>
       /\ htlc["initiator"] = "none" => ~late["initiator"]
       /\ \A r, c \in Roles : CountsTwice(r, c) \/ WithinAllowed(r, c)
=============================================================================
