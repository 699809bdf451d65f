------------------------------- MODULE Terms --------------------------------
(***************************************************************************)
(* The arithmetic and the terms of a swap: what a POST is checked against, *)
(* the swap that is offered to the peer in the answer, the pair of swaps   *)
(* that each daemon builds from its blob, and what the bindings lock,      *)
(* audit and pay out.  Amounts are in the smallest unit of their token.    *)
(***************************************************************************)
EXTENDS Integers

Dust        == 600    \* the least output of a Bitcoin transaction
LeastBTC    == 20000  \* the least amount that may be sent in bitcoin
BitcoinCost == 10000  \* BitcoinTransactionCost
GasPrice    == 12     \* the default gas price, in gwei
NoFee       == -1     \* a blob without sendFee or receiveFee

Chain(kind) == IF kind = "btc" THEN "bitcoin" ELSE "ethereum"

Kinds == {"eth", "erc20", "btc"}

(* The blobs of POST /swaps, with addresses in Addr and decimal strings    *)
(* read; the broker's fee is in bips.                                      *)
Blobs(Addr) ==
  [ sendKind: Kinds, receiveKind: Kinds, sendAmount: Nat, receiveAmount: Nat,
    sendTo: Addr, receiveFrom: Addr, sendFee: Int, receiveFee: Int,
    brokerFee: Nat, brokerSend: Addr, brokerReceive: Addr ]

(* The swaps that the contracts are built from.                            *)
Swaps(Addr) ==
  [ kind: Kinds, value: Nat, fee: Int, brokerFee: Nat,
    spender: Addr, funder: Addr, broker: Addr ]

(* A wallet's addresses.                                                   *)
Wallets(Addr) == [{"ethereum", "bitcoin"} -> Addr]

-----------------------------------------------------------------------------
(* Fees in bips                                                            *)

BrokerFee(value, bips) == (value * bips) \div 10000

WithFees(amount, bips) == (amount * (bips + 10000)) \div 10000

(* What must be added to a value for it to be what is left when a token    *)
(* has taken its share of the sum.                                         *)
FeesFromBips(value, bips) == (value * bips) \div (10000 - bips)

DGXFee(amount) == FeesFromBips(amount, 13)

TxFee(kind, given) ==
  IF given # NoFee THEN given
  ELSE IF kind = "btc" THEN BitcoinCost ELSE GasPrice

-----------------------------------------------------------------------------
(* The checks of an account's balance.                                     *)

VerifyEthereum(balance, amount, cost) == balance - amount >= cost

(* fee is the entry for this token in the map of Ethereum's costs.         *)
VerifyERC20(ether, balance, amount, fee, cost) ==
  balance >= amount + fee /\ ether >= cost

VerifyBitcoin(balance, amount) ==
  amount >= LeastBTC /\ balance - amount >= BitcoinCost + Dust

-----------------------------------------------------------------------------
(* The swap that the initiator's daemon answers with, for the peer to      *)
(* post; address is what GetAddress says for each chain.                   *)

(* Mutant of Response: the amounts are not exchanged.                      *)
ResponseAmounts(blob, address) ==
  [ sendKind |-> blob.receiveKind,      receiveKind |-> blob.sendKind,
    sendAmount |-> blob.sendAmount,     receiveAmount |-> blob.receiveAmount,
    sendTo |-> address[Chain(blob.receiveKind)],
    receiveFrom |-> address[Chain(blob.sendKind)],
    sendFee |-> NoFee,                  receiveFee |-> NoFee,
    brokerFee |-> blob.brokerFee,
    brokerSend |-> blob.brokerReceive,  brokerReceive |-> blob.brokerSend ]

Response(blob, address) ==
  [ sendKind |-> blob.receiveKind,      receiveKind |-> blob.sendKind,
    sendAmount |-> blob.receiveAmount,  receiveAmount |-> blob.sendAmount,
    sendTo |-> address[Chain(blob.receiveKind)],
    receiveFrom |-> address[Chain(blob.sendKind)],
    sendFee |-> NoFee,                  receiveFee |-> NoFee,
    brokerFee |-> blob.brokerFee,
    brokerSend |-> blob.brokerReceive,  brokerReceive |-> blob.brokerSend ]

-----------------------------------------------------------------------------
(* The two swaps that a daemon builds from its blob.                       *)

NativeSwap(blob, address) ==
  [ kind |-> blob.sendKind,
    value |-> blob.sendAmount,
    fee |-> TxFee(blob.sendKind, blob.sendFee),
    brokerFee |-> BrokerFee(blob.sendAmount, blob.brokerFee),
    spender |-> blob.sendTo,
    funder |-> address[Chain(blob.sendKind)],
    broker |-> blob.brokerSend ]

ForeignSwap(blob, address) ==
  [ kind |-> blob.receiveKind,
    value |-> blob.receiveAmount,
    fee |-> TxFee(blob.receiveKind, blob.receiveFee),
    brokerFee |-> BrokerFee(blob.receiveAmount, blob.brokerFee),
    spender |-> address[Chain(blob.receiveKind)],
    funder |-> blob.receiveFrom,
    broker |-> blob.brokerReceive ]

(* What both daemons must agree on for one contract.                       *)
Shared(swap) ==
  <<swap.kind, swap.value, swap.brokerFee, swap.spender, swap.funder, swap.broker>>

(* A broker's fee on Bitcoin is an output of its own.                      *)
LeastBrokerFee(kind, fee) ==
  IF kind = "btc" /\ fee # 0 /\ fee < Dust THEN Dust ELSE fee

(* Mutant of Bind: the value gets the broker's fee before it is raised.    *)
BindEarly(swap) ==
  [swap EXCEPT !.value = @ + swap.brokerFee,
               !.brokerFee = LeastBrokerFee(swap.kind, @)]

(* The constructors of the bindings: the broker's fee comes on top.        *)
Bind(swap) ==
  LET fee == LeastBrokerFee(swap.kind, swap.brokerFee)
  IN  [swap EXCEPT !.brokerFee = fee, !.value = @ + fee]

-----------------------------------------------------------------------------
(* What the bindings do with a bound swap.                                 *)

(* Initiate: a script holds a sum, an entry of the Swapper contract sets   *)
(* the broker's fee apart.                                                 *)
Locks(swap) ==
  [ value |-> IF swap.kind = "btc" THEN swap.value ELSE swap.value - swap.brokerFee,
    brokerFee |-> IF swap.kind = "btc" THEN 0 ELSE swap.brokerFee,
    spender |-> swap.spender ]

(* A script counts as funded when it holds the value with the broker's fee.*)
AuditPasses(swap, locked) ==
  /\ swap.kind = "btc" => locked.value >= swap.value
  /\ locked.value >= swap.value - swap.brokerFee
  /\ locked.spender = swap.spender

(* Redeem on Bitcoin pays the broker and the miner from the script, and    *)
(* does nothing if less than dust would be left.                           *)
Payout(swap, locked) ==
  IF swap.kind = "btc" THEN locked.value - swap.brokerFee - swap.fee ELSE locked.value

RedeemPays(swap, locked) == swap.kind = "btc" => Payout(swap, locked) >= Dust

PaysBroker(swap, locked) ==
  IF swap.kind = "btc" THEN swap.brokerFee ELSE locked.brokerFee
=============================================================================
