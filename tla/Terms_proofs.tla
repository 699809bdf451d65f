---------------------------- MODULE Terms_proofs ----------------------------
(***************************************************************************)
(* What the arithmetic and the terms of a swap guarantee for every amount, *)
(* fee and address.                                                        *)
(***************************************************************************)
EXTENDS Terms, TLAPS

-----------------------------------------------------------------------------
LEMMA FeeIsNat ==
  ASSUME NEW value \in Nat, NEW bips \in Nat
  PROVE  BrokerFee(value, bips) \in Nat
<1>1. value * bips \in Nat
  OBVIOUS
<1>2. \A n \in Nat : n \div 10000 \in Nat
  OBVIOUS
<1> QED BY <1>1, <1>2 DEF BrokerFee

(* The sum that a POST is checked against is the amount and the broker's   *)
(* fee: the handler scales (withFees), the builder of the contract adds    *)
(* (buildNativeSwap), and no rounding separates them.                      *)
THEOREM WithFeesIsSum ==
  ASSUME NEW value \in Nat, NEW bips \in Nat
  PROVE  WithFees(value, bips) = value + BrokerFee(value, bips)
<1>1. value * (bips + 10000) = value * bips + value * 10000
  OBVIOUS
<1>2. value * bips \in Nat
  OBVIOUS
<1>3. \A n, m \in Nat : (n + m * 10000) \div 10000 = m + (n \div 10000)
  OBVIOUS
<1> QED BY <1>1, <1>2, <1>3 DEF WithFees, BrokerFee

LEMMA LeastIsNat ==
  ASSUME NEW kind, NEW fee \in Nat
  PROVE  LeastBrokerFee(kind, fee) \in Nat /\ LeastBrokerFee(kind, fee) <= fee + Dust
BY DEF LeastBrokerFee, Dust

LEMMA BindFields ==
  ASSUME NEW Addr, NEW swap \in Swaps(Addr)
  PROVE  /\ Bind(swap).kind = swap.kind /\ Bind(swap).fee = swap.fee
         /\ Bind(swap).spender = swap.spender
         /\ Bind(swap).brokerFee = LeastBrokerFee(swap.kind, swap.brokerFee)
         /\ Bind(swap).value = swap.value + LeastBrokerFee(swap.kind, swap.brokerFee)
BY DEF Bind, Swaps

LEMMA NativeType ==
  ASSUME NEW Addr, NEW blob \in Blobs(Addr), NEW A \in Wallets(Addr)
  PROVE  NativeSwap(blob, A) \in Swaps(Addr)
<1>1. BrokerFee(blob.sendAmount, blob.brokerFee) \in Nat
  BY FeeIsNat DEF Blobs
<1>2. TxFee(blob.sendKind, blob.sendFee) \in Int
  BY DEF TxFee, Blobs, BitcoinCost, GasPrice
<1>3. A[Chain(blob.sendKind)] \in Addr
  BY DEF Chain, Wallets
<1> QED BY <1>1, <1>2, <1>3 DEF NativeSwap, Swaps, Blobs

LEMMA ForeignType ==
  ASSUME NEW Addr, NEW blob \in Blobs(Addr), NEW A \in Wallets(Addr)
  PROVE  ForeignSwap(blob, A) \in Swaps(Addr)
<1>1. BrokerFee(blob.receiveAmount, blob.brokerFee) \in Nat
  BY FeeIsNat DEF Blobs
<1>2. TxFee(blob.receiveKind, blob.receiveFee) \in Int
  BY DEF TxFee, Blobs, BitcoinCost, GasPrice
<1>3. A[Chain(blob.receiveKind)] \in Addr
  BY DEF Chain, Wallets
<1> QED BY <1>1, <1>2, <1>3 DEF ForeignSwap, Swaps, Blobs

LEMMA ResponseType ==
  ASSUME NEW Addr, NEW blob \in Blobs(Addr), NEW A \in Wallets(Addr)
  PROVE  Response(blob, A) \in Blobs(Addr)
<1>1. A[Chain(blob.sendKind)] \in Addr /\ A[Chain(blob.receiveKind)] \in Addr
  BY DEF Chain, Wallets
<1> QED BY <1>1 DEF Response, Blobs, NoFee

(* A balance that passes verifyBitcoinBalance covers what Initiate sends to *)
(* the script and the transaction's fee, although the broker's fee is      *)
(* raised to the dust limit after the check: the 600 satoshis that the     *)
(* check asks for on top are enough for the raise.                         *)
THEOREM BalanceCoversInitiate ==
  ASSUME NEW Addr, NEW blob \in Blobs(Addr), NEW A \in Wallets(Addr),
         NEW balance \in Nat, blob.sendKind = "btc",
         VerifyBitcoin(balance, WithFees(blob.sendAmount, blob.brokerFee))
  PROVE  balance >= Bind(NativeSwap(blob, A)).value + BitcoinCost
<1> DEFINE swap == NativeSwap(blob, A)
           share == BrokerFee(blob.sendAmount, blob.brokerFee)
<1>1. /\ swap \in Swaps(Addr) /\ swap.kind = "btc"
      /\ swap.value = blob.sendAmount /\ swap.brokerFee = share
  BY NativeType DEF NativeSwap
<1>2. blob.sendAmount \in Nat /\ blob.brokerFee \in Nat
  BY DEF Blobs
<1>3. share \in Nat
  BY <1>2, FeeIsNat
<1>4. balance - (blob.sendAmount + share) >= BitcoinCost + Dust
  BY <1>2, WithFeesIsSum DEF VerifyBitcoin
<1>5. Bind(swap).value = blob.sendAmount + LeastBrokerFee("btc", share)
  BY <1>1, BindFields
<1>6. LeastBrokerFee("btc", share) \in Nat /\ LeastBrokerFee("btc", share) <= share + Dust
  BY <1>3, LeastIsNat
<1> HIDE DEF swap, share
<1>7. balance >= Bind(swap).value + BitcoinCost
  BY <1>2, <1>3, <1>4, <1>5, <1>6 DEF BitcoinCost, Dust
<1> QED BY <1>7 DEF swap

-----------------------------------------------------------------------------
(* The blob that the initiator's daemon answers with makes the responder's *)
(* daemon see the same two contracts from the other side: each one's       *)
(* native swap is the other one's foreign swap, if the offer names the     *)
(* responder's addresses.                                                  *)
THEOREM Complementary ==
  ASSUME NEW Addr, NEW offer \in Blobs(Addr),
         NEW A \in Wallets(Addr), NEW B \in Wallets(Addr),
         offer.sendTo = B[Chain(offer.sendKind)],
         offer.receiveFrom = B[Chain(offer.receiveKind)]
  PROVE  /\ Shared(NativeSwap(offer, A)) = Shared(ForeignSwap(Response(offer, A), B))
         /\ Shared(NativeSwap(Response(offer, A), B)) = Shared(ForeignSwap(offer, A))
BY DEF Shared, NativeSwap, ForeignSwap, Response

(* Two daemons that agree on a contract, whatever miners' fees they have   *)
(* chosen: what one locks passes the audit of the other, and the redeemer  *)
(* gets the agreed value, on Bitcoin less the miner's fee, and the broker  *)
(* its share.                                                              *)
LEMMA AgreedIsPaid ==
  ASSUME NEW Addr, NEW his \in Swaps(Addr), NEW mine \in Swaps(Addr),
         Shared(his) = Shared(mine)
  PROVE  /\ AuditPasses(Bind(mine), Locks(Bind(his)))
         /\ Payout(Bind(mine), Locks(Bind(his))) =
              mine.value - (IF mine.kind = "btc" THEN mine.fee ELSE 0)
         /\ PaysBroker(Bind(mine), Locks(Bind(his))) =
              LeastBrokerFee(mine.kind, mine.brokerFee)
<1>1. /\ his.kind = mine.kind /\ his.value = mine.value
      /\ his.brokerFee = mine.brokerFee /\ his.spender = mine.spender
  BY DEF Shared
<1>2. /\ mine.value \in Nat /\ mine.fee \in Int
      /\ LeastBrokerFee(mine.kind, mine.brokerFee) \in Nat
  BY LeastIsNat DEF Swaps
<1>3. /\ Bind(his).kind = mine.kind /\ Bind(his).spender = mine.spender
      /\ Bind(his).brokerFee = LeastBrokerFee(mine.kind, mine.brokerFee)
      /\ Bind(his).value = mine.value + LeastBrokerFee(mine.kind, mine.brokerFee)
  BY <1>1, BindFields
<1>4. /\ Bind(mine).kind = mine.kind /\ Bind(mine).spender = mine.spender
      /\ Bind(mine).fee = mine.fee
      /\ Bind(mine).brokerFee = LeastBrokerFee(mine.kind, mine.brokerFee)
      /\ Bind(mine).value = mine.value + LeastBrokerFee(mine.kind, mine.brokerFee)
  BY BindFields
<1> QED BY <1>2, <1>3, <1>4 DEF AuditPasses, Locks, Payout, PaysBroker

(* Whatever is offered, each daemon finds the other's contract in order    *)
(* and its user gets the amount of the blob from it, less the miner's fee  *)
(* on Bitcoin: neither the rounding of the broker's fee nor the dust limit *)
(* makes the two sides differ.                                             *)
THEOREM HonestTerms ==
  ASSUME NEW Addr, NEW offer \in Blobs(Addr),
         NEW A \in Wallets(Addr), NEW B \in Wallets(Addr),
         offer.sendTo = B[Chain(offer.sendKind)],
         offer.receiveFrom = B[Chain(offer.receiveKind)]
  PROVE  LET answer == Response(offer, A)
             mineA == ForeignSwap(offer, A)    hisA == NativeSwap(answer, B)
             mineB == ForeignSwap(answer, B)   hisB == NativeSwap(offer, A)
         IN  /\ AuditPasses(Bind(mineA), Locks(Bind(hisA)))
             /\ AuditPasses(Bind(mineB), Locks(Bind(hisB)))
             /\ Payout(Bind(mineA), Locks(Bind(hisA))) =
                  offer.receiveAmount - (IF offer.receiveKind = "btc" THEN mineA.fee ELSE 0)
             /\ Payout(Bind(mineB), Locks(Bind(hisB))) =
                  offer.sendAmount - (IF offer.sendKind = "btc" THEN mineB.fee ELSE 0)
<1> DEFINE answer == Response(offer, A)
           mineA == ForeignSwap(offer, A)
           hisA == NativeSwap(answer, B)
           mineB == ForeignSwap(answer, B)
           hisB == NativeSwap(offer, A)
<1>1. answer \in Blobs(Addr)
  BY ResponseType
<1>2. mineA \in Swaps(Addr) /\ mineB \in Swaps(Addr)
  BY <1>1, ForeignType
<1>3. hisA \in Swaps(Addr) /\ hisB \in Swaps(Addr)
  BY <1>1, NativeType
<1>4. Shared(hisA) = Shared(mineA) /\ Shared(hisB) = Shared(mineB)
  BY Complementary
<1>5. /\ mineA.value = offer.receiveAmount /\ mineA.kind = offer.receiveKind
      /\ mineB.value = offer.sendAmount /\ mineB.kind = offer.sendKind
  BY DEF ForeignSwap, Response
<1> HIDE DEF mineA, mineB, hisA, hisB
<1>6. /\ AuditPasses(Bind(mineA), Locks(Bind(hisA)))
      /\ AuditPasses(Bind(mineB), Locks(Bind(hisB)))
      /\ Payout(Bind(mineA), Locks(Bind(hisA))) =
           mineA.value - (IF mineA.kind = "btc" THEN mineA.fee ELSE 0)
      /\ Payout(Bind(mineB), Locks(Bind(hisB))) =
           mineB.value - (IF mineB.kind = "btc" THEN mineB.fee ELSE 0)
  BY <1>2, <1>3, <1>4, AgreedIsPaid
<1> QED BY <1>5, <1>6 DEF mineA, mineB, hisA, hisB

(* With the default fee, no redemption on Bitcoin is skipped for dust: an  *)
(* amount that the handler accepted leaves enough after the miner's fee,   *)
(* for every broker's fee up to a half of the amount.                      *)
THEOREM AcceptedIsRedeemable ==
  ASSUME NEW value \in Nat, NEW bips \in 0..5000, NEW balance \in Nat,
         VerifyBitcoin(balance, WithFees(value, bips))
  PROVE  value - BitcoinCost >= Dust
<1>1. value * bips \in Nat /\ value * bips <= value * 5000
  OBVIOUS
<1> bips \in Nat
  OBVIOUS
<1>2. value + BrokerFee(value, bips) >= 20000
  BY WithFeesIsSum DEF VerifyBitcoin, LeastBTC
<1>3. 2 * BrokerFee(value, bips) <= value
  <2>1. \A n \in Nat : n <= value * 5000 => 2 * (n \div 10000) <= value
    OBVIOUS
  <2> DEFINE product == value * bips
  <2>2. product \in Nat /\ product <= value * 5000
    BY <1>1
  <2>3. 2 * (product \div 10000) <= value
    <3> HIDE DEF product
    <3> QED BY <2>1, <2>2
  <2> QED BY <2>3 DEF BrokerFee
<1>4. BrokerFee(value, bips) \in Nat
  BY FeeIsNat
<1> QED BY <1>2, <1>3, <1>4 DEF BitcoinCost, Dust

(* The tokens that sendValue adds for the DGX contract's own fee are       *)
(* exactly what a fee of 13 bips takes from the sum: the swap contract     *)
(* receives the value.                                                     *)
THEOREM DGXFeeExact ==
  ASSUME NEW value \in Nat
  PROVE  ((value + DGXFee(value)) * 13) \div 10000 = DGXFee(value)
<1>1. DGXFee(value) \in Nat
  BY DEF DGXFee, FeesFromBips
<1>2. /\ 9987 * DGXFee(value) <= 13 * value
      /\ 13 * value < 9987 * DGXFee(value) + 9987
  BY DEF DGXFee, FeesFromBips
<1>3. (value + DGXFee(value)) * 13 = 13 * value + 13 * DGXFee(value)
  BY <1>1
<1>4. /\ 10000 * DGXFee(value) <= (value + DGXFee(value)) * 13
      /\ (value + DGXFee(value)) * 13 < 10000 * DGXFee(value) + 10000
  BY <1>1, <1>2, <1>3
<1>5. (value + DGXFee(value)) * 13 \in Nat
  BY <1>1
<1>6. \A n, d \in Nat : 10000 * d <= n /\ n < 10000 * d + 10000 => n \div 10000 = d
  OBVIOUS
<1> DEFINE sum == (value + DGXFee(value)) * 13
           fee == DGXFee(value)
<1>7. /\ sum \in Nat /\ fee \in Nat
      /\ 10000 * fee <= sum /\ sum < 10000 * fee + 10000
  BY <1>1, <1>4, <1>5
<1>8. sum \div 10000 = fee
  <2> HIDE DEF sum, fee
  <2> QED BY <1>6, <1>7
<1> QED BY <1>8
=============================================================================
