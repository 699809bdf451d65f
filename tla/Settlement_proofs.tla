------------------------- MODULE Settlement_proofs -------------------------
(***************************************************************************)
(* Proofs about Settlement, for every offer, every pair of tokens and      *)
(* every amount, fee and address: that it is a swap, what it pays, and     *)
(* that the receipts count what it costs.                                  *)
(***************************************************************************)
EXTENDS Settlement, AtomicSwap_proofs, Terms_proofs

(* What is received on Bitcoin is worth its redemption: an offer that is   *)
(* accepted with the default fee is (AcceptedIsRedeemable).                *)
Worthwhile ==
  \A r \in Roles :
    Blob(r).receiveKind = "btc" => Blob(r).receiveAmount - Foreign[r].fee >= Dust

-----------------------------------------------------------------------------
(* The terms that the two daemons derive from the offer agree.             *)

LEMMA TermsAgree ==
  ASSUME NEW r \in Roles
  PROVE  /\ AuditPasses(Foreign[r], Held[Peer(r)])
         /\ Payout(Foreign[r], Held[Peer(r)]) = Agreed(r)
<1> DEFINE A == Address["initiator"]
           B == Address["responder"]
           answer == Response(Offer, A)
<1>1. /\ Offer \in Blobs(Addr) /\ A \in Wallets(Addr) /\ B \in Wallets(Addr)
      /\ Offer.sendTo = B[Chain(Offer.sendKind)]
      /\ Offer.receiveFrom = B[Chain(Offer.receiveKind)]
  BY OfferAssumption DEF Roles
<1>2. answer \in Blobs(Addr)
  BY <1>1, ResponseType
<1>3. /\ Held["initiator"] = Locks(Bind(NativeSwap(Offer, A)))
      /\ Held["responder"] = Locks(Bind(NativeSwap(answer, B)))
      /\ Foreign["initiator"] = Bind(ForeignSwap(Offer, A))
      /\ Foreign["responder"] = Bind(ForeignSwap(answer, B))
  BY DEF Held, Native, Foreign, Blob, Roles
<1>4. /\ Bind(ForeignSwap(Offer, A)).fee = ForeignSwap(Offer, A).fee
      /\ Bind(ForeignSwap(answer, B)).fee = ForeignSwap(answer, B).fee
  BY <1>1, <1>2, ForeignType, BindFields
<1>5. CASE r = "initiator"
  <2>1. Peer(r) = "responder" /\ Blob(r) = Offer
    BY <1>5 DEF Peer, Blob
  <2> QED BY <1>1, <1>3, <1>4, <1>5, <2>1, HonestTerms DEF Agreed
<1>6. CASE r = "responder"
  <2>1. Peer(r) = "initiator" /\ Blob(r) = answer
    BY <1>6 DEF Peer, Blob
  <2>2. answer.receiveKind = Offer.sendKind /\ answer.receiveAmount = Offer.sendAmount
    BY DEF Response
  <2> QED BY <1>1, <1>3, <1>4, <1>6, <2>1, <2>2, HonestTerms DEF Agreed
<1> QED BY <1>5, <1>6 DEF Roles

LEMMA Pays ==
  ASSUME Worthwhile, NEW r \in Roles
  PROVE  RedeemPays(Foreign[r], Held[Peer(r)])
<1>1. Blob(r) \in Blobs(Addr) /\ Address[r] \in Wallets(Addr)
  BY OfferAssumption, ResponseType DEF Blob, Roles
<1>2. Foreign[r].kind = Blob(r).receiveKind
  BY <1>1, ForeignType, BindFields DEF Foreign, ForeignSwap
<1> QED BY <1>2, TermsAgree DEF Worthwhile, RedeemPays, Agreed

-----------------------------------------------------------------------------
(* A settlement is a swap                                                  *)

LEMMA StepIsSwap ==
  ASSUME Worthwhile, [SettleNext]_allVars
  PROVE  [Next]_vars
<1>1. CASE SettleClock
  BY <1>1 DEF SettleClock, Next, ChainNext
<1>2. ASSUME NEW c \in Roles, NEW call \in Calls, SettleMine(call, c)
      PROVE  Next
  BY <1>2 DEF SettleMine, Next, ChainNext
<1>3. ASSUME NEW r \in Roles,
             SettlePost(r) \/ SettleBootload(r) \/ SettleCrash(r) \/ SettleDelete(r)
      PROVE  Next
  BY <1>3 DEF SettlePost, SettleBootload, SettleCrash, SettleDelete, Next
<1>4. ASSUME NEW r \in Roles, SettleAudit(r)
      PROVE  Next
  <2>1. TermsAudit(r) = AuditReplies(Peer(r))
    BY TermsAgree DEF TermsAudit
  <2>2. Audit(r) \/ AuditSecret(r)
    BY <1>4, <2>1 DEF SettleAudit, Audit
  <2> QED BY <2>2 DEF Next, Work
<1>5. ASSUME NEW r \in Roles, NEW call \in Calls, SettleSend(r, call)
      PROVE  Next
  <2>1. TermsReplies(r, call) = Replies(call, Target(r, call))
    BY Pays DEF TermsReplies
  <2>2. Send(r, call)
    BY <1>5, <2>1 DEF SettleSend, Send
  <2> QED BY <2>2 DEF Next, Work
<1>6. ASSUME NEW r \in Roles, NEW call \in Calls, SettleAwait(r, call)
      PROVE  Next
  BY <1>6 DEF SettleAwait, Next, Work
<1>7. ASSUME NEW r \in Roles, HandleRequest(r) \/ HandleTick(r)
      PROVE  Next
  BY <1>7 DEF Next, Work
<1>8. ASSUME NEW r \in Roles, StoreReceipt(r)
      PROVE  UNCHANGED vars
  BY <1>8 DEF StoreReceipt
<1> QED
  BY <1>1, <1>2, <1>3, <1>4, <1>5, <1>6, <1>7, <1>8 DEF SettleNext, SettleWork, allVars

(* The amounts, fees and audits of two honest daemons change nothing of    *)
(* how the swap proceeds: what is proved of AtomicSwap holds for the       *)
(* settlement too, that it is an Exchange in particular.                   *)
THEOREM IsSwap ==
  ASSUME Worthwhile
  PROVE  SettleSpec => Spec
<1>1. SettleInit => Init
  BY DEF SettleInit
<1> QED BY <1>1, StepIsSwap, PTL DEF SettleSpec, Spec

(* Who is told that the swap is redeemed has got the agreed amount, to the *)
(* last satoshi, whatever the amounts, the broker's fee and the kinds of   *)
(* token are: rounding and dust limit cancel out.                          *)
THEOREM PaysAsAgreed ==
  ASSUME Worthwhile, ReliableNodes
  PROVE  SettleSpec => []PaidAsAgreed
<1>1. RedeemRetried => PaidAsAgreed
  BY TermsAgree DEF RedeemRetried, PaidAsAgreed, Received
<1> QED BY <1>1, IsSwap, ReportsTrulyRedeemed, PTL

(* The nodes answer and no wait is given up for lack of time.              *)
NodesAnswer == Faults = {}

-----------------------------------------------------------------------------
(* Fees and the arithmetic of the books                                    *)

LEMMA TermsBound ==
  ASSUME NEW r \in Roles, NEW c \in Roles
  PROVE  /\ SwapOf(r, c).fee \in Int /\ SwapOf(r, c).brokerFee \in Nat
         /\ Native[c].brokerFee \in Nat
<1>1. /\ \A s \in Roles : Blob(s) \in Blobs(Addr) /\ Address[s] \in Wallets(Addr)
  BY OfferAssumption, ResponseType DEF Blob, Roles
<1>2. ASSUME NEW swap \in Swaps(Addr)
      PROVE  Bind(swap).fee \in Int /\ Bind(swap).brokerFee \in Nat
  BY <1>2, BindFields, LeastIsNat DEF Swaps
<1>3. \A s \in Roles :
        /\ Native[s].fee \in Int /\ Native[s].brokerFee \in Nat
        /\ Foreign[s].fee \in Int /\ Foreign[s].brokerFee \in Nat
  BY <1>1, <1>2, NativeType, ForeignType DEF Native, Foreign
<1> QED BY <1>3 DEF SwapOf

LEMMA FeesBound ==
  ASSUME NEW r \in Roles, NEW c \in Roles, NEW call \in Calls
  PROVE  MinersFee(r, call, c) \in Int /\ BrokerShare(r, call, c) \in Int
<1>1. /\ SwapOf(r, c).fee \in Int /\ SwapOf(r, c).brokerFee \in Nat
  BY TermsBound
<1>2. GasLimit \in Nat
  BY GasAssumption
<1>3. SwapOf(r, c).fee * GasLimit \in Int
  BY <1>1, <1>2
<1>4. MinersFee(r, call, c) \in Int
  BY <1>1, <1>3 DEF MinersFee
<1> QED BY <1>1, <1>4 DEF BrokerShare

LEMMA TokensOf ==
  ASSUME NEW c \in Roles
  PROVE  /\ Kind[c] \in Tokens /\ FeeToken(c) \in Tokens
         /\ Kind[c] = "btc" => FeeToken(c) = "btc"
         /\ Kind[c] # "btc" => Kind[c] \in {"eth", "erc20"} /\ FeeToken(c) = "eth"
BY KindAssumption DEF Tokens, FeeToken

(* The fees that the initiator's user may choose are not negative.         *)
FeesAreNat == Offer.sendFee \in Nat \cup {NoFee} /\ Offer.receiveFee \in Nat \cup {NoFee}

(* Neither are those that a daemon derives.                                *)
LEMMA FeesNotNegative ==
  ASSUME FeesAreNat, NEW r \in Roles, NEW c \in Roles
  PROVE  SwapOf(r, c).fee \in Nat
<1>1. \A s \in Roles : Blob(s) \in Blobs(Addr) /\ Address[s] \in Wallets(Addr)
  BY OfferAssumption, ResponseType DEF Blob, Roles
<1>2. \A s \in Roles : Blob(s).sendFee \in Nat \cup {NoFee} /\ Blob(s).receiveFee \in Nat \cup {NoFee}
  BY DEF FeesAreNat, Blob, Response
<1>3. \A kind, given : given \in Nat \cup {NoFee} => TxFee(kind, given) \in Nat
  BY DEF TxFee, BitcoinCost, GasPrice
<1>4. \A s \in Roles : Native[s].fee \in Nat /\ Foreign[s].fee \in Nat
  <2>1. ASSUME NEW s \in Roles
        PROVE  /\ Native[s].fee = NativeSwap(Blob(s), Address[s]).fee
               /\ Foreign[s].fee = ForeignSwap(Blob(s), Address[s]).fee
    BY <1>1, NativeType, ForeignType, BindFields DEF Native, Foreign
  <2> QED BY <1>2, <1>3, <2>1 DEF NativeSwap, ForeignSwap
<1> QED BY <1>4 DEF SwapOf

LEMMA EntriesNotNegative ==
  ASSUME FeesAreNat, NEW r \in Roles, NEW c \in Roles, NEW call \in Calls, NEW t \in Tokens
  PROVE  MinersEntry(r, call, c, t) \in Nat /\ BrokersEntry(r, call, c, t) \in Int
         /\ ShareOf(c, t) \in Nat
<1>1. SwapOf(r, c).fee \in Nat /\ GasLimit \in Nat
  BY FeesNotNegative, GasAssumption
<1>2. SwapOf(r, c).fee * GasLimit \in Nat
  BY <1>1
<1>3. MinersFee(r, call, c) \in Nat
  BY <1>1, <1>2 DEF MinersFee
<1> QED BY <1>3, FeesBound, TermsBound DEF MinersEntry, BrokersEntry, ShareOf

(* What a miner takes of a transaction, and what he may take at most.      *)
LEMMA TakesWithin ==
  ASSUME NEW r \in Roles, NEW c \in Roles, NEW call \in Calls, NEW fee \in MinersTake(r, call, c)
  PROVE  /\ fee \in Int
         /\ Kind[c] = "btc" => fee = MinersFee(r, call, c)
         /\ FeesAreNat => fee <= MinersFee(r, call, c)
<1> DEFINE price == SwapOf(r, c).fee
           times == IF IsPair(call, c) THEN 2 ELSE 1
<1>1. price \in Int /\ (FeesAreNat => price \in Nat) /\ GasLimit \in Nat
  BY TermsBound, FeesNotNegative, GasAssumption
<1>2. MinersFee(r, call, c) = IF Kind[c] = "btc" THEN price ELSE price * GasLimit * times
  BY DEF MinersFee
<1>3. CASE Kind[c] = "btc"
  BY <1>1, <1>2, <1>3 DEF MinersTake
<1>4. CASE Kind[c] # "btc"
  <2>1. PICK g \in Gas(call, c) : fee = price * g
    BY <1>4 DEF MinersTake
  <2>2. \A h \in GasUsed : h \in Nat /\ h <= GasLimit
    BY <1>1, GasAssumption
  <2>3. g \in Nat /\ (IsPair(call, c) => g <= 2 * GasLimit) /\ (~IsPair(call, c) => g <= GasLimit)
    BY <1>1, <2>2 DEF Gas
  <2> HIDE DEF price
  <2>4. /\ price * g \in Int
        /\ IsPair(call, c) => price * GasLimit * times = price * (2 * GasLimit)
        /\ ~IsPair(call, c) => price * GasLimit * times = price * GasLimit
    BY <1>1, <2>3
  <2>5. ASSUME NEW x \in Nat, NEW y \in Nat, NEW z \in Nat, y <= z
        PROVE  x * y <= x * z
    <3>1. PICK d \in Nat : z = y + d
      <4>1. z - y \in Nat /\ z = y + (z - y)
        BY <2>5
      <4> QED BY <4>1
    <3>2. x * z = x * y + x * d /\ x * d \in Nat /\ x * y \in Nat
      BY <3>1
    <3> QED BY <3>2
  <2>6. FeesAreNat => price * g <= price * GasLimit * times
    <3>1. CASE IsPair(call, c)
      <4>1. 2 * GasLimit \in Nat
        BY <1>1
      <4> QED BY <1>1, <2>3, <2>4, <2>5, <3>1, <4>1
    <3>2. CASE ~IsPair(call, c)
      BY <1>1, <2>3, <2>4, <2>5, <3>2
    <3> QED BY <3>1, <3>2
  <2> QED BY <1>2, <1>4, <2>1, <2>4, <2>6
<1> QED BY <1>3, <1>4

(* What is taken is paid, in the books of the payer only.                  *)
LEMMA PayAdds ==
  ASSUME MoneyType, NEW r \in Roles, NEW c \in Roles, NEW call \in Calls, PayMiner(r, call, c)
  PROVE  /\ paid' \in [Roles -> [Roles -> [Tokens -> Int]]]
         /\ \A x, y \in Roles : x # r \/ y # c => paid'[x][y] = paid[x][y]
         /\ \E fee \in MinersTake(r, call, c) : \A t \in Tokens :
              paid'[r][c][t] = paid[r][c][t] + IF t = FeeToken(c) THEN fee ELSE 0
<1>1. PICK fee \in MinersTake(r, call, c) :
        paid' = [paid EXCEPT ![r][c] = [t \in Tokens |-> @[t] + IF t = FeeToken(c) THEN fee ELSE 0]]
  BY DEF PayMiner
<1>2. fee \in Int
  BY TakesWithin
<1> QED BY <1>1, <1>2 DEF MoneyType

(* A payment adds the miner's entry, in the books of the payer only.       *)
LEMMA GrantAdds ==
  ASSUME MoneyType, NEW r \in Roles, NEW c \in Roles, NEW call \in Calls, Grant(r, call, c)
  PROVE  /\ granted' \in [Roles -> [Roles -> [Tokens -> Int]]]
         /\ \A x, y \in Roles : x # r \/ y # c => granted'[x][y] = granted[x][y]
         /\ \A t \in Tokens : granted'[r][c][t] = granted[r][c][t] + MinersEntry(r, call, c, t)
<1>1. MinersFee(r, call, c) \in Int /\ FeeToken(c) \in Tokens
  BY FeesBound, TokensOf
<1>2. \A t \in Tokens : MinersEntry(r, call, c, t) \in Int
  BY <1>1 DEF MinersEntry
<1> QED BY <1>2 DEF Grant, MoneyType

(* A charge adds both entries.                                             *)
LEMMA ChargeAdds ==
  ASSUME MoneyType, NEW r \in Roles, NEW c \in Roles, NEW call \in Calls, Charge(r, call, c)
  PROVE  /\ cost' \in [Roles -> [Roles -> [Tokens -> Int]]]
         /\ \A x, y \in Roles : x # r \/ y # c => cost'[x][y] = cost[x][y]
         /\ \A t \in Tokens :
              cost'[r][c][t] = cost[r][c][t] + MinersEntry(r, call, c, t) + BrokersEntry(r, call, c, t)
<1>1. /\ MinersFee(r, call, c) \in Int /\ BrokerShare(r, call, c) \in Int
      /\ FeeToken(c) \in Tokens /\ Kind[c] \in Tokens
  BY FeesBound, TokensOf
<1>2. \A t \in Tokens : MinersEntry(r, call, c, t) \in Int /\ BrokersEntry(r, call, c, t) \in Int
  BY <1>1 DEF MinersEntry, BrokersEntry
<1> QED BY <1>2 DEF Charge, MoneyType

-----------------------------------------------------------------------------
(* What a step of a daemon moves                                           *)

(* A step of r's daemon: the other one, its books and the chains stand.    *)
OnlyMoves(r) ==
  /\ UNCHANGED <<wall, blockTime, htlc>>
  /\ \A s \in Roles : s # r =>
       /\ pc'[s] = pc[s] /\ queued'[s] = queued[s] /\ swapMap'[s] = swapMap[s]
       /\ reported'[s] = reported[s] /\ boots'[s] = boots[s] /\ late'[s] = late[s]
       /\ granted'[s] = granted[s] /\ cost'[s] = cost[s] /\ told'[s] = told[s]

KeepsBooks(r) == granted' = granted /\ cost' = cost /\ told' = told

LEMMA WaitsDiffer ==
  ASSUME NEW a \in Calls, NEW b \in Calls
  PROVE  /\ WaitOf(a) = WaitOf(b) => a = b
         /\ WaitOf(a) \in Waits /\ WaitOf(a) \notin Calls
         /\ WaitOf(a) \notin {"idle", "audit", "auditSecret"}
BY DEF WaitOf, Calls, Waits

LEMMA TargetsDiffer ==
  ASSUME NEW r \in Roles, NEW s \in Roles, NEW call \in Calls, r # s
  PROVE  Target(r, call) # Target(s, call) /\ Target(r, call) \in Roles
BY DEF Target, Peer, Roles

(* If the nodes answer, a call that writes has one answer, by what the     *)
(* contract accepts.                                                       *)
LEMMA CallReplies ==
  ASSUME NodesAnswer, NEW call \in Calls, NEW c \in Roles
  PROVE  Replies(call, c) =
           {IF Accepts(call, c) THEN "send"
            ELSE IF Kind[c] = "btc" /\ call = "refund" THEN "error" ELSE "skip"}
<1>1. OnRpcFault({"skip"}) = {} /\ \A R : OnRpcFault(R) = {}
  BY DEF NodesAnswer, OnRpcFault
<1>2. CASE call = "initiate"
  BY <1>1, <1>2 DEF Replies, InitiateReplies, ByKind, EthInitiate, Erc20Initiate,
    BtcInitiate, Accepts
<1>3. CASE call = "redeem"
  BY <1>1, <1>3 DEF Replies, RedeemReplies, ByKind, EthRedeem, Erc20Redeem, BtcRedeem, Accepts
<1>4. CASE call = "refund"
  BY <1>1, <1>4 DEF Replies, RefundReplies, ByKind, EthRefund, Erc20Refund, BtcRefund, Accepts
<1> QED BY <1>2, <1>3, <1>4 DEF Calls

(* What handleResult and the way on from a call do to the daemon.          *)
LEMMA SucceedMoves ==
  ASSUME TypeOK, NEW r \in Roles, NEW call \in Calls, Succeed(r, call)
  PROVE  /\ call = "initiate" => pc'[r] \in {"audit", "auditSecret"} /\ reported'[r] = reported[r]
         /\ call = "redeem" => pc'[r] = "idle" /\ reported'[r] = "Redeemed" /\ deleting'[r]
         /\ call = "refund" => pc'[r] = "idle" /\ reported'[r] = "Refunded" /\ deleting'[r]
         /\ queued' = queued /\ boots' = boots /\ crashes' = crashes
         /\ \A s \in Roles : s # r =>
              pc'[s] = pc[s] /\ swapMap'[s] = swapMap[s] /\ reported'[s] = reported[s]
BY DEF Succeed, Goto, Finish, TypeOK, DaemonTypeOK

LEMMA FailMoves ==
  ASSUME TypeOK, NEW r \in Roles, NEW call \in Calls, Fail(r, call)
  PROVE  /\ pc'[r] = "idle" /\ reported'[r] \notin {"none", "Redeemed", "Refunded"}
         /\ queued' = queued /\ boots' = boots /\ crashes' = crashes
         /\ \A s \in Roles : s # r =>
              pc'[s] = pc[s] /\ swapMap'[s] = swapMap[s] /\ reported'[s] = reported[s]
BY DEF Fail, Finish, TypeOK, DaemonTypeOK

LEMMA AuditMoves ==
  ASSUME TypeOK, MoneyType, NEW r \in Roles, SettleAudit(r)
  PROVE  /\ OnlyMoves(r) /\ KeepsBooks(r) /\ pool' = pool
         /\ pc[r] \in {"audit", "auditSecret"} /\ pc'[r] \notin Waits
         /\ reported'[r] = reported[r] \/ reported'[r] \notin {"none", "Redeemed", "Refunded"}
         /\ late'[r] = (late[r] \/ pc'[r] = "idle")
         /\ boots' = boots /\ crashes' = crashes
<1>1. PICK place, status, remove :
        \/ place \in {"redeem", "initiate", "refund"} /\ Goto(r, place)
        \/ status \in {"AuditPending", "Expired", "Initiated"} /\ Finish(r, status, remove)
  BY DEF SettleAudit, AuditAnswer, AuditSecret
<1>2. /\ pc[r] \in {"audit", "auditSecret"} /\ Report(r)
      /\ UNCHANGED chainVars /\ UNCHANGED <<granted, cost, told>>
  BY DEF SettleAudit, AuditSecret, ledger
<1> QED BY <1>1, <1>2
  DEF Goto, Finish, Report, OnlyMoves, KeepsBooks, Waits, chainVars, TypeOK, DaemonTypeOK, MoneyType

LEMMA HandleMoves ==
  ASSUME TypeOK, MoneyType, NEW r \in Roles, (HandleRequest(r) \/ HandleTick(r)) /\ UNCHANGED money
  PROVE  /\ OnlyMoves(r) /\ KeepsBooks(r) /\ pool' = pool
         /\ pc[r] = "idle" /\ pc'[r] \in {"initiate", "audit"} /\ (queued[r] > 0 \/ swapMap[r])
         /\ r = "initiator" => pc'[r] = "initiate"
         /\ reported' = reported /\ late' = late /\ boots' = boots /\ crashes' = crashes
BY DEF HandleRequest, HandleTick, FirstCall, Goto, OnlyMoves, KeepsBooks, chainVars, money,
  TypeOK, DaemonTypeOK, MoneyType, ledger

(* A call that writes, up to the publication.                              *)
LEMMA SendMoves ==
  ASSUME Worthwhile, NodesAnswer, TypeOK, MoneyType, NEW r \in Roles, NEW call \in Calls,
         SettleSend(r, call)
  PROVE  /\ OnlyMoves(r) /\ told' = told /\ pc[r] = call
         /\ late'[r] = (late[r] \/ pc'[r] = "idle")
         /\ boots' = boots /\ crashes' = crashes
         /\ \/ /\ Accepts(call, Target(r, call))
               /\ pool' = pool \cup {<<call, Target(r, call)>>}
               /\ pc'[r] = WaitOf(call) /\ reported' = reported
               /\ IF Kind[Target(r, call)] = "btc" THEN granted' = granted /\ cost' = cost
                  ELSE Grant(r, call, Target(r, call)) /\ Charge(r, call, Target(r, call))
            \/ /\ ~Accepts(call, Target(r, call)) /\ KeepsBooks(r) /\ pool' = pool
               /\ \/ Succeed(r, call) /\ ~(Kind[Target(r, call)] = "btc" /\ call = "refund")
                  \/ Fail(r, call) /\ Kind[Target(r, call)] = "btc" /\ call = "refund"
<1> DEFINE c == Target(r, call)
<1>1. c \in Roles
  BY DEF Target, Peer, Roles
<1>2. TermsReplies(r, call) =
        {IF Accepts(call, c) THEN "send"
         ELSE IF Kind[c] = "btc" /\ call = "refund" THEN "error" ELSE "skip"}
  BY <1>1, Pays, CallReplies DEF TermsReplies
<1> HIDE DEF c
<1>3. /\ pc[r] = call /\ UNCHANGED <<wall, blockTime, htlc, told>> /\ Report(r)
      /\ \E reply \in TermsReplies(r, call) :
           /\ SendAnswer(r, call, reply)
           /\ IF reply = "send" /\ Kind[c] # "btc" THEN Grant(r, call, c) /\ Charge(r, call, c)
              ELSE UNCHANGED <<granted, cost>>
  BY DEF SettleSend, c, Transact, ledger
<1>4. CASE Accepts(call, c)
  <2>1. /\ pool' = pool \cup {<<call, c>>} /\ Goto(r, WaitOf(call))
        /\ IF Kind[c] # "btc" THEN Grant(r, call, c) /\ Charge(r, call, c)
           ELSE UNCHANGED <<granted, cost>>
    BY <1>2, <1>3, <1>4 DEF SendAnswer, Publish, c
  <2>2. \A s \in Roles : s # r => granted'[s] = granted[s] /\ cost'[s] = cost[s]
    BY <1>1, <2>1 DEF Grant, Charge, MoneyType
  <2> QED
    BY <1>3, <1>4, <2>1, <2>2 DEF c, Goto, Report, OnlyMoves, TypeOK, DaemonTypeOK, MoneyType
<1>5. CASE ~Accepts(call, c)
  <2>1. /\ pool' = pool /\ UNCHANGED <<granted, cost>>
        /\ \/ Succeed(r, call) /\ ~(Kind[c] = "btc" /\ call = "refund")
           \/ Fail(r, call) /\ Kind[c] = "btc" /\ call = "refund"
    BY <1>2, <1>3, <1>5 DEF SendAnswer, c
  <2>2. /\ queued' = queued /\ boots' = boots /\ crashes' = crashes
        /\ \A s \in Roles : s # r =>
             pc'[s] = pc[s] /\ swapMap'[s] = swapMap[s] /\ reported'[s] = reported[s]
    BY <2>1, SucceedMoves, FailMoves
  <2> QED
    BY <1>3, <1>5, <2>1, <2>2 DEF c, KeepsBooks, Report, OnlyMoves, MoneyType
<1> QED BY <1>4, <1>5

(* The end of a wait: on Bitcoin always a good one, on Ethereum a bad one  *)
(* if the other party was faster.                                          *)
LEMMA AwaitMoves ==
  ASSUME NodesAnswer, TypeOK, MoneyType, FlightInv, NEW r \in Roles, NEW call \in Calls,
         SettleAwait(r, call)
  PROVE  /\ OnlyMoves(r) /\ told' = told /\ granted' = granted /\ pool' = pool
         /\ pc[r] = WaitOf(call) /\ Overtaken(call, Target(r, call))
         /\ late'[r] = (late[r] \/ pc'[r] = "idle")
         /\ boots' = boots /\ crashes' = crashes
         /\ IF Kind[Target(r, call)] = "btc" THEN Charge(r, call, Target(r, call)) ELSE cost' = cost
         /\ \/ Confirmed(call, Target(r, call)) /\ Succeed(r, call)
            \/ /\ Kind[Target(r, call)] # "btc" /\ call # "initiate"
               /\ Spent(Target(r, call)) /\ htlc[Target(r, call)] # Effect(call) /\ Fail(r, call)
<1> DEFINE c == Target(r, call)
<1>1. c \in Roles
  BY DEF Target, Peer, Roles
<1>2. Overtaken(call, c) \/ (<<call, c>> \in pool /\ Accepts(call, c))
  BY DEF FlightInv, SettleAwait, Await
<1> HIDE DEF c
<1>3. /\ pc[r] = WaitOf(call) /\ UNCHANGED chainVars /\ Report(r) /\ UNCHANGED <<granted, told>>
      /\ \/ Confirmed(call, c) /\ Succeed(r, call)
         \/ <<call, c>> \notin pool /\ ~Confirmed(call, c) /\ Fail(r, call)
      /\ IF Kind[c] = "btc" /\ Confirmed(call, c) THEN Charge(r, call, c) ELSE UNCHANGED cost
  BY DEF SettleAwait, Await, GivesUp, NodesAnswer, c, ledger
<1>4. Confirmed(call, c) => Overtaken(call, c)
  BY DEF Confirmed, Overtaken, Spent, Effect, Calls
<1>5. Overtaken(call, c)
  BY <1>2, <1>3, <1>4
<1>6. ~Confirmed(call, c) =>
        Kind[c] # "btc" /\ call # "initiate" /\ Spent(c) /\ htlc[c] # Effect(call)
  BY <1>5 DEF Confirmed, Overtaken
<1>7. /\ queued' = queued /\ boots' = boots /\ crashes' = crashes
      /\ \A s \in Roles : s # r =>
           pc'[s] = pc[s] /\ swapMap'[s] = swapMap[s] /\ reported'[s] = reported[s]
  BY <1>3, SucceedMoves, FailMoves
<1>8. \A s \in Roles : s # r => cost'[s] = cost[s]
  BY <1>1, <1>3 DEF Charge, MoneyType
<1> QED BY <1>3, <1>5, <1>6, <1>7, <1>8 DEF c, Report, OnlyMoves, chainVars, MoneyType

-----------------------------------------------------------------------------
(* The books, the transactions in flight, and the fees that were mined     *)

LEMMA PayerIsRole ==
  ASSUME NEW c \in Roles, NEW call \in Calls
  PROVE  (IF call = "redeem" THEN Peer(c) ELSE c) \in Roles
BY DEF Peer, Roles

(* Only a transaction changes what was granted and paid.                   *)
LEMMA LedgerMoves ==
  ASSUME [SettleNext]_allVars
  PROVE  ledger' = ledger \/ \E r, c \in Roles, call \in Calls : Transact(r, call, c)
<1>1. ASSUME NEW c \in Roles, NEW call \in Calls, SettleMine(call, c)
      PROVE  ledger' = ledger \/ \E r \in Roles : Transact(r, call, c)
  BY <1>1, PayerIsRole DEF SettleMine
<1>2. ASSUME NEW r \in Roles, NEW call \in Calls, SettleSend(r, call)
      PROVE  ledger' = ledger \/ (Target(r, call) \in Roles /\ Transact(r, call, Target(r, call)))
  BY <1>2 DEF SettleSend, Target, Peer, Roles
<1> QED
  BY <1>1, <1>2 DEF SettleNext, SettleClock, SettlePost, SettleBootload, SettleCrash, SettleWork,
    SettleAudit, SettleAwait, SettleDelete, StoreReceipt, money, allVars

LEMMA NextPaidType ==
  ASSUME MoneyType, [SettleNext]_allVars
  PROVE  paid' \in [Roles -> [Roles -> [Tokens -> Int]]]
<1>1. ASSUME NEW r \in Roles, NEW c \in Roles, NEW call \in Calls, Transact(r, call, c)
      PROVE  paid' \in [Roles -> [Roles -> [Tokens -> Int]]]
  BY <1>1, PayAdds DEF Transact
<1> QED BY <1>1, LedgerMoves DEF ledger, MoneyType

(* The miners take at most what they may, on Bitcoin all of it.            *)
LEMMA NextTaken ==
  ASSUME FeesAreNat, MoneyType, TakenInv, [SettleNext]_allVars
  PROVE  TakenInv'
<1> SUFFICES ASSUME NEW x \in Roles, NEW y \in Roles, NEW t \in Tokens
             PROVE  IF Kind[y] = "btc" THEN paid'[x][y][t] = granted'[x][y][t]
                    ELSE paid'[x][y][t] <= granted'[x][y][t]
  BY DEF TakenInv
<1>1. /\ paid[x][y][t] \in Int /\ granted[x][y][t] \in Int
      /\ IF Kind[y] = "btc" THEN paid[x][y][t] = granted[x][y][t]
         ELSE paid[x][y][t] <= granted[x][y][t]
  BY DEF TakenInv, MoneyType
<1>2. ASSUME NEW r \in Roles, NEW c \in Roles, NEW call \in Calls, Transact(r, call, c)
      PROVE  IF Kind[y] = "btc" THEN paid'[x][y][t] = granted'[x][y][t]
             ELSE paid'[x][y][t] <= granted'[x][y][t]
  <2>1. Grant(r, call, c) /\ PayMiner(r, call, c)
    BY <1>2 DEF Transact
  <2>2. CASE x # r \/ y # c
    BY <1>1, <2>1, <2>2, PayAdds, GrantAdds
  <2>3. CASE x = r /\ y = c
    <3>1. granted'[r][c][t] = granted[r][c][t] + MinersEntry(r, call, c, t)
      BY <2>1, GrantAdds
    <3>2. PICK fee \in MinersTake(r, call, c) :
            paid'[r][c][t] = paid[r][c][t] + IF t = FeeToken(c) THEN fee ELSE 0
      BY <2>1, PayAdds
    <3>3. /\ fee \in Int /\ MinersFee(r, call, c) \in Int /\ fee <= MinersFee(r, call, c)
          /\ Kind[c] = "btc" => fee = MinersFee(r, call, c)
      BY TakesWithin, FeesBound
    <3>4. MinersEntry(r, call, c, t) = IF t = FeeToken(c) THEN MinersFee(r, call, c) ELSE 0
      BY DEF MinersEntry
    <3> QED BY <1>1, <2>3, <3>1, <3>2, <3>3, <3>4
  <2> QED BY <2>2, <2>3
<1> QED BY <1>1, <1>2, LedgerMoves DEF ledger

LEMMA NextMoneyType ==
  ASSUME MoneyType, [SettleNext]_allVars
  PROVE  MoneyType'
<1> USE DEF MoneyType
<1>0. paid' \in [Roles -> [Roles -> [Tokens -> Int]]]
  BY NextPaidType
<1>1. CASE UNCHANGED money
  BY <1>1 DEF money, ledger
<1>2. ASSUME NEW c \in Roles, NEW call \in Calls, SettleMine(call, c)
      PROVE  MoneyType'
  <2> DEFINE payer == IF call = "redeem" THEN Peer(c) ELSE c
  <2>1. payer \in Roles
    BY PayerIsRole
  <2>2. granted' = granted \/ Grant(payer, call, c)
    BY <1>2 DEF SettleMine, Transact, ledger
  <2> HIDE DEF payer
  <2>3. granted' \in [Roles -> [Roles -> [Tokens -> Int]]]
    BY <2>1, <2>2, GrantAdds
  <2>4. cost' = cost /\ told' = told /\ late' = late
    BY <1>2 DEF SettleMine
  <2> QED BY <1>0, <2>3, <2>4
<1>3. ASSUME NEW r \in Roles, SettlePost(r) \/ SettleBootload(r) \/ SettleCrash(r) \/ StoreReceipt(r)
      PROVE  MoneyType'
  <2>1. NoCost \in [Roles -> [Tokens -> Int]]
    BY DEF NoCost
  <2>2. /\ granted' = granted
        /\ cost' \in {cost, [cost EXCEPT ![r] = told[r]], [cost EXCEPT ![r] = NoCost]}
        /\ told' \in {told, [told EXCEPT ![r] = cost[r]]}
        /\ late' \in {late, [late EXCEPT ![r] = FALSE]}
    BY <1>3 DEF SettlePost, SettleBootload, SettleCrash, StoreReceipt, LoadCosts, ledger
  <2>3. cost' \in [Roles -> [Roles -> [Tokens -> Int]]]
    BY <2>1, <2>2
  <2>4. told' \in [Roles -> [Roles -> [Tokens -> Int]]] /\ late' \in [Roles -> BOOLEAN]
    BY <2>2
  <2> QED BY <1>0, <2>2, <2>3, <2>4
<1>4. ASSUME NEW r \in Roles, SettleAudit(r)
      PROVE  MoneyType'
  BY <1>0, <1>4 DEF SettleAudit, Report, ledger
<1>5. ASSUME NEW r \in Roles, NEW call \in Calls, SettleSend(r, call) \/ SettleAwait(r, call)
      PROVE  MoneyType'
  <2> DEFINE c == Target(r, call)
  <2>1. c \in Roles
    BY DEF Target, Peer, Roles
  <2>2. /\ Report(r) /\ told' = told
        /\ granted' = granted \/ Grant(r, call, c)
        /\ cost' = cost \/ Charge(r, call, c)
    BY <1>5 DEF SettleSend, SettleAwait, Transact, ledger
  <2> HIDE DEF c
  <2>3. granted' \in [Roles -> [Roles -> [Tokens -> Int]]]
    BY <2>1, <2>2, GrantAdds
  <2>4. cost' \in [Roles -> [Roles -> [Tokens -> Int]]]
    BY <2>1, <2>2, ChargeAdds
  <2> QED BY <1>0, <2>2, <2>3, <2>4 DEF Report
<1> QED
  BY <1>1, <1>2, <1>3, <1>4, <1>5
  DEF SettleNext, SettleClock, SettleWork, SettleDelete, allVars

(* What is overtaken stays so.                                             *)
LEMMA MineMoves ==
  ASSUME TypeOK, NEW c \in Roles, NEW call \in Calls, Mine(call, c)
  PROVE  /\ \A d \in Roles : d # c => htlc'[d] = htlc[d]
         /\ Accepts(call, c) => htlc'[c] = Effect(call) /\ Overtaken(call, c)'
         /\ ~Accepts(call, c) => htlc'[c] = htlc[c]
         /\ wall' = wall /\ blockTime' = blockTime /\ pool' = pool \ {<<call, c>>}
         /\ \A a \in Calls, d \in Roles : Overtaken(a, d) => Overtaken(a, d)'
BY DEF Mine, TypeOK, ChainTypeOK, Effect, Overtaken, Accepts, Initiatable, Redeemable, Refundable,
  Spent, Calls

(* A wait goes on where the chain has not moved.                           *)
LEMMA FlightStays ==
  ASSUME FlightInv, NEW r \in Roles, UNCHANGED htlc, pool \subseteq pool',
         \A c \in Roles : blockTime[c] \in Nat /\ blockTime'[c] \in Nat /\ blockTime[c] <= blockTime'[c],
         pc'[r] = pc[r] \/ pc'[r] \notin Waits
  PROVE  \A call \in Calls :
           pc'[r] = WaitOf(call) =>
             \/ Overtaken(call, Target(r, call))'
             \/ (<<call, Target(r, call)>> \in pool /\ Accepts(call, Target(r, call)))'
<1> SUFFICES ASSUME NEW call \in Calls, pc'[r] = WaitOf(call)
             PROVE  \/ Overtaken(call, Target(r, call))'
                    \/ (<<call, Target(r, call)>> \in pool /\ Accepts(call, Target(r, call)))'
  OBVIOUS
<1>1. Target(r, call) \in Roles
  BY DEF Target, Peer, Roles
<1>2. pc[r] = WaitOf(call)
  BY WaitsDiffer
<1>3. \/ Overtaken(call, Target(r, call))
      \/ <<call, Target(r, call)>> \in pool /\ Accepts(call, Target(r, call))
  BY <1>2 DEF FlightInv
<1>4. \A c \in Roles : Overtaken(call, c) => Overtaken(call, c)'
  BY DEF Overtaken, Spent
<1>5. TimeLock \in Nat
  BY ClockAssumption DEF TimeLock
<1>6. \A c \in Roles : Accepts(call, c) => Accepts(call, c)'
  BY <1>5 DEF Accepts, Initiatable, Redeemable, Refundable, LockOf
<1> QED BY <1>1, <1>3, <1>4, <1>6

LEMMA NextFlight ==
  ASSUME Worthwhile, NodesAnswer, TypeOK, TypeOK', MoneyType, FlightInv, [SettleNext]_allVars
  PROVE  FlightInv'
<1> DEFINE Flies(r, call) ==
             pc[r] = WaitOf(call) =>
               \/ Overtaken(call, Target(r, call))
               \/ <<call, Target(r, call)>> \in pool /\ Accepts(call, Target(r, call))
<1> SUFFICES ASSUME NEW r \in Roles
             PROVE  \A call \in Calls : Flies(r, call)'
  BY DEF FlightInv
<1>1. \A c \in Roles : blockTime[c] \in Nat /\ blockTime'[c] \in Nat
  BY DEF TypeOK, ChainTypeOK
<1>2. ASSUME UNCHANGED htlc, pool \subseteq pool', \A c \in Roles : blockTime[c] <= blockTime'[c],
             pc'[r] = pc[r] \/ pc'[r] \notin Waits
      PROVE  \A call \in Calls : Flies(r, call)'
  BY <1>1, <1>2, FlightStays
<1>3. blockTime' = blockTime => \A c \in Roles : blockTime[c] <= blockTime'[c]
  BY <1>1
<1>4. CASE SettleClock
  <2>1. \A c \in Roles : blockTime[c] <= blockTime'[c]
    BY <1>4 DEF SettleClock, AdvanceClock, AdvanceBlock, TypeOK, ChainTypeOK
  <2> QED BY <1>2, <1>4, <2>1 DEF SettleClock, AdvanceClock, AdvanceBlock, daemonVars
<1>5. ASSUME NEW c \in Roles, NEW call \in Calls, SettleMine(call, c), NEW a \in Calls
      PROVE  Flies(r, a)'
  <2>1. Mine(call, c) /\ pc' = pc
    BY <1>5 DEF SettleMine, daemonVars
  <2> DEFINE d == Target(r, a)
  <2>2. d \in Roles
    BY DEF Target, Peer, Roles
  <2>3. pc[r] = WaitOf(a) => Overtaken(a, d) \/ (<<a, d>> \in pool /\ Accepts(a, d))
    BY DEF FlightInv
  <2> HIDE DEF d
  <2>4. Accepts(a, d) =>
          \/ Overtaken(a, d)'
          \/ Accepts(a, d)' /\ (<<a, d>> \in pool => <<a, d>> \in pool')
    <3>1. CASE d # c
      BY <2>1, <2>2, <3>1, MineMoves DEF Accepts, Initiatable, Redeemable, Refundable
    <3>2. CASE d = c /\ a = call
      BY <2>1, <2>2, <3>2, MineMoves
    <3>3. CASE d = c /\ a # call
      BY <2>1, <2>2, <3>3, MineMoves
      DEF Accepts, Initiatable, Redeemable, Refundable, Overtaken, Spent, Effect, Calls
    <3> QED BY <3>1, <3>2, <3>3
  <2>5. Overtaken(a, d) => Overtaken(a, d)'
    BY <2>1, <2>2, MineMoves
  <2> QED BY <2>1, <2>3, <2>4, <2>5 DEF d
<1>6. ASSUME NEW s \in Roles,
             \/ SettlePost(s) \/ SettleBootload(s) \/ SettleCrash(s) \/ SettleDelete(s)
             \/ StoreReceipt(s)
      PROVE  \A call \in Calls : Flies(r, call)'
  <2>1. UNCHANGED chainVars /\ (pc'[r] = pc[r] \/ pc'[r] = "idle")
    BY <1>6 DEF SettlePost, SettleBootload, SettleCrash, SettleDelete, StoreReceipt, PostSwap,
      Bootload, Crash, DeleteSwap, vars, daemonVars, TypeOK, DaemonTypeOK
  <2> QED BY <1>2, <1>3, <2>1 DEF chainVars, Waits
<1>7. ASSUME NEW s \in Roles, SettleAudit(s) \/ ((HandleRequest(s) \/ HandleTick(s)) /\ UNCHANGED money)
      PROVE  \A call \in Calls : Flies(r, call)'
  <2>1. OnlyMoves(s) /\ pool' = pool /\ pc'[s] \notin Waits
    BY <1>7, AuditMoves, HandleMoves DEF Waits
  <2> QED BY <1>2, <1>3, <2>1 DEF OnlyMoves
<1>8. ASSUME NEW s \in Roles, NEW call \in Calls, SettleSend(s, call)
      PROVE  \A a \in Calls : Flies(r, a)'
  <2>1. OnlyMoves(s) /\ pool \subseteq pool'
    BY <1>8, SendMoves
  <2>2. CASE pc'[s] \notin Waits \/ s # r
    BY <1>2, <1>3, <2>1, <2>2 DEF OnlyMoves
  <2>3. CASE pc'[s] \in Waits /\ s = r
    <3>1. ~Succeed(r, call) /\ ~Fail(r, call)
      BY <2>3, SucceedMoves, FailMoves DEF Waits, Calls
    <3>2. /\ Accepts(call, Target(r, call)) /\ <<call, Target(r, call)>> \in pool'
          /\ pc'[r] = WaitOf(call)
      BY <1>8, <2>3, <3>1, SendMoves
    <3>3. Accepts(call, Target(r, call))'
      BY <2>1, <3>2 DEF OnlyMoves, Accepts, Initiatable, Redeemable, Refundable
    <3> QED BY <3>2, <3>3, WaitsDiffer
  <2> QED BY <2>2, <2>3
<1>9. ASSUME NEW s \in Roles, NEW call \in Calls, SettleAwait(s, call)
      PROVE  \A a \in Calls : Flies(r, a)'
  <2>1. OnlyMoves(s) /\ pool' = pool /\ (Succeed(s, call) \/ Fail(s, call))
    BY <1>9, AwaitMoves
  <2>2. pc'[s] \notin Waits
    BY <2>1, SucceedMoves, FailMoves DEF Waits, Calls
  <2> QED BY <1>2, <1>3, <2>1, <2>2 DEF OnlyMoves
<1>10. CASE UNCHANGED allVars
  BY <1>2, <1>3, <1>10 DEF allVars, vars, chainVars, daemonVars
<1> QED
  BY <1>4, <1>5, <1>6, <1>7, <1>8, <1>9, <1>10 DEF SettleNext, SettleWork

(* The fees that were mined follow the state of the contract.              *)
LEMMA NextMined ==
  ASSUME TypeOK, MoneyType, MinedInv, [SettleNext]_allVars
  PROVE  MinedInv'
<1> SUFFICES ASSUME NEW x \in Roles, NEW d \in Roles, Kind[d] = "btc", NEW t \in Tokens
             PROVE  granted'[x][d][t] = IF t = "btc" THEN MinedFees(x, d)' ELSE 0
  BY DEF MinedInv
<1>1. granted[x][d][t] = IF t = "btc" THEN MinedFees(x, d) ELSE 0
  BY DEF MinedInv
<1>2. CASE htlc'[d] = htlc[d] /\ granted'[x][d] = granted[x][d]
  BY <1>1, <1>2 DEF MinedFees
<1>3. ASSUME NEW c \in Roles, NEW call \in Calls, SettleMine(call, c)
      PROVE  granted'[x][d][t] = IF t = "btc" THEN MinedFees(x, d)' ELSE 0
  <2> DEFINE payer == IF call = "redeem" THEN Peer(c) ELSE c
  <2>1. /\ Mine(call, c)
        /\ IF Kind[c] = "btc" /\ Accepts(call, c) THEN Grant(payer, call, c) ELSE granted' = granted
    BY <1>3 DEF SettleMine, Transact, ledger
  <2>2. CASE ~(Kind[c] = "btc" /\ Accepts(call, c))
    BY <1>2, <2>1, <2>2, MineMoves
  <2>3. CASE Kind[c] = "btc" /\ Accepts(call, c) /\ d # c
    BY <1>2, <2>1, <2>3, MineMoves, PayerIsRole, GrantAdds
  <2>4. CASE Accepts(call, c) /\ d = c
    <3>1. payer \in Roles /\ Grant(payer, call, d)
      BY <2>1, <2>4, PayerIsRole
    <3>2. /\ x # payer => granted'[x][d] = granted[x][d]
          /\ x = payer => granted'[x][d][t] = granted[x][d][t] + MinersEntry(x, call, d, t)
      BY <3>1, GrantAdds
    <3>3. MinersEntry(x, call, d, t) = IF t = "btc" THEN SwapOf(x, d).fee ELSE 0
      BY DEF MinersEntry, MinersFee, FeeToken
    <3>4. /\ htlc'[d] = Effect(call) /\ SwapOf(x, d).fee \in Int
          /\ call = "initiate" => htlc[d] = "none"
          /\ call = "redeem" => htlc[d] = "open"
          /\ call = "refund" => htlc[d] = "open"
      BY <2>1, <2>4, MineMoves, TermsBound DEF Accepts, Initiatable, Redeemable, Refundable
    <3>5. x = payer <=> IF call = "redeem" THEN x # d ELSE x = d
      BY <2>4 DEF Peer, Roles
    <3> HIDE DEF payer
    <3>6. CASE t = "btc"
      BY <1>1, <3>2, <3>3, <3>4, <3>5, <3>6 DEF MinedFees, Effect, Calls
    <3>7. CASE t # "btc"
      BY <1>1, <3>2, <3>3, <3>7
    <3> QED BY <3>6, <3>7
  <2> QED BY <2>2, <2>3, <2>4
<1>4. ASSUME NEW r \in Roles, NEW call \in Calls, SettleSend(r, call)
      PROVE  htlc' = htlc /\ granted'[x][d] = granted[x][d]
  <2>1. Target(r, call) \in Roles
    BY DEF Target, Peer, Roles
  <2>2. htlc' = htlc /\ (granted' = granted \/ (Kind[Target(r, call)] # "btc" /\ Grant(r, call, Target(r, call))))
    BY <1>4 DEF SettleSend, Transact, ledger
  <2> QED BY <2>1, <2>2, GrantAdds
<1>5. ASSUME NEW r \in Roles, NEW call \in Calls, SettleAwait(r, call)
      PROVE  htlc' = htlc /\ granted' = granted
  BY <1>5 DEF SettleAwait, Await, chainVars, ledger
<1>6. ASSUME NEW r \in Roles,
             \/ SettlePost(r) \/ SettleBootload(r) \/ SettleCrash(r) \/ SettleDelete(r)
             \/ StoreReceipt(r) \/ SettleAudit(r)
             \/ (HandleRequest(r) \/ HandleTick(r)) /\ UNCHANGED money
      PROVE  htlc' = htlc /\ granted' = granted
  BY <1>6 DEF SettlePost, SettleBootload, SettleCrash, SettleDelete, StoreReceipt, SettleAudit,
    PostSwap, Bootload, Crash, DeleteSwap, HandleRequest, HandleTick, AuditSecret, chainVars, vars, money, ledger
<1>7. CASE SettleClock \/ UNCHANGED allVars
  BY <1>2, <1>7 DEF SettleClock, AdvanceClock, AdvanceBlock, allVars, vars, chainVars, money, ledger
<1> QED
  BY <1>2, <1>3, <1>4, <1>5, <1>6, <1>7 DEF SettleNext, SettleWork

-----------------------------------------------------------------------------
(* Without a crash                                                         *)

(* What the costs of a contract do not depend on.                          *)
LEMMA CostsStay ==
  ASSUME NEW r \in Roles, NEW c \in Roles, CostsOf(r, c), htlc'[c] = htlc[c],
         wall \in Nat, wall' \in Nat, wall <= wall',
         granted'[r][c] = granted[r][c], cost'[r][c] = cost[r][c],
         IF r = c
         THEN /\ \A w \in {"initiate_wait", "refund_wait"} : pc'[r] = w <=> pc[r] = w
              /\ reported'[r] = "Refunded" <=> reported[r] = "Refunded"
         ELSE /\ pc'[r] = "redeem_wait" <=> pc[r] = "redeem_wait"
              /\ reported'[r] = "Redeemed" <=> reported[r] = "Redeemed"
  PROVE  CostsOf(r, c)'
<1>1. CASE Kind[c] = "btc"
  BY <1>1 DEF CostsOf, BitcoinCosts, NativeCost, ForeignCost, Beaten, Spent
<1>2. CASE Kind[c] # "btc"
  <2>1. TimeLock \in Nat
    BY ClockAssumption DEF TimeLock
  <2>2. wall > TimeLock => wall' > TimeLock
    BY <2>1
  <2> QED BY <1>2, <2>2 DEF CostsOf, EtherCosts, Shares
<1> QED BY <1>1, <1>2

(* A mined transaction is one that its daemon waits for.                   *)
LEMMA MineCosts ==
  ASSUME TypeOK, MoneyType, NEW c \in Roles, NEW call \in Calls, SettleMine(call, c),
         NEW r \in Roles, FirstStart(r), NEW d \in Roles, CostsOf(r, d),
         \A s \in Roles : pc[s] = "refund_wait" => wall > TimeLock
  PROVE  FirstStart(r)' /\ CostsOf(r, d)'
<1>1. /\ Mine(call, c) /\ cost' = cost /\ told' = told /\ late' = late
      /\ pc' = pc /\ reported' = reported /\ boots' = boots /\ queued' = queued /\ swapMap' = swapMap
      /\ Kind[c] # "btc" => granted' = granted
  <2>1. /\ Mine(call, c) /\ UNCHANGED daemonVars /\ cost' = cost /\ told' = told /\ late' = late
        /\ (Kind[c] # "btc" => granted' = granted)
    BY DEF SettleMine, Transact, ledger
  <2>2. /\ pc' = pc /\ reported' = reported /\ boots' = boots
        /\ queued' = queued /\ swapMap' = swapMap
    BY <2>1 DEF daemonVars
  <2> QED BY <2>1, <2>2
<1>2. FirstStart(r)'
  <2>1. \A a \in Calls : Overtaken(a, Target(r, a)) => Overtaken(a, Target(r, a))'
    <3>1. \A a \in Calls : Target(r, a) \in Roles
      BY DEF Target, Peer, Roles
    <3> QED BY <1>1, <3>1, MineMoves
  <2>2. pool' \subseteq pool
    BY <1>1, MineMoves
  <2> QED BY <1>1, <2>1, <2>2 DEF FirstStart, Quiet
<1>3. ASSUME Kind[d] # "btc" /\ (d # c \/ ~Accepts(call, c))
      PROVE  CostsOf(r, d)'
  <2>1. Kind[c] = "btc" => d # c
    BY <1>3
  <2>2. granted'[r][d] = granted[r][d]
    BY <1>1, <1>3, PayerIsRole, GrantAdds DEF SettleMine, Transact, ledger
  <2>3. htlc'[d] = htlc[d] /\ wall' = wall /\ wall \in Nat
    BY <1>1, <1>3, MineMoves DEF TypeOK, ChainTypeOK
  <2> QED BY <1>1, <2>2, <2>3, CostsStay
<1>4. ASSUME Kind[d] = "btc" /\ (d # c \/ ~Accepts(call, c))
      PROVE  CostsOf(r, d)'
  <2>1. htlc'[d] = htlc[d]
    BY <1>1, <1>4, MineMoves
  <2> QED
    BY <1>1, <1>4, <2>1 DEF CostsOf, BitcoinCosts, NativeCost, ForeignCost, Beaten, Spent
<1>5. ASSUME d = c /\ Accepts(call, c)
      PROVE  CostsOf(r, d)'
  <2>1. /\ htlc'[c] = Effect(call)
        /\ call = "initiate" => htlc[c] = "none"
        /\ call = "redeem" => htlc[c] = "open"
        /\ call = "refund" => htlc[c] = "open"
    BY <1>1, <1>5, MineMoves DEF Accepts, Initiatable, Redeemable, Refundable
  <2>2. Target(r, call) = c => pc[r] = WaitOf(call)
    BY <1>1, <2>1 DEF FirstStart, Mine, Overtaken, Spent, Calls
  <2>3. Target(r, call) = c <=> IF call = "redeem" THEN r # c ELSE r = c
    BY DEF Target, Peer, Roles
  <2>4. CASE Kind[c] = "btc"
    BY <1>1, <1>5, <2>1, <2>2, <2>3, <2>4
    DEF CostsOf, BitcoinCosts, NativeCost, ForeignCost, Beaten, Spent, Effect, WaitOf, Calls
  <2>5. CASE Kind[c] # "btc"
    <3>1. wall' = wall
      BY <1>1, MineMoves
    <3> QED
      BY <1>1, <1>5, <2>1, <2>2, <2>3, <2>5, <3>1
      DEF CostsOf, EtherCosts, Shares, Effect, WaitOf, Calls
  <2> QED BY <2>4, <2>5
<1> QED BY <1>2, <1>3, <1>4, <1>5

(* A step of the other daemon.                                             *)
LEMMA PeerCosts ==
  ASSUME TypeOK, NEW s \in Roles, OnlyMoves(s), NEW call \in Calls,
         pool' \subseteq pool \cup {<<call, Target(s, call)>>},
         NEW r \in Roles, r # s, FirstStart(r), NEW d \in Roles, CostsOf(r, d)
  PROVE  FirstStart(r)' /\ CostsOf(r, d)'
<1>1. \A a \in Calls : Overtaken(a, Target(r, a)) <=> Overtaken(a, Target(r, a))'
  BY DEF OnlyMoves, Overtaken, Spent
<1>2. \A a \in Calls : <<a, Target(r, a)>> \in pool' => <<a, Target(r, a)>> \in pool
  BY TargetsDiffer
<1>3. FirstStart(r)'
  BY <1>1, <1>2 DEF FirstStart, OnlyMoves, Quiet
<1>4. CostsOf(r, d)'
  BY CostsStay DEF OnlyMoves, TypeOK, ChainTypeOK
<1> QED BY <1>3, <1>4

(* On Ethereum payment and charge are one step; a call that sends nothing  *)
(* ends the swap only where its contract is spent.                         *)
LEMMA SendCosts ==
  ASSUME Worthwhile, NodesAnswer, IInv, PaidInv, OnceInv', MoneyType,
         NEW r \in Roles, NEW call \in Calls, SettleSend(r, call), FirstStart(r),
         \A c \in Roles : CostsOf(r, c)
  PROVE  FirstStart(r)' /\ \A c \in Roles : CostsOf(r, c)'
<1>1. TypeOK /\ Target(r, call) \in Roles
  BY DEF IInv, Target, Peer, Roles
<1> PICK e \in Roles : e = Target(r, call)
  BY <1>1
<1>2. /\ OnlyMoves(r) /\ told' = told /\ pc[r] = call
      /\ late'[r] = (late[r] \/ pc'[r] = "idle") /\ boots' = boots
  BY <1>1, SendMoves
<1>3. reported[r] \notin {"Redeemed", "Refunded"}
  BY <1>2 DEF FirstStart, Quiet, Calls
<1>4. reported[r] # "none"
  BY <1>2 DEF PaidInv, PostedInv, Calls
<1>5. wall \in Nat /\ wall' = wall /\ htlc' = htlc
  BY <1>1, <1>2 DEF OnlyMoves, TypeOK, ChainTypeOK
<1>6. CASE Accepts(call, e)
  <2>1. /\ pool' = pool \cup {<<call, e>>} /\ pc'[r] = WaitOf(call) /\ reported' = reported
        /\ IF Kind[e] = "btc" THEN granted' = granted /\ cost' = cost
           ELSE Grant(r, call, e) /\ Charge(r, call, e)
    BY <1>1, <1>6, SendMoves
  <2>2. /\ pc[r] \notin Waits /\ pc'[r] \in Waits /\ pc'[r] # "idle"
        /\ \A a \in Calls : pc[r] # WaitOf(a) /\ (pc'[r] = WaitOf(a) <=> a = call)
    BY <1>2, <2>1, WaitsDiffer DEF Waits, Calls, WaitOf
  <2>3. FirstStart(r)'
    <3>1. ASSUME NEW a \in Calls, <<a, Target(r, a)>> \in pool'
          PROVE  pc'[r] = WaitOf(a) \/ Overtaken(a, Target(r, a))'
      BY <1>5, <2>1, <2>2, <3>1 DEF FirstStart, Overtaken, Spent
    <3> QED BY <1>2, <1>3, <1>4, <2>1, <2>2, <3>1 DEF FirstStart
  <2>4. ASSUME NEW c \in Roles, c # e
        PROVE  CostsOf(r, c)'
    <3>1. granted'[r][c] = granted[r][c] /\ cost'[r][c] = cost[r][c]
      BY <1>1, <2>1, <2>4, GrantAdds, ChargeAdds
    <3>2. IF r = c
          THEN \A w \in {"initiate_wait", "refund_wait"} : pc'[r] = w <=> pc[r] = w
          ELSE pc'[r] = "redeem_wait" <=> pc[r] = "redeem_wait"
      BY <2>1, <2>2, <2>4 DEF WaitOf, Calls, Target, Peer, Roles, Waits
    <3> QED BY <1>5, <2>1, <3>1, <3>2, CostsStay
  <2>5. /\ call = "initiate" => htlc[e] = "none"
        /\ call # "initiate" => htlc[e] = "open"
        /\ r = e <=> call # "redeem"
    BY <1>6 DEF Accepts, Initiatable, Redeemable, Refundable, Target, Peer, Roles
  <2>6. ASSUME Kind[e] = "btc"
        PROVE  CostsOf(r, e)'
    BY <1>1, <1>3, <1>5, <2>1, <2>2, <2>5, <2>6
    DEF CostsOf, BitcoinCosts, NativeCost, ForeignCost, Beaten, Spent, WaitOf, Calls, Waits
  <2>7. ASSUME Kind[e] # "btc"
        PROVE  CostsOf(r, e)'
    <3>1. \A t \in Tokens : cost'[r][e][t] - granted'[r][e][t] =
                              cost[r][e][t] - granted[r][e][t] + BrokersEntry(r, call, e, t)
      <4>1. \A t \in Tokens : MinersEntry(r, call, e, t) \in Int /\ BrokersEntry(r, call, e, t) \in Int
        BY <1>1, FeesBound DEF MinersEntry, BrokersEntry
      <4>2. \A t \in Tokens : cost[r][e][t] \in Int /\ granted[r][e][t] \in Int
        BY DEF MoneyType
      <4>3. \A t \in Tokens :
              /\ granted'[r][e][t] = granted[r][e][t] + MinersEntry(r, call, e, t)
              /\ cost'[r][e][t] = cost[r][e][t] + MinersEntry(r, call, e, t) + BrokersEntry(r, call, e, t)
        BY <1>1, <2>1, <2>7, GrantAdds, ChargeAdds
      <4> QED BY <4>1, <4>2, <4>3
    <3>2. /\ \A t \in Tokens \ {Kind[e]} : BrokersEntry(r, call, e, t) = 0
          /\ r # e => BrokersEntry(r, call, e, Kind[e]) = 0
          /\ call = "initiate" => BrokersEntry(r, call, e, Kind[e]) = Native[e].brokerFee
          /\ call = "refund" => BrokersEntry(r, call, e, Kind[e]) = -Native[e].brokerFee
      BY <2>5 DEF BrokersEntry, BrokerShare, SwapOf, Calls
    <3>3. Native[e].brokerFee \in Nat /\ Kind[e] \in Tokens
      BY <1>1, TermsBound, TokensOf
    <3>4. /\ granted' \in [Roles -> [Roles -> [Tokens -> Int]]]
          /\ cost' \in [Roles -> [Roles -> [Tokens -> Int]]]
      BY <1>1, <2>1, <2>7, GrantAdds, ChargeAdds
    <3>5. \A t \in Tokens : cost[r][e][t] \in Int /\ granted[r][e][t] \in Int
                            /\ cost'[r][e][t] \in Int /\ granted'[r][e][t] \in Int
      BY <1>1, <3>4 DEF MoneyType
    <3>6. /\ \A t \in Tokens \ {Kind[e]} : cost[r][e][t] = granted[r][e][t]
          /\ cost[r][e][Kind[e]] - granted[r][e][Kind[e]] \in IF r = e THEN Shares(e) ELSE {0}
      BY <2>7 DEF CostsOf, EtherCosts
    <3>7. ASSUME NEW t \in Tokens \ {Kind[e]}
          PROVE  cost'[r][e][t] = granted'[r][e][t]
      <4>1. /\ cost[r][e][t] \in Int /\ granted[r][e][t] \in Int
            /\ cost'[r][e][t] \in Int /\ granted'[r][e][t] \in Int
        BY <3>5, <3>7
      <4>2. cost'[r][e][t] - granted'[r][e][t] = cost[r][e][t] - granted[r][e][t] + 0
        BY <3>1, <3>2, <3>7
      <4>4. \A a, b, x, y \in Int : x - y = a - b + 0 /\ a = b => x = y
        OBVIOUS
      <4>3. cost[r][e][t] = granted[r][e][t]
        BY <3>6, <3>7
      <4> QED BY <4>1, <4>2, <4>3, <4>4
    <3>8. /\ r = e /\ call = "initiate" =>
               Shares(e) = {0} /\ Shares(e)' = {Native[e].brokerFee}
          /\ r = e /\ call = "refund" =>
               Shares(e) = {Native[e].brokerFee} /\ Shares(e)' = {0}
      BY <1>2, <1>5, <2>1, <2>5 DEF Shares, WaitOf
    <3>9. cost'[r][e][Kind[e]] - granted'[r][e][Kind[e]] \in (IF r = e THEN Shares(e) ELSE {0})'
      <4>1. cost'[r][e][Kind[e]] - granted'[r][e][Kind[e]] =
              cost[r][e][Kind[e]] - granted[r][e][Kind[e]] + BrokersEntry(r, call, e, Kind[e])
        BY <3>1, <3>3
      <4>2. CASE r # e
        BY <3>2, <3>6, <4>1, <4>2
      <4>3. CASE r = e
        BY <2>5, <3>2, <3>3, <3>6, <3>8, <4>1, <4>3 DEF Calls
      <4> QED BY <4>2, <4>3
    <3> QED BY <2>7, <3>7, <3>9 DEF CostsOf, EtherCosts
  <2> QED BY <2>3, <2>4, <2>6, <2>7
<1>7. CASE ~Accepts(call, e)
  <2>1. /\ KeepsBooks(r) /\ pool' = pool
        /\ \/ Succeed(r, call) /\ ~(Kind[e] = "btc" /\ call = "refund")
           \/ Fail(r, call) /\ Kind[e] = "btc" /\ call = "refund"
    BY <1>1, <1>7, SendMoves
  <2>2. /\ pc[r] \notin Waits /\ pc'[r] \notin Waits
        /\ \A a \in Calls : pc[r] # WaitOf(a) /\ pc'[r] # WaitOf(a)
    BY <1>1, <1>2, <2>1, SucceedMoves, FailMoves, WaitsDiffer DEF Waits, Calls
  <2>3. reported'[r] \in {"Redeemed", "Refunded"} => deleting'[r]
    BY <1>1, <1>3, <2>1, SucceedMoves, FailMoves DEF Calls
  <2>4. reported'[r] # "none"
    BY <1>1, <1>4, <2>1, SucceedMoves, FailMoves DEF Calls
  <2>5. FirstStart(r)'
    <3>1. reported'[r] \in {"Redeemed", "Refunded"} => Quiet(r)'
      BY <2>3 DEF OnceInv
    <3>2. \A a \in Calls : <<a, Target(r, a)>> \in pool' => Overtaken(a, Target(r, a))'
      BY <1>5, <2>1, <2>2 DEF FirstStart, Overtaken, Spent
    <3> QED
      BY <1>2, <1>4, <2>1, <2>4, <3>1, <3>2 DEF FirstStart
  <2>6. ASSUME NEW c \in Roles, reported'[r] \notin {"Redeemed", "Refunded"}
        PROVE  CostsOf(r, c)'
    BY <1>3, <1>5, <2>1, <2>2, <2>6, CostsStay DEF KeepsBooks, Waits
  <2>7. ASSUME NEW c \in Roles, reported'[r] = "Refunded"
        PROVE  CostsOf(r, c)'
    <3>1. call = "refund" /\ e = r /\ Kind[e] # "btc"
      BY <1>1, <1>3, <2>1, <2>7, SucceedMoves, FailMoves DEF Calls, Target
    <3> QED
      BY <1>3, <1>5, <2>1, <2>2, <2>7, <3>1
      DEF CostsOf, BitcoinCosts, EtherCosts, Shares, NativeCost, ForeignCost, Beaten, Spent, KeepsBooks, Waits
  <2>8. ASSUME NEW c \in Roles, reported'[r] = "Redeemed"
        PROVE  CostsOf(r, c)'
    <3>1. call = "redeem" /\ e = Peer(r) /\ e # r
      BY <1>1, <1>3, <2>1, <2>8, SucceedMoves, FailMoves DEF Calls, Target, Peer, Roles
    <3>2. htlc[e] \in {"redeemed", "refunded"}
      <4>1. htlc[e] # "none"
        BY <1>2, <3>1 DEF IInv, FundsSecondInv, SecretInv, PaidInv, AuditedInv, Peer, Roles, Places, Calls
      <4> QED
        BY <1>1, <1>7, <3>1, <4>1 DEF Accepts, Redeemable, TypeOK, ChainTypeOK, States
    <3> QED
      BY <1>3, <1>5, <2>1, <2>2, <2>8, <3>1, <3>2
      DEF CostsOf, BitcoinCosts, EtherCosts, Shares, NativeCost, ForeignCost, Beaten, Spent, KeepsBooks, Waits, Roles
  <2> QED BY <2>5, <2>6, <2>7, <2>8
<1> QED BY <1>6, <1>7

(* On Bitcoin the end of a wait charges what was mined, or was beaten.     *)
LEMMA AwaitCosts ==
  ASSUME NodesAnswer, IInv, OnceInv', PaidInv, MoneyType, FlightInv,
         NEW r \in Roles, NEW call \in Calls, SettleAwait(r, call), FirstStart(r),
         \A c \in Roles : CostsOf(r, c)
  PROVE  FirstStart(r)' /\ \A c \in Roles : CostsOf(r, c)'
<1>1. TypeOK /\ Target(r, call) \in Roles
  BY DEF IInv, Target, Peer, Roles
<1> PICK e \in Roles : e = Target(r, call)
  BY <1>1
<1>2. /\ OnlyMoves(r) /\ told' = told /\ granted' = granted /\ pool' = pool /\ pc[r] = WaitOf(call)
      /\ Overtaken(call, e) /\ late'[r] = (late[r] \/ pc'[r] = "idle") /\ boots' = boots
      /\ IF Kind[e] = "btc" THEN Charge(r, call, e) ELSE cost' = cost
      /\ \/ Confirmed(call, e) /\ Succeed(r, call)
         \/ Kind[e] # "btc" /\ call # "initiate" /\ Spent(e) /\ Fail(r, call)
  BY <1>1, AwaitMoves
<1>3. reported[r] \notin {"Redeemed", "Refunded"}
  BY <1>2, WaitsDiffer DEF FirstStart, Quiet
<1>4. reported[r] # "none"
  BY <1>2, WaitsDiffer DEF PaidInv, PostedInv
<1>5. wall \in Nat /\ wall' = wall /\ htlc' = htlc
  BY <1>1, <1>2 DEF OnlyMoves, TypeOK, ChainTypeOK
<1>6. /\ reported'[r] # "none"
      /\ reported'[r] = "Redeemed" => call = "redeem"
      /\ reported'[r] = "Refunded" => call = "refund"
      /\ reported'[r] \in {"Redeemed", "Refunded"} => deleting'[r]
      /\ Succeed(r, call) /\ call = "redeem" => reported'[r] = "Redeemed"
      /\ Succeed(r, call) /\ call = "refund" => reported'[r] = "Refunded"
  BY <1>1, <1>2, <1>3, <1>4, SucceedMoves, FailMoves DEF Calls
<1>7. \A w \in Waits : pc'[r] # w
  BY <1>1, <1>2, SucceedMoves, FailMoves DEF Calls, Waits
<1>8. pc'[r] # "idle" => reported'[r] = reported[r]
  BY <1>1, <1>2, SucceedMoves, FailMoves DEF Calls
<1>9. FirstStart(r)'
  <2>1. reported'[r] \in {"Redeemed", "Refunded"} => Quiet(r)'
    BY <1>6 DEF OnceInv
  <2>2. ASSUME NEW a \in Calls, <<a, Target(r, a)>> \in pool'
        PROVE  Overtaken(a, Target(r, a))'
    <3>1. Overtaken(a, Target(r, a))
      BY <1>2, <2>2, WaitsDiffer DEF FirstStart
    <3> QED BY <1>5, <3>1 DEF Overtaken, Spent
  <2> QED BY <1>2, <1>4, <1>6, <2>1, <2>2 DEF FirstStart
<1>10. \A w \in Waits : pc[r] = w => w = WaitOf(call)
  BY <1>2
<1>11. ASSUME NEW c \in Roles, c # e
       PROVE  CostsOf(r, c)'
  <2>1. granted'[r][c] = granted[r][c] /\ cost'[r][c] = cost[r][c]
    BY <1>2, <1>11, ChargeAdds
  <2>2. IF r = c THEN call = "redeem" ELSE call # "redeem"
    BY <1>11 DEF Target, Peer, Roles
  <2>3. IF r = c
        THEN /\ \A w \in {"initiate_wait", "refund_wait"} : pc'[r] = w <=> pc[r] = w
             /\ reported'[r] = "Refunded" <=> reported[r] = "Refunded"
        ELSE /\ pc'[r] = "redeem_wait" <=> pc[r] = "redeem_wait"
             /\ reported'[r] = "Redeemed" <=> reported[r] = "Redeemed"
    BY <1>2, <1>3, <1>6, <1>7, <2>2 DEF WaitOf, Waits, Calls
  <2> QED BY <1>5, <2>1, <2>3, CostsStay
<1>12. r = e <=> call # "redeem"
  BY DEF Target, Peer, Roles
<1>13. ASSUME Kind[e] = "btc"
       PROVE  CostsOf(r, e)'
  <2>1. /\ Confirmed(call, e) /\ Succeed(r, call)
        /\ \A t \in Tokens : cost'[r][e][t] = cost[r][e][t] + MinersEntry(r, call, e, t) + BrokersEntry(r, call, e, t)
    BY <1>2, <1>13, ChargeAdds
  <2>2. /\ SwapOf(r, e).fee \in Int /\ Native[e].brokerFee \in Nat
        /\ r = e => SwapOf(r, e) = Native[e]
        /\ \A t \in Tokens : cost[r][e][t] \in Int
    BY TermsBound DEF SwapOf, MoneyType
  <2>3. /\ \A t \in Tokens \ {"btc"} : MinersEntry(r, call, e, t) = 0 /\ BrokersEntry(r, call, e, t) = 0
        /\ MinersEntry(r, call, e, "btc") = SwapOf(r, e).fee
        /\ BrokersEntry(r, call, e, "btc") = BrokerShare(r, call, e)
    BY <1>13 DEF MinersEntry, BrokersEntry, FeeToken, MinersFee
  <2>4. \A t \in Tokens \ {"btc"} : cost'[r][e][t] = 0
    <3>1. \A t \in Tokens \ {"btc"} : cost[r][e][t] = 0
      BY <1>13 DEF CostsOf, BitcoinCosts
    <3> QED BY <2>1, <2>3, <3>1
  <2>5. cost'[r][e]["btc"] = cost[r][e]["btc"] + SwapOf(r, e).fee + BrokerShare(r, call, e)
    BY <2>1, <2>3 DEF Tokens
  <2>6. CASE call = "initiate"
    <3>1. r = e /\ BrokerShare(r, call, e) = Native[e].brokerFee /\ htlc[e] # "none"
      BY <1>2, <1>12, <2>2, <2>6 DEF BrokerShare, Overtaken
    <3>2. NativeCost(e) = 0 /\ NativeCost(e)' = Native[e].fee + Native[e].brokerFee
      BY <1>2, <1>3, <1>5, <1>6, <1>7, <2>2, <2>6, <3>1 DEF NativeCost, WaitOf, Waits
    <3>3. cost[r][e]["btc"] = 0
      BY <1>13, <3>1, <3>2 DEF CostsOf, BitcoinCosts
    <3>4. cost'[r][e]["btc"] = NativeCost(e)'
      BY <2>2, <2>5, <3>1, <3>2, <3>3
    <3>5. htlc'[e] = "refunded" => FALSE
      BY <1>2, <1>3, <1>5, <1>13, <2>6, <3>1 DEF CostsOf, BitcoinCosts, WaitOf
    <3> QED BY <1>6, <1>13, <2>4, <2>6, <3>1, <3>4, <3>5 DEF CostsOf, BitcoinCosts
  <2>7. CASE call = "refund"
    <3>1. r = e /\ BrokerShare(r, call, e) = -Native[e].brokerFee /\ Spent(e)
          /\ reported'[r] = "Refunded"
      BY <1>2, <1>6, <1>12, <2>1, <2>2, <2>7 DEF BrokerShare, Overtaken
    <3>2. /\ NativeCost(e) = Native[e].fee + Native[e].brokerFee
          /\ NativeCost(e)' = Native[e].fee + Native[e].brokerFee + (Native[e].fee - Native[e].brokerFee)
      BY <1>2, <1>3, <1>5, <1>7, <2>2, <2>7, <3>1 DEF NativeCost, WaitOf, Waits, Spent
    <3>3. cost[r][e]["btc"] = NativeCost(e)
      BY <1>13, <3>1 DEF CostsOf, BitcoinCosts
    <3>4. cost'[r][e]["btc"] = NativeCost(e)'
      BY <2>2, <2>5, <3>1, <3>2, <3>3
    <3> QED BY <1>5, <1>13, <2>4, <3>1, <3>4 DEF CostsOf, BitcoinCosts, Spent
  <2>8. CASE call = "redeem"
    <3>1. r # e /\ BrokerShare(r, call, e) = 0 /\ Spent(e) /\ reported'[r] = "Redeemed"
      BY <1>2, <1>6, <1>12, <2>1, <2>8 DEF BrokerShare, Overtaken
    <3>2. cost[r][e]["btc"] = 0
      BY <1>3, <1>13, <3>1 DEF CostsOf, BitcoinCosts, ForeignCost, Beaten
    <3>3. cost'[r][e]["btc"] = ForeignCost(r, e)'
      BY <2>2, <2>5, <3>1, <3>2 DEF ForeignCost
    <3> QED BY <1>5, <1>13, <2>4, <3>1, <3>3 DEF CostsOf, BitcoinCosts, Spent
  <2> QED BY <2>6, <2>7, <2>8 DEF Calls
<1>14. ASSUME Kind[e] # "btc"
       PROVE  CostsOf(r, e)'
  <2>1. cost' = cost /\ granted' = granted
    BY <1>2, <1>14
  <2>2. r = e => Shares(e) \subseteq Shares(e)'
    <3>1. CASE call = "initiate"
      <4>1. (htlc[e] # "none" /\ pc[e] = "initiate_wait") \/ r # e
        BY <1>2, <3>1 DEF Overtaken, WaitOf
      <4> QED BY <1>2, <1>5, <1>7, <3>1, <4>1 DEF Shares, Waits, IInv, TypeOK, ChainTypeOK, States
    <3>2. CASE call = "refund"
      <4>1. r = e => Spent(e) /\ pc[e] = "refund_wait" /\ wall > TimeLock
        BY <1>2, <3>2 DEF Overtaken, WaitOf, IInv, RefundInv
      <4> QED BY <1>2, <1>5, <1>7, <3>2, <4>1 DEF Shares, Waits, Spent
    <3> QED BY <1>12, <3>1, <3>2 DEF Calls
  <2> QED BY <1>14, <2>1, <2>2 DEF CostsOf, EtherCosts
<1> QED BY <1>9, <1>11, <1>13, <1>14

(* The steps that charge nothing.                                          *)
LEMMA QuietCosts ==
  ASSUME SingleBootload, TypeOK, PostedInv, OnceInv', MoneyType, NEW r \in Roles,
         \/ SettlePost(r) \/ SettleDelete(r) \/ StoreReceipt(r) \/ SettleAudit(r)
         \/ (HandleRequest(r) \/ HandleTick(r)) /\ UNCHANGED money,
         FirstStart(r), \A c \in Roles : CostsOf(r, c)
  PROVE  /\ OnlyMoves(r) /\ pool' = pool
         /\ FirstStart(r)' /\ \A c \in Roles : CostsOf(r, c)'
<1>1. wall \in Nat
  BY DEF TypeOK, ChainTypeOK
<1>2. ASSUME OnlyMoves(r), granted'[r] = granted[r], cost'[r] = cost[r],
             \A w \in Waits : pc'[r] = w <=> pc[r] = w,
             \A q \in {"Redeemed", "Refunded"} : reported'[r] = q <=> reported[r] = q
      PROVE  \A c \in Roles : CostsOf(r, c)'
  BY <1>1, <1>2, CostsStay DEF OnlyMoves, Waits
<1>3. ASSUME OnlyMoves(r), pool' = pool
      PROVE  \A a \in Calls :
               /\ <<a, Target(r, a)>> \in pool' => <<a, Target(r, a)>> \in pool
               /\ Overtaken(a, Target(r, a)) <=> Overtaken(a, Target(r, a))'
  BY <1>3 DEF OnlyMoves, Overtaken, Spent
<1>4. CASE SettlePost(r)
  <2>1. /\ PostSwap(r) /\ cost' = [cost EXCEPT ![r] = told[r]]
        /\ granted' = granted /\ told' = told /\ late' = late
    BY <1>4 DEF SettlePost, LoadCosts, ledger
  <2>2. /\ reported[r] = "none" /\ reported'[r] = "Inactive" /\ boots'[r] = 1 /\ pc' = pc
        /\ pc[r] = "idle" /\ ~late[r]
    BY <2>1 DEF PostSwap, PostedInv, FirstStart, TypeOK, DaemonTypeOK
  <2>3. cost'[r] = cost[r] /\ told'[r] = cost'[r]
    BY <2>1, <2>2 DEF FirstStart, MoneyType
  <2>4. OnlyMoves(r) /\ pool' = pool
    BY <2>1 DEF PostSwap, OnlyMoves, chainVars, TypeOK, DaemonTypeOK, MoneyType
  <2>5. FirstStart(r)'
    BY <1>3, <2>2, <2>3, <2>4 DEF FirstStart, SingleBootload
  <2>6. \A c \in Roles : CostsOf(r, c)'
    BY <1>2, <2>1, <2>2, <2>3, <2>4
  <2> QED BY <2>4, <2>5, <2>6
<1>5. CASE SettleDelete(r)
  <2>1. /\ UNCHANGED <<wall, blockTime, htlc, pool>> /\ UNCHANGED <<pc, queued, swapMap, reported, boots>>
        /\ UNCHANGED <<granted, cost, told, late>>
    BY <1>5 DEF SettleDelete, DeleteSwap, chainVars, money, ledger
  <2>2. OnlyMoves(r) /\ pool' = pool
    BY <2>1 DEF OnlyMoves
  <2>3. FirstStart(r)'
    BY <1>3, <2>1, <2>2 DEF FirstStart, Quiet
  <2> QED BY <1>2, <2>1, <2>2, <2>3
<1>6. CASE StoreReceipt(r)
  <2>1. /\ UNCHANGED <<wall, blockTime, htlc, pool>> /\ UNCHANGED <<pc, queued, swapMap, reported, boots>>
        /\ UNCHANGED <<granted, cost>>
        /\ late' = [late EXCEPT ![r] = FALSE] /\ told' = [told EXCEPT ![r] = cost[r]]
    BY <1>6 DEF StoreReceipt, vars, chainVars, daemonVars, ledger
  <2>2. OnlyMoves(r) /\ pool' = pool /\ told'[r] = cost[r] /\ ~late'[r]
    BY <2>1 DEF OnlyMoves, MoneyType
  <2>3. FirstStart(r)'
    BY <1>3, <2>1, <2>2 DEF FirstStart, Quiet
  <2> QED BY <1>2, <2>1, <2>2, <2>3
<1>7. CASE (HandleRequest(r) \/ HandleTick(r)) /\ UNCHANGED money
  <2>1. /\ OnlyMoves(r) /\ KeepsBooks(r) /\ pool' = pool
        /\ pc[r] = "idle" /\ pc'[r] \in {"initiate", "audit"} /\ (queued[r] > 0 \/ swapMap[r])
        /\ reported' = reported /\ late' = late /\ boots' = boots
    BY <1>7, HandleMoves
  <2>2. \A w \in Waits : pc[r] # w /\ pc'[r] # w
    BY <2>1 DEF Waits
  <2>3. reported[r] \notin {"Redeemed", "Refunded"}
    BY <2>1 DEF FirstStart, Quiet
  <2>4. \A a \in Calls : pc[r] # WaitOf(a)
    BY <2>2, WaitsDiffer
  <2>5. FirstStart(r)'
    BY <1>3, <2>1, <2>3, <2>4 DEF FirstStart
  <2> QED BY <1>2, <2>1, <2>2, <2>5 DEF KeepsBooks
<1>8. CASE SettleAudit(r)
  <2>1. /\ OnlyMoves(r) /\ KeepsBooks(r) /\ pool' = pool
        /\ pc[r] \in {"audit", "auditSecret"} /\ pc'[r] \notin Waits
        /\ reported'[r] = reported[r] \/ reported'[r] \notin {"none", "Redeemed", "Refunded"}
        /\ late'[r] = (late[r] \/ pc'[r] = "idle") /\ boots' = boots
    BY <1>8, AuditMoves
  <2>2. \A w \in Waits : pc[r] # w /\ pc'[r] # w
    BY <2>1 DEF Waits
  <2>3. reported[r] \notin {"none", "Redeemed", "Refunded"}
    BY <2>1 DEF FirstStart, Quiet, PostedInv
  <2>4. \A a \in Calls : pc[r] # WaitOf(a)
    BY <2>2, WaitsDiffer
  <2>5. FirstStart(r)'
    BY <1>3, <2>1, <2>3, <2>4 DEF FirstStart
  <2> QED BY <1>2, <2>1, <2>2, <2>3, <2>5 DEF KeepsBooks
<1> QED BY <1>4, <1>5, <1>6, <1>7, <1>8

LEMMA NextCosts ==
  ASSUME Worthwhile, NodesAnswer, SingleBootload, IInv, IInv', PaidInv, OnceInv', MoneyType,
         FlightInv, CostsInv, [SettleNext]_allVars
  PROVE  CostsInv'
<1> DEFINE Goal == \A r \in Roles : FirstStart(r)' /\ \A c \in Roles : CostsOf(r, c)'
<1>1. SUFFICES ASSUME crashes' = 0
               PROVE  Goal
  BY DEF CostsInv
<1>2. TypeOK /\ PostedInv /\ wall \in Nat /\ wall' \in Nat
  BY DEF IInv, PaidInv, TypeOK, ChainTypeOK
<1>3. (\A r \in Roles : ~SettleCrash(r)) /\ crashes = 0
  <2>1. ASSUME NEW r \in Roles, SettleCrash(r)
        PROVE  FALSE
    BY <1>1, <1>2, <2>1 DEF SettleCrash, Crash, TypeOK, DaemonTypeOK
  <2>2. [Next]_vars
    BY StepIsSwap
  <2>3. crashes' = crashes \/ \E r \in Roles : Crash(r)
    BY <2>2 DEF Next, ChainNext, PostSwap, Bootload, DeleteSwap, Work, HandleRequest, DropRequest,
      HandleTick, Audit, AuditSecret, AuditAnswer, Send, SendAnswer, Await, Succeed, Fail, Goto, Finish, daemonVars, vars
  <2>4. crashes = 0
    BY <1>1, <1>2, <2>3 DEF Crash, TypeOK, DaemonTypeOK
  <2> QED BY <2>1, <2>4
<1>4. \A r \in Roles : FirstStart(r) /\ \A c \in Roles : CostsOf(r, c)
  BY <1>3 DEF CostsInv
<1>5. ASSUME NEW s \in Roles, OnlyMoves(s), NEW call \in Calls,
             pool' \subseteq pool \cup {<<call, Target(s, call)>>},
             FirstStart(s)' /\ \A c \in Roles : CostsOf(s, c)'
      PROVE  Goal
  <2> SUFFICES ASSUME NEW r \in Roles, r # s
               PROVE  FirstStart(r)' /\ \A c \in Roles : CostsOf(r, c)'
    BY <1>5
  <2> QED BY <1>2, <1>4, <1>5, PeerCosts
<1>6. CASE SettleClock \/ UNCHANGED allVars
  <2>1. /\ htlc' = htlc /\ pool' = pool /\ UNCHANGED <<pc, queued, swapMap, reported, boots>>
        /\ UNCHANGED <<granted, cost, told, late>> /\ (wall' = wall \/ wall' = wall + 1)
    BY <1>6 DEF SettleClock, AdvanceClock, AdvanceBlock, allVars, vars, chainVars, daemonVars, money, ledger
  <2>2. wall <= wall'
    BY <1>2, <2>1
  <2>3. ASSUME NEW r \in Roles
        PROVE  FirstStart(r)'
    BY <1>4, <2>1 DEF FirstStart, Quiet, Overtaken, Spent
  <2>4. ASSUME NEW r \in Roles, NEW c \in Roles
        PROVE  CostsOf(r, c)'
    BY <1>2, <1>4, <2>1, <2>2, CostsStay
  <2> QED BY <2>3, <2>4
<1>7. ASSUME NEW c \in Roles, NEW call \in Calls, SettleMine(call, c)
      PROVE  Goal
  <2>1. \A s \in Roles : pc[s] = "refund_wait" => wall > TimeLock
    BY DEF IInv, RefundInv
  <2> QED BY <1>2, <1>4, <1>7, <2>1, MineCosts
<1>8. ASSUME NEW r \in Roles, SettleBootload(r)
      PROVE  FALSE
  <2>1. boots[r] < MaxBoots /\ pending[r] /\ boots[r] \in Nat
    BY <1>2, <1>8 DEF SettleBootload, Bootload, TypeOK, DaemonTypeOK
  <2>2. boots[r] >= MaxBoots
    BY <1>2, <1>4, <2>1 DEF PostedInv, FirstStart
  <2> QED BY <2>1, <2>2 DEF SingleBootload
<1>9. ASSUME NEW r \in Roles,
             \/ SettlePost(r) \/ SettleDelete(r) \/ StoreReceipt(r) \/ SettleAudit(r)
             \/ (HandleRequest(r) \/ HandleTick(r)) /\ UNCHANGED money
      PROVE  Goal
  <2>1. /\ OnlyMoves(r) /\ pool' = pool
        /\ FirstStart(r)' /\ \A c \in Roles : CostsOf(r, c)'
    BY <1>2, <1>4, <1>9, QuietCosts
  <2>2. "redeem" \in Calls
    BY DEF Calls
  <2> QED BY <1>5, <2>1, <2>2
<1>10. ASSUME NEW r \in Roles, NEW call \in Calls, SettleSend(r, call)
       PROVE  Goal
  <2>1. FirstStart(r)' /\ \A c \in Roles : CostsOf(r, c)'
    BY <1>4, <1>10, SendCosts
  <2>2. OnlyMoves(r) /\ pool' \subseteq pool \cup {<<call, Target(r, call)>>}
    BY <1>2, <1>10, SendMoves
  <2> QED BY <1>5, <2>1, <2>2
<1>11. ASSUME NEW r \in Roles, NEW call \in Calls, SettleAwait(r, call)
       PROVE  Goal
  <2>1. FirstStart(r)' /\ \A c \in Roles : CostsOf(r, c)'
    BY <1>4, <1>11, AwaitCosts
  <2>2. OnlyMoves(r) /\ pool' \subseteq pool \cup {<<call, Target(r, call)>>}
    BY <1>2, <1>11, AwaitMoves
  <2> QED BY <1>5, <2>1, <2>2
<1> QED
  BY <1>3, <1>6, <1>7, <1>8, <1>9, <1>10, <1>11 DEF SettleNext, SettleWork

LEMMA InitCosts ==
  SettleInit => MoneyType /\ FlightInv /\ MinedInv /\ TakenInv /\ CostsInv
<1> SUFFICES ASSUME SettleInit
             PROVE  MoneyType /\ FlightInv /\ MinedInv /\ TakenInv /\ CostsInv
  OBVIOUS
<1>1. /\ granted = [r \in Roles |-> NoCost] /\ cost = [r \in Roles |-> NoCost]
      /\ paid = granted
      /\ told = [r \in Roles |-> NoCost] /\ late = [r \in Roles |-> FALSE]
      /\ pc = [r \in Roles |-> "idle"] /\ reported = [r \in Roles |-> "none"]
      /\ htlc = [c \in Roles |-> "none"] /\ pool = {}
  BY DEF SettleInit, Init, ChainInit
<1>2. MoneyType
  BY <1>1 DEF MoneyType, NoCost
<1>3. FlightInv
  BY <1>1, WaitsDiffer DEF FlightInv
<1>4. \A r, c \in Roles, t \in Tokens : granted[r][c][t] = 0 /\ cost[r][c][t] = 0
  BY <1>1 DEF NoCost
<1>5. MinedInv
  BY <1>1, <1>4 DEF MinedInv, MinedFees
<1>6. \A r \in Roles : FirstStart(r)
  BY <1>1 DEF FirstStart
<1>7. ASSUME NEW r \in Roles, NEW c \in Roles
      PROVE  CostsOf(r, c)
  <2>1. Kind[c] \in Tokens
    BY TokensOf
  <2> QED BY <1>1, <1>4, <2>1 DEF CostsOf, BitcoinCosts, EtherCosts, NativeCost, ForeignCost, Shares, Tokens
<1>8. TakenInv
  BY <1>1, <1>4 DEF TakenInv
<1> QED BY <1>2, <1>3, <1>5, <1>6, <1>7, <1>8 DEF CostsInv

(* At rest a receipt tells what was granted, ...                           *)
LEMMA GrantsAreCounted ==
  ASSUME TypeOK, MoneyType, MinedInv, CostsInv,
         crashes = 0, NEW r \in Roles, NEW c \in Roles, AtRest(r), ~Beaten(r, c)
  PROVE  told[r][c] \in Counted(r, c)
<1>1. FirstStart(r) /\ CostsOf(r, c)
  BY DEF CostsInv
<1>2. told[r][c] = cost[r][c] /\ pc[r] = "idle"
  BY <1>1 DEF FirstStart, AtRest
<1>3. /\ cost[r][c] \in [Tokens -> Int] /\ granted[r][c] \in [Tokens -> Int] /\ Kind[c] \in Tokens
      /\ Native[c].brokerFee \in Nat /\ SwapOf(r, c).fee \in Int
      /\ htlc[c] \in States
      /\ r = c => SwapOf(r, c) = Native[c]
  BY TokensOf, TermsBound DEF MoneyType, TypeOK, ChainTypeOK, SwapOf
<1> DEFINE share == IF r = c /\ htlc[c] \in {"open", "redeemed"} THEN Native[c].brokerFee ELSE 0
<1>4. /\ Allowed(r, c) \in [Tokens -> Int]
      /\ \A t \in Tokens \ {Kind[c]} : Allowed(r, c)[t] = granted[r][c][t]
      /\ Allowed(r, c)[Kind[c]] = granted[r][c][Kind[c]] + share
  BY <1>3 DEF Allowed, WithBroker
<1>5. CASE Kind[c] = "btc"
  <2>1. BitcoinCosts(r, c)
    BY <1>1, <1>5 DEF CostsOf
  <2>2. /\ \A t \in Tokens \ {"btc"} : granted[r][c][t] = 0
        /\ granted[r][c]["btc"] = MinedFees(r, c)
    BY <1>5 DEF MinedInv, Tokens
  <2>3. cost[r][c]["btc"] = MinedFees(r, c) + share
    <3>1. CASE r = c
      <4>1. cost[r][c]["btc"] = NativeCost(c)
        BY <2>1, <3>1 DEF BitcoinCosts
      <4>2. /\ htlc[c] \in {"none", "open", "redeemed"} => reported[r] # "Refunded"
            /\ htlc[c] = "refunded" => reported[r] = "Refunded"
        BY <1>2, <1>5, <2>1, <3>1 DEF BitcoinCosts, Spent, Beaten
      <4> QED BY <1>2, <1>3, <3>1, <4>1, <4>2 DEF NativeCost, MinedFees, States
    <3>2. CASE r # c
      <4>1. cost[r][c]["btc"] = ForeignCost(r, c)
        BY <2>1, <3>2 DEF BitcoinCosts
      <4>2. reported[r] = "Redeemed" <=> htlc[c] = "redeemed"
        BY <1>2, <1>3, <1>5, <2>1, <3>2 DEF BitcoinCosts, Spent, Beaten
      <4> QED BY <1>3, <3>2, <4>1, <4>2 DEF ForeignCost, MinedFees
    <3> QED BY <3>1, <3>2
  <2>4. \A t \in Tokens : cost[r][c][t] = Allowed(r, c)[t]
    BY <1>4, <1>5, <2>1, <2>2, <2>3 DEF BitcoinCosts
  <2>5. cost[r][c] = Allowed(r, c)
    BY <1>3, <1>4, <2>4
  <2> QED BY <1>2, <2>5 DEF Counted
<1>6. CASE Kind[c] # "btc"
  <2>1. EtherCosts(r, c)
    BY <1>1, <1>6 DEF CostsOf
  <2>2. ASSUME cost[r][c][Kind[c]] - granted[r][c][Kind[c]] = share
        PROVE  cost[r][c] = Allowed(r, c)
    <3>1. cost[r][c][Kind[c]] = Allowed(r, c)[Kind[c]]
      BY <1>3, <1>4, <2>2
    <3>2. \A t \in Tokens : cost[r][c][t] = Allowed(r, c)[t]
      BY <1>4, <2>1, <3>1 DEF EtherCosts
    <3> QED BY <1>3, <1>4, <3>2
  <2>3. ASSUME cost[r][c][Kind[c]] - granted[r][c][Kind[c]] = 0
        PROVE  cost[r][c] = granted[r][c]
    <3>1. cost[r][c][Kind[c]] = granted[r][c][Kind[c]]
      BY <1>3, <2>3
    <3>2. \A t \in Tokens : cost[r][c][t] = granted[r][c][t]
      BY <2>1, <3>1 DEF EtherCosts
    <3> QED BY <1>3, <3>2
  <2>4. \/ cost[r][c][Kind[c]] - granted[r][c][Kind[c]] = share
        \/ RefundReverted(r, c) /\ cost[r][c][Kind[c]] - granted[r][c][Kind[c]] = 0
    BY <1>2, <1>3, <1>6, <2>1 DEF EtherCosts, Shares, RefundReverted, States
  <2> QED BY <1>2, <2>2, <2>3, <2>4 DEF Counted
<1> QED BY <1>5, <1>6

(* ... which is what was paid, or more on Ethereum.                        *)
LEMMA CostsAreCounted ==
  ASSUME TypeOK, MoneyType, MinedInv, CostsInv, TakenInv
  PROVE  CostsCounted
<1> SUFFICES ASSUME crashes = 0, NEW r \in Roles, NEW c \in Roles, AtRest(r), ~Beaten(r, c)
             PROVE  /\ told[r][c] \in Counted(r, c)
                    /\ Kind[c] = "btc" => told[r][c] = Spending(r, c)
                    /\ ~RefundReverted(r, c) =>
                         \A t \in Tokens : told[r][c][t] >= Spending(r, c)[t]
  BY DEF CostsCounted
<1>1. told[r][c] \in Counted(r, c)
  BY GrantsAreCounted
<1>2. ~RefundReverted(r, c) => told[r][c] = Allowed(r, c)
  BY <1>1 DEF Counted
<1>3. Kind[c] = "btc" => ~RefundReverted(r, c)
  BY DEF RefundReverted
<1>4. /\ paid[r][c] \in [Tokens -> Int] /\ granted[r][c] \in [Tokens -> Int]
      /\ Native[c].brokerFee \in Nat /\ Kind[c] \in Tokens
  BY TokensOf, TermsBound DEF MoneyType
<1>5. ASSUME Kind[c] = "btc"
      PROVE  Spending(r, c) = Allowed(r, c)
  <2>1. \A t \in Tokens : paid[r][c][t] = granted[r][c][t]
    BY <1>5 DEF TakenInv
  <2>2. paid[r][c] = granted[r][c]
    BY <1>4, <2>1
  <2> QED BY <2>2 DEF Spending, Allowed
<1>6. ASSUME NEW t \in Tokens
      PROVE  Allowed(r, c)[t] >= Spending(r, c)[t]
  <2>1. paid[r][c][t] <= granted[r][c][t]
    BY <1>4 DEF TakenInv
  <2> DEFINE share == IF r = c /\ htlc[c] \in {"open", "redeemed"} THEN Native[c].brokerFee ELSE 0
  <2>2. share \in Nat
    BY <1>4
  <2>3. /\ Spending(r, c)[t] = paid[r][c][t] + IF t = Kind[c] THEN share ELSE 0
        /\ Allowed(r, c)[t] = granted[r][c][t] + IF t = Kind[c] THEN share ELSE 0
    BY <1>4 DEF Spending, Allowed, WithBroker
  <2> HIDE DEF share
  <2> QED BY <1>4, <2>1, <2>2, <2>3
<1> QED BY <1>1, <1>2, <1>3, <1>5, <1>6

(* Without a crash a receipt at rest counts every transaction once and at   *)
(* its limit, in whatever order two daemons, their blocks and the closures  *)
(* that write the receipt run, for every pair of tokens, every fee, and     *)
(* block timestamps that lag: on Bitcoin it tells what the swap has cost,   *)
(* on Ethereum never less than that.                                        *)
THEOREM CountsOnce ==
  ASSUME Worthwhile, NodesAnswer, FeesAreNat
  PROVE  SettleSpec => []CostsCounted
<1> DEFINE SInv == IInv /\ PaidInv /\ OnceInv /\ MoneyType /\ FlightInv /\ MinedInv /\ TakenInv /\ CostsInv
<1>1. SettleInit => SInv
  BY InitInv, InitEnds, InitCosts DEF SettleInit
<1>2. SInv /\ [SettleNext]_allVars => SInv'
  <2> SUFFICES ASSUME SInv, [SettleNext]_allVars
               PROVE  SInv'
    OBVIOUS
  <2>1. [Next]_vars /\ ReliableNodes /\ SingleBootload
    BY StepIsSwap, RequestAssumption DEF NodesAnswer, ReliableNodes, SingleBootload
  <2>2. IInv' /\ PaidInv'
    BY <2>1, NextInv, NextPaid
  <2>3. TypeOK /\ TypeOK' /\ PostedInv
    BY <2>2 DEF IInv, PaidInv
  <2>4. OnceInv'
    BY <2>1, <2>3, NextOnce
  <2>5. MoneyType' /\ FlightInv' /\ MinedInv' /\ TakenInv'
    BY <2>3, NextMoneyType, NextFlight, NextMined, NextTaken
  <2>6. CostsInv'
    BY <2>1, <2>2, <2>4, NextCosts
  <2> QED BY <2>2, <2>4, <2>5, <2>6
<1>3. SInv => CostsCounted
  BY CostsAreCounted DEF IInv
<1> HIDE DEF SInv
<1> QED BY <1>1, <1>2, <1>3, PTL DEF SettleSpec

-----------------------------------------------------------------------------
(* Across crashes                                                          *)

(* A transaction adds to what was granted.                                 *)
LEMMA GrantGrows ==
  ASSUME FeesAreNat, TypeOK, MoneyType, [SettleNext]_allVars
  PROVE  \A x, y \in Roles, t \in Tokens : granted'[x][y][t] >= granted[x][y][t]
<1> SUFFICES ASSUME NEW x \in Roles, NEW y \in Roles, NEW t \in Tokens
             PROVE  granted'[x][y][t] >= granted[x][y][t]
  OBVIOUS
<1>1. granted[x][y][t] \in Int
  BY DEF MoneyType
<1>2. granted' = granted \/ \E r, c \in Roles, call \in Calls : Grant(r, call, c)
  BY LedgerMoves DEF ledger, Transact
<1>3. ASSUME NEW r \in Roles, NEW c \in Roles, NEW call \in Calls, Grant(r, call, c)
      PROVE  granted'[x][y][t] >= granted[x][y][t]
  <2>1. CASE x = r /\ y = c
    <3>1. granted'[r][c][t] = granted[r][c][t] + MinersEntry(r, call, c, t)
      BY <1>3, GrantAdds
    <3>2. MinersEntry(r, call, c, t) \in Nat
      BY EntriesNotNegative
    <3> QED BY <1>1, <2>1, <3>1, <3>2
  <2>2. CASE x # r \/ y # c
    BY <1>1, <1>3, <2>2, GrantAdds
  <2> QED BY <2>1, <2>2
<1> QED BY <1>1, <1>2, <1>3

(* Before the time lock nothing is refunded.                               *)
LEMMA NoRefundYet ==
  ASSUME IInv, wall <= TimeLock, NEW r \in Roles
  PROVE  htlc[r] \in {"none", "open", "redeemed"} /\ pc[r] \notin {"refund", "refund_wait"}
<1>1. wall \in Nat /\ TimeLock \in Nat /\ htlc[r] \in States
  BY ClockAssumption DEF IInv, TypeOK, ChainTypeOK, TimeLock
<1>2. htlc[r] = "refunded" \/ pc[r] \in {"refund", "refund_wait"} => wall > TimeLock
  BY DEF IInv, RefundInv
<1>3. ~(wall > TimeLock)
  BY <1>1
<1> QED BY <1>1, <1>2, <1>3 DEF States

(* What is allowed grows, as contracts are funded and not refunded.               *)
LEMMA AllowedGrows ==
  ASSUME Worthwhile, FeesAreNat, IInv, IInv', MoneyType, MoneyType', [SettleNext]_allVars, wall' <= TimeLock,
         NEW r \in Roles, NEW c \in Roles, NEW t \in Tokens
  PROVE  /\ Allowed(r, c)[t] \in Int /\ Allowed(r, c)'[t] \in Int
         /\ Allowed(r, c)[t] <= Allowed(r, c)'[t] /\ granted[r][c][t] <= granted'[r][c][t]
         /\ r = c /\ htlc'[c] # "none" => Allowed(r, c)'[t] = granted'[r][c][t] + ShareOf(c, t)
         /\ r # c \/ htlc'[c] = "none" => Allowed(r, c)'[t] = granted'[r][c][t]
<1>1. TypeOK /\ htlc[c] \in States /\ htlc'[c] \in {"none", "open", "redeemed"}
  <2>1. wall' \in Nat /\ TimeLock \in Nat /\ htlc'[c] \in States /\ htlc[c] \in States /\ TypeOK
    BY ClockAssumption DEF IInv, TypeOK, ChainTypeOK, TimeLock
  <2>2. htlc'[c] = "refunded" => wall' > TimeLock
    BY DEF IInv, RefundInv, TimeLock
  <2>3. ~(wall' > TimeLock)
    BY <2>1
  <2> QED BY <2>1, <2>2, <2>3 DEF States
<1>2. htlc[c] \in {"open", "redeemed"} => htlc'[c] \in {"open", "redeemed"}
  <2>1. [Next]_vars
    BY StepIsSwap
  <2>2. htlc' = htlc \/ \E d \in Roles, call \in Calls : Mine(call, d)
    BY <2>1, OnlyChainsMove DEF AdvanceClock
  <2>3. ASSUME NEW d \in Roles, NEW call \in Calls, Mine(call, d)
        PROVE  htlc'[c] = htlc[c] \/ htlc'[c] # "none"
    BY <1>1, <2>3, MineMoves DEF Effect
  <2> QED BY <1>1, <2>2, <2>3
<1>3. /\ Allowed(r, c)[t] =
           granted[r][c][t] + IF r = c /\ htlc[c] \in {"open", "redeemed"} THEN ShareOf(c, t) ELSE 0
      /\ Allowed(r, c)'[t] =
           granted'[r][c][t] + IF r = c /\ htlc'[c] \in {"open", "redeemed"} THEN ShareOf(c, t) ELSE 0
  <2>1. /\ granted[r][c] \in [Tokens -> Int] /\ granted'[r][c] \in [Tokens -> Int]
        /\ Native[c].brokerFee \in Nat
    BY TermsBound DEF MoneyType
  <2> QED BY <2>1 DEF Allowed, WithBroker, ShareOf
<1>4. granted[r][c][t] \in Int /\ granted'[r][c][t] \in Int /\ granted[r][c][t] <= granted'[r][c][t]
  <2>1. granted[r][c][t] \in Int /\ granted'[r][c][t] \in Int
    BY DEF MoneyType
  <2>2. granted[r][c][t] <= granted'[r][c][t]
    BY <1>1, GrantGrows, Zenon
  <2> QED BY <2>1, <2>2
<1>5. ShareOf(c, t) \in Nat
  BY TermsBound DEF ShareOf
<1> DEFINE share == IF r = c /\ htlc[c] \in {"open", "redeemed"} THEN ShareOf(c, t) ELSE 0
           next  == IF r = c /\ htlc'[c] \in {"open", "redeemed"} THEN ShareOf(c, t) ELSE 0
<1>6. share \in Nat /\ next \in Nat /\ share <= next
  BY <1>2, <1>5
<1>7. /\ r = c /\ htlc'[c] # "none" => next = ShareOf(c, t)
      /\ r # c \/ htlc'[c] = "none" => next = 0
  BY <1>1
<1>8. Allowed(r, c)[t] = granted[r][c][t] + share /\ Allowed(r, c)'[t] = granted'[r][c][t] + next
  BY <1>3
<1> HIDE DEF share, next
<1>9. /\ Allowed(r, c)[t] \in Int /\ Allowed(r, c)'[t] \in Int
      /\ Allowed(r, c)[t] <= Allowed(r, c)'[t]
  BY <1>4, <1>6, <1>8
<1>10. next = 0 => Allowed(r, c)'[t] = granted'[r][c][t]
  BY <1>4, <1>8
<1> QED BY <1>4, <1>7, <1>8, <1>9, <1>10

(* A step that charges nothing, and starts no wait for a charge unless     *)
(* nothing was charged before.                                             *)
LEMMA WithinStays ==
  ASSUME Worthwhile, FeesAreNat, IInv, IInv', MoneyType, MoneyType', [SettleNext]_allVars,
         wall' <= TimeLock, NEW r \in Roles, NEW c \in Roles, WithinAllowed(r, c),
         cost'[r][c] \in {cost[r][c], told[r][c]}, told'[r][c] = told[r][c],
         AwaitsCharge(r, c)' => \A t \in Tokens : cost[r][c][t] <= 0 /\ told[r][c][t] <= 0,
         Ahead(r, c) => Ahead(r, c)' \/ htlc'[c] # "none"
  PROVE  WithinAllowed(r, c)'
<1> SUFFICES ASSUME NEW t \in Tokens
             PROVE  /\ told'[r][c][t] <= Allowed(r, c)'[t]
                    /\ \/ cost'[r][c][t] <= Allowed(r, c)'[t]
                       \/ Ahead(r, c)' /\ cost'[r][c][t] <= granted'[r][c][t] + ShareOf(c, t)
                    /\ AwaitsCharge(r, c)' => cost'[r][c][t] <= 0 /\ told'[r][c][t] <= 0
  BY DEF WithinAllowed
<1>1. /\ cost[r][c][t] \in Int /\ told[r][c][t] \in Int /\ granted[r][c][t] \in Int
      /\ cost'[r][c][t] \in Int /\ told'[r][c][t] \in Int /\ granted'[r][c][t] \in Int
      /\ ShareOf(c, t) \in Int
  BY TermsBound DEF MoneyType, ShareOf
<1>2. /\ Allowed(r, c)[t] \in Int /\ Allowed(r, c)'[t] \in Int
      /\ Allowed(r, c)[t] <= Allowed(r, c)'[t] /\ granted[r][c][t] <= granted'[r][c][t]
      /\ r = c /\ htlc'[c] # "none" => Allowed(r, c)'[t] = granted'[r][c][t] + ShareOf(c, t)
  BY AllowedGrows
<1>3. /\ told[r][c][t] <= Allowed(r, c)[t]
      /\ \/ cost[r][c][t] <= Allowed(r, c)[t]
         \/ Ahead(r, c) /\ cost[r][c][t] <= granted[r][c][t] + ShareOf(c, t)
  BY DEF WithinAllowed
<1>4. told'[r][c][t] <= Allowed(r, c)'[t]
  BY <1>1, <1>2, <1>3
<1>5. AwaitsCharge(r, c)' => cost'[r][c][t] <= 0 /\ told'[r][c][t] <= 0
  OBVIOUS
<1>6. CASE cost'[r][c][t] = told[r][c][t] \/ cost[r][c][t] <= Allowed(r, c)[t]
  <2>1. cost'[r][c][t] <= Allowed(r, c)'[t]
    BY <1>1, <1>2, <1>3, <1>6
  <2> QED BY <1>4, <1>5, <2>1
<1>7. CASE cost'[r][c][t] = cost[r][c][t] /\ ~(cost[r][c][t] <= Allowed(r, c)[t])
  <2>1. r = c /\ Ahead(r, c) /\ cost'[r][c][t] <= granted'[r][c][t] + ShareOf(c, t)
    <3>1. Ahead(r, c) /\ cost[r][c][t] <= granted[r][c][t] + ShareOf(c, t)
      BY <1>3, <1>7
    <3> QED BY <1>1, <1>2, <1>7, <3>1 DEF Ahead
  <2> QED BY <1>2, <1>4, <1>5, <2>1
<1> QED BY <1>6, <1>7

(* An update of the initiator's receipt comes after its initiation.        *)
LEMMA LateFunded ==
  ASSUME Worthwhile, NodesAnswer, IInv, RefundingInv, MoneyType, FlightInv, [SettleNext]_allVars,
         htlc["initiator"] = "none", ~late["initiator"]
  PROVE  ~late'["initiator"]
<1> DEFINE r == "initiator"
<1>1. TypeOK /\ r \in Roles
  BY DEF IInv, Roles
<1>2. pc[r] \in {"idle", "initiate", "initiate_wait"}
  BY <1>1 DEF IInv, TypeOK, DaemonTypeOK, PlacesOK, RefundingInv, Places, Calls, Waits
<1> SUFFICES ~late'[r]
  OBVIOUS
<1> HIDE DEF r
<1>3. CASE SettleAudit(r)
  BY <1>1, <1>2, <1>3, AuditMoves
<1>4. ASSUME NEW call \in Calls, SettleSend(r, call)
      PROVE  ~late'[r]
  <2>1. pc[r] = call /\ late'[r] = (late[r] \/ pc'[r] = "idle")
    BY <1>1, <1>4, SendMoves
  <2>2. call = "initiate" /\ Target(r, call) = r
    BY <1>2, <2>1 DEF Calls, Target
  <2>3. Accepts(call, Target(r, call))
    BY <2>2 DEF Accepts, Initiatable, r
  <2>4. pc'[r] = WaitOf(call)
    BY <1>1, <1>4, <2>3, SendMoves
  <2> QED BY <2>1, <2>4, WaitsDiffer DEF r
<1>5. ASSUME NEW call \in Calls, SettleAwait(r, call)
      PROVE  FALSE
  <2>1. pc[r] = WaitOf(call) /\ Overtaken(call, Target(r, call))
    BY <1>1, <1>5, AwaitMoves
  <2>2. call = "initiate" /\ Target(r, call) = r
    BY <1>2, <2>1 DEF Calls, Target, WaitOf
  <2> QED BY <2>1, <2>2 DEF Overtaken, r
<1>6. ASSUME NEW s \in Roles, SettleAudit(s) \/ \E call \in Calls : SettleSend(s, call) \/ SettleAwait(s, call),
             s # r
      PROVE  ~late'[r]
  <2>1. OnlyMoves(s)
    BY <1>1, <1>6, AuditMoves, SendMoves, AwaitMoves
  <2> QED BY <1>1, <1>6, <2>1 DEF OnlyMoves, r
<1>7. CASE late' = late
  BY <1>7 DEF r
<1>8. ASSUME NEW s \in Roles, SettleCrash(s) \/ StoreReceipt(s)
      PROVE  ~late'[r]
  <2>1. late' = [late EXCEPT ![s] = FALSE]
    BY <1>8 DEF SettleCrash, StoreReceipt
  <2> QED BY <1>1, <2>1 DEF MoneyType, r
<1>9. ASSUME NEW s \in Roles,
             \/ SettlePost(s) \/ SettleBootload(s) \/ SettleDelete(s)
             \/ (HandleRequest(s) \/ HandleTick(s)) /\ UNCHANGED money
      PROVE  late' = late
  BY <1>9 DEF SettlePost, SettleBootload, SettleDelete, money
<1>10. ASSUME NEW c \in Roles, NEW call \in Calls, SettleMine(call, c)
       PROVE  late' = late
  BY <1>10 DEF SettleMine
<1>11. CASE SettleClock \/ UNCHANGED allVars
  BY <1>7, <1>11 DEF SettleClock, money, allVars
<1>12. ASSUME NEW s \in Roles, SettleWork(s)
       PROVE  ~late'[r]
  <2>1. CASE s = r
    BY <1>3, <1>4, <1>5, <1>7, <1>9, <1>12, <2>1 DEF SettleWork
  <2>2. CASE s # r
    BY <1>6, <1>7, <1>9, <1>12, <2>2 DEF SettleWork
  <2> QED BY <2>1, <2>2
<1> QED
  BY <1>7, <1>8, <1>9, <1>10, <1>11, <1>12 DEF SettleNext

(* What r has spent, as it is where no share of the broker is in it, and   *)
(* nothing on Bitcoin before r's first call there is mined.                *)
LEMMA SpentBefore ==
  ASSUME MoneyType, MinedInv, NEW r \in Roles, NEW c \in Roles, NEW t \in Tokens
  PROVE  /\ r # c \/ htlc[c] = "none" => Allowed(r, c)[t] = granted[r][c][t]
         /\ r = c /\ htlc[c] \in {"open", "redeemed"} =>
              Allowed(r, c)[t] = granted[r][c][t] + ShareOf(c, t)
         /\ Kind[c] = "btc" => granted[r][c][t] = IF t = "btc" THEN MinedFees(r, c) ELSE 0
<1>1. granted[r][c] \in [Tokens -> Int] /\ Native[c].brokerFee \in Nat
  BY TermsBound DEF MoneyType
<1> QED BY <1>1 DEF Allowed, WithBroker, ShareOf, MinedInv

(* A call that sends: nothing of it was mined, or counted, before.         *)
LEMMA SendWithin ==
  ASSUME Worthwhile, NodesAnswer, FeesAreNat, IInv, IInv', MoneyType, MoneyType', MinedInv,
         [SettleNext]_allVars, wall' <= TimeLock,
         NEW r \in Roles, NEW call \in Calls, SettleSend(r, call),
         NEW c \in Roles, WithinAllowed(r, c)
  PROVE  WithinAllowed(r, c)'
<1>1. TypeOK /\ Target(r, call) \in Roles /\ Kind[c] \in Tokens
  BY TokensOf DEF IInv, Target, Peer, Roles
<1> PICK e \in Roles : e = Target(r, call)
  BY <1>1
<1>2. OnlyMoves(r) /\ told' = told /\ pc[r] = call
  BY <1>1, SendMoves
<1>3. htlc' = htlc /\ pc[r] \notin Waits /\ ~Ahead(r, c)
  BY <1>2 DEF OnlyMoves, Ahead, Calls, Waits
<1>4. r = c <=> IF e = c THEN call # "redeem" ELSE call = "redeem"
  BY DEF Target, Peer, Roles
<1>5. call # "refund"
  <2>1. wall <= TimeLock
    BY <1>2 DEF OnlyMoves
  <2> QED BY <1>2, <2>1, NoRefundYet
<1>6. CASE ~Accepts(call, e)
  <2>1. KeepsBooks(r) /\ pc'[r] \notin Waits
    BY <1>1, <1>6, SendMoves, SucceedMoves, FailMoves DEF Waits, Calls
  <2>2. ~AwaitsCharge(r, c)'
    BY <2>1 DEF AwaitsCharge, Waits
  <2> QED BY <1>2, <1>3, <2>1, <2>2, WithinStays DEF KeepsBooks
<1>7. Accepts(call, e) =>
        /\ pc'[r] = WaitOf(call)
        /\ IF Kind[e] = "btc" THEN granted' = granted /\ cost' = cost
           ELSE Grant(r, call, e) /\ Charge(r, call, e)
  BY <1>1, SendMoves
<1>8. CASE Accepts(call, e) /\ (e # c \/ Kind[e] = "btc")
  <2>1. cost'[r][c] = cost[r][c]
    BY <1>7, <1>8, ChargeAdds
  <2>2. ASSUME AwaitsCharge(r, c)', NEW t \in Tokens
        PROVE  cost[r][c][t] <= 0 /\ told[r][c][t] <= 0
    <3>1. e = c /\ Kind[c] = "btc"
      BY <1>4, <1>7, <1>8, <2>2 DEF AwaitsCharge, WaitOf, Calls
    <3>2. IF r = c THEN htlc[c] = "none" ELSE htlc[c] = "open"
      BY <1>4, <1>5, <1>8, <3>1 DEF Accepts, Initiatable, Redeemable, Calls
    <3>3. MinedFees(r, c) = 0
      BY <3>2 DEF MinedFees
    <3>4. Allowed(r, c)[t] = 0
      BY <2>2, <3>1, <3>2, <3>3, SpentBefore
    <3> QED BY <1>3, <2>2, <3>4 DEF WithinAllowed
  <2> QED BY <1>2, <1>3, <2>1, <2>2, WithinStays
<1>9. CASE Accepts(call, e) /\ e = c /\ Kind[c] # "btc"
  <2>1. ~AwaitsCharge(r, c)' /\ told'[r][c] = told[r][c]
    BY <1>2, <1>9 DEF AwaitsCharge
  <2> SUFFICES ASSUME NEW t \in Tokens
               PROVE  /\ told'[r][c][t] <= Allowed(r, c)'[t]
                      /\ \/ cost'[r][c][t] <= Allowed(r, c)'[t]
                         \/ Ahead(r, c)' /\ cost'[r][c][t] <= granted'[r][c][t] + ShareOf(c, t)
    BY <2>1 DEF WithinAllowed
  <2> DEFINE M == MinersEntry(r, call, c, t)
             B == BrokersEntry(r, call, c, t)
  <2>2. M \in Nat /\ B \in Int /\ ShareOf(c, t) \in Nat
    BY EntriesNotNegative
  <2>3. B = IF r = c THEN ShareOf(c, t) ELSE 0
    BY <1>4, <1>5, <1>9 DEF BrokersEntry, BrokerShare, ShareOf, SwapOf, Calls
  <2>4. /\ granted'[r][c][t] = granted[r][c][t] + M
        /\ cost'[r][c][t] = cost[r][c][t] + M + B
    BY <1>7, <1>9, GrantAdds, ChargeAdds
  <2> HIDE DEF M, B
  <2>5. /\ cost[r][c][t] \in Int /\ told[r][c][t] \in Int /\ granted[r][c][t] \in Int
        /\ cost'[r][c][t] \in Int /\ granted'[r][c][t] \in Int
    BY DEF MoneyType
  <2>6. /\ Allowed(r, c)[t] \in Int /\ Allowed(r, c)'[t] \in Int
        /\ Allowed(r, c)[t] <= Allowed(r, c)'[t]
        /\ r # c \/ htlc'[c] = "none" => Allowed(r, c)'[t] = granted'[r][c][t]
    BY AllowedGrows
  <2>7. told[r][c][t] <= Allowed(r, c)[t] /\ cost[r][c][t] <= Allowed(r, c)[t]
    BY <1>3 DEF WithinAllowed
  <2>8. told'[r][c][t] <= Allowed(r, c)'[t]
    BY <2>1, <2>5, <2>6, <2>7
  <2>9. r # c \/ htlc[c] = "none"
    BY <1>4, <1>5, <1>9 DEF Accepts, Initiatable, Calls
  <2>10. Allowed(r, c)[t] = granted[r][c][t]
    BY <2>9, SpentBefore
  <2>11. CASE r = c
    <3>1. Ahead(r, c)'
      BY <1>4, <1>5, <1>7, <1>9, <2>11 DEF Ahead, WaitOf, Calls
    <3>2. cost'[r][c][t] <= granted'[r][c][t] + ShareOf(c, t)
      BY <2>2, <2>3, <2>4, <2>5, <2>7, <2>10, <2>11
    <3> QED BY <2>8, <3>1, <3>2
  <2>12. CASE r # c
    <3>1. cost'[r][c][t] <= Allowed(r, c)'[t]
      BY <2>2, <2>3, <2>4, <2>5, <2>6, <2>7, <2>10, <2>12
    <3> QED BY <2>8, <3>1
  <2> QED BY <2>11, <2>12
<1> QED BY <1>6, <1>8, <1>9

(* A charge at the end of a wait is of what was mined.                     *)
LEMMA AwaitWithin ==
  ASSUME Worthwhile, NodesAnswer, FeesAreNat, IInv, IInv', MoneyType, MoneyType', FlightInv, MinedInv,
         [SettleNext]_allVars, wall' <= TimeLock,
         NEW r \in Roles, NEW call \in Calls, SettleAwait(r, call),
         NEW c \in Roles, WithinAllowed(r, c)
  PROVE  WithinAllowed(r, c)'
<1>1. TypeOK /\ Target(r, call) \in Roles /\ Kind[c] \in Tokens
  BY TokensOf DEF IInv, Target, Peer, Roles
<1> PICK e \in Roles : e = Target(r, call)
  BY <1>1
<1>2. /\ OnlyMoves(r) /\ told' = told /\ granted' = granted /\ pc[r] = WaitOf(call) /\ Overtaken(call, e)
      /\ IF Kind[e] = "btc" THEN Charge(r, call, e) ELSE cost' = cost
      /\ Succeed(r, call) \/ Fail(r, call)
  BY <1>1, AwaitMoves
<1>3. htlc' = htlc /\ wall' = wall
  BY <1>2 DEF OnlyMoves
<1>4. pc'[r] \notin Waits
  BY <1>1, <1>2, SucceedMoves, FailMoves DEF Waits, Calls
<1>5. ~AwaitsCharge(r, c)'
  BY <1>4 DEF AwaitsCharge, Waits
<1>6. r = c <=> IF e = c THEN call # "redeem" ELSE call = "redeem"
  BY DEF Target, Peer, Roles
<1>7. call # "refund" /\ htlc[c] \in {"none", "open", "redeemed"}
  BY <1>2, <1>3, NoRefundYet DEF WaitOf
<1>8. CASE e # c \/ Kind[e] # "btc"
  <2>1. cost'[r][c] = cost[r][c]
    BY <1>2, <1>8, ChargeAdds
  <2>2. Ahead(r, c) => htlc'[c] # "none"
    BY <1>2, <1>3, <1>6 DEF Ahead, Overtaken, WaitOf, Calls
  <2> QED BY <1>2, <1>5, <2>1, <2>2, WithinStays
<1>9. CASE e = c /\ Kind[c] = "btc"
  <2> SUFFICES ASSUME NEW t \in Tokens
               PROVE  told'[r][c][t] <= Allowed(r, c)'[t] /\ cost'[r][c][t] <= Allowed(r, c)'[t]
    BY <1>5 DEF WithinAllowed
  <2>1. /\ cost[r][c][t] \in Int /\ told[r][c][t] \in Int /\ granted[r][c][t] \in Int
        /\ SwapOf(r, c).fee \in Int /\ ShareOf(c, t) \in Nat
    BY TermsBound DEF MoneyType, ShareOf
  <2>2. told[r][c][t] <= Allowed(r, c)[t]
    BY DEF WithinAllowed
  <2>3. cost[r][c][t] <= 0
    <3>1. AwaitsCharge(r, c)
      BY <1>2, <1>6, <1>7, <1>9 DEF AwaitsCharge, WaitOf, Calls
    <3> QED BY <3>1 DEF WithinAllowed
  <2>4. cost'[r][c][t] = cost[r][c][t] + MinersEntry(r, call, c, t) + BrokersEntry(r, call, c, t)
    BY <1>2, <1>9, ChargeAdds
  <2>5. /\ MinersEntry(r, call, c, t) = IF t = "btc" THEN SwapOf(r, c).fee ELSE 0
        /\ BrokersEntry(r, call, c, t) = IF r = c THEN ShareOf(c, t) ELSE 0
    BY <1>6, <1>7, <1>9
    DEF MinersEntry, MinersFee, FeeToken, BrokersEntry, BrokerShare, ShareOf, SwapOf, Calls
  <2>6. IF r = c THEN htlc[c] \in {"open", "redeemed"} ELSE htlc[c] = "redeemed"
    BY <1>2, <1>6, <1>7, <1>9 DEF Overtaken, Spent, Calls
  <2>7. MinedFees(r, c) = SwapOf(r, c).fee
    BY <2>6 DEF MinedFees
  <2>8. Allowed(r, c)[t] =
          (IF t = "btc" THEN SwapOf(r, c).fee ELSE 0) + (IF r = c THEN ShareOf(c, t) ELSE 0)
    BY <1>9, <2>1, <2>6, <2>7, SpentBefore
  <2>9. cost'[r][c][t] <= Allowed(r, c)[t]
    BY <2>1, <2>3, <2>4, <2>5, <2>8
  <2>10. Allowed(r, c)'[t] = Allowed(r, c)[t]
    BY <1>2, <1>3 DEF Allowed, WithBroker
  <2> QED BY <1>2, <2>2, <2>9, <2>10
<1> QED BY <1>8, <1>9

LEMMA NextWithin ==
  ASSUME Worthwhile, NodesAnswer, FeesAreNat, IInv, IInv', RefundingInv, MoneyType, MoneyType',
         FlightInv, MinedInv, WithinInv, [SettleNext]_allVars
  PROVE  WithinInv'
<1>1. TypeOK /\ [Next]_vars
  BY StepIsSwap DEF IInv
<1>2. ASSUME NEW r \in Roles, NEW c \in Roles, NEW t \in Tokens
      PROVE  granted[r][c][t] \in Int /\ granted'[r][c][t] \in Int /\ granted'[r][c][t] >= 0
  <2>1. granted[r][c][t] >= 0 /\ granted'[r][c][t] >= granted[r][c][t]
    BY <1>1, GrantGrows DEF WithinInv
  <2>2. granted[r][c][t] \in Int /\ granted'[r][c][t] \in Int
    BY DEF MoneyType
  <2> QED BY <2>1, <2>2
<1> SUFFICES ASSUME wall' <= TimeLock
             PROVE  /\ htlc'["initiator"] = "none" => ~late'["initiator"]
                    /\ \A r, c \in Roles : CountsTwice(r, c) \/ WithinAllowed(r, c)'
  <2>1. \A r, c \in Roles : CountsTwice(r, c)' <=> CountsTwice(r, c)
    BY DEF CountsTwice
  <2> QED BY <1>2, <2>1 DEF WithinInv, TimeLock
<1>3. wall <= TimeLock
  BY <1>1, Final
<1>4. htlc'["initiator"] = "none" => ~late'["initiator"]
  <2>1. "initiator" \in Roles
    BY DEF Roles
  <2>2. htlc' = htlc \/ \E d \in Roles, call \in Calls : Mine(call, d)
    BY <1>1, OnlyChainsMove DEF AdvanceClock
  <2>3. ASSUME NEW d \in Roles, NEW call \in Calls, Mine(call, d)
        PROVE  htlc'["initiator"] = htlc["initiator"] \/ htlc'["initiator"] # "none"
    BY <1>1, <2>1, <2>3, MineMoves DEF Effect
  <2> QED BY <1>3, <2>2, <2>3, LateFunded DEF WithinInv
<1> SUFFICES ASSUME NEW r \in Roles, NEW c \in Roles, ~CountsTwice(r, c)
             PROVE  WithinAllowed(r, c)'
  BY <1>4
<1>5. WithinAllowed(r, c)
  BY <1>3 DEF WithinInv
<1>6. AwaitsCharge(r, c) => \A t \in Tokens : cost[r][c][t] <= 0 /\ told[r][c][t] <= 0
  BY <1>5 DEF WithinAllowed
<1>7. ASSUME cost'[r][c] \in {cost[r][c], told[r][c]}, told'[r][c] = told[r][c],
             pc'[r] = pc[r] \/ (pc[r] \notin Waits /\ pc'[r] \notin Waits)
      PROVE  WithinAllowed(r, c)'
  <2>1. /\ AwaitsCharge(r, c)' => AwaitsCharge(r, c)
        /\ Ahead(r, c) => Ahead(r, c)'
    BY <1>7 DEF AwaitsCharge, Ahead, Waits
  <2> QED BY <1>5, <1>6, <1>7, <2>1, WithinStays
<1>8. CASE SettleClock \/ UNCHANGED allVars \/ \E d \in Roles, call \in Calls : SettleMine(call, d)
  <2>1. cost' = cost /\ told' = told /\ pc' = pc
    BY <1>8 DEF SettleClock, SettleMine, money, daemonVars, vars, allVars
  <2> QED BY <1>7, <2>1
<1>9. ASSUME NEW s \in Roles, SettlePost(s) \/ SettleBootload(s)
      PROVE  WithinAllowed(r, c)'
  <2>1. cost' = [cost EXCEPT ![s] = told[s]] /\ told' = told /\ pc' = pc
    BY <1>9 DEF SettlePost, SettleBootload, LoadCosts, PostSwap, Bootload
  <2>2. cost'[r] \in {cost[r], told[r]}
    BY <2>1 DEF MoneyType
  <2> QED BY <1>7, <2>1, <2>2
<1>10. ASSUME NEW s \in Roles, SettleDelete(s)
       PROVE  WithinAllowed(r, c)'
  BY <1>7, <1>10 DEF SettleDelete, DeleteSwap, money
<1>11. ASSUME NEW s \in Roles,
              SettleAudit(s) \/ ((HandleRequest(s) \/ HandleTick(s)) /\ UNCHANGED money)
       PROVE  WithinAllowed(r, c)'
  <2>1. /\ OnlyMoves(s) /\ KeepsBooks(s)
        /\ pc[s] \notin Waits /\ pc'[s] \notin Waits
    BY <1>1, <1>11, AuditMoves, HandleMoves DEF Waits
  <2> QED BY <1>7, <2>1 DEF OnlyMoves, KeepsBooks
<1>12. ASSUME NEW s \in Roles, NEW call \in Calls, SettleSend(s, call) \/ SettleAwait(s, call)
       PROVE  WithinAllowed(r, c)'
  <2>1. CASE s # r
    <3>1. OnlyMoves(s)
      BY <1>1, <1>12, SendMoves, AwaitMoves
    <3> QED BY <1>7, <2>1, <3>1 DEF OnlyMoves
  <2>2. CASE s = r
    BY <1>5, <1>12, <2>2, SendWithin, AwaitWithin
  <2> QED BY <2>1, <2>2
<1>13. ASSUME NEW s \in Roles, SettleCrash(s)
       PROVE  WithinAllowed(r, c)'
  <2>1. /\ cost' = [cost EXCEPT ![s] = NoCost] /\ told' = told /\ pc' = [pc EXCEPT ![s] = "idle"]
    BY <1>13 DEF SettleCrash, Crash
  <2>2. CASE s # r
    BY <1>7, <2>1, <2>2
  <2>3. CASE s = r
    <3>1. ~AwaitsCharge(r, c)'
      BY <1>1, <2>1, <2>3 DEF AwaitsCharge, TypeOK, DaemonTypeOK
    <3>2. ASSUME NEW t \in Tokens
          PROVE  told'[r][c][t] <= Allowed(r, c)'[t] /\ cost'[r][c][t] <= Allowed(r, c)'[t]
      <4>1. told[r][c][t] \in Int /\ ShareOf(c, t) \in Nat
        BY TermsBound DEF MoneyType, ShareOf
      <4>2. /\ Allowed(r, c)[t] \in Int /\ Allowed(r, c)'[t] \in Int
            /\ Allowed(r, c)[t] <= Allowed(r, c)'[t]
            /\ r = c /\ htlc'[c] # "none" => Allowed(r, c)'[t] = granted'[r][c][t] + ShareOf(c, t)
            /\ r # c \/ htlc'[c] = "none" => Allowed(r, c)'[t] = granted'[r][c][t]
        BY AllowedGrows
      <4>3. told[r][c][t] <= Allowed(r, c)[t]
        BY <1>5 DEF WithinAllowed
      <4>4. cost'[r][c][t] = 0
        BY <2>1, <2>3 DEF MoneyType, NoCost
      <4>5. Allowed(r, c)'[t] >= 0
        BY <1>2, <4>1, <4>2
      <4> QED BY <2>1, <4>1, <4>2, <4>3, <4>4, <4>5
    <3> QED BY <3>1, <3>2 DEF WithinAllowed
  <2> QED BY <2>2, <2>3
<1>14. ASSUME NEW s \in Roles, StoreReceipt(s)
       PROVE  WithinAllowed(r, c)'
  <2>1. /\ late[s] /\ UNCHANGED vars /\ cost' = cost /\ granted' = granted
        /\ told' = [told EXCEPT ![s] = cost[s]]
    BY <1>14 DEF StoreReceipt, ledger
  <2>2. pc' = pc /\ htlc' = htlc
    BY <2>1 DEF vars, chainVars, daemonVars
  <2>3. CASE s # r
    BY <1>7, <2>1, <2>2, <2>3
  <2>4. CASE s = r
    <3>1. told'[r][c] = cost[r][c]
      BY <2>1, <2>4 DEF MoneyType
    <3>2. AwaitsCharge(r, c)' => AwaitsCharge(r, c)
      BY <2>2 DEF AwaitsCharge
    <3>3. ASSUME NEW t \in Tokens
          PROVE  cost[r][c][t] <= Allowed(r, c)[t]
      <4>1. CASE ~Ahead(r, c)
        BY <1>5, <4>1 DEF WithinAllowed
      <4>2. CASE Ahead(r, c)
        <5>1. r = c /\ r = "initiator"
          BY <4>2 DEF Ahead, CountsTwice, Roles
        <5>2. htlc[c] # "none" /\ htlc[c] \in {"none", "open", "redeemed"}
          BY <1>3, <2>1, <2>4, <5>1, NoRefundYet DEF WithinInv
        <5>3. Allowed(r, c)[t] = granted[r][c][t] + ShareOf(c, t)
          BY <5>1, <5>2, SpentBefore
        <5> QED BY <1>5, <5>3 DEF WithinAllowed
      <4> QED BY <4>1, <4>2
    <3>4. Allowed(r, c)' = Allowed(r, c)
      BY <2>1, <2>2 DEF Allowed, WithBroker
    <3> QED BY <1>6, <2>1, <3>1, <3>2, <3>3, <3>4 DEF WithinAllowed
  <2> QED BY <2>3, <2>4
<1> QED
  BY <1>8, <1>9, <1>10, <1>11, <1>12, <1>13, <1>14 DEF SettleNext, SettleWork

LEMMA InitWithin ==
  ASSUME SettleInit
  PROVE  WithinInv
<1>1. /\ htlc = [c \in Roles |-> "none"] /\ pc = [r \in Roles |-> "idle"]
      /\ late = [r \in Roles |-> FALSE] /\ MoneyType
      /\ \A r, c \in Roles, t \in Tokens : granted[r][c][t] = 0 /\ cost[r][c][t] = 0 /\ told[r][c][t] = 0
  BY InitCosts DEF SettleInit, Init, ChainInit, NoCost
<1>2. \A r, c \in Roles : WithinAllowed(r, c)
  <2> SUFFICES ASSUME NEW r \in Roles, NEW c \in Roles, NEW t \in Tokens
               PROVE  Allowed(r, c)[t] = 0
    BY <1>1 DEF WithinAllowed
  <2>1. Native[c].brokerFee \in Int /\ granted[r][c] \in [Tokens -> Int] /\ htlc[c] = "none"
    BY <1>1, TermsBound DEF MoneyType
  <2> QED BY <1>1, <2>1 DEF Allowed, WithBroker
<1> QED BY <1>1, <1>2 DEF WithinInv, Roles

(* Until the time lock no receipt tells its user of more than the          *)
(* transactions of the daemon allow to be taken, at any moment and across  *)
(* any number of crashes: what Bitcoin charges at the end of a wait was    *)
(* mined, and what a restarted daemon counts comes on top of what was      *)
(* stored.                                                                 *)
THEOREM TellsWithinLimits ==
  ASSUME Worthwhile, NodesAnswer, FeesAreNat
  PROVE  SettleSpec => []WithinLimits
<1> DEFINE SInv == IInv /\ RefundingInv /\ MoneyType /\ FlightInv /\ MinedInv /\ WithinInv
<1>1. SettleInit => SInv
  BY InitInv, InitEnds, InitCosts, InitWithin DEF SettleInit
<1>2. SInv /\ [SettleNext]_allVars => SInv'
  <2> SUFFICES ASSUME SInv, [SettleNext]_allVars
               PROVE  SInv'
    OBVIOUS
  <2>1. [Next]_vars /\ ReliableNodes
    BY StepIsSwap DEF NodesAnswer, ReliableNodes
  <2>2. IInv' /\ RefundingInv'
    BY <2>1, NextInv, NextRefunding
  <2>3. TypeOK /\ TypeOK'
    BY <2>2 DEF IInv
  <2>4. MoneyType' /\ FlightInv' /\ MinedInv'
    BY <2>3, NextMoneyType, NextFlight, NextMined
  <2>5. WithinInv'
    BY <2>2, <2>4, NextWithin
  <2> QED BY <2>2, <2>4, <2>5
<1>3. SInv => WithinLimits
  BY DEF WithinInv, WithinAllowed, WithinLimits
<1> HIDE DEF SInv
<1> QED BY <1>1, <1>2, <1>3, PTL DEF SettleSpec
=============================================================================
