-------------------------- MODULE Transfers_proofs --------------------------
(***************************************************************************)
(* Proofs about Transfers, for every set of requests, every balance and    *)
(* every set of faults.                                                    *)
(***************************************************************************)
EXTENDS Transfers, Terms_proofs, SequenceTheorems

USE RequestsAssumption, FundsAssumption

-----------------------------------------------------------------------------
(* Type correctness                                                        *)

LEMMA TakenType ==
  ASSUME NEW q \in Requests
  PROVE  Taken(q) \in [Tokens -> Nat]
<1>1. Token[q] \in {"eth", "erc20", "btc"} /\ Amount[q] \in Nat
  OBVIOUS
<1>2. CASE Token[q] = "eth"
  BY <1>1, <1>2 DEF Taken, Tokens
<1>3. CASE Token[q] = "erc20"
  BY <1>1, <1>3 DEF Taken, Tokens
<1>4. CASE Token[q] = "btc"
  BY <1>1, <1>4 DEF Taken, Tokens, BitcoinCost
<1> QED BY <1>1, <1>2, <1>3, <1>4

LEMMA FeeType ==
  ASSUME NEW amount \in Nat
  PROVE  DGXFee(amount) \in Nat
BY DEF DGXFee, FeesFromBips

LEMMA WriteEntryType ==
  ASSUME TypeOK, NEW amount \in Nat, NEW requests, WriteEntry(amount, requests)
  PROVE  entry' \in Nat /\ since' \in [Requests -> SUBSET Nat]
<1>1. entry' \in Nat
  BY FeeType DEF WriteEntry
<1>2. since' \in [Requests -> SUBSET Nat]
  BY DEF WriteEntry, TypeOK
<1> QED BY <1>1, <1>2

LEMMA NextType ==
  ASSUME TypeOK, [Next]_vars
  PROVE  TypeOK'
<1> USE DEF TypeOK
<1>1. ASSUME NEW q \in Requests, Check(q)
      PROVE  TypeOK'
  BY <1>1 DEF Check, Goto, Places, Ends
<1>2. ASSUME NEW q \in Requests, Accept(q)
      PROVE  TypeOK'
  <2>1. queue' \in Seq(Requests)
    <3>1. queue' = queue \/ queue' = Append(queue, q)
      BY <1>2 DEF Accept
    <3>2. Append(queue, q) \in Seq(Requests)
      BY AppendProperties
    <3> QED BY <3>1, <3>2
  <2>2. place' \in [Requests -> Places]
    BY <1>2 DEF Accept, Goto, Places, Ends
  <2> QED BY <1>2, <2>1, <2>2 DEF Accept
<1>3. ASSUME NEW q \in Requests, Mine(q)
      PROVE  TypeOK'
  <2>1. CASE CanPay(q)
    <3>1. Owner[q] \in Accounts
      BY DEF Accounts
    <3> DEFINE rest == [t \in Tokens |-> balance[Owner[q]][t] - Taken(q)[t]]
    <3>2. rest \in [Tokens -> Nat]
      BY <2>1, <3>1, TakenType DEF CanPay
    <3>3. balance' = [balance EXCEPT ![Owner[q]] = rest]
      BY <1>3, <2>1, Zenon DEF Mine
    <3>4. balance' \in [Accounts -> [Tokens -> Nat]]
      <4> HIDE DEF rest
      <4> QED BY <3>1, <3>2, <3>3
    <3>5. payments' = [payments EXCEPT ![q] = @ + 1]
      BY <1>3, <2>1, Zenon DEF Mine
    <3>6. payments' \in [Requests -> Nat]
      BY <3>5
    <3> QED BY <1>3, <3>4, <3>6 DEF Mine
  <2>2. CASE ~CanPay(q)
    BY <1>3, <2>2 DEF Mine
  <2> QED BY <2>1, <2>2
<1>4. ASSUME NEW q \in Requests, Publish(q)
      PROVE  TypeOK'
  <2>1. queue' \in Seq(Requests)
    BY <1>4, HeadTailProperties DEF Publish
  <2>2. place' \in [Requests -> Places] /\ pool' \subseteq Requests
    BY <1>4 DEF Publish, Goto, Places, Ends
  <2> QED BY <1>4, <2>1, <2>2 DEF Publish
<1>5. ASSUME NEW q \in Requests, Wait(q)
      PROVE  TypeOK'
  BY <1>5 DEF Wait, Goto, Places, Ends
<1>6. ASSUME NEW q \in Requests, Store(q)
      PROVE  TypeOK'
  <2>1. place' \in [Requests -> Places]
    BY <1>6 DEF Store, Goto, Places, Ends
  <2>2. receipts' \in [Requests -> Nat \cup {Unlisted}]
    <3>1. \/ UNCHANGED receipts
          \/ receipts' = [receipts EXCEPT ![q] = IF Token[q] = "btc" THEN 0 ELSE entry]
      BY <1>6 DEF Store
    <3>2. (IF Token[q] = "btc" THEN 0 ELSE entry) \in Nat \cup {Unlisted}
      OBVIOUS
    <3> QED BY <3>1, <3>2
  <2> QED BY <1>6, <2>1, <2>2 DEF Store
<1>7. ASSUME NEW o \in Accounts, GetTransfers(o)
      PROVE  TypeOK'
  <2>1. Own(o) \subseteq Requests
    BY DEF Own
  <2>2. shown' = [shown EXCEPT ![o] = Own(o)] \/ shown' = [shown EXCEPT ![o] = {"error"}]
    BY <1>7 DEF GetTransfers
  <2>3. shown' \in [Accounts -> {{"error"}} \cup SUBSET Requests]
    BY <2>1, <2>2
  <2> QED BY <1>7, <2>3 DEF GetTransfers
<1>8. CASE Crash
  <2>1. place' \in [Requests -> Places]
    BY <1>8 DEF Crash, Places, Ends
  <2>2. queue' \in Seq(Requests)
    BY <1>8, EmptySeq DEF Crash
  <2>3. crashes' \in Nat /\ entry' \in Nat
    BY <1>8 DEF Crash
  <2>4. UNCHANGED <<since, balance, pool, payments, receipts, shown, swaps>>
    BY <1>8 DEF Crash
  <2> QED BY <2>1, <2>2, <2>3, <2>4
<1>9. ASSUME NEW q \in Requests, Price(q)
      PROVE  TypeOK'
  <2>1. place' \in [Requests -> Places]
    <3>1. place' = [place EXCEPT ![q] = "priced"]
      BY <1>9 DEF Price, Goto
    <3> QED BY <3>1 DEF Places
  <2>2. WriteEntry(Amount[q], Open \cup {q}) \/ UNCHANGED <<entry, since>>
    BY <1>9 DEF Price
  <2>3. entry' \in Nat /\ since' \in [Requests -> SUBSET Nat]
    BY <2>2, WriteEntryType
  <2> QED BY <1>9, <2>1, <2>3 DEF Price
<1>10. ASSUME NEW value \in SwapValues, PriceSwap(value)
      PROVE  TypeOK'
  <2>1. entry' \in Nat /\ since' \in [Requests -> SUBSET Nat]
    BY <1>10, WriteEntryType DEF PriceSwap
  <2>2. swaps' \in Nat
    BY <1>10 DEF PriceSwap
  <2> QED BY <1>10, <2>1, <2>2 DEF PriceSwap
<1>11. CASE UNCHANGED vars
  BY <1>11 DEF vars
<1> QED BY <1>1, <1>2, <1>3, <1>4, <1>5, <1>6, <1>7, <1>8, <1>9, <1>10, <1>11 DEF Next, Task

LEMMA InitType == Init => TypeOK
BY DEF Init, TypeOK, Places, Unlisted

(* Every variable of the handler, the task and the chain keeps its type.   *)
THEOREM TypeCorrect == Spec => []TypeOK
BY InitType, NextType, PTL DEF Spec

-----------------------------------------------------------------------------
(* The operators                                                           *)

(* What the check of a POST asks for covers all that the transfer takes.   *)
LEMMA CheckCovers ==
  ASSUME TypeOK, NEW q \in Requests, VerifyBalance(q)
  PROVE  CanPay(q)
<1>1. /\ Token[q] \in {"eth", "erc20", "btc"} /\ Amount[q] \in Nat
      /\ Owner[q] \in Accounts /\ entry \in Nat
      /\ balance[Owner[q]] \in [Tokens -> Nat]
  <2>1. Owner[q] \in Accounts
    BY DEF Accounts
  <2> QED BY <2>1 DEF TypeOK
<1>2. CASE Token[q] = "eth"
  BY <1>1, <1>2 DEF VerifyBalance, VerifyEthereum, CanPay, Taken, Tokens
<1>3. CASE Token[q] = "erc20"
  BY <1>1, <1>3 DEF VerifyBalance, VerifyERC20, CanPay, Taken, Tokens
<1>4. CASE Token[q] = "btc"
  BY <1>1, <1>4 DEF VerifyBalance, VerifyBitcoin, CanPay, Taken, Tokens, BitcoinCost, Dust
<1> QED BY <1>1, <1>2, <1>3, <1>4

LEMMA FeeIsFee ==
  ASSUME NEW amount \in Nat
  PROVE  IsFeeFor(DGXFee(amount), amount)
BY DGXFeeExact DEF IsFeeFor

(* What was priced is remembered.                                          *)
LEMMA SinceGrows ==
  ASSUME TypeOK, [Next]_vars
  PROVE  \A p \in Requests : since[p] \subseteq since'[p]
<1>1. \/ UNCHANGED since
      \/ \E amount, requests : WriteEntry(amount, requests)
  BY DEF Next, Task, Check, Price, Accept, PriceSwap, Mine, Publish, Wait, Store, GetTransfers, Crash, vars
<1>2. CASE UNCHANGED since
  BY <1>2
<1>3. ASSUME NEW amount, NEW requests, WriteEntry(amount, requests)
      PROVE  \A p \in Requests : since[p] \subseteq since'[p]
  BY <1>3 DEF WriteEntry
<1> QED BY <1>1, <1>2, <1>3

LEMMA FeeStep ==
  ASSUME NEW fee, NEW amounts, NEW more, amounts \subseteq more, IsFeeOfSome(fee, amounts)
  PROVE  IsFeeOfSome(fee, more)
BY DEF IsFeeOfSome

(* After a pricing the entry is the fee of an amount that was priced since.*)
LEMMA PricedEntry ==
  ASSUME TypeOK, NEW amount \in Nat, NEW requests, WriteEntry(amount, requests),
         NEW q \in Requests, q \in requests
  PROVE  IsFeeOfSome(entry', since'[q])
<1>1. entry' = DGXFee(amount) /\ amount \in since'[q]
  BY DEF WriteEntry
<1> QED BY <1>1, FeeIsFee DEF IsFeeOfSome

-----------------------------------------------------------------------------
(* The inductive invariant                                                 *)

(* A request is in the queue once, as long as its place says so.           *)
LEMMA QueueStep ==
  ASSUME TypeOK, QueueInv, [Next]_vars
  PROVE  QueueInv'
<1> USE DEF TypeOK
<1>1. DOMAIN queue = 1..Len(queue) /\ Len(queue) \in Nat
  BY LenProperties
<1> DEFINE n == Len(queue)
<1>a. \A k \in 1..n : queue[k] \in Requests /\ place[queue[k]] = "queued"
  BY <1>1, ElementOfSeq DEF QueueInv
<1>b. \A j, k \in 1..n : queue[j] = queue[k] => j = k
  BY <1>1 DEF QueueInv
<1>2. ASSUME NEW q \in Requests, Check(q) \/ Price(q) \/ Wait(q) \/ Store(q)
      PROVE  QueueInv'
  <2>1. place[q] # "queued" /\ queue' = queue
    BY <1>2 DEF Check, Price, Wait, Store
  <2>2. \A p \in Requests : p # q => place'[p] = place[p]
    BY <1>2 DEF Check, Price, Wait, Store, Goto
  <2> QED BY <1>1, <1>a, <1>b, <2>1, <2>2 DEF QueueInv
<1>3. ASSUME NEW q \in Requests, Accept(q)
      PROVE  QueueInv'
  <2>a. \A k \in 1..n : queue[k] # q
    BY <1>3, <1>a DEF Accept
  <2>b. CASE UNCHANGED queue /\ Goto(q, "refused")
    <3>1. \A p \in Requests : p # q => place'[p] = place[p]
      BY <2>b DEF Goto
    <3> QED BY <1>1, <1>a, <1>b, <2>a, <2>b, <3>1 DEF QueueInv
  <2>c. CASE queue' = Append(queue, q) /\ Goto(q, "queued")
    <3>1. /\ DOMAIN queue' = 1..(n + 1)
          /\ \A k \in 1..n : queue'[k] = queue[k]
          /\ queue'[n + 1] = q
      BY <2>c, <1>1, AppendProperties, LenProperties
    <3>2. place' = [place EXCEPT ![q] = "queued"]
      BY <2>c DEF Goto
    <3>3. \A k \in 1..(n + 1) : k \in 1..n \/ k = n + 1
      <4>1. n \in Nat
        BY <1>1
      <4> HIDE DEF n
      <4> QED BY <4>1
    <3>4. \A k \in 1..(n + 1) : place'[queue'[k]] = "queued"
      BY <1>a, <2>a, <3>1, <3>2, <3>3
    <3>5. \A j, k \in 1..(n + 1) : queue'[j] = queue'[k] => j = k
      BY <1>b, <2>a, <3>1, <3>3
    <3> QED BY <3>1, <3>4, <3>5 DEF QueueInv
  <2> QED BY <1>3, <2>b, <2>c DEF Accept
<1>4. ASSUME NEW q \in Requests, Publish(q)
      PROVE  QueueInv'
  <2>1. /\ n > 0 /\ q = queue[1]
        /\ DOMAIN queue' = 1..(n - 1)
        /\ \A k \in 1..(n - 1) : queue'[k] = queue[k + 1]
    BY <1>4, <1>1, HeadTailProperties, LenProperties, EmptySeq DEF Publish
  <2>2. \A k \in 1..(n - 1) : k + 1 \in 1..n /\ k + 1 # 1 /\ 1 \in 1..n
    BY <1>1
  <2>3. \A p \in Requests : p # q => place'[p] = place[p]
    BY <1>4 DEF Publish, Goto
  <2>4. \A k \in 1..(n - 1) : place'[queue'[k]] = "queued"
    <3> SUFFICES ASSUME NEW k \in 1..(n - 1)
                 PROVE  place'[queue'[k]] = "queued"
      OBVIOUS
    <3>1. queue[k + 1] # q
      BY <1>b, <2>1, <2>2
    <3> QED BY <1>a, <2>1, <2>2, <2>3, <3>1
  <2>5. \A j, k \in 1..(n - 1) : queue'[j] = queue'[k] => j = k
    <3> SUFFICES ASSUME NEW j \in 1..(n - 1), NEW k \in 1..(n - 1), queue'[j] = queue'[k]
                 PROVE  j = k
      OBVIOUS
    <3>1. j + 1 = k + 1
      BY <1>b, <2>1, <2>2
    <3> QED BY <3>1
  <2> QED BY <2>1, <2>4, <2>5 DEF QueueInv
<1>5. CASE Crash
  BY <1>5 DEF Crash, QueueInv
<1>6. CASE UNCHANGED <<place, queue>>
  BY <1>6 DEF QueueInv
<1> QED BY <1>2, <1>3, <1>4, <1>5, <1>6 DEF Next, Task, PriceSwap, Mine, GetTransfers, vars

(* The request whose turn it is has been accepted and not been published.  *)
LEMMA HeadIsQueued ==
  ASSUME TypeOK, QueueInv, queue # <<>>
  PROVE  Head(queue) \in Requests /\ place[Head(queue)] = "queued"
BY LenProperties, HeadTailProperties, EmptySeq DEF TypeOK, QueueInv

(* No request is paid twice.                                               *)
LEMMA PaidStep ==
  ASSUME TypeOK, QueueInv, PaidInv, [Next]_vars
  PROVE  PaidInv'
<1>t. /\ place \in [Requests -> Places] /\ pool \subseteq Requests
      /\ payments \in [Requests -> Nat] /\ receipts \in [Requests -> Nat \cup {Unlisted}]
  BY DEF TypeOK
<1>1. ASSUME NEW q \in Requests, Check(q) \/ Price(q) \/ Accept(q) \/ Wait(q)
      PROVE  PaidInv'
  BY <1>1, <1>t DEF Check, Price, Accept, Wait, Goto, PaidInv, Unlisted
<1>2. ASSUME NEW q \in Requests, Mine(q)
      PROVE  PaidInv'
  BY <1>2, <1>t DEF Mine, PaidInv
<1>3. ASSUME NEW q \in Requests, Publish(q)
      PROVE  PaidInv'
  <2>1. place[q] = "queued"
    BY <1>3, HeadIsQueued DEF Publish
  <2>2. /\ \A p \in Requests : p # q => place'[p] = place[p]
        /\ place'[q] \in {"waiting", "poor", "unsent"}
        /\ UNCHANGED <<payments, receipts>>
        /\ UNCHANGED pool \/ (pool' = pool \cup {q} /\ place'[q] = "waiting")
    BY <1>3, <1>t DEF Publish, Goto
  <2>3. payments[q] = 0 /\ receipts[q] = Unlisted /\ q \notin pool
    BY <1>t, <2>1 DEF PaidInv
  <2>4. payments[q] \in {0, 1}
    BY <2>3
  <2> QED BY <2>1, <2>2, <2>3, <2>4 DEF PaidInv
<1>4. ASSUME NEW q \in Requests, Store(q)
      PROVE  PaidInv'
  BY <1>4, <1>t DEF Store, Goto, PaidInv
<1>5. CASE Crash
  BY <1>5, <1>t DEF Crash, PaidInv
<1>6. CASE UNCHANGED <<place, pool, payments, receipts>>
  BY <1>6 DEF PaidInv
<1> QED BY <1>1, <1>2, <1>3, <1>4, <1>5, <1>6 DEF Next, Task, PriceSwap, GetTransfers, vars

(* Nothing that was paid or listed is taken back.                          *)
LEMMA HistoryStep ==
  ASSUME TypeOK, PaidInv, [Next]_vars, NEW q \in Requests
  PROVE  /\ payments[q] > 0 => payments'[q] = payments[q]
         /\ receipts[q] # Unlisted => receipts'[q] # Unlisted
<1> USE DEF TypeOK
<1>1. ASSUME NEW p \in Requests, Mine(p)
      PROVE  UNCHANGED receipts /\ (payments[q] > 0 => payments'[q] = payments[q])
  <2>1. payments[p] = 0 /\ UNCHANGED receipts
    BY <1>1 DEF Mine, PaidInv
  <2>2. UNCHANGED payments \/ payments' = [payments EXCEPT ![p] = @ + 1]
    BY <1>1 DEF Mine
  <2> QED BY <2>1, <2>2
<1>2. ASSUME NEW p \in Requests, Store(p)
      PROVE  UNCHANGED payments /\ (receipts[q] # Unlisted => receipts'[q] # Unlisted)
  BY <1>2 DEF Store, Unlisted
<1>3. \/ \E p \in Requests : Mine(p) \/ Store(p)
      \/ UNCHANGED <<payments, receipts>>
  BY DEF Next, Task, Check, Price, Accept, PriceSwap, Publish, Wait, GetTransfers, Crash, vars
<1> QED BY <1>1, <1>2, <1>3

(* What an account can pay only changes when it pays.                      *)
LEMMA MoneyStep ==
  ASSUME TypeOK, QueueInv, PaidInv, MoneyInv, PoorOnlyByOthers, [Next]_vars
  PROVE  (MoneyInv /\ PoorOnlyByOthers)'
<1> USE DEF TypeOK
<1>1. ASSUME NEW q \in Requests, Outspent(q)
      PROVE  Outspent(q)'
  <2>1. PICK p \in Requests \ {q} : Owner[p] = Owner[q] /\ payments[p] > 0
    BY <1>1 DEF Outspent
  <2>2. payments'[p] > 0
    BY <2>1, HistoryStep
  <2> QED BY <2>1, <2>2 DEF Outspent
<1>2. ASSUME NEW q \in Requests, UNCHANGED balance, CanPay(q)
      PROVE  CanPay(q)'
  BY <1>2 DEF CanPay
<1>3. ASSUME NEW q \in Requests, Check(q)
      PROVE  (MoneyInv /\ PoorOnlyByOthers)'
  <2>1. place'[q] = "checked" => CanPay(q)
    BY <1>3, CheckCovers DEF Check, Goto
  <2>2. /\ place'[q] \notin {"poor", "priced", "queued"}
        /\ \A p \in Requests \ {q} : place'[p] = place[p]
    BY <1>3 DEF Check, Goto
  <2>3. UNCHANGED balance
    BY <1>3 DEF Check
  <2> QED BY <1>1, <1>2, <2>1, <2>2, <2>3 DEF MoneyInv, PoorOnlyByOthers
<1>4. ASSUME NEW q \in Requests, Price(q) \/ Accept(q) \/ Wait(q) \/ Store(q)
      PROVE  (MoneyInv /\ PoorOnlyByOthers)'
  <2>1. UNCHANGED balance
    BY <1>4 DEF Price, Accept, Wait, Store
  <2>2. /\ \A p \in Requests \ {q} : place'[p] = place[p]
        /\ place'[q] # "poor"
        /\ place'[q] \in {"checked", "priced", "queued"} => place[q] \in {"checked", "priced"}
    BY <1>4 DEF Price, Accept, Wait, Store, Goto
  <2> QED BY <1>1, <1>2, <2>1, <2>2 DEF MoneyInv, PoorOnlyByOthers
<1>5. ASSUME NEW q \in Requests, Publish(q)
      PROVE  (MoneyInv /\ PoorOnlyByOthers)'
  <2>1. place[q] = "queued"
    BY <1>5, HeadIsQueued DEF Publish
  <2>2. /\ \A p \in Requests \ {q} : place'[p] = place[p]
        /\ place'[q] \notin {"checked", "priced", "queued"}
        /\ place'[q] = "poor" => ~CanPay(q)
        /\ UNCHANGED balance
    BY <1>5 DEF Publish, Goto
  <2> QED BY <1>1, <1>2, <2>1, <2>2 DEF MoneyInv, PoorOnlyByOthers
<1>6. ASSUME NEW q \in Requests, Mine(q)
      PROVE  (MoneyInv /\ PoorOnlyByOthers)'
  <2>1. place[q] \notin {"checked", "priced", "queued"} /\ UNCHANGED place
    BY <1>6 DEF Mine, PaidInv
  <2>2. CASE UNCHANGED balance
    BY <1>1, <1>2, <2>1, <2>2 DEF MoneyInv, PoorOnlyByOthers
  <2>3. CASE CanPay(q)
    <3>1. payments' = [payments EXCEPT ![q] = @ + 1]
      BY <1>6, <2>3, Zenon DEF Mine
    <3>2. ASSUME NEW p \in Requests \ {q}, Owner[p] = Owner[q]
          PROVE  Outspent(p)'
      BY <3>1, <3>2 DEF Outspent
    <3>3. ASSUME NEW p \in Requests \ {q}, Owner[p] # Owner[q], CanPay(p)
          PROVE  CanPay(p)'
      <4>1. balance' = [balance EXCEPT ![Owner[q]] =
                          [t \in Tokens |-> balance[Owner[q]][t] - Taken(q)[t]]]
        BY <1>6, <2>3, Zenon DEF Mine
      <4>2. balance'[Owner[p]] = balance[Owner[p]]
        BY <3>3, <4>1 DEF Accounts
      <4> QED BY <3>3, <4>2 DEF CanPay
    <3> QED BY <1>1, <2>1, <3>2, <3>3 DEF MoneyInv, PoorOnlyByOthers
  <2> QED BY <1>6, <2>2, <2>3 DEF Mine
<1>7. CASE Crash
  <2>1. UNCHANGED balance
    BY <1>7 DEF Crash
  <2>2. \A p \in Requests :
          /\ place'[p] \notin {"checked", "priced", "queued"}
          /\ place'[p] = "poor" => place[p] = "poor"
    BY <1>7 DEF Crash
  <2> QED BY <1>1, <2>2 DEF MoneyInv, PoorOnlyByOthers
<1>8. CASE UNCHANGED <<place, balance>>
  BY <1>1, <1>2, <1>8 DEF MoneyInv, PoorOnlyByOthers
<1> QED BY <1>3, <1>4, <1>5, <1>6, <1>7, <1>8 DEF Next, Task, PriceSwap, GetTransfers, vars

(* The map of costs holds the fee of an amount that was priced since the   *)
(* request was, whenever a receipt may be built of it.                     *)
LEMMA PriceStep ==
  ASSUME TypeOK, QueueInv, PriceInv, FeeIsOwnOrLater, [Next]_vars
  PROVE  (PriceInv /\ FeeIsOwnOrLater)'
<1> USE DEF TypeOK
<1>1. ASSUME NEW fee, NEW q \in Requests, IsFeeOfSome(fee, since[q])
      PROVE  IsFeeOfSome(fee, since'[q])
  BY <1>1, SinceGrows, FeeStep
<1>2. ASSUME NEW q \in Requests, Check(q) \/ Accept(q) \/ Publish(q) \/ Wait(q)
      PROVE  (PriceInv /\ FeeIsOwnOrLater)'
  <2>1. UNCHANGED <<entry, receipts>>
    BY <1>2 DEF Check, Accept, Publish, Wait
  <2>2. \A p \in Requests : UnderWay(p)' => UnderWay(p)
    BY <1>2, HeadIsQueued DEF Check, Accept, Publish, Wait, Goto, UnderWay, InHand
  <2> QED BY <1>1, <2>1, <2>2 DEF PriceInv, FeeIsOwnOrLater
<1>3. ASSUME NEW amount \in Nat, NEW requests, WriteEntry(amount, requests), UNCHANGED receipts,
             \A p \in Requests : Token[p] = "erc20" /\ UnderWay(p)' => p \in requests
      PROVE  (PriceInv /\ FeeIsOwnOrLater)'
  <2>1. \A p \in Requests : p \in requests => IsFeeOfSome(entry', since'[p])
    BY <1>3, PricedEntry
  <2> QED BY <1>1, <1>3, <2>1 DEF PriceInv, FeeIsOwnOrLater
<1>4. ASSUME NEW q \in Requests, Price(q)
      PROVE  (PriceInv /\ FeeIsOwnOrLater)'
  <2>1. UNCHANGED receipts /\ \A p \in Requests \ {q} : UnderWay(p)' => UnderWay(p)
    BY <1>4 DEF Price, Goto, UnderWay, InHand
  <2>2. CASE Token[q] = "erc20"
    <3>1. WriteEntry(Amount[q], Open \cup {q}) /\ Amount[q] \in Nat
      BY <1>4, <2>2 DEF Price
    <3>2. \A p \in Requests : Token[p] = "erc20" /\ UnderWay(p)' => p \in Open \cup {q}
      BY <2>1 DEF Open
    <3> QED BY <1>3, <2>1, <3>1, <3>2
  <2>3. CASE Token[q] # "erc20"
    <3>1. UNCHANGED <<entry, since>>
      BY <1>4, <2>3 DEF Price
    <3> QED BY <2>1, <2>3, <3>1 DEF PriceInv, FeeIsOwnOrLater
  <2> QED BY <2>2, <2>3
<1>5. ASSUME NEW value \in SwapValues, PriceSwap(value)
      PROVE  (PriceInv /\ FeeIsOwnOrLater)'
  <2>1. WriteEntry(value, Open) /\ value \in Nat /\ UNCHANGED <<place, receipts>>
    BY <1>5 DEF PriceSwap
  <2>2. \A p \in Requests : Token[p] = "erc20" /\ UnderWay(p)' => p \in Open
    BY <2>1 DEF Open, UnderWay, InHand
  <2> QED BY <1>3, <2>1, <2>2
<1>6. ASSUME NEW q \in Requests, Store(q)
      PROVE  (PriceInv /\ FeeIsOwnOrLater)'
  <2>1. /\ UnderWay(q) /\ UNCHANGED entry
        /\ \A p \in Requests : UnderWay(p)' => UnderWay(p)
        /\ \A p \in Requests \ {q} : receipts'[p] = receipts[p]
        /\ Token[q] = "erc20" => receipts'[q] \in {receipts[q], entry}
    BY <1>6 DEF Store, Goto, UnderWay, InHand
  <2> QED BY <1>1, <2>1 DEF PriceInv, FeeIsOwnOrLater
<1>7. CASE Crash
  <2>1. UNCHANGED receipts /\ \A p \in Requests : ~UnderWay(p)'
    BY <1>7 DEF Crash, UnderWay, InHand
  <2> QED BY <1>1, <2>1 DEF PriceInv, FeeIsOwnOrLater
<1>8. CASE UNCHANGED <<place, entry, receipts>>
  BY <1>1, <1>8 DEF PriceInv, FeeIsOwnOrLater, UnderWay, InHand
<1> QED BY <1>2, <1>4, <1>5, <1>6, <1>7, <1>8 DEF Next, Task, Mine, GetTransfers, vars

(* A receipt is written once and never removed.                            *)
LEMMA ListStep ==
  ASSUME TypeOK, PaidInv, ListedInv, ListIsOwn, [Next]_vars
  PROVE  (ListedInv /\ ListIsOwn)'
<1> USE DEF TypeOK
<1>1. \A q \in Requests : receipts[q] # Unlisted => receipts'[q] # Unlisted
  BY HistoryStep
<1>2. \A o \in Accounts : Own(o) \subseteq Own(o)'
  BY <1>1 DEF Own
<1>3. ASSUME NEW q \in Requests, payments[q] = 1
      PROVE  payments'[q] = 1
  <2>1. payments[q] > 0
    BY <1>3
  <2> QED BY <1>3, <2>1, HistoryStep
<1>4. CASE UNCHANGED shown
  BY <1>2, <1>3, <1>4 DEF ListedInv, ListIsOwn, Fault, CanLookup
<1>5. ASSUME NEW o \in Accounts, GetTransfers(o)
      PROVE  (ListedInv /\ ListIsOwn)'
  <2>1. /\ \A a \in Accounts \ {o} : shown'[a] = shown[a]
        /\ \/ shown'[o] = Own(o)
           \/ /\ shown'[o] = {"error"}
              /\ Fault("lookup") \/ \E q \in Own(o) : ~CanLookup(q)
    BY <1>5 DEF GetTransfers
  <2>2. \A q \in Own(o) : q \in Requests /\ Owner[q] = o /\ payments[q] = 1
    BY DEF Own, PaidInv
  <2>3. Own(o) # {"error"}
    BY <2>2
  <2>4. ASSUME NEW a \in Accounts \ {o}
        PROVE  /\ shown'[a] # {"error"} => shown'[a] \subseteq Own(a)'
               /\ IF shown'[a] = {"error"}
                  THEN Fault("lookup") \/ \E q \in Own(a)' : ~CanLookup(q)
                  ELSE \A q \in shown'[a] : Owner[q] = a /\ payments'[q] = 1
    <3>1. Own(a) \subseteq Own(a)' /\ shown'[a] = shown[a]
      BY <1>2, <2>1
    <3>2. CASE shown[a] = {"error"}
      BY <3>1, <3>2 DEF ListIsOwn
    <3>3. CASE shown[a] # {"error"}
      <4>1. shown[a] \subseteq Own(a) /\ Own(a) \subseteq Requests
        BY <3>3 DEF ListedInv, Own
      <4> QED BY <1>3, <3>1, <3>3, <4>1 DEF ListIsOwn
    <3> QED BY <3>2, <3>3
  <2>5. /\ shown'[o] # {"error"} => shown'[o] \subseteq Own(o)'
        /\ IF shown'[o] = {"error"}
           THEN Fault("lookup") \/ \E q \in Own(o)' : ~CanLookup(q)
           ELSE \A q \in shown'[o] : Owner[q] = o /\ payments'[q] = 1
    BY <1>2, <1>3, <2>1, <2>2, <2>3 DEF Fault, CanLookup
  <2> QED BY <2>4, <2>5 DEF ListedInv, ListIsOwn, Fault, CanLookup
<1> QED BY <1>4, <1>5 DEF Next, Task, Check, Price, Accept, PriceSwap, Mine, Publish, Wait, Store, Crash, vars

LEMMA NextInv ==
  ASSUME IInv, [Next]_vars
  PROVE  IInv'
BY NextType, QueueStep, PaidStep, MoneyStep, PriceStep, ListStep DEF IInv

LEMMA InitInv == Init => IInv
<1> SUFFICES ASSUME Init
             PROVE  QueueInv /\ PaidInv /\ MoneyInv /\ PoorOnlyByOthers /\ PriceInv
                    /\ FeeIsOwnOrLater /\ ListedInv /\ ListIsOwn
  BY InitType DEF IInv
<1> QED BY EmptySeq DEF Init, QueueInv, PaidInv, MoneyInv, PoorOnlyByOthers, PriceInv, UnderWay, InHand,
  FeeIsOwnOrLater, ListedInv, ListIsOwn, Unlisted

(* Where a transfer is, what was paid, what is left to pay with, and what  *)
(* the map of costs holds, in every reachable state.                       *)
THEOREM Inductive == Spec => []IInv
BY InitInv, NextInv, PTL DEF Spec

(* A transfer that passed its check fails for lack of money only when      *)
(* another of the same account was paid.                                   *)
THEOREM PoorByOthers == Spec => []PoorOnlyByOthers
<1>1. IInv => PoorOnlyByOthers
  BY DEF IInv
<1> QED BY <1>1, Inductive, PTL

(* The cost in a DGX receipt is the exact fee of an amount of DGX, its own *)
(* or one that was priced after it and before the receipt was built,       *)
(* however handlers, bindings, the task and crashes interleave on the      *)
(* shared map.                                                             *)
THEOREM ReceiptFee == Spec => []FeeIsOwnOrLater
<1>1. IInv => FeeIsOwnOrLater
  BY DEF IInv
<1> QED BY <1>1, Inductive, PTL

(* What an account sees is its own transfers and each of them paid, once.  *)
(* A list that cannot be told without an error is no list; that it has all *)
(* that were stored up to then is not stated.                              *)
THEOREM OwnList == Spec => []ListIsOwn
<1>1. IInv => ListIsOwn
  BY DEF IInv
<1> QED BY <1>1, Inductive, PTL

-----------------------------------------------------------------------------
(* The wallet implements Payments                                          *)

LEMMA StageUnchanged ==
  ASSUME \A q \in Requests : Stage(q)' = Stage(q)
  PROVE  UNCHANGED Stages
BY DEF Stages

LEMMA StageMoves ==
  ASSUME NEW q \in Requests, NEW answer,
         Stage(q)' = answer, \A p \in Requests \ {q} : Stage(p)' = Stage(p)
  PROVE  Stages' = [Stages EXCEPT ![q] = answer]
BY DEF Stages

LEMMA BookUnchanged ==
  ASSUME UNCHANGED receipts
  PROVE  UNCHANGED Book
BY DEF Book

LEMMA StepRefines ==
  ASSUME IInv, [Next]_vars
  PROVE  [Abstract!Next]_<<Stages, payments, Book>>
<1> USE DEF IInv, TypeOK
<1>1. ASSUME NEW q \in Requests, Check(q)
      PROVE  [Abstract!Next]_<<Stages, payments, Book>>
  <2>1. /\ Stage(q) = "asked" /\ UNCHANGED <<payments, Book>>
        /\ \A p \in Requests \ {q} : Stage(p)' = Stage(p)
    BY <1>1, BookUnchanged DEF Check, Goto, Stage
  <2>2. CASE Goto(q, "checked")
    <3>1. \A p \in Requests : Stage(p)' = Stage(p)
      BY <2>1, <2>2 DEF Goto, Stage
    <3> QED BY <2>1, <3>1, StageUnchanged
  <2>3. CASE Goto(q, "refused")
    <3>1. Stage(q)' = "refused"
      BY <2>3 DEF Goto, Stage
    <3>2. Abstract!Decide(q, "refused")
      BY <2>1, <3>1, StageMoves DEF Abstract!Decide, Stages
    <3> QED BY <3>2 DEF Abstract!Next
  <2> QED BY <1>1, <2>2, <2>3 DEF Check
<1>2. ASSUME NEW q \in Requests, Accept(q)
      PROVE  [Abstract!Next]_<<Stages, payments, Book>>
  <2>1. /\ Stage(q) = "asked" /\ UNCHANGED <<payments, Book>>
        /\ \A p \in Requests \ {q} : Stage(p)' = Stage(p)
        /\ Stage(q)' \in {"accepted", "refused"}
    BY <1>2, BookUnchanged DEF Accept, Goto, Stage
  <2>2. Abstract!Decide(q, Stage(q)')
    BY <2>1, StageMoves DEF Abstract!Decide, Stages
  <2> QED BY <2>1, <2>2 DEF Abstract!Next
<1>3. ASSUME NEW q \in Requests, Mine(q)
      PROVE  [Abstract!Next]_<<Stages, payments, Book>>
  <2>1. UNCHANGED <<Stages, Book>>
    BY <1>3, BookUnchanged, StageUnchanged DEF Mine, Stage
  <2>2. CASE UNCHANGED payments
    BY <2>1, <2>2
  <2>3. CASE payments' = [payments EXCEPT ![q] = @ + 1]
    <3>1. Stages[q] = "accepted" /\ payments[q] = 0
      BY <1>3 DEF Mine, PaidInv, Stages, Stage
    <3>2. Abstract!Pay(q)
      BY <2>1, <2>3, <3>1 DEF Abstract!Pay
    <3> QED BY <3>2 DEF Abstract!Next
  <2> QED BY <1>3, <2>2, <2>3 DEF Mine
<1>4. ASSUME NEW q \in Requests, Price(q) \/ Publish(q) \/ Wait(q)
      PROVE  [Abstract!Next]_<<Stages, payments, Book>>
  <2>1. \A p \in Requests : Stage(p)' = Stage(p)
    BY <1>4, HeadIsQueued DEF Price, Publish, Wait, Goto, Stage
  <2>2. UNCHANGED <<payments, Book>>
    BY <1>4, BookUnchanged DEF Price, Publish, Wait
  <2> QED BY <2>1, <2>2, StageUnchanged
<1>5. ASSUME NEW q \in Requests, Store(q)
      PROVE  [Abstract!Next]_<<Stages, payments, Book>>
  <2>1. UNCHANGED <<Stages, payments>>
    BY <1>5, StageUnchanged DEF Store, Goto, Stage
  <2>2. CASE UNCHANGED receipts
    BY <2>1, <2>2, BookUnchanged
  <2>3. CASE receipts' = [receipts EXCEPT ![q] = IF Token[q] = "btc" THEN 0 ELSE entry]
    <3>1. payments[q] = 1 /\ Book' = Book \cup {q}
      BY <1>5, <2>3 DEF Store, PaidInv, Book, Unlisted
    <3>2. Abstract!List(q)
      BY <2>1, <3>1 DEF Abstract!List
    <3> QED BY <3>2 DEF Abstract!Next
  <2> QED BY <1>5, <2>2, <2>3 DEF Store
<1>6. CASE Crash
  <2>1. UNCHANGED <<payments, Book>>
    BY <1>6, BookUnchanged DEF Crash
  <2>2. \A q \in Requests : Stage(q)' = Stage(q) \/ (Stage(q) = "asked" /\ Stage(q)' = "refused")
    BY <1>6 DEF Crash, Stage
  <2>3. Stages' \in [Requests -> {"asked", "accepted", "refused"}]
    BY DEF Stages, Stage
  <2>4. Abstract!BreakOff
    BY <2>1, <2>2, <2>3 DEF Abstract!BreakOff, Stages
  <2> QED BY <2>4 DEF Abstract!Next
<1>7. CASE UNCHANGED <<place, payments, receipts>>
  BY <1>7, StageUnchanged, BookUnchanged DEF Stage
<1> QED BY <1>1, <1>2, <1>3, <1>4, <1>5, <1>6, <1>7 DEF Next, Task, PriceSwap, GetTransfers, vars

(* Nothing is paid twice, nothing is paid that was not accepted, and only  *)
(* what was paid is listed: no crash, failed write, expired wait or        *)
(* interleaving makes the wallet take a step that Payments does not.       *)
THEOREM Refinement == Spec => ImplementsPayments
<1>1. Init => Abstract!Init
  BY DEF Init, Abstract!Init, Stages, Stage, Book
<1> QED BY <1>1, StepRefines, Inductive, PTL DEF Spec, ImplementsPayments, Abstract!Spec
=============================================================================
