----------------------------- MODULE Transfers ------------------------------
(***************************************************************************)
(* The transfers that users ask for: the handler checks each against the   *)
(* balance and queues it, the transfer task publishes one after the other, *)
(* waits for it to be mined and then stores its receipt, and a GET lists   *)
(* an account's receipts.                                                  *)
(*                                                                         *)
(* The handler's goroutines and the task share the package's map of        *)
(* Ethereum transaction costs, in which the pricing of a DGX transfer (the *)
(* "erc20" of this module) writes an entry, as the binding of a DGX swap   *)
(* does with its value.                                                    *)
(***************************************************************************)
EXTENDS Terms, Sequences

CONSTANTS
  Requests,   \* the transfers that are asked for
  Token,      \* Token[q]: "eth", "erc20" or "btc"
  Amount,     \* Amount[q]
  Owner,      \* Owner[q]: the account, a password
  Funds,      \* the balances that the accounts may have at first
  EthCost,    \* the cost of an Ethereum transaction
  SwapValues, \* the values of the DGX swaps that the process executes
  Faults,     \* the faults of the environment that the model allows
  MaxCrashes, \* bounds of the model: crashes,
  MaxSwaps    \* and fees that the bindings of swaps compute

ASSUME RequestsAssumption ==
  /\ Token \in [Requests -> {"eth", "erc20", "btc"}]
  /\ Amount \in [Requests -> Nat]
  /\ SwapValues \subseteq Nat
  /\ Faults \subseteq {"rpc", "busy", "lookup", "timeout", "disk"}
  /\ "error" \notin Requests    \* what a GET that fails shows

Accounts == {Owner[q] : q \in Requests}
Tokens   == {"eth", "erc20", "btc"}

ASSUME FundsAssumption ==
  /\ Funds \subseteq [Accounts -> [Tokens -> Nat]]
  /\ EthCost \in Nat

VARIABLES
  place,     \* place[q]: where the request is, or how it ended
  queue,     \* what the transfer task has not taken
  entry,     \* the DGX entry of EthereumTransactionCost, 0 if there is none
  since,     \* history: since[q]: the amounts of DGX priced from the pricing of
             \* a DGX transfer q on, as long as it was under way
  balance,   \* balance[o][t]
  pool,      \* transactions published and not mined
  payments,  \* payments[q]: how often q was paid on chain
  receipts,  \* receipts[q]: the DGX cost in the stored receipt, or Unlisted
  shown,     \* shown[o]: the last answer to GET transfers
  crashes,
  swaps      \* how often a DGX swap was priced

vars == <<place, queue, entry, since, balance, pool, payments, receipts, shown, crashes, swaps>>

Unlisted == -1

Ends   == {"refused", "poor", "unsent", "gaveup", "unsaved", "lost", "done"}
Places == {"asked", "checked", "priced", "queued", "waiting", "storing"} \cup Ends

Init ==
  /\ place    = [q \in Requests |-> "asked"]
  /\ queue    = <<>>
  /\ entry    = 0
  /\ since    = [q \in Requests |-> {}]
  /\ balance  \in Funds
  /\ pool     = {}
  /\ payments = [q \in Requests |-> 0]
  /\ receipts = [q \in Requests |-> Unlisted]
  /\ shown    = [o \in Accounts |-> {}]
  /\ crashes  = 0
  /\ swaps    = 0

TypeOK ==
  /\ place \in [Requests -> Places]
  /\ queue \in Seq(Requests)
  /\ entry \in Nat
  /\ since \in [Requests -> SUBSET Nat]
  /\ balance \in [Accounts -> [Tokens -> Nat]]
  /\ pool \subseteq Requests
  /\ payments \in [Requests -> Nat]
  /\ receipts \in [Requests -> Nat \cup {Unlisted}]
  /\ shown \in [Accounts -> {{"error"}} \cup SUBSET Requests]
  /\ crashes \in Nat /\ swaps \in Nat

Fault(name) == name \in Faults

Goto(q, p) == place' = [place EXCEPT ![q] = p]

-----------------------------------------------------------------------------
(* PostTransfers                                                           *)

(* Mutant of VerifyBalance: the fee of the transaction is forgotten.       *)
VerifyBalanceBare(q) == balance[Owner[q]][Token[q]] >= Amount[q]

(* The map of Ethereum's costs is that of the last DGX transfer.           *)
VerifyBalance(q) ==
  LET own == balance[Owner[q]]
  IN  CASE Token[q] = "eth"   -> VerifyEthereum(own["eth"], Amount[q], EthCost)
        [] Token[q] = "erc20" -> VerifyERC20(own["eth"], own["erc20"], Amount[q], entry, EthCost)
        [] Token[q] = "btc"   -> VerifyBitcoin(own["btc"], Amount[q])

Check(q) ==
  /\ place[q] = "asked"
  /\ \/ VerifyBalance(q) /\ Goto(q, "checked")
     \/ (~VerifyBalance(q) \/ Fault("rpc")) /\ Goto(q, "refused")
  /\ UNCHANGED <<queue, entry, since, balance, pool, payments, receipts, shown, crashes, swaps>>

(* Priced and not yet stored or given up.                                  *)
InHand(q)   == place[q] \in {"queued", "waiting", "storing"}
UnderWay(q) == place[q] = "priced" \/ InHand(q)
Open == {q \in Requests : Token[q] = "erc20" /\ UnderWay(q)}

(* Mutant of WriteEntry: a fee that is in the map already is kept.         *)
WriteEntryOnce(amount, requests) ==
  /\ entry' = IF entry = 0 THEN DGXFee(amount) ELSE entry
  /\ since' = [q \in Requests |-> IF q \in requests THEN since[q] \cup {amount} ELSE since[q]]

(* erc20TransactionCost writes the fee of an amount of DGX into the map    *)
(* that all requests share; the requests see it.                           *)
WriteEntry(amount, requests) ==
  /\ entry' = DGXFee(amount)
  /\ since' = [q \in Requests |-> IF q \in requests THEN since[q] \cup {amount} ELSE since[q]]

(* It is the map, not the fee, that goes with the request.                 *)
Price(q) ==
  /\ place[q] = "checked"
  /\ Goto(q, "priced")
  /\ IF Token[q] = "erc20" THEN WriteEntry(Amount[q], Open \cup {q}) ELSE UNCHANGED <<entry, since>>
  /\ UNCHANGED <<queue, balance, pool, payments, receipts, shown, crashes, swaps>>

(* Write waits up to a minute for room in the receiver's buffer.  When it  *)
(* fails the map stays as it is.                                           *)
Accept(q) ==
  /\ place[q] = "priced"
  /\ \/ queue' = Append(queue, q) /\ Goto(q, "queued")
     \/ Fault("busy") /\ UNCHANGED queue /\ Goto(q, "refused")
  /\ UNCHANGED <<entry, since, balance, pool, payments, receipts, shown, crashes, swaps>>

(* The binding of a swap reads its fee back through the same map.          *)
PriceSwap(value) ==
  /\ swaps < MaxSwaps
  /\ swaps' = swaps + 1
  /\ WriteEntry(value, Open)
  /\ UNCHANGED <<place, queue, balance, pool, payments, receipts, shown, crashes>>

-----------------------------------------------------------------------------
(* The chain                                                               *)

(* A transfer takes its amount and the miner's fee.                        *)
Taken(q) ==
  CASE Token[q] = "eth"   -> [eth |-> Amount[q] + EthCost, erc20 |-> 0, btc |-> 0]
    [] Token[q] = "erc20" -> [eth |-> EthCost, erc20 |-> Amount[q], btc |-> 0]
    [] Token[q] = "btc"   -> [eth |-> 0, erc20 |-> 0, btc |-> Amount[q] + BitcoinCost]

CanPay(q) == \A t \in Tokens : balance[Owner[q]][t] >= Taken(q)[t]

(* Mutant of Mine: the chain does not look at the balance.                 *)
MineBlind(q) ==
  /\ q \in pool
  /\ pool' = pool \ {q}
  /\ balance' = [balance EXCEPT ![Owner[q]] = [t \in Tokens |-> @[t] - Taken(q)[t]]]
  /\ payments' = [payments EXCEPT ![q] = @ + 1]
  /\ UNCHANGED <<place, queue, entry, since, receipts, shown, crashes, swaps>>

(* A transaction that is not covered any more is mined and does nothing.   *)
Mine(q) ==
  /\ q \in pool
  /\ pool' = pool \ {q}
  /\ IF CanPay(q)
     THEN /\ balance' = [balance EXCEPT ![Owner[q]] = [t \in Tokens |-> @[t] - Taken(q)[t]]]
          /\ payments' = [payments EXCEPT ![q] = @ + 1]
     ELSE UNCHANGED <<balance, payments>>
  /\ UNCHANGED <<place, queue, entry, since, receipts, shown, crashes, swaps>>

-----------------------------------------------------------------------------
(* The transfer task                                                       *)

TaskIdle == \A q \in Requests : place[q] \notin {"waiting", "storing"}

(* Mutant of Publish: a request that could not be sent stays in the queue. *)
PublishAgain(q) ==
  /\ TaskIdle
  /\ queue # <<>> /\ q = Head(queue)
  /\ \/ CanPay(q) /\ queue' = Tail(queue) /\ pool' = pool \cup {q} /\ Goto(q, "waiting")
     \/ ~CanPay(q) /\ UNCHANGED <<queue, pool, place>>
  /\ UNCHANGED <<entry, since, balance, payments, receipts, shown, crashes, swaps>>

(* The node refuses a transaction that the balance does not cover.         *)
Publish(q) ==
  /\ TaskIdle
  /\ queue # <<>> /\ q = Head(queue)
  /\ queue' = Tail(queue)
  /\ \/ CanPay(q) /\ pool' = pool \cup {q} /\ Goto(q, "waiting")
     \/ ~CanPay(q) /\ UNCHANGED pool /\ Goto(q, "poor")
     \/ Fault("rpc") /\ UNCHANGED pool /\ Goto(q, "unsent")
  /\ UNCHANGED <<entry, since, balance, payments, receipts, shown, crashes, swaps>>

(* Mutant of Wait: the receipt does not wait for the block.                *)
WaitNot(q) ==
  /\ place[q] = "waiting"
  /\ Goto(q, "storing")
  /\ UNCHANGED <<queue, entry, since, balance, pool, payments, receipts, shown, crashes, swaps>>

(* The wait ends when the transaction is mined, or with an error: it has   *)
(* failed, or the 30 minutes of its context are over.                      *)
Wait(q) ==
  /\ place[q] = "waiting"
  /\ \/ payments[q] > 0 /\ Goto(q, "storing")
     \/ (Fault("timeout") \/ (q \notin pool /\ payments[q] = 0)) /\ Goto(q, "gaveup")
  /\ UNCHANGED <<queue, entry, since, balance, pool, payments, receipts, shown, crashes, swaps>>

(* Mutant of Store: an error of the database is not noticed.               *)
StoreQuietly(q) ==
  /\ place[q] = "storing"
  /\ Goto(q, "done")
  /\ \/ receipts' = [receipts EXCEPT ![q] = IF Token[q] = "btc" THEN 0 ELSE entry]
     \/ Fault("disk") /\ UNCHANGED receipts
  /\ UNCHANGED <<queue, entry, since, balance, pool, payments, shown, crashes, swaps>>

(* buildReceipt reads the map of costs as it is by now.                    *)
Store(q) ==
  /\ place[q] = "storing"
  /\ \/ receipts' = [receipts EXCEPT ![q] = IF Token[q] = "btc" THEN 0 ELSE entry]
        /\ Goto(q, "done")
     \/ Fault("disk") /\ UNCHANGED receipts /\ Goto(q, "unsaved")
  /\ UNCHANGED <<queue, entry, since, balance, pool, payments, shown, crashes, swaps>>

-----------------------------------------------------------------------------
(* GetTransfers                                                            *)

(* Mutant of Own: every receipt is listed, whoever may see it.             *)
OwnAll(o) == {q \in Requests : receipts[q] # Unlisted}

(* The receipts that the password opens.                                   *)
Own(o) == {q \in Requests : receipts[q] # Unlisted /\ Owner[q] = o}

(* Lookup knows Ethereum and Bitcoin, not the blockchain of an ERC20.      *)
CanLookup(q) == Token[q] # "erc20"

GetTransfers(o) ==
  /\ \/ (\A q \in Own(o) : CanLookup(q)) /\ shown' = [shown EXCEPT ![o] = Own(o)]
     \/ (\E q \in Own(o) : ~CanLookup(q) \/ Fault("lookup"))
        /\ shown' = [shown EXCEPT ![o] = {"error"}]
  /\ UNCHANGED <<place, queue, entry, since, balance, pool, payments, receipts, crashes, swaps>>

(* The process dies: a request lives in memory until its receipt is stored.*)
Crash ==
  /\ crashes < MaxCrashes
  /\ crashes' = crashes + 1
  /\ place' = [q \in Requests |->
       IF place[q] \in {"checked", "priced"} THEN "refused"
       ELSE IF place[q] \in {"queued", "waiting", "storing"} THEN "lost" ELSE place[q]]
  /\ queue' = <<>>
  /\ entry' = 0
  /\ UNCHANGED <<since, balance, pool, payments, receipts, shown, swaps>>

Task == \E q \in Requests : Publish(q) \/ Wait(q) \/ Store(q)

Next ==
  \/ Task
  \/ Crash
  \/ \E q \in Requests : Check(q) \/ Price(q) \/ Accept(q) \/ Mine(q)
  \/ \E value \in SwapValues : PriceSwap(value)
  \/ \E o \in Accounts : GetTransfers(o)

(* The task is scheduled and blocks are mined.  Nobody has to ask for      *)
(* anything.                                                               *)
Spec ==
  /\ Init /\ [][Next]_vars
  /\ WF_vars(Task)
  /\ \A q \in Requests : WF_vars(Mine(q))

-----------------------------------------------------------------------------
(* The wallet keeps the promises of Payments, across crashes, lost waits   *)
(* and failed writes: there is no retry that pays twice, and no receipt of *)
(* a transfer that was not mined.                                          *)
Stage(q) ==
  IF place[q] \in {"asked", "checked", "priced"} THEN "asked"
  ELSE IF place[q] = "refused" THEN "refused" ELSE "accepted"

Stages == [q \in Requests |-> Stage(q)]
Book   == {q \in Requests : receipts[q] # Unlisted}

Abstract == INSTANCE Payments WITH stage <- Stages, book <- Book
ImplementsPayments == Abstract!Spec

(* A transfer that was accepted and then fails for lack of money has lost  *)
(* it to another of the same account, paid between its check and its turn: *)
(* the check asks for all that the transfer takes.  (A swap of the account *)
(* would spend, too; the balances here are those of transfers alone.)      *)
Outspent(q) ==
  \E p \in Requests \ {q} : Owner[p] = Owner[q] /\ payments[p] > 0

PoorOnlyByOthers == \A q \in Requests : place[q] = "poor" => Outspent(q)

(* The fee of 13 bips that is left of the sum is what was added.           *)
IsFeeFor(fee, amount) == ((amount + fee) * 13) \div 10000 = fee

IsFeeOfSome(fee, amounts) == \E amount \in amounts : IsFeeFor(fee, amount)

(* The cost in a DGX receipt is exactly the fee of an amount of DGX, its   *)
(* own unless another was priced later and before the receipt was built:   *)
(* the shared map keeps the last one, also of a transfer that was refused  *)
(* afterwards, and of a swap; never the one from before.                   *)
FeeIsOwnOrLater ==
  \A q \in Requests :
    receipts[q] # Unlisted /\ Token[q] = "erc20" => IsFeeOfSome(receipts[q], since[q])

(* An account's list is its own: another account's transfers are not in    *)
(* it, and only a transfer of its own that Lookup cannot find makes it     *)
(* fail (when the nodes answer).                                           *)
ListIsOwn ==
  \A o \in Accounts :
    IF shown[o] = {"error"}
    THEN Fault("lookup") \/ \E q \in Own(o) : ~CanLookup(q)
    ELSE \A q \in shown[o] : Owner[q] = o /\ payments[q] = 1

(* The inductive invariant: a request waits in the queue at one position,  *)
(* is in the pool once and is paid at most once, and its place tells       *)
(* which; its account can still pay it, or has paid another; and the DGX   *)
(* entry is a fee whenever a DGX transfer is under way, from its pricing   *)
(* on.                                                                     *)
QueueInv ==
  /\ \A k \in DOMAIN queue : place[queue[k]] = "queued"
  /\ \A j, k \in DOMAIN queue : queue[j] = queue[k] => j = k

PaidInv ==
  \A q \in Requests :
    /\ payments[q] \in {0, 1}
    /\ q \in pool => payments[q] = 0 /\ place[q] \in {"waiting", "gaveup", "lost"}
    /\ payments[q] = 1 =>
         place[q] \in {"waiting", "storing", "gaveup", "unsaved", "lost", "done"}
    /\ place[q] = "storing" => payments[q] = 1
    /\ receipts[q] # Unlisted => payments[q] = 1 /\ place[q] = "done"

MoneyInv ==
  \A q \in Requests :
    place[q] \in {"checked", "priced", "queued"} => CanPay(q) \/ Outspent(q)

PriceInv ==
  \A q \in Requests : UnderWay(q) /\ Token[q] = "erc20" => IsFeeOfSome(entry, since[q])

ListedInv ==
  \A o \in Accounts : shown[o] # {"error"} => shown[o] \subseteq Own(o)

IInv ==
  /\ TypeOK /\ QueueInv /\ PaidInv
  /\ MoneyInv /\ PoorOnlyByOthers
  /\ PriceInv /\ FeeIsOwnOrLater
  /\ ListedInv /\ ListIsOwn

(* One transfer after the other: whatever happens to one, those behind it  *)
(* get their turn, so again and again nothing is left to do.               *)
QueueDrains == []<>(\A q \in Requests : ~InHand(q))

(* A transfer that was paid gets listed, but for three failures: its wait  *)
(* was given up, its receipt could not be written, the process died.       *)
PaidIsListed ==
  []<>(\A q \in Requests :
         payments[q] = 1 =>
           receipts[q] # Unlisted \/ place[q] \in {"gaveup", "unsaved", "lost"})
=============================================================================
