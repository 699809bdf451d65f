# A verification project for swapperd

swapperd is a daemon that executes atomic swaps between Bitcoin, Ethereum and
ERC20 tokens.  A user posts a swap to the daemon over HTTP, the counterparty
posts the complementary swap to its own daemon, and the two daemons meet only
on the block chains: each funds a hash time-locked contract for the other.

The project models the daemon in TLA+, model-checks small instances with TLC
and proves the properties that matter most with TLAPS.  `PROJECT.json` lists
the runs, which definition models which lines, a mutant for every property that
the corresponding run refutes, the disagreements found between code and
documentation, the hazards of the code and the theorems.

## 1. Inventory

| Component | State | Operations | Talks to |
|---|---|---|---|
| Contracts (`adapter/binder/eth/bindings.go`, P2SH script) | per swap: none, open, redeemed, refunded; time lock | initiate, redeem(secret), refund | mined transactions |
| Bindings (`adapter/binder`) | costs of the call in progress | Initiate, Audit, AuditSecret, Redeem, Refund; built anew for every execution | nodes of the chains, the host's clock |
| Immediate swapper (`core/wallet/swapper/immediate`) | `swapMap`: swaps to execute on the next tick | SwapRequest, Tick | bindings; ReceiptUpdate and DeleteSwap to its parent |
| Delayed swapper (`core/wallet/swapper/delayed`) | `swapMap`: swaps to ask about on the next tick | DelayedSwapRequest, Tick | the callback; SwapRequest, ReceiptUpdate, DeleteSwap to its parent |
| Callback (`adapter/callback`) | none | DelayCallback, verifyDelaySwap | the user's HTTP server |
| Swapper task (`core/wallet/swapper`) | none of its own; pending table | SwapRequest, Bootload, DeleteSwap, ReceiptUpdate, Tick | both swappers, storage |
| Status task (`core/wallet/status`) | receipt table | Receipt, ReceiptUpdate | storage |
| Transfer task (`core/wallet/transfer`) | transfer table | TransferRequest | chains, storage |
| Wallet task (`core/wallet`) | none | routes messages | status, swapper, transfer |
| Storage (`adapter/db`) | LevelDB: swaps, pending swaps, receipts, transfers | put, update, delete, list | disk |
| HTTP handler (`adapter/server`) | `bootloaded` map, one goroutine per request | POST /swaps, /transfers, GET ... | receiver, storage, wallet adapter |
| Receiver, service, composer | bounded buffer, done channel, one accept token | Write, Receive, Shutdown; pump to the wallet task | wallet task |
| Wallet adapter (`adapter/wallet`) | accounts | balances, addresses, amount checks, transfers | nodes |
| Costs (`foundation/blockchain/cost.go`) | one map of Ethereum's costs for the whole process | TransactionCost, BlockchainTxFees | handler, wallet adapter, ERC20 binding |
| Receipts' costs (`Cost()` of a binding, `LoadCosts`) | a map per contract, in the SwapRequest | charged by the bindings, read by the status task | status task, storage |
| Commands (`cmd`) | the Windows service's done channel | install, update, run, pause, stop | composer |

Every task is a goroutine that handles one message at a time (package tau);
messages between two tasks arrive in the order in which they were sent.  A
message handler may block for many minutes: a binding waits up to ten minutes
for a transaction.  During that time the chains, the other daemon, the other
tasks and the clock go on, and the process can die.

Behaviours that are hard:

* **Two daemons and two chains.**  Each reads the chains, decides, and publishes
  a transaction that is mined later, possibly after its wait was given up.
* **Two clocks.**  A binding decides that a swap has expired by the host's clock;
  the contract accepts a refund by the timestamp of its block.
* **Crash and resumption.**  Nothing of the progress is stored: after a restart
  the first request sends Bootload and every pending swap is executed from the
  start, the bindings skipping what they find done.
* **Errors that look like answers.**  A failed request inside a precondition check
  cannot be told from a contract in another state.
* **Repetition.**  Ticks, racing bootloads and the filling of a delayed swap can
  put the same swap twice into a queue.

* **Shared data without a lock.**  The map of costs that all handlers and bindings
  share, the `bootloaded` map, and the costs of a swap, which the status task reads
  while the immediate swapper may be writing them.
* **Check, then pay.**  A balance is checked in a handler and spent later in a task.
* **Two sides of one sum.**  Each daemon computes broker's fees, dust limits and
  amounts from its own blob; both must come to the same contract.

What makes the components correct is stated in section 3; `PROJECT.json` lists
each hazard at its line with the properties that cover it.

## 2. Modules

| Module | Models | Uses |
|---|---|---|
| `HTLC` | the two contracts of a swap, the transactions on their way, the clocks | |
| `Binder` | what each call of the ETH, ERC20 and BTC bindings may answer | `HTLC` |
| `AtomicSwap` | two daemons executing one swap: immediate swapper, pending table, bootload, crash | `Binder` |
| `Exchange` | the abstract swap: fund, claim, reclaim | |
| `MCAtomicSwap` | instances for TLC | `AtomicSwap` |
| `Terms` | the arithmetic: balance checks, broker's and token's fees, the swap in the answer to a POST, what a contract locks and pays | |
| `Terms_proofs` | theorems about it | `Terms` |
| `Settlement` | the money of an `AtomicSwap`: amounts, miners' fees, costs and the receipts that tell them | `AtomicSwap`, `Terms` |
| `MCSettlement` | an instance for TLC | `Settlement` |
| `Transfers` | POST and GET /transfers, the transfer task, the chain, the shared map of costs | `Terms` |
| `Payments` | the abstract wallet: what is paid and listed | |
| `MCTransfers` | an instance for TLC | `Transfers` |
| `Daemon` | the task tree of one process, its channels and tables: acceptance, storage, bootload, delayed swaps, receipts | `Callback` |
| `Intake` | the HTTP handlers, the receiver's buffer, the accept pump | |
| `Mailbox` | the abstract way of a message to the wallet task | |
| `MCIntake` | an instance for TLC | `Intake` |
| `Callback` | what is accepted of the callback server's answer | |
| `Callback_proofs` | theorems about it | `Callback` |
| `Lifecycle` | the abstract life of a swap: accepted, filled, ended | |
| `MCDaemon` | instances for TLC | `Daemon` |
| `AtomicSwap_proofs` | theorems about it | `AtomicSwap` |
| `Settlement_proofs` | theorems about it | `Settlement`, `AtomicSwap_proofs`, `Terms_proofs` |
| `Transfers_proofs` | theorems about it | `Transfers` |
| `Intake_proofs` | theorems about it | `Intake` |
| `FlattenTheorems` | what the library's `FlattenSeq` yields | |
| `Daemon_proofs` | theorems about it | `Daemon`, `FlattenTheorems`, `Callback_proofs` |

### HTLC

`htlc[c]` is the state of the contract funded by role `c`, `pool` the set of
published transactions that are not mined, `wall` the hosts' clock and
`blockTime[c]` the timestamp of the last block of the chain of contract `c`.
`Mine` applies a transaction if the contract's `require` (or the script) accepts
it, and otherwise lets it revert.  `AdvanceClock` advances the clock by one unit;
with it a block may appear whose timestamp is up to `Lag` behind, and
`AdvanceBlock` lets the chain catch up.  Both contracts have one time lock,
`blob.TimeLock`: `buildNativeSwap` and `buildForeignSwap` are passed the time
locks that `calculateTimeLocks` sets a day apart, and do not use them.

One unit of time is `swap.ExpiryUnit`, two hours.  The initiator's POST sets the
time lock three units ahead, the responder's POST is refused less than two units
before it.  The origin of time is the initiator's POST.

### Binder

Each call is the set of the answers it may give in the present state.  `Audit`
and `AuditSecret` answer `ok`, `pending`, `expired` or `error`; the calls that
write answer `send` (a transaction is published), `skip` (the precondition
failed: `Transact` reports that as an error that the bindings turn into success)
or `error`.  The three kinds of token differ: the ERC20 binding returns an error
from its check before an approval, the Bitcoin binding takes any API error for
"not funded" and its refund has no precondition that can fail.  `Confirmed` is
the end of the wait for a transaction and `GivesUp` its failure.

`Faults` selects what the environment does: `"rpc"`, a request to a node fails;
`"timeout"`, a wait ends while the transaction is still on its way; `"build"`,
`BuildSwapContracts` fails.

What is assumed of the libraries that the bindings call (they are not in the
repository): `Transact` returns nil only when its transaction was mined
successfully; `SendTransaction` fails when the script's output is spent or the
time lock is not reached; a contract's secret is learned from its redemption
only; the parties agree on the amounts, which are above the dust limit.

### AtomicSwap

Per daemon: `pc` is the binding call in which the immediate swapper's goroutine
is, with a place of its own for the wait after a publication; `queued` counts
the SwapRequests in its inbox; `swapMap`, `deleting` (a DeleteSwap message on its
way), `pending` (the table on disk), `reported` (the last status sent to the
receipt) and `boots` (Bootloads since the start).  `Audit`, `AuditSecret`,
`Send` and `Await` walk through `initiate()` and `respond()`; `Succeed` and `Fail`
are the branches after each call; `Finish` is `handleResult`.  `Crash` empties
all that is in memory and keeps the chain, the pool and the disk.

### Exchange

Two escrows.  The responder funds second, the initiator claims first, nobody
reclaims before the lapse.  `AtomicSwap` implements it with `escrow <- htlc` and
`lapsed <- wall > TimeLock`.  The abstract specification does not promise that
both escrows are claimed or neither is, because the code does not (below).

### Daemon

`chan[c]` is the sequence of messages in channel `c`: the inboxes of the five
tasks and the outputs that the swapper task and its two children write for their
parent.  The inbox of the wallet task also stands for what is before it, the
receiver's buffer, the service task and the pump in the composer, which keep the
order.  A task takes the first message of one of its channels and, as one step,
does what `Reduce` does with it: `WalletRoutes`, `StatusStores`,
`SwapperAccepts`, `SwapperBootloads` and so on, each the whole handler with its
database call and everything it sends.  `asking` and `running` are the swap maps
of the two children, `pending`, `known` and `receipts` the tables; `accepted` is a
history variable, the swaps that ever were pending.

A blob is abstracted to what tells its versions apart: `"posted"`, `"delay"`
(posted with the delay flag), or the name of the details a callback server filled
in (`Details` gives their amounts, `Terms` those of the offer); the server may
answer each request differently.  Its answer replaces the posted blob whole; that
it keeps the swap's ID is assumed.  A status is `"Inactive"`,
`"Working"` (any status with which `handleResult` keeps the swap), `"Ended"`
(Redeemed, Refunded, Expired) or `"Cancelled"`.  How an execution gets there is
`AtomicSwap`'s subject; here its outcome is chosen freely.  Ticks are not
messages: a tick may be handled whenever a child is free, which includes every
moment at which one arrives; the wallet and swapper tasks only pass them on.
Errors end in the log and are left out.  `PutSwap` writes the pending table and then the
table of all swaps (which nothing reads): the second write may fail after the first, and the
process may die between them (`PutPending`, in `SwapperAccepts` and `Crash`).  The swap is
then pending, though its request was dropped, until the next Bootload resends it.
`Faults`: `"disk"`, a database call fails; `"build"`, contracts cannot be built.

### Callback

`VerifyDelaySwap` is the function of that name on the amounts that `SetString`
reads: any integer, or an unreadable string.  `Daemon` calls it for every answer
with details; refused details are handled as `unavailable`, that is the server is
asked again at the next tick (documentation line 219 says "the swap fails").

### Lifecycle

`Lifecycle` is the abstract specification of `Daemon`'s tables, with
`stage[s] <- ` the pending blob, or `"ended"` for a swap that was pending and is not any
more.

### Intake

Each HTTP request is a goroutine: `pc` says where in its handler it is.  `ReadFlag`,
`WriteBootload` and `EndMark` are the steps of `bootload()`, during which other
handlers read and write the same map; `Check` stands for the validation of a POST,
which answers freely, `WriteRequest` for `Receiver.Write`, `Build` for
`buildSwapResponse` and `Posted` for the answer of the server at the swap's `ResponseURL`, if
it has one.  `accepts`, `hand` and `Pump` are the exchange of AcceptRequest
and AcceptedRequest between composer and service; a Receive may return a message, a
tick or, after `Shutdown`, an error that ends the exchange.  `Restart` ends the
process at any point; the Go runtime does this, too, when it notices the concurrent
use of the map.  In `Daemon` and `AtomicSwap` the whole of it is the action
`PostSwap`, with a Bootload before it: that this order is kept, unless a Bootload
cannot be written, is `BehindBootload`.

### Mailbox

The abstract specification of that way: what is put arrives once and in order.
`sent` is what the wallet task was sent, what is in `hand` and what is in `buf`.

### Terms

Pure operators, in the smallest unit of each token.  `VerifyEthereum`,
`VerifyERC20` and `VerifyBitcoin` are the balance checks of a POST, `WithFees` the sum
they are made for.  `Response` is the blob that `buildSwapResponse` answers with;
`NativeSwap` and `ForeignSwap` are the two swaps a daemon builds from its blob, and
`Bind` is what the constructors of the bindings do to them: the Bitcoin one raises
the broker's fee to the dust limit, all add it to the value.  `Locks` is what
Initiate puts into a contract, `AuditPasses` what Audit demands of it, `Payout` and
`PaysBroker` what Redeem takes out.  Divisions round down, as `big.Int.Div` does for
the amounts that occur.

### Settlement

Extends `AtomicSwap`: each action is one of its actions with its effect on money.
`Held[c]` is what the contract of `c` holds, from the native swap of its owner;
`TermsAudit` lets the other daemon's audit pass only if that satisfies its own foreign
swap, and `TermsReplies` skips a Bitcoin redemption that would leave dust.  `granted`
is what a daemon's transactions let the miners take, `paid` what they have taken: on
Ethereum a binding knows the gas limit of a transaction (`tx.Gas()`), the chain takes the
gas that was used, any of `GasUsed`; on Bitcoin both are the fee.  `cost` are the maps in a
daemon's SwapRequest and `told` those in its receipt: for each contract a map from tokens
to amounts, to which a call adds the most that the miners may take (`MinersEntry`) and what
the broker takes or gives back (`BrokersEntry`).  An Ethereum transaction is charged when it
is sent, and an ERC20 contract takes two (`IsPair`); what the miners will take of it is settled
in the same step, since one that reverts pays too.  A Bitcoin transaction is charged when the
wait ends well, and paid when it is mined.  A receipt update is a closure over the binding's
map: `late` says that one is on its way, and `StoreReceipt` reads the map as it is by
then.  A crash loses `cost` and the update; the next SwapRequest starts from the
receipt (`LoadCosts`).  Each SwapRequest has maps of its own, so one map for each daemon
is faithful as long as there is one request at a time: the module assumes one Bootload per
start (`RequestAssumption`); two requests of a swap are `DocFill`'s subject.

### Transfers

`place[q]` says where a request for a transfer is: in its handler, which checks the
balance, prices the transfer and writes it to the receiver (`Check`, `Price`, `Accept`), in
the queue, in the transfer task (`Publish`, `Wait`, `Store`), or how it ended.  The task
handles one request at a time and waits for its transaction to be mined.  `entry` is the DGX
entry of the package's map of Ethereum's costs.  `erc20TransactionCost` writes it
(`WriteEntry`) when a handler prices a DGX transfer, before its request is written, which may
take a minute and fail, and when the binding of a DGX swap computes its value (`PriceSwap`,
at any time).  Since the map itself travels with the request, `Store` writes what the entry
is by then into the receipt of any Ethereum or token transfer.  `since[q]` is a history
variable: the amounts that were priced from the pricing of `q` on.  A token of the model is
DGX, the one with a fee.  `GetTransfers` fails as a whole when an own transfer cannot be
looked up.  `Faults`: `"rpc"`, a node fails; `"busy"`, the receiver does not take a request;
`"timeout"`, a wait ends with the transaction on its way; `"disk"`, a receipt cannot be
written; `"lookup"`, a lookup fails.

### Payments

The abstract wallet: nothing is paid that was not accepted, nothing twice, and only
what was paid is listed.

## 3. Runs

Time bounds: the time lock is at 3 and `MaxClock = 4` lets the clock pass it at any
point of either daemon's execution, or not at all: the clock is not fair, and a
liveness property names what it needs of it (`[](wall <= TimeLock)` or `Lapses`).
For a swap one crash (of either daemon, at any point) is enough for every known scenario:
after it the daemon starts from the beginning with the chain in an arbitrary
state, which is what a second crash would produce again.  `MaxBoots = 2` is the
race of two first requests on the `bootloaded` map (in `DocFill`; for a swap being
executed twice the theorem `NotForgotten` covers every number of Bootloads).

| Run | Instance | Checks |
|---|---|---|
| `SwapFaults` | ETH for BTC, all faults, `Lag` 2, one crash | the inductive invariant `IInv`, `ResponderFundsSecond`, `InitiatorNeverLoses`, `RefundAfterLock`, refinement of `Exchange` |
| `SwapLive` | BTC for ERC20, timeouts, one crash | the inductive invariant `EndsInv`, `ExpiredLosesNothing`, `InitiatorRefundTruthful`, `DroppedOnlyWhenPaid`; liveness: both complete (`SwapCompletes`), an initiator without a peer gets its money back (`InitiatorRecovers`), a swap ends, except at a daemon that missed its own refund (`StuckOnlyRefunded`) |
| `DaemonFaults` | an immediate and a delayed swap, two acceptable fills and four that fail one check each, failing disk and builds, two crashes, one Bootload per start | the inductive invariant `IInv`, `OneVersion`, `WriteAhead`, `WithinTerms`, refinement of `Lifecycle` |
| `DaemonReceipts` | an immediate and a delayed swap, one fill, one crash | `PendingIsAlive`; until the crash `UpdateFindsReceipt`, `FinalStays`, and liveness: `EndShown`, `AmountsShown` |
| `Intake` | GET /info and a swap for one account, a transfer for another, buffer of 2, one restart | the inductive invariant `IInv`, `AnswerTells`, `BehindBootload`, `InfoTruthful`, refinement of `Mailbox`, liveness: `Answered`, `Served` |
| `Settlement` | the least amount of BTC for a token, a broker's fee that Bitcoin raises to the dust limit, miners' fees of the user's own, two crashes | receipts: `CostsCounted`, `WithinLimits`; money: `PaidAsAgreed`, and liveness `SettlesAsAgreed` |
| `Transfers` | two DGX transfers of an account that can pay either, a Bitcoin transfer of another that is covered just so or (in one of two initial states) not, two pricings of DGX swaps, all faults but `"lookup"`, one crash | the inductive invariant `IInv`, `PoorOnlyByOthers`, `FeeIsOwnOrLater`, `ListIsOwn`, refinement of `Payments`; liveness: `QueueDrains`, `PaidIsListed` |

One swap of each kind is enough for the routing, since a handler treats each swap
by itself; two fills distinguish an execution under one from one under both.
`MaxBacklog = 1` lets a tick add results only when the last ones were stored:
two results of the same swap are still queued together when a request and a tick
follow each other.  What the receipts show is checked up to the crash: a crash loses the
updates that are in a channel, and Bootload restores only the Active flag (this
is listed as a hazard; no document promises more).

`DaemonFaults` is about the swap tables, and TLC compares its states without the receipts
(`VIEW AllButReceipts`): they are read by nothing but the handler that writes them, so that two
states which differ in them only have the same steps.  A second crash can come between the
writes of a `PutSwap` that the first one cut short.

In `Intake` three requests write up to five messages into a buffer of two, so that
it fills up, and two of them race to be the first of their account; the transfer
shows that accounts do not mix.

In `Settlement` the amounts make every rounding and limit bite: the broker's fee is 60
satoshis, which Bitcoin raises to 600, and the redemption fee is half of the default.  An
Ethereum transaction has a limit of three units of gas and uses two, so that a receipt that
mixes the two up is found out; the theorems are for every set of amounts used.
The second crash can hit an execution that has gone on from a receipt of the first.
The nodes answer and waits do not expire: with a wait given up a transaction is
charged and may never be mined, and the receipt has no way to know.  `CostsCounted` says
that a receipt counts each transaction once, and what follows for the user: on Bitcoin it
shows what was spent, on Ethereum that or more, by the gas that was not used.  It
excepts two cases in which a receipt is wrong without a crash.  `Beaten`: a Bitcoin wait
ends well when the script is spent, also when the peer has spent it.
`RefundReverted`: on Ethereum a refund is charged, and the broker's share given back,
when its transaction is sent, also if it reverts because the peer has redeemed first.
`WithinLimits` (a receipt never tells of more than the transactions sent
allow to be taken) excepts an Ethereum responder's own contract (`CountsTwice`): an
update of the receipt that is on its way reads the map while the initiation is in
flight, so after a crash the share of an initiation that is sent again is counted
again.  It is about every moment, not only about a daemon at rest: also while transactions
are in flight and updates on their way.  `WithinLimits` and `PaidAsAgreed` are about the
time before the time lock, after which refunds and redemptions race (`DocAtomicity`).

In `Transfers` three requests are enough for each pair that can interact: two of one
account that compete for its balance, two of one token that compete for the map of
costs, and one that is behind another account's in the queue.  Two pricings of swaps are
enough to have one before and one after each step of a transfer.  The instance has no ether
transfer, whose check the proofs cover (`CheckCovers`).  `ListIsOwn` says what a list may
show, not that it shows all that is stored.  `PoorOnlyByOthers` is about transfers alone: a
swap of the account would spend its balance, too.

Deadlock is not checked in these runs: when both swaps have ended and the bound
of the clock is reached, or every request is answered, the system has nothing to do.

Runs that must find a violation, each of one sentence of
`docs/src/source/index.html.md`:

| Run | Sentence | What happens |
|---|---|---|
| `DocAtomicity` | line 61, "both parties exchanging their tokens, or both parties keeping" | with equal time locks a refund decision races the initiator's redemption; the skipped refund counts as Refunded |
| `DocDouble` | line 72, "All actions are idempotent" | a crash between the initiator's refund and DeleteSwap: on resumption it redeems the responder's contract as well |
| `DocRetryRpc` | line 72, "it retries actions as needed" | a failed request before Redeem is reported as Redeemed |
| `DocFill` | line 72, "cannot result in an accidental double execution" | two racing first requests both send Bootload; a delayed swap is asked for twice and executed under both answers |
| `DocPair` | line 217, "The updated token pair is same as the initial token pair" | tokens are not compared: a fill of another pair is executed |

The behaviours need a daemon that is slow or stopped for hours around the time
lock, except that of `DocRetryRpc`, which needs one failed request, that of
`DocFill`, which needs two requests at once, and that of `DocPair`, which needs an
answer of another pair.  A swap whose contracts could not be
built leaves the swap map without an answer and is not tried again until the next
Bootload: the models have it (`"build"` in `Faults`), and the liveness runs leave
that fault out.  A responder that crashed between its refund and DeleteSwap audits a
refunded contract, gets an error and reports Initiated for ever; an initiator on
Bitcoin whose refund is mined after its wait was given up, or before a crash, tries to
spend the script again on every tick and reports RefundFailed for ever.  That is why
`StuckOnlyRefunded` excepts the two.

### Fairness

`FairSpec` assumes weak fairness of blocks, of mining every published transaction,
of each immediate swapper's goroutine (ticks arrive every thirty seconds), of the delivery of DeleteSwap, and of the first Bootload after a
restart (documentation line 27: the daemon resumes on the first HTTP request;
somebody has to send one).  Nothing makes a user post a swap or a process die.
A tick is part of `Work`, so that weak fairness of the goroutine lets a swap in
the map be retried; a reply is never made fair, only the step.  In `Daemon` each
channel is read fairly (a goroutine selects among its channels at random), except
the inbox of the delayed swapper, whose request to a callback server has no timeout;
neither ticks nor any particular answer or outcome are assumed.  In `Intake` the
goroutines go on, but nothing makes the server at a `ResponseURL` answer (the `http.Post` to it
has no timeout either): `Answered` excepts a handler that waits for one, and `Served` does not,
since its swap is on its way already.  And the select of `Receive` takes the buffer at some time if it is
ready again and again (strong fairness: Go's select chooses at random).  `SettleSpec` assumes what `FairSpec` does,
and that the status task takes its messages; `Transfers` assumes that the transfer task is
scheduled and that transactions are mined.

## 4. Proofs

Every safety invariant and refinement that a passing run checks is a theorem for every
value of the constants.  The
assumptions on constants that a theorem needs beyond those of its module are named
in it:

| Assumption | Meaning | Why it is needed |
|---|---|---|
| `ReliableNodes` | `"rpc" \notin Faults`: requests to the nodes do not fail | `DocRetryRpc` shows what happens otherwise |
| `AuditsReliably` | as above, or the initiator's token is not Bitcoin | only the Bitcoin binding takes an error for an expired audit |
| `BlocksOnTime` | `Lag = 0`: a block's timestamp is the hosts' clock | a refund that the contract refuses for its older clock is reported all the same |
| `SingleBootload` | `MaxBoots = 1`: one Bootload per start | two racing first requests execute a swap twice (`DocFill`) |
| `Worthwhile` | what is received in Bitcoin exceeds the redemption's fee by the dust limit | else the redemption is skipped; `AcceptedIsRedeemable` shows it for the default fee |
| `NodesAnswer` | `Faults = {}`: requests do not fail and no wait is given up | a transaction whose wait was given up has been charged on Ethereum and may never be mined; on Bitcoin it may be mined and is never charged |
| `FeesAreNat` | the miners' fees of the offer are not negative | with a negative fee an uncounted transaction would be money gained, and gas that was not used money lost |

The form is the same everywhere: `TypeOK` first; then an inductive invariant, which a
run checks by the same name (for `Settlement` two of them, which imply what its run
checks), proved with a lemma for each action or group of actions
(effects of an action are stated once, in lemmas of their own, and what it means for the
invariant follows from them); then the properties, which follow from it.

### AtomicSwap_proofs

For every assignment of token kinds, every set of faults and every value of the bounds:

* `TypeCorrect`: `Spec => []TypeOK`.
* `Inductive`: `Spec => []IInv`, the strengthening.  The three safety properties
  are about contracts alone and not inductive: a transaction in the pool may
  break them in the next step.  `FundsSecondInv`, `SecretInv` and `RefundInv` say
  the same of the transactions in flight and of the places in `handleSwap` from
  which the daemon will publish one; `PlacesOK` excludes that the initiator
  audits a secret.
* `FundsSecond`, `InitiatorSafe`, `NoEarlyRefund`: the three properties, from it.
* `Refinement`: `Spec => ImplementsExchange`, step by step: only `Mine` and the
  clock change the mapped variables.
* `NotForgotten` (`ReliableNodes`): `[]DroppedOnlyWhenPaid`, by `IInv /\ PaidInv`.
  `PaidInv` adds that a DeleteSwap on its way before the time lock was caused by
  a redemption.
* `ReportsTrulyRedeemed` (`ReliableNodes`): what `DocRetryRpc` refutes holds if requests
  do not fail.
* `ExpiredIsSafe` (`SingleBootload`, `AuditsReliably`): `[]ExpiredLosesNothing`.
  `ExpiredInv` says it from the moment of the DeleteSwap on; `OnceInv`, that a daemon
  executes the swap once per start and never after it has finished with it, keeps the
  contract from being funded later.
* `RefundIsTrue` (`ReliableNodes`, `BlocksOnTime`): `[]InitiatorRefundTruthful`.
  `RefundingInv` says that an initiator on its way to a refund has a funded contract
  and has not let the secret out; `ClocksAgree` that the contract will accept it.
* `Ends` (the three assumptions): `[]EndsInv`, all of these together.

### Settlement_proofs

* `IsSwap` (`Worthwhile`): a settlement is a behaviour of `AtomicSwap`, for every offer,
  pair of tokens, amount, fee and address: the terms the two daemons derive from the offer
  agree (`TermsAgree`, from `HonestTerms`), so no audit fails for them and no redemption is
  skipped.  All that is proved of `AtomicSwap` therefore holds with the money in it.
* `PaysAsAgreed` (`Worthwhile`, `ReliableNodes`): `[]PaidAsAgreed`.
* `CountsOnce` (`Worthwhile`, `NodesAnswer`, `FeesAreNat`): `[]CostsCounted`, for every
  pair of tokens, every fee, every limit and use of gas, and blocks that lag.  The receipt at
  rest is compared with sums over
  all that was ever sent and mined, so the invariant has to know both sums in every state.
  `MinedInv`: on Bitcoin what the miners were granted can be read from the state of the
  contract.  `CostsInv`: so can what was counted, from that, the wait a daemon is in and
  the status it reported (`BitcoinCosts`); on Ethereum grant and charge are one step, and
  their difference is the broker's share, from the initiation until the refund (`EtherCosts`,
  `Shares`).  `TakenInv` compares what was taken with what was granted: equal on Bitcoin, at
  most that on Ethereum.  `FlightInv` says that a transaction a daemon waits for will be accepted unless
  it is not needed any more, hence that a wait ends and how; `FirstStart` that a daemon
  which was never restarted has nothing in flight that it does not wait for, does
  nothing after the end of the swap, and has told all it counted unless an update is on its
  way.
* `TellsWithinLimits` (`Worthwhile`, `NodesAnswer`, `FeesAreNat`): `[]WithinLimits`, for any
  number of crashes.  `WithinInv` says it of the request too, which
  the next update stores, with one exception: an initiation on Ethereum in flight is ahead of the
  chain by the broker's share (`Ahead`).  No update of the initiator's can store that, since its
  first one comes after its contract is funded.  A charge of Bitcoin that is still to come
  finds nothing counted before it (`AwaitsCharge`): while a call is waited for, nothing was
  mined before it, and what was told is at most what was granted.

### Daemon_proofs

For every finite set of swaps, every set of fills and faults and any number of crashes:

* `TypeCorrect`: `TypeOK` says what each channel carries and with which details, above all
  that the immediate swapper is only sent a swap as posted or with details
  that `verifyDelaySwap` let pass; for any number of Bootloads.
* `NothingBelowTerms`: `[]WithinTerms`, from that and `FairFill`, for swaps that offer
  something (`FairFill` needs a positive amount to divide by); for any number of Bootloads.
* `Inductive` (`SingleBootload`): `[]IInv`.  `OneVersion` and `WriteAhead` are not inductive: a
  second request of a swap anywhere in the tree could replace the stored details while the
  first is being executed.  `Alone` says that a swap is in one place only, in one channel,
  once, or in one map; `Stored` what the pending table says of a swap in that place, and that
  what it holds was accepted, also after a `PutSwap` that was cut short;
  `BootloadFirst` that nothing of a swap is in the tree before Bootload has been handled,
  which is what makes the resent swaps the only ones.
  The proof is about one swap at a time (`SwapInv`), so that a step has to be looked at
  only for the swaps of the messages it takes and sends.
* `ExecutedOnce`, `StoredFirst`: `[]OneVersion` and `[]WriteAhead`.
* `Refinement`: `Spec => ImplementsLifecycle`: a swap is filled at most once and ended for good.
* `NoneForgotten` (`NoFaults`): `[]PendingIsAlive`, for any number of Bootloads per start and
  any crashes.  `LiveInv` is `PendingIsAlive` for one swap; the proof shows of each handler that the message it
  takes of a swap reappears in its map or in its output, or that the swap is
  deleted.  It needs `NoFaults` (`Faults = {}`): a filled swap whose `PutSwap` fails, a
  Bootload whose read of the table fails and a swap whose contracts cannot be built are
  dropped by the code, though the table still holds them.
* `ReceiptFirst` (`DiskWorks`): `[]UpdateFindsReceipt`, for any number of Bootloads.
  `ReceiptInv` says that, until a crash, whatever the task tree holds of a swap comes after its receipt:
  the receipt is stored or in front of every update in the status task's own
  channel.  `DiskWorks` (`"disk" \notin Faults`) stands for a
  `PutReceipt` that does not fail: when it does, the receipt is never in the map.
* `FinalIsLast` (`SingleBootload`): `Spec => FinalStays`, whatever builds and writes fail.  `EndInv`
  says that a final status is the last one in its channel; that no channel which is
  emptied behind it (`Ahead`) holds another one of that swap; and that no
  task can tell a further one, because a handler sends a final status together with the removal
  and a swap that is about to be removed is in no other place (`RemovalsClose`, from
  `Alone`).  `Tellers` keeps the two children apart: the delayed swapper tells
  final statuses only, and what it asks about was never executed.  `Fresh` says that
  until a crash the Bootload finds an empty table, so it resends nothing.

The outputs of the handlers are `FlattenSeq` of one sequence per swap.  `FlattenTheorems`
proves that its elements are those of the sequences, each once and in order
(`FlattenProperties`): the recursive function behind it exists and is characterised by the least
index at which it would not be (`Least`), an induction that needs no
theorem with an operator parameter.

### Intake_proofs and Transfers_proofs

* `Intake_proofs`, for every set of requests, passwords and every capacity: `TypeCorrect`,
  `Inductive`, `AnswersTell`, `NothingBeforeBootload`, `InfoIsTrue` for the three properties, and
  `Refinement`: `Spec => ImplementsMailbox`.  Its `IInv` ties the place of a handler to the messages
  it has sent (`OnceInv`) and the flag of a password to a Bootload that was sent (`FlagInv`).
* `Transfers_proofs`, for every set of requests, accounts, amounts, funds and faults: `TypeCorrect`,
  `Inductive`, `PoorByOthers`, `ReceiptFee`, `OwnList` and `Refinement`:
  `Spec => ImplementsPayments`.  `QueueInv` and `PaidInv` give each request one place and one payment at
  most; `MoneyInv` says that a checked request can be paid or that others of
  its account have spent the balance since; `PriceInv` that from the pricing of a DGX transfer
  on the entry is the fee of an amount that was priced since.  `ReceiptFee` is for any values of
  swaps and any number of them.

### Callback_proofs and Terms_proofs

`Callback_proofs` proves, for every offer and answer, that what `VerifyDelaySwap`
accepts is `Fair` (`FairFill`): the cross-multiplied comparison of prices gives the
user the whole of what was asked for the whole of what was offered; and that a
positive amount is never given for nothing (`NothingForNothing`).

`Terms_proofs` proves, for every amount, fee and address:

* `WithFeesIsSum`: the sum that is checked against the balance is the amount and the
  broker's fee; rounding does not separate scaling from adding.
* `BalanceCoversInitiate`: on Bitcoin it covers what Initiate sends, although the broker's
  fee is raised afterwards: the check asks for 600 satoshis more.
* `Complementary`, `HonestTerms`: the answer to an offer, posted by the peer, makes each
  daemon's native swap the other's foreign swap (`Shared`); after `Bind` each audit
  passes and each redemption pays the amount of the blob, less the miner's fee on
  Bitcoin.  The only assumption is that the offer names the peer's addresses.
* `AcceptedIsRedeemable`: with the default fee and a broker's fee of at most a half, a
  redemption on Bitcoin is never skipped for dust.
* `DGXFeeExact`: the fee that is added for DGX is exactly what the token takes.

### Only model-checked

* Liveness under fairness (`SwapCompletes`, `InitiatorRecovers`, `StuckOnlyRefunded`, `EndShown`,
  `AmountsShown`, `Answered`, `Served`, `QueueDrains`, `PaidIsListed`, `SettlesAsAgreed`): out of
  the prover's reach.

## 5. Not modelled

Secrets, hashes and scripts are not data: "the secret is known" is "the
responder's contract was redeemed".  A transaction that is published twice is one
element of `pool`: the second copy reverts on Ethereum; whether a second funding
transaction on Bitcoin could be mined depends on libbtc and is not modelled.

Of the money: the network's relay rules (a Bitcoin redemption has an output for the
broker even when the fee is zero, `adapter/binder/btc/btc.go:189`); a withdraw address
of the user's own, which takes the place of the spender's; a `sendFee` above the
default, which the balance check does not know of; DGX as the token of a swap, whose
value `sendValue` reads back from the shared map of costs
(`adapter/binder/erc20/erc20.go:322`; `Transfers` has what it writes into the map).

The ticker that every Receive creates anew (`adapter/server/receiver.go:31`) and what
package tau does when its buffers of 2048 messages are full are outside: there is no
time between ticks and no full channel in the models.  Passwords decide in the code which
swaps a Bootload resends and which receipts a GET shows; the models have one account
(`Transfers`: two).

Not modelled as components: the key store, the LevelDB and the logger drivers (pure I/O),
the commands (start-up, installation, updates; the Windows service's loop is a few
lines around a channel, driven by an operator), the test utilities, and the scripts of the documentation website under `docs`,
which are vendored (jquery, lunr and the Slate theme), run in a reader's browser and are
no part of the daemon.  `PROJECT.json` gives each component's status.

## 6. Plan

1. `HTLC`, `Binder`, `AtomicSwap` with proofs (done).
2. `Daemon` and `Lifecycle`: the task tree of one process, with proofs (done).
3. `Callback`: the checks of a filled swap, with arithmetic lemmas (done).
4. `Intake` and `Mailbox`: handlers, receiver, service and composer, with proofs (done).
5. `Terms`, `Settlement`, `Transfers`, `Payments`: amounts, costs and transfers, with
   proofs (done).
6. The inductive invariants behind the costs of `Settlement`, with proofs (done).
