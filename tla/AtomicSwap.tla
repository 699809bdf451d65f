----------------------------- MODULE AtomicSwap -----------------------------
(***************************************************************************)
(* One atomic swap executed by two swapperd daemons, from the POST that    *)
(* accepts it at each of them to the removal of the swap.                  *)
(*                                                                         *)
(* The module composes the chains (HTLC), the contract bindings (Binder)   *)
(* and, for each role, the swapper of core/wallet/swapper/immediate with   *)
(* the pending table that core/wallet/swapper writes.  Each call into a    *)
(* binding is a step of its own, and a call that sends a transaction is    *)
(* two: the publication and the end of the wait.  Hence time, the peer,    *)
(* late transactions and crashes interleave with every point of handleSwap *)
(* at which the code blocks.                                               *)
(***************************************************************************)
EXTENDS Binder

CONSTANTS
  MaxCrashes,  \* bound of the model: crashes of the two daemons together
  MaxBoots     \* Bootload messages between two starts of a daemon, 1 unless
               \* concurrent first requests race to send it

ASSUME BoundsAssumption == MaxCrashes \in Nat /\ MaxBoots \in Nat \ {0}

VARIABLES
  pc,        \* pc[r]: the binding call r's immediate swapper is in, or "idle"
  queued,    \* queued[r]: SwapRequests waiting in the immediate swapper's inbox
  swapMap,   \* swapMap[r]: the swap is in immediate.swapper.swapMap
  deleting,  \* deleting[r]: a DeleteSwap message is on its way to the swapper
  pending,   \* pending[r]: the swap is in the table of pending swaps on disk
  reported,  \* reported[r]: status in the last ReceiptUpdate, "none" before POST
  boots,     \* boots[r]: Bootload messages handled since the last start
  crashes    \* crashes so far

daemonVars == <<pc, queued, swapMap, deleting, pending, reported, boots, crashes>>
vars == <<chainVars, daemonVars>>

Waits    == {"initiate_wait", "redeem_wait", "refund_wait"}
Places   == {"idle", "audit", "auditSecret"} \cup Calls \cup Waits
Statuses == {"none", "Inactive", "Initiated", "Audited", "AuditPending",
             "AuditedSecret", "Redeemed", "Refunded", "RefundFailed", "Expired"}

WaitOf(call) == IF call = "initiate" THEN "initiate_wait"
                ELSE IF call = "redeem" THEN "redeem_wait" ELSE "refund_wait"

(* A daemon initiates and refunds its native contract, audits and redeems  *)
(* the foreign one.                                                        *)
Target(r, call) == IF call = "redeem" THEN Peer(r) ELSE r

Init ==
  /\ ChainInit
  /\ pc       = [r \in Roles |-> "idle"]
  /\ queued   = [r \in Roles |-> 0]
  /\ swapMap  = [r \in Roles |-> FALSE]
  /\ deleting = [r \in Roles |-> FALSE]
  /\ pending  = [r \in Roles |-> FALSE]
  /\ reported = [r \in Roles |-> "none"]
  /\ boots    = [r \in Roles |-> 0]
  /\ crashes  = 0

DaemonTypeOK ==
  /\ pc \in [Roles -> Places]
  /\ queued \in [Roles -> Nat]
  /\ swapMap \in [Roles -> BOOLEAN]
  /\ deleting \in [Roles -> BOOLEAN]
  /\ pending \in [Roles -> BOOLEAN]
  /\ reported \in [Roles -> Statuses]
  /\ boots \in [Roles -> Nat]
  /\ crashes \in Nat

TypeOK == ChainTypeOK /\ DaemonTypeOK

-----------------------------------------------------------------------------
(* Acceptance, bootload and crash                                          *)

(* patchSwap: the responder needs two expiry units before the time lock.   *)
TimeToAccept(r) ==
  IF r = "initiator" THEN wall = 0
  ELSE reported["initiator"] # "none" /\ wall + 2 * ExpiryUnit <= TimeLock

(* The handler bootloads the daemon before it accepts a swap (nothing is   *)
(* pending then); the swapper stores the swap and hands it to the immediate *)
(* swapper.  The responder's request needs the secret hash and the time    *)
(* lock from the answer to the initiator's.                                *)
PostSwap(r) ==
  /\ reported[r] = "none"
  /\ TimeToAccept(r)
  /\ reported' = [reported EXCEPT ![r] = "Inactive"]
  /\ pending' = [pending EXCEPT ![r] = TRUE]
  /\ queued' = [queued EXCEPT ![r] = @ + 1]
  /\ boots' = [boots EXCEPT ![r] = 1]
  /\ UNCHANGED <<chainVars, pc, swapMap, deleting, crashes>>

(* handleBootload sends every swap of the pending table again, also when   *)
(* the daemon is already executing it.                                     *)
Bootload(r) ==
  /\ boots[r] < MaxBoots
  /\ pending[r]
  /\ boots' = [boots EXCEPT ![r] = @ + 1]
  /\ queued' = [queued EXCEPT ![r] = @ + 1]
  /\ UNCHANGED <<chainVars, pc, swapMap, deleting, pending, reported, crashes>>

(* The process dies at any point and is started again.  The tables and the *)
(* published transactions survive.                                         *)
Crash(r) ==
  /\ crashes < MaxCrashes
  /\ reported[r] # "none"
  /\ crashes' = crashes + 1
  /\ pc' = [pc EXCEPT ![r] = "idle"]
  /\ queued' = [queued EXCEPT ![r] = 0]
  /\ swapMap' = [swapMap EXCEPT ![r] = FALSE]
  /\ deleting' = [deleting EXCEPT ![r] = FALSE]
  /\ boots' = [boots EXCEPT ![r] = 0]
  /\ UNCHANGED <<chainVars, pending, reported>>

-----------------------------------------------------------------------------
(* handleSwap                                                              *)

Goto(r, place) ==
  /\ pc' = [pc EXCEPT ![r] = place]
  /\ UNCHANGED <<queued, swapMap, deleting, pending, reported, boots, crashes>>

(* Mutant of Finish: a kept swap is not remembered.                        *)
FinishForgets(r, status, remove) ==
  /\ pc' = [pc EXCEPT ![r] = "idle"]
  /\ reported' = [reported EXCEPT ![r] = status]
  /\ swapMap' = [swapMap EXCEPT ![r] = FALSE]
  /\ deleting' = [deleting EXCEPT ![r] = @ \/ remove]
  /\ UNCHANGED <<queued, pending, boots, crashes>>

(* handleResult: the receipt update, and the swap is removed or kept.      *)
Finish(r, status, remove) ==
  /\ pc' = [pc EXCEPT ![r] = "idle"]
  /\ reported' = [reported EXCEPT ![r] = status]
  /\ swapMap' = [swapMap EXCEPT ![r] = ~remove]
  /\ deleting' = [deleting EXCEPT ![r] = @ \/ remove]
  /\ UNCHANGED <<queued, pending, boots, crashes>>

(* Mutant of FirstCall: the responder funds its contract before it audits. *)
FirstCallFund(r) == "initiate"

FirstCall(r) == IF r = "initiator" THEN "initiate" ELSE "audit"

(* Mutant of HandleRequest: an empty inbox is not waited for.              *)
HandleRequestAnyway(r) ==
  /\ pc[r] = "idle"
  /\ queued' = [queued EXCEPT ![r] = @ - 1]
  /\ pc' = [pc EXCEPT ![r] = FirstCall(r)]
  /\ UNCHANGED <<chainVars, swapMap, deleting, pending, reported, boots, crashes>>

(* Reduce on a SwapRequest, with contracts that could be built.            *)
HandleRequest(r) ==
  /\ pc[r] = "idle"
  /\ queued[r] > 0
  /\ queued' = [queued EXCEPT ![r] = @ - 1]
  /\ pc' = [pc EXCEPT ![r] = FirstCall(r)]
  /\ UNCHANGED <<chainVars, swapMap, deleting, pending, reported, boots, crashes>>

(* BuildSwapContracts failed: the request is answered with an error, and   *)
(* only a swap that is already in the map will be tried again.  (On a tick *)
(* a failure to build changes nothing.)                                    *)
DropRequest(r) ==
  /\ "build" \in Faults
  /\ pc[r] = "idle"
  /\ queued[r] > 0
  /\ queued' = [queued EXCEPT ![r] = @ - 1]
  /\ UNCHANGED <<chainVars, pc, swapMap, deleting, pending, reported, boots, crashes>>

(* Reduce on a Tick.                                                       *)
HandleTick(r) ==
  /\ pc[r] = "idle"
  /\ swapMap[r]
  /\ Goto(r, FirstCall(r))
  /\ UNCHANGED chainVars

(* What handleSwap does with the answer of foreign.Audit(): if the contract *)
(* is missing for too long, the initiator takes its own money back and the *)
(* responder forgets the swap.                                             *)
AuditAnswer(r, reply) ==
  \/ reply = "ok" /\ Goto(r, IF r = "initiator" THEN "redeem" ELSE "initiate")
  \/ reply \in {"pending", "error"} /\ Finish(r, "AuditPending", FALSE)
  \/ reply = "expired" /\ r = "initiator" /\ Goto(r, "refund")
  \/ reply = "expired" /\ r = "responder" /\ Finish(r, "Expired", TRUE)

Audit(r) ==
  /\ pc[r] = "audit"
  /\ UNCHANGED chainVars
  /\ \E reply \in AuditReplies(Peer(r)) : AuditAnswer(r, reply)

(* The responder waits for the secret in its own contract.                 *)
AuditSecret(r) ==
  /\ pc[r] = "auditSecret"
  /\ UNCHANGED chainVars
  /\ \E reply \in AuditSecretReplies(r) :
       \/ reply = "ok" /\ Goto(r, "redeem")
       \/ reply = "pending" /\ Finish(r, "AuditPending", FALSE)
       \/ reply = "error" /\ Finish(r, "Initiated", FALSE)
       \/ reply = "expired" /\ Goto(r, "refund")

(* What handleSwap does when a call that writes returns nil ...            *)
Succeed(r, call) ==
  \/ call = "initiate" /\ Goto(r, IF r = "initiator" THEN "audit" ELSE "auditSecret")
  \/ call = "redeem"   /\ Finish(r, "Redeemed", TRUE)
  \/ call = "refund"   /\ Finish(r, "Refunded", TRUE)

(* ... and when it returns an error: the swap is kept for the next tick.   *)
Fail(r, call) ==
  \/ call = "initiate" /\ Finish(r, IF r = "initiator" THEN "Inactive" ELSE "Audited", FALSE)
  \/ call = "redeem"   /\ Finish(r, IF r = "initiator" THEN "Audited" ELSE "AuditedSecret", FALSE)
  \/ call = "refund"   /\ Finish(r, "RefundFailed", FALSE)

SendAnswer(r, call, reply) ==
  \/ reply = "send"  /\ Publish(call, Target(r, call)) /\ Goto(r, WaitOf(call))
  \/ reply = "skip"  /\ UNCHANGED pool /\ Succeed(r, call)
  \/ reply = "error" /\ UNCHANGED pool /\ Fail(r, call)

(* A call that writes, up to the publication of its transaction.           *)
Send(r, call) ==
  /\ pc[r] = call
  /\ UNCHANGED <<wall, blockTime, htlc>>
  /\ \E reply \in Replies(call, Target(r, call)) : SendAnswer(r, call, reply)

(* The end of the wait for a published transaction.                        *)
Await(r, call) ==
  /\ pc[r] = WaitOf(call)
  /\ UNCHANGED chainVars
  /\ \/ Confirmed(call, Target(r, call)) /\ Succeed(r, call)
     \/ GivesUp(call, Target(r, call)) /\ Fail(r, call)

(* handleDeleteSwap of the parent task.                                    *)
DeleteSwap(r) ==
  /\ deleting[r]
  /\ deleting' = [deleting EXCEPT ![r] = FALSE]
  /\ pending' = [pending EXCEPT ![r] = FALSE]
  /\ UNCHANGED <<chainVars, pc, queued, swapMap, reported, boots, crashes>>

(* The goroutine of r's immediate swapper.                                 *)
Work(r) ==
  \/ HandleRequest(r)
  \/ DropRequest(r)
  \/ HandleTick(r)
  \/ Audit(r)
  \/ AuditSecret(r)
  \/ \E call \in Calls : Send(r, call) \/ Await(r, call)

Next ==
  \/ ChainNext /\ UNCHANGED daemonVars
  \/ \E r \in Roles : \/ PostSwap(r)
                      \/ Bootload(r)
                      \/ Crash(r)
                      \/ Work(r)
                      \/ DeleteSwap(r)

Spec == Init /\ [][Next]_vars

(* Blocks are mined, tasks are scheduled and ticked, and a daemon that was *)
(* started again gets a first request.  Nothing makes a user post a swap   *)
(* or a process crash, and whether the time lock passes is left open.      *)
Fairness ==
  /\ \A c \in Roles :
       /\ WF_vars(AdvanceBlock(c) /\ UNCHANGED daemonVars)
       /\ \A call \in Calls : WF_vars(Mine(call, c) /\ UNCHANGED daemonVars)
  /\ \A r \in Roles :
       /\ WF_vars(Work(r))
       /\ WF_vars(DeleteSwap(r))
       /\ WF_vars(boots[r] = 0 /\ Bootload(r))

FairSpec == Spec /\ Fairness

-----------------------------------------------------------------------------
(* Safety under every fault of the model                                   *)

(* The responder's contract is funded only after the initiator's is on     *)
(* chain: respond() audits the foreign contract before native.Initiate().  *)
ResponderFundsSecond ==
  htlc["responder"] # "none" => htlc["initiator"] # "none"

(* Whatever fails, the initiator's money goes to the responder only when   *)
(* the initiator has got the responder's: the secret is learned from the   *)
(* redemption that initiate() publishes, and from nothing else.            *)
InitiatorNeverLoses ==
  htlc["initiator"] = "redeemed" => htlc["responder"] = "redeemed"

(* Nobody gets a refund before the time lock, by the clock of the chain or *)
(* by the hosts', so a swap completed before it cannot be undone.          *)
RefundAfterLock ==
  \A c \in Roles : htlc[c] = "refunded" => blockTime[c] >= TimeLock /\ wall > TimeLock

(* The swap as a whole is an Exchange, whatever fails on the way.          *)
Abstract == INSTANCE Exchange WITH escrow <- htlc, lapsed <- wall > TimeLock
ImplementsExchange == Abstract!Spec

(* The inductive invariant behind these: what the place of a daemon in     *)
(* handleSwap and the transactions in flight say about the contracts.      *)
PlacesOK == pc["initiator"] # "auditSecret"

FundsSecondInv ==
  (\/ htlc["responder"] # "none"
   \/ <<"initiate", "responder">> \in pool
   \/ pc["responder"] \in Places \ {"idle", "audit"})
    => htlc["initiator"] # "none"

SecretInv ==
  (\/ htlc["initiator"] = "redeemed"
   \/ <<"redeem", "initiator">> \in pool
   \/ pc["responder"] \in {"redeem", "redeem_wait"})
    => htlc["responder"] = "redeemed"

RefundInv ==
  \A c \in Roles :
    /\ htlc[c] = "refunded" => blockTime[c] >= TimeLock
    /\ (\/ htlc[c] = "refunded"
        \/ <<"refund", c>> \in pool
        \/ pc[c] \in {"refund", "refund_wait"}) => wall > TimeLock

IInv == TypeOK /\ PlacesOK /\ FundsSecondInv /\ SecretInv /\ RefundInv

-----------------------------------------------------------------------------
(* Safety when the nodes answer ("rpc" is not among the faults)            *)

Dropped(r) == reported[r] # "none" /\ ~pending[r]

(* Until the time lock has passed a daemon forgets a swap only when the    *)
(* foreign contract has been redeemed, across crashes, late transactions   *)
(* and repeated execution.                                                 *)
DroppedOnlyWhenPaid ==
  \A r \in Roles : wall <= TimeLock /\ Dropped(r) => htlc[Peer(r)] = "redeemed"

(* Its inductive strengthening, together with IInv.                        *)
AuditedInv ==
  pc["initiator"] \in {"redeem", "redeem_wait"} => htlc["responder"] # "none"

DropInv ==
  \A r \in Roles :
    (Dropped(r) \/ deleting[r]) /\ wall <= TimeLock => htlc[Peer(r)] = "redeemed"

PostedInv ==
  \A r \in Roles :
    pc[r] # "idle" \/ queued[r] > 0 \/ swapMap[r] \/ pending[r] => reported[r] # "none"

PaidInv == AuditedInv /\ DropInv /\ PostedInv

(* A responder that gives up with Expired has no money in a contract or on *)
(* the way to one (with a single Bootload for each start).                 *)
Unfunded(c) == htlc[c] = "none" /\ <<"initiate", c>> \notin pool

ExpiredLosesNothing ==
  Dropped("responder") /\ reported["responder"] = "Expired" => Unfunded("responder")

(* Its inductive strengthening: a daemon executes the swap once for each   *)
(* start, and never after it has finished it.                              *)
Quiet(r) == pc[r] = "idle" /\ queued[r] = 0 /\ ~swapMap[r]

OnceInv ==
  \A r \in Roles :
    /\ boots[r] \in {0, 1}
    /\ boots[r] = 0 => Quiet(r) /\ ~deleting[r]
    /\ queued[r] > 0 => queued[r] = 1 /\ pc[r] = "idle" /\ ~swapMap[r]
    /\ deleting[r] => pending[r]
    /\ deleting[r] \/ ~pending[r] => Quiet(r)

ExpiredInv ==
  /\ deleting["responder"] \/ Dropped("responder")
  /\ reported["responder"] = "Expired"
  => Unfunded("responder")

(* The initiator reports Refunded only if its contract was refunded (where *)
(* block timestamps follow the wall clock).                                *)
InitiatorRefundTruthful ==
  reported["initiator"] = "Refunded" => htlc["initiator"] = "refunded"

(* Its inductive strengthening: an initiator that refunds has funded its   *)
(* contract, and has not let the secret out.                               *)
ClocksAgree == \A c \in Roles : blockTime[c] = wall

RefundingInv ==
  /\ pc["initiator"] \in {"audit", "redeem", "redeem_wait", "refund", "refund_wait"} =>
       htlc["initiator"] # "none"
  /\ <<"redeem", "responder">> \in pool => htlc["responder"] # "none"
  /\ pc["initiator"] \in {"refund", "refund_wait"} =>
       htlc["responder"] # "redeemed" /\ <<"redeem", "responder">> \notin pool

(* What the proofs of these rest on, together.                             *)
EndsInv ==
  /\ PaidInv
  /\ OnceInv /\ ExpiredInv
  /\ ClocksAgree /\ RefundingInv

-----------------------------------------------------------------------------
(* Liveness                                                                *)

(* Two daemons that accepted the swap complete it, across crashes, lost    *)
(* waits and retries, if they are done before the time lock passes.        *)
SwapCompletes ==
  [](wall <= TimeLock) =>
    ((\A r \in Roles : reported[r] # "none")
       ~> (\A r \in Roles : htlc[r] = "redeemed" /\ ~pending[r]))

Lapses == <>(wall > TimeLock)

(* An initiator whose peer never funds its contract gets its money back    *)
(* once the time lock has passed (where block timestamps follow the clock).*)
InitiatorRecovers ==
  Lapses /\ [](htlc["responder"] = "none") =>
    (htlc["initiator"] = "open" ~> htlc["initiator"] = "refunded")

(* A swap that outlives the time lock ends and leaves the pending table,   *)
(* but for two cases of a daemon that does not learn of its own refund,    *)
(* after a crash or a lost wait: a responder audits for the secret for     *)
(* ever and reports Initiated, and on Bitcoin an initiator tries to spend  *)
(* the script again for ever and reports RefundFailed.                     *)
StuckOnlyRefunded ==
  Lapses => \A r \in Roles :
    pending[r] ~>
      \/ ~pending[r]
      \/ htlc[r] = "refunded" /\ (r = "responder" \/ Kind[r] = "btc")

-----------------------------------------------------------------------------
(* What the documentation promises                                         *)

(* "This interactive swapping process will either result in both parties   *)
(* exchanging their tokens, or both parties keeping their tokens."         *)
(* (docs/src/source/index.html.md:61), when both daemons are done.         *)
BothOrNeither ==
  (\A r \in Roles : Dropped(r) /\ pc[r] = "idle" /\ queued[r] = 0) =>
    (htlc["initiator"] = "redeemed" <=> htlc["responder"] = "redeemed")

(* "All actions are idempotent and cannot result in an accidental double   *)
(* execution." (docs/src/source/index.html.md:72): the initiator does not  *)
(* both take its money back and take the responder's.                      *)
NoDoubleExecution ==
  ~(htlc["initiator"] = "refunded" /\ htlc["responder"] = "redeemed")

(* "in the event of [...] unexpected errors, it retries actions as needed" *)
(* (docs/src/source/index.html.md:72): a redeem that did not happen is     *)
(* tried again, and not reported as done.                                  *)
RedeemRetried ==
  \A r \in Roles :
    wall <= TimeLock /\ reported[r] = "Redeemed" => htlc[Peer(r)] = "redeemed"
=============================================================================
