------------------------- MODULE AtomicSwap_proofs -------------------------
(***************************************************************************)
(* Proofs about AtomicSwap, for every kind of token, every set of faults   *)
(* and every value of the bounds.                                          *)
(***************************************************************************)
EXTENDS AtomicSwap, TLAPS

USE ClockAssumption DEF LockOf

-----------------------------------------------------------------------------
(* Type correctness                                                        *)

(* What the ways to leave a binding call do to the daemon's variables.     *)
LEMMA GotoType ==
  ASSUME TypeOK, NEW r \in Roles, NEW place \in Places, Goto(r, place)
  PROVE  DaemonTypeOK'
BY DEF TypeOK, DaemonTypeOK, Goto

LEMMA FinishType ==
  ASSUME TypeOK, NEW r \in Roles, NEW status \in Statuses,
         NEW remove \in BOOLEAN, Finish(r, status, remove)
  PROVE  DaemonTypeOK'
BY DEF TypeOK, DaemonTypeOK, Finish, Places

LEMMA SucceedType ==
  ASSUME TypeOK, NEW r \in Roles, NEW call \in Calls, Succeed(r, call)
  PROVE  DaemonTypeOK'
<1>1. CASE Goto(r, IF r = "initiator" THEN "audit" ELSE "auditSecret")
  BY <1>1, GotoType DEF Places
<1>2. CASE Finish(r, "Redeemed", TRUE) \/ Finish(r, "Refunded", TRUE)
  BY <1>2, FinishType DEF Statuses
<1> QED BY <1>1, <1>2 DEF Succeed

LEMMA FailType ==
  ASSUME TypeOK, NEW r \in Roles, NEW call \in Calls, Fail(r, call)
  PROVE  DaemonTypeOK'
<1>1. PICK status \in Statuses : Finish(r, status, FALSE)
  BY DEF Fail, Statuses
<1> QED BY <1>1, FinishType

LEMMA ChainType ==
  ASSUME TypeOK, ChainNext /\ UNCHANGED daemonVars
  PROVE  TypeOK'
<1>1. CASE AdvanceClock
  <2>1. wall' \in Nat
    BY <1>1 DEF AdvanceClock, TypeOK, ChainTypeOK, DaemonTypeOK
  <2>2. blockTime' \in [Roles -> Nat]
    BY <1>1, <2>1 DEF AdvanceClock
  <2> QED BY <1>1, <2>1, <2>2 DEF AdvanceClock, TypeOK, ChainTypeOK, DaemonTypeOK, daemonVars
<1>2. ASSUME NEW c \in Roles, AdvanceBlock(c)
      PROVE  TypeOK'
  BY <1>2 DEF AdvanceBlock, TypeOK, ChainTypeOK, DaemonTypeOK, daemonVars
<1>3. ASSUME NEW c \in Roles, NEW call \in Calls, Mine(call, c)
      PROVE  TypeOK'
  <2>1. Effect(call) \in States
    BY DEF Effect, Calls, States
  <2> QED BY <1>3, <2>1 DEF Mine, TypeOK, ChainTypeOK, DaemonTypeOK, daemonVars
<1> QED BY <1>1, <1>2, <1>3 DEF ChainNext

LEMMA WorkType ==
  ASSUME TypeOK, NEW r \in Roles, Work(r)
  PROVE  TypeOK'
<1>1. CASE HandleRequest(r)
  <2>1. queued[r] - 1 \in Nat
    BY <1>1 DEF HandleRequest, TypeOK, DaemonTypeOK
  <2> QED
    BY <1>1, <2>1 DEF HandleRequest, FirstCall, TypeOK, ChainTypeOK, DaemonTypeOK, chainVars, Places, Calls
<1>2. CASE DropRequest(r)
  <2>1. queued[r] - 1 \in Nat
    BY <1>2 DEF DropRequest, TypeOK, DaemonTypeOK
  <2> QED
    BY <1>2, <2>1 DEF DropRequest, TypeOK, ChainTypeOK, DaemonTypeOK, chainVars
<1>3. CASE HandleTick(r)
  <2>1. FirstCall(r) \in Places
    BY DEF FirstCall, Places, Calls
  <2> QED
    BY <1>3, <2>1, GotoType DEF HandleTick, TypeOK, ChainTypeOK, DaemonTypeOK, chainVars
<1>4. CASE Audit(r)
  <2>1. \/ \E place \in Places : Goto(r, place)
        \/ \E status \in Statuses, remove \in BOOLEAN : Finish(r, status, remove)
    BY <1>4 DEF Audit, AuditAnswer, Places, Calls, Statuses
  <2> QED
    BY <1>4, <2>1, GotoType, FinishType DEF Audit, AuditAnswer, TypeOK, ChainTypeOK, DaemonTypeOK, chainVars
<1>5. CASE AuditSecret(r)
  <2>1. \/ \E place \in Places : Goto(r, place)
        \/ \E status \in Statuses, remove \in BOOLEAN : Finish(r, status, remove)
    BY <1>5 DEF AuditSecret, Places, Calls, Statuses
  <2> QED
    BY <1>5, <2>1, GotoType, FinishType DEF AuditSecret, TypeOK, ChainTypeOK, DaemonTypeOK, chainVars
<1>6. ASSUME NEW call \in Calls, Send(r, call)
      PROVE  TypeOK'
  <2>1. Target(r, call) \in Roles /\ WaitOf(call) \in Places
    BY DEF Target, Peer, Roles, WaitOf, Calls, Places, Waits
  <2>2. pool' \in SUBSET Txs
    BY <1>6, <2>1 DEF Send, SendAnswer, Publish, Txs, TypeOK, ChainTypeOK, DaemonTypeOK
  <2>3. Goto(r, WaitOf(call)) \/ Succeed(r, call) \/ Fail(r, call)
    BY <1>6 DEF Send, SendAnswer
  <2> QED
    BY <1>6, <2>1, <2>2, <2>3, GotoType, SucceedType, FailType
    DEF Send, SendAnswer, TypeOK, ChainTypeOK, DaemonTypeOK
<1>7. ASSUME NEW call \in Calls, Await(r, call)
      PROVE  TypeOK'
  BY <1>7, SucceedType, FailType DEF Await, TypeOK, ChainTypeOK, DaemonTypeOK, chainVars
<1> QED BY <1>1, <1>2, <1>3, <1>4, <1>5, <1>6, <1>7 DEF Work

LEMMA NextType ==
  ASSUME TypeOK, [Next]_vars
  PROVE  TypeOK'
<1>1. CASE ChainNext /\ UNCHANGED daemonVars
  BY <1>1, ChainType
<1>2. ASSUME NEW r \in Roles, PostSwap(r)
      PROVE  TypeOK'
  BY <1>2 DEF PostSwap, TypeOK, ChainTypeOK, DaemonTypeOK, chainVars, Statuses
<1>3. ASSUME NEW r \in Roles, Bootload(r)
      PROVE  TypeOK'
  BY <1>3 DEF Bootload, TypeOK, ChainTypeOK, DaemonTypeOK, chainVars
<1>4. ASSUME NEW r \in Roles, Crash(r)
      PROVE  TypeOK'
  BY <1>4 DEF Crash, TypeOK, ChainTypeOK, DaemonTypeOK, chainVars, Places
<1>5. ASSUME NEW r \in Roles, Work(r)
      PROVE  TypeOK'
  BY <1>5, WorkType
<1>6. ASSUME NEW r \in Roles, DeleteSwap(r)
      PROVE  TypeOK'
  BY <1>6 DEF DeleteSwap, TypeOK, ChainTypeOK, DaemonTypeOK, chainVars
<1>7. CASE UNCHANGED vars
  BY <1>7 DEF vars, daemonVars, chainVars, TypeOK, ChainTypeOK, DaemonTypeOK
<1> QED BY <1>1, <1>2, <1>3, <1>4, <1>5, <1>6, <1>7 DEF Next

LEMMA InitType == Init => TypeOK
BY DEF Init, ChainInit, TypeOK, ChainTypeOK, DaemonTypeOK, Places, Statuses, States, Txs

(* Every variable of the two daemons and of the chains keeps its type.     *)
THEOREM TypeCorrect == Spec => []TypeOK
BY InitType, NextType, PTL DEF Spec

-----------------------------------------------------------------------------
(* The inductive invariant                                                 *)

(* The chains: a mined transaction and the passing of time.                *)
LEMMA ChainInv ==
  ASSUME IInv, ChainNext /\ UNCHANGED daemonVars
  PROVE  (PlacesOK /\ FundsSecondInv /\ SecretInv /\ RefundInv)'
<1> USE DEF IInv, TypeOK, ChainTypeOK, DaemonTypeOK, daemonVars, Roles
<1>1. CASE AdvanceClock
  BY <1>1 DEF AdvanceClock, PlacesOK, FundsSecondInv, SecretInv, RefundInv, TimeLock
<1>2. ASSUME NEW c \in Roles, AdvanceBlock(c)
      PROVE  (PlacesOK /\ FundsSecondInv /\ SecretInv /\ RefundInv)'
  BY <1>2 DEF AdvanceBlock, PlacesOK, FundsSecondInv, SecretInv, RefundInv, TimeLock
<1>3. ASSUME NEW c \in Roles, NEW call \in Calls, Mine(call, c)
      PROVE  (PlacesOK /\ FundsSecondInv /\ SecretInv /\ RefundInv)'
  <2>1. CASE call = "initiate"
    BY <1>3, <2>1 DEF Mine, Accepts, Initiatable, Effect, PlacesOK, FundsSecondInv,
      SecretInv, RefundInv, TimeLock
  <2>2. CASE call = "redeem"
    BY <1>3, <2>2 DEF Mine, Accepts, Redeemable, Effect, PlacesOK, FundsSecondInv,
      SecretInv, RefundInv, TimeLock
  <2>3. CASE call = "refund"
    BY <1>3, <2>3 DEF Mine, Accepts, Refundable, Effect, PlacesOK, FundsSecondInv,
      SecretInv, RefundInv, TimeLock
  <2> QED BY <2>1, <2>2, <2>3 DEF Calls
<1> QED BY <1>1, <1>2, <1>3 DEF ChainNext

(* A daemon that goes back to "idle" and publishes nothing claims nothing. *)
LEMMA IdleInv ==
  ASSUME IInv, NEW r \in Roles, UNCHANGED chainVars,
         pc' = [pc EXCEPT ![r] = "idle"] \/ pc' = pc
  PROVE  (PlacesOK /\ FundsSecondInv /\ SecretInv /\ RefundInv)'
BY DEF IInv, TypeOK, ChainTypeOK, DaemonTypeOK, chainVars, Roles,
  PlacesOK, FundsSecondInv, SecretInv, RefundInv, TimeLock

(* A place in handleSwap is reached with the knowledge that belongs to it. *)
LEMMA GotoInv ==
  ASSUME IInv, NEW r \in Roles, UNCHANGED chainVars, NEW place \in Places, Goto(r, place),
         r = "initiator" => place # "auditSecret",
         r = "responder" /\ place \notin {"idle", "audit"} => htlc["initiator"] # "none",
         r = "responder" /\ place \in {"redeem", "redeem_wait"} => htlc["responder"] = "redeemed",
         place \in {"refund", "refund_wait"} => wall > TimeLock
  PROVE  (PlacesOK /\ FundsSecondInv /\ SecretInv /\ RefundInv)'
BY DEF IInv, TypeOK, ChainTypeOK, DaemonTypeOK, chainVars, Roles, Goto,
  PlacesOK, FundsSecondInv, SecretInv, RefundInv, TimeLock

LEMMA AuditsInv ==
  ASSUME IInv, NEW r \in Roles, Audit(r) \/ AuditSecret(r)
  PROVE  (PlacesOK /\ FundsSecondInv /\ SecretInv /\ RefundInv)'
<1>1. UNCHANGED chainVars
  BY DEF Audit, AuditAnswer, AuditSecret
<1>2. ASSUME NEW status, NEW remove, Finish(r, status, remove)
      PROVE  (PlacesOK /\ FundsSecondInv /\ SecretInv /\ RefundInv)'
  BY <1>1, <1>2, IdleInv DEF Finish
<1>3. CASE Audit(r) /\ \E place \in Places : Goto(r, place)
  <2>1. PICK reply \in AuditReplies(Peer(r)) :
          \/ reply = "ok" /\ Goto(r, IF r = "initiator" THEN "redeem" ELSE "initiate")
          \/ reply \in {"pending", "error"} /\ Finish(r, "AuditPending", FALSE)
          \/ reply = "expired" /\ r = "initiator" /\ Goto(r, "refund")
          \/ reply = "expired" /\ r = "responder" /\ Finish(r, "Expired", TRUE)
    BY <1>3 DEF Audit, AuditAnswer
  <2>2. reply = "ok" => htlc[Peer(r)] # "none"
    BY <2>1 DEF AuditReplies, ByKind, EthAudit, Erc20Audit, BtcAudit,
      Initiatable, OnRpcFault, StillWaiting
  <2>3. reply = "expired" => wall > TimeLock
    BY <2>1 DEF AuditReplies, ByKind, EthAudit, Erc20Audit, BtcAudit,
      Initiatable, OnRpcFault, StillWaiting
  <2>4. CASE reply = "ok" /\ Goto(r, IF r = "initiator" THEN "redeem" ELSE "initiate")
    BY <1>1, <2>2, <2>4, GotoInv DEF Roles, Peer, Places, Calls
  <2>5. CASE reply = "expired" /\ r = "initiator" /\ Goto(r, "refund")
    BY <1>1, <2>3, <2>5, GotoInv DEF Places, Calls
  <2> QED BY <1>2, <2>1, <2>4, <2>5
<1>4. CASE AuditSecret(r) /\ \E place \in Places : Goto(r, place)
  <2>1. PICK reply \in AuditSecretReplies(r) :
          \/ reply = "ok" /\ Goto(r, "redeem")
          \/ reply = "pending" /\ Finish(r, "AuditPending", FALSE)
          \/ reply = "error" /\ Finish(r, "Initiated", FALSE)
          \/ reply = "expired" /\ Goto(r, "refund")
    BY <1>4 DEF AuditSecret
  <2>2. r = "responder" /\ htlc["initiator"] # "none"
    BY <1>4 DEF AuditSecret, IInv, PlacesOK, FundsSecondInv, Roles, Places
  <2>3. reply = "ok" => htlc[r] = "redeemed"
    BY <2>1 DEF AuditSecretReplies, ByKind, EthAuditSecret, Erc20AuditSecret,
      BtcAuditSecret, Redeemable, Spent, SendFails, OnRpcFault, StillWaiting
  <2>4. reply = "expired" => wall > TimeLock
    BY <2>1 DEF AuditSecretReplies, ByKind, EthAuditSecret, Erc20AuditSecret,
      BtcAuditSecret, Redeemable, Spent, SendFails, OnRpcFault, StillWaiting
  <2>5. CASE reply = "ok" /\ Goto(r, "redeem")
    BY <1>1, <2>2, <2>3, <2>5, GotoInv DEF Places, Calls
  <2>6. CASE reply = "expired" /\ Goto(r, "refund")
    BY <1>1, <2>2, <2>4, <2>6, GotoInv DEF Places, Calls
  <2> QED BY <1>2, <2>1, <2>5, <2>6
<1> QED BY <1>2, <1>3, <1>4 DEF Audit, AuditAnswer, AuditSecret, Places, Calls

(* A call that writes, when it returns without leaving a new transaction.  *)
LEMMA ReturnInv ==
  ASSUME IInv, NEW r \in Roles, NEW call \in Calls, UNCHANGED chainVars,
         pc[r] \in {call, WaitOf(call)}, Succeed(r, call) \/ Fail(r, call)
  PROVE  (PlacesOK /\ FundsSecondInv /\ SecretInv /\ RefundInv)'
<1>1. CASE \E status, remove : Finish(r, status, remove)
  BY <1>1, IdleInv DEF Finish
<1>2. CASE call = "initiate" /\ Goto(r, IF r = "initiator" THEN "audit" ELSE "auditSecret")
  <2>1. r = "responder" => htlc["initiator"] # "none"
    BY <1>2 DEF IInv, FundsSecondInv, WaitOf, Places, Calls, Waits
  <2> QED BY <1>2, <2>1, GotoInv DEF Roles, Places
<1> QED BY <1>1, <1>2 DEF Succeed, Fail

LEMMA SendInv ==
  ASSUME IInv, NEW r \in Roles, NEW call \in Calls, Send(r, call)
  PROVE  (PlacesOK /\ FundsSecondInv /\ SecretInv /\ RefundInv)'
<1>1. CASE UNCHANGED pool /\ (Succeed(r, call) \/ Fail(r, call))
  BY <1>1, ReturnInv DEF Send, SendAnswer, chainVars
<1>2. CASE Publish(call, Target(r, call)) /\ Goto(r, WaitOf(call))
  <2> USE <1>2 DEF Send, SendAnswer, Publish, Goto, Target, WaitOf, Peer, Roles, Places, Calls, Waits,
        IInv, TypeOK, ChainTypeOK, DaemonTypeOK, TimeLock
  <2>1. PlacesOK'
    BY DEF PlacesOK
  <2>2. FundsSecondInv'
    BY DEF FundsSecondInv
  <2>3. SecretInv'
    BY DEF SecretInv
  <2>4. RefundInv'
    BY DEF RefundInv
  <2> QED BY <2>1, <2>2, <2>3, <2>4
<1> QED BY <1>1, <1>2 DEF Send, SendAnswer

LEMMA NextInv ==
  ASSUME IInv, [Next]_vars
  PROVE  IInv'
<1>1. TypeOK'
  BY NextType DEF IInv
<1> SUFFICES (PlacesOK /\ FundsSecondInv /\ SecretInv /\ RefundInv)'
  BY <1>1 DEF IInv
<1>2. CASE ChainNext /\ UNCHANGED daemonVars
  BY <1>2, ChainInv
<1>3. ASSUME NEW r \in Roles, PostSwap(r) \/ Bootload(r) \/ Crash(r) \/ DeleteSwap(r)
      PROVE  (PlacesOK /\ FundsSecondInv /\ SecretInv /\ RefundInv)'
  BY <1>3, IdleInv DEF PostSwap, Bootload, Crash, DeleteSwap
<1>4. ASSUME NEW r \in Roles, Work(r)
      PROVE  (PlacesOK /\ FundsSecondInv /\ SecretInv /\ RefundInv)'
  <2>1. CASE HandleRequest(r) \/ HandleTick(r)
    <3>1. UNCHANGED chainVars /\ pc' = [pc EXCEPT ![r] = FirstCall(r)]
      BY <2>1 DEF HandleRequest, HandleTick, Goto
    <3> QED
      BY <3>1 DEF FirstCall, IInv, TypeOK, ChainTypeOK, DaemonTypeOK, chainVars, Roles,
        PlacesOK, FundsSecondInv, SecretInv, RefundInv, TimeLock
  <2>2. CASE DropRequest(r)
    BY <2>2, IdleInv DEF DropRequest
  <2>3. CASE Audit(r) \/ AuditSecret(r)
    BY <2>3, AuditsInv
  <2>4. ASSUME NEW call \in Calls, Send(r, call)
        PROVE  (PlacesOK /\ FundsSecondInv /\ SecretInv /\ RefundInv)'
    BY <2>4, SendInv
  <2>5. ASSUME NEW call \in Calls, Await(r, call)
        PROVE  (PlacesOK /\ FundsSecondInv /\ SecretInv /\ RefundInv)'
    BY <2>5, ReturnInv DEF Await
  <2> QED BY <1>4, <2>1, <2>2, <2>3, <2>4, <2>5 DEF Work
<1>5. CASE UNCHANGED vars
  BY <1>5, IdleInv DEF vars, daemonVars, chainVars, Roles
<1> QED BY <1>2, <1>3, <1>4, <1>5 DEF Next

LEMMA InitInv == Init => IInv
BY InitType DEF Init, ChainInit, IInv, PlacesOK, FundsSecondInv, SecretInv, RefundInv,
  Roles, Places, Calls, Waits

(* What a daemon's place in handleSwap and the transactions in flight say  *)
(* about the contracts, in every reachable state.                          *)
THEOREM Inductive == Spec => []IInv
BY InitInv, NextInv, PTL DEF Spec

(* respond() never funds its contract before the initiator's is on chain.  *)
THEOREM FundsSecond == Spec => []ResponderFundsSecond
<1>1. IInv => ResponderFundsSecond
  BY DEF IInv, FundsSecondInv, ResponderFundsSecond
<1> QED BY <1>1, Inductive, PTL

(* Under crashes, failing nodes, failing builds, late transactions, lagging *)
(* blocks and repeated execution, the initiator never pays without being    *)
(* paid.                                                                    *)
THEOREM InitiatorSafe == Spec => []InitiatorNeverLoses
<1>1. IInv => InitiatorNeverLoses
  BY DEF IInv, SecretInv, InitiatorNeverLoses
<1> QED BY <1>1, Inductive, PTL

(* No contract is refunded before the time lock has passed.                *)
THEOREM NoEarlyRefund == Spec => []RefundAfterLock
<1>1. IInv => RefundAfterLock
  BY DEF IInv, RefundInv, RefundAfterLock
<1> QED BY <1>1, Inductive, PTL

-----------------------------------------------------------------------------
(* The swap implements the exchange                                        *)

LEMMA StepRefines ==
  ASSUME IInv, [Next]_vars
  PROVE  [Abstract!Next]_<<htlc, wall > TimeLock>>
<1> USE DEF IInv, TypeOK, ChainTypeOK, Roles, Abstract!Parties
<1>1. ASSUME UNCHANGED <<htlc, wall>>
      PROVE  UNCHANGED <<htlc, wall > TimeLock>>
  BY <1>1
<1>2. CASE AdvanceClock
  <2>1. UNCHANGED htlc /\ (wall > TimeLock => wall' > TimeLock)
    BY <1>2 DEF AdvanceClock, TimeLock
  <2>2. CASE wall > TimeLock \/ ~(wall' > TimeLock)
    BY <2>1, <2>2 DEF TimeLock
  <2>3. CASE ~(wall > TimeLock) /\ wall' > TimeLock
    <3>1. Abstract!Lapse
      BY <2>1, <2>3 DEF Abstract!Lapse, TimeLock
    <3> QED BY <3>1 DEF Abstract!Next
  <2> QED BY <2>2, <2>3
<1>3. ASSUME NEW c \in Roles, NEW call \in Calls, Mine(call, c)
      PROVE  [Abstract!Next]_<<htlc, wall > TimeLock>>
  <2>1. CASE ~Accepts(call, c)
    BY <1>3, <1>1, <2>1 DEF Mine
  <2>2. CASE call = "initiate" /\ Initiatable(c)
    <3>1. Abstract!Fund(c)
      BY <1>3, <2>2 DEF Mine, Accepts, Initiatable, Effect, FundsSecondInv,
        Abstract!Fund, Abstract!Move, TimeLock
    <3> QED BY <3>1 DEF Abstract!Next
  <2>3. CASE call = "redeem" /\ Redeemable(c)
    <3>1. Abstract!Claim(c)
      BY <1>3, <2>3 DEF Mine, Accepts, Redeemable, Effect, SecretInv,
        Abstract!Claim, Abstract!Move, TimeLock
    <3> QED BY <3>1 DEF Abstract!Next
  <2>4. CASE call = "refund" /\ Refundable(c)
    <3>1. Abstract!Reclaim(c)
      BY <1>3, <2>4 DEF Mine, Accepts, Refundable, Effect, RefundInv,
        Abstract!Reclaim, Abstract!Move, TimeLock
    <3> QED BY <3>1 DEF Abstract!Next
  <2> QED BY <2>1, <2>2, <2>3, <2>4 DEF Accepts
<1>4. ASSUME NEW c \in Roles, AdvanceBlock(c)
      PROVE  UNCHANGED <<htlc, wall>>
  BY <1>4 DEF AdvanceBlock
<1>5. ASSUME NEW r \in Roles,
             PostSwap(r) \/ Bootload(r) \/ Crash(r) \/ Work(r) \/ DeleteSwap(r)
      PROVE  UNCHANGED <<htlc, wall>>
  BY <1>5 DEF PostSwap, Bootload, Crash, DeleteSwap, Work, HandleRequest, DropRequest,
    HandleTick, Audit, AuditAnswer, AuditSecret, Send, SendAnswer, Await, chainVars
<1>6. CASE UNCHANGED vars
  BY <1>1, <1>6 DEF vars, chainVars
<1> QED BY <1>1, <1>2, <1>3, <1>4, <1>5, <1>6 DEF Next, ChainNext

(* Two daemons on two chains implement the abstract exchange: no crash,    *)
(* fault or interleaving makes a contract move that the exchange does not  *)
(* allow.                                                                  *)
THEOREM Refinement == Spec => ImplementsExchange
<1>1. Init => Abstract!Init
  BY DEF Init, ChainInit, Abstract!Init, Abstract!Parties, Roles, TimeLock
<1> QED BY <1>1, StepRefines, Inductive, PTL DEF Spec, ImplementsExchange, Abstract!Spec

-----------------------------------------------------------------------------
(* A swap is not forgotten before it is paid                               *)

ReliableNodes == "rpc" \notin Faults

(* The chains: what is paid stays paid, and time only moves forward.       *)
LEMMA ChainPaid ==
  ASSUME IInv, PaidInv, ChainNext /\ UNCHANGED daemonVars
  PROVE  PaidInv'
<1> USE DEF IInv, TypeOK, ChainTypeOK, DaemonTypeOK, daemonVars, Roles, Peer
<1>1. CASE AdvanceClock
  BY <1>1 DEF AdvanceClock, PaidInv, AuditedInv, DropInv, PostedInv, Dropped, TimeLock
<1>2. ASSUME NEW c \in Roles, AdvanceBlock(c)
      PROVE  PaidInv'
  BY <1>2 DEF AdvanceBlock, PaidInv, AuditedInv, DropInv, PostedInv, Dropped, TimeLock
<1>3. ASSUME NEW c \in Roles, NEW call \in Calls, Mine(call, c)
      PROVE  PaidInv'
  <2>1. \/ UNCHANGED htlc
        \/ /\ htlc[c] # "redeemed"
           /\ Effect(call) # "none"
           /\ htlc' = [htlc EXCEPT ![c] = Effect(call)]
    BY <1>3 DEF Mine, Accepts, Initiatable, Redeemable, Refundable, Effect
  <2> QED
    BY <1>3, <2>1 DEF Mine, PaidInv, AuditedInv, DropInv, PostedInv, Dropped, TimeLock
<1> QED BY <1>1, <1>2, <1>3 DEF ChainNext

(* handleResult may remove a swap that is paid, or whose time is over.     *)
LEMMA FinishPaid ==
  ASSUME IInv, PaidInv, NEW r \in Roles, NEW status, NEW remove \in BOOLEAN,
         UNCHANGED <<wall, htlc>>, Finish(r, status, remove), status # "none",
         pc[r] # "idle",
         remove /\ wall <= TimeLock => htlc[Peer(r)] = "redeemed"
  PROVE  PaidInv'
BY DEF IInv, TypeOK, ChainTypeOK, DaemonTypeOK, Roles, Peer, Finish,
  PaidInv, AuditedInv, DropInv, PostedInv, Dropped, TimeLock

LEMMA GotoPaid ==
  ASSUME IInv, PaidInv, NEW r \in Roles, NEW place \in Places,
         UNCHANGED <<wall, htlc>>, Goto(r, place), pc[r] # "idle" \/ swapMap[r],
         r = "initiator" /\ place \in {"redeem", "redeem_wait"} => htlc["responder"] # "none"
  PROVE  PaidInv'
BY DEF IInv, TypeOK, ChainTypeOK, DaemonTypeOK, Roles, Peer, Goto,
  PaidInv, AuditedInv, DropInv, PostedInv, Dropped, TimeLock

(* A redeem that ends well, before the time lock, has redeemed.            *)
LEMMA RedeemDone ==
  ASSUME ReliableNodes, IInv, PaidInv, NEW r \in Roles, pc[r] \in {"redeem", "redeem_wait"},
         \/ "skip" \in Replies("redeem", Target(r, "redeem"))
         \/ Confirmed("redeem", Target(r, "redeem"))
  PROVE  wall <= TimeLock => htlc[Peer(r)] = "redeemed"
<1>1. Peer(r) \in Roles /\ htlc[Peer(r)] \in States
  BY DEF Peer, Roles, IInv, TypeOK, ChainTypeOK
<1>2. htlc[Peer(r)] # "none"
  BY DEF IInv, FundsSecondInv, PaidInv, AuditedInv, Peer, Roles, Places, Calls, Waits
<1>3. htlc[Peer(r)] # "open"
  BY DEF Replies, RedeemReplies, ByKind, EthRedeem, Erc20Redeem, BtcRedeem, SendFails,
    Redeemable, OnRpcFault, ReliableNodes, Target, Confirmed, Spent, Effect
<1> QED
  BY <1>1, <1>2, <1>3 DEF IInv, RefundInv, TypeOK, ChainTypeOK, TimeLock, States, Peer, Roles

(* A call that writes, when it returns.                                    *)
LEMMA ReturnPaid ==
  ASSUME ReliableNodes, IInv, PaidInv, NEW r \in Roles, NEW call \in Calls,
         UNCHANGED <<wall, htlc>>, pc[r] \in {call, WaitOf(call)},
         \/ Fail(r, call)
         \/ Succeed(r, call) /\ (\/ "skip" \in Replies(call, Target(r, call))
                                 \/ Confirmed(call, Target(r, call)))
  PROVE  PaidInv'
<1>1. pc[r] # "idle"
  BY DEF Calls, WaitOf
<1>2. ASSUME NEW status, status # "none", Finish(r, status, FALSE)
      PROVE  PaidInv'
  BY <1>1, <1>2, FinishPaid
<1>3. CASE Fail(r, call)
  BY <1>2, <1>3 DEF Fail
<1>4. CASE call = "initiate" /\ Succeed(r, call)
  BY <1>1, <1>4, GotoPaid DEF Succeed, Places
<1>5. CASE /\ call = "redeem" /\ Finish(r, "Redeemed", TRUE)
           /\ \/ "skip" \in Replies(call, Target(r, call))
              \/ Confirmed(call, Target(r, call))
  <2>1. wall <= TimeLock => htlc[Peer(r)] = "redeemed"
    BY <1>5, RedeemDone DEF WaitOf
  <2> QED BY <1>1, <1>5, <2>1, FinishPaid
<1>6. CASE call = "refund" /\ Finish(r, "Refunded", TRUE)
  <2>1. wall > TimeLock
    BY <1>6 DEF IInv, RefundInv, WaitOf
  <2>2. ~(wall <= TimeLock)
    BY <2>1 DEF IInv, TypeOK, ChainTypeOK, TimeLock
  <2> QED BY <1>1, <1>6, <2>2, FinishPaid
<1> QED BY <1>3, <1>4, <1>5, <1>6 DEF Succeed

LEMMA AuditPaid ==
  ASSUME ReliableNodes, IInv, PaidInv, NEW r \in Roles, Audit(r) \/ AuditSecret(r)
  PROVE  PaidInv'
<1>1. UNCHANGED <<wall, htlc>> /\ pc[r] # "idle"
  BY DEF Audit, AuditAnswer, AuditSecret, chainVars
<1>2. ASSUME NEW status, status # "none", Finish(r, status, FALSE)
      PROVE  PaidInv'
  BY <1>1, <1>2, FinishPaid
<1>3. CASE Audit(r)
  <2>1. PICK reply \in AuditReplies(Peer(r)) :
          \/ reply = "ok" /\ Goto(r, IF r = "initiator" THEN "redeem" ELSE "initiate")
          \/ reply \in {"pending", "error"} /\ Finish(r, "AuditPending", FALSE)
          \/ reply = "expired" /\ r = "initiator" /\ Goto(r, "refund")
          \/ reply = "expired" /\ r = "responder" /\ Finish(r, "Expired", TRUE)
    BY <1>3 DEF Audit, AuditAnswer
  <2>2. CASE reply = "ok" /\ Goto(r, IF r = "initiator" THEN "redeem" ELSE "initiate")
    <3>1. htlc[Peer(r)] # "none"
      BY <2>2 DEF AuditReplies, ByKind, EthAudit, Erc20Audit, BtcAudit,
      Initiatable, OnRpcFault, StillWaiting, ReliableNodes
    <3> QED BY <1>1, <2>2, <3>1, GotoPaid DEF Places, Calls, Peer, Roles
  <2>3. CASE reply = "expired" /\ r = "initiator" /\ Goto(r, "refund")
    BY <1>1, <2>3, GotoPaid DEF Places, Calls
  <2>4. CASE reply = "expired" /\ r = "responder" /\ Finish(r, "Expired", TRUE)
    <3>1. ~(wall <= TimeLock)
      BY <2>1, <2>4 DEF AuditReplies, ByKind, EthAudit, Erc20Audit, BtcAudit,
      Initiatable, OnRpcFault, StillWaiting, IInv, TypeOK, ChainTypeOK,
        TimeLock
    <3> QED BY <1>1, <2>4, <3>1, FinishPaid
  <2> QED BY <1>2, <2>1, <2>2, <2>3, <2>4
<1>4. CASE AuditSecret(r)
  <2>1. r = "responder"
    BY <1>4 DEF AuditSecret, IInv, PlacesOK, Roles
  <2>2. CASE \E place \in {"redeem", "refund"} : Goto(r, place)
    BY <1>1, <2>1, <2>2, GotoPaid DEF Places, Calls
  <2> QED BY <1>2, <1>4, <2>2 DEF AuditSecret
<1> QED BY <1>3, <1>4

LEMMA NextPaid ==
  ASSUME ReliableNodes, IInv, PaidInv, [Next]_vars
  PROVE  PaidInv'
<1> USE DEF IInv, TypeOK, ChainTypeOK, DaemonTypeOK, Roles, Peer
<1>1. CASE ChainNext /\ UNCHANGED daemonVars
  BY <1>1, ChainPaid
<1>2. ASSUME NEW r \in Roles, PostSwap(r) \/ Bootload(r) \/ Crash(r) \/ DeleteSwap(r)
      PROVE  PaidInv'
  BY <1>2 DEF PostSwap, Bootload, Crash, DeleteSwap, chainVars,
    PaidInv, AuditedInv, DropInv, PostedInv, Dropped, TimeLock
<1>3. ASSUME NEW r \in Roles, Work(r)
      PROVE  PaidInv'
  <2>1. CASE HandleRequest(r) \/ DropRequest(r)
    BY <2>1 DEF HandleRequest, DropRequest, FirstCall, chainVars,
      PaidInv, AuditedInv, DropInv, PostedInv, Dropped, TimeLock
  <2>2. CASE HandleTick(r)
    BY <2>2, GotoPaid DEF HandleTick, FirstCall, chainVars, Places, Calls
  <2>3. CASE Audit(r) \/ AuditSecret(r)
    BY <2>3, AuditPaid
  <2>4. ASSUME NEW call \in Calls, Send(r, call)
        PROVE  PaidInv'
    <3>1. UNCHANGED <<wall, htlc>> /\ pc[r] = call /\ call # "idle"
      BY <2>4 DEF Send, SendAnswer, Calls
    <3>2. CASE Goto(r, WaitOf(call))
      <4>1. r = "initiator" /\ WaitOf(call) \in {"redeem", "redeem_wait"} => call = "redeem"
        BY DEF WaitOf
      <4> QED
        BY <3>1, <3>2, <4>1, GotoPaid DEF PaidInv, AuditedInv, WaitOf, Places, Waits
    <3>3. CASE "skip" \in Replies(call, Target(r, call)) /\ Succeed(r, call)
      BY <3>1, <3>3, ReturnPaid
    <3>4. CASE Fail(r, call)
      BY <3>1, <3>4, ReturnPaid
    <3> QED BY <2>4, <3>2, <3>3, <3>4 DEF Send, SendAnswer
  <2>5. ASSUME NEW call \in Calls, Await(r, call)
        PROVE  PaidInv'
    BY <2>5, ReturnPaid DEF Await, chainVars
  <2> QED BY <1>3, <2>1, <2>2, <2>3, <2>4, <2>5 DEF Work
<1>4. CASE UNCHANGED vars
  BY <1>4 DEF vars, daemonVars, chainVars, PaidInv, AuditedInv, DropInv, PostedInv,
    Dropped, TimeLock
<1> QED BY <1>1, <1>2, <1>3, <1>4 DEF Next

(* With nodes that answer, a daemon removes a swap before the time lock    *)
(* has passed only when the other party's contract has been redeemed: not  *)
(* a crash, a late transaction, a failed build or a second execution makes *)
(* it forget one earlier.                                                  *)
THEOREM NotForgotten ==
  ASSUME ReliableNodes
  PROVE  Spec => []DroppedOnlyWhenPaid
<1>1. Init => PaidInv
  BY DEF Init, ChainInit, PaidInv, AuditedInv, DropInv, PostedInv, Dropped, Roles
<1>2. IInv /\ PaidInv /\ [Next]_vars => PaidInv'
  BY NextPaid
<1>3. PaidInv => DroppedOnlyWhenPaid
  BY DEF PaidInv, DropInv, DroppedOnlyWhenPaid
<1> QED BY <1>1, <1>2, <1>3, Inductive, PTL DEF Spec

(* A daemon does not touch the contracts or the clocks, and reports        *)
(* Redeemed or Refunded only when that call has ended well.                *)
LEMMA OnlyChainsMove ==
  ASSUME [Next]_vars
  PROVE  \/ AdvanceClock
         \/ \E c \in Roles, call \in Calls : Mine(call, c)
         \/ UNCHANGED <<htlc, wall>>
BY DEF Next, ChainNext, AdvanceBlock, PostSwap, Bootload, Crash, DeleteSwap, Work,
  HandleRequest, DropRequest, HandleTick, Audit, AuditAnswer, AuditSecret, Send, SendAnswer,
  Await, vars, chainVars

LEMMA NewReport ==
  ASSUME TypeOK, [Next]_vars, NEW r \in Roles,
         reported'[r] # reported[r], reported'[r] \in {"Redeemed", "Refunded"}
  PROVE  \E call \in Calls :
           /\ call = IF reported'[r] = "Redeemed" THEN "redeem" ELSE "refund"
           /\ pc[r] \in {call, WaitOf(call)}
           /\ \/ "skip" \in Replies(call, Target(r, call))
              \/ Confirmed(call, Target(r, call))
<1> USE DEF TypeOK, DaemonTypeOK
<1>1. PICK s \in Roles : Work(s)
  BY DEF Next, daemonVars, vars, PostSwap, Bootload, Crash, DeleteSwap
<1>2. PICK status \in Statuses, remove \in BOOLEAN : Finish(s, status, remove)
  BY <1>1 DEF Work, HandleRequest, DropRequest, HandleTick, Goto, Audit, AuditAnswer,
    AuditSecret, Send, SendAnswer, Await, Succeed, Fail, Statuses
<1>3. s = r /\ status = reported'[r]
  BY <1>2 DEF Finish
<1>4. ~HandleRequest(s) /\ ~DropRequest(s) /\ ~HandleTick(s)
  BY <1>2, <1>3 DEF HandleRequest, DropRequest, HandleTick, Goto
<1>5. ~Audit(s) /\ ~AuditSecret(s)
  BY <1>3 DEF Audit, AuditAnswer, AuditSecret, Goto, Finish
<1>6. PICK call \in Calls : Send(s, call) \/ Await(s, call)
  BY <1>1, <1>4, <1>5 DEF Work
<1>7. ~Goto(s, WaitOf(call)) /\ ~Fail(s, call)
  BY <1>3 DEF Goto, Fail, Finish
<1>8. Succeed(s, call)
  BY <1>6, <1>7 DEF Send, SendAnswer, Await
<1>9. call = IF reported'[r] = "Redeemed" THEN "redeem" ELSE "refund"
  BY <1>3, <1>8 DEF Succeed, Goto, Finish
<1> QED BY <1>3, <1>6, <1>7, <1>9 DEF Send, SendAnswer, Await

(* What is redeemed or refunded stays so, and time moves forward.          *)
LEMMA Final ==
  ASSUME TypeOK, [Next]_vars
  PROVE  /\ \A c \in Roles : htlc[c] \in {"redeemed", "refunded"} => htlc'[c] = htlc[c]
         /\ wall' <= TimeLock => wall <= TimeLock
<1> USE DEF TypeOK, ChainTypeOK
<1>1. CASE UNCHANGED <<htlc, wall>>
  BY <1>1
<1>2. CASE AdvanceClock
  BY <1>2 DEF AdvanceClock, TimeLock
<1>3. ASSUME NEW c \in Roles, NEW call \in Calls, Mine(call, c)
      PROVE  /\ \A d \in Roles : htlc[d] \in {"redeemed", "refunded"} => htlc'[d] = htlc[d]
             /\ wall' = wall
  <2>1. Accepts(call, c) => htlc[c] \notin {"redeemed", "refunded"}
    BY DEF Accepts, Initiatable, Redeemable, Refundable
  <2> QED BY <1>3, <2>1 DEF Mine
<1> QED BY <1>1, <1>2, <1>3, OnlyChainsMove

(* With nodes that answer, a redeem that did not happen is tried again and *)
(* not reported as done, whatever times out, crashes or is built in vain:  *)
(* what the documentation says of retries holds but for failed requests.   *)
THEOREM ReportsTrulyRedeemed ==
  ASSUME ReliableNodes
  PROVE  Spec => []RedeemRetried
<1> USE DEF IInv, TypeOK, ChainTypeOK, DaemonTypeOK, Roles, Peer
<1>1. Init => PaidInv /\ RedeemRetried
  BY DEF Init, ChainInit, PaidInv, AuditedInv, DropInv, PostedInv, Dropped, RedeemRetried
<1>2. ASSUME IInv, PaidInv, RedeemRetried, [Next]_vars
      PROVE  RedeemRetried'
  <2>2. ASSUME NEW r \in Roles, reported'[r] = "Redeemed", wall' <= TimeLock
        PROVE  htlc'[Peer(r)] = "redeemed"
    <3>1. CASE reported'[r] = reported[r]
      BY <1>2, <2>2, <3>1, Final DEF RedeemRetried
    <3>2. CASE reported'[r] # reported[r]
      <4>1. PICK call \in Calls :
              /\ call = "redeem" /\ pc[r] \in {call, WaitOf(call)}
              /\ \/ "skip" \in Replies(call, Target(r, call))
                 \/ Confirmed(call, Target(r, call))
        BY <1>2, <2>2, <3>2, NewReport
      <4> QED BY <1>2, <2>2, <4>1, Final, RedeemDone DEF WaitOf
    <3> QED BY <3>1, <3>2
  <2> QED BY <2>2 DEF RedeemRetried
<1> QED BY <1>1, <1>2, NextPaid, Inductive, PTL DEF Spec

-----------------------------------------------------------------------------
(* A responder that reports Expired has lost nothing                       *)

SingleBootload == MaxBoots = 1

(* Leaving a call, a daemon remains in its one execution or has ended it.  *)
LEMMA LeaveOnce ==
  ASSUME TypeOK, PostedInv, OnceInv, NEW r \in Roles, pc[r] # "idle",
         \/ \E place \in Places : Goto(r, place)
         \/ \E status \in Statuses \ {"none"}, remove \in BOOLEAN : Finish(r, status, remove)
  PROVE  PostedInv' /\ OnceInv'
<1> USE DEF TypeOK, DaemonTypeOK, PostedInv, OnceInv, Quiet
<1>1. CASE \E place \in Places : Goto(r, place)
  BY <1>1 DEF Goto
<1>2. CASE \E status \in Statuses \ {"none"}, remove \in BOOLEAN : Finish(r, status, remove)
  BY <1>2 DEF Finish
<1> QED BY <1>1, <1>2

(* What the immediate swapper does in a binding call.                      *)
LEMMA Leaves ==
  ASSUME NEW r \in Roles,
         \/ Audit(r) \/ AuditSecret(r)
         \/ \E call \in Calls : Send(r, call) \/ Await(r, call)
  PROVE  /\ pc[r] # "idle"
         /\ \/ \E place \in Places : Goto(r, place)
            \/ \E status \in Statuses \ {"none"}, remove \in BOOLEAN : Finish(r, status, remove)
<1>1. CASE Audit(r) \/ AuditSecret(r)
  BY <1>1 DEF Audit, AuditAnswer, AuditSecret, Places, Calls, Statuses
<1>2. ASSUME NEW call \in Calls, Send(r, call) \/ Await(r, call)
      PROVE  /\ pc[r] # "idle"
             /\ \/ \E place \in Places : Goto(r, place)
                \/ \E status \in Statuses \ {"none"}, remove \in BOOLEAN : Finish(r, status, remove)
  <2>1. WaitOf(call) \in Places /\ pc[r] # "idle"
    BY <1>2 DEF Send, Await, WaitOf, Places, Waits, Calls
  <2>2. Goto(r, WaitOf(call)) \/ Succeed(r, call) \/ Fail(r, call)
    BY <1>2 DEF Send, SendAnswer, Await
  <2> QED BY <2>1, <2>2 DEF Succeed, Fail, Places, Statuses
<1> QED BY <1>1, <1>2

LEMMA NextOnce ==
  ASSUME SingleBootload, TypeOK, PostedInv, OnceInv, [Next]_vars
  PROVE  PostedInv' /\ OnceInv'
<1> USE DEF TypeOK, DaemonTypeOK, PostedInv, OnceInv, Quiet
<1>1. CASE UNCHANGED daemonVars
  BY <1>1 DEF daemonVars
<1>2. ASSUME NEW r \in Roles, PostSwap(r)
      PROVE  PostedInv' /\ OnceInv'
  BY <1>2 DEF PostSwap
<1>3. ASSUME NEW r \in Roles, Bootload(r)
      PROVE  PostedInv' /\ OnceInv'
  BY <1>3 DEF Bootload, SingleBootload
<1>4. ASSUME NEW r \in Roles, Crash(r) \/ DeleteSwap(r)
      PROVE  PostedInv' /\ OnceInv'
  BY <1>4 DEF Crash, DeleteSwap
<1>5. ASSUME NEW r \in Roles, HandleRequest(r) \/ DropRequest(r) \/ HandleTick(r)
      PROVE  PostedInv' /\ OnceInv'
  BY <1>5 DEF HandleRequest, DropRequest, HandleTick, Goto
<1>6. ASSUME NEW r \in Roles,
             \/ Audit(r) \/ AuditSecret(r)
             \/ \E call \in Calls : Send(r, call) \/ Await(r, call)
      PROVE  PostedInv' /\ OnceInv'
  BY <1>6, Leaves, LeaveOnce
<1> QED BY <1>1, <1>2, <1>3, <1>4, <1>5, <1>6 DEF Next, Work, vars

(* The audit of the initiator's contract does not take a failed request    *)
(* for a contract that is not funded.                                      *)
AuditsReliably == ReliableNodes \/ Kind["initiator"] # "btc"

LEMMA ExpiredIsUnfunded ==
  ASSUME AuditsReliably, IInv, "expired" \in AuditReplies("initiator")
  PROVE  Unfunded("responder")
<1>1. htlc["initiator"] = "none"
  BY DEF AuditReplies, ByKind, EthAudit, Erc20Audit, BtcAudit, Initiatable, OnRpcFault,
    AuditsReliably, ReliableNodes
<1> QED BY <1>1 DEF IInv, FundsSecondInv, Unfunded

(* Expired is final only when the audit of the peer's contract says so.    *)
LEMMA NewExpired ==
  ASSUME TypeOK, OnceInv, [Next]_vars,
         ~((deleting["responder"] \/ Dropped("responder")) /\ reported["responder"] = "Expired"),
         (deleting["responder"] \/ Dropped("responder"))' /\ reported'["responder"] = "Expired"
  PROVE  Audit("responder") /\ "expired" \in AuditReplies("initiator")
<1> DEFINE me == "responder"
<1> USE DEF TypeOK, DaemonTypeOK, Dropped, Roles
<1>1. PICK r \in Roles : Work(r)
  BY DEF Next, daemonVars, vars, PostSwap, Bootload, Crash, DeleteSwap, OnceInv
<1>2. ~HandleRequest(r) /\ ~DropRequest(r) /\ ~HandleTick(r) /\ ~(\E place : Goto(r, place))
  BY DEF HandleRequest, DropRequest, HandleTick, Goto
<1>3. PICK status \in Statuses, remove \in BOOLEAN : Finish(r, status, remove)
  BY <1>1, <1>2, Leaves DEF Work
<1>4. r = me /\ status = "Expired"
  <2>1. CASE r = me
    BY <1>3, <2>1 DEF Finish
  <2>2. CASE r # me
    <3>1. deleting'[me] = deleting[me] /\ reported'[me] = reported[me] /\ pending' = pending
      BY <1>3, <2>2 DEF Finish
    <3> QED BY <3>1
  <2> QED BY <2>1, <2>2
<1>5. ASSUME NEW call \in Calls
      PROVE  ~Send(r, call) /\ ~Await(r, call)
  <2>1. ~Succeed(r, call) /\ ~Fail(r, call)
    BY <1>2, <1>4 DEF Succeed, Fail, Finish
  <2> QED BY <1>2, <2>1 DEF Send, SendAnswer, Await
<1>6. ~AuditSecret(r)
  BY <1>2, <1>4 DEF AuditSecret, Finish
<1>7. Audit(r)
  BY <1>1, <1>2, <1>5, <1>6 DEF Work
<1>8. "expired" \in AuditReplies("initiator")
  BY <1>2, <1>4, <1>7 DEF Audit, AuditAnswer, Finish, Peer
<1> QED BY <1>4, <1>7, <1>8

LEMMA NextExpired ==
  ASSUME AuditsReliably, IInv, OnceInv, ExpiredInv, [Next]_vars
  PROVE  ExpiredInv'
<1> DEFINE me == "responder"
           Over == deleting[me] \/ Dropped(me)
<1> USE DEF IInv, TypeOK, ChainTypeOK, DaemonTypeOK, Roles
<1>1. CASE (Over /\ reported[me] = "Expired") /\ (Over /\ reported[me] = "Expired")'
  <2>1. Unfunded(me) /\ pc[me] = "idle" /\ ~swapMap[me] /\ queued[me] = 0
    BY <1>1 DEF ExpiredInv, OnceInv, Quiet, Dropped
  <2> SUFFICES Unfunded(me)'
    BY DEF ExpiredInv
  <2>2. ASSUME NEW c \in Roles, NEW call \in Calls, Mine(call, c)
        PROVE  Unfunded(me)'
    BY <2>1, <2>2 DEF Mine, Accepts, Initiatable, Redeemable, Refundable, Unfunded
  <2>3. ASSUME NEW r \in Roles, NEW call \in Calls, Send(r, call)
        PROVE  Unfunded(me)'
    <3>1. pc[r] = call /\ call # "idle"
      BY <2>3 DEF Send, Calls
    <3>2. r = "initiator"
      BY <2>1, <3>1
    <3>3. pool' = pool \/ pool' = pool \cup {<<call, Target(r, call)>>}
      BY <2>3 DEF Send, SendAnswer, Publish
    <3>4. htlc' = htlc
      BY <2>3 DEF Send
    <3>5. <<call, Target(r, call)>> # <<"initiate", me>>
      BY <3>2 DEF Target
    <3> QED BY <2>1, <3>3, <3>4, <3>5 DEF Unfunded
  <2>4. CASE UNCHANGED <<htlc, pool>>
    BY <2>1, <2>4 DEF Unfunded
  <2> QED
    BY <2>2, <2>3, <2>4 DEF Next, ChainNext, AdvanceClock, AdvanceBlock, PostSwap, Bootload,
      Crash, DeleteSwap, Work, HandleRequest, DropRequest, HandleTick, Audit, AuditSecret,
      Await, vars, chainVars
<1>2. CASE ~(Over /\ reported[me] = "Expired") /\ (Over /\ reported[me] = "Expired")'
  <2>1. Audit(me) /\ "expired" \in AuditReplies("initiator")
    BY <1>2, NewExpired
  <2>2. UNCHANGED <<htlc, pool>>
    BY <2>1 DEF Audit, chainVars
  <2> QED BY <2>1, <2>2, ExpiredIsUnfunded DEF ExpiredInv, Unfunded
<1> QED BY <1>1, <1>2 DEF ExpiredInv, Dropped

LEMMA InitEnds == Init => PaidInv /\ OnceInv /\ ExpiredInv /\ ClocksAgree /\ RefundingInv
BY DEF Init, ChainInit, PaidInv, AuditedInv, DropInv, PostedInv, Dropped, OnceInv, Quiet,
  ExpiredInv, ClocksAgree, RefundingInv, Roles

(* A responder that is started once between two crashes, and whose audits  *)
(* do not fail unnoticed, has not funded its contract and will not, when   *)
(* it has removed the swap as Expired: late transactions of the initiator, *)
(* crashes before the removal and other faults do not matter.              *)
THEOREM ExpiredIsSafe ==
  ASSUME SingleBootload, AuditsReliably
  PROVE  Spec => []ExpiredLosesNothing
<1>1. PostedInv /\ OnceInv /\ ExpiredInv /\ IInv /\ [Next]_vars
        => PostedInv' /\ OnceInv' /\ ExpiredInv'
  BY NextOnce, NextExpired DEF IInv
<1>2. Init => PostedInv /\ OnceInv /\ ExpiredInv
  BY InitEnds DEF PaidInv
<1>3. ExpiredInv => ExpiredLosesNothing
  BY DEF ExpiredInv, ExpiredLosesNothing
<1> QED BY <1>1, <1>2, <1>3, Inductive, PTL DEF Spec

-----------------------------------------------------------------------------
(* An initiator that reports Refunded has been refunded                    *)

BlocksOnTime == Lag = 0

LEMMA NextClocks ==
  ASSUME BlocksOnTime, TypeOK, ClocksAgree, [Next]_vars
  PROVE  ClocksAgree'
<1> USE DEF TypeOK, ChainTypeOK, ClocksAgree
<1>1. CASE AdvanceClock
  <2>1. wall' \in Nat
    BY <1>1 DEF AdvanceClock
  <2>2. \A t \in 0..wall' : wall' <= t + Lag => t = wall'
    BY <2>1 DEF BlocksOnTime
  <2> QED BY <1>1, <2>2 DEF AdvanceClock
<1>2. ASSUME NEW c \in Roles, AdvanceBlock(c)
      PROVE  ClocksAgree'
  BY <1>2 DEF AdvanceBlock
<1>3. CASE UNCHANGED <<wall, blockTime>>
  BY <1>3
<1> QED
  BY <1>1, <1>2, <1>3 DEF Next, ChainNext, Mine, PostSwap, Bootload, Crash, DeleteSwap, Work,
    HandleRequest, DropRequest, HandleTick, Audit, AuditSecret, Send, Await, vars, chainVars

(* What the calls of the initiator answer when the nodes do.               *)
LEMMA AnswersAreTrue ==
  ASSUME ReliableNodes, NEW c \in Roles
  PROVE  /\ "expired" \in AuditReplies(c) => htlc[c] = "none"
         /\ "skip" \in InitiateReplies(c) => htlc[c] # "none"
         /\ "send" \in RedeemReplies(c) => htlc[c] = "open"
         /\ "skip" \in RefundReplies(c) => ~Refundable(c)
<1> USE DEF ReliableNodes, OnRpcFault, SendFails, ByKind
<1>1. "expired" \in AuditReplies(c) => htlc[c] = "none"
  BY DEF AuditReplies, EthAudit, Erc20Audit, BtcAudit, Initiatable
<1>2. "skip" \in InitiateReplies(c) => htlc[c] # "none"
  BY DEF InitiateReplies, EthInitiate, Erc20Initiate, BtcInitiate, Initiatable
<1>3. "send" \in RedeemReplies(c) => htlc[c] = "open"
  BY DEF RedeemReplies, EthRedeem, Erc20Redeem, BtcRedeem, Redeemable
<1>4. "skip" \in RefundReplies(c) => ~Refundable(c)
  BY DEF RefundReplies, EthRefund, Erc20Refund, BtcRefund
<1> QED BY <1>1, <1>2, <1>3, <1>4

LateCalls == {"audit", "redeem", "redeem_wait", "refund", "refund_wait"}

LEMMA MineRefunding ==
  ASSUME IInv, RefundingInv, NEW c \in Roles, NEW call \in Calls, Mine(call, c),
         UNCHANGED daemonVars
  PROVE  RefundingInv'
<1> USE DEF IInv, TypeOK, ChainTypeOK, DaemonTypeOK, Roles
<1>1. UNCHANGED pc /\ pool' \subseteq pool
  BY DEF Mine, daemonVars
<1>2. \A d \in Roles : htlc[d] # "none" => htlc'[d] # "none"
  <2>1. Effect(call) # "none"
    BY DEF Effect
  <2> QED BY <2>1 DEF Mine
<1>3. ASSUME htlc["responder"] # "redeemed", <<"redeem", "responder">> \notin pool
      PROVE  htlc'["responder"] # "redeemed"
  <2>1. CASE c = "responder" /\ call = "redeem"
    BY <1>3, <2>1 DEF Mine
  <2>2. CASE c = "responder" /\ call # "redeem"
    <3>1. Effect(call) # "redeemed"
      BY <2>2 DEF Effect
    <3> QED BY <1>3, <2>2, <3>1 DEF Mine
  <2>3. CASE c # "responder"
    BY <1>3, <2>3 DEF Mine
  <2> QED BY <2>1, <2>2, <2>3
<1> QED BY <1>1, <1>2, <1>3 DEF RefundingInv

(* A daemon's step moves no other.                                         *)
LEMMA PeerStays ==
  ASSUME TypeOK, NEW r \in Roles, NEW s \in Roles, s # r, Work(r)
  PROVE  pc'[s] = pc[s] /\ reported'[s] = reported[s]
BY DEF TypeOK, DaemonTypeOK, Work, HandleRequest, DropRequest, HandleTick, Audit, AuditAnswer,
  AuditSecret, Send, SendAnswer, Await, Succeed, Fail, Goto, Finish

(* The place of the initiator after a step of its own.                     *)
LEMMA InitiatorGoes ==
  ASSUME ReliableNodes, IInv, RefundingInv, Work("initiator")
  PROVE  /\ pc'["initiator"] \in LateCalls => htlc["initiator"] # "none"
         /\ pc'["initiator"] \in {"refund", "refund_wait"} =>
              htlc["responder"] # "redeemed" /\ <<"redeem", "responder">> \notin pool
<1> DEFINE me == "initiator"
           Moves == /\ pc'[me] \in LateCalls => htlc[me] # "none"
                    /\ pc'[me] \in {"refund", "refund_wait"} =>
                         htlc["responder"] # "redeemed" /\ <<"redeem", "responder">> \notin pool
<1> USE DEF IInv, TypeOK, ChainTypeOK, DaemonTypeOK, Roles, LateCalls
<1>1. ASSUME NEW status, NEW remove, Finish(me, status, remove)
      PROVE  Moves
  BY <1>1 DEF Finish
<1>2. CASE HandleRequest(me) \/ DropRequest(me) \/ HandleTick(me)
  BY <1>2 DEF HandleRequest, DropRequest, HandleTick, FirstCall, Goto
<1>3. ~AuditSecret(me)
  BY DEF AuditSecret, PlacesOK
<1>4. CASE Audit(me)
  <2>1. htlc[me] # "none"
    BY <1>4 DEF Audit, RefundingInv
  <2>2. CASE Goto(me, "redeem")
    BY <2>1, <2>2 DEF Goto
  <2>3. CASE "expired" \in AuditReplies("responder") /\ Goto(me, "refund")
    BY <2>1, <2>3, AnswersAreTrue DEF Goto, RefundingInv
  <2> QED BY <1>1, <1>4, <2>2, <2>3 DEF Audit, AuditAnswer, Peer
<1>5. ASSUME NEW call \in Calls, Send(me, call)
      PROVE  Moves
  <2>1. CASE Goto(me, WaitOf(call))
    BY <1>5, <2>1 DEF Send, Goto, WaitOf, Calls, RefundingInv
  <2>2. CASE call = "initiate" /\ "skip" \in Replies(call, Target(me, call)) /\ Goto(me, "audit")
    <3>1. htlc[me] # "none"
      BY <2>2, AnswersAreTrue DEF Replies, Target
    <3> QED BY <2>2, <3>1 DEF Goto
  <2> QED BY <1>1, <1>5, <2>1, <2>2 DEF Send, SendAnswer, Succeed, Fail
<1>6. ASSUME NEW call \in Calls, Await(me, call)
      PROVE  Moves
  <2>1. CASE call = "initiate" /\ Confirmed(call, Target(me, call)) /\ Goto(me, "audit")
    BY <2>1 DEF Confirmed, Target, Goto
  <2> QED BY <1>1, <1>6, <2>1 DEF Await, Succeed, Fail
<1> QED BY <1>2, <1>3, <1>4, <1>5, <1>6 DEF Work

(* The pool gets a redeem of the responder's contract from the initiator   *)
(* alone, from the call that audits it first.                              *)
LEMMA NextRefunding ==
  ASSUME ReliableNodes, IInv, RefundingInv, [Next]_vars
  PROVE  RefundingInv'
<1> USE DEF IInv, TypeOK, ChainTypeOK, DaemonTypeOK, Roles
<1>1. ASSUME NEW c \in Roles, NEW call \in Calls, Mine(call, c), UNCHANGED daemonVars
      PROVE  RefundingInv'
  BY <1>1, MineRefunding
<1>2. CASE UNCHANGED <<htlc, pool, pc>>
  BY <1>2 DEF RefundingInv
<1>3. ASSUME NEW r \in Roles, PostSwap(r) \/ Bootload(r) \/ Crash(r) \/ DeleteSwap(r)
      PROVE  RefundingInv'
  BY <1>3 DEF PostSwap, Bootload, Crash, DeleteSwap, chainVars, RefundingInv
<1>4. ASSUME NEW r \in Roles, Work(r)
      PROVE  RefundingInv'
  <2>1. UNCHANGED htlc
    BY <1>4 DEF Work, HandleRequest, DropRequest, HandleTick, Audit, AuditSecret, Send, Await,
      chainVars
  <2>2. \/ UNCHANGED pool
        \/ \E call \in Calls :
             /\ pc[r] = call /\ pc' = [pc EXCEPT ![r] = WaitOf(call)]
             /\ "send" \in Replies(call, Target(r, call))
             /\ pool' = pool \cup {<<call, Target(r, call)>>}
    BY <1>4 DEF Work, HandleRequest, DropRequest, HandleTick, Audit, AuditSecret, Send,
      SendAnswer, Publish, Goto, Await, chainVars
  <2>3. CASE UNCHANGED pool
    <3>1. CASE r = "initiator"
      BY <1>4, <2>1, <2>3, <3>1, InitiatorGoes DEF RefundingInv, LateCalls
    <3>2. CASE r = "responder"
      BY <1>4, <2>1, <2>3, <3>2, PeerStays DEF RefundingInv
    <3> QED BY <3>1, <3>2
  <2>4. ASSUME NEW call \in Calls,
               pc[r] = call, pc' = [pc EXCEPT ![r] = WaitOf(call)],
               "send" \in Replies(call, Target(r, call)),
               pool' = pool \cup {<<call, Target(r, call)>>}
        PROVE  RefundingInv'
    <3>1. CASE r = "initiator" /\ call = "redeem"
      <4>1. htlc["responder"] = "open"
        BY <2>4, <3>1, AnswersAreTrue DEF Replies, Target, Peer
      <4>2. pc'["initiator"] = "redeem_wait"
        BY <2>4, <3>1 DEF WaitOf
      <4> QED BY <2>1, <2>4, <3>1, <4>1, <4>2 DEF RefundingInv
    <3>2. CASE r # "initiator" \/ call # "redeem"
      <4>1. <<"redeem", "responder">> \in pool' => <<"redeem", "responder">> \in pool
        BY <2>4, <3>2 DEF Target, Peer
      <4>2. CASE r = "initiator"
        BY <1>4, <2>1, <4>1, <4>2, InitiatorGoes DEF RefundingInv, LateCalls
      <4>3. CASE r # "initiator"
        BY <2>1, <2>4, <4>1, <4>3 DEF RefundingInv
      <4> QED BY <4>2, <4>3
    <3> QED BY <3>1, <3>2
  <2> QED BY <2>2, <2>3, <2>4
<1> QED
  BY <1>1, <1>2, <1>3, <1>4 DEF Next, ChainNext, AdvanceClock, AdvanceBlock, vars, chainVars,
    daemonVars

(* The refund that the initiator reports has happened: it refunds only     *)
(* what it has funded, and while it refunds the responder cannot know the  *)
(* secret.                                                                 *)
LEMMA NewRefunded ==
  ASSUME ReliableNodes, IInv, RefundingInv, ClocksAgree, NEW call \in Calls,
         pc["initiator"] \in {call, WaitOf(call)},
         \/ "skip" \in Replies(call, Target("initiator", call))
         \/ Confirmed(call, Target("initiator", call)),
         call = "refund"
  PROVE  htlc["initiator"] = "refunded"
<1> DEFINE me == "initiator"
<1> USE DEF IInv, TypeOK, ChainTypeOK, DaemonTypeOK, Roles
<1>1. pc[me] \in {"refund", "refund_wait"}
  BY DEF WaitOf
<1>2. htlc[me] # "none" /\ htlc["responder"] # "redeemed" /\ wall > TimeLock
  BY <1>1 DEF RefundingInv, RefundInv
<1>3. htlc[me] # "redeemed"
  BY <1>2 DEF SecretInv
<1>4. htlc[me] # "open"
  <2>1. CASE "skip" \in RefundReplies(me)
    <3>1. ~Refundable(me)
      BY <2>1, AnswersAreTrue
    <3>2. blockTime[me] >= TimeLock
      BY <1>2 DEF ClocksAgree, TimeLock
    <3> QED BY <3>1, <3>2 DEF Refundable
  <2>2. CASE Confirmed("refund", me)
    BY <2>2 DEF Confirmed, Spent, Effect
  <2> QED BY <2>1, <2>2 DEF Replies, Target
<1> QED BY <1>2, <1>3, <1>4 DEF States

(* An initiator that reports Refunded has its money back, across crashes,  *)
(* waits that were given up, builds that fail and repeated execution, if   *)
(* the nodes answer and block timestamps follow the clock.                 *)
THEOREM RefundIsTrue ==
  ASSUME ReliableNodes, BlocksOnTime
  PROVE  Spec => []InitiatorRefundTruthful
<1> DEFINE me == "initiator"
           Truthful == ClocksAgree /\ RefundingInv /\ InitiatorRefundTruthful
<1>1. Init => Truthful
  <2>1. Init => InitiatorRefundTruthful
    BY DEF Init, InitiatorRefundTruthful, Roles
  <2> QED BY <2>1, InitEnds
<1>2. ASSUME IInv, Truthful, [Next]_vars
      PROVE  Truthful'
  <2>1. ClocksAgree' /\ RefundingInv'
    BY <1>2, NextClocks, NextRefunding DEF IInv
  <2>2. ASSUME reported'[me] = "Refunded"
        PROVE  htlc'[me] = "refunded"
    <3>1. htlc[me] = "refunded"
      <4>1. CASE reported'[me] = reported[me]
        BY <1>2, <2>2, <4>1 DEF InitiatorRefundTruthful
      <4>2. CASE reported'[me] # reported[me]
        <5>1. PICK call \in Calls :
                /\ call = "refund" /\ pc[me] \in {call, WaitOf(call)}
                /\ \/ "skip" \in Replies(call, Target(me, call))
                   \/ Confirmed(call, Target(me, call))
          BY <1>2, <2>2, <4>2, NewReport DEF IInv, Roles
        <5> QED BY <1>2, <5>1, NewRefunded
      <4> QED BY <4>1, <4>2
    <3> QED BY <1>2, <3>1, Final DEF IInv, Roles
  <2> QED BY <2>1, <2>2 DEF InitiatorRefundTruthful
<1>3. Truthful => InitiatorRefundTruthful
  OBVIOUS
<1> QED BY <1>1, <1>2, <1>3, Inductive, PTL DEF Spec

(* The strengthenings of this and the two sections before, at once.        *)
THEOREM Ends ==
  ASSUME ReliableNodes, SingleBootload, BlocksOnTime
  PROVE  Spec => []EndsInv
<1>1. Init => EndsInv
  BY InitEnds DEF EndsInv
<1>2. IInv /\ EndsInv /\ [Next]_vars => EndsInv'
  BY NextPaid, NextOnce, NextExpired, NextClocks, NextRefunding
  DEF EndsInv, IInv, PaidInv, AuditsReliably
<1> QED BY <1>1, <1>2, Inductive, PTL DEF Spec
=============================================================================
