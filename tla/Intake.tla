------------------------------- MODULE Intake -------------------------------
(***************************************************************************)
(* The way of an HTTP request into a daemon (adapter/server, and           *)
(* driver/composer): one goroutine for each request bootloads, checks the  *)
(* request and writes it to the receiver's buffer; the service task        *)
(* receives one message, or a tick, for each AcceptRequest; and the        *)
(* composer hands it to the wallet task and sends the next AcceptRequest.  *)
(*                                                                         *)
(* The handlers share the map bootloaded without a lock.                   *)
(***************************************************************************)
EXTENDS Naturals, SequencesExt

CONSTANTS
  Requests,   \* the HTTP requests
  Kind,       \* Kind[i]: "info" (GET /info; the other GETs do less), "swap",
              \* "delayed" or "transfer" (the POSTs)
  Password,   \* Password[i]: the account that i authenticates for
  Capacity,   \* of the receiver's buffer
  MaxStarts   \* bound of the model: starts of the process

ASSUME KindAssumption ==
  Kind \in [Requests -> {"info", "swap", "delayed", "transfer"}]
ASSUME PasswordAssumption == DOMAIN Password = Requests
ASSUME BoundsAssumption   == Capacity \in Nat \ {0} /\ MaxStarts \in Nat \ {0}

VARIABLES
  pc,          \* pc[i]: where the goroutine of request i is
  answer,      \* answer[i]: what it answered
  bootloaded,  \* passwords whose flag is set
  skipped,     \* history: requests whose Bootload could not be written since the start
  closed,      \* receiver.done is closed
  buf,         \* receiver.buf
  accepts,     \* AcceptRequests in the inbox of the service task
  hand,        \* AcceptedRequests on the way to the composer
  wallet,      \* history: what the wallet task was sent since the start
  starts       \* starts of the process

handlers == <<pc, answer, bootloaded, skipped>>
pump     == <<accepts, hand, wallet>>
vars     == <<handlers, pump, closed, buf, starts>>

Posts == {i \in Requests : Kind[i] \in {"swap", "delayed", "transfer"}}

Bootload(i) == [type |-> "Bootload", of |-> i]
Request(i)  == [type |-> "Request", of |-> i]
Messages    == {Bootload(i) : i \in Requests} \cup {Request(i) : i \in Posts}
Tick        == [type |-> "Tick", of |-> "none"]

Places  == {"idle", "read", "boot", "marking", "check", "report",
            "write", "build", "posting", "done", "gone"}
Answers == {"none", "ok", "loaded", "refused", "unbuilt"}

Init ==
  /\ pc = [i \in Requests |-> "idle"]
  /\ answer = [i \in Requests |-> "none"]
  /\ bootloaded = {} /\ skipped = {}
  /\ closed = FALSE
  /\ buf = <<>>
  /\ accepts = 1
  /\ hand = <<>> /\ wallet = <<>>
  /\ starts = 1

TypeOK ==
  /\ pc \in [Requests -> Places]
  /\ answer \in [Requests -> Answers]
  /\ bootloaded \subseteq {Password[i] : i \in Requests}
  /\ skipped \subseteq Requests
  /\ closed \in BOOLEAN
  /\ buf \in Seq(Messages) /\ Len(buf) <= Capacity
  /\ accepts \in Nat /\ accepts + Len(hand) <= 1
  /\ hand \in Seq(Messages \cup {Tick})
  /\ wallet \in Seq(Messages)
  /\ starts \in 1..MaxStarts

-----------------------------------------------------------------------------
(* The handlers                                                            *)

Goes(i, from, to) == pc[i] = from /\ pc' = [pc EXCEPT ![i] = to]

Replies(i, from, what) ==
  Goes(i, from, "done") /\ answer' = [answer EXCEPT ![i] = what]

(* After bootload() each handler goes on with its own work.                *)
Work(i) == IF Kind[i] = "info" THEN "report" ELSE "check"

Arrive(i) ==
  /\ ~closed
  /\ Goes(i, "idle", "read")
  /\ UNCHANGED <<answer, bootloaded, skipped, closed, buf, pump, starts>>

(* A read may see the write of another goroutine that is under way.        *)
SeesFlag(i) ==
  Password[i] \in bootloaded \cup {Password[j] : j \in {k \in Requests : pc[k] = "marking"}}
MissesFlag(i) == Password[i] \notin bootloaded

(* Mutant of ReadFlag: the flag is set before the Bootload is written.     *)
ReadFlagAndSet(i) ==
  /\ \/ SeesFlag(i) /\ Goes(i, "read", Work(i)) /\ UNCHANGED bootloaded
     \/ MissesFlag(i) /\ Goes(i, "read", "boot")
          /\ bootloaded' = bootloaded \cup {Password[i]}
  /\ UNCHANGED <<answer, skipped, closed, buf, pump, starts>>

ReadFlag(i) ==
  /\ \/ SeesFlag(i)   /\ Goes(i, "read", Work(i))
     \/ MissesFlag(i) /\ Goes(i, "read", "boot")
  /\ UNCHANGED <<answer, bootloaded, skipped, closed, buf, pump, starts>>

(* Mutants of Written and Unwritten: a buffer without a limit, and a Write *)
(* that waits for room only.                                               *)
WrittenAnyway(m) == buf' = Append(buf, m)
NeverUnwritten   == FALSE

(* Receiver.Write: a full buffer is waited for one minute, and if the      *)
(* receiver was shut down either branch of the select may be taken.        *)
Written(m) == Len(buf) < Capacity /\ buf' = Append(buf, m)
Unwritten  == (closed \/ Len(buf) = Capacity) /\ UNCHANGED buf

(* Mutant of WriteBootload: the flag is set although the Write failed.     *)
WriteBootloadOrNot(i) ==
  /\ \/ Written(Bootload(i)) /\ Goes(i, "boot", "marking") /\ UNCHANGED skipped
     \/ Unwritten /\ Goes(i, "boot", "marking") /\ skipped' = skipped \cup {i}
  /\ UNCHANGED <<answer, bootloaded, closed, pump, starts>>

WriteBootload(i) ==
  /\ \/ Written(Bootload(i)) /\ Goes(i, "boot", "marking") /\ UNCHANGED skipped
     \/ Unwritten /\ Goes(i, "boot", Work(i)) /\ skipped' = skipped \cup {i}
  /\ UNCHANGED <<answer, bootloaded, closed, pump, starts>>

(* The write to the map, which takes some time, ends.                      *)
EndMark(i) ==
  /\ Goes(i, "marking", Work(i))
  /\ bootloaded' = bootloaded \cup {Password[i]}
  /\ UNCHANGED <<answer, skipped, closed, buf, pump, starts>>

(* GetInfo reads the flag again and shows it.                              *)
Report(i) ==
  /\ \/ SeesFlag(i)   /\ Replies(i, "report", "loaded")
     \/ MissesFlag(i) /\ Replies(i, "report", "ok")
  /\ UNCHANGED <<bootloaded, skipped, closed, buf, pump, starts>>

(* patchSwap, patchDelayedSwap and the checks of PostTransfers may fail;   *)
(* nothing was written then.                                               *)
Check(i) ==
  /\ \/ Replies(i, "check", "refused")
     \/ Goes(i, "check", "write") /\ UNCHANGED answer
  /\ UNCHANGED <<bootloaded, skipped, closed, buf, pump, starts>>

(* Mutant of WriteRequest: its error is not looked at.                     *)
WriteRequestBlindly(i) ==
  /\ Written(Request(i)) \/ Unwritten
  /\ IF Kind[i] = "swap" THEN Goes(i, "write", "build") /\ UNCHANGED answer
                         ELSE Replies(i, "write", "ok")
  /\ UNCHANGED <<bootloaded, skipped, closed, pump, starts>>

WriteRequest(i) ==
  /\ \/ Written(Request(i))
          /\ IF Kind[i] = "swap" THEN Goes(i, "write", "build") /\ UNCHANGED answer
                                 ELSE Replies(i, "write", "ok")
     \/ Unwritten /\ Replies(i, "write", "refused")
  /\ UNCHANGED <<bootloaded, skipped, closed, pump, starts>>

(* buildSwapResponse may fail when the swap has been accepted; the blob    *)
(* may name a ResponseURL, to which the response is posted first.          *)
Build(i) ==
  /\ \/ Replies(i, "build", "ok") \/ Replies(i, "build", "unbuilt")
     \/ Goes(i, "build", "posting") /\ UNCHANGED answer
  /\ UNCHANGED <<bootloaded, skipped, closed, buf, pump, starts>>

(* The server at the ResponseURL answers, or the connection fails.         *)
Posted(i) ==
  /\ Replies(i, "posting", "ok") \/ Replies(i, "posting", "unbuilt")
  /\ UNCHANGED <<bootloaded, skipped, closed, buf, pump, starts>>

(* All that a handler does by itself.                                      *)
Handle(i) ==
  \/ ReadFlag(i) \/ WriteBootload(i) \/ EndMark(i)
  \/ Report(i) \/ Check(i) \/ WriteRequest(i) \/ Build(i)

-----------------------------------------------------------------------------
(* The service task and the composer                                       *)

Receives(m) == accepts > 0 /\ accepts' = accepts - 1 /\ hand' = Append(hand, m)

(* Mutant of Receive: the message stays in the buffer.                     *)
ReceivePeek ==
  /\ buf # <<>> /\ Receives(Head(buf))
  /\ UNCHANGED <<handlers, closed, buf, wallet, starts>>

Receive ==
  /\ buf # <<>> /\ Receives(Head(buf))
  /\ buf' = Tail(buf)
  /\ UNCHANGED <<handlers, closed, wallet, starts>>

ReceiveTick ==
  /\ Receives(Tick)
  /\ UNCHANGED <<handlers, closed, buf, wallet, starts>>

ReceiveError ==
  /\ closed /\ accepts > 0
  /\ accepts' = accepts - 1
  /\ UNCHANGED <<handlers, closed, buf, hand, wallet, starts>>

(* Mutant of Pump: after a tick nothing is accepted any more.              *)
PumpMessages ==
  /\ hand # <<>>
  /\ hand' = Tail(hand)
  /\ IF Head(hand) = Tick THEN UNCHANGED <<wallet, accepts>>
     ELSE wallet' = Append(wallet, Head(hand)) /\ accepts' = accepts + 1
  /\ UNCHANGED <<handlers, closed, buf, starts>>

Pump ==
  /\ hand # <<>>
  /\ hand' = Tail(hand)
  /\ wallet' = IF Head(hand) = Tick THEN wallet ELSE Append(wallet, Head(hand))
  /\ accepts' = accepts + 1
  /\ UNCHANGED <<handlers, closed, buf, starts>>

-----------------------------------------------------------------------------
(* The process                                                             *)

(* httpServer.Run closes the listener and shuts the receiver down.         *)
Shutdown ==
  /\ ~closed
  /\ closed' = TRUE
  /\ UNCHANGED <<handlers, pump, buf, starts>>

(* The process ends, after a shutdown or at any point, and starts again;   *)
(* the Go runtime ends it, too, if it notices that two goroutines use a    *)
(* map at once and one of them writes, which is one of these points.       *)
Restart ==
  /\ starts < MaxStarts
  /\ starts' = starts + 1
  /\ pc' = [i \in Requests |-> IF pc[i] = "idle" THEN "idle" ELSE "gone"]
  /\ answer' = [i \in Requests |-> "none"]
  /\ bootloaded' = {} /\ skipped' = {} /\ closed' = FALSE
  /\ buf' = <<>> /\ accepts' = 1 /\ hand' = <<>> /\ wallet' = <<>>

Next ==
  \/ \E i \in Requests : Arrive(i) \/ Handle(i) \/ Posted(i)
  \/ Receive \/ ReceiveTick \/ ReceiveError \/ Pump
  \/ Shutdown \/ Restart

Spec == Init /\ [][Next]_vars

(* A goroutine goes on; a select with several ready channels picks one at  *)
(* random, so that the buffer is not passed over for ever.  Nothing makes  *)
(* the server at a ResponseURL answer: the post to it has no timeout.      *)
FairSpec ==
  /\ Spec
  /\ \A i \in Requests : WF_vars(Handle(i))
  /\ SF_vars(Receive) /\ WF_vars(Pump)

-----------------------------------------------------------------------------
(* Everything that was written since the start, in order; a tick that is   *)
(* on its way to the composer is alone there.                              *)
Carried == IF hand = <<Tick>> THEN <<>> ELSE hand
Sent    == wallet \o Carried \o buf

(* The pump delivers what was written once and in order, whatever ticks    *)
(* come in between and whenever the receiver is shut down.                 *)
Box == INSTANCE Mailbox WITH sent <- Sent, got <- wallet
ImplementsMailbox == Box!Spec

CopiesOf(m) == {k \in DOMAIN Sent : Sent[k] = m}
Unsent(i)   == CopiesOf(Request(i)) = {}
SentOnce(i) == \E k \in DOMAIN Sent : CopiesOf(Request(i)) = {k}

(* An answer tells what became of a POST, while the process lives: one     *)
(* that was acknowledged is on its way once, one that was refused is not.  *)
(* (An error of buildSwapResponse comes when the swap is on its way.)      *)
AnswerTells ==
  \A i \in Posts : pc[i] = "done" =>
    IF answer[i] = "refused" THEN Unsent(i) ELSE SentOnce(i)

(* One of the first k messages bootloads the account.                      *)
LoadedBy(password, k) ==
  \E b \in 1..k : Sent[b].type = "Bootload" /\ Password[Sent[b].of] = password
Loaded(password) == LoadedBy(password, Len(Sent))

(* "on the first HTTP request, it resumes all pending atomic swaps"        *)
(* (docs/src/source/index.html.md:27): the swaps of an account are resumed *)
(* before anything else is done for it, also if many first requests race,  *)
(* or else the Bootload could not be written.                              *)
BehindBootload ==
  \A k \in DOMAIN Sent : Sent[k].type = "Request" =>
    Sent[k].of \in skipped \/ LoadedBy(Password[Sent[k].of], k - 1)

(* GET /info says bootloaded only if the account's Bootload was written.   *)
InfoTruthful ==
  \A i \in Requests : pc[i] = "done" /\ answer[i] = "loaded" => Loaded(Password[i])

(* The inductive invariant: what the place of a handler says about its     *)
(* kind, about its own message, and about its account's Bootload.          *)
KindInv ==
  \A i \in Requests :
    /\ pc[i] = "report" => Kind[i] = "info"
    /\ pc[i] \in {"check", "write", "build", "posting"} => i \in Posts

OnceInv ==
  \A i \in Posts :
    /\ pc[i] \in {"idle", "read", "boot", "marking", "check", "write", "gone"} => Unsent(i)
    /\ pc[i] \in {"build", "posting"} => SentOnce(i)

FlagInv ==
  /\ \A password \in bootloaded : Loaded(password)
  /\ \A i \in Requests :
       /\ pc[i] = "marking" => Loaded(Password[i])
       /\ pc[i] \in {"check", "write"} => i \in skipped \/ Loaded(Password[i])

IInv ==
  /\ TypeOK /\ KindInv
  /\ OnceInv /\ AnswerTells
  /\ FlagInv /\ BehindBootload /\ InfoTruthful

(* Every request is answered, or the process ends: a handler does not wait *)
(* for ever, also when the receiver is full and shut down, except for a    *)
(* server at a ResponseURL, and then it keeps no other request waiting.    *)
Answered == <>[](\A i \in Requests : pc[i] \in {"idle", "posting", "done", "gone"})

(* What was acknowledged, or is only kept from it by such a server,        *)
(* reaches the wallet task, unless the process ends.                       *)
Acknowledged(i) == pc[i] = "posting" \/ (pc[i] = "done" /\ answer[i] = "ok")

Served ==
  <>[](closed \/ \A i \in Posts : Acknowledged(i) => Request(i) \in ToSet(wallet))
=============================================================================
