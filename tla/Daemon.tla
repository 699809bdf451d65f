------------------------------- MODULE Daemon -------------------------------
(***************************************************************************)
(* The tasks of one swapperd process under core/wallet: the wallet task    *)
(* routes messages to the status task and to the swapper task, and the     *)
(* swapper task has two children, the immediate and the delayed swapper.   *)
(* Each task is a goroutine that takes one message at a time from its      *)
(* inbox or from the output of a child; each channel is first in, first    *)
(* out, and the channels of a task are read in any order.                  *)
(*                                                                         *)
(* How an immediate swap is executed is the subject of AtomicSwap: here an *)
(* execution ends, is kept for the next tick, or fails before it starts.   *)
(***************************************************************************)
EXTENDS Naturals, SequencesExt, Callback

CONSTANTS
  Swaps,       \* the swaps users post
  Delayed,     \* those posted as delayed swaps
  Fills,       \* the details with which the callback server may answer
  Terms,       \* Terms[s]: tokens and amounts with which s \in Delayed was posted
  Details,     \* Details[f]: those of the answer f \in Fills
  Faults,      \* "build": contracts cannot be built; "disk": the database fails
  MaxCrashes,  \* bound of the model: crashes of the process
  MaxBoots,    \* Bootload messages between two starts of the process, 1 unless
               \* concurrent first requests race to send it
  MaxBacklog   \* bound of the model: no tick while as many results are queued

ASSUME SwapsAssumption  == IsFiniteSet(Swaps) /\ Delayed \subseteq Swaps
ASSUME FillsAssumption  ==   \* what else a blob, an update or an answer can be
  Fills \cap {"posted", "delay", "none", "same", "unavailable", "gone", "ended"} = {}
ASSUME TermsAssumption  ==
  Terms \in [Delayed -> BlobTerms] /\ Details \in [Fills -> BlobTerms]
ASSUME FaultsAssumption == Faults \subseteq {"build", "disk"}
ASSUME BoundsAssumption ==
  MaxCrashes \in Nat /\ MaxBoots \in Nat \ {0} /\ MaxBacklog \in Nat \ {0}

VARIABLES
  posted,   \* swaps whose POST was acknowledged
  boots,    \* Bootload messages sent since the last start
  crashes,  \* crashes so far
  chan,     \* chan[c]: the messages in channel c
  asking,   \* delayed.callback.swapMap: swaps to ask the callback about
  running,  \* immediate.swapper.swapMap: the blob of s, or "none"
  pending,  \* table of pending swaps on disk: the blob of s, or "none"
  known,    \* table of all swaps on disk, which nothing reads
  accepted, \* history: swaps that were ever in the table of pending swaps
  receipts, \* table of receipts on disk
  executed  \* history: pairs <<s, blob>> that the immediate swapper executed

vars == <<posted, boots, crashes, chan, asking, running, pending, known,
          accepted, receipts, executed>>
memory == <<asking, running, executed>>
tables == <<pending, known, accepted>>
disk   == <<tables, receipts>>
world  == <<posted, boots, crashes>>

(* A blob is the details of a swap: as posted without or with a delay, or  *)
(* as filled in by the callback server.                                    *)
Executable == {"posted"} \cup Fills
Blobs      == Executable \cup {"delay"}
Posted(s)  == IF s \in Delayed THEN "delay" ELSE "posted"

(* A status of a swap that goes on, of one that ended, and the other two.  *)
Final    == {"Ended", "Cancelled"}
Statuses == {"Inactive", "Working"} \cup Final

NoReceipt == [status |-> "none", blob |-> "none"]

Bootload          == [type |-> "Bootload"]
Request(s, blob)  == [type |-> "SwapRequest", id |-> s, blob |-> blob]
Receipt(s, blob)  == [type |-> "Receipt", id |-> s, blob |-> blob]
DeleteSwap(s)     == [type |-> "DeleteSwap", id |-> s]
Update(s, status, blob) ==   \* "same" leaves a field alone
  [type |-> "ReceiptUpdate", id |-> s, status |-> status, blob |-> blob]

Messages ==
  {Bootload}
    \cup {Request(s, blob) : s \in Swaps, blob \in Blobs}
    \cup {Receipt(s, blob) : s \in Swaps, blob \in Blobs}
    \cup {DeleteSwap(s) : s \in Swaps}
    \cup {Update(s, status, blob) : s \in Swaps,
            status \in Statuses \cup {"same"}, blob \in Fills \cup {"same"}}

(* The inboxes of the five tasks, and what three of them tell their parent.*)
Channels == {"wallet", "status", "swapper", "immediate", "delayed",
             "swapper_out", "immediate_out", "delayed_out"}

Init ==
  /\ posted = {} /\ boots = 0 /\ crashes = 0
  /\ chan = [c \in Channels |-> <<>>]
  /\ asking = {}
  /\ running = [s \in Swaps |-> "none"]
  /\ pending = [s \in Swaps |-> "none"]
  /\ known = {} /\ accepted = {}
  /\ receipts = [s \in Swaps |-> NoReceipt]
  /\ executed = {}

(* The details with which s may be executed, and what a channel carries.   *)
Versions(s) ==
  IF s \in Delayed THEN {f \in Fills : VerifyDelaySwap(Terms[s], Details[f])} ELSE {"posted"}

Updates == {m \in Messages : m.type = "ReceiptUpdate"}
Deletes == {DeleteSwap(s) : s \in Swaps}
Fillings == {Request(s, f) : s \in Delayed, f \in Fills}

Carries(c) ==
  CASE c \in {"wallet", "swapper"} -> {Bootload} \cup {Request(s, Posted(s)) : s \in Swaps}
    [] c = "immediate"     -> UNION {{Request(s, blob) : blob \in Versions(s)} : s \in Swaps}
    [] c = "delayed"       -> {Request(s, "delay") : s \in Delayed}
    [] c = "immediate_out" -> Updates \cup Deletes
    [] c = "delayed_out"   -> Updates \cup Deletes
                                \cup {m \in Fillings : m.blob \in Versions(m.id)}
    [] c = "swapper_out"   -> Updates
    [] c = "status"        -> Updates \cup {m \in Messages : m.type = "Receipt"}

TypeOK ==
  /\ posted \subseteq Swaps /\ boots \in Nat /\ crashes \in Nat
  /\ DOMAIN chan = Channels /\ \A c \in Channels : chan[c] \in Seq(Carries(c))
  /\ asking \subseteq Delayed
  /\ running \in [Swaps -> Executable \cup {"none"}]
  /\ \A s \in Swaps : running[s] \in Versions(s) \cup {"none"}
  /\ pending \in [Swaps -> Blobs \cup {"none"}]
  /\ \A s \in Swaps : pending[s] \in Versions(s) \cup {Posted(s), "none"}
  /\ known \subseteq Swaps /\ accepted \subseteq Swaps
  /\ receipts \in [Swaps -> [status : Statuses, blob : Blobs] \cup {NoReceipt}]
  /\ executed \subseteq Swaps \X Executable
  /\ \A e \in executed : e[2] \in Versions(e[1])

-----------------------------------------------------------------------------
(* Channels                                                                *)

(* A task takes the first message m of channel c.                          *)
Takes(c, m) == chan[c] # <<>> /\ m = Head(chan[c])

(* It is done with it, and has put out[d] into every channel d of out.     *)
Done(c, out) ==
  chan' = [d \in Channels |->
             (IF d = c THEN Tail(chan[d]) ELSE chan[d])
               \o (IF d \in DOMAIN out THEN out[d] ELSE <<>>)]

Nothing == <<>>

-----------------------------------------------------------------------------
(* HTTP handlers and the process                                           *)

(* The first request after a start sends Bootload; racing ones each do.    *)
SendBootload ==
  /\ boots < MaxBoots
  /\ boots' = boots + 1
  /\ chan' = [chan EXCEPT !["wallet"] = Append(@, Bootload)]
  /\ UNCHANGED <<posted, crashes, memory, disk>>

PostSwap(s) ==
  /\ boots > 0
  /\ s \notin posted
  /\ posted' = posted \cup {s}
  /\ chan' = [chan EXCEPT !["wallet"] = Append(@, Request(s, Posted(s)))]
  /\ UNCHANGED <<boots, crashes, memory, disk>>

-----------------------------------------------------------------------------
(* The wallet and the status task                                          *)

(* Mutant of WalletRoutes: the swapper alone hears of a new swap.          *)
WalletRoutesSilently ==
  \E m \in Messages :
    /\ Takes("wallet", m)
    /\ Done("wallet", [swapper |-> <<m>>])
    /\ UNCHANGED <<world, memory, disk>>

WalletRoutes ==
  \E m \in Messages :
    /\ Takes("wallet", m)
    /\ \/ m.type = "Bootload" /\ Done("wallet", [swapper |-> <<m>>])
       \/ m.type = "SwapRequest"
            /\ Done("wallet", [status |-> <<Receipt(m.id, m.blob)>>, swapper |-> <<m>>])
    /\ UNCHANGED <<world, memory, disk>>

WalletForwards ==
  \E m \in Messages :
    /\ Takes("swapper_out", m)
    /\ Done("swapper_out", [status |-> <<m>>])
    /\ UNCHANGED <<world, memory, disk>>

Merge(old, new) == IF new = "same" THEN old ELSE new

PutReceipt(m) ==
  /\ m.type = "Receipt"
  /\ receipts' = [receipts EXCEPT ![m.id] = [status |-> "Inactive", blob |-> m.blob]]

(* Mutant of UpdateReceipt: the amounts of a filled swap are not copied.   *)
UpdateReceiptStatus(m) ==
  /\ m.type = "ReceiptUpdate"
  /\ receipts' = IF receipts[m.id] = NoReceipt THEN receipts
                 ELSE [receipts EXCEPT ![m.id].status = Merge(@, m.status)]

(* There is nothing to update if there is no receipt.                      *)
UpdateReceipt(m) ==
  /\ m.type = "ReceiptUpdate"
  /\ receipts' = IF receipts[m.id] = NoReceipt THEN receipts
                 ELSE [receipts EXCEPT ![m.id] =
                         [status |-> Merge(@.status, m.status),
                          blob   |-> Merge(@.blob, m.blob)]]

StatusStores ==
  \E m \in Messages :
    /\ Takes("status", m)
    /\ PutReceipt(m) \/ UpdateReceipt(m) \/ ("disk" \in Faults /\ UNCHANGED receipts)
    /\ Done("status", Nothing)
    /\ UNCHANGED <<world, memory, tables>>

-----------------------------------------------------------------------------
(* The swapper task                                                        *)

(* The child that executes a blob.                                         *)
Child(blob) == IF blob = "delay" THEN "delayed" ELSE "immediate"

(* Mutant of PutSwap: the swap is executed, but not stored as pending.    *)
PutSwapLater(s, blob) == known' = known \cup {s} /\ UNCHANGED <<pending, accepted>>

(* ... or a filled swap stays stored as it was posted.                     *)
PutSwapUnfilled(s, blob) ==
  /\ pending' = [pending EXCEPT ![s] = Posted(s)]
  /\ known' = known \cup {s}
  /\ accepted' = accepted \cup {s}

(* The first of the two writes of PutSwap, after which it may be cut short *)
(* by an error of the second or by the death of the process, ...           *)
PutPending(s, blob) ==
  /\ pending' = [pending EXCEPT ![s] = blob]
  /\ accepted' = accepted \cup {s}
  /\ UNCHANGED known

(* ... and both.                                                           *)
PutSwap(s, blob) ==
  /\ pending' = [pending EXCEPT ![s] = blob]
  /\ accepted' = accepted \cup {s}
  /\ known' = known \cup {s}

(* handleSwapRequest: a posted swap, or one that was filled.  If PutSwap   *)
(* fails the request is dropped, whether or not it was stored as pending.  *)
SwapperAccepts(c) ==
  \E m \in Messages :
    /\ Takes(c, m)
    /\ m.type = "SwapRequest"
    /\ \/ PutSwap(m.id, m.blob) /\ Done(c, [d \in {Child(m.blob)} |-> <<m>>])
       \/ /\ "disk" \in Faults
          /\ PutPending(m.id, m.blob) \/ UNCHANGED tables
          /\ Done(c, Nothing)
    /\ UNCHANGED <<world, memory, receipts>>

(* Mutant of Resend: delayed swaps are left out.                           *)
ResendExecutable(order) ==
  LET request(s) == Request(s, pending[s])
  IN Done("swapper",
          [immediate |-> FlattenSeq([i \in DOMAIN order |->
             IF Child(pending[order[i]]) = "immediate" THEN <<request(order[i])>> ELSE <<>>])])

(* handleBootload: every pending swap, in the order of the table.          *)
Resend(order) ==
  LET To(d) == FlattenSeq([i \in DOMAIN order |->
                 IF Child(pending[order[i]]) = d
                 THEN <<Request(order[i], pending[order[i]])>> ELSE <<>>])
  IN Done("swapper",
          [swapper_out |-> [i \in DOMAIN order |-> Update(order[i], "same", "same")],
           delayed     |-> To("delayed"),
           immediate   |-> To("immediate")])

SwapperBootloads ==
  /\ Takes("swapper", Bootload)
  /\ \/ \E order \in SetToSeqs({s \in Swaps : pending[s] # "none"}) : Resend(order)
     \/ "disk" \in Faults /\ Done("swapper", Nothing)
  /\ UNCHANGED <<world, memory, disk>>

SwapperForwards(c) ==
  \E m \in Messages :
    /\ Takes(c, m)
    /\ m.type = "ReceiptUpdate"
    /\ Done(c, [swapper_out |-> <<m>>])
    /\ UNCHANGED <<world, memory, disk>>

SwapperDeletes(c) ==
  \E m \in Messages :
    /\ Takes(c, m)
    /\ m.type = "DeleteSwap"
    /\ pending' = [pending EXCEPT ![m.id] = "none"]
         \/ ("disk" \in Faults /\ UNCHANGED pending)
    /\ Done(c, Nothing)
    /\ UNCHANGED <<world, memory, known, accepted, receipts>>

-----------------------------------------------------------------------------
(* The delayed swapper                                                     *)

(* The callback server fills the swap, does not know yet, or has cancelled *)
(* it.  A failed request and refused details are handled as "unavailable". *)
Answers == Fills \cup {"unavailable", "gone"}

DelayCallback(s, answer) ==
  IF answer \in Fills /\ ~VerifyDelaySwap(Terms[s], Details[answer])
  THEN "unavailable" ELSE answer

(* Mutant of Answer: the swap is handed on as it was posted.               *)
AnswerUnfilled(s, answer) ==
  IF answer \in Fills
  THEN <<Update(s, "same", answer), Request(s, "unavailable")>>
  ELSE <<>>

Answer(s, answer) ==
  IF answer \in Fills
  THEN <<Update(s, "same", answer), Request(s, answer)>>
  ELSE IF answer = "gone" THEN <<Update(s, "Cancelled", "same"), DeleteSwap(s)>>
  ELSE <<>>

(* Mutant of Ask: an answer does not take the swap out of the map.         *)
AskAgain(c, order) ==
  \E answer \in [ToSet(order) -> Answers] :
    LET reply == [s \in DOMAIN answer |-> DelayCallback(s, answer[s])] IN
    /\ asking' = asking \cup DOMAIN reply
    /\ Done(c, [delayed_out |->
         FlattenSeq([i \in DOMAIN order |-> Answer(order[i], reply[order[i]])])])
    /\ UNCHANGED <<world, running, executed, disk>>

(* handleDelayedSwapRequest for a sequence of swaps.                       *)
Ask(c, order) ==
  \E answer \in [ToSet(order) -> Answers] :
    LET reply == [s \in DOMAIN answer |-> DelayCallback(s, answer[s])]
        asked == DOMAIN answer
    IN
    /\ asking' = (asking \ asked) \cup {s \in asked : reply[s] = "unavailable"}
    /\ Done(c, [delayed_out |->
         FlattenSeq([i \in DOMAIN order |-> Answer(order[i], reply[order[i]])])])
    /\ UNCHANGED <<world, running, executed, disk>>

DelayedTakes == \E m \in Messages : Takes("delayed", m) /\ Ask("delayed", <<m.id>>)

DelayedTicks ==
  /\ asking # {}
  /\ \E order \in SetToSeqs(asking) : Ask("tick", order)

-----------------------------------------------------------------------------
(* The immediate swapper                                                   *)

Outcomes == {"Working", "Ended"} \cup (IF "build" \in Faults THEN {"NotBuilt"} ELSE {})

(* Mutant of Result: the removal overtakes the status.                     *)
ResultSwapped(s, outcome) ==
  IF outcome = "Ended" THEN <<DeleteSwap(s)>>
  ELSE IF outcome = "Working" THEN <<Update(s, "Working", "same")>> ELSE <<>>

Result(s, outcome) ==
  IF outcome = "Ended" THEN <<Update(s, "Ended", "same"), DeleteSwap(s)>>
  ELSE IF outcome = "Working" THEN <<Update(s, "Working", "same")>>
  ELSE <<>>

(* Mutant of Execute: a swap that ended is not taken out of the map.       *)
ExecuteKeeps(c, requests) ==
  \E outcome \in [DOMAIN requests -> Outcomes] :
    /\ running' = [s \in Swaps |->
         IF \E i \in DOMAIN requests : requests[i].id = s /\ outcome[i] # "NotBuilt"
         THEN requests[CHOOSE i \in DOMAIN requests : requests[i].id = s].blob
         ELSE running[s]]
    /\ executed' = executed \cup
         {<<requests[i].id, requests[i].blob>> :
            i \in {j \in DOMAIN requests : outcome[j] # "NotBuilt"}}
    /\ Done(c, [immediate_out |->
         FlattenSeq([i \in DOMAIN requests |-> Result(requests[i].id, outcome[i])])])
    /\ UNCHANGED <<world, asking, disk>>

(* handleSwap for a sequence of requests.                                  *)
Execute(c, requests) ==
  \E outcome \in [DOMAIN requests -> Outcomes] :
    /\ running' = [s \in Swaps |->
         IF \E i \in DOMAIN requests : requests[i].id = s /\ outcome[i] # "NotBuilt"
         THEN LET i == CHOOSE i \in DOMAIN requests : requests[i].id = s
              IN IF outcome[i] = "Ended" THEN "none" ELSE requests[i].blob
         ELSE running[s]]
    /\ executed' = executed \cup
         {<<requests[i].id, requests[i].blob>> :
            i \in {j \in DOMAIN requests : outcome[j] # "NotBuilt"}}
    /\ Done(c, [immediate_out |->
         FlattenSeq([i \in DOMAIN requests |-> Result(requests[i].id, outcome[i])])])
    /\ UNCHANGED <<world, asking, disk>>

ImmediateTakes == \E m \in Messages : Takes("immediate", m) /\ Execute("immediate", <<m>>)

Backlog == Len(chan["immediate_out"]) + Len(chan["swapper_out"]) + Len(chan["status"])

ImmediateTicks ==
  LET kept == {s \in Swaps : running[s] # "none"} IN
  /\ kept # {}
  /\ Backlog < MaxBacklog
  /\ \E order \in SetToSeqs(kept) :
       Execute("tick", [i \in DOMAIN order |-> Request(order[i], running[order[i]])])

-----------------------------------------------------------------------------
(* The process dies: at rest, or between the two writes of PutSwap.  No    *)
(* task but the swapper, which is in there, reads what these write.        *)
Crash ==
  /\ crashes < MaxCrashes
  /\ crashes' = crashes + 1
  /\ boots' = 0
  /\ chan' = [c \in Channels |-> <<>>]
  /\ asking' = {}
  /\ running' = [s \in Swaps |-> "none"]
  /\ \/ UNCHANGED tables
     \/ \E c \in {"swapper", "delayed_out"}, m \in Messages :
          Takes(c, m) /\ m.type = "SwapRequest" /\ PutPending(m.id, m.blob)
  /\ UNCHANGED <<posted, executed, receipts>>

-----------------------------------------------------------------------------
Tasks ==
  \/ WalletRoutes \/ WalletForwards
  \/ StatusStores
  \/ SwapperBootloads
  \/ \E c \in {"swapper", "delayed_out"} : SwapperAccepts(c)
  \/ \E c \in {"immediate_out", "delayed_out"} : SwapperForwards(c) \/ SwapperDeletes(c)
  \/ DelayedTakes \/ DelayedTicks
  \/ ImmediateTakes \/ ImmediateTicks

Next ==
  \/ SendBootload
  \/ \E s \in Swaps : PostSwap(s)
  \/ Crash
  \/ Tasks

Spec == Init /\ [][Next]_vars

(* No message stays in a channel for ever, except where its handler waits  *)
(* for a callback server, without a timeout; and somebody sends a request  *)
(* to a daemon that was started.                                           *)
Fairness ==
  /\ WF_vars(WalletRoutes) /\ WF_vars(WalletForwards) /\ WF_vars(StatusStores)
  /\ WF_vars(SwapperBootloads)
  /\ \A c \in {"swapper", "delayed_out"} : WF_vars(SwapperAccepts(c))
  /\ \A c \in {"immediate_out", "delayed_out"} :
       WF_vars(SwapperForwards(c)) /\ WF_vars(SwapperDeletes(c))
  /\ WF_vars(ImmediateTakes)
  /\ WF_vars(boots = 0 /\ SendBootload)

FairSpec == Spec /\ Fairness

-----------------------------------------------------------------------------
(* Where a swap is                                                         *)

(* Message m hands s to the next task, or has it removed.                  *)
IsAbout(m, s) == m.type \in {"SwapRequest", "DeleteSwap"} /\ m.id = s
About(s, q) == \E i \in DOMAIN q : IsAbout(q[i], s)
Once(s, q) == \A i, j \in DOMAIN q : IsAbout(q[i], s) /\ IsAbout(q[j], s) => i = j

Places == Channels \cup {"asking", "running"}

At(s, p) ==
  \/ p \in Channels /\ About(s, chan[p])
  \/ p = "asking" /\ s \in asking
  \/ p = "running" /\ running[s] # "none"

(* The Bootload of this start is on its way to the swapper task.           *)
Booting == \E c \in {"wallet", "swapper"} : Bootload \in ToSet(chan[c])

-----------------------------------------------------------------------------
(* Safety across crashes, when a start is followed by one Bootload         *)

(* A delayed swap is executed with one set of details only, whatever the   *)
(* callback server answers later: the filled swap is stored before it is   *)
(* handed to the immediate swapper (handleSwapRequest).                    *)
OneVersion ==
  \A s \in Swaps : \A e, f \in executed : e[1] = s /\ f[1] = s => e = f

(* What is being executed, or is about to be, is on disk with the same     *)
(* details, so a crash resumes it and no other.                            *)
WriteAhead ==
  \A s \in Swaps :
    /\ running[s] # "none" => pending[s] = running[s]
    /\ \A i \in DOMAIN chan["immediate"] :
         chan["immediate"][i].id = s => pending[s] = chan["immediate"][i].blob

(* A delayed swap is executed only with details that verifyDelaySwap let   *)
(* pass, also when they were stored and resumed after a crash, whatever    *)
(* else the callback server answered.                                      *)
WithinTerms ==
  \A e \in executed : e[1] \in Delayed => Fair(Terms[e[1]], Details[e[2]])

(* The pending table follows the life of a swap as a user sees it:         *)
(* accepted, filled at most once, ended for good, also where PutSwap is    *)
(* cut short between its two writes.                                       *)
Stage == [s \in Swaps |-> IF pending[s] # "none" THEN pending[s]
                          ELSE IF s \in accepted THEN "ended" ELSE "none"]
Life == INSTANCE Lifecycle WITH stage <- Stage
ImplementsLifecycle == Life!Spec

(* No swap on disk is forgotten by the running tasks (handleBootload sends *)
(* each again): until the Bootload has been handled, or the swap is in the *)
(* map of a child or in a message, nothing else may leave it pending.      *)
PendingIsAlive ==
  \A s \in Swaps : pending[s] # "none" =>
    \/ boots = 0
    \/ Booting
    \/ s \in asking \/ running[s] # "none"
    \/ \E c \in Channels \ {"wallet", "swapper"} : About(s, chan[c])

(* The inductive invariant behind these.  A swap is in one place only: ... *)
Alone ==
  \A s \in Swaps :
    /\ \A p, q \in Places : At(s, p) /\ At(s, q) => p = q
    /\ \A c \in Channels : Once(s, chan[c])

(* ... the tables say what that place makes of it, ...                     *)
Stored ==
  \A s \in Swaps :
    /\ s \in known => s \in accepted
    /\ s \in accepted => s \in posted
    /\ pending[s] # "none" => s \in accepted
    /\ \A c \in {"wallet", "swapper"} : At(s, c) => s \in posted \ accepted
    /\ \A p \in {"delayed", "asking", "delayed_out"} : At(s, p) => pending[s] = "delay"
    /\ At(s, "immediate_out") => pending[s] # "none"
    /\ \A blob \in Executable :
         <<s, blob>> \in executed => s \in accepted /\ pending[s] \in {blob, "none"}

(* ... and nothing has started before Bootload comes, ahead of all else.   *)
Idle == asking = {} /\ \A s \in Swaps : running[s] = "none"
BootloadFirst ==
  /\ boots \in {0, 1}
  /\ boots = 0 => \A c \in Channels : chan[c] = <<>>
  /\ boots = 0 \/ Booting =>
       Idle /\ \A c \in Channels \ {"wallet", "swapper", "status"} : chan[c] = <<>>
  /\ \A c \in {"wallet", "swapper"} : \A i \in DOMAIN chan[c] : chan[c][i] = Bootload => i = 1
  /\ Bootload \in ToSet(chan["wallet"]) => chan["swapper"] = <<>>

IInv == TypeOK /\ Alone /\ Stored /\ BootloadFirst /\ OneVersion /\ WriteAhead

-----------------------------------------------------------------------------
(* Receipts, without a crash                                               *)

(* No update of a receipt arrives before the receipt: handleSwapRequest of *)
(* the wallet task sends to the status task first.                         *)
UpdateFindsReceipt ==
  crashes = 0 => \A m \in Messages :
    Takes("status", m) /\ m.type = "ReceiptUpdate" => receipts[m.id] # NoReceipt

(* A final status is never overwritten by an older one.                    *)
FinalStays ==
  [][crashes = 0 => \A s \in Swaps : receipts[s].status \in Final =>
       receipts'[s].status = receipts[s].status]_vars

(* Every swap that leaves the pending table is shown as ended.             *)
EndShown ==
  \A s \in Swaps :
    (s \in accepted /\ pending[s] = "none")
      ~> (receipts[s].status \in Final \/ crashes > 0)

(* The amounts with which a swap is executed are shown.                    *)
AmountsShown ==
  \A s \in Swaps, blob \in Executable :
    <<s, blob>> \in executed ~> (receipts[s].blob = blob \/ crashes > 0)

-----------------------------------------------------------------------------
(* What the documentation promises                                         *)

(* "The updated token pair is same as the initial token pair. If all the   *)
(* checks pass, the atomic swap goes through"                              *)
(* (docs/src/source/index.html.md:217,219): no swap of another pair is     *)
(* executed.                                                               *)
PairKept ==
  \A e \in executed : e[1] \in Delayed => Details[e[2]].pair = Terms[e[1]].pair
=============================================================================
