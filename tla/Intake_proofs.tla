---------------------------- MODULE Intake_proofs ----------------------------
(***************************************************************************)
(* Proofs about Intake, for every set of requests, every assignment of     *)
(* kinds and accounts, and every capacity of the receiver's buffer.        *)
(***************************************************************************)
EXTENDS Intake, SequenceTheorems, TLAPS

USE KindAssumption, BoundsAssumption

-----------------------------------------------------------------------------
(* The messages                                                            *)

LEMMA MessageTypes ==
  /\ \A i \in Requests : Bootload(i) \in Messages
  /\ \A i \in Posts : i \in Requests /\ Request(i) \in Messages
  /\ Tick \notin Messages
  /\ \A i, j : Request(i) # Bootload(j) /\ (Request(i) = Request(j) => i = j)
BY DEF Messages, Bootload, Request, Tick, Posts

(* What is in the hands of the composer.                                   *)
LEMMA HandIsOne ==
  ASSUME TypeOK, hand # <<>>
  PROVE  /\ accepts = 0 /\ Head(hand) \in Messages \cup {Tick}
         /\ hand = <<Head(hand)>> /\ Tail(hand) = <<>>
         /\ Carried = IF Head(hand) = Tick THEN <<>> ELSE <<Head(hand)>>
<1> DEFINE S == Messages \cup {Tick}
<1>1. hand \in Seq(S) /\ accepts \in Nat /\ accepts + Len(hand) <= 1
  BY DEF TypeOK
<1> HIDE DEF S
<1>2. Len(hand) \in Nat \ {0}
  BY <1>1, EmptySeq
<1>3. Len(hand) = 1 /\ accepts = 0
  <2>1. \A n \in Nat \ {0}, a \in Nat : a + n <= 1 => n = 1 /\ a = 0
    OBVIOUS
  <2> QED BY <1>1, <1>2, <2>1
<1>4. /\ Head(hand) \in S /\ Tail(hand) \in Seq(S)
      /\ Len(Tail(hand)) = 0 /\ Head(hand) = hand[1]
  BY <1>1, <1>3, HeadTailProperties
<1>5. hand = <<Head(hand)>>
  <2>1. <<Head(hand)>> \in Seq(S)
    BY <1>4
  <2> QED BY <1>1, <1>3, <1>4, <2>1, SeqEqual
<1>6. Tail(hand) = <<>>
  BY <1>4, EmptySeq
<1>7. <<Head(hand)>> = <<Tick>> <=> Head(hand) = Tick
  OBVIOUS
<1> QED BY <1>3, <1>4, <1>5, <1>6, <1>7 DEF Carried, S

LEMMA SentType ==
  ASSUME TypeOK
  PROVE  Carried \in Seq(Messages) /\ Sent \in Seq(Messages)
<1>1. Carried \in Seq(Messages)
  <2>1. CASE hand = <<>>
    BY <2>1, EmptySeq DEF Carried
  <2>2. CASE hand # <<>> /\ Head(hand) = Tick
    BY <2>2, EmptySeq, HandIsOne
  <2>3. CASE hand # <<>> /\ Head(hand) \in Messages
    <3>1. Carried = <<Head(hand)>>
      BY <2>3, HandIsOne, MessageTypes
    <3> QED BY <2>3, <3>1
  <2> QED BY <2>1, <2>2, <2>3, HandIsOne
<1> QED BY <1>1, ConcatProperties DEF TypeOK, Sent

(* A message that is written comes behind all that were.                   *)
LEMMA WriteAppends ==
  ASSUME TypeOK, NEW m \in Messages, Written(m), UNCHANGED pump
  PROVE  Sent' = Append(Sent, m)
<1>1. /\ wallet \in Seq(Messages) /\ Carried \in Seq(Messages) /\ buf \in Seq(Messages)
      /\ <<m>> \in Seq(Messages) /\ wallet \o Carried \in Seq(Messages)
  BY SentType, ConcatProperties DEF TypeOK
<1>2. Sent' = (wallet \o Carried) \o (buf \o <<m>>)
  BY <1>1, AppendIsConcat DEF Written, pump, Sent, Carried
<1>3. (wallet \o Carried) \o (buf \o <<m>>) = ((wallet \o Carried) \o buf) \o <<m>>
  BY <1>1, ConcatAssociative
<1> QED BY <1>1, <1>2, <1>3, SentType, AppendIsConcat DEF Sent

(* The service task and the composer neither lose nor add a message.       *)
LEMMA ReceiveKeeps ==
  ASSUME TypeOK, Receive
  PROVE  Sent' = Sent /\ hand = <<>>
<1>1. hand = <<>> /\ accepts = 1
  BY EmptySeq, LenProperties DEF Receive, Receives, TypeOK
<1>2. /\ Head(buf) \in Messages /\ Tail(buf) \in Seq(Messages)
      /\ <<Head(buf)>> \in Seq(Messages)
  BY HeadTailProperties DEF Receive, TypeOK
<1>3. hand' = <<Head(buf)>>
  BY <1>1 DEF Receive, Receives
<1>4. Carried = <<>> /\ Carried' = <<Head(buf)>>
  BY <1>1, <1>2, <1>3, MessageTypes DEF Carried
<1>5. buf = <<Head(buf)>> \o Tail(buf)
  BY SubSeqRecursiveFirst, SubSeqFull, TailIsSubSeq, LenProperties, EmptySeq DEF Receive, TypeOK
<1>6. Sent' = (wallet \o <<Head(buf)>>) \o Tail(buf)
  BY <1>4 DEF Receive, Sent
<1>7. (wallet \o <<Head(buf)>>) \o Tail(buf) = wallet \o buf
  BY <1>2, <1>5, ConcatAssociative DEF TypeOK
<1>8. Sent = wallet \o buf
  BY <1>4, ConcatEmptySeq DEF Sent, TypeOK
<1> QED BY <1>1, <1>6, <1>7, <1>8

LEMMA TickKeeps ==
  ASSUME TypeOK, ReceiveTick
  PROVE  Sent' = Sent
<1>1. accepts > 0 /\ hand' = Append(hand, Tick)
  BY DEF ReceiveTick, Receives
<1>2. hand = <<>>
  BY <1>1, HandIsOne
<1>3. hand' = <<Tick>>
  BY <1>1, <1>2
<1>4. Carried = <<>> /\ Carried' = <<>>
  BY <1>2, <1>3 DEF Carried
<1> QED BY <1>4 DEF ReceiveTick, Sent

LEMMA PumpKeeps ==
  ASSUME TypeOK, Pump
  PROVE  /\ Sent' = Sent
         /\ \/ UNCHANGED wallet
            \/ /\ wallet' = Append(wallet, Head(hand))
               /\ Head(hand) \in Messages /\ Sent = wallet' \o buf
<1>1. hand' = <<>> /\ Carried' = <<>>
  BY HandIsOne DEF Pump, Carried
<1>2. CASE Head(hand) = Tick
  <2>1. Carried = <<>> /\ wallet' = wallet /\ buf' = buf
    BY <1>2, HandIsOne DEF Pump
  <2> QED BY <1>1, <2>1 DEF Sent
<1>3. CASE Head(hand) # Tick
  <2>1. Carried = <<Head(hand)>> /\ wallet' = Append(wallet, Head(hand)) /\ buf' = buf
        /\ Head(hand) \in Messages
    BY <1>3, HandIsOne DEF Pump
  <2>2. wallet' = wallet \o Carried /\ wallet' \in Seq(Messages)
    BY <2>1, AppendIsConcat, AppendProperties DEF TypeOK
  <2>3. wallet' \o <<>> = wallet'
    BY <2>2, ConcatEmptySeq
  <2> QED BY <1>1, <2>1, <2>2, <2>3 DEF Sent
<1> QED BY <1>2, <1>3

-----------------------------------------------------------------------------
(* Type correctness                                                        *)

LEMMA GoesType ==
  ASSUME TypeOK, NEW i \in Requests, NEW from, NEW to \in Places, Goes(i, from, to)
  PROVE  pc' \in [Requests -> Places]
BY DEF TypeOK, Goes

LEMMA RepliesType ==
  ASSUME TypeOK, NEW i \in Requests, NEW from, NEW what \in Answers, Replies(i, from, what)
  PROVE  pc' \in [Requests -> Places] /\ answer' \in [Requests -> Answers]
BY DEF TypeOK, Replies, Goes, Places

LEMMA WrittenType ==
  ASSUME TypeOK, NEW m \in Messages, Written(m) \/ Unwritten
  PROVE  buf' \in Seq(Messages) /\ Len(buf') <= Capacity
<1>1. buf \in Seq(Messages) /\ Len(buf) \in Nat /\ Len(buf) <= Capacity
  BY LenProperties DEF TypeOK
<1>2. CASE Written(m)
  <2>1. buf' \in Seq(Messages) /\ Len(buf') = Len(buf) + 1 /\ Len(buf) < Capacity
    BY <1>1, <1>2, AppendProperties DEF Written
  <2> QED BY <1>1, <2>1
<1>3. CASE Unwritten
  BY <1>1, <1>3 DEF Unwritten
<1> QED BY <1>2, <1>3

LEMMA HandlerType ==
  ASSUME TypeOK, KindInv, NEW i \in Requests, Arrive(i) \/ Handle(i) \/ Posted(i)
  PROVE  TypeOK'
<1>1. Work(i) \in Places /\ \A to \in {"read", "boot", "marking", "write", "build", "posting"} : to \in Places
  BY DEF Work, Places
<1>2. \A what \in {"loaded", "ok", "refused", "unbuilt"} : what \in Answers
  BY DEF Answers
<1>3. CASE Arrive(i) \/ ReadFlag(i)
  BY <1>1, <1>3, GoesType DEF Arrive, ReadFlag, TypeOK, pump
<1>4. CASE EndMark(i)
  <2>1. bootloaded' \subseteq {Password[j] : j \in Requests}
    BY <1>4 DEF EndMark, TypeOK
  <2> QED BY <1>1, <1>4, <2>1, GoesType DEF EndMark, TypeOK, pump
<1>5. CASE WriteBootload(i)
  <2>1. buf' \in Seq(Messages) /\ Len(buf') <= Capacity
    BY <1>5, WrittenType, MessageTypes DEF WriteBootload
  <2>2. pc' \in [Requests -> Places] /\ skipped' \subseteq Requests
    BY <1>1, <1>5, GoesType DEF WriteBootload, TypeOK
  <2> QED BY <1>5, <2>1, <2>2 DEF WriteBootload, TypeOK, pump
<1>6. CASE Report(i) \/ Posted(i)
  <2>1. pc' \in [Requests -> Places] /\ answer' \in [Requests -> Answers]
    BY <1>2, <1>6, RepliesType DEF Report, Posted
  <2> QED BY <1>6, <2>1 DEF Report, Posted, TypeOK, pump
<1>7. CASE Check(i) \/ Build(i)
  <2>1. pc' \in [Requests -> Places] /\ answer' \in [Requests -> Answers]
    BY <1>1, <1>2, <1>7, RepliesType, GoesType DEF Check, Build, TypeOK
  <2> QED BY <1>7, <2>1 DEF Check, Build, TypeOK, pump
<1>8. CASE WriteRequest(i)
  <2>1. i \in Posts
    BY <1>8 DEF WriteRequest, Goes, Replies, KindInv
  <2>2. buf' \in Seq(Messages) /\ Len(buf') <= Capacity
    BY <1>8, <2>1, WrittenType, MessageTypes DEF WriteRequest
  <2>3. pc' \in [Requests -> Places] /\ answer' \in [Requests -> Answers]
    BY <1>1, <1>2, <1>8, RepliesType, GoesType DEF WriteRequest, TypeOK
  <2> QED BY <1>8, <2>2, <2>3 DEF WriteRequest, TypeOK, pump
<1> QED BY <1>3, <1>4, <1>5, <1>6, <1>7, <1>8 DEF Handle

LEMMA PumpType ==
  ASSUME TypeOK, Receive \/ ReceiveTick \/ ReceiveError \/ Pump
  PROVE  TypeOK'
<1>1. CASE Receive \/ ReceiveTick
  <2>1. accepts' = 0 /\ hand = <<>>
    <3>1. accepts > 0 /\ accepts' = accepts - 1
      BY <1>1 DEF Receive, ReceiveTick, Receives
    <3>2. hand = <<>>
      BY <3>1, HandIsOne
    <3> QED BY <3>1, <3>2 DEF TypeOK
  <2>2. PICK m \in Messages \cup {Tick} : hand' = Append(hand, m)
    BY <1>1, HeadTailProperties DEF Receive, ReceiveTick, Receives, TypeOK
  <2>3. hand' \in Seq(Messages \cup {Tick}) /\ Len(hand') = 1
    BY <2>1, <2>2
  <2>4. buf' \in Seq(Messages) /\ Len(buf') <= Capacity
    <3>1. CASE Receive
      <4>1. /\ buf' \in Seq(Messages) /\ Len(buf') = Len(buf) - 1
            /\ Len(buf) \in Nat /\ Len(buf) <= Capacity
        BY <3>1, HeadTailProperties, LenProperties DEF Receive, TypeOK
      <4> QED BY <4>1
    <3>2. CASE ReceiveTick
      BY <3>2 DEF ReceiveTick, TypeOK
    <3> QED BY <1>1, <3>1, <3>2
  <2> QED BY <1>1, <2>1, <2>3, <2>4 DEF Receive, ReceiveTick, TypeOK, handlers
<1>2. CASE ReceiveError
  BY <1>2, LenProperties DEF ReceiveError, TypeOK, handlers
<1>3. CASE Pump
  <2>1. accepts' = 1 /\ hand' = <<>>
    BY <1>3, HandIsOne DEF Pump
  <2>2. wallet' \in Seq(Messages)
    BY <1>3, HandIsOne, AppendProperties DEF Pump, TypeOK
  <2> QED BY <1>3, <2>1, <2>2, EmptySeq DEF Pump, TypeOK, handlers
<1> QED BY <1>1, <1>2, <1>3

LEMMA NextType ==
  ASSUME TypeOK, KindInv, [Next]_vars
  PROVE  TypeOK'
<1>1. CASE Shutdown
  BY <1>1 DEF Shutdown, TypeOK, handlers, pump
<1>2. CASE Restart
  <2>1. starts' \in 1..MaxStarts
    BY <1>2 DEF Restart, TypeOK
  <2>2. pc' \in [Requests -> Places] /\ answer' \in [Requests -> Answers]
    BY <1>2 DEF Restart, Places, Answers
  <2>3. /\ buf' \in Seq(Messages) /\ Len(buf') <= Capacity
        /\ accepts' \in Nat /\ accepts' + Len(hand') <= 1
        /\ hand' \in Seq(Messages \cup {Tick}) /\ wallet' \in Seq(Messages)
    BY <1>2, EmptySeq DEF Restart
  <2> QED BY <1>2, <2>1, <2>2, <2>3 DEF Restart, TypeOK
<1>3. CASE UNCHANGED vars
  BY <1>3 DEF vars, handlers, pump, TypeOK
<1> QED BY <1>1, <1>2, <1>3, HandlerType, PumpType DEF Next

LEMMA KindStep ==
  ASSUME TypeOK, KindInv, [Next]_vars
  PROVE  KindInv'
<1>1. ASSUME NEW i \in Requests, Arrive(i) \/ Handle(i) \/ Posted(i)
      PROVE  KindInv'
  <2>1. /\ \A j \in Requests \ {i} : pc'[j] = pc[j]
        /\ pc'[i] \in {"read", "boot", "marking", "done", Work(i)} \/ i \in Posts
        /\ pc'[i] # "report" \/ pc'[i] = Work(i)
    BY <1>1 DEF Arrive, Handle, ReadFlag, WriteBootload, EndMark, Report, Check, WriteRequest, Build,
      Posted, Replies, Goes, TypeOK, KindInv
  <2> QED BY <2>1 DEF KindInv, Work, Posts
<1>2. CASE UNCHANGED pc
  BY <1>2 DEF KindInv
<1>3. CASE Restart
  BY <1>3 DEF Restart, KindInv
<1> QED BY <1>1, <1>2, <1>3
    DEF Next, Receive, ReceiveTick, ReceiveError, Pump, Shutdown, vars, handlers

LEMMA InitType == Init => TypeOK /\ KindInv
<1> SUFFICES ASSUME Init
             PROVE  TypeOK /\ KindInv
  OBVIOUS
<1>1. /\ pc \in [Requests -> Places] /\ answer \in [Requests -> Answers]
      /\ starts \in 1..MaxStarts
  BY DEF Init, Places, Answers
<1>2. KindInv
  BY DEF Init, KindInv
<1>3. /\ buf \in Seq(Messages) /\ Len(buf) <= Capacity
      /\ accepts \in Nat /\ accepts + Len(hand) <= 1
      /\ hand \in Seq(Messages \cup {Tick}) /\ wallet \in Seq(Messages)
  BY EmptySeq DEF Init
<1> QED BY <1>1, <1>2, <1>3 DEF Init, TypeOK

(* The type invariant; a handler never leaves the way of its kind, the     *)
(* buffer never exceeds its capacity, and the service task and the         *)
(* composer hold one AcceptRequest between them, or none after an error.   *)
THEOREM TypeCorrect == Spec => []TypeOK
<1>1. TypeOK /\ KindInv /\ [Next]_vars => (TypeOK /\ KindInv)'
  BY NextType, KindStep
<1> QED BY <1>1, InitType, PTL DEF Spec

-----------------------------------------------------------------------------
(* What was sent                                                           *)

LEMMA StillSent ==
  ASSUME UNCHANGED <<wallet, hand, buf>>
  PROVE  Sent' = Sent
BY DEF Sent, Carried

(* A message behind the others leaves theirs where they are.               *)
LEMMA AppendedLoads ==
  ASSUME Sent \in Seq(Messages), NEW m \in Messages, Sent' = Append(Sent, m)
  PROVE  /\ Len(Sent) \in Nat /\ Len(Sent') = Len(Sent) + 1
         /\ DOMAIN Sent = 1..Len(Sent) /\ DOMAIN Sent' = 1..(Len(Sent) + 1)
         /\ \A k \in 1..Len(Sent) : Sent'[k] = Sent[k]
         /\ Sent'[Len(Sent) + 1] = m
         /\ \A w : \A k \in 0..Len(Sent) : LoadedBy(w, k) => LoadedBy(w, k)'
         /\ \A w : Loaded(w) => Loaded(w)'
<1>1. /\ Len(Sent) \in Nat /\ Len(Sent') = Len(Sent) + 1
      /\ DOMAIN Sent = 1..Len(Sent) /\ DOMAIN Sent' = 1..(Len(Sent) + 1)
      /\ \A k \in 1..Len(Sent) : Sent'[k] = Sent[k]
      /\ Sent'[Len(Sent) + 1] = m
  BY AppendProperties, LenProperties
<1>2. ASSUME NEW w, NEW k \in 0..Len(Sent), LoadedBy(w, k)
      PROVE  LoadedBy(w, k)'
  <2>1. PICK b \in 1..k : Sent[b].type = "Bootload" /\ Password[Sent[b].of] = w
    BY <1>2 DEF LoadedBy
  <2>2. b \in 1..Len(Sent)
    BY <1>1
  <2> QED BY <1>1, <2>1, <2>2 DEF LoadedBy
<1>3. ASSUME NEW w, Loaded(w)
      PROVE  Loaded(w)'
  <2>1. PICK b \in 1..Len(Sent) : Sent[b].type = "Bootload" /\ Password[Sent[b].of] = w
    BY <1>3 DEF Loaded, LoadedBy
  <2>2. b \in 1..Len(Sent') /\ Sent'[b] = Sent[b]
    BY <1>1
  <2> QED BY <2>1, <2>2 DEF Loaded, LoadedBy
<1> QED BY <1>1, <1>2, <1>3

LEMMA BootloadLoads ==
  ASSUME Sent \in Seq(Messages), NEW i \in Requests, Sent' = Append(Sent, Bootload(i))
  PROVE  Loaded(Password[i])'
<1>1. /\ Len(Sent) + 1 \in 1..Len(Sent') /\ Sent'[Len(Sent) + 1] = Bootload(i)
  BY AppendedLoads, MessageTypes
<1>2. Sent'[Len(Sent) + 1].type = "Bootload" /\ Sent'[Len(Sent) + 1].of = i
  BY <1>1 DEF Bootload
<1> QED BY <1>1, <1>2 DEF Loaded, LoadedBy

LEMMA AppendedCopies ==
  ASSUME Sent \in Seq(Messages), NEW m \in Messages, Sent' = Append(Sent, m), NEW i
  PROVE  /\ m # Request(i) /\ Unsent(i) => Unsent(i)'
         /\ m # Request(i) /\ SentOnce(i) => SentOnce(i)'
         /\ m = Request(i) /\ Unsent(i) => SentOnce(i)'
<1> DEFINE n == Len(Sent)
<1>1. /\ n \in Nat
      /\ DOMAIN Sent = 1..n /\ DOMAIN Sent' = 1..(n + 1)
      /\ \A k \in 1..n : Sent'[k] = Sent[k]
      /\ Sent'[n + 1] = m
  BY AppendedLoads
<1>2. \A k \in 1..(n + 1) : k \in 1..n \/ k = n + 1
  BY <1>1
<1>3. n + 1 \in 1..(n + 1) /\ n + 1 \notin 1..n /\ \A k \in 1..n : k \in 1..(n + 1)
  BY <1>1
<1>4. Request(i)' = Request(i)
  BY DEF Request
<1>5. CopiesOf(Request(i))' = CopiesOf(Request(i)) \cup (IF m = Request(i) THEN {n + 1} ELSE {})
  <2> HIDE DEF n
  <2> QED BY <1>1, <1>2, <1>3, <1>4 DEF CopiesOf
<1>6. CASE m # Request(i)
  <2>1. CopiesOf(Request(i))' = CopiesOf(Request(i))
    BY <1>5, <1>6
  <2>2. DOMAIN Sent \subseteq DOMAIN Sent'
    BY <1>1, <1>3
  <2> QED BY <1>6, <2>1, <2>2 DEF Unsent, SentOnce
<1>7. CASE m = Request(i)
  <2>1. Unsent(i) => CopiesOf(Request(i))' = {n + 1}
    BY <1>5, <1>7 DEF Unsent
  <2> QED BY <1>1, <1>3, <1>7, <2>1 DEF SentOnce
<1> QED BY <1>6, <1>7

LEMMA SameSent ==
  ASSUME Sent' = Sent
  PROVE  /\ \A i : Unsent(i)' = Unsent(i) /\ SentOnce(i)' = SentOnce(i)
         /\ \A w, k : LoadedBy(w, k)' = LoadedBy(w, k)
         /\ \A w : Loaded(w)' = Loaded(w)
BY DEF Unsent, SentOnce, CopiesOf, Request, LoadedBy, Loaded

-----------------------------------------------------------------------------
(* The inductive invariant                                                 *)

Told == OnceInv /\ AnswerTells
Behind == FlagInv /\ BehindBootload /\ InfoTruthful

(* A step of a handler that writes nothing.                                *)
LEMMA QuietStep ==
  ASSUME IInv, NEW i \in Requests,
         Arrive(i) \/ ReadFlag(i) \/ EndMark(i) \/ Report(i) \/ Check(i) \/ Build(i) \/ Posted(i)
  PROVE  Told' /\ Behind'
<1> USE DEF IInv, TypeOK
<1>1. Sent' = Sent /\ UNCHANGED skipped
  BY StillSent DEF Arrive, ReadFlag, EndMark, Report, Check, Build, Posted, pump
<1>2. /\ \A j \in Requests \ {i} : pc'[j] = pc[j] /\ answer'[j] = answer[j]
      /\ pc'[i] = "done" \/ answer'[i] = answer[i]
  BY DEF Arrive, ReadFlag, EndMark, Report, Check, Build, Posted, Replies, Goes
<1>3. Told'
  <2>1. ASSUME i \in Posts
        PROVE  \/ pc'[i] \in {"read", "boot", "check", "write"} /\ Unsent(i)
               \/ pc'[i] = "done" /\ answer'[i] = "refused" /\ Unsent(i)
               \/ pc'[i] = "done" /\ answer'[i] # "refused" /\ SentOnce(i)
               \/ pc'[i] = "posting" /\ SentOnce(i)
    BY <2>1 DEF Arrive, ReadFlag, EndMark, Report, Check, Build, Posted, Replies, Goes, Work, Posts,
      KindInv, OnceInv
  <2> QED BY <1>1, <1>2, <2>1, SameSent DEF Told, OnceInv, AnswerTells, Posts
<1>4. \A j \in Requests : SeesFlag(j) => Loaded(Password[j])
  BY DEF SeesFlag, FlagInv
<1>5. FlagInv'
  <2>1. \A w \in bootloaded' : Loaded(w)
    BY DEF Arrive, ReadFlag, EndMark, Report, Check, Build, Posted, Goes, FlagInv
  <2>2. /\ pc'[i] # "marking"
        /\ pc'[i] \in {"check", "write"} => i \in skipped \/ Loaded(Password[i])
    BY <1>4 DEF Arrive, ReadFlag, EndMark, Report, Check, Build, Posted, Replies, Goes, Work, FlagInv
  <2> QED BY <1>1, <1>2, <2>1, <2>2, SameSent DEF FlagInv
<1>6. InfoTruthful'
  <2>1. pc'[i] = "done" /\ answer'[i] = "loaded" => Loaded(Password[i])
    BY <1>4 DEF Arrive, ReadFlag, EndMark, Report, Check, Build, Posted, Replies, Goes, Work
  <2> QED BY <1>1, <1>2, <2>1, SameSent DEF InfoTruthful
<1>7. BehindBootload'
  BY <1>1, SameSent DEF BehindBootload
<1> QED BY <1>3, <1>5, <1>6, <1>7 DEF Behind

(* The handlers stand still, and nothing is written.                       *)
LEMMA StillStep ==
  ASSUME IInv, Sent' = Sent, UNCHANGED handlers
  PROVE  Told' /\ Behind'
BY SameSent DEF IInv, Told, Behind, OnceInv, AnswerTells, FlagInv, BehindBootload, InfoTruthful,
  handlers

(* A message that is written, and the place of its handler then.           *)
LEMMA AppendStep ==
  ASSUME IInv, NEW i \in Requests, NEW m \in Messages, Sent' = Append(Sent, m),
         UNCHANGED <<bootloaded, skipped>>,
         \A j \in Requests \ {i} : pc'[j] = pc[j] /\ answer'[j] = answer[j],
         \/ m = Bootload(i) /\ pc[i] = "boot" /\ pc'[i] = "marking"
         \/ /\ m = Request(i) /\ i \in Posts /\ pc[i] = "write"
            /\ pc'[i] = "build" \/ (pc'[i] = "done" /\ answer'[i] = "ok")
  PROVE  Told' /\ Behind'
<1> USE DEF IInv
<1>1. Sent \in Seq(Messages)
  BY SentType
<1>2. Told'
  <2>1. ASSUME NEW j \in Posts \ {i}
        PROVE  /\ Unsent(j) => Unsent(j)'
               /\ SentOnce(j) => SentOnce(j)'
    <3>1. m # Request(j)
      BY MessageTypes
    <3> QED BY <1>1, <3>1, AppendedCopies
  <2>2. CASE m = Bootload(i)
    <3>1. m # Request(i) /\ pc[i] = "boot" /\ pc'[i] = "marking"
      BY <2>2, MessageTypes
    <3>2. i \in Posts => Unsent(i)
      BY <3>1 DEF OnceInv
    <3>3. i \in Posts => Unsent(i)'
      BY <1>1, <3>1, <3>2, AppendedCopies
    <3> QED BY <2>1, <3>1, <3>3, MessageTypes DEF Told, OnceInv, AnswerTells
  <2>3. CASE m = Request(i)
    <3>1. SentOnce(i)'
      BY <1>1, <2>3, AppendedCopies, MessageTypes DEF OnceInv
    <3> QED BY <2>1, <2>3, <3>1, MessageTypes DEF Told, OnceInv, AnswerTells
  <2> QED BY <2>2, <2>3
<1>3. FlagInv' /\ InfoTruthful'
  <2>1. \A w : Loaded(w) => Loaded(w)'
    BY <1>1, AppendedLoads
  <2>2. m = Bootload(i) => Loaded(Password[i])'
    BY <1>1, BootloadLoads
  <2> QED BY <2>1, <2>2, MessageTypes DEF FlagInv, InfoTruthful
<1>4. BehindBootload'
  <2> DEFINE n == Len(Sent)
  <2>1. /\ n \in Nat /\ DOMAIN Sent = 1..n /\ DOMAIN Sent' = 1..(n + 1)
        /\ \A k \in 1..n : Sent'[k] = Sent[k]
        /\ Sent'[n + 1] = m
    BY <1>1, AppendedLoads
  <2>2. \A w : \A k \in 0..n : LoadedBy(w, k) => LoadedBy(w, k)'
    BY <1>1, AppendedLoads
  <2> SUFFICES ASSUME NEW k \in 1..(n + 1), Sent'[k].type = "Request"
               PROVE  (Sent[k].of \in skipped \/ LoadedBy(Password[Sent[k].of], k - 1))'
    BY <2>1 DEF BehindBootload
  <2>3. CASE k \in 1..n
    <3>1. k - 1 \in 0..n /\ Sent'[k] = Sent[k] /\ k \in DOMAIN Sent
      BY <2>1, <2>3
    <3>2. Sent[k].of \in skipped \/ LoadedBy(Password[Sent[k].of], k - 1)
      BY <3>1 DEF BehindBootload
    <3> QED BY <2>2, <3>1, <3>2 DEF LoadedBy
  <2>4. CASE k = n + 1
    <3>1. m = Request(i) /\ Sent'[k].of = i /\ k - 1 = n /\ n \in 0..n
      BY <2>1, <2>4 DEF Bootload, Request
    <3>2. i \in skipped \/ LoadedBy(Password[i], n)
      BY <3>1, MessageTypes DEF FlagInv, Loaded
    <3> QED BY <2>2, <3>1, <3>2 DEF LoadedBy
  <2> QED BY <2>1, <2>3, <2>4
<1> QED BY <1>2, <1>3, <1>4 DEF Behind

(* A handler whose message could not be written.                           *)
LEMMA RefusedStep ==
  ASSUME IInv, NEW i \in Requests, Unwritten, UNCHANGED <<pump, bootloaded>>,
         \A j \in Requests \ {i} : pc'[j] = pc[j] /\ answer'[j] = answer[j],
         \/ /\ pc[i] = "boot" /\ pc'[i] = Work(i) /\ answer'[i] = answer[i]
            /\ skipped' = skipped \cup {i}
         \/ /\ i \in Posts /\ pc[i] = "write" /\ pc'[i] = "done" /\ answer'[i] = "refused"
            /\ skipped' = skipped
  PROVE  Told' /\ Behind'
<1> USE DEF IInv
<1>1. Sent' = Sent
  BY StillSent DEF Unwritten, pump
<1>2. Told'
  BY <1>1, SameSent DEF Told, OnceInv, AnswerTells, Work, Posts
<1>3. FlagInv' /\ InfoTruthful'
  BY <1>1, SameSent DEF FlagInv, InfoTruthful, Work
<1>4. BehindBootload'
  BY <1>1, SameSent DEF BehindBootload
<1> QED BY <1>2, <1>3, <1>4 DEF Behind

LEMMA HandlerStep ==
  ASSUME IInv, NEW i \in Requests, Arrive(i) \/ Handle(i) \/ Posted(i)
  PROVE  Told' /\ Behind'
<1> USE DEF IInv, TypeOK
<1>1. CASE WriteBootload(i)
  <2>1. /\ \A j \in Requests \ {i} : pc'[j] = pc[j] /\ answer'[j] = answer[j]
        /\ answer'[i] = answer[i] /\ pc[i] = "boot" /\ UNCHANGED <<bootloaded, pump>>
    BY <1>1 DEF WriteBootload, Goes
  <2>2. CASE Written(Bootload(i)) /\ Goes(i, "boot", "marking") /\ UNCHANGED skipped
    <3>1. Sent' = Append(Sent, Bootload(i)) /\ pc'[i] = "marking"
      BY <2>1, <2>2, WriteAppends, MessageTypes DEF Goes
    <3> QED BY <2>1, <2>2, <3>1, AppendStep, MessageTypes
  <2>3. CASE Unwritten /\ Goes(i, "boot", Work(i)) /\ skipped' = skipped \cup {i}
    <3>1. pc'[i] = Work(i)
      BY <2>3 DEF Goes
    <3> QED BY <2>1, <2>3, <3>1, RefusedStep
  <2> QED BY <1>1, <2>2, <2>3 DEF WriteBootload
<1>2. CASE WriteRequest(i)
  <2>1. /\ \A j \in Requests \ {i} : pc'[j] = pc[j] /\ answer'[j] = answer[j]
        /\ pc[i] = "write" /\ UNCHANGED <<bootloaded, skipped, pump>>
    BY <1>2 DEF WriteRequest, Replies, Goes
  <2>2. i \in Posts
    BY <2>1 DEF KindInv
  <2>3. CASE Written(Request(i))
             /\ (\/ Goes(i, "write", "build") /\ UNCHANGED answer
                 \/ Replies(i, "write", "ok"))
    <3>1. /\ Sent' = Append(Sent, Request(i))
          /\ pc'[i] = "build" \/ (pc'[i] = "done" /\ answer'[i] = "ok")
      BY <2>1, <2>2, <2>3, WriteAppends, MessageTypes DEF Replies, Goes
    <3> QED BY <2>1, <2>2, <3>1, AppendStep, MessageTypes
  <2>4. CASE Unwritten /\ Replies(i, "write", "refused")
    <3>1. pc'[i] = "done" /\ answer'[i] = "refused"
      BY <2>4 DEF Replies, Goes
    <3> QED BY <2>1, <2>2, <2>4, <3>1, RefusedStep
  <2> QED BY <1>2, <2>3, <2>4 DEF WriteRequest
<1> QED BY <1>1, <1>2, QuietStep DEF Handle

LEMMA NextInv ==
  ASSUME IInv, [Next]_vars
  PROVE  IInv'
<1>1. TypeOK' /\ KindInv'
  BY NextType, KindStep DEF IInv
<1> SUFFICES Told' /\ Behind'
  BY <1>1 DEF IInv, Told, Behind
<1>2. CASE \E i \in Requests : Arrive(i) \/ Handle(i) \/ Posted(i)
  BY <1>2, HandlerStep
<1>3. CASE Receive \/ ReceiveTick \/ ReceiveError \/ Pump
  <2>1. Sent' = Sent
    <3>1. CASE Receive
      BY <3>1, ReceiveKeeps DEF IInv
    <3>2. CASE Pump
      BY <3>2, PumpKeeps DEF IInv
    <3>3. CASE ReceiveTick
      BY <3>3, TickKeeps DEF IInv
    <3>4. CASE ReceiveError
      BY <3>4, StillSent DEF ReceiveError
    <3> QED BY <1>3, <3>1, <3>2, <3>3, <3>4
  <2>2. UNCHANGED handlers
    BY <1>3 DEF Receive, ReceiveTick, ReceiveError, Pump
  <2> QED BY <2>1, <2>2, StillStep
<1>4. CASE Shutdown \/ UNCHANGED vars
  <2>1. Sent' = Sent /\ UNCHANGED handlers
    BY <1>4, StillSent DEF Shutdown, vars, pump
  <2> QED BY <2>1, StillStep
<1>5. CASE Restart
  <2>1. /\ wallet' = <<>> /\ hand' = <<>> /\ buf' = <<>>
        /\ bootloaded' = {} /\ \A i \in Requests : pc'[i] \in {"idle", "gone"}
    BY <1>5 DEF Restart
  <2>2. Sent' = <<>>
    <3>1. (<<>> \o <<>>) \o <<>> = <<>>
      BY EmptySeq, ConcatEmptySeq
    <3>2. hand' # <<Tick>>
      BY <2>1
    <3> QED BY <2>1, <3>1, <3>2 DEF Sent, Carried
  <2>3. DOMAIN Sent' = {}
    BY <2>2
  <2> QED BY <2>1, <2>3 DEF Told, OnceInv, AnswerTells, Unsent, CopiesOf, Posts,
      Behind, FlagInv, BehindBootload, InfoTruthful
<1> QED BY <1>2, <1>3, <1>4, <1>5 DEF Next

LEMMA InitInv == Init => IInv
<1> SUFFICES ASSUME Init
             PROVE  Told /\ Behind
  BY InitType DEF IInv, Told, Behind
<1>1. Sent = <<>>
  <2>1. (<<>> \o <<>>) \o <<>> = <<>>
    BY EmptySeq, ConcatEmptySeq
  <2> QED BY <2>1 DEF Init, Sent, Carried
<1>2. DOMAIN Sent = {}
  BY <1>1
<1> QED BY <1>2 DEF Init, Told, OnceInv, AnswerTells, Unsent, CopiesOf, Posts,
      Behind, FlagInv, BehindBootload, InfoTruthful

(* What the place of a handler says about the messages of its request and  *)
(* of its account, in every reachable state.                               *)
THEOREM Inductive == Spec => []IInv
BY InitInv, NextInv, PTL DEF Spec

(* A POST that was acknowledged was written exactly once, one that was     *)
(* refused was not written, whatever the buffer and a shutdown do.         *)
THEOREM AnswersTell == Spec => []AnswerTells
<1>1. IInv => AnswerTells
  BY DEF IInv
<1> QED BY <1>1, Inductive, PTL

(* No request overtakes the Bootload of its account, however many first    *)
(* requests race on the unlocked flag, but for one whose own Bootload      *)
(* could not be written.                                                   *)
THEOREM NothingBeforeBootload == Spec => []BehindBootload
<1>1. IInv => BehindBootload
  BY DEF IInv
<1> QED BY <1>1, Inductive, PTL

(* GET /info never says bootloaded before the Bootload was written.        *)
THEOREM InfoIsTrue == Spec => []InfoTruthful
<1>1. IInv => InfoTruthful
  BY DEF IInv
<1> QED BY <1>1, Inductive, PTL

-----------------------------------------------------------------------------
(* The intake implements the mailbox                                       *)

LEMMA PumpTakes ==
  ASSUME TypeOK, Pump, wallet' # wallet
  PROVE  Box!Take
<1>1. /\ Sent' = Sent /\ Sent = wallet' \o buf
      /\ wallet' = Append(wallet, Head(hand)) /\ Head(hand) \in Messages
  BY PumpKeeps
<1>2. /\ wallet \in Seq(Messages) /\ buf \in Seq(Messages) /\ wallet' \in Seq(Messages)
      /\ Len(wallet) \in Nat /\ Len(buf) \in Nat /\ Len(wallet') = Len(wallet) + 1
  BY <1>1, AppendProperties, LenProperties DEF TypeOK
<1>3. /\ Len(Sent) = Len(wallet') + Len(buf)
      /\ \A k \in 1..Len(wallet') : Sent[k] = wallet'[k]
  BY <1>1, <1>2, ConcatProperties
<1> DEFINE n == Len(wallet')
<1>4. n \in Nat /\ \A k \in 1..n : Sent[k] \in Messages
  BY <1>2, <1>3, ElementOfSeq
<1>5. /\ SubSeq(Sent, 1, n) \in Seq(Messages) /\ Len(SubSeq(Sent, 1, n)) = n
      /\ \A k \in 1..n : SubSeq(Sent, 1, n)[k] = Sent[k]
  <2> HIDE DEF n
  <2>1. /\ SubSeq(Sent, 1, n) \in Seq(Messages)
        /\ Len(SubSeq(Sent, 1, n)) = IF 1 <= n THEN n - 1 + 1 ELSE 0
        /\ \A k \in 1..(n - 1 + 1) : SubSeq(Sent, 1, n)[k] = Sent[1 + k - 1]
    BY <1>4, SubSeqProperties
  <2> QED BY <1>4, <2>1
<1>6. wallet' = SubSeq(Sent, 1, n)
  BY <1>2, <1>3, <1>5, SeqEqual
<1> QED BY <1>1, <1>2, <1>3, <1>6 DEF Box!Take

LEMMA StepRefines ==
  ASSUME IInv, [Next]_vars
  PROVE  [Box!Next]_<<Sent, wallet>>
<1> USE DEF IInv
<1>1. ASSUME NEW m \in Messages, Written(m), UNCHANGED pump
      PROVE  [Box!Next]_<<Sent, wallet>>
  <2>1. Box!Put(m)
    BY <1>1, WriteAppends DEF Box!Put, pump
  <2> QED BY <2>1 DEF Box!Next
<1>2. ASSUME UNCHANGED <<wallet, hand, buf>>
      PROVE  [Box!Next]_<<Sent, wallet>>
  BY <1>2, StillSent
<1>3. ASSUME NEW i \in Requests, Arrive(i) \/ Handle(i) \/ Posted(i)
      PROVE  [Box!Next]_<<Sent, wallet>>
  <2>1. CASE WriteBootload(i)
    BY <1>1, <1>2, <2>1, MessageTypes DEF WriteBootload, Unwritten, pump
  <2>2. CASE WriteRequest(i)
    <3>1. i \in Posts
      BY <2>2 DEF WriteRequest, Goes, Replies, KindInv
    <3> QED BY <1>1, <1>2, <2>2, <3>1, MessageTypes DEF WriteRequest, Unwritten, pump
  <2>3. CASE Arrive(i) \/ ReadFlag(i) \/ EndMark(i) \/ Report(i) \/ Check(i) \/ Build(i) \/ Posted(i)
    BY <1>2, <2>3 DEF Arrive, ReadFlag, EndMark, Report, Check, Build, Posted, pump
  <2> QED BY <1>3, <2>1, <2>2, <2>3 DEF Handle
<1>4. CASE Receive
  BY <1>4, ReceiveKeeps DEF Receive
<1>5. CASE ReceiveTick
  BY <1>5, TickKeeps DEF ReceiveTick
<1>6. CASE Pump
  <2>1. CASE wallet' = wallet
    BY <1>6, <2>1, PumpKeeps
  <2>2. CASE wallet' # wallet
    BY <1>6, <2>2, PumpTakes DEF Box!Next
  <2> QED BY <2>1, <2>2
<1>7. CASE ReceiveError \/ Shutdown \/ UNCHANGED vars
  BY <1>2, <1>7 DEF ReceiveError, Shutdown, vars, pump
<1>8. CASE Restart
  <2>1. Sent' = <<>>
    <3>1. (<<>> \o <<>>) \o <<>> = <<>>
      BY EmptySeq, ConcatEmptySeq
    <3> QED BY <1>8, <3>1 DEF Restart, Sent, Carried
  <2>2. Box!Restart
    BY <1>8, <2>1 DEF Restart, Box!Restart
  <2> QED BY <2>2 DEF Box!Next
<1> QED BY <1>3, <1>4, <1>5, <1>6, <1>7, <1>8 DEF Next

(* Buffer, service task and composer deliver every message once and in     *)
(* order, whatever ticks, errors and shutdowns come in between.            *)
THEOREM Refinement == Spec => ImplementsMailbox
<1>1. Init => Box!Init
  <2>1. (<<>> \o <<>>) \o <<>> = <<>>
    BY EmptySeq, ConcatEmptySeq
  <2> QED BY <2>1 DEF Init, Box!Init, Sent, Carried
<1> QED BY <1>1, StepRefines, Inductive, PTL DEF Spec, ImplementsMailbox, Box!Spec
=============================================================================
