--------------------------- MODULE Daemon_proofs ----------------------------
(***************************************************************************)
(* Proofs about Daemon, for every finite set of swaps, every set of fills  *)
(* and faults and any number of crashes.                                   *)
(***************************************************************************)
EXTENDS Daemon, FlattenTheorems, Callback_proofs

USE SwapsAssumption, BoundsAssumption

-----------------------------------------------------------------------------
(* Blobs and messages                                                      *)

LEMMA BlobsApart ==
  ASSUME NEW s \in Swaps
  PROVE  /\ Versions(s) \subseteq Executable
         /\ "none" \notin Blobs /\ "delay" \notin Executable
         /\ "same" \notin Blobs /\ "posted" \notin Fills
         /\ Posted(s) \in Blobs
         /\ s \notin Delayed => Posted(s) \in Versions(s)
         /\ s \in Delayed => Posted(s) = "delay" /\ Versions(s) \subseteq Fills
BY FillsAssumption DEF Versions, Executable, Blobs, Posted

LEMMA Carried ==
  /\ Carries("wallet") = {Bootload} \cup {Request(s, Posted(s)) : s \in Swaps}
  /\ Carries("swapper") = {Bootload} \cup {Request(s, Posted(s)) : s \in Swaps}
  /\ Carries("immediate") = UNION {{Request(s, blob) : blob \in Versions(s)} : s \in Swaps}
  /\ Carries("delayed") = {Request(s, "delay") : s \in Delayed}
  /\ Carries("immediate_out") = Updates \cup Deletes
  /\ Carries("delayed_out") = Updates \cup Deletes
                                \cup {m \in Fillings : m.blob \in Versions(m.id)}
  /\ Carries("swapper_out") = Updates
  /\ Carries("status") = Updates \cup {m \in Messages : m.type = "Receipt"}
BY DEF Carries

LEMMA CarriesMessages ==
  ASSUME NEW c \in Channels
  PROVE  Carries(c) \subseteq Messages
<1>1. Updates \subseteq Messages /\ Deletes \subseteq Messages
  BY DEF Updates, Deletes, Messages
<1>2. Fillings \subseteq Messages
  <2>1. ASSUME NEW m \in Fillings PROVE m \in Messages
    <3>1. PICK s \in Delayed, f \in Fills : m = Request(s, f)
      BY DEF Fillings
    <3>2. s \in Swaps /\ f \in Blobs
      BY DEF Blobs, Executable
    <3> QED BY <3>1, <3>2 DEF Messages
  <2> QED BY <2>1
<1>3. {Bootload} \cup {Request(s, Posted(s)) : s \in Swaps} \subseteq Messages
  BY BlobsApart DEF Messages
<1>4. {Request(s, "delay") : s \in Delayed} \subseteq Messages
  BY DEF Messages, Blobs
<1>5. UNION {{Request(s, blob) : blob \in Versions(s)} : s \in Swaps} \subseteq Messages
  BY BlobsApart DEF Messages, Blobs
<1> QED BY <1>1, <1>2, <1>3, <1>4, <1>5, Carried DEF Channels

LEMMA UpdateIsUpdate ==
  ASSUME NEW s \in Swaps, NEW status \in Statuses \cup {"same"}, NEW blob \in Fills \cup {"same"}
  PROVE  Update(s, status, blob) \in Updates
<1>1. Update(s, status, blob) \in Messages
  BY DEF Messages
<1> QED BY <1>1 DEF Updates, Update

(* What is in a message of each type.                                      *)
LEMMA UpdateFields ==
  ASSUME NEW m \in Updates
  PROVE  /\ m.type = "ReceiptUpdate" /\ m.id \in Swaps
         /\ m.status \in Statuses \cup {"same"} /\ m.blob \in Fills \cup {"same"}
BY DEF Updates, Messages, Update, Bootload, Request, Receipt, DeleteSwap

LEMMA ReceiptFields ==
  ASSUME NEW m \in Messages, m.type = "Receipt"
  PROVE  m.id \in Swaps /\ m.blob \in Blobs
BY DEF Messages, Update, Bootload, Request, Receipt, DeleteSwap

-----------------------------------------------------------------------------
(* Channels                                                                *)

LEMMA SmallSeqs ==
  ASSUME NEW S
  PROVE  /\ <<>> \in Seq(S) /\ DOMAIN <<>> = {}
         /\ \A m \in S : <<m>> \in Seq(S) /\ Len(<<m>>) = 1 /\ DOMAIN <<m>> = {1}
         /\ \A m, n \in S : <<m, n>> \in Seq(S) /\ Len(<<m, n>>) = 2 /\ DOMAIN <<m, n>> = {1, 2}
<1>1. <<>> \in Seq(S) /\ DOMAIN <<>> = {}
  BY EmptySeq, LenProperties
<1> QED BY <1>1

(* The first message of a channel, and what is left of it.                 *)
LEMMA FirstMessage ==
  ASSUME TypeOK, NEW c \in Channels, chan[c] # <<>>
  PROVE  Head(chan[c]) \in Carries(c) /\ Tail(chan[c]) \in Seq(Carries(c))
<1> DEFINE S == Carries(c)
<1>1. chan[c] \in Seq(S)
  BY DEF TypeOK
<1> HIDE DEF S
<1>2. Head(chan[c]) \in S /\ Tail(chan[c]) \in Seq(S)
  BY <1>1, HeadTailProperties
<1> QED BY <1>2 DEF S

(* Done takes one message from c and appends what goes out.                *)
LEMMA DoneChannels ==
  ASSUME TypeOK, NEW c, NEW out, NEW new,
         DOMAIN new = Channels,
         \A d \in Channels :
           new[d] = (IF d = c THEN Tail(chan[d]) ELSE chan[d])
                      \o (IF d \in DOMAIN out THEN out[d] ELSE <<>>),
         c \in Channels => chan[c] # <<>>,
         c \notin DOMAIN out,
         \A d \in Channels \cap DOMAIN out : out[d] \in Seq(Carries(d))
  PROVE  /\ DOMAIN new = Channels
         /\ \A d \in Channels :
              /\ new[d] \in Seq(Carries(d))
              /\ d = c => new[d] = Tail(chan[d])
              /\ d # c /\ d \notin DOMAIN out => new[d] = chan[d]
              /\ d # c /\ d \in DOMAIN out => new[d] = chan[d] \o out[d]
<1>1. DOMAIN new = Channels
  OBVIOUS
<1>2. ASSUME NEW d \in Channels
      PROVE  /\ new[d] \in Seq(Carries(d))
             /\ d = c => new[d] = Tail(chan[d])
             /\ d # c /\ d \notin DOMAIN out => new[d] = chan[d]
             /\ d # c /\ d \in DOMAIN out => new[d] = chan[d] \o out[d]
  <2> DEFINE S == Carries(d)
             rest == IF d = c THEN Tail(chan[d]) ELSE chan[d]
             more == IF d \in DOMAIN out THEN out[d] ELSE <<>>
  <2>1. new[d] = rest \o more
    OBVIOUS
  <2>2. rest \in Seq(S)
    BY FirstMessage DEF TypeOK
  <2>3. more \in Seq(S)
    BY EmptySeq
  <2>4. d \notin DOMAIN out => more = <<>>
    OBVIOUS
  <2>5. d \in DOMAIN out => more = out[d]
    OBVIOUS
  <2>6. d = c => rest = Tail(chan[d])
    OBVIOUS
  <2>7. d # c => rest = chan[d]
    OBVIOUS
  <2> HIDE DEF S, rest, more
  <2>8. rest \o more \in Seq(S) /\ rest \o <<>> = rest
    BY <2>2, <2>3, ConcatProperties, ConcatEmptySeq
  <2>9. rest \o more \in Seq(Carries(d))
    BY <2>8 DEF S
  <2> QED BY <2>1, <2>4, <2>5, <2>6, <2>7, <2>8, <2>9
<1> QED BY <1>1, <1>2
-----------------------------------------------------------------------------
(* Which messages are about a swap                                         *)

LEMMA Abouts ==
  ASSUME NEW s
  PROVE  /\ ~IsAbout(Bootload, s)
         /\ \A t, blob : IsAbout(Request(t, blob), s) <=> t = s
         /\ \A t : IsAbout(DeleteSwap(t), s) <=> t = s
         /\ \A t, status, blob : ~IsAbout(Update(t, status, blob), s)
         /\ \A t, blob : ~IsAbout(Receipt(t, blob), s)
         /\ \A m \in Updates : ~IsAbout(m, s)
BY DEF IsAbout, Bootload, Request, DeleteSwap, Update, Receipt, Updates

LEMMA AboutSmall ==
  ASSUME NEW s, NEW q
  PROVE  /\ DOMAIN q = {} => ~About(s, q) /\ Once(s, q)
         /\ DOMAIN q = {1} => (About(s, q) <=> IsAbout(q[1], s)) /\ Once(s, q)
         /\ DOMAIN q = {1, 2} =>
              /\ About(s, q) <=> IsAbout(q[1], s) \/ IsAbout(q[2], s)
              /\ ~(IsAbout(q[1], s) /\ IsAbout(q[2], s)) => Once(s, q)
BY DEF About, Once

LEMMA AboutConcat ==
  ASSUME NEW S, NEW q \in Seq(S), NEW r \in Seq(S), NEW s
  PROVE  /\ About(s, q \o r) <=> About(s, q) \/ About(s, r)
         /\ Once(s, q) /\ Once(s, r) /\ ~(About(s, q) /\ About(s, r)) => Once(s, q \o r)
<1>1. /\ DOMAIN q = 1..Len(q) /\ DOMAIN r = 1..Len(r) /\ Len(q) \in Nat /\ Len(r) \in Nat
      /\ DOMAIN (q \o r) = 1..(Len(q) + Len(r))
      /\ \A i \in 1..(Len(q) + Len(r)) :
           (q \o r)[i] = IF i <= Len(q) THEN q[i] ELSE r[i - Len(q)]
  BY LenProperties, ConcatProperties
<1> DEFINE t == q \o r
<1>2. \A i \in 1..Len(q) : i \in DOMAIN t /\ t[i] = q[i]
  BY <1>1
<1>3. \A i \in 1..Len(r) : Len(q) + i \in DOMAIN t /\ t[Len(q) + i] = r[i]
  BY <1>1
<1>4. \A i \in DOMAIN t : i \in 1..Len(q) \/ (i - Len(q) \in 1..Len(r) /\ t[i] = r[i - Len(q)])
  BY <1>1
<1>5. DOMAIN t \subseteq Nat
  BY <1>1
<1> HIDE DEF t
<1>6. About(s, t) <=> About(s, q) \/ About(s, r)
  <2>1. About(s, q) => About(s, t)
    BY <1>1, <1>2 DEF About
  <2>2. About(s, r) => About(s, t)
    BY <1>1, <1>3 DEF About
  <2>3. About(s, t) => About(s, q) \/ About(s, r)
    BY <1>1, <1>2, <1>4 DEF About
  <2> QED BY <2>1, <2>2, <2>3
<1>7. ASSUME Once(s, q), Once(s, r), ~(About(s, q) /\ About(s, r))
      PROVE  Once(s, t)
  <2> SUFFICES ASSUME NEW i \in DOMAIN t, NEW j \in DOMAIN t, IsAbout(t[i], s), IsAbout(t[j], s)
               PROVE  i = j
    BY DEF Once
  <2>1. CASE i \in 1..Len(q) /\ j \in 1..Len(q)
    BY <1>1, <1>2, <1>7, <2>1 DEF Once
  <2>2. CASE i \notin 1..Len(q) /\ j \notin 1..Len(q)
    <3>1. i - Len(q) = j - Len(q)
      BY <1>1, <1>4, <1>7, <2>2 DEF Once
    <3> QED BY <1>1, <1>5, <3>1
  <2>3. CASE i \in 1..Len(q) /\ j \notin 1..Len(q)
    BY <1>1, <1>2, <1>4, <1>7, <2>3 DEF About
  <2>4. CASE i \notin 1..Len(q) /\ j \in 1..Len(q)
    BY <1>1, <1>2, <1>4, <1>7, <2>4 DEF About
  <2> QED BY <2>1, <2>2, <2>3, <2>4
<1> QED BY <1>6, <1>7 DEF t

LEMMA AboutTail ==
  ASSUME NEW S, NEW q \in Seq(S), q # <<>>, NEW s
  PROVE  /\ About(s, Tail(q)) => About(s, q)
         /\ IsAbout(Head(q), s) => About(s, q)
         /\ ~IsAbout(Head(q), s) => (About(s, Tail(q)) <=> About(s, q))
         /\ Once(s, q) => Once(s, Tail(q))
         /\ Once(s, q) /\ IsAbout(Head(q), s) => ~About(s, Tail(q))
<1> DEFINE t == Tail(q)
<1>1. /\ DOMAIN q = 1..Len(q) /\ Len(q) \in Nat \ {0} /\ DOMAIN t = 1..(Len(q) - 1)
      /\ \A i \in 1..(Len(q) - 1) : t[i] = q[i + 1]
      /\ Head(q) = q[1]
  BY LenProperties, EmptySeq, HeadTailProperties
<1>2. \A i \in DOMAIN t : i + 1 \in DOMAIN q /\ t[i] = q[i + 1] /\ i + 1 # 1
  BY <1>1
<1>3. \A i \in DOMAIN q : i = 1 \/ (i - 1 \in DOMAIN t /\ q[i] = t[i - 1])
  BY <1>1
<1>4. 1 \in DOMAIN q /\ DOMAIN q \subseteq Nat /\ DOMAIN t \subseteq Nat
  BY <1>1
<1>5. Head(q) = q[1]
  BY <1>1
<1> HIDE DEF t
<1>6. About(s, t) => About(s, q)
  BY <1>2 DEF About
<1>7. IsAbout(Head(q), s) => About(s, q)
  BY <1>4, <1>5 DEF About
<1>8. ~IsAbout(Head(q), s) /\ About(s, q) => About(s, t)
  BY <1>3, <1>5 DEF About
<1>9. Once(s, q) => Once(s, t)
  <2> SUFFICES ASSUME Once(s, q), NEW i \in DOMAIN t, NEW j \in DOMAIN t,
                      IsAbout(t[i], s), IsAbout(t[j], s)
               PROVE  i = j
    BY DEF Once
  <2>1. i + 1 = j + 1
    BY <1>2 DEF Once
  <2> QED BY <1>4, <2>1
<1>10. Once(s, q) /\ IsAbout(Head(q), s) => ~About(s, t)
  BY <1>2, <1>4, <1>5 DEF Once, About
<1> QED BY <1>6, <1>7, <1>8, <1>9, <1>10 DEF t

(* A concatenation of parts of which one at most is about s, and once.     *)
LEMMA AboutFlatten ==
  ASSUME NEW S, NEW seqs \in Seq(Seq(S)), NEW s
  PROVE  /\ About(s, FlattenSeq(seqs)) <=> \E i \in 1..Len(seqs) : About(s, seqs[i])
         /\ (/\ \A i \in 1..Len(seqs) : Once(s, seqs[i])
             /\ \A i, j \in 1..Len(seqs) : About(s, seqs[i]) /\ About(s, seqs[j]) => i = j)
            => Once(s, FlattenSeq(seqs))
<1> DEFINE flat == FlattenSeq(seqs)
<1>1. flat \in Seq(S) /\ \E at : Spots(at, flat, seqs, Len(seqs))
  BY FlattenProperties
<1>2. PICK at : Spots(at, flat, seqs, Len(seqs))
  BY <1>1
<1>3. /\ DOMAIN flat = 1..Len(flat) /\ DOMAIN flat \subseteq Nat
      /\ \A i \in 1..Len(seqs) : DOMAIN seqs[i] = 1..Len(seqs[i])
  BY <1>1, LenProperties, ElementOfSeq
<1> HIDE DEF flat
<1>4. ASSUME NEW k \in DOMAIN flat
      PROVE  /\ at[k][1] \in 1..Len(seqs) /\ at[k][2] \in DOMAIN seqs[at[k][1]]
             /\ flat[k] = seqs[at[k][1]][at[k][2]]
  BY <1>2, <1>3 DEF Spots
<1>5. ASSUME NEW i \in 1..Len(seqs), About(s, seqs[i])
      PROVE  About(s, flat)
  <2>1. PICK j \in 1..Len(seqs[i]) : IsAbout(seqs[i][j], s)
    BY <1>3, <1>5 DEF About
  <2>2. PICK k \in 1..Len(flat) : at[k] = <<i, j>>
    BY <1>2, <2>1 DEF Spots
  <2>3. flat[k] = seqs[i][j]
    <3>1. k \in DOMAIN flat /\ at[k][1] = i /\ at[k][2] = j
      BY <1>3, <2>2
    <3> QED BY <1>4, <3>1
  <2> QED BY <1>3, <2>1, <2>2, <2>3 DEF About
<1>6. ASSUME About(s, flat)
      PROVE  \E i \in 1..Len(seqs) : About(s, seqs[i])
  BY <1>4, <1>6 DEF About
<1>7. ASSUME \A i \in 1..Len(seqs) : Once(s, seqs[i]),
             \A i, j \in 1..Len(seqs) : About(s, seqs[i]) /\ About(s, seqs[j]) => i = j
      PROVE  Once(s, flat)
  <2> SUFFICES ASSUME NEW k \in DOMAIN flat, NEW m \in DOMAIN flat,
                      IsAbout(flat[k], s), IsAbout(flat[m], s), k < m
               PROVE  FALSE
    BY <1>3 DEF Once
  <2>1. About(s, seqs[at[k][1]]) /\ About(s, seqs[at[m][1]])
    BY <1>4 DEF About
  <2>2. at[k][1] = at[m][1]
    BY <1>4, <1>7, <2>1
  <2>3. Once(s, seqs[at[k][1]])
    BY <1>4, <1>7
  <2>4. at[k][2] = at[m][2]
    BY <1>4, <2>2, <2>3 DEF Once
  <2>5. Before(at[k], at[m])
    BY <1>2, <1>3 DEF Spots
  <2>6. at[k][1] \in Nat /\ at[k][2] \in Nat
    BY <1>2, <1>3 DEF Spots
  <2> QED BY <2>2, <2>4, <2>5, <2>6 DEF Before
<1> QED BY <1>5, <1>6, <1>7 DEF flat

(* What is in a concatenation is in one of the parts.                      *)
LEMMA FlattenMembers ==
  ASSUME NEW S, NEW seqs \in Seq(Seq(S)), NEW m \in ToSet(FlattenSeq(seqs))
  PROVE  \E i \in 1..Len(seqs) : m \in ToSet(seqs[i])
<1> DEFINE flat == FlattenSeq(seqs)
<1>1. flat \in Seq(S) /\ \E at : Spots(at, flat, seqs, Len(seqs))
  BY FlattenProperties
<1>2. PICK at : Spots(at, flat, seqs, Len(seqs))
  BY <1>1
<1>3. /\ DOMAIN flat = 1..Len(flat)
      /\ \A i \in 1..Len(seqs) : DOMAIN seqs[i] = 1..Len(seqs[i])
  BY <1>1, LenProperties, ElementOfSeq
<1>4. PICK k \in DOMAIN flat : m = flat[k]
  BY DEF ToSet
<1> HIDE DEF flat
<1>5. /\ at[k][1] \in 1..Len(seqs) /\ at[k][2] \in DOMAIN seqs[at[k][1]]
      /\ flat[k] = seqs[at[k][1]][at[k][2]]
  BY <1>2, <1>3, <1>4 DEF Spots
<1> QED BY <1>4, <1>5 DEF ToSet
-----------------------------------------------------------------------------
(* Which messages write a receipt                                          *)

IsReceipt(m, s) == m.type = "Receipt" /\ m.id = s
IsUpdate(m, s)  == m.type = "ReceiptUpdate" /\ m.id = s

(* Message m puts a status into the receipt of s; it puts a final one.     *)
Writes(m, s) == IsReceipt(m, s) \/ (IsUpdate(m, s) /\ m.status # "same")
Finals(m, s) == IsUpdate(m, s) /\ m.status \in Final
OneWrite(s, q) == \A i, j \in DOMAIN q : Writes(q[i], s) /\ Writes(q[j], s) => i = j

(* q gives each swap one status at most, a final one only if it also has   *)
(* it removed.                                                             *)
Conclusive(q) ==
  \A s : /\ OneWrite(s, q)
         /\ (\E m \in ToSet(q) : Finals(m, s)) => DeleteSwap(s) \in ToSet(q)
OnlyFinals(q) == \A m \in ToSet(q) : \A s : Writes(m, s) => Finals(m, s)

LEMMA Writings ==
  ASSUME NEW s
  PROVE  /\ ~Writes(Bootload, s)
         /\ \A t, blob : ~Writes(Request(t, blob), s)
         /\ \A t : ~Writes(DeleteSwap(t), s)
         /\ \A t, blob : /\ Writes(Receipt(t, blob), s) <=> t = s
                         /\ ~Finals(Receipt(t, blob), s)
         /\ \A t, status, blob :
              /\ Writes(Update(t, status, blob), s) <=> t = s /\ status # "same"
              /\ Finals(Update(t, status, blob), s) <=> t = s /\ status \in Final
         /\ \A m : /\ Finals(m, s) => Writes(m, s)
                   /\ Writes(m, s) => m.id = s
<1>1. ~Writes(Bootload, s) /\ \A t, blob : ~Writes(Request(t, blob), s)
  BY DEF Writes, IsReceipt, IsUpdate, Bootload, Request
<1>2. \A t : ~Writes(DeleteSwap(t), s)
  BY DEF Writes, IsReceipt, IsUpdate, DeleteSwap
<1>3. \A t, blob : (Writes(Receipt(t, blob), s) <=> t = s) /\ ~Finals(Receipt(t, blob), s)
  BY DEF Writes, Finals, IsReceipt, IsUpdate, Receipt
<1>4. \A t, status, blob :
        /\ Writes(Update(t, status, blob), s) <=> t = s /\ status # "same"
        /\ Finals(Update(t, status, blob), s) <=> t = s /\ status \in Final
  BY DEF Writes, Finals, IsReceipt, IsUpdate, Update
<1>5. \A m : (Finals(m, s) => Writes(m, s)) /\ (Writes(m, s) => m.id = s)
  BY DEF Writes, Finals, IsReceipt, IsUpdate, Final
<1> QED BY <1>1, <1>2, <1>3, <1>4, <1>5

LEMMA ConclusiveSmall ==
  ASSUME NEW q
  PROVE  /\ DOMAIN q = {} => Conclusive(q) /\ OnlyFinals(q)
         /\ DOMAIN q = {1} /\ (\A s : ~Finals(q[1], s)) => Conclusive(q)
         /\ DOMAIN q = {1, 2} /\ (\A s : ~Writes(q[2], s))
              /\ (\A s : Finals(q[1], s) => q[2] = DeleteSwap(s)) => Conclusive(q)
<1>1. DOMAIN q = {} => Conclusive(q) /\ OnlyFinals(q)
  BY DEF Conclusive, OnlyFinals, OneWrite, ToSet
<1>2. DOMAIN q = {1} /\ (\A s : ~Finals(q[1], s)) => Conclusive(q)
  BY DEF Conclusive, OneWrite, ToSet
<1>3. ASSUME DOMAIN q = {1, 2}, \A s : ~Writes(q[2], s),
             \A s : Finals(q[1], s) => q[2] = DeleteSwap(s)
      PROVE  Conclusive(q)
  <2>1. ToSet(q) = {q[1], q[2]}
    BY <1>3 DEF ToSet
  <2>2. ASSUME NEW s PROVE OneWrite(s, q)
    BY <1>3 DEF OneWrite
  <2>3. ASSUME NEW s, NEW m \in ToSet(q), Finals(m, s) PROVE DeleteSwap(s) \in ToSet(q)
    <3>1. Writes(m, s)
      BY <2>3, Writings
    <3>2. m = q[1]
      BY <1>3, <2>1, <3>1
    <3>3. q[2] = DeleteSwap(s)
      BY <1>3, <2>3, <3>2
    <3> QED BY <2>1, <3>3
  <2> QED BY <2>2, <2>3 DEF Conclusive
<1> QED BY <1>1, <1>2, <1>3

LEMMA AnswerConclusive ==
  ASSUME NEW s, NEW reply
  PROVE  Conclusive(Answer(s, reply)) /\ OnlyFinals(Answer(s, reply))
<1> DEFINE filled == Update(s, "same", reply)
           request == Request(s, reply)
           cancelled == Update(s, "Cancelled", "same")
           delete == DeleteSwap(s)
<1>1. \A t : /\ ~Writes(filled, t) /\ ~Writes(request, t) /\ ~Writes(delete, t)
             /\ Writes(cancelled, t) => Finals(cancelled, t) /\ t = s
             /\ Finals(filled, t) => Writes(filled, t)
             /\ Finals(cancelled, t) => Writes(cancelled, t)
  BY Writings DEF Final
<1>2. Answer(s, reply) \in {<<filled, request>>, <<cancelled, delete>>, <<>>}
  BY DEF Answer
<1>3. delete = DeleteSwap(s)
  OBVIOUS
<1> HIDE DEF filled, request, cancelled, delete
<1>4. CASE Answer(s, reply) = <<filled, request>>
  <2> DEFINE q == <<filled, request>>
  <2>1. DOMAIN q = {1, 2} /\ q[1] = filled /\ q[2] = request
    OBVIOUS
  <2> HIDE DEF q
  <2>2. Conclusive(q)
    BY <1>1, <2>1, ConclusiveSmall
  <2>3. OnlyFinals(q)
    BY <1>1, <2>1 DEF OnlyFinals, ToSet
  <2> QED BY <1>4, <2>2, <2>3 DEF q
<1>5. CASE Answer(s, reply) = <<cancelled, delete>>
  <2> DEFINE q == <<cancelled, delete>>
  <2>1. DOMAIN q = {1, 2} /\ q[1] = cancelled /\ q[2] = delete
    OBVIOUS
  <2> HIDE DEF q
  <2>2. Conclusive(q)
    BY <1>1, <1>3, <2>1, ConclusiveSmall
  <2>3. OnlyFinals(q)
    BY <1>1, <2>1 DEF OnlyFinals, ToSet
  <2> QED BY <1>5, <2>2, <2>3 DEF q
<1>6. CASE Answer(s, reply) = <<>>
  BY <1>6, SmallSeqs, ConclusiveSmall
<1> QED BY <1>2, <1>4, <1>5, <1>6

LEMMA ResultConclusive ==
  ASSUME NEW s, NEW outcome
  PROVE  /\ Conclusive(Result(s, outcome))
         /\ outcome = "NotBuilt" => ToSet(Result(s, outcome)) = {}
<1> DEFINE ended == Update(s, "Ended", "same")
           working == Update(s, "Working", "same")
           delete == DeleteSwap(s)
<1>1. \A t : /\ ~Finals(working, t) /\ ~Writes(delete, t)
             /\ Finals(ended, t) => t = s
  BY Writings DEF Final
<1>2. /\ Result(s, outcome) \in {<<ended, delete>>, <<working>>, <<>>}
      /\ outcome = "NotBuilt" => Result(s, outcome) = <<>>
  BY DEF Result
<1>3. delete = DeleteSwap(s)
  OBVIOUS
<1> HIDE DEF ended, working, delete
<1>4. Conclusive(Result(s, outcome))
  <2>1. CASE Result(s, outcome) = <<ended, delete>>
    <3> DEFINE q == <<ended, delete>>
    <3>1. DOMAIN q = {1, 2} /\ q[1] = ended /\ q[2] = delete
      OBVIOUS
    <3> HIDE DEF q
    <3>2. Conclusive(q)
      BY <1>1, <1>3, <3>1, ConclusiveSmall
    <3> QED BY <2>1, <3>2 DEF q
  <2>2. CASE Result(s, outcome) = <<working>>
    <3> DEFINE q == <<working>>
    <3>1. DOMAIN q = {1} /\ q[1] = working
      OBVIOUS
    <3> HIDE DEF q
    <3>2. Conclusive(q)
      BY <1>1, <3>1, ConclusiveSmall
    <3> QED BY <2>2, <3>2 DEF q
  <2>3. CASE Result(s, outcome) = <<>>
    BY <2>3, SmallSeqs, ConclusiveSmall
  <2> QED BY <1>2, <2>1, <2>2, <2>3
<1>5. outcome = "NotBuilt" => ToSet(Result(s, outcome)) = {}
  BY <1>2, SmallSeqs DEF ToSet
<1> QED BY <1>4, <1>5

(* Parts about different swaps are conclusive together.                    *)
LEMMA FlattenConclusive ==
  ASSUME NEW S, NEW seqs \in Seq(Seq(S)), NEW who,
         \A i \in 1..Len(seqs) : /\ Conclusive(seqs[i])
                                 /\ \A m \in ToSet(seqs[i]) : m.id = who[i],
         \A i, j \in 1..Len(seqs) : who[i] = who[j] => i = j
  PROVE  Conclusive(FlattenSeq(seqs))
<1> DEFINE flat == FlattenSeq(seqs)
<1>1. flat \in Seq(S) /\ \E at : Spots(at, flat, seqs, Len(seqs))
  BY FlattenProperties
<1>2. PICK at : Spots(at, flat, seqs, Len(seqs))
  BY <1>1
<1>3. /\ DOMAIN flat = 1..Len(flat) /\ DOMAIN flat \subseteq Nat
      /\ \A i \in 1..Len(seqs) : DOMAIN seqs[i] = 1..Len(seqs[i])
  BY <1>1, LenProperties, ElementOfSeq
<1> HIDE DEF flat
<1>4. ASSUME NEW k \in DOMAIN flat
      PROVE  /\ at[k][1] \in 1..Len(seqs) /\ at[k][2] \in DOMAIN seqs[at[k][1]]
             /\ flat[k] = seqs[at[k][1]][at[k][2]]
             /\ who[at[k][1]] = flat[k].id
  <2>1. /\ at[k][1] \in 1..Len(seqs) /\ at[k][2] \in DOMAIN seqs[at[k][1]]
        /\ flat[k] = seqs[at[k][1]][at[k][2]]
    BY <1>2, <1>3 DEF Spots
  <2>2. flat[k] \in ToSet(seqs[at[k][1]])
    BY <2>1 DEF ToSet
  <2> QED BY <2>1, <2>2
<1>5. ASSUME NEW i \in 1..Len(seqs), NEW m \in ToSet(seqs[i])
      PROVE  m \in ToSet(flat)
  <2>1. PICK j \in 1..Len(seqs[i]) : m = seqs[i][j]
    BY <1>3 DEF ToSet
  <2>2. PICK k \in 1..Len(flat) : at[k] = <<i, j>>
    BY <1>2, <2>1 DEF Spots
  <2>3. flat[k] = seqs[i][j]
    <3>1. k \in DOMAIN flat /\ at[k][1] = i /\ at[k][2] = j
      BY <1>3, <2>2
    <3> QED BY <1>4, <3>1
  <2> QED BY <1>3, <2>1, <2>2, <2>3 DEF ToSet
<1>6. ASSUME NEW s PROVE OneWrite(s, flat)
  <2> SUFFICES ASSUME NEW k \in DOMAIN flat, NEW m \in DOMAIN flat,
                      Writes(flat[k], s), Writes(flat[m], s), k < m
               PROVE  FALSE
    BY <1>3 DEF OneWrite
  <2>1. flat[k].id = s /\ flat[m].id = s
    BY Writings
  <2>2. /\ at[k][1] \in 1..Len(seqs) /\ who[at[k][1]] = s
        /\ at[m][1] \in 1..Len(seqs) /\ who[at[m][1]] = s
    BY <1>4, <2>1
  <2>3. at[k][1] = at[m][1]
    BY <2>2
  <2> DEFINE part == seqs[at[k][1]]
  <2>4. /\ at[k][2] \in DOMAIN part /\ flat[k] = part[at[k][2]]
        /\ at[m][2] \in DOMAIN part /\ flat[m] = part[at[m][2]]
    BY <1>4, <2>3
  <2>8. OneWrite(s, part)
    BY <2>2 DEF Conclusive
  <2> HIDE DEF part
  <2>5. at[k][2] = at[m][2]
    BY <2>4, <2>8 DEF OneWrite
  <2>6. Before(at[k], at[m])
    BY <1>2, <1>3 DEF Spots
  <2>7. at[k][1] \in Nat /\ at[k][2] \in Nat
    BY <1>2, <1>3 DEF Spots
  <2> QED BY <2>3, <2>5, <2>6, <2>7 DEF Before
<1>7. ASSUME NEW s, NEW m \in ToSet(flat), Finals(m, s)
      PROVE  DeleteSwap(s) \in ToSet(flat)
  <2>1. PICK i \in 1..Len(seqs) : m \in ToSet(seqs[i])
    BY FlattenMembers DEF flat
  <2>2. DeleteSwap(s) \in ToSet(seqs[i])
    BY <1>7, <2>1 DEF Conclusive
  <2> QED BY <1>5, <2>2
<1> QED BY <1>6, <1>7 DEF Conclusive, flat
-----------------------------------------------------------------------------
(* Sequences that the tasks go through                                     *)

LEMMA FcnIsSeq ==
  ASSUME NEW S, NEW n \in Nat, NEW f \in [1..n -> S]
  PROVE  f \in Seq(S) /\ Len(f) = n
<1>1. f \in Seq(S)
  BY SeqDef
<1> QED BY <1>1, LenProperties

(* The orders of a finite set go through each of its elements once.        *)
LEMMA Orders ==
  ASSUME NEW T, IsFiniteSet(T), NEW order \in SetToSeqs(T)
  PROVE  /\ order \in Seq(T) /\ ToSet(order) = T
         /\ \A i, j \in DOMAIN order : order[i] = order[j] => i = j
<1> DEFINE n == Cardinality(T)
<1>1. n \in Nat
  BY FS_CardinalityType
<1>2. order \in [1..n -> T] /\ \A i, j \in 1..n : i # j => order[i] # order[j]
  BY DEF SetToSeqs
<1>3. order \in Seq(T) /\ DOMAIN order = 1..n
  BY <1>1, <1>2, FcnIsSeq
<1>4. order \in Injection(1..n, T)
  BY <1>2 DEF Injection, IsInjective
<1>5. Cardinality(1..n) = n
  BY <1>1, FS_Interval
<1> HIDE DEF n
<1>6. order \in Surjection(1..n, T)
  <2>1. Cardinality(1..n) = Cardinality(T)
    BY <1>5 DEF n
  <2> QED BY <1>4, <2>1, FS_Injection
<1>7. ToSet(order) = T
  BY <1>2, <1>3, <1>6 DEF Surjection, ToSet
<1> QED BY <1>2, <1>3, <1>7

LEMMA SwapsAreFinite ==
  ASSUME NEW T \in SUBSET Swaps
  PROVE  IsFiniteSet(T)
BY FS_Subset

-----------------------------------------------------------------------------
(* What a child puts out about one swap                                    *)

LEMMA AnswerShape ==
  ASSUME NEW s \in Delayed, NEW a \in Answers, NEW reply, reply = DelayCallback(s, a)
  PROVE  /\ reply \in Versions(s) \cup {"unavailable", "gone"}
         /\ Answer(s, reply) \in Seq(Carries("delayed_out"))
         /\ \A t : /\ About(t, Answer(s, reply)) <=> t = s /\ reply # "unavailable"
                   /\ Once(t, Answer(s, reply))
<1> DEFINE S == Carries("delayed_out")
<1>1. s \in Swaps /\ "unavailable" \notin Fills /\ "gone" \notin Fills
  BY FillsAssumption
<1>2. reply \in Versions(s) \cup {"unavailable", "gone"}
  BY DEF Answers, DelayCallback, Versions
<1>3. CASE reply \in Versions(s)
  <2>1. reply \in Fills
    BY <1>3, BlobsApart
  <2>2. Answer(s, reply) = <<Update(s, "same", reply), Request(s, reply)>>
    BY <2>1 DEF Answer
  <2>3. Update(s, "same", reply) \in S
    BY <1>1, <2>1, UpdateIsUpdate, Carried
  <2>4. Request(s, reply) \in S
    <3>1. Request(s, reply) \in Fillings
      BY <2>1 DEF Fillings
    <3>2. Request(s, reply).blob = reply /\ Request(s, reply).id = s
      BY DEF Request
    <3> QED BY <1>3, <3>1, <3>2, Carried
  <2> HIDE DEF S
  <2>5. Answer(s, reply) \in Seq(S)
    BY <2>2, <2>3, <2>4, SmallSeqs
  <2>6. ASSUME NEW t
       PROVE  (About(t, Answer(s, reply)) <=> t = s) /\ Once(t, Answer(s, reply))
    <3> DEFINE first == Update(s, "same", reply)
               second == Request(s, reply)
    <3>1. ~IsAbout(first, t) /\ (IsAbout(second, t) <=> t = s)
      BY Abouts
    <3> HIDE DEF first, second
    <3> DEFINE both == <<first, second>>
    <3>2. DOMAIN both = {1, 2} /\ both[1] = first /\ both[2] = second
      OBVIOUS
    <3> HIDE DEF both
    <3>3. (About(t, both) <=> t = s) /\ Once(t, both)
      BY <3>1, <3>2, AboutSmall
    <3> QED BY <2>2, <3>3 DEF first, second, both
  <2> QED BY <1>1, <1>2, <2>1, <2>5, <2>6 DEF S
<1>4. CASE reply = "gone"
  <2>1. Answer(s, reply) = <<Update(s, "Cancelled", "same"), DeleteSwap(s)>>
    BY <1>1, <1>4 DEF Answer
  <2>2. Update(s, "Cancelled", "same") \in S
    BY <1>1, UpdateIsUpdate, Carried DEF Statuses, Final
  <2>3. DeleteSwap(s) \in S
    BY <1>1, Carried DEF Deletes
  <2> HIDE DEF S
  <2>4. Answer(s, reply) \in Seq(S)
    BY <2>1, <2>2, <2>3, SmallSeqs
  <2>5. ASSUME NEW t
       PROVE  (About(t, Answer(s, reply)) <=> t = s) /\ Once(t, Answer(s, reply))
    <3> DEFINE first == Update(s, "Cancelled", "same")
               second == DeleteSwap(s)
    <3>1. ~IsAbout(first, t) /\ (IsAbout(second, t) <=> t = s)
      BY Abouts
    <3> HIDE DEF first, second
    <3> DEFINE both == <<first, second>>
    <3>2. DOMAIN both = {1, 2} /\ both[1] = first /\ both[2] = second
      OBVIOUS
    <3> HIDE DEF both
    <3>3. (About(t, both) <=> t = s) /\ Once(t, both)
      BY <3>1, <3>2, AboutSmall
    <3> QED BY <2>1, <3>3 DEF first, second, both
  <2> QED BY <1>2, <1>4, <2>4, <2>5 DEF S
<1>5. CASE reply = "unavailable"
  <2>1. Answer(s, reply) = <<>>
    BY <1>1, <1>5 DEF Answer
  <2> QED BY <1>2, <1>5, <2>1, SmallSeqs, AboutSmall
<1> QED BY <1>2, <1>3, <1>4, <1>5

LEMMA ResultShape ==
  ASSUME NEW s \in Swaps, NEW outcome \in Outcomes
  PROVE  /\ Result(s, outcome) \in Seq(Carries("immediate_out"))
         /\ \A t : /\ About(t, Result(s, outcome)) <=> t = s /\ outcome = "Ended"
                   /\ Once(t, Result(s, outcome))
<1> DEFINE S == Carries("immediate_out")
<1>1. CASE outcome = "Ended"
  <2>1. Result(s, outcome) = <<Update(s, "Ended", "same"), DeleteSwap(s)>>
    BY <1>1 DEF Result
  <2>2. Update(s, "Ended", "same") \in S
    BY UpdateIsUpdate, Carried DEF Statuses, Final
  <2>3. DeleteSwap(s) \in S
    BY Carried DEF Deletes
  <2> HIDE DEF S
  <2>4. Result(s, outcome) \in Seq(S)
    BY <2>1, <2>2, <2>3, SmallSeqs
  <2>5. ASSUME NEW t
       PROVE  (About(t, Result(s, outcome)) <=> t = s) /\ Once(t, Result(s, outcome))
    <3> DEFINE first == Update(s, "Ended", "same")
               second == DeleteSwap(s)
    <3>1. ~IsAbout(first, t) /\ (IsAbout(second, t) <=> t = s)
      BY Abouts
    <3> HIDE DEF first, second
    <3> DEFINE both == <<first, second>>
    <3>2. DOMAIN both = {1, 2} /\ both[1] = first /\ both[2] = second
      OBVIOUS
    <3> HIDE DEF both
    <3>3. (About(t, both) <=> t = s) /\ Once(t, both)
      BY <3>1, <3>2, AboutSmall
    <3> QED BY <2>1, <3>3 DEF first, second, both
  <2> QED BY <1>1, <2>4, <2>5 DEF S
<1>2. CASE outcome = "Working"
  <2>1. Result(s, outcome) = <<Update(s, "Working", "same")>>
    BY <1>2 DEF Result
  <2>2. Update(s, "Working", "same") \in S
    BY UpdateIsUpdate, Carried DEF Statuses
  <2> HIDE DEF S
  <2>3. Result(s, outcome) \in Seq(S)
    BY <2>1, <2>2, SmallSeqs
  <2>4. ASSUME NEW t
       PROVE  (~About(t, Result(s, outcome))) /\ Once(t, Result(s, outcome))
    <3> DEFINE first == Update(s, "Working", "same")
    <3>1. ~IsAbout(first, t)
      BY Abouts
    <3> HIDE DEF first
    <3>2. DOMAIN <<first>> = {1} /\ <<first>>[1] = first
      OBVIOUS
    <3>3. ~About(t, <<first>>) /\ Once(t, <<first>>)
      BY <3>1, <3>2, AboutSmall
    <3> QED BY <2>1, <3>3 DEF first
  <2> QED BY <1>2, <2>3, <2>4 DEF S
<1>3. CASE outcome = "NotBuilt"
  <2>1. Result(s, outcome) = <<>>
    BY <1>3 DEF Result
  <2> QED BY <1>3, <2>1, SmallSeqs, AboutSmall
<1> QED BY <1>1, <1>2, <1>3 DEF Outcomes

(* All of it is of that swap.                                              *)
LEMMA AnswerMembers ==
  ASSUME NEW s, NEW reply, NEW m \in ToSet(Answer(s, reply))
  PROVE  m.id = s
<1>1. PICK i \in DOMAIN Answer(s, reply) : m = Answer(s, reply)[i]
  BY DEF ToSet
<1> DEFINE filled == Update(s, "same", reply)
           request == Request(s, reply)
           cancelled == Update(s, "Cancelled", "same")
           delete == DeleteSwap(s)
<1>2. filled.id = s /\ request.id = s /\ cancelled.id = s /\ delete.id = s
  BY DEF Update, Request, DeleteSwap
<1>3. Answer(s, reply) \in {<<filled, request>>, <<cancelled, delete>>, <<>>}
  BY DEF Answer
<1> HIDE DEF filled, request, cancelled, delete
<1>4. CASE Answer(s, reply) = <<filled, request>>
  BY <1>1, <1>2, <1>4
<1>5. CASE Answer(s, reply) = <<cancelled, delete>>
  BY <1>1, <1>2, <1>5
<1>6. CASE Answer(s, reply) = <<>>
  BY <1>1, <1>6
<1> QED BY <1>3, <1>4, <1>5, <1>6

LEMMA ResultMembers ==
  ASSUME NEW s, NEW outcome, NEW m \in ToSet(Result(s, outcome))
  PROVE  m.id = s
<1>1. PICK i \in DOMAIN Result(s, outcome) : m = Result(s, outcome)[i]
  BY DEF ToSet
<1> DEFINE ended == Update(s, "Ended", "same")
           working == Update(s, "Working", "same")
           delete == DeleteSwap(s)
<1>2. ended.id = s /\ working.id = s /\ delete.id = s
  BY DEF Update, DeleteSwap
<1>3. Result(s, outcome) \in {<<ended, delete>>, <<working>>, <<>>}
  BY DEF Result
<1> HIDE DEF ended, working, delete
<1>4. CASE Result(s, outcome) = <<ended, delete>>
  BY <1>1, <1>2, <1>4
<1>5. CASE Result(s, outcome) = <<working>>
  BY <1>1, <1>2, <1>5
<1>6. CASE Result(s, outcome) = <<>>
  BY <1>1, <1>6
<1> QED BY <1>3, <1>4, <1>5, <1>6
-----------------------------------------------------------------------------
(* What the steps with several messages do                                 *)

Unmoved(moved) == \A d \in Channels \ moved : chan'[d] = chan[d]
Typed == DOMAIN chan' = Channels /\ \A d \in Channels : chan'[d] \in Seq(Carries(d))

LEMMA AskEffect ==
  ASSUME TypeOK, NEW c \in {"delayed", "tick"}, c = "delayed" => chan[c] # <<>>,
         NEW order \in Seq(Delayed), \A i, j \in DOMAIN order : order[i] = order[j] => i = j,
         Ask(c, order)
  PROVE  /\ Typed /\ Unmoved({"delayed", "delayed_out"})
         /\ chan'["delayed"] = IF c = "delayed" THEN Tail(chan["delayed"]) ELSE chan["delayed"]
         /\ \E out \in Seq(Carries("delayed_out")) :
              /\ chan'["delayed_out"] = chan["delayed_out"] \o out
              /\ \A s : /\ About(s, out) <=> s \in ToSet(order) \ asking'
                        /\ Once(s, out)
              /\ \A m \in ToSet(out) : m.id \in ToSet(order)
              /\ Conclusive(out) /\ OnlyFinals(out)
         /\ asking' \subseteq asking \cup ToSet(order)
         /\ asking \ ToSet(order) \subseteq asking'
         /\ ToSet(order) \subseteq Delayed
         /\ UNCHANGED <<world, running, executed, disk>>
<1> DEFINE S == Carries("delayed_out")
           n == Len(order)
<1>1. /\ n \in Nat /\ DOMAIN order = 1..n /\ \A i \in 1..n : order[i] \in Delayed
      /\ ToSet(order) = {order[i] : i \in 1..n}
  BY LenProperties, ElementOfSeq DEF ToSet
<1>2. PICK answer \in [ToSet(order) -> Answers] :
        LET reply == [s \in DOMAIN answer |-> DelayCallback(s, answer[s])]
            asked == DOMAIN answer
        IN
        /\ asking' = (asking \ asked) \cup {s \in asked : reply[s] = "unavailable"}
        /\ Done(c, [delayed_out |->
             FlattenSeq([i \in DOMAIN order |-> Answer(order[i], reply[order[i]])])])
        /\ UNCHANGED <<world, running, executed, disk>>
  BY DEF Ask
<1> DEFINE reply == [s \in ToSet(order) |-> DelayCallback(s, answer[s])]
           seqs == [i \in 1..n |-> Answer(order[i], reply[order[i]])]
           flat == FlattenSeq(seqs)
           out == [delayed_out |-> flat]
<1>3. /\ asking' = (asking \ ToSet(order)) \cup {s \in ToSet(order) : reply[s] = "unavailable"}
      /\ Done(c, out)
      /\ UNCHANGED <<world, running, executed, disk>>
  BY <1>1, <1>2
<1>4. ASSUME NEW i \in 1..n
      PROVE  /\ seqs[i] \in Seq(S)
             /\ \A s : /\ About(s, seqs[i]) <=> s = order[i] /\ reply[s] # "unavailable"
                       /\ Once(s, seqs[i])
  <2> DEFINE t == order[i]
  <2>1. t \in Delayed /\ t \in ToSet(order) /\ answer[t] \in Answers
    BY <1>1
  <2>2. reply[t] = DelayCallback(t, answer[t]) /\ seqs[i] = Answer(t, reply[t])
    BY <2>1
  <2> HIDE DEF reply, seqs, t
  <2>3. /\ Answer(t, reply[t]) \in Seq(S)
        /\ \A s : /\ About(s, Answer(t, reply[t])) <=> s = t /\ reply[t] # "unavailable"
                  /\ Once(s, Answer(t, reply[t]))
    BY <2>1, <2>2, AnswerShape
  <2> QED BY <2>2, <2>3 DEF t
<1>5. seqs \in Seq(Seq(S)) /\ Len(seqs) = n
  <2>1. seqs \in [1..n -> Seq(S)]
    BY <1>4
  <2> HIDE DEF seqs, S, n
  <2> QED BY <1>1, <2>1, FcnIsSeq
<1>6. \A s : s \in ToSet(order) \ asking' <=> s \in ToSet(order) /\ reply[s] # "unavailable"
  BY <1>3
<1> HIDE DEF seqs, reply, flat, S
<1>7. flat \in Seq(S)
  BY <1>5, FlattenProperties DEF flat
<1>8. ASSUME NEW s
      PROVE  (About(s, flat) <=> s \in ToSet(order) \ asking') /\ Once(s, flat)
  <2>1. /\ About(s, flat) <=> \E i \in 1..n : About(s, seqs[i])
        /\ (/\ \A i \in 1..n : Once(s, seqs[i])
            /\ \A i, j \in 1..n : About(s, seqs[i]) /\ About(s, seqs[j]) => i = j)
           => Once(s, flat)
    BY <1>5, AboutFlatten DEF flat
  <2>2. ASSUME NEW i \in 1..n, NEW j \in 1..n, About(s, seqs[i]), About(s, seqs[j])
        PROVE  i = j
    <3>1. order[i] = s /\ order[j] = s
      BY <1>4, <2>2
    <3> QED BY <1>1, <3>1
  <2>3. About(s, flat) <=> s \in ToSet(order) /\ reply[s] # "unavailable"
    BY <1>1, <1>4, <2>1
  <2> QED BY <1>4, <1>6, <2>1, <2>2, <2>3
<1>9. /\ Typed
      /\ \A d \in Channels :
           /\ d = c => chan'[d] = Tail(chan[d])
           /\ d # c /\ d \notin DOMAIN out => chan'[d] = chan[d]
           /\ d # c /\ d \in DOMAIN out => chan'[d] = chan[d] \o out[d]
  <2>1. DOMAIN out = {"delayed_out"} /\ out["delayed_out"] = flat
    OBVIOUS
  <2> HIDE DEF out
  <2>2. \A d \in Channels \cap DOMAIN out : out[d] \in Seq(Carries(d))
    BY <1>7, <2>1 DEF S
  <2>3. c \notin DOMAIN out /\ (c \in Channels => chan[c] # <<>>)
    BY <2>1 DEF Channels
  <2>4. /\ DOMAIN chan' = Channels
        /\ \A d \in Channels :
             chan'[d] = (IF d = c THEN Tail(chan[d]) ELSE chan[d])
                          \o (IF d \in DOMAIN out THEN out[d] ELSE <<>>)
    BY <1>3 DEF Done
  <2>5. /\ DOMAIN chan' = Channels
        /\ \A d \in Channels :
             /\ chan'[d] \in Seq(Carries(d))
             /\ d = c => chan'[d] = Tail(chan[d])
             /\ d # c /\ d \notin DOMAIN out => chan'[d] = chan[d]
             /\ d # c /\ d \in DOMAIN out => chan'[d] = chan[d] \o out[d]
    BY <2>2, <2>3, <2>4, DoneChannels
  <2> QED BY <2>5 DEF Typed
<1>10. DOMAIN out = {"delayed_out"} /\ out["delayed_out"] = flat
  OBVIOUS
<1> HIDE DEF out
<1>11. /\ Unmoved({"delayed", "delayed_out"})
       /\ chan'["delayed_out"] = chan["delayed_out"] \o flat
       /\ chan'["delayed"] = IF c = "delayed" THEN Tail(chan["delayed"]) ELSE chan["delayed"]
  BY <1>9, <1>10 DEF Unmoved, Channels
<1>12. ToSet(order) \subseteq Delayed
  BY <1>1
<1>13. ASSUME NEW m \in ToSet(flat)
       PROVE  m.id \in ToSet(order)
  <2>1. PICK i \in 1..n : m \in ToSet(seqs[i])
    BY <1>5, FlattenMembers DEF flat
  <2>2. seqs[i] = Answer(order[i], reply[order[i]])
    BY DEF seqs
  <2>3. m.id = order[i]
    BY <2>1, <2>2, AnswerMembers
  <2> QED BY <1>1, <2>3
<1>14. ASSUME NEW i \in 1..n
       PROVE  /\ Conclusive(seqs[i]) /\ OnlyFinals(seqs[i])
              /\ \A m \in ToSet(seqs[i]) : m.id = order[i]
  <2>1. seqs[i] = Answer(order[i], reply[order[i]])
    BY DEF seqs
  <2> QED BY <2>1, AnswerConclusive, AnswerMembers
<1>15. Conclusive(flat)
  <2>1. \A i, j \in 1..n : order[i] = order[j] => i = j
    BY <1>1
  <2> QED BY <1>5, <1>14, <2>1, FlattenConclusive DEF flat
<1>16. OnlyFinals(flat)
  <2>1. \A m \in ToSet(flat) : \E i \in 1..n : m \in ToSet(seqs[i])
    BY <1>5, FlattenMembers DEF flat
  <2> QED BY <1>14, <2>1 DEF OnlyFinals
<1> QED BY <1>3, <1>7, <1>8, <1>9, <1>11, <1>12, <1>13, <1>15, <1>16 DEF S
(* What Execute is asked for.                                              *)
Executions == UNION {{Request(s, blob) : blob \in Versions(s)} : s \in Swaps}

LEMMA ExecutionFields ==
  ASSUME NEW m \in Executions
  PROVE  /\ m.type = "SwapRequest" /\ m.id \in Swaps /\ m.blob \in Versions(m.id)
         /\ m = Request(m.id, m.blob)
BY DEF Executions, Request

(* Execute, with its outcomes and what it tells the parent.                *)
ExecutesWith(c, requests, outcome, out) ==
  /\ Typed /\ Unmoved({"immediate", "immediate_out"})
  /\ chan'["immediate"] = IF c = "immediate" THEN Tail(chan["immediate"]) ELSE chan["immediate"]
  /\ chan'["immediate_out"] = chan["immediate_out"] \o out
  /\ \A s : /\ About(s, out) <=> \E i \in DOMAIN requests :
                                   requests[i].id = s /\ outcome[i] = "Ended"
            /\ Once(s, out)
  /\ \A m \in ToSet(out) : \E i \in DOMAIN requests :
       requests[i].id = m.id /\ outcome[i] # "NotBuilt"
  /\ Conclusive(out)
  /\ DOMAIN running' = Swaps
  /\ \A i \in DOMAIN requests :
       running'[requests[i].id] =
         IF outcome[i] = "Ended" THEN "none"
         ELSE IF outcome[i] = "NotBuilt" THEN running[requests[i].id]
         ELSE requests[i].blob
  /\ \A s \in Swaps : (\A i \in DOMAIN requests : requests[i].id # s)
                        => running'[s] = running[s]
  /\ executed' = executed \cup {<<requests[i].id, requests[i].blob>> :
                                 i \in {j \in DOMAIN requests : outcome[j] # "NotBuilt"}}
  /\ UNCHANGED <<world, asking, disk>>

LEMMA ExecuteEffect ==
  ASSUME TypeOK, NEW c \in {"immediate", "tick"}, c = "immediate" => chan[c] # <<>>,
         NEW requests \in Seq(Executions),
         \A i, j \in DOMAIN requests : requests[i].id = requests[j].id => i = j,
         Execute(c, requests)
  PROVE  \E outcome \in [DOMAIN requests -> Outcomes], out \in Seq(Carries("immediate_out")) :
           ExecutesWith(c, requests, outcome, out)
<1> DEFINE S == Carries("immediate_out")
           n == Len(requests)
<1>1. /\ n \in Nat /\ DOMAIN requests = 1..n
      /\ \A i \in 1..n : requests[i].id \in Swaps
      /\ \A i, j \in 1..n : requests[i].id = requests[j].id => i = j
  BY LenProperties, ElementOfSeq, ExecutionFields
<1>2. PICK outcome \in [DOMAIN requests -> Outcomes] :
        /\ running' = [s \in Swaps |->
             IF \E i \in DOMAIN requests : requests[i].id = s /\ outcome[i] # "NotBuilt"
             THEN LET i == CHOOSE i \in DOMAIN requests : requests[i].id = s
                  IN IF outcome[i] = "Ended" THEN "none" ELSE requests[i].blob
             ELSE running[s]]
        /\ executed' = executed \cup
             {<<requests[i].id, requests[i].blob>> :
                i \in {j \in DOMAIN requests : outcome[j] # "NotBuilt"}}
        /\ Done(c, [immediate_out |->
             FlattenSeq([i \in DOMAIN requests |-> Result(requests[i].id, outcome[i])])])
        /\ UNCHANGED <<world, asking, disk>>
  BY DEF Execute
<1> DEFINE seqs == [i \in 1..n |-> Result(requests[i].id, outcome[i])]
           flat == FlattenSeq(seqs)
           out == [immediate_out |-> flat]
<1>3. Done(c, out)
  BY <1>1, <1>2
<1>4. ASSUME NEW i \in 1..n
      PROVE  /\ seqs[i] \in Seq(S)
             /\ \A s : /\ About(s, seqs[i]) <=> s = requests[i].id /\ outcome[i] = "Ended"
                       /\ Once(s, seqs[i])
  <2>1. requests[i].id \in Swaps /\ outcome[i] \in Outcomes
    BY <1>1
  <2>2. seqs[i] = Result(requests[i].id, outcome[i])
    OBVIOUS
  <2> HIDE DEF seqs
  <2> QED BY <2>1, <2>2, ResultShape
<1>5. seqs \in Seq(Seq(S)) /\ Len(seqs) = n
  <2>1. seqs \in [1..n -> Seq(S)]
    BY <1>4
  <2> HIDE DEF seqs, S, n
  <2> QED BY <1>1, <2>1, FcnIsSeq
<1> HIDE DEF seqs, flat, S
<1>6. flat \in Seq(S)
  BY <1>5, FlattenProperties DEF flat
<1>7. ASSUME NEW s
      PROVE  /\ About(s, flat) <=> \E i \in DOMAIN requests :
                                     requests[i].id = s /\ outcome[i] = "Ended"
             /\ Once(s, flat)
  <2>1. /\ About(s, flat) <=> \E i \in 1..n : About(s, seqs[i])
        /\ (/\ \A i \in 1..n : Once(s, seqs[i])
            /\ \A i, j \in 1..n : About(s, seqs[i]) /\ About(s, seqs[j]) => i = j)
           => Once(s, flat)
    BY <1>5, AboutFlatten DEF flat
  <2>2. ASSUME NEW i \in 1..n, NEW j \in 1..n, About(s, seqs[i]), About(s, seqs[j])
        PROVE  i = j
    <3>1. requests[i].id = s /\ requests[j].id = s
      BY <1>4, <2>2
    <3> QED BY <1>1, <3>1
  <2>3. About(s, flat) <=> \E i \in DOMAIN requests :
                             requests[i].id = s /\ outcome[i] = "Ended"
    BY <1>1, <1>4, <2>1
  <2> QED BY <1>4, <2>1, <2>2, <2>3
<1>8. /\ Typed /\ Unmoved({"immediate", "immediate_out"})
      /\ chan'["immediate_out"] = chan["immediate_out"] \o flat
      /\ chan'["immediate"] = IF c = "immediate" THEN Tail(chan["immediate"])
                              ELSE chan["immediate"]
  <2>1. DOMAIN out = {"immediate_out"} /\ out["immediate_out"] = flat
    OBVIOUS
  <2> HIDE DEF out
  <2>2. \A d \in Channels \cap DOMAIN out : out[d] \in Seq(Carries(d))
    BY <1>6, <2>1 DEF S
  <2>3. c \notin DOMAIN out /\ (c \in Channels => chan[c] # <<>>)
    BY <2>1 DEF Channels
  <2>4. /\ DOMAIN chan' = Channels
        /\ \A d \in Channels :
             chan'[d] = (IF d = c THEN Tail(chan[d]) ELSE chan[d])
                          \o (IF d \in DOMAIN out THEN out[d] ELSE <<>>)
    BY <1>3 DEF Done
  <2>5. /\ DOMAIN chan' = Channels
        /\ \A d \in Channels :
             /\ chan'[d] \in Seq(Carries(d))
             /\ d = c => chan'[d] = Tail(chan[d])
             /\ d # c /\ d \notin DOMAIN out => chan'[d] = chan[d]
             /\ d # c /\ d \in DOMAIN out => chan'[d] = chan[d] \o out[d]
    BY <2>2, <2>3, <2>4, DoneChannels
  <2> QED BY <2>1, <2>5 DEF Typed, Unmoved, Channels
<1>9. ASSUME NEW i \in DOMAIN requests
      PROVE  running'[requests[i].id] =
               IF outcome[i] = "Ended" THEN "none"
               ELSE IF outcome[i] = "NotBuilt" THEN running[requests[i].id]
               ELSE requests[i].blob
  <2> DEFINE s == requests[i].id
             pick == CHOOSE j \in DOMAIN requests : requests[j].id = s
  <2>1. s \in Swaps /\ \A j \in DOMAIN requests : requests[j].id = s => j = i
    BY <1>1
  <2>2. pick = i
    BY <2>1
  <2>3. running'[s] =
          IF \E j \in DOMAIN requests : requests[j].id = s /\ outcome[j] # "NotBuilt"
          THEN IF outcome[pick] = "Ended" THEN "none" ELSE requests[pick].blob
          ELSE running[s]
    BY <1>2, <2>1
  <2> HIDE DEF pick
  <2> QED BY <2>1, <2>2, <2>3
<1>10. \A s \in Swaps : (\A i \in DOMAIN requests : requests[i].id # s)
                          => running'[s] = running[s]
  BY <1>2
<1>11. DOMAIN running' = Swaps
  BY <1>2
<1>13. ASSUME NEW m \in ToSet(flat)
       PROVE  \E i \in DOMAIN requests : requests[i].id = m.id /\ outcome[i] # "NotBuilt"
  <2>1. PICK i \in 1..n : m \in ToSet(seqs[i])
    BY <1>5, FlattenMembers DEF flat
  <2>2. seqs[i] = Result(requests[i].id, outcome[i])
    BY DEF seqs
  <2>3. m.id = requests[i].id
    BY <2>1, <2>2, ResultMembers
  <2>4. outcome[i] # "NotBuilt"
    BY <2>1, <2>2, ResultConclusive
  <2> QED BY <1>1, <2>3, <2>4
<1>14. Conclusive(flat)
  <2> DEFINE who == [i \in 1..n |-> requests[i].id]
  <2>1. \A i, j \in 1..n : who[i] = who[j] => i = j
    BY <1>1
  <2>2. ASSUME NEW i \in 1..n
        PROVE  Conclusive(seqs[i]) /\ \A m \in ToSet(seqs[i]) : m.id = who[i]
    <3>1. seqs[i] = Result(who[i], outcome[i])
      BY DEF seqs
    <3> QED BY <3>1, ResultConclusive, ResultMembers
  <2> HIDE DEF who
  <2>3. /\ \A i \in 1..Len(seqs) : /\ Conclusive(seqs[i])
                                    /\ \A m \in ToSet(seqs[i]) : m.id = who[i]
        /\ \A i, j \in 1..Len(seqs) : who[i] = who[j] => i = j
    BY <1>5, <2>1, <2>2
  <2>4. seqs \in Seq(Seq(S))
    BY <1>5
  <2>5. Conclusive(FlattenSeq(seqs))
    BY <2>3, <2>4, FlattenConclusive
  <2> QED BY <2>5 DEF flat
<1>12. ExecutesWith(c, requests, outcome, flat)
  BY <1>2, <1>7, <1>8, <1>9, <1>10, <1>11, <1>13, <1>14 DEF ExecutesWith
<1> QED BY <1>2, <1>6, <1>12 DEF S

(* Resend hands each pending swap to its child, as it is stored.           *)
Stocks(d) == {Request(s, pending[s]) : s \in {t \in Swaps : /\ pending[t] # "none"
                                                            /\ Child(pending[t]) = d}}

LEMMA ResendEffect ==
  ASSUME TypeOK, chan["swapper"] # <<>>,
         NEW order \in SetToSeqs({s \in Swaps : pending[s] # "none"}), Resend(order)
  PROVE  /\ Typed /\ Unmoved({"swapper", "swapper_out", "delayed", "immediate"})
         /\ chan'["swapper"] = Tail(chan["swapper"])
         /\ \E news \in Seq(Updates) :
              /\ chan'["swapper_out"] = chan["swapper_out"] \o news
              /\ \A m \in ToSet(news) : m.id \in Swaps /\ pending[m.id] # "none"
         /\ \A d \in {"delayed", "immediate"} : \E out \in Seq(Stocks(d)) :
              /\ chan'[d] = chan[d] \o out
              /\ \A s : /\ About(s, out) <=> /\ s \in Swaps /\ pending[s] # "none"
                                             /\ Child(pending[s]) = d
                        /\ Once(s, out)
<1> DEFINE T == {s \in Swaps : pending[s] # "none"}
           n == Len(order)
           Part(d, i) == IF Child(pending[order[i]]) = d
                         THEN <<Request(order[i], pending[order[i]])>> ELSE <<>>
           seqs(d) == [i \in 1..n |-> Part(d, i)]
           To(d) == FlattenSeq(seqs(d))
           news == [i \in 1..n |-> Update(order[i], "same", "same")]
           out == [swapper_out |-> news, delayed |-> To("delayed"), immediate |-> To("immediate")]
<1>1. /\ order \in Seq(T) /\ ToSet(order) = T
      /\ \A i, j \in DOMAIN order : order[i] = order[j] => i = j
  BY SwapsAreFinite, Orders
<1>2. /\ n \in Nat /\ DOMAIN order = 1..n /\ \A i \in 1..n : order[i] \in T
      /\ T = {order[i] : i \in 1..n}
  BY <1>1, LenProperties, ElementOfSeq DEF ToSet
<1>3. Done("swapper", out)
  BY <1>2 DEF Resend
<1>4. ASSUME NEW d \in {"delayed", "immediate"}
      PROVE  /\ To(d) \in Seq(Stocks(d))
             /\ \A s : /\ About(s, To(d)) <=> s \in T /\ Child(pending[s]) = d
                       /\ Once(s, To(d))
  <2> DEFINE S == Stocks(d)
  <2>1. ASSUME NEW i \in 1..n
        PROVE  /\ Part(d, i) \in Seq(S)
               /\ \A s : /\ About(s, Part(d, i)) <=> s = order[i] /\ Child(pending[s]) = d
                         /\ Once(s, Part(d, i))
    <3> DEFINE m == Request(order[i], pending[order[i]])
    <3>1. order[i] \in T
      BY <1>2
    <3>2. CASE Child(pending[order[i]]) = d
      <4>1. m \in S
        BY <3>1, <3>2 DEF Stocks
      <4>2. Part(d, i) = <<m>>
        BY <3>2
      <4>3. \A s : IsAbout(m, s) <=> s = order[i]
        BY Abouts
      <4>4. DOMAIN <<m>> = {1} /\ <<m>>[1] = m
        OBVIOUS
      <4> HIDE DEF S, m
      <4>5. <<m>> \in Seq(S)
        BY <4>1, SmallSeqs
      <4>6. \A s : (About(s, <<m>>) <=> IsAbout(m, s)) /\ Once(s, <<m>>)
        BY <4>4, AboutSmall
      <4> QED BY <3>2, <4>2, <4>3, <4>5, <4>6
    <3>3. CASE Child(pending[order[i]]) # d
      <4>1. Part(d, i) = <<>>
        BY <3>3
      <4> HIDE DEF S
      <4> QED BY <3>3, <4>1, SmallSeqs, AboutSmall
    <3> QED BY <3>2, <3>3
  <2> DEFINE ss == seqs(d)
  <2>2. \A i \in 1..n : ss[i] = Part(d, i)
    OBVIOUS
  <2>3. ss \in [1..n -> Seq(S)]
    BY <2>1
  <2> HIDE DEF ss, S, Part
  <2>4. ss \in Seq(Seq(S)) /\ Len(ss) = n
    BY <1>2, <2>3, FcnIsSeq
  <2>5. FlattenSeq(ss) \in Seq(S)
    BY <2>4, FlattenProperties
  <2>6. ASSUME NEW s
        PROVE  (About(s, FlattenSeq(ss)) <=> s \in T /\ Child(pending[s]) = d) /\ Once(s, FlattenSeq(ss))
    <3>1. /\ About(s, FlattenSeq(ss)) <=> \E i \in 1..n : About(s, ss[i])
          /\ (/\ \A i \in 1..n : Once(s, ss[i])
              /\ \A i, j \in 1..n : About(s, ss[i]) /\ About(s, ss[j]) => i = j)
             => Once(s, FlattenSeq(ss))
      BY <2>4, AboutFlatten
    <3>2. ASSUME NEW i \in 1..n, NEW j \in 1..n, About(s, ss[i]), About(s, ss[j])
          PROVE  i = j
      <4>1. order[i] = s /\ order[j] = s
        BY <2>1, <2>2, <3>2
      <4> QED BY <1>1, <1>2, <4>1
    <3>3. About(s, FlattenSeq(ss)) <=> s \in T /\ Child(pending[s]) = d
      <4>1. s \in T <=> \E i \in 1..n : s = order[i]
        BY <1>2
      <4> HIDE DEF T
      <4>2. \A i \in 1..n : About(s, ss[i]) <=> s = order[i] /\ Child(pending[s]) = d
        BY <2>1, <2>2
      <4> HIDE DEF n
      <4> QED BY <3>1, <4>1, <4>2
    <3>4. \A i \in 1..n : Once(s, ss[i])
      BY <2>1, <2>2
    <3>5. Once(s, FlattenSeq(ss))
      BY <3>1, <3>2, <3>4
    <3> QED BY <3>3, <3>5
  <2>7. To(d) = FlattenSeq(ss)
    BY DEF ss
  <2> QED BY <2>5, <2>6, <2>7 DEF S
<1>5. news \in Seq(Updates)
  <2>1. \A i \in 1..n : Update(order[i], "same", "same") \in Updates
    BY <1>2, UpdateIsUpdate
  <2>2. news \in [1..n -> Updates]
    BY <2>1
  <2> QED BY <1>2, <2>2, FcnIsSeq
<1>6. Stocks("delayed") \subseteq Carries("delayed")
  <2>1. ASSUME NEW s \in Swaps, pending[s] # "none", Child(pending[s]) = "delayed"
        PROVE  Request(s, pending[s]) \in Carries("delayed")
    <3>1. pending[s] = "delay"
      BY <2>1 DEF Child
    <3>2. s \in Delayed
      <4>1. pending[s] \in Versions(s) \cup {Posted(s), "none"}
        BY DEF TypeOK
      <4>2. Versions(s) \subseteq Executable /\ "delay" \notin Executable
        BY BlobsApart
      <4>3. Posted(s) = "delay"
        BY <3>1, <4>1, <4>2
      <4> QED BY <4>3 DEF Posted
    <3> QED BY <3>1, <3>2, Carried
  <2> QED BY <2>1 DEF Stocks
<1>7. Stocks("immediate") \subseteq Carries("immediate")
  <2>1. ASSUME NEW s \in Swaps, pending[s] # "none", Child(pending[s]) = "immediate"
        PROVE  Request(s, pending[s]) \in Carries("immediate")
    <3>1. pending[s] # "delay"
      BY <2>1 DEF Child
    <3>2. pending[s] \in Versions(s)
      BY <2>1, <3>1, BlobsApart DEF TypeOK, Posted
    <3> QED BY <3>2, Carried
  <2> QED BY <2>1 DEF Stocks
<1>14. ASSUME NEW m \in ToSet(news)
       PROVE  m.id \in Swaps /\ pending[m.id] # "none"
  <2>1. PICK i \in 1..n : m = Update(order[i], "same", "same")
    BY DEF ToSet
  <2>2. m.id = order[i]
    BY <2>1 DEF Update
  <2> QED BY <1>2, <2>2
<1> HIDE DEF To, news
<1>8. /\ DOMAIN out = {"swapper_out", "delayed", "immediate"}
      /\ out["swapper_out"] = news /\ out["delayed"] = To("delayed")
      /\ out["immediate"] = To("immediate")
  OBVIOUS
<1> HIDE DEF out
<1>9. \A d \in Channels \cap DOMAIN out : out[d] \in Seq(Carries(d))
  <2>1. To("delayed") \in Seq(Carries("delayed"))
    BY <1>4, <1>6, SeqMonotonic
  <2>2. To("immediate") \in Seq(Carries("immediate"))
    BY <1>4, <1>7, SeqMonotonic
  <2> QED BY <1>5, <1>8, <2>1, <2>2, Carried
<1>10. /\ DOMAIN chan' = Channels
       /\ \A d \in Channels :
            chan'[d] = (IF d = "swapper" THEN Tail(chan[d]) ELSE chan[d])
                         \o (IF d \in DOMAIN out THEN out[d] ELSE <<>>)
  BY <1>3 DEF Done
<1>11. /\ DOMAIN chan' = Channels
       /\ \A d \in Channels :
            /\ chan'[d] \in Seq(Carries(d))
            /\ d = "swapper" => chan'[d] = Tail(chan[d])
            /\ d # "swapper" /\ d \notin DOMAIN out => chan'[d] = chan[d]
            /\ d # "swapper" /\ d \in DOMAIN out => chan'[d] = chan[d] \o out[d]
  BY <1>8, <1>9, <1>10, DoneChannels
<1>12. Typed /\ Unmoved({"swapper", "swapper_out", "delayed", "immediate"})
  BY <1>8, <1>11 DEF Typed, Unmoved
<1>13. /\ chan'["swapper"] = Tail(chan["swapper"])
       /\ chan'["swapper_out"] = chan["swapper_out"] \o news
       /\ chan'["delayed"] = chan["delayed"] \o To("delayed")
       /\ chan'["immediate"] = chan["immediate"] \o To("immediate")
  BY <1>8, <1>11 DEF Channels
<1> QED BY <1>4, <1>5, <1>12, <1>13, <1>14
-----------------------------------------------------------------------------
(* What the steps with one message do                                      *)

LEMMA MessageFields ==
  /\ Bootload.type = "Bootload"
  /\ \A s, blob : /\ Request(s, blob).type = "SwapRequest" /\ Request(s, blob).id = s
                  /\ Request(s, blob).blob = blob
  /\ \A s, blob : /\ Receipt(s, blob).type = "Receipt" /\ Receipt(s, blob).id = s
                  /\ Receipt(s, blob).blob = blob
  /\ \A s : DeleteSwap(s).type = "DeleteSwap" /\ DeleteSwap(s).id = s
  /\ \A m \in Updates : m.type = "ReceiptUpdate"
BY DEF Bootload, Request, Receipt, DeleteSwap, Updates

(* Done with at most one message for each other channel.                   *)
LEMMA DoneSmall ==
  ASSUME TypeOK, NEW c \in Channels, chan[c] # <<>>, NEW out,
         DOMAIN out \subseteq Channels \ {c},
         \A d \in DOMAIN out : \E k \in Carries(d) : out[d] = <<k>>,
         DOMAIN chan' = Channels,
         \A d \in Channels :
           chan'[d] = (IF d = c THEN Tail(chan[d]) ELSE chan[d])
                        \o (IF d \in DOMAIN out THEN out[d] ELSE <<>>)
  PROVE  /\ Typed /\ chan'[c] = Tail(chan[c])
         /\ \A d \in Channels \ {c} :
              /\ d \notin DOMAIN out => chan'[d] = chan[d]
              /\ d \in DOMAIN out => chan'[d] = chan[d] \o out[d]
<1>1. \A d \in Channels \cap DOMAIN out : out[d] \in Seq(Carries(d))
  <2> SUFFICES ASSUME NEW d \in DOMAIN out
               PROVE  out[d] \in Seq(Carries(d))
    OBVIOUS
  <2> DEFINE S == Carries(d)
  <2>1. PICK k \in S : out[d] = <<k>>
    OBVIOUS
  <2> HIDE DEF S
  <2>2. out[d] \in Seq(S)
    BY <2>1, SmallSeqs
  <2> QED BY <2>2 DEF S
<1>2. /\ DOMAIN chan' = Channels
      /\ \A d \in Channels :
           /\ chan'[d] \in Seq(Carries(d))
           /\ d = c => chan'[d] = Tail(chan[d])
           /\ d # c /\ d \notin DOMAIN out => chan'[d] = chan[d]
           /\ d # c /\ d \in DOMAIN out => chan'[d] = chan[d] \o out[d]
  BY <1>1, DoneChannels
<1> QED BY <1>2 DEF Typed

LEMMA RoutesEffect ==
  ASSUME TypeOK, WalletRoutes
  PROVE  /\ chan["wallet"] # <<>> /\ Typed /\ chan'["wallet"] = Tail(chan["wallet"])
         /\ UNCHANGED <<world, memory, disk>>
         /\ \/ /\ Head(chan["wallet"]) = Bootload
               /\ Unmoved({"wallet", "swapper"})
               /\ chan'["swapper"] = chan["swapper"] \o <<Bootload>>
            \/ \E s \in Swaps :
                 /\ Head(chan["wallet"]) = Request(s, Posted(s))
                 /\ Unmoved({"wallet", "swapper", "status"})
                 /\ chan'["swapper"] = chan["swapper"] \o <<Request(s, Posted(s))>>
                 /\ chan'["status"] = chan["status"] \o <<Receipt(s, Posted(s))>>
<1>1. PICK m \in Messages :
        /\ Takes("wallet", m)
        /\ \/ m.type = "Bootload" /\ Done("wallet", [swapper |-> <<m>>])
           \/ m.type = "SwapRequest"
                /\ Done("wallet", [status |-> <<Receipt(m.id, m.blob)>>, swapper |-> <<m>>])
        /\ UNCHANGED <<world, memory, disk>>
  BY DEF WalletRoutes
<1>2. chan["wallet"] # <<>> /\ m = Head(chan["wallet"]) /\ m \in Carries("wallet")
  BY <1>1, FirstMessage DEF Takes, Channels
<1>3. m \in {Bootload} \cup {Request(s, Posted(s)) : s \in Swaps}
  BY <1>2, Carried
<1>4. CASE m.type = "Bootload" /\ Done("wallet", [swapper |-> <<m>>])
  <2> DEFINE out == [swapper |-> <<m>>]
  <2>1. m = Bootload
    BY <1>3, <1>4, MessageFields
  <2>2. DOMAIN out = {"swapper"} /\ out["swapper"] = <<m>>
    OBVIOUS
  <2>3. /\ DOMAIN chan' = Channels
        /\ \A d \in Channels :
             chan'[d] = (IF d = "wallet" THEN Tail(chan[d]) ELSE chan[d])
                          \o (IF d \in DOMAIN out THEN out[d] ELSE <<>>)
    BY <1>4 DEF Done
  <2> HIDE DEF out
  <2>4. m \in Carries("swapper")
    BY <1>3, Carried
  <2>5. /\ Typed /\ chan'["wallet"] = Tail(chan["wallet"])
        /\ \A d \in Channels \ {"wallet"} :
             /\ d \notin DOMAIN out => chan'[d] = chan[d]
             /\ d \in DOMAIN out => chan'[d] = chan[d] \o out[d]
    <3>1. "wallet" \in Channels /\ DOMAIN out \subseteq Channels \ {"wallet"}
      BY <2>2 DEF Channels
    <3>2. \A d \in DOMAIN out : \E k \in Carries(d) : out[d] = <<k>>
      BY <2>2, <2>4
    <3> QED BY <1>2, <2>3, <3>1, <3>2, DoneSmall
  <2> QED BY <1>1, <1>2, <2>1, <2>2, <2>5 DEF Unmoved, Channels
<1>5. CASE /\ m.type = "SwapRequest"
           /\ Done("wallet", [status |-> <<Receipt(m.id, m.blob)>>, swapper |-> <<m>>])
  <2> DEFINE r == Receipt(m.id, m.blob)
             out == [status |-> <<r>>, swapper |-> <<m>>]
  <2>1. PICK s \in Swaps : m = Request(s, Posted(s))
    BY <1>3, <1>5, MessageFields
  <2>2. DOMAIN out = {"swapper", "status"} /\ out["swapper"] = <<m>> /\ out["status"] = <<r>>
    OBVIOUS
  <2>3. /\ DOMAIN chan' = Channels
        /\ \A d \in Channels :
             chan'[d] = (IF d = "wallet" THEN Tail(chan[d]) ELSE chan[d])
                          \o (IF d \in DOMAIN out THEN out[d] ELSE <<>>)
    BY <1>5 DEF Done
  <2> HIDE DEF out
  <2>4. m \in Carries("swapper")
    BY <1>3, Carried
  <2>5. r = Receipt(s, Posted(s))
    BY <2>1, MessageFields
  <2>6. r \in Carries("status")
    <3>1. r \in Messages
      BY <2>5, BlobsApart DEF Messages
    <3> QED BY <2>5, <3>1, Carried, MessageFields
  <2>7. /\ Typed /\ chan'["wallet"] = Tail(chan["wallet"])
        /\ \A d \in Channels \ {"wallet"} :
             /\ d \notin DOMAIN out => chan'[d] = chan[d]
             /\ d \in DOMAIN out => chan'[d] = chan[d] \o out[d]
    <3>1. "wallet" \in Channels /\ DOMAIN out \subseteq Channels \ {"wallet"}
      BY <2>2 DEF Channels
    <3>2. \A d \in DOMAIN out : \E k \in Carries(d) : out[d] = <<k>>
      BY <2>2, <2>4, <2>6
    <3> QED BY <1>2, <2>3, <3>1, <3>2, DoneSmall
  <2>8. Unmoved({"wallet", "swapper", "status"})
    BY <2>2, <2>7 DEF Unmoved
  <2>9. /\ chan'["swapper"] = chan["swapper"] \o <<Request(s, Posted(s))>>
        /\ chan'["status"] = chan["status"] \o <<Receipt(s, Posted(s))>>
    BY <2>1, <2>2, <2>5, <2>7 DEF Channels
  <2>10. Head(chan["wallet"]) = Request(s, Posted(s))
    BY <1>2, <2>1
  <2> QED BY <1>1, <1>2, <2>7, <2>8, <2>9, <2>10
<1> QED BY <1>1, <1>4, <1>5

LEMMA DropsEffect ==
  ASSUME TypeOK, NEW c \in Channels, chan[c] # <<>>, Done(c, Nothing)
  PROVE  Typed /\ Unmoved({c}) /\ chan'[c] = Tail(chan[c])
<1> DEFINE out == Nothing
<1>1. DOMAIN out = {}
  BY SmallSeqs DEF Nothing
<1>2. /\ DOMAIN chan' = Channels
      /\ \A e \in Channels :
           chan'[e] = (IF e = c THEN Tail(chan[e]) ELSE chan[e])
                        \o (IF e \in DOMAIN out THEN out[e] ELSE <<>>)
  BY DEF Done
<1> HIDE DEF out
<1>3. /\ Typed /\ chan'[c] = Tail(chan[c])
      /\ \A e \in Channels \ {c} : e \notin DOMAIN out => chan'[e] = chan[e]
  BY <1>1, <1>2, DoneSmall
<1> QED BY <1>1, <1>3 DEF Unmoved
(* The requests that the swapper task accepts: as posted, or filled.       *)
Accepted(c, s, blob) ==
  \/ c = "swapper" /\ blob = Posted(s)
  \/ c = "delayed_out" /\ s \in Delayed /\ blob \in Versions(s)

LEMMA AcceptedFirst ==
  ASSUME TypeOK, NEW c \in {"swapper", "delayed_out"}, NEW m, Takes(c, m), m.type = "SwapRequest"
  PROVE  /\ c \in Channels /\ chan[c] # <<>> /\ m = Head(chan[c]) /\ m \in Carries(c)
         /\ \E s \in Swaps, blob \in Blobs : m = Request(s, blob) /\ Accepted(c, s, blob)
<1>2. c \in Channels /\ chan[c] # <<>> /\ m = Head(chan[c]) /\ m \in Carries(c)
  <2>1. c \in Channels
    BY DEF Channels
  <2> QED BY <2>1, FirstMessage DEF Takes
<1>3. \E s \in Swaps, blob \in Blobs : m = Request(s, blob) /\ Accepted(c, s, blob)
  <2>1. CASE c = "swapper"
    <3>1. PICK s \in Swaps : m = Request(s, Posted(s))
      BY <1>2, <2>1, Carried, MessageFields
    <3> QED BY <2>1, <3>1, BlobsApart DEF Accepted
  <2>2. CASE c = "delayed_out"
    <3>1. m \in Updates \cup Deletes \cup {k \in Fillings : k.blob \in Versions(k.id)}
      BY <1>2, <2>2, Carried
    <3>2. m \notin Updates
      BY MessageFields
    <3>3. m \notin Deletes
      BY MessageFields DEF Deletes
    <3>4. PICK s \in Delayed, f \in Fills : m = Request(s, f)
      BY <3>1, <3>2, <3>3 DEF Fillings
    <3>5. f \in Versions(s)
      BY <3>1, <3>2, <3>3, <3>4, MessageFields
    <3> QED BY <2>2, <3>4, <3>5 DEF Accepted, Blobs, Executable
  <2> QED BY <2>1, <2>2
<1> QED BY <1>2, <1>3

LEMMA AcceptsEffect ==
  ASSUME TypeOK, NEW c \in {"swapper", "delayed_out"}, SwapperAccepts(c)
  PROVE  /\ chan[c] # <<>> /\ Typed /\ chan'[c] = Tail(chan[c])
         /\ UNCHANGED <<world, memory, receipts>>
         /\ \E s \in Swaps, blob \in Blobs :
              /\ Head(chan[c]) = Request(s, blob) /\ Accepted(c, s, blob)
              /\ \/ /\ "disk" \in Faults /\ Unmoved({c})
                    /\ UNCHANGED tables \/ PutPending(s, blob)
                 \/ /\ PutSwap(s, blob) /\ Unmoved({c, Child(blob)})
                    /\ chan'[Child(blob)] = chan[Child(blob)] \o <<Request(s, blob)>>
<1>1. PICK m \in Messages :
        /\ Takes(c, m) /\ m.type = "SwapRequest"
        /\ \/ PutSwap(m.id, m.blob) /\ Done(c, [d \in {Child(m.blob)} |-> <<m>>])
           \/ /\ "disk" \in Faults
              /\ PutPending(m.id, m.blob) \/ UNCHANGED tables
              /\ Done(c, Nothing)
        /\ UNCHANGED <<world, memory, receipts>>
  BY DEF SwapperAccepts
<1>2. c \in Channels /\ chan[c] # <<>> /\ m = Head(chan[c]) /\ m \in Carries(c)
  BY <1>1, AcceptedFirst
<1>4. PICK s \in Swaps, blob \in Blobs : m = Request(s, blob) /\ Accepted(c, s, blob)
  BY <1>1, AcceptedFirst
<1>5. CASE /\ "disk" \in Faults
           /\ PutPending(m.id, m.blob) \/ UNCHANGED tables
           /\ Done(c, Nothing)
  <2>1. PutPending(s, blob) \/ UNCHANGED tables
    BY <1>4, <1>5, MessageFields
  <2> QED BY <1>1, <1>2, <1>4, <1>5, <2>1, DropsEffect
<1>6. CASE PutSwap(m.id, m.blob) /\ Done(c, [d \in {Child(m.blob)} |-> <<m>>])
  <2> DEFINE child == Child(m.blob)
             out == [d \in {child} |-> <<m>>]
  <2>1. m.blob = blob /\ m.id = s
    BY <1>4, MessageFields
  <2>2. DOMAIN out = {child} /\ out[child] = <<m>>
    OBVIOUS
  <2>3. /\ DOMAIN chan' = Channels
        /\ \A d \in Channels :
             chan'[d] = (IF d = c THEN Tail(chan[d]) ELSE chan[d])
                          \o (IF d \in DOMAIN out THEN out[d] ELSE <<>>)
    BY <1>6 DEF Done
  <2>4. child \in Channels \ {c}
    BY DEF Child, Channels
  <2>5. m \in Carries(child)
    <3>1. CASE blob = "delay"
      <4>1. s \in Delayed
        BY <1>4, <3>1, BlobsApart DEF Accepted, Posted
      <4> QED BY <1>4, <2>1, <3>1, <4>1, Carried DEF Child
    <3>2. CASE blob # "delay"
      <4>1. blob \in Versions(s)
        BY <1>4, <3>2, BlobsApart DEF Accepted
      <4> QED BY <1>4, <2>1, <3>2, <4>1, Carried DEF Child
    <3> QED BY <3>1, <3>2
  <2> HIDE DEF out, child
  <2>6. DOMAIN out \subseteq Channels \ {c} /\ \A d \in DOMAIN out : \E k \in Carries(d) : out[d] = <<k>>
    BY <2>2, <2>4, <2>5
  <2>7. /\ Typed /\ chan'[c] = Tail(chan[c])
        /\ \A d \in Channels \ {c} :
             /\ d \notin DOMAIN out => chan'[d] = chan[d]
             /\ d \in DOMAIN out => chan'[d] = chan[d] \o out[d]
    BY <1>2, <2>3, <2>6, DoneSmall
  <2>8. Unmoved({c, child}) /\ chan'[child] = chan[child] \o <<m>>
    BY <2>2, <2>4, <2>7 DEF Unmoved
  <2>9. PutSwap(s, blob) /\ child = Child(blob)
    BY <1>6, <2>1 DEF child
  <2> QED BY <1>1, <1>2, <1>4, <2>7, <2>8, <2>9
<1> QED BY <1>1, <1>5, <1>6

LEMMA StoresEffect ==
  ASSUME TypeOK, StatusStores
  PROVE  /\ chan["status"] # <<>> /\ Typed /\ Unmoved({"status"})
         /\ chan'["status"] = Tail(chan["status"])
         /\ \/ Head(chan["status"]).type = "Receipt" /\ PutReceipt(Head(chan["status"]))
            \/ Head(chan["status"]).type = "ReceiptUpdate" /\ UpdateReceipt(Head(chan["status"]))
            \/ "disk" \in Faults /\ UNCHANGED receipts
         /\ UNCHANGED <<world, memory, tables>>
<1>1. PICK m \in Messages :
        /\ Takes("status", m)
        /\ PutReceipt(m) \/ UpdateReceipt(m) \/ ("disk" \in Faults /\ UNCHANGED receipts)
        /\ Done("status", Nothing)
        /\ UNCHANGED <<world, memory, tables>>
  BY DEF StatusStores
<1>2. "status" \in Channels /\ chan["status"] # <<>> /\ m = Head(chan["status"])
  BY <1>1 DEF Takes, Channels
<1>3. Typed /\ Unmoved({"status"}) /\ chan'["status"] = Tail(chan["status"])
  BY <1>1, <1>2, DropsEffect
<1>4. \/ m.type = "Receipt" /\ PutReceipt(m)
      \/ m.type = "ReceiptUpdate" /\ UpdateReceipt(m)
      \/ "disk" \in Faults /\ UNCHANGED receipts
  BY <1>1 DEF PutReceipt, UpdateReceipt
<1> QED BY <1>1, <1>2, <1>3, <1>4

LEMMA WalletForwardsEffect ==
  ASSUME TypeOK, WalletForwards
  PROVE  /\ chan["swapper_out"] # <<>> /\ Typed /\ Unmoved({"swapper_out", "status"})
         /\ Head(chan["swapper_out"]) \in Updates
         /\ chan'["swapper_out"] = Tail(chan["swapper_out"])
         /\ chan'["status"] = chan["status"] \o <<Head(chan["swapper_out"])>>
         /\ UNCHANGED <<world, memory, disk>>
<1>1. PICK m \in Messages : /\ Takes("swapper_out", m)
                            /\ Done("swapper_out", [status |-> <<m>>])
                            /\ UNCHANGED <<world, memory, disk>>
  BY DEF WalletForwards
<1> DEFINE out == [status |-> <<m>>]
<1>2. DOMAIN out = {"status"} /\ out["status"] = <<m>>
  OBVIOUS
<1>3. /\ DOMAIN chan' = Channels
      /\ \A e \in Channels :
           chan'[e] = (IF e = "swapper_out" THEN Tail(chan[e]) ELSE chan[e])
                        \o (IF e \in DOMAIN out THEN out[e] ELSE <<>>)
  BY <1>1 DEF Done
<1> HIDE DEF out
<1>4. /\ m \in Updates
      /\ chan["swapper_out"] # <<>> /\ m = Head(chan["swapper_out"])
  <2>1. m \in Carries("swapper_out")
    BY <1>1, FirstMessage DEF Takes, Channels
  <2> QED BY <1>1, <2>1, Carried DEF Takes
<1>5. /\ "swapper_out" \in Channels /\ DOMAIN out \subseteq Channels \ {"swapper_out"}
      /\ \A e \in DOMAIN out : \E k \in Carries(e) : out[e] = <<k>>
  BY <1>2, <1>4, Carried DEF Channels
<1>6. /\ Typed /\ chan'["swapper_out"] = Tail(chan["swapper_out"])
      /\ \A e \in Channels \ {"swapper_out"} :
           /\ e \notin DOMAIN out => chan'[e] = chan[e]
           /\ e \in DOMAIN out => chan'[e] = chan[e] \o out[e]
  BY <1>3, <1>4, <1>5, DoneSmall
<1>7. Unmoved({"swapper_out", "status"}) /\ chan'["status"] = chan["status"] \o <<m>>
  BY <1>2, <1>6 DEF Unmoved, Channels
<1> QED BY <1>1, <1>4, <1>6, <1>7

LEMMA SwapperForwardsEffect ==
  ASSUME TypeOK, NEW c \in {"immediate_out", "delayed_out"}, SwapperForwards(c)
  PROVE  /\ chan[c] # <<>> /\ Typed /\ Unmoved({c, "swapper_out"})
         /\ Head(chan[c]) \in Updates
         /\ chan'[c] = Tail(chan[c])
         /\ chan'["swapper_out"] = chan["swapper_out"] \o <<Head(chan[c])>>
         /\ UNCHANGED <<world, memory, disk>>
<1>1. PICK m \in Messages : /\ Takes(c, m) /\ m.type = "ReceiptUpdate"
                            /\ Done(c, [swapper_out |-> <<m>>])
                            /\ UNCHANGED <<world, memory, disk>>
  BY DEF SwapperForwards
<1> DEFINE out == [swapper_out |-> <<m>>]
<1>2. DOMAIN out = {"swapper_out"} /\ out["swapper_out"] = <<m>>
  OBVIOUS
<1>3. /\ DOMAIN chan' = Channels
      /\ \A e \in Channels :
           chan'[e] = (IF e = c THEN Tail(chan[e]) ELSE chan[e])
                        \o (IF e \in DOMAIN out THEN out[e] ELSE <<>>)
  BY <1>1 DEF Done
<1> HIDE DEF out
<1>4. m \in Updates /\ chan[c] # <<>> /\ m = Head(chan[c])
  BY <1>1 DEF Takes, Updates
<1>5. /\ c \in Channels /\ DOMAIN out \subseteq Channels \ {c}
      /\ \A e \in DOMAIN out : \E k \in Carries(e) : out[e] = <<k>>
  BY <1>2, <1>4, Carried DEF Channels
<1>6. /\ Typed /\ chan'[c] = Tail(chan[c])
      /\ \A e \in Channels \ {c} :
           /\ e \notin DOMAIN out => chan'[e] = chan[e]
           /\ e \in DOMAIN out => chan'[e] = chan[e] \o out[e]
  BY <1>3, <1>4, <1>5, DoneSmall
<1>7. Unmoved({c, "swapper_out"}) /\ chan'["swapper_out"] = chan["swapper_out"] \o <<m>>
  BY <1>2, <1>6 DEF Unmoved, Channels
<1> QED BY <1>1, <1>4, <1>6, <1>7

LEMMA DeletesEffect ==
  ASSUME TypeOK, NEW c \in {"immediate_out", "delayed_out"}, SwapperDeletes(c)
  PROVE  /\ chan[c] # <<>> /\ Typed /\ Unmoved({c}) /\ chan'[c] = Tail(chan[c])
         /\ \E s \in Swaps :
              /\ Head(chan[c]) = DeleteSwap(s)
              /\ \/ pending' = [pending EXCEPT ![s] = "none"]
                 \/ "disk" \in Faults /\ UNCHANGED pending
         /\ UNCHANGED <<world, memory, known, accepted, receipts>>
<1>1. PICK m \in Messages :
        /\ Takes(c, m) /\ m.type = "DeleteSwap"
        /\ pending' = [pending EXCEPT ![m.id] = "none"]
             \/ ("disk" \in Faults /\ UNCHANGED pending)
        /\ Done(c, Nothing)
        /\ UNCHANGED <<world, memory, known, accepted, receipts>>
  BY DEF SwapperDeletes
<1>2. c \in Channels /\ chan[c] # <<>> /\ m = Head(chan[c])
  BY <1>1 DEF Takes, Channels
<1>3. PICK s \in Swaps : m = DeleteSwap(s)
  BY <1>1 DEF Messages, Update, Bootload, Request, Receipt, DeleteSwap
<1>4. m.id = s
  BY <1>3, MessageFields
<1>5. Typed /\ Unmoved({c}) /\ chan'[c] = Tail(chan[c])
  BY <1>1, <1>2, DropsEffect
<1>6. \/ pending' = [pending EXCEPT ![s] = "none"]
      \/ "disk" \in Faults /\ UNCHANGED pending
  BY <1>1, <1>4
<1>7. Head(chan[c]) = DeleteSwap(s)
  BY <1>2, <1>3
<1> QED BY <1>1, <1>2, <1>5, <1>6, <1>7
-----------------------------------------------------------------------------
(* What the children do, swap by swap                                      *)

LEMMA AskOutcome ==
  ASSUME TypeOK, DelayedTakes \/ DelayedTicks
  PROVE  \E asked \in SUBSET Delayed :
           /\ Typed /\ Unmoved({"delayed", "delayed_out"})
           /\ \/ /\ chan["delayed"] # <<>> /\ chan'["delayed"] = Tail(chan["delayed"])
                 /\ \E s : asked = {s} /\ Head(chan["delayed"]) = Request(s, "delay")
              \/ chan'["delayed"] = chan["delayed"] /\ asked = asking /\ asking # {}
           /\ \E out \in Seq(Carries("delayed_out")) :
                /\ chan'["delayed_out"] = chan["delayed_out"] \o out
                /\ \A s : (About(s, out) <=> s \in asked \ asking') /\ Once(s, out)
                /\ \A m \in ToSet(out) : m.id \in asked
                /\ Conclusive(out) /\ OnlyFinals(out)
           /\ asking' \subseteq asking \cup asked /\ asking \ asked \subseteq asking'
           /\ UNCHANGED <<world, running, executed, disk>>
<1>1. CASE DelayedTakes
  <2>1. PICK m \in Messages : Takes("delayed", m) /\ Ask("delayed", <<m.id>>)
    BY <1>1 DEF DelayedTakes
  <2>2. chan["delayed"] # <<>> /\ m = Head(chan["delayed"]) /\ m \in Carries("delayed")
    BY <2>1, FirstMessage DEF Takes, Channels
  <2>3. PICK s \in Delayed : m = Request(s, "delay")
    BY <2>2, Carried
  <2> DEFINE order == <<s>>
             c == "delayed"
  <2>4. Ask(c, order)
    BY <2>1, <2>3, MessageFields
  <2>5. DOMAIN order = {1} /\ order[1] = s /\ order \in Seq(Delayed)
    BY SmallSeqs
  <2>6. ToSet(order) = {s} /\ \A i, j \in DOMAIN order : order[i] = order[j] => i = j
    BY <2>5 DEF ToSet
  <2>7. c \in {"delayed", "tick"} /\ (c = "delayed" => chan[c] # <<>>)
    BY <2>2
  <2> HIDE DEF order, c
  <2>8. /\ Typed /\ Unmoved({"delayed", "delayed_out"})
        /\ chan'["delayed"] = IF c = "delayed" THEN Tail(chan["delayed"]) ELSE chan["delayed"]
        /\ \E out \in Seq(Carries("delayed_out")) :
             /\ chan'["delayed_out"] = chan["delayed_out"] \o out
             /\ \A t : /\ About(t, out) <=> t \in ToSet(order) \ asking'
                       /\ Once(t, out)
             /\ \A k \in ToSet(out) : k.id \in ToSet(order)
             /\ Conclusive(out) /\ OnlyFinals(out)
        /\ asking' \subseteq asking \cup ToSet(order)
        /\ asking \ ToSet(order) \subseteq asking'
        /\ UNCHANGED <<world, running, executed, disk>>
    BY <2>4, <2>5, <2>6, <2>7, AskEffect
  <2>9. chan'["delayed"] = Tail(chan["delayed"])
    BY <2>8 DEF c
  <2>10. ToSet(order) \in SUBSET Delayed
    BY <2>6
  <2>11. Head(chan["delayed"]) = Request(s, "delay")
    BY <2>2, <2>3
  <2> WITNESS ToSet(order) \in SUBSET Delayed
  <2> QED BY <2>2, <2>6, <2>8, <2>9, <2>11
<1>2. CASE DelayedTicks
  <2>1. asking # {} /\ \E order \in SetToSeqs(asking) : Ask("tick", order)
    BY <1>2 DEF DelayedTicks
  <2>2. PICK order \in SetToSeqs(asking) : Ask("tick", order)
    BY <2>1
  <2>3. asking \subseteq Delayed /\ IsFiniteSet(asking)
    BY SwapsAreFinite DEF TypeOK
  <2>4. /\ order \in Seq(asking) /\ ToSet(order) = asking
        /\ \A i, j \in DOMAIN order : order[i] = order[j] => i = j
    BY <2>3, Orders
  <2>5. order \in Seq(Delayed)
    BY <2>3, <2>4, SeqMonotonic
  <2> DEFINE c == "tick"
  <2>6. c \in {"delayed", "tick"} /\ (c = "delayed" => chan[c] # <<>>) /\ Ask(c, order)
    BY <2>2
  <2> HIDE DEF c
  <2>7. /\ Typed /\ Unmoved({"delayed", "delayed_out"})
        /\ chan'["delayed"] = IF c = "delayed" THEN Tail(chan["delayed"]) ELSE chan["delayed"]
        /\ \E out \in Seq(Carries("delayed_out")) :
             /\ chan'["delayed_out"] = chan["delayed_out"] \o out
             /\ \A t : /\ About(t, out) <=> t \in ToSet(order) \ asking'
                       /\ Once(t, out)
             /\ \A k \in ToSet(out) : k.id \in ToSet(order)
             /\ Conclusive(out) /\ OnlyFinals(out)
        /\ asking' \subseteq asking \cup ToSet(order)
        /\ asking \ ToSet(order) \subseteq asking'
        /\ UNCHANGED <<world, running, executed, disk>>
    BY <2>4, <2>5, <2>6, AskEffect
  <2>8. chan'["delayed"] = chan["delayed"]
    BY <2>7 DEF c
  <2>9. asking \in SUBSET Delayed
    BY <2>3
  <2> WITNESS asking \in SUBSET Delayed
  <2> QED BY <2>1, <2>4, <2>7, <2>8
<1> QED BY <1>1, <1>2
(* requested[s] is the blob with which s is executed; it is in the map     *)
(* afterwards, or gone from it, or was not built.                          *)
ExecutedAs(s, blob, over) ==
  \/ over /\ running'[s] = "none" /\ <<s, blob>> \in executed'
  \/ ~over /\ running'[s] = blob /\ <<s, blob>> \in executed'
  \/ ~over /\ "build" \in Faults /\ running'[s] = running[s]

(* What a message or a tick of the immediate swapper asks of Execute.      *)
Asked(c, requests, T, requested) ==
  /\ c = "immediate" => chan[c] # <<>>
  /\ \A i, j \in DOMAIN requests : requests[i].id = requests[j].id => i = j
  /\ Execute(c, requests)
  /\ \A i \in DOMAIN requests : /\ requests[i].id \in T
                                /\ requests[i].blob = requested[requests[i].id]
  /\ \A s \in T : /\ \E i \in DOMAIN requests : requests[i].id = s
                  /\ requested[s] \in Versions(s)
  /\ \/ /\ c = "immediate"
        /\ \E s \in Swaps : T = {s} /\ Head(chan["immediate"]) = Request(s, requested[s])
     \/ /\ c = "tick" /\ T = {s \in Swaps : running[s] # "none"} /\ T # {}
        /\ \A s \in T : requested[s] = running[s]

LEMMA ExecuteOutcome ==
  ASSUME TypeOK, ImmediateTakes \/ ImmediateTicks
  PROVE  \E T \in SUBSET Swaps : \E requested \in [T -> Executable] :
           /\ \A s \in T : requested[s] \in Versions(s)
           /\ Typed /\ Unmoved({"immediate", "immediate_out"})
           /\ \/ /\ chan["immediate"] # <<>> /\ chan'["immediate"] = Tail(chan["immediate"])
                 /\ \E s \in Swaps : /\ T = {s}
                                     /\ Head(chan["immediate"]) = Request(s, requested[s])
              \/ /\ chan'["immediate"] = chan["immediate"]
                 /\ T = {s \in Swaps : running[s] # "none"} /\ T # {}
                 /\ \A s \in T : requested[s] = running[s]
           /\ \E out \in Seq(Carries("immediate_out")) :
                /\ chan'["immediate_out"] = chan["immediate_out"] \o out
                /\ \A s : Once(s, out) /\ (About(s, out) => s \in T)
                /\ \A s \in T : ExecutedAs(s, requested[s], About(s, out))
                /\ \A m \in ToSet(out) : m.id \in T /\ <<m.id, requested[m.id]>> \in executed'
                /\ Conclusive(out)
           /\ DOMAIN running' = Swaps
           /\ \A s \in Swaps \ T : running'[s] = running[s]
           /\ executed \subseteq executed'
           /\ executed' \subseteq executed \cup {<<s, requested[s]>> : s \in T}
           /\ UNCHANGED <<world, asking, disk>>
<1>1. \E c \in {"immediate", "tick"}, requests \in Seq(Executions), T \in SUBSET Swaps :
        \E requested \in [T -> Executable] : Asked(c, requests, T, requested)
  <2>1. CASE ImmediateTakes
    <3>1. PICK m \in Messages : Takes("immediate", m) /\ Execute("immediate", <<m>>)
      BY <2>1 DEF ImmediateTakes
    <3>2. chan["immediate"] # <<>> /\ m = Head(chan["immediate"]) /\ m \in Carries("immediate")
      BY <3>1, FirstMessage DEF Takes, Channels
    <3>3. m \in Executions
      BY <3>2, Carried DEF Executions
    <3>4. /\ m.id \in Swaps /\ m.blob \in Versions(m.id) /\ m = Request(m.id, m.blob)
          /\ m.blob \in Executable
      BY <3>3, ExecutionFields, BlobsApart
    <3> DEFINE requests == <<m>>
               T == {m.id}
               requested == [s \in T |-> m.blob]
               c == "immediate"
    <3>5. requests \in Seq(Executions) /\ DOMAIN requests = {1} /\ requests[1] = m
      BY <3>3, SmallSeqs
    <3>6. requested \in [T -> Executable] /\ requested[m.id] = m.blob /\ T \in SUBSET Swaps
      BY <3>4
    <3>7. Execute(c, requests) /\ c \in {"immediate", "tick"} /\ c = "immediate"
      BY <3>1
    <3>8. T = {m.id}
      OBVIOUS
    <3> HIDE DEF requests, T, requested, c
    <3>9. \A i, j \in DOMAIN requests : requests[i].id = requests[j].id => i = j
      BY <3>5
    <3>10. /\ \A i \in DOMAIN requests : /\ requests[i].id \in T
                                         /\ requests[i].blob = requested[requests[i].id]
           /\ \A s \in T : /\ \E i \in DOMAIN requests : requests[i].id = s
                           /\ requested[s] \in Versions(s)
      BY <3>4, <3>5, <3>6, <3>8
    <3>11. \E s \in Swaps : T = {s} /\ Head(chan["immediate"]) = Request(s, requested[s])
      BY <3>2, <3>4, <3>6, <3>8
    <3> /\ c \in {"immediate", "tick"} /\ requests \in Seq(Executions)
        /\ T \in SUBSET Swaps /\ requested \in [T -> Executable]
      BY <3>5, <3>6, <3>7
    <3> WITNESS c \in {"immediate", "tick"}, requests \in Seq(Executions), T \in SUBSET Swaps
    <3> WITNESS requested \in [T -> Executable]
    <3> QED BY <3>2, <3>7, <3>9, <3>10, <3>11 DEF Asked
  <2>2. CASE ImmediateTicks
    <3> DEFINE T == {s \in Swaps : running[s] # "none"}
    <3>1. T # {} /\ \E order \in SetToSeqs(T) :
            Execute("tick", [i \in DOMAIN order |-> Request(order[i], running[order[i]])])
      BY <2>2 DEF ImmediateTicks
    <3>2. PICK order \in SetToSeqs(T) :
            Execute("tick", [i \in DOMAIN order |-> Request(order[i], running[order[i]])])
      BY <3>1
    <3>3. /\ order \in Seq(T) /\ ToSet(order) = T
          /\ \A i, j \in DOMAIN order : order[i] = order[j] => i = j
      BY SwapsAreFinite, Orders
    <3> DEFINE n == Len(order)
               requests == [i \in 1..n |-> Request(order[i], running[order[i]])]
               requested == [s \in T |-> running[s]]
               c == "tick"
    <3>4. /\ n \in Nat /\ DOMAIN order = 1..n /\ \A i \in 1..n : order[i] \in T
          /\ T = {order[i] : i \in 1..n}
      BY <3>3, LenProperties, ElementOfSeq DEF ToSet
    <3>5. \A s \in T : running[s] \in Versions(s) /\ running[s] \in Executable /\ s \in Swaps
      BY DEF TypeOK
    <3>6. T \in SUBSET Swaps /\ requested \in [T -> Executable] /\ \A s \in T : requested[s] = running[s]
      BY <3>5
    <3>7. Execute(c, requests) /\ c \in {"immediate", "tick"} /\ c = "tick"
      BY <3>2, <3>4
    <3>8. requests \in Seq(Executions)
      <4>1. \A i \in 1..n : requests[i] \in Executions
        BY <3>4, <3>5 DEF Executions
      <4>2. requests \in [1..n -> Executions]
        BY <4>1
      <4> HIDE DEF requests, n
      <4> QED BY <3>4, <4>2, FcnIsSeq
    <3>9. /\ DOMAIN requests = 1..n
          /\ \A i \in 1..n : requests[i].id = order[i] /\ requests[i].blob = running[order[i]]
      BY MessageFields
    <3>10. T = {s \in Swaps : running[s] # "none"}
      OBVIOUS
    <3> HIDE DEF requests, requested, c, n, T
    <3>11. \A i, j \in DOMAIN requests : requests[i].id = requests[j].id => i = j
      <4> SUFFICES ASSUME NEW i \in 1..n, NEW j \in 1..n, requests[i].id = requests[j].id
                   PROVE  i = j
        BY <3>9
      <4>1. order[i] = order[j]
        BY <3>9
      <4> QED BY <3>3, <3>4, <4>1
    <3>12. \A i \in DOMAIN requests : /\ requests[i].id \in T
                                      /\ requests[i].blob = requested[requests[i].id]
      <4> SUFFICES ASSUME NEW i \in 1..n
                   PROVE  requests[i].id \in T /\ requests[i].blob = requested[requests[i].id]
        BY <3>9
      <4>1. order[i] \in T /\ requests[i].id = order[i] /\ requests[i].blob = running[order[i]]
        BY <3>4, <3>9
      <4>2. requested[order[i]] = running[order[i]]
        BY <3>6, <4>1
      <4> QED BY <4>1, <4>2
    <3>13. \A s \in T : /\ \E i \in DOMAIN requests : requests[i].id = s
                        /\ requested[s] \in Versions(s)
      <4> SUFFICES ASSUME NEW s \in T
                   PROVE  /\ \E i \in 1..n : requests[i].id = s
                          /\ requested[s] \in Versions(s)
        BY <3>9
      <4>1. \E i \in 1..n : order[i] = s
        BY <3>4
      <4>2. requested[s] \in Versions(s)
        BY <3>5, <3>6
      <4> QED BY <3>9, <4>1, <4>2
    <3> /\ c \in {"immediate", "tick"} /\ requests \in Seq(Executions)
        /\ T \in SUBSET Swaps /\ requested \in [T -> Executable]
      BY <3>6, <3>7, <3>8
    <3> WITNESS c \in {"immediate", "tick"}, requests \in Seq(Executions), T \in SUBSET Swaps
    <3> WITNESS requested \in [T -> Executable]
    <3> QED BY <3>1, <3>6, <3>7, <3>10, <3>11, <3>12, <3>13 DEF Asked
  <2> QED BY <2>1, <2>2
<1>2. PICK c \in {"immediate", "tick"}, requests \in Seq(Executions), T \in SUBSET Swaps :
        \E requested \in [T -> Executable] : Asked(c, requests, T, requested)
  BY <1>1
<1>9. PICK requested \in [T -> Executable] : Asked(c, requests, T, requested)
  BY <1>2
<1>10. /\ c = "immediate" => chan[c] # <<>>
       /\ \A i, j \in DOMAIN requests : requests[i].id = requests[j].id => i = j
       /\ Execute(c, requests)
  BY <1>9 DEF Asked
<1>11. \A i \in DOMAIN requests : /\ requests[i].id \in T
                                  /\ requests[i].blob = requested[requests[i].id]
  BY <1>9 DEF Asked
<1>12. \A s \in T : /\ \E i \in DOMAIN requests : requests[i].id = s
                    /\ requested[s] \in Versions(s)
  BY <1>9 DEF Asked
<1>3. PICK outcome \in [DOMAIN requests -> Outcomes], out \in Seq(Carries("immediate_out")) :
        ExecutesWith(c, requests, outcome, out)
  BY <1>10, ExecuteEffect
<1>13. /\ Typed /\ Unmoved({"immediate", "immediate_out"})
       /\ chan'["immediate"] = IF c = "immediate" THEN Tail(chan["immediate"])
                               ELSE chan["immediate"]
       /\ chan'["immediate_out"] = chan["immediate_out"] \o out
       /\ DOMAIN running' = Swaps
       /\ UNCHANGED <<world, asking, disk>>
  BY <1>3 DEF ExecutesWith
<1>14. \A s : /\ About(s, out) <=> \E i \in DOMAIN requests :
                                     requests[i].id = s /\ outcome[i] = "Ended"
              /\ Once(s, out)
  BY <1>3 DEF ExecutesWith
<1>15. \A i \in DOMAIN requests :
         running'[requests[i].id] =
           IF outcome[i] = "Ended" THEN "none"
           ELSE IF outcome[i] = "NotBuilt" THEN running[requests[i].id]
           ELSE requests[i].blob
  BY <1>3 DEF ExecutesWith
<1>16. executed' = executed \cup {<<requests[i].id, requests[i].blob>> :
                                  i \in {j \in DOMAIN requests : outcome[j] # "NotBuilt"}}
  BY <1>3 DEF ExecutesWith
<1>4. /\ \A s : About(s, out) => s \in T
      /\ \A m \in ToSet(out) : m.id \in T /\ <<m.id, requested[m.id]>> \in executed'
      /\ Conclusive(out)
  <2>1. /\ \A m \in ToSet(out) : \E i \in DOMAIN requests :
             requests[i].id = m.id /\ outcome[i] # "NotBuilt"
        /\ Conclusive(out)
    BY <1>3 DEF ExecutesWith
  <2>2. \A s : About(s, out) => s \in T
    BY <1>11, <1>14
  <2>3. ASSUME NEW m \in ToSet(out)
        PROVE  m.id \in T /\ <<m.id, requested[m.id]>> \in executed'
    <3>1. PICK i \in DOMAIN requests : requests[i].id = m.id /\ outcome[i] # "NotBuilt"
      BY <2>1
    <3>2. m.id \in T /\ requests[i].blob = requested[m.id]
      BY <1>11, <3>1
    <3>3. <<requests[i].id, requests[i].blob>> \in executed'
      BY <1>16, <3>1
    <3> QED BY <3>1, <3>2, <3>3
  <2> QED BY <2>1, <2>2, <2>3
<1>5. ASSUME NEW s \in T
      PROVE  ExecutedAs(s, requested[s], About(s, out))
  <2>1. PICK i \in DOMAIN requests : requests[i].id = s
    BY <1>12
  <2>2. requests[i].blob = requested[s]
    BY <1>11, <2>1
  <2>3. About(s, out) <=> outcome[i] = "Ended"
    <3>1. \A j \in DOMAIN requests : requests[j].id = s => j = i
      BY <1>10, <2>1
    <3> QED BY <1>14, <2>1, <3>1
  <2>4. outcome[i] # "NotBuilt" => <<s, requested[s]>> \in executed'
    BY <1>16, <2>1, <2>2
  <2>5. running'[s] = IF outcome[i] = "Ended" THEN "none"
                      ELSE IF outcome[i] = "NotBuilt" THEN running[s] ELSE requested[s]
    BY <1>15, <2>1, <2>2
  <2>6. outcome[i] \in {"Working", "Ended", "NotBuilt"}
        /\ (outcome[i] = "NotBuilt" => "build" \in Faults)
    BY DEF Outcomes
  <2> QED BY <2>3, <2>4, <2>5, <2>6 DEF ExecutedAs
<1>6. \A s \in Swaps \ T : running'[s] = running[s]
  BY <1>3, <1>11 DEF ExecutesWith
<1>7. /\ executed \subseteq executed'
      /\ executed' \subseteq executed \cup {<<s, requested[s]>> : s \in T}
  BY <1>11, <1>16
<1>8. \/ /\ chan["immediate"] # <<>> /\ chan'["immediate"] = Tail(chan["immediate"])
         /\ \E s \in Swaps : T = {s} /\ Head(chan["immediate"]) = Request(s, requested[s])
      \/ /\ chan'["immediate"] = chan["immediate"]
         /\ T = {s \in Swaps : running[s] # "none"} /\ T # {}
         /\ \A s \in T : requested[s] = running[s]
  <2>1. CASE c = "immediate"
    BY <1>9, <1>13, <2>1 DEF Asked
  <2>2. CASE c = "tick"
    BY <1>9, <1>13, <2>2 DEF Asked
  <2> QED BY <2>1, <2>2
<1> WITNESS T \in SUBSET Swaps
<1> WITNESS requested \in [T -> Executable]
<1> QED BY <1>4, <1>5, <1>6, <1>7, <1>8, <1>12, <1>13, <1>14
-----------------------------------------------------------------------------
(* Types                                                                   *)

LEMMA TypeInit ==
  Init => TypeOK
<1> SUFFICES ASSUME Init PROVE TypeOK
  OBVIOUS
<1>1. DOMAIN chan = Channels /\ \A c \in Channels : chan[c] \in Seq(Carries(c))
  BY SmallSeqs DEF Init
<1> QED BY <1>1 DEF Init, TypeOK

(* The steps that change no swap's blob and no receipt.                    *)
LEMMA TypeKept ==
  ASSUME TypeOK, Typed, UNCHANGED <<running, executed, disk>>,
         posted' \subseteq Swaps, boots' \in Nat, crashes' \in Nat, asking' \subseteq Delayed
  PROVE  TypeOK'
BY DEF TypeOK, Typed, disk, tables

LEMMA TypeReceipts ==
  ASSUME TypeOK, StatusStores
  PROVE  receipts' \in [Swaps -> [status : Statuses, blob : Blobs] \cup {NoReceipt}]
<1> DEFINE m == Head(chan["status"])
           R == [status : Statuses, blob : Blobs]
<1>1. /\ \/ m.type = "Receipt" /\ PutReceipt(m)
         \/ m.type = "ReceiptUpdate" /\ UpdateReceipt(m)
         \/ UNCHANGED receipts
      /\ chan["status"] # <<>>
  BY StoresEffect
<1>2. m \in Carries("status")
  BY <1>1, FirstMessage DEF Channels
<1>3. m \in Updates \/ (m \in Messages /\ m.type = "Receipt")
  BY <1>2, Carried
<1> HIDE DEF m
<1>4. receipts \in [Swaps -> R \cup {NoReceipt}]
  BY DEF TypeOK
<1>5. CASE m.type = "Receipt" /\ PutReceipt(m)
  <2>1. m.id \in Swaps /\ m.blob \in Blobs
    BY <1>3, <1>5, ReceiptFields, UpdateFields
  <2>2. [status |-> "Inactive", blob |-> m.blob] \in R
    BY <2>1 DEF Statuses
  <2> QED BY <1>4, <1>5, <2>1, <2>2 DEF PutReceipt
<1>6. CASE m.type = "ReceiptUpdate" /\ UpdateReceipt(m)
  <2>1. m \in Updates
    BY <1>3, <1>6
  <2>2. /\ m.id \in Swaps /\ m.status \in Statuses \cup {"same"}
        /\ m.blob \in Fills \cup {"same"}
    BY <2>1, UpdateFields
  <2> DEFINE r == receipts[m.id]
             new == [status |-> Merge(r.status, m.status), blob |-> Merge(r.blob, m.blob)]
  <2>3. r \in R \cup {NoReceipt}
    BY <1>4, <2>2
  <2>4. r # NoReceipt => new \in R
    BY <2>2, <2>3 DEF Merge, Blobs, Executable
  <2>5. receipts' = IF r = NoReceipt THEN receipts ELSE [receipts EXCEPT ![m.id] = new]
    BY <1>6 DEF UpdateReceipt
  <2> HIDE DEF r, new, R
  <2> QED BY <1>4, <2>2, <2>4, <2>5 DEF R
<1> QED BY <1>1, <1>4, <1>5, <1>6

LEMMA TypeStep ==
  TypeOK /\ [Next]_vars => TypeOK'
<1> SUFFICES ASSUME TypeOK, [Next]_vars
             PROVE  TypeOK'
  OBVIOUS
<1>1. CASE SendBootload
  <2>1. Bootload \in Carries("wallet")
    BY Carried
  <2>2. Typed
    BY <1>1, <2>1, AppendProperties DEF SendBootload, TypeOK, Typed, Channels
  <2> QED BY <1>1, <2>2, TypeKept DEF SendBootload, TypeOK, memory
<1>2. ASSUME NEW s \in Swaps, PostSwap(s)
      PROVE  TypeOK'
  <2>1. Request(s, Posted(s)) \in Carries("wallet")
    BY Carried
  <2>2. Typed
    BY <1>2, <2>1, AppendProperties DEF PostSwap, TypeOK, Typed, Channels
  <2> QED BY <1>2, <2>2, TypeKept DEF PostSwap, TypeOK, memory
<1>3. CASE Crash
  <2>1. DOMAIN chan' = Channels /\ \A c \in Channels : chan'[c] \in Seq(Carries(c))
    BY <1>3, SmallSeqs DEF Crash
  <2>2. \/ UNCHANGED tables
        \/ \E c \in {"swapper", "delayed_out"}, m \in Messages :
             Takes(c, m) /\ m.type = "SwapRequest" /\ PutPending(m.id, m.blob)
    BY <1>3 DEF Crash
  <2>3. CASE UNCHANGED tables
    BY <1>3, <2>1, <2>3 DEF Crash, TypeOK, tables
  <2>4. ASSUME NEW c \in {"swapper", "delayed_out"}, NEW m \in Messages,
               Takes(c, m), m.type = "SwapRequest", PutPending(m.id, m.blob)
        PROVE  TypeOK'
    <3>1. PICK s \in Swaps, blob \in Blobs : m = Request(s, blob) /\ Accepted(c, s, blob)
      BY <2>4, AcceptedFirst
    <3>2. PutPending(s, blob) /\ blob \in Versions(s) \cup {Posted(s)}
      BY <2>4, <3>1, MessageFields DEF Accepted
    <3>3. /\ pending' \in [Swaps -> Blobs \cup {"none"}]
          /\ known' \subseteq Swaps /\ accepted' \subseteq Swaps
          /\ \A t \in Swaps : pending'[t] \in Versions(t) \cup {Posted(t), "none"}
      BY <3>2 DEF TypeOK, PutPending
    <3> QED BY <1>3, <2>1, <3>3 DEF Crash, TypeOK
  <2> QED BY <2>2, <2>3, <2>4
<1>4. CASE WalletRoutes
  BY <1>4, RoutesEffect, TypeKept DEF TypeOK, world, memory
<1>5. CASE WalletForwards
  BY <1>5, WalletForwardsEffect, TypeKept DEF TypeOK, world, memory
<1>6. CASE StatusStores
  <2>1. Typed /\ UNCHANGED <<world, memory, tables>>
    BY <1>6, StoresEffect
  <2>2. receipts' \in [Swaps -> [status : Statuses, blob : Blobs] \cup {NoReceipt}]
    BY <1>6, TypeReceipts
  <2> QED BY <2>1, <2>2 DEF TypeOK, Typed, world, memory, tables
<1>7. CASE SwapperBootloads
  <2>1. chan["swapper"] # <<>> /\ UNCHANGED <<world, memory, disk>>
    BY <1>7 DEF SwapperBootloads, Takes
  <2>2. Typed
    <3>1. CASE \E order \in SetToSeqs({s \in Swaps : pending[s] # "none"}) : Resend(order)
      BY <2>1, <3>1, ResendEffect
    <3>2. CASE Done("swapper", Nothing)
      BY <2>1, <3>2, DropsEffect DEF Channels
    <3> QED BY <1>7, <3>1, <3>2 DEF SwapperBootloads
  <2> QED BY <2>1, <2>2, TypeKept DEF TypeOK, world, memory
<1>8. ASSUME NEW c \in {"swapper", "delayed_out"}, SwapperAccepts(c)
      PROVE  TypeOK'
  <2>1. Typed /\ UNCHANGED <<world, memory, receipts>>
    BY <1>8, AcceptsEffect
  <2>2. PICK s \in Swaps, blob \in Blobs :
          /\ Accepted(c, s, blob)
          /\ UNCHANGED tables \/ PutPending(s, blob) \/ PutSwap(s, blob)
    BY <1>8, AcceptsEffect
  <2>3. blob \in Versions(s) \cup {Posted(s)}
    BY <2>2 DEF Accepted
  <2>4. /\ pending' \in [Swaps -> Blobs \cup {"none"}]
        /\ known' \subseteq Swaps /\ accepted' \subseteq Swaps
        /\ \A t \in Swaps : pending'[t] \in Versions(t) \cup {Posted(t), "none"}
    BY <2>2, <2>3 DEF TypeOK, PutSwap, PutPending, tables
  <2> QED BY <2>1, <2>4 DEF TypeOK, Typed, world, memory
<1>9. ASSUME NEW c \in {"immediate_out", "delayed_out"}, SwapperForwards(c)
      PROVE  TypeOK'
  BY <1>9, SwapperForwardsEffect, TypeKept DEF TypeOK, world, memory
<1>10. ASSUME NEW c \in {"immediate_out", "delayed_out"}, SwapperDeletes(c)
       PROVE  TypeOK'
  <2>1. Typed /\ UNCHANGED <<world, memory, known, accepted, receipts>>
    BY <1>10, DeletesEffect
  <2>2. PICK s \in Swaps : UNCHANGED pending \/ pending' = [pending EXCEPT ![s] = "none"]
    BY <1>10, DeletesEffect
  <2>3. /\ pending' \in [Swaps -> Blobs \cup {"none"}]
        /\ \A t \in Swaps : pending'[t] \in Versions(t) \cup {Posted(t), "none"}
    BY <2>2 DEF TypeOK
  <2> QED BY <2>1, <2>3 DEF TypeOK, Typed, world, memory
<1>11. CASE DelayedTakes \/ DelayedTicks
  <2>1. PICK asked \in SUBSET Delayed :
          /\ Typed /\ asking' \subseteq asking \cup asked
          /\ UNCHANGED <<world, running, executed, disk>>
    BY <1>11, AskOutcome
  <2> QED BY <2>1, TypeKept DEF TypeOK, world
<1>12. CASE ImmediateTakes \/ ImmediateTicks
  <2>1. PICK T \in SUBSET Swaps : \E requested \in [T -> Executable] :
          /\ \A s \in T : requested[s] \in Versions(s)
          /\ Typed
          /\ \E out : \A s \in T : ExecutedAs(s, requested[s], About(s, out))
          /\ DOMAIN running' = Swaps
          /\ \A s \in Swaps \ T : running'[s] = running[s]
          /\ executed' \subseteq executed \cup {<<s, requested[s]>> : s \in T}
          /\ UNCHANGED <<world, asking, disk>>
    BY <1>12, ExecuteOutcome
  <2>2. PICK requested \in [T -> Executable] :
          /\ \A s \in T : requested[s] \in Versions(s)
          /\ Typed
          /\ \E out : \A s \in T : ExecutedAs(s, requested[s], About(s, out))
          /\ DOMAIN running' = Swaps
          /\ \A s \in Swaps \ T : running'[s] = running[s]
          /\ executed' \subseteq executed \cup {<<s, requested[s]>> : s \in T}
          /\ UNCHANGED <<world, asking, disk>>
    BY <2>1
  <2>3. ASSUME NEW s \in Swaps
        PROVE  running'[s] \in Versions(s) \cup {"none"} /\ running'[s] \in Executable \cup {"none"}
    BY <2>2 DEF ExecutedAs, TypeOK
  <2>4. /\ executed' \subseteq Swaps \X Executable
        /\ \A e \in executed' : e[2] \in Versions(e[1])
    BY <2>2 DEF TypeOK
  <2>5. running' \in [Swaps -> Executable \cup {"none"}]
    <3>1. running' = [s \in Swaps |-> running'[s]]
      <4>1. \E c, requests : Execute(c, requests)
        BY <1>12 DEF ImmediateTakes, ImmediateTicks
      <4> QED BY <4>1 DEF Execute
    <3> QED BY <2>3, <3>1
  <2> QED BY <2>2, <2>3, <2>4, <2>5 DEF TypeOK, Typed, world, disk, tables
<1>13. CASE UNCHANGED vars
  BY <1>13 DEF vars, TypeOK, world, memory, disk, tables
<1> QED BY <1>1, <1>2, <1>3, <1>4, <1>5, <1>6, <1>7, <1>8, <1>9, <1>10, <1>11, <1>12, <1>13
        DEF Next, Tasks
(* The variables keep their types: each channel carries what its reader    *)
(* expects, a swap is stored, resumed and executed only with details that  *)
(* were posted, or that verifyDelaySwap let pass.                          *)
THEOREM TypeCorrect ==
  Spec => []TypeOK
<1>1. Init => TypeOK
  BY TypeInit
<1>2. TypeOK /\ [Next]_vars => TypeOK'
  BY TypeStep
<1> QED BY <1>1, <1>2, PTL DEF Spec

(* However often the process crashes, also between filling a swap and      *)
(* executing it, and whatever the callback server answers, nothing is      *)
(* executed below the rate of what was posted, if it offers something.     *)
THEOREM NothingBelowTerms ==
  ASSUME \A s \in Delayed : Terms[s].send.value > 0
  PROVE  Spec => []WithinTerms
<1>1. TypeOK => WithinTerms
  <2> SUFFICES ASSUME TypeOK, NEW e \in executed, e[1] \in Delayed
               PROVE  Fair(Terms[e[1]], Details[e[2]])
    BY DEF WithinTerms
  <2>1. e[2] \in Fills /\ VerifyDelaySwap(Terms[e[1]], Details[e[2]])
    BY DEF TypeOK, Versions
  <2>2. Terms[e[1]] \in BlobTerms /\ Details[e[2]] \in BlobTerms
    BY <2>1, TermsAssumption
  <2>3. Terms[e[1]].send.value > 0
    OBVIOUS
  <2> QED BY <2>1, <2>2, <2>3, FairFill
<1> QED BY <1>1, TypeCorrect, PTL
-----------------------------------------------------------------------------
(* Channels, message by message                                            *)

OnlyFirst(q) == \A i \in DOMAIN q : q[i] = Bootload => i = 1

LEMMA TailSet ==
  ASSUME NEW S, NEW q \in Seq(S), q # <<>>
  PROVE  /\ ToSet(Tail(q)) \subseteq ToSet(q) /\ Head(q) \in ToSet(q)
         /\ OnlyFirst(q) => Bootload \notin ToSet(Tail(q))
<1> DEFINE t == Tail(q)
<1>1. /\ DOMAIN q = 1..Len(q) /\ Len(q) \in Nat \ {0} /\ DOMAIN t = 1..(Len(q) - 1)
      /\ \A i \in 1..(Len(q) - 1) : t[i] = q[i + 1]
      /\ Head(q) = q[1]
  BY LenProperties, EmptySeq, HeadTailProperties
<1>2. \A i \in DOMAIN t : i + 1 \in DOMAIN q /\ t[i] = q[i + 1] /\ i + 1 # 1
  BY <1>1
<1>3. 1 \in DOMAIN q /\ Head(q) = q[1]
  BY <1>1
<1> HIDE DEF t
<1>4. ToSet(t) \subseteq ToSet(q) /\ Head(q) \in ToSet(q)
  BY <1>2, <1>3 DEF ToSet
<1>5. OnlyFirst(q) => Bootload \notin ToSet(t)
  BY <1>2 DEF OnlyFirst, ToSet
<1> QED BY <1>4, <1>5 DEF t

LEMMA ConcatSet ==
  ASSUME NEW S, NEW q \in Seq(S), NEW r \in Seq(S)
  PROVE  /\ ToSet(q \o r) = ToSet(q) \cup ToSet(r)
         /\ OnlyFirst(q) /\ Bootload \notin ToSet(r) => OnlyFirst(q \o r)
<1> DEFINE t == q \o r
<1>1. /\ DOMAIN q = 1..Len(q) /\ DOMAIN r = 1..Len(r) /\ Len(q) \in Nat /\ Len(r) \in Nat
      /\ DOMAIN t = 1..(Len(q) + Len(r))
      /\ \A i \in 1..(Len(q) + Len(r)) : t[i] = IF i <= Len(q) THEN q[i] ELSE r[i - Len(q)]
  BY LenProperties, ConcatProperties
<1>2. \A i \in DOMAIN q : i \in DOMAIN t /\ t[i] = q[i]
  BY <1>1
<1>3. \A i \in DOMAIN r : Len(q) + i \in DOMAIN t /\ t[Len(q) + i] = r[i]
  BY <1>1
<1>4. \A i \in DOMAIN t : \/ i \in DOMAIN q /\ t[i] = q[i]
                          \/ i - Len(q) \in DOMAIN r /\ t[i] = r[i - Len(q)]
  BY <1>1
<1> HIDE DEF t
<1>5. ToSet(t) \subseteq ToSet(q) \cup ToSet(r)
  BY <1>4 DEF ToSet
<1>6. ToSet(q) \subseteq ToSet(t)
  BY <1>2 DEF ToSet
<1>7. ToSet(r) \subseteq ToSet(t)
  BY <1>3 DEF ToSet
<1>8. OnlyFirst(q) /\ Bootload \notin ToSet(r) => OnlyFirst(t)
  BY <1>4 DEF OnlyFirst, ToSet
<1> QED BY <1>5, <1>6, <1>7, <1>8 DEF t

(* What a channel is left with when its first message is taken, ...        *)
LEMMA ChannelTakes ==
  ASSUME TypeOK, NEW c \in Channels, chan[c] # <<>>, chan'[c] = Tail(chan[c])
  PROVE  /\ ToSet(chan'[c]) \subseteq ToSet(chan[c]) /\ Head(chan[c]) \in ToSet(chan[c])
         /\ OnlyFirst(chan[c]) => Bootload \notin ToSet(chan'[c])
         /\ \A s : /\ About(s, chan'[c]) => About(s, chan[c])
                   /\ IsAbout(Head(chan[c]), s) => About(s, chan[c])
                   /\ Once(s, chan[c]) => Once(s, chan'[c])
                   /\ Once(s, chan[c]) /\ IsAbout(Head(chan[c]), s) => ~About(s, chan'[c])
<1> DEFINE S == Carries(c)
           q == chan[c]
<1>1. q \in Seq(S) /\ q # <<>> /\ chan'[c] = Tail(q)
  BY DEF TypeOK
<1>2. q = chan[c]
  OBVIOUS
<1> HIDE DEF S, q
<1>3. /\ ToSet(Tail(q)) \subseteq ToSet(q) /\ Head(q) \in ToSet(q)
      /\ OnlyFirst(q) => Bootload \notin ToSet(Tail(q))
  BY <1>1, TailSet
<1>4. ASSUME NEW s
      PROVE  /\ About(s, Tail(q)) => About(s, q)
             /\ IsAbout(Head(q), s) => About(s, q)
             /\ Once(s, q) => Once(s, Tail(q))
             /\ Once(s, q) /\ IsAbout(Head(q), s) => ~About(s, Tail(q))
  BY <1>1, AboutTail
<1> QED BY <1>1, <1>2, <1>3, <1>4

(* ... or when more is put into it.                                        *)
LEMMA ChannelGets ==
  ASSUME TypeOK, NEW c \in Channels, NEW out \in Seq(Carries(c)), chan'[c] = chan[c] \o out
  PROVE  /\ ToSet(chan'[c]) = ToSet(chan[c]) \cup ToSet(out)
         /\ OnlyFirst(chan[c]) /\ Bootload \notin ToSet(out) => OnlyFirst(chan'[c])
         /\ \A s : /\ About(s, chan'[c]) <=> About(s, chan[c]) \/ About(s, out)
                   /\ /\ Once(s, chan[c]) /\ Once(s, out)
                      /\ ~(About(s, chan[c]) /\ About(s, out))
                      => Once(s, chan'[c])
<1> DEFINE S == Carries(c)
           q == chan[c]
<1>1. q \in Seq(S) /\ out \in Seq(S) /\ chan'[c] = q \o out
  BY DEF TypeOK
<1>2. q = chan[c]
  OBVIOUS
<1> HIDE DEF S, q
<1>3. /\ ToSet(q \o out) = ToSet(q) \cup ToSet(out)
      /\ OnlyFirst(q) /\ Bootload \notin ToSet(out) => OnlyFirst(q \o out)
  BY <1>1, ConcatSet
<1>4. ASSUME NEW s
      PROVE  /\ About(s, q \o out) <=> About(s, q) \/ About(s, out)
             /\ Once(s, q) /\ Once(s, out) /\ ~(About(s, q) /\ About(s, out)) => Once(s, q \o out)
  BY <1>1, AboutConcat
<1> QED BY <1>1, <1>2, <1>3, <1>4

LEMMA ChannelGetsOne ==
  ASSUME TypeOK, NEW c \in Channels, NEW k \in Carries(c), chan'[c] = chan[c] \o <<k>>
  PROVE  /\ ToSet(chan'[c]) = ToSet(chan[c]) \cup {k}
         /\ OnlyFirst(chan[c]) /\ k # Bootload => OnlyFirst(chan'[c])
         /\ \A s : /\ About(s, chan'[c]) <=> About(s, chan[c]) \/ IsAbout(k, s)
                   /\ Once(s, chan[c]) /\ ~(About(s, chan[c]) /\ IsAbout(k, s))
                      => Once(s, chan'[c])
<1> DEFINE out == <<k>>
           S == Carries(c)
<1>1. k \in S
  OBVIOUS
<1> HIDE DEF S
<1>2. out \in Seq(S) /\ DOMAIN out = {1} /\ out[1] = k
  BY <1>1, SmallSeqs
<1>3. chan'[c] = chan[c] \o out
  OBVIOUS
<1> HIDE DEF out
<1>4. ToSet(out) = {k} /\ \A s : (About(s, out) <=> IsAbout(k, s)) /\ Once(s, out)
  BY <1>2, AboutSmall DEF ToSet
<1> QED BY <1>2, <1>3, <1>4, ChannelGets DEF S
-----------------------------------------------------------------------------
(* The invariant, swap by swap                                             *)

SwapInv(s) ==
  /\ \A p, q \in Places : At(s, p) /\ At(s, q) => p = q
  /\ \A c \in Channels : Once(s, chan[c])
  /\ s \in known => s \in accepted
  /\ s \in accepted => s \in posted
  /\ pending[s] # "none" => s \in accepted
  /\ \A c \in {"wallet", "swapper"} : At(s, c) => s \in posted \ accepted
  /\ \A p \in {"delayed", "asking", "delayed_out"} : At(s, p) => pending[s] = "delay"
  /\ At(s, "immediate_out") => pending[s] # "none"
  /\ \A blob \in Executable :
       <<s, blob>> \in executed => s \in accepted /\ pending[s] \in {blob, "none"}
  /\ \A a, b \in Executable : <<s, a>> \in executed /\ <<s, b>> \in executed => a = b
  /\ running[s] # "none" => pending[s] = running[s]
  /\ \A m \in ToSet(chan["immediate"]) : m.id = s => pending[s] = m.blob

Inv == TypeOK /\ BootloadFirst /\ \A s \in Swaps : SwapInv(s)

LEMMA InvIsIInv ==
  Inv <=> IInv
<1>1. Inv => IInv
  <2> SUFFICES ASSUME Inv PROVE IInv
    OBVIOUS
  <2>1. Alone
    BY DEF Inv, SwapInv, Alone
  <2>2. Stored
    BY DEF Inv, SwapInv, Stored
  <2>3. OneVersion
    <3> SUFFICES ASSUME NEW s \in Swaps, NEW e \in executed, NEW f \in executed, e[1] = s, f[1] = s
                 PROVE  e = f
      BY DEF OneVersion
    <3>1. e = <<s, e[2]>> /\ f = <<s, f[2]>> /\ e[2] \in Executable /\ f[2] \in Executable
      BY DEF Inv, TypeOK
    <3>2. e[2] = f[2]
      BY <3>1 DEF Inv, SwapInv
    <3> QED BY <3>1, <3>2
  <2>4. WriteAhead
    BY DEF Inv, SwapInv, WriteAhead, ToSet
  <2> QED BY <2>1, <2>2, <2>3, <2>4 DEF Inv, IInv
<1>2. IInv => Inv
  <2> SUFFICES ASSUME IInv, NEW s \in Swaps PROVE SwapInv(s)
    BY DEF Inv, IInv
  <2>1. \A a, b \in Executable : <<s, a>> \in executed /\ <<s, b>> \in executed => a = b
    BY DEF IInv, OneVersion
  <2>2. \A m \in ToSet(chan["immediate"]) : m.id = s => pending[s] = m.blob
    BY DEF IInv, WriteAhead, ToSet
  <2>3. running[s] # "none" => pending[s] = running[s]
    BY DEF IInv, WriteAhead
  <2> QED BY <2>1, <2>2, <2>3 DEF IInv, SwapInv, Alone, Stored
<1> QED BY <1>1, <1>2

(* What the tables and the maps say of a swap that is in a place.          *)
LEMMA Present ==
  ASSUME Inv, NEW s \in Swaps, NEW p \in Places, At(s, p)
  PROVE  /\ p \notin {"status", "swapper_out"}
         /\ p \in {"wallet", "swapper"} => s \in posted /\ s \notin accepted /\ pending[s] = "none"
         /\ p \notin {"wallet", "swapper"} => s \in posted /\ s \in accepted /\ pending[s] # "none"
         /\ p \in {"delayed", "asking", "delayed_out"} => pending[s] = "delay"
         /\ p \in {"immediate", "running"} => pending[s] \in Executable
<1>1. TypeOK /\ SwapInv(s)
  BY DEF Inv
<1>2. p \notin {"status", "swapper_out"}
  <2> SUFFICES ASSUME p \in {"status", "swapper_out"} PROVE FALSE
    OBVIOUS
  <2>1. p \in Channels /\ About(s, chan[p])
    BY DEF At, Places, Channels
  <2>2. PICK i \in DOMAIN chan[p] : IsAbout(chan[p][i], s)
    BY <2>1 DEF About
  <2> DEFINE m == chan[p][i]
             S == Carries(p)
  <2>3. chan[p] \in Seq(S)
    BY <1>1, <2>1 DEF TypeOK
  <2> HIDE DEF S
  <2>4. m \in S
    BY <2>2, <2>3, ElementOfSeq, LenProperties
  <2>5. m \in Updates \/ m.type = "Receipt"
    BY <2>4, Carried DEF S
  <2> QED BY <2>2, <2>5, MessageFields DEF IsAbout
<1>3. p = "immediate" => pending[s] \in Executable
  <2> SUFFICES ASSUME p = "immediate" PROVE pending[s] \in Executable
    OBVIOUS
  <2>1. PICK i \in DOMAIN chan["immediate"] : IsAbout(chan["immediate"][i], s)
    BY DEF At, About
  <2> DEFINE m == chan["immediate"][i]
             S == Carries("immediate")
  <2>2. chan["immediate"] \in Seq(S)
    BY <1>1 DEF TypeOK, Channels
  <2> HIDE DEF S
  <2>3. m \in S /\ m \in ToSet(chan["immediate"])
    BY <2>1, <2>2, ElementOfSeq, LenProperties DEF ToSet
  <2>4. m.id = s /\ m.blob \in Versions(s)
    BY <2>1, <2>3, Carried, ExecutionFields DEF S, Executions, IsAbout
  <2> QED BY <1>1, <2>3, <2>4, BlobsApart DEF SwapInv
<1>4. p = "running" => pending[s] \in Executable
  BY <1>1 DEF At, SwapInv, TypeOK, Channels
<1>5. p \in {"wallet", "swapper"} => s \in posted /\ s \notin accepted /\ pending[s] = "none"
  BY <1>1 DEF SwapInv
<1>6. p \in {"delayed", "asking", "delayed_out"} => pending[s] = "delay"
  BY <1>1 DEF SwapInv
<1>7. p = "immediate_out" => pending[s] # "none"
  BY <1>1 DEF SwapInv
<1>8. "none" \notin Executable
  BY BlobsApart DEF Blobs
<1>9. p \notin {"wallet", "swapper"} => pending[s] # "none"
  BY <1>2, <1>3, <1>4, <1>6, <1>7, <1>8 DEF Places, Channels
<1> QED BY <1>1, <1>2, <1>3, <1>4, <1>5, <1>6, <1>9 DEF SwapInv

(* A step that leaves s where it is, or takes it away, and keeps what is   *)
(* stored of it.                                                           *)
LEMMA SwapKept ==
  ASSUME NEW s \in Swaps, SwapInv(s),
         \A p \in Places : At(s, p)' => At(s, p),
         \A c \in Channels : Once(s, chan'[c]),
         posted \subseteq posted',
         s \in accepted' <=> s \in accepted, s \in known' => s \in known,
         pending'[s] = pending[s],
         \A blob \in Executable : <<s, blob>> \in executed' => <<s, blob>> \in executed,
         running'[s] \in {running[s], "none"},
         \A m \in ToSet(chan'["immediate"]) : m.id = s => m \in ToSet(chan["immediate"])
  PROVE  SwapInv(s)'
<1>1. \A p, q \in Places : At(s, p)' /\ At(s, q)' => p = q
  BY DEF SwapInv
<1>2. /\ \A c \in {"wallet", "swapper"} : At(s, c)' => s \in posted' \ accepted'
      /\ \A p \in {"delayed", "asking", "delayed_out"} : At(s, p)' => pending'[s] = "delay"
      /\ At(s, "immediate_out")' => pending'[s] # "none"
  BY DEF SwapInv, Places, Channels
<1>3. /\ s \in known' => s \in accepted'
      /\ s \in accepted' => s \in posted'
      /\ pending'[s] # "none" => s \in accepted'
      /\ running'[s] # "none" => pending'[s] = running'[s]
      /\ \A m \in ToSet(chan'["immediate"]) : m.id = s => pending'[s] = m.blob
  BY DEF SwapInv
<1>4. /\ \A blob \in Executable :
           <<s, blob>> \in executed' => s \in accepted' /\ pending'[s] \in {blob, "none"}
      /\ \A a, b \in Executable : <<s, a>> \in executed' /\ <<s, b>> \in executed' => a = b
  BY DEF SwapInv
<1> QED BY <1>1, <1>2, <1>3, <1>4 DEF SwapInv
(* A place that a step does not touch.                                     *)
LEMMA Elsewhere ==
  ASSUME NEW M, Unmoved(M), NEW s, NEW p \in Places, p \notin M,
         p = "asking" => asking' = asking, p = "running" => running' = running
  PROVE  At(s, p)' <=> At(s, p)
<1>1. p \in Channels => chan'[p] = chan[p]
  BY DEF Unmoved
<1> QED BY <1>1 DEF At, Places, Channels

(* Once the Bootload has been handled, it stays so until the next start.   *)
LEMMA BootedStays ==
  ASSUME boots = 1, UNCHANGED boots,
         \A c \in {"wallet", "swapper"} : Bootload \notin ToSet(chan'[c])
  PROVE  BootloadFirst'
<1>1. \A c \in {"wallet", "swapper"} : \A i \in DOMAIN chan'[c] : chan'[c][i] # Bootload
  BY DEF ToSet
<1>2. ~Booting'
  BY DEF Booting
<1> QED BY <1>1, <1>2 DEF BootloadFirst

(* Before that, the tasks behind the swapper task have nothing to do.      *)
LEMMA BehindBootload ==
  ASSUME BootloadFirst, NEW c \in Channels \ {"wallet", "swapper", "status"}, chan[c] # <<>>
  PROVE  /\ boots = 1 /\ \A d \in {"wallet", "swapper"} : Bootload \notin ToSet(chan[d])
BY DEF BootloadFirst, Booting

LEMMA BehindIdle ==
  ASSUME BootloadFirst, ~Idle
  PROVE  /\ boots = 1 /\ \A d \in {"wallet", "swapper"} : Bootload \notin ToSet(chan[d])
BY DEF BootloadFirst, Booting

SingleBootload == MaxBoots = 1

LEMMA SendStep ==
  ASSUME SingleBootload, Inv, SendBootload
  PROVE  BootloadFirst' /\ \A s \in Swaps : SwapInv(s)'
<1>1. boots = 0 /\ boots' = 1 /\ UNCHANGED <<posted, crashes, memory, disk>>
  BY DEF SendBootload, SingleBootload, Inv, TypeOK
<1>2. Idle /\ \A c \in Channels : chan[c] = <<>>
  BY <1>1 DEF Inv, BootloadFirst
<1> DEFINE one == <<Bootload>>
<1>3. one = Append(<<>>, Bootload)
  OBVIOUS
<1>4. DOMAIN one = {1} /\ one[1] = Bootload
  OBVIOUS
<1> HIDE DEF one
<1>5. /\ DOMAIN chan' = Channels /\ chan'["wallet"] = one
      /\ \A c \in Channels \ {"wallet"} : chan'[c] = <<>>
  BY <1>2, <1>3 DEF SendBootload, Inv, TypeOK, Channels
<1>6. \A c \in Channels \ {"wallet"} : DOMAIN chan'[c] = {}
  BY <1>5, SmallSeqs
<1>7. BootloadFirst'
  <2>1. Idle'
    BY <1>1, <1>2 DEF Idle, memory
  <2>2. \A c \in {"wallet", "swapper"} : \A i \in DOMAIN chan'[c] : chan'[c][i] = Bootload => i = 1
    BY <1>4, <1>5, <1>6 DEF Channels
  <2> QED BY <1>1, <1>5, <2>1, <2>2 DEF BootloadFirst, Channels
<1>8. ASSUME NEW s \in Swaps
      PROVE  SwapInv(s)'
  <2>1. \A c \in Channels : ~About(s, chan'[c]) /\ Once(s, chan'[c])
    <3>1. ~IsAbout(Bootload, s)
      BY Abouts
    <3>2. ~About(s, one) /\ Once(s, one)
      BY <1>4, <3>1, AboutSmall
    <3> QED BY <1>5, <1>6, <3>2, AboutSmall
  <2>2. \A p \in Places : At(s, p)' => At(s, p)
    BY <1>1, <2>1 DEF At, memory
  <2>3. \A m \in ToSet(chan'["immediate"]) : m.id = s => m \in ToSet(chan["immediate"])
    BY <1>2, <1>5 DEF Channels
  <2> QED BY <1>1, <2>1, <2>2, <2>3, SwapKept DEF Inv, memory, disk, tables
<1> QED BY <1>7, <1>8

LEMMA PostStep ==
  ASSUME Inv, NEW t \in Swaps, PostSwap(t)
  PROVE  BootloadFirst' /\ \A s \in Swaps : SwapInv(s)'
<1> DEFINE k == Request(t, Posted(t))
<1>1. /\ boots > 0 /\ t \notin posted /\ posted' = posted \cup {t}
      /\ UNCHANGED <<boots, crashes, memory, disk>>
  BY DEF PostSwap
<1>2. TypeOK /\ BootloadFirst /\ k \in Carries("wallet") /\ k # Bootload
  BY Carried, MessageFields DEF Inv
<1>3. /\ Unmoved({"wallet"}) /\ "wallet" \in Channels
      /\ chan'["wallet"] = chan["wallet"] \o <<k>>
  <2>1. chan'["wallet"] = Append(chan["wallet"], k) /\ Unmoved({"wallet"}) /\ "wallet" \in Channels
    BY DEF PostSwap, Inv, TypeOK, Unmoved, Channels
  <2> DEFINE S == Carries("wallet")
  <2>2. chan["wallet"] \in Seq(S) /\ k \in S
    BY <1>2, <2>1 DEF TypeOK
  <2> HIDE DEF S, k
  <2>3. Append(chan["wallet"], k) = chan["wallet"] \o <<k>>
    BY <2>2, AppendIsConcat
  <2> QED BY <2>1, <2>3
<1> HIDE DEF k
<1>4. /\ ToSet(chan'["wallet"]) = ToSet(chan["wallet"]) \cup {k}
      /\ OnlyFirst(chan["wallet"]) => OnlyFirst(chan'["wallet"])
      /\ \A s : /\ About(s, chan'["wallet"]) <=> About(s, chan["wallet"]) \/ IsAbout(k, s)
                /\ Once(s, chan["wallet"]) /\ ~(About(s, chan["wallet"]) /\ IsAbout(k, s))
                   => Once(s, chan'["wallet"])
  BY <1>2, <1>3, ChannelGetsOne
<1>5. \A c \in Channels \ {"wallet"} : chan'[c] = chan[c]
  BY <1>3 DEF Unmoved
<1>6. BootloadFirst'
  <2>1. Booting' => Booting
    BY <1>2, <1>4, <1>5 DEF Booting, Channels
  <2>2. Idle <=> Idle'
    BY <1>1 DEF Idle, memory
  <2>3. OnlyFirst(chan'["wallet"]) /\ OnlyFirst(chan'["swapper"])
    BY <1>2, <1>4, <1>5 DEF BootloadFirst, OnlyFirst, Channels
  <2>4. Bootload \in ToSet(chan'["wallet"]) => chan'["swapper"] = <<>>
    BY <1>2, <1>4, <1>5 DEF BootloadFirst, Channels
  <2> QED BY <1>1, <1>2, <1>5, <2>1, <2>2, <2>3, <2>4 DEF BootloadFirst, OnlyFirst
<1>7. ASSUME NEW s \in Swaps
      PROVE  SwapInv(s)'
  <2>1. SwapInv(s) /\ (IsAbout(k, s) <=> t = s)
    BY Abouts DEF Inv, k
  <2>2. s = t => \A p \in Places : ~At(s, p)
    BY <1>1, Present
  <2>3. \A p \in Places : At(s, p)' => At(s, p) \/ (s = t /\ p = "wallet")
    <3> SUFFICES ASSUME NEW p \in Places, At(s, p)'
                 PROVE  At(s, p) \/ (s = t /\ p = "wallet")
      OBVIOUS
    <3>1. CASE p = "wallet"
      <4>1. About(s, chan'["wallet"])
        BY <3>1 DEF At
      <4> QED BY <1>3, <1>4, <2>1, <3>1, <4>1 DEF At
    <3>2. CASE p # "wallet"
      BY <1>1, <1>3, <3>2, Elsewhere DEF memory
    <3> QED BY <3>1, <3>2
  <2>4. \A c \in Channels : Once(s, chan'[c])
    <3>1. ~(About(s, chan["wallet"]) /\ IsAbout(k, s))
      BY <1>3, <2>1, <2>2 DEF At, Places
    <3> QED BY <1>4, <1>5, <2>1, <3>1 DEF SwapInv, Channels
  <2>5. ToSet(chan'["immediate"]) = ToSet(chan["immediate"])
    BY <1>5 DEF Channels
  <2>6. CASE s # t
    BY <1>1, <2>1, <2>3, <2>4, <2>5, <2>6, SwapKept DEF memory, disk, tables
  <2>7. CASE s = t
    <3>1. \A p \in Places : At(s, p)' => p = "wallet"
      BY <2>2, <2>3, <2>7
    <3>2. s \in posted' /\ s \notin accepted' /\ (s \in known' => s \in accepted')
      BY <1>1, <2>1, <2>7 DEF SwapInv, disk, tables
    <3>3. UNCHANGED <<pending, accepted, running, executed>>
      BY <1>1 DEF memory, disk, tables
    <3>4. \A m \in ToSet(chan'["immediate"]) : m.id = s => pending'[s] = m.blob
      BY <2>1, <2>5, <3>3 DEF SwapInv
    <3>5. \A p, q \in Places : At(s, p)' /\ At(s, q)' => p = q
      BY <3>1
    <3>6. /\ ~At(s, "immediate_out")'
          /\ \A p \in {"delayed", "asking", "delayed_out"} : ~At(s, p)'
      BY <3>1 DEF Places, Channels
    <3> QED BY <2>1, <2>4, <3>2, <3>3, <3>4, <3>5, <3>6 DEF SwapInv
  <2> QED BY <2>6, <2>7
<1> QED BY <1>6, <1>7
(* Updates and receipts are about nobody.                                  *)
LEMMA Silent ==
  ASSUME Typed, NEW c \in {"status", "swapper_out"}, NEW s
  PROVE  ~About(s, chan'[c]) /\ Once(s, chan'[c])
<1> DEFINE S == Carries(c)
           q == chan'[c]
<1>1. q \in Seq(S)
  BY DEF Typed, Channels
<1> HIDE DEF S, q
<1>2. \A i \in DOMAIN q : q[i] \in S
  BY <1>1, ElementOfSeq, LenProperties
<1>3. \A m \in S : ~IsAbout(m, s)
  BY Carried, MessageFields DEF S, IsAbout
<1> QED BY <1>2, <1>3 DEF About, Once, q

(* The requests for s in the inbox of the immediate swapper are about s.   *)
LEMMA NoneWaiting ==
  ASSUME Typed, NEW s, ~About(s, chan'["immediate"])
  PROVE  \A m \in ToSet(chan'["immediate"]) : m.id # s
<1> DEFINE S == Carries("immediate")
           q == chan'["immediate"]
<1>1. q \in Seq(S)
  BY DEF Typed, Channels
<1> HIDE DEF S, q
<1>2. \A i \in DOMAIN q : q[i] \in S
  BY <1>1, ElementOfSeq, LenProperties
<1>3. \A m \in S : m.type = "SwapRequest"
  BY Carried, MessageFields DEF S
<1> QED BY <1>2, <1>3 DEF About, IsAbout, ToSet, q

(* A step that takes a message from c and hands nobody on.                 *)
LEMMA Dropping ==
  ASSUME TypeOK, Typed, NEW c \in Channels, chan[c] # <<>>, chan'[c] = Tail(chan[c]),
         Unmoved({c, "status", "swapper_out"}), UNCHANGED <<asking, running>>,
         NEW s, \A e \in Channels : Once(s, chan[e])
  PROVE  /\ \A p \in Places : At(s, p)' => At(s, p)
         /\ \A e \in Channels : Once(s, chan'[e])
         /\ IsAbout(Head(chan[c]), s) => ~At(s, c)'
<1>1. /\ About(s, chan'[c]) => About(s, chan[c])
      /\ Once(s, chan'[c])
      /\ IsAbout(Head(chan[c]), s) => ~About(s, chan'[c])
  BY ChannelTakes
<1>2. \A e \in {"status", "swapper_out"} : ~About(s, chan'[e]) /\ Once(s, chan'[e])
  BY Silent
<1>3. \A e \in Channels \ {c, "status", "swapper_out"} : chan'[e] = chan[e]
  BY DEF Unmoved
<1>4. \A e \in Channels : Once(s, chan'[e])
  BY <1>1, <1>2, <1>3
<1>5. ASSUME NEW e \in Channels, About(s, chan'[e])
      PROVE  About(s, chan[e])
  BY <1>1, <1>2, <1>3, <1>5
<1>6. \A p \in Places : At(s, p)' => At(s, p)
  BY <1>5 DEF At
<1> QED BY <1>1, <1>4, <1>6 DEF At, Channels

(* A step that takes a message from c and hands k on to d.                 *)
LEMMA Passing ==
  ASSUME TypeOK, Typed, NEW c \in Channels, chan[c] # <<>>, chan'[c] = Tail(chan[c]),
         NEW d \in Channels \ {c}, NEW k \in Carries(d), chan'[d] = chan[d] \o <<k>>,
         Unmoved({c, d, "status", "swapper_out"}), UNCHANGED <<asking, running>>,
         NEW s, \A e \in Channels : Once(s, chan[e]), IsAbout(k, s) => ~About(s, chan[d])
  PROVE  /\ \A p \in Places : At(s, p)' => At(s, p) \/ (IsAbout(k, s) /\ p = d)
         /\ \A e \in Channels : Once(s, chan'[e])
         /\ IsAbout(Head(chan[c]), s) => ~At(s, c)'
<1>1. /\ About(s, chan'[c]) => About(s, chan[c])
      /\ Once(s, chan'[c])
      /\ IsAbout(Head(chan[c]), s) => ~About(s, chan'[c])
  BY ChannelTakes
<1>2. \A e \in {"status", "swapper_out"} : ~About(s, chan'[e]) /\ Once(s, chan'[e])
  BY Silent
<1>3. /\ About(s, chan'[d]) => About(s, chan[d]) \/ IsAbout(k, s)
      /\ Once(s, chan'[d])
  BY ChannelGetsOne
<1>4. \A e \in Channels \ {c, d, "status", "swapper_out"} : chan'[e] = chan[e]
  BY DEF Unmoved
<1>5. \A e \in Channels : Once(s, chan'[e])
  BY <1>1, <1>2, <1>3, <1>4
<1>6. ASSUME NEW e \in Channels, About(s, chan'[e])
      PROVE  About(s, chan[e]) \/ (IsAbout(k, s) /\ e = d)
  BY <1>1, <1>2, <1>3, <1>4, <1>6
<1>7. \A p \in Places : At(s, p)' => At(s, p) \/ (IsAbout(k, s) /\ p = d)
  BY <1>6 DEF At
<1> QED BY <1>1, <1>5, <1>7 DEF At, Channels
LEMMA RoutesStep ==
  ASSUME Inv, WalletRoutes
  PROVE  BootloadFirst' /\ \A s \in Swaps : SwapInv(s)'
<1>1. /\ chan["wallet"] # <<>> /\ Typed /\ chan'["wallet"] = Tail(chan["wallet"])
      /\ UNCHANGED <<world, memory, disk>>
  BY RoutesEffect DEF Inv
<1>2. TypeOK /\ BootloadFirst /\ "wallet" \in Channels /\ "swapper" \in Channels \ {"wallet"}
  BY DEF Inv, Channels
<1>3. \E k \in Carries("swapper") :
        /\ Head(chan["wallet"]) = k /\ chan'["swapper"] = chan["swapper"] \o <<k>>
        /\ Unmoved({"wallet", "swapper", "status", "swapper_out"})
        /\ k = Bootload => Unmoved({"wallet", "swapper"})
  <2>1. CASE /\ Head(chan["wallet"]) = Bootload /\ Unmoved({"wallet", "swapper"})
             /\ chan'["swapper"] = chan["swapper"] \o <<Bootload>>
    BY <2>1, Carried DEF Unmoved
  <2>2. CASE \E s \in Swaps :
               /\ Head(chan["wallet"]) = Request(s, Posted(s))
               /\ Unmoved({"wallet", "swapper", "status"})
               /\ chan'["swapper"] = chan["swapper"] \o <<Request(s, Posted(s))>>
    <3>1. PICK s \in Swaps :
            /\ Head(chan["wallet"]) = Request(s, Posted(s))
            /\ Unmoved({"wallet", "swapper", "status"})
            /\ chan'["swapper"] = chan["swapper"] \o <<Request(s, Posted(s))>>
      BY <2>2
    <3>2. Request(s, Posted(s)) \in Carries("swapper") /\ Request(s, Posted(s)) # Bootload
      BY Carried, MessageFields
    <3>3. Unmoved({"wallet", "swapper", "status", "swapper_out"})
      BY <3>1 DEF Unmoved
    <3> QED BY <3>1, <3>2, <3>3
  <2> QED BY <2>1, <2>2, RoutesEffect DEF Inv
<1>4. PICK k \in Carries("swapper") :
        /\ Head(chan["wallet"]) = k /\ chan'["swapper"] = chan["swapper"] \o <<k>>
        /\ Unmoved({"wallet", "swapper", "status", "swapper_out"})
        /\ k = Bootload => Unmoved({"wallet", "swapper"})
  BY <1>3
<1>5. /\ OnlyFirst(chan["wallet"]) => Bootload \notin ToSet(chan'["wallet"])
      /\ k \in ToSet(chan["wallet"])
  BY <1>1, <1>2, <1>4, ChannelTakes
<1>6. /\ ToSet(chan'["swapper"]) = ToSet(chan["swapper"]) \cup {k}
      /\ OnlyFirst(chan["swapper"]) /\ k # Bootload => OnlyFirst(chan'["swapper"])
  BY <1>2, <1>4, ChannelGetsOne
<1>7. /\ boots = 1 /\ Bootload \notin ToSet(chan'["wallet"])
      /\ OnlyFirst(chan["wallet"]) /\ OnlyFirst(chan["swapper"])
  BY <1>1, <1>2, <1>5 DEF BootloadFirst, OnlyFirst
<1>8. BootloadFirst'
  <2>1. Idle' <=> Idle
    BY <1>1 DEF Idle, memory
  <2>2. Booting' => Booting
    BY <1>2, <1>5, <1>6, <1>7 DEF Booting
  <2>3. \A c \in Channels \ {"wallet", "swapper", "status"} : Booting => chan'[c] = <<>>
    <3> SUFFICES ASSUME NEW c \in Channels \ {"wallet", "swapper", "status"}, Booting
                 PROVE  chan'[c] = <<>>
      OBVIOUS
    <3>1. chan[c] = <<>>
      BY <1>2 DEF BootloadFirst
    <3>2. CASE k = Bootload
      BY <1>4, <3>1, <3>2 DEF Unmoved
    <3>3. CASE c # "swapper_out"
      BY <1>4, <3>1, <3>3 DEF Unmoved
    <3>4. CASE k # Bootload /\ c = "swapper_out"
      <4>1. PICK s \in Swaps : Unmoved({"wallet", "swapper", "status"})
        BY <1>4, <3>4, RoutesEffect DEF Inv
      <4> QED BY <3>1, <3>4, <4>1 DEF Unmoved
    <3> QED BY <3>2, <3>3, <3>4
  <2>4. OnlyFirst(chan'["swapper"])
    <3>1. CASE k # Bootload
      BY <1>6, <1>7, <3>1
    <3>2. CASE k = Bootload
      <4>1. chan["swapper"] = <<>>
        BY <1>2, <1>5, <3>2 DEF BootloadFirst
      <4> DEFINE one == <<k>>
      <4>2. chan'["swapper"] = one
        BY <1>2, <1>4, <4>1, ConcatEmptySeq, SmallSeqs
      <4>3. DOMAIN one = {1}
        OBVIOUS
      <4> HIDE DEF one
      <4> QED BY <4>2, <4>3 DEF OnlyFirst
    <3> QED BY <3>1, <3>2
  <2>5. OnlyFirst(chan'["wallet"])
    BY <1>7 DEF OnlyFirst, ToSet
  <2>6. boots' = 1
    BY <1>1, <1>7 DEF world
  <2> QED BY <1>2, <1>7, <2>1, <2>2, <2>3, <2>4, <2>5, <2>6 DEF BootloadFirst, OnlyFirst
<1>9. ASSUME NEW s \in Swaps
      PROVE  SwapInv(s)'
  <2>1. SwapInv(s) /\ \A e \in Channels : Once(s, chan[e])
    BY DEF Inv, SwapInv
  <2>2. IsAbout(k, s) => At(s, "wallet")
    BY <1>1, <1>2, <1>4, ChannelTakes DEF At
  <2>3. IsAbout(k, s) => ~About(s, chan["swapper"])
    BY <1>2, <2>1, <2>2 DEF SwapInv, At, Places
  <2>4. UNCHANGED <<asking, running>>
    BY <1>1 DEF memory
  <2>5. /\ \A p \in Places : At(s, p)' => At(s, p) \/ (IsAbout(k, s) /\ p = "swapper")
        /\ \A e \in Channels : Once(s, chan'[e])
        /\ IsAbout(k, s) => ~At(s, "wallet")'
    <3> DEFINE c == "wallet"
               d == "swapper"
    <3>1. Typed /\ chan[c] # <<>> /\ chan'[c] = Tail(chan[c])
      BY <1>1
    <3>2. /\ Head(chan[c]) = k /\ chan'[d] = chan[d] \o <<k>> /\ k \in Carries(d)
          /\ Unmoved({c, d, "status", "swapper_out"})
      BY <1>4
    <3>3. (\A e \in Channels : Once(s, chan[e])) /\ (IsAbout(k, s) => ~About(s, chan[d]))
      BY <2>1, <2>3
    <3>4. TypeOK /\ c \in Channels /\ d \in Channels \ {c}
      BY <1>2
    <3> HIDE DEF c, d
    <3>5. /\ \A p \in Places : At(s, p)' => At(s, p) \/ (IsAbout(k, s) /\ p = d)
          /\ \A e \in Channels : Once(s, chan'[e])
          /\ IsAbout(Head(chan[c]), s) => ~At(s, c)'
      BY <2>4, <3>1, <3>2, <3>3, <3>4, Passing
    <3> QED BY <3>2, <3>5 DEF c, d
  <2>6. ToSet(chan'["immediate"]) = ToSet(chan["immediate"])
    BY <1>4 DEF Unmoved, Channels
  <2>7. CASE ~IsAbout(k, s)
    BY <1>1, <2>1, <2>5, <2>6, <2>7, SwapKept DEF world, memory, disk, tables
  <2>8. CASE IsAbout(k, s)
    <3>1. /\ \A p \in Places : At(s, p) => p = "wallet"
          /\ s \in posted /\ s \notin accepted
      BY <1>2, <2>1, <2>2, <2>8 DEF SwapInv, Places
    <3>2. \A p \in Places : At(s, p)' => p = "swapper"
      BY <2>5, <2>8, <3>1
    <3>3. UNCHANGED <<posted, pending, known, accepted, running, executed>>
      BY <1>1 DEF world, memory, disk, tables
    <3>4. \A m \in ToSet(chan'["immediate"]) : m.id = s => pending'[s] = m.blob
      BY <2>1, <2>6, <3>3 DEF SwapInv
    <3>5. \A p, q \in Places : At(s, p)' /\ At(s, q)' => p = q
      BY <3>2
    <3>6. /\ ~At(s, "immediate_out")'
          /\ \A p \in {"delayed", "asking", "delayed_out"} : ~At(s, p)'
      BY <3>2 DEF Places, Channels
    <3> QED BY <2>1, <2>5, <3>1, <3>3, <3>4, <3>5, <3>6 DEF SwapInv
  <2> QED BY <2>7, <2>8
<1> QED BY <1>8, <1>9
(* The steps that hand no swap on and store nothing of one.                *)
LEMMA DropSwaps ==
  ASSUME Inv, Typed, NEW c \in Channels, chan[c] # <<>>, chan'[c] = Tail(chan[c]),
         Unmoved({c, "status", "swapper_out"}), UNCHANGED <<world, memory, tables>>,
         NEW s \in Swaps
  PROVE  SwapInv(s)'
<1>1. TypeOK /\ SwapInv(s) /\ \A e \in Channels : Once(s, chan[e])
  BY DEF Inv, SwapInv
<1>2. UNCHANGED <<posted, asking, running, executed, pending, known, accepted>>
  BY DEF world, memory, tables
<1>3. /\ \A p \in Places : At(s, p)' => At(s, p)
      /\ \A e \in Channels : Once(s, chan'[e])
  BY <1>1, <1>2, Dropping
<1>4. ToSet(chan'["immediate"]) \subseteq ToSet(chan["immediate"])
  <2>1. c = "immediate" => ToSet(chan'[c]) \subseteq ToSet(chan[c])
    BY <1>1, ChannelTakes
  <2>2. c # "immediate" => chan'["immediate"] = chan["immediate"]
    BY DEF Unmoved, Channels
  <2> QED BY <2>1, <2>2
<1> QED BY <1>1, <1>2, <1>3, <1>4, SwapKept

(* A step of the tasks behind the swapper task.                            *)
LEMMA BehindFirst ==
  ASSUME Inv, UNCHANGED world, chan'["wallet"] = chan["wallet"],
         chan'["swapper"] = chan["swapper"],
         \/ ~Idle
         \/ \E c \in Channels \ {"wallet", "swapper", "status"} : chan[c] # <<>>
  PROVE  BootloadFirst'
<1>1. boots = 1 /\ \A d \in {"wallet", "swapper"} : Bootload \notin ToSet(chan[d])
  BY BehindBootload, BehindIdle DEF Inv
<1> QED BY <1>1, BootedStays DEF world

LEMMA ForwardStep ==
  ASSUME Inv, WalletForwards \/ \E c \in {"immediate_out", "delayed_out"} : SwapperForwards(c)
  PROVE  BootloadFirst' /\ \A s \in Swaps : SwapInv(s)'
<1>1. PICK c \in {"swapper_out", "immediate_out", "delayed_out"} :
        /\ chan[c] # <<>> /\ Typed /\ chan'[c] = Tail(chan[c])
        /\ Unmoved({c, "status", "swapper_out"})
        /\ UNCHANGED <<world, memory, disk>>
  <2>1. CASE WalletForwards
    <3>1. /\ chan["swapper_out"] # <<>> /\ Typed /\ Unmoved({"swapper_out", "status"})
          /\ chan'["swapper_out"] = Tail(chan["swapper_out"])
          /\ UNCHANGED <<world, memory, disk>>
      BY <2>1, WalletForwardsEffect DEF Inv
    <3>2. Unmoved({"swapper_out", "status", "swapper_out"})
      BY <3>1 DEF Unmoved
    <3> QED BY <3>1, <3>2
  <2>2. ASSUME NEW c \in {"immediate_out", "delayed_out"}, SwapperForwards(c)
        PROVE  /\ chan[c] # <<>> /\ Typed /\ chan'[c] = Tail(chan[c])
               /\ Unmoved({c, "status", "swapper_out"})
               /\ UNCHANGED <<world, memory, disk>>
    <3>1. /\ chan[c] # <<>> /\ Typed /\ Unmoved({c, "swapper_out"})
          /\ chan'[c] = Tail(chan[c]) /\ UNCHANGED <<world, memory, disk>>
      BY <2>2, SwapperForwardsEffect DEF Inv
    <3>2. Unmoved({c, "status", "swapper_out"})
      BY <3>1 DEF Unmoved
    <3> QED BY <3>1, <3>2
  <2> QED BY <2>1, <2>2
<1>2. c \in Channels \ {"wallet", "swapper", "status"}
  BY DEF Channels
<1>3. chan'["wallet"] = chan["wallet"] /\ chan'["swapper"] = chan["swapper"]
  BY <1>1 DEF Unmoved, Channels
<1>4. BootloadFirst'
  BY <1>1, <1>2, <1>3, BehindFirst
<1>5. UNCHANGED <<world, memory, tables>>
  BY <1>1 DEF disk, tables
<1> QED BY <1>1, <1>2, <1>4, <1>5, DropSwaps

LEMMA StoreStep ==
  ASSUME Inv, StatusStores
  PROVE  BootloadFirst' /\ \A s \in Swaps : SwapInv(s)'
<1>1. /\ chan["status"] # <<>> /\ Typed /\ Unmoved({"status"})
      /\ chan'["status"] = Tail(chan["status"])
      /\ UNCHANGED <<world, memory, tables>>
  BY StoresEffect DEF Inv
<1>2. /\ "status" \in Channels /\ Unmoved({"status", "status", "swapper_out"})
      /\ \A c \in Channels \ {"status"} : chan'[c] = chan[c]
  BY <1>1 DEF Unmoved, Channels
<1>3. BootloadFirst'
  <2>1. (Idle' <=> Idle) /\ (Booting' <=> Booting)
    BY <1>1, <1>2 DEF Idle, Booting, memory, Channels
  <2>2. boots # 0 /\ boots' = boots
    BY <1>1, <1>2 DEF Inv, BootloadFirst, world
  <2> QED BY <1>2, <2>1, <2>2 DEF Inv, BootloadFirst, Channels
<1> QED BY <1>1, <1>2, <1>3, DropSwaps

LEMMA DeleteStep ==
  ASSUME Inv, NEW c \in {"immediate_out", "delayed_out"}, SwapperDeletes(c)
  PROVE  BootloadFirst' /\ \A s \in Swaps : SwapInv(s)'
<1>1. /\ chan[c] # <<>> /\ Typed /\ Unmoved({c}) /\ chan'[c] = Tail(chan[c])
      /\ UNCHANGED <<world, memory, known, accepted, receipts>>
  BY DeletesEffect DEF Inv
<1>2. PICK t \in Swaps :
        /\ Head(chan[c]) = DeleteSwap(t)
        /\ pending' = [pending EXCEPT ![t] = "none"] \/ UNCHANGED pending
  BY DeletesEffect DEF Inv
<1>3. c \in Channels \ {"wallet", "swapper", "status"} /\ TypeOK
  BY DEF Channels, Inv
<1>4. Unmoved({c, "status", "swapper_out"})
  BY <1>1 DEF Unmoved
<1>5. chan'["wallet"] = chan["wallet"] /\ chan'["swapper"] = chan["swapper"]
  BY <1>1 DEF Unmoved, Channels
<1>6. BootloadFirst'
  BY <1>1, <1>3, <1>5, BehindFirst
<1>7. ASSUME NEW s \in Swaps
      PROVE  SwapInv(s)'
  <2>1. SwapInv(s) /\ \A e \in Channels : Once(s, chan[e])
    BY DEF Inv, SwapInv
  <2>2. UNCHANGED <<posted, asking, running, executed, known, accepted>>
    BY <1>1 DEF world, memory
  <2>3. /\ \A p \in Places : At(s, p)' => At(s, p)
        /\ \A e \in Channels : Once(s, chan'[e])
        /\ IsAbout(Head(chan[c]), s) => ~At(s, c)'
    BY <1>1, <1>3, <1>4, <2>1, <2>2, Dropping
  <2>4. chan'["immediate"] = chan["immediate"]
    BY <1>1 DEF Unmoved, Channels
  <2>5. CASE pending'[s] = pending[s]
    BY <2>1, <2>2, <2>3, <2>4, <2>5, SwapKept
  <2>6. CASE pending'[s] # pending[s]
    <3>1. s = t /\ pending'[s] = "none"
      BY <1>2, <1>3, <2>6 DEF TypeOK
    <3>2. IsAbout(Head(chan[c]), s)
      BY <1>2, <3>1, Abouts
    <3>3. At(s, c) /\ c \in Places
      BY <1>1, <1>3, <3>2, ChannelTakes DEF At, Places
    <3>4. \A p \in Places : At(s, p) => p = c
      BY <2>1, <3>3 DEF SwapInv
    <3>5. \A p \in Places : ~At(s, p)'
      BY <2>3, <3>2, <3>4
    <3>6. running'[s] = "none"
      BY <2>2, <3>5 DEF At, Places, Channels
    <3>7. \A m \in ToSet(chan'["immediate"]) : m.id # s
      <4>1. ~About(s, chan'["immediate"])
        BY <3>5 DEF At, Places, Channels
      <4> QED BY <1>1, <4>1, NoneWaiting
    <3>8. /\ \A e \in {"wallet", "swapper"} : ~At(s, e)'
          /\ \A p \in {"delayed", "asking", "delayed_out"} : ~At(s, p)'
          /\ ~At(s, "immediate_out")'
      BY <3>5 DEF Places, Channels
    <3>9. \A blob \in Executable : <<s, blob>> \in executed' => s \in accepted'
      BY <2>1, <2>2 DEF SwapInv
    <3>10. \A a, b \in Executable : <<s, a>> \in executed' /\ <<s, b>> \in executed' => a = b
      BY <2>1, <2>2 DEF SwapInv
    <3>11. (s \in known' => s \in accepted') /\ (s \in accepted' => s \in posted')
      BY <2>1, <2>2 DEF SwapInv
    <3> QED BY <2>3, <3>1, <3>5, <3>6, <3>7, <3>8, <3>9, <3>10, <3>11 DEF SwapInv
  <2> QED BY <2>5, <2>6
<1> QED BY <1>6, <1>7
LEMMA BootStep ==
  ASSUME Inv, SwapperBootloads
  PROVE  BootloadFirst' /\ \A s \in Swaps : SwapInv(s)'
<1>1. /\ chan["swapper"] # <<>> /\ Head(chan["swapper"]) = Bootload
      /\ UNCHANGED <<world, memory, disk>>
  BY DEF SwapperBootloads, Takes
<1>2. TypeOK /\ BootloadFirst /\ "swapper" \in Channels /\ "wallet" \in Channels
  BY DEF Inv, Channels
<1>3. CASE Done("swapper", Nothing)
  <2>1. Typed /\ Unmoved({"swapper"}) /\ chan'["swapper"] = Tail(chan["swapper"])
    BY <1>1, <1>2, <1>3, DropsEffect
  <2>2. Unmoved({"swapper", "status", "swapper_out"})
    BY <2>1 DEF Unmoved
  <2>3. \A s \in Swaps : SwapInv(s)'
    BY <1>1, <1>2, <2>1, <2>2, DropSwaps DEF disk, tables
  <2>4. /\ Bootload \in ToSet(chan["swapper"])
        /\ OnlyFirst(chan["swapper"]) => Bootload \notin ToSet(chan'["swapper"])
    BY <1>1, <1>2, <2>1, ChannelTakes
  <2>5. /\ OnlyFirst(chan["swapper"]) /\ boots = 1
        /\ Bootload \notin ToSet(chan["wallet"])
    BY <1>1, <1>2 DEF BootloadFirst, OnlyFirst
  <2>6. \A c \in {"wallet", "swapper"} : Bootload \notin ToSet(chan'[c])
    BY <1>2, <2>1, <2>4, <2>5 DEF Unmoved
  <2>7. BootloadFirst'
    BY <1>1, <2>5, <2>6, BootedStays DEF world
  <2> QED BY <2>3, <2>7
<1>4. ASSUME NEW order \in SetToSeqs({s \in Swaps : pending[s] # "none"}), Resend(order)
      PROVE  BootloadFirst' /\ \A s \in Swaps : SwapInv(s)'
  <2>1. /\ Typed /\ Unmoved({"swapper", "swapper_out", "delayed", "immediate"})
        /\ chan'["swapper"] = Tail(chan["swapper"])
        /\ \A d \in {"delayed", "immediate"} : \E out \in Seq(Stocks(d)) :
             /\ chan'[d] = chan[d] \o out
             /\ \A s : /\ About(s, out) <=> /\ s \in Swaps /\ pending[s] # "none"
                                            /\ Child(pending[s]) = d
                       /\ Once(s, out)
    BY <1>1, <1>2, <1>4, ResendEffect
  <2>2. /\ Bootload \in ToSet(chan["swapper"])
        /\ OnlyFirst(chan["swapper"]) => Bootload \notin ToSet(chan'["swapper"])
    BY <1>1, <1>2, <2>1, ChannelTakes
  <2>3. /\ OnlyFirst(chan["swapper"]) /\ boots = 1
        /\ Bootload \notin ToSet(chan["wallet"])
    BY <1>1, <1>2 DEF BootloadFirst, OnlyFirst
  <2>4. \A c \in {"wallet", "swapper"} : Bootload \notin ToSet(chan'[c])
    BY <1>2, <2>1, <2>2, <2>3 DEF Unmoved
  <2>5. BootloadFirst'
    BY <1>1, <2>3, <2>4, BootedStays DEF world
  <2>6. Idle /\ \A c \in Channels \ {"wallet", "swapper", "status"} : chan[c] = <<>>
    BY <1>2, <2>2 DEF BootloadFirst, Booting
  <2>7. ASSUME NEW d \in {"delayed", "immediate"}
        PROVE  /\ ToSet(chan'[d]) \subseteq Stocks(d)
               /\ \A s : /\ About(s, chan'[d]) <=> /\ s \in Swaps /\ pending[s] # "none"
                                                   /\ Child(pending[s]) = d
                         /\ Once(s, chan'[d])
    <3> DEFINE S == Stocks(d)
    <3>1. PICK out \in Seq(S) :
             /\ chan'[d] = chan[d] \o out
             /\ \A s : /\ About(s, out) <=> /\ s \in Swaps /\ pending[s] # "none"
                                            /\ Child(pending[s]) = d
                       /\ Once(s, out)
      BY <2>1
    <3>2. chan[d] = <<>>
      BY <2>6 DEF Channels
    <3> HIDE DEF S
    <3>3. chan'[d] = out
      BY <3>1, <3>2, ConcatEmptySeq
    <3>4. ToSet(out) \subseteq S
      BY <3>1, ElementOfSeq, LenProperties DEF ToSet
    <3> QED BY <3>1, <3>3, <3>4 DEF S
  <2>8. ASSUME NEW s \in Swaps
        PROVE  SwapInv(s)'
    <3>1. SwapInv(s) /\ UNCHANGED <<posted, pending, known, accepted, asking, running, executed>>
      BY <1>1 DEF Inv, world, memory, disk, tables
    <3>2. s \notin asking /\ running[s] = "none"
      BY <2>6 DEF Idle
    <3>3. /\ About(s, chan'["swapper"]) => About(s, chan["swapper"])
          /\ Once(s, chan["swapper"]) => Once(s, chan'["swapper"])
      BY <1>1, <1>2, <2>1, ChannelTakes
    <3>4. \A c \in {"wallet", "delayed_out", "immediate_out"} : chan'[c] = chan[c]
      BY <2>1 DEF Unmoved, Channels
    <3>5. \A c \in {"delayed_out", "immediate_out"} : chan'[c] = <<>>
      BY <2>6, <3>4 DEF Channels
    <3>6. \A c \in Channels : Once(s, chan'[c])
      BY <2>1, <2>7, <3>1, <3>3, <3>4, Silent DEF SwapInv, Channels
    <3>7. ASSUME NEW p \in Places, At(s, p)'
          PROVE  \/ p \in {"wallet", "swapper"} /\ At(s, p)
                 \/ p \in {"delayed", "immediate"} /\ pending[s] # "none" /\ Child(pending[s]) = p
      <4>1. p # "asking" /\ p # "running"
        BY <3>1, <3>2, <3>7 DEF At, Channels
      <4>2. p \in Channels /\ About(s, chan'[p])
        BY <3>7, <4>1 DEF At, Places
      <4>3. p \notin {"status", "swapper_out"}
        BY <2>1, <4>2, Silent
      <4>4. p \notin {"delayed_out", "immediate_out"}
        BY <3>5, <4>2, SmallSeqs, AboutSmall
      <4>5. CASE p \in {"wallet", "swapper"}
        BY <3>3, <3>4, <4>2, <4>5 DEF At
      <4>6. CASE p \in {"delayed", "immediate"}
        BY <2>7, <4>2, <4>6
      <4> QED BY <4>2, <4>3, <4>4, <4>5, <4>6 DEF Channels
    <3>8. \A p \in {"wallet", "swapper"} : At(s, p) => pending[s] = "none"
      BY <3>1 DEF SwapInv
    <3>9. \A p, q \in Places : At(s, p)' /\ At(s, q)' => p = q
      BY <3>1, <3>7, <3>8 DEF SwapInv
    <3>10. \A m \in ToSet(chan'["immediate"]) : m.id = s => pending'[s] = m.blob
      <4> SUFFICES ASSUME NEW m \in ToSet(chan'["immediate"]), m.id = s
                   PROVE  pending[s] = m.blob
        BY <3>1
      <4>1. m \in Stocks("immediate")
        BY <2>7
      <4> QED BY <4>1, MessageFields DEF Stocks
    <3>11. \A c \in {"wallet", "swapper"} : At(s, c)' => s \in posted' \ accepted'
      <4>1. \A c \in {"wallet", "swapper"} : At(s, c)' => At(s, c)
        BY <3>7 DEF Places, Channels
      <4> QED BY <3>1, <4>1 DEF SwapInv
    <3>12. /\ \A p \in {"delayed", "asking", "delayed_out"} : At(s, p)' => pending'[s] = "delay"
           /\ At(s, "immediate_out")' => pending'[s] # "none"
      BY <3>1, <3>7 DEF Child, Places, Channels
    <3> QED BY <3>1, <3>2, <3>6, <3>9, <3>10, <3>11, <3>12 DEF SwapInv
  <2> QED BY <2>5, <2>8
<1> QED BY <1>3, <1>4 DEF SwapperBootloads
(* What both writes of PutSwap and the first alone do to the pending table.*)
Puts(s, blob) ==
  pending' = [pending EXCEPT ![s] = blob] /\ accepted' = accepted \cup {s}

(* A swap that is being stored is nowhere else, and was not executed yet.  *)
LEMMA Storing ==
  ASSUME Inv, NEW c \in {"swapper", "delayed_out"}, chan[c] # <<>>,
         NEW t \in Swaps, NEW blob \in Blobs,
         Head(chan[c]) = Request(t, blob), Accepted(c, t, blob),
         Puts(t, blob)
  PROVE  /\ At(t, c) /\ \A p \in Places : At(t, p) => p = c
         /\ pending'[t] = blob /\ blob # "none" /\ t \in accepted' /\ t \in posted
         /\ running[t] = "none" /\ \A b \in Executable : <<t, b>> \notin executed
         /\ \A m \in ToSet(chan["immediate"]) : m.id # t
         /\ \A s \in Swaps \ {t} : /\ pending'[s] = pending[s]
                                   /\ s \in accepted' <=> s \in accepted
<1>1. TypeOK /\ SwapInv(t) /\ c \in Channels /\ c \in Places
  BY DEF Inv, Channels, Places
<1>2. At(t, c)
  <2>1. IsAbout(Head(chan[c]), t)
    BY MessageFields DEF IsAbout
  <2> DEFINE S == Carries(c)
             q == chan[c]
  <2>2. q \in Seq(S) /\ q # <<>> /\ IsAbout(Head(q), t)
    BY <1>1, <2>1 DEF TypeOK
  <2> HIDE DEF S, q
  <2>3. Head(q) \in ToSet(q)
    BY <2>2, TailSet
  <2>4. About(t, q)
    BY <2>2, <2>3 DEF About, ToSet
  <2> QED BY <1>1, <2>4 DEF At, q
<1>3. \A p \in Places : At(t, p) => p = c
  BY <1>1, <1>2 DEF SwapInv
<1>4. pending'[t] = blob /\ blob # "none" /\ t \in accepted' /\ t \in posted
  BY <1>1, <1>2, Present, BlobsApart DEF TypeOK, Puts
<1>5. running[t] = "none"
  <2>1. ~At(t, "running")
    BY <1>3 DEF Places, Channels
  <2> QED BY <2>1 DEF At
<1>6. \A m \in ToSet(chan["immediate"]) : m.id # t
  <2>1. ~About(t, chan["immediate"])
    BY <1>3 DEF At, Places, Channels
  <2> DEFINE S == Carries("immediate")
             q == chan["immediate"]
  <2>2. q \in Seq(S)
    BY <1>1 DEF TypeOK, Channels
  <2> HIDE DEF S, q
  <2>3. \A i \in DOMAIN q : q[i] \in S
    BY <2>2, ElementOfSeq, LenProperties
  <2>4. \A m \in S : m.type = "SwapRequest"
    BY Carried, MessageFields DEF S
  <2> QED BY <2>1, <2>3, <2>4 DEF About, IsAbout, ToSet, q
<1>7. \A b \in Executable : <<t, b>> \notin executed
  <2>1. CASE c = "swapper"
    BY <1>1, <1>2, <2>1 DEF SwapInv
  <2>2. CASE c = "delayed_out"
    BY <1>1, <1>2, <2>2, BlobsApart DEF SwapInv
  <2> QED BY <2>1, <2>2
<1>8. \A s \in Swaps \ {t} : pending'[s] = pending[s] /\ (s \in accepted' <=> s \in accepted)
  BY <1>1 DEF TypeOK, Puts
<1> QED BY <1>2, <1>3, <1>4, <1>5, <1>6, <1>7, <1>8

(* If PutSwap is cut short, the swap it stored as pending is nowhere else. *)
LEMMA Stranded ==
  ASSUME NEW t \in Swaps, \A p \in Places : ~At(t, p)', \A e \in Channels : Once(t, chan'[e]),
         pending'[t] # "none", t \in accepted', t \in posted', running'[t] = "none",
         \A b \in Executable : <<t, b>> \notin executed',
         \A m \in ToSet(chan'["immediate"]) : m.id # t
  PROVE  SwapInv(t)'
<1>1. /\ \A p \in {"wallet", "swapper", "delayed", "asking", "delayed_out"} : ~At(t, p)'
      /\ ~At(t, "immediate_out")'
  BY DEF Places, Channels
<1> QED BY <1>1 DEF SwapInv

LEMMA AcceptStep ==
  ASSUME Inv, NEW c \in {"swapper", "delayed_out"}, SwapperAccepts(c)
  PROVE  BootloadFirst' /\ \A s \in Swaps : SwapInv(s)'
<1>1. /\ chan[c] # <<>> /\ Typed /\ chan'[c] = Tail(chan[c])
      /\ UNCHANGED <<world, memory, receipts>>
  BY AcceptsEffect DEF Inv
<1>2. PICK t \in Swaps, blob \in Blobs :
        /\ Head(chan[c]) = Request(t, blob) /\ Accepted(c, t, blob)
        /\ \/ Unmoved({c}) /\ (UNCHANGED tables \/ PutPending(t, blob))
           \/ /\ PutSwap(t, blob) /\ Unmoved({c, Child(blob)})
              /\ chan'[Child(blob)] = chan[Child(blob)] \o <<Request(t, blob)>>
  BY AcceptsEffect DEF Inv
<1>3. /\ TypeOK /\ BootloadFirst /\ c \in Channels /\ c \in Places
      /\ Child(blob) \in {"delayed", "immediate"}
  BY DEF Inv, Channels, Places, Child
<1>4. Unmoved({c, "delayed", "immediate"})
  BY <1>2, <1>3 DEF Unmoved
<1>5. BootloadFirst'
  <2>1. CASE c = "delayed_out"
    <3>1. chan'["wallet"] = chan["wallet"] /\ chan'["swapper"] = chan["swapper"]
      BY <1>4, <2>1 DEF Unmoved, Channels
    <3>2. \E d \in Channels \ {"wallet", "swapper", "status"} : chan[d] # <<>>
      BY <1>1, <1>3, <2>1
    <3> QED BY <1>1, <3>1, <3>2, BehindFirst
  <2>2. CASE c = "swapper"
    <3>1. /\ Head(chan[c]) \in ToSet(chan[c])
          /\ ToSet(chan'[c]) \subseteq ToSet(chan[c])
          /\ OnlyFirst(chan[c]) => Bootload \notin ToSet(chan'[c])
      BY <1>1, <1>3, ChannelTakes
    <3>2. OnlyFirst(chan[c]) /\ boots = 1 /\ Bootload \notin ToSet(chan["wallet"])
      BY <1>1, <1>3, <2>2 DEF BootloadFirst, OnlyFirst
    <3>3. chan'["wallet"] = chan["wallet"]
      BY <1>4, <2>2 DEF Unmoved, Channels
    <3> QED BY <1>1, <2>2, <3>1, <3>2, <3>3, BootedStays DEF world
  <2> QED BY <2>1, <2>2
<1>6. CASE Unmoved({c}) /\ UNCHANGED tables
  <2>1. Unmoved({c, "status", "swapper_out"})
    BY <1>6 DEF Unmoved
  <2> QED BY <1>1, <1>3, <1>5, <1>6, <2>1, DropSwaps
<1>8. CASE Unmoved({c}) /\ PutPending(t, blob)
  <2>1. Unmoved({c, "status", "swapper_out"})
    BY <1>8 DEF Unmoved
  <2>2. Puts(t, blob) /\ UNCHANGED <<posted, asking, running, executed, known>>
    BY <1>1, <1>8 DEF Puts, PutPending, world, memory
  <2>3. ASSUME NEW s \in Swaps
        PROVE  SwapInv(s)'
    <3>1. SwapInv(s) /\ \A e \in Channels : Once(s, chan[e])
      BY DEF Inv, SwapInv
    <3>2. /\ \A p \in Places : At(s, p)' => At(s, p)
          /\ \A e \in Channels : Once(s, chan'[e])
          /\ IsAbout(Head(chan[c]), s) => ~At(s, c)'
      BY <1>1, <1>3, <2>1, <2>2, <3>1, Dropping
    <3>3. ToSet(chan'["immediate"]) = ToSet(chan["immediate"])
      BY <1>8 DEF Unmoved, Channels
    <3>4. CASE s # t
      <4>1. pending'[s] = pending[s] /\ (s \in accepted' <=> s \in accepted)
        BY <1>1, <1>2, <2>2, <3>4, Storing
      <4> QED BY <2>2, <3>1, <3>2, <3>3, <4>1, SwapKept
    <3>5. CASE s = t
      <4>1. IsAbout(Head(chan[c]), t)
        BY <1>2, MessageFields DEF IsAbout
      <4>2. \A p \in Places : ~At(t, p)'
        BY <1>1, <1>2, <2>2, <3>2, <3>5, <4>1, Storing
      <4>3. /\ pending'[t] # "none" /\ t \in accepted' /\ t \in posted' /\ running'[t] = "none"
            /\ \A b \in Executable : <<t, b>> \notin executed'
            /\ \A m \in ToSet(chan'["immediate"]) : m.id # t
        <5>1. /\ pending'[t] = blob /\ blob # "none" /\ t \in accepted' /\ t \in posted
              /\ running[t] = "none"
          BY <1>1, <1>2, <2>2, Storing
        <5>2. /\ \A b \in Executable : <<t, b>> \notin executed
              /\ \A m \in ToSet(chan["immediate"]) : m.id # t
          BY <1>1, <1>2, <2>2, Storing
        <5> QED BY <2>2, <3>3, <5>1, <5>2
      <4> QED BY <3>2, <3>5, <4>2, <4>3, Stranded
    <3> QED BY <3>4, <3>5
  <2> QED BY <1>5, <2>3
<1>7. CASE /\ PutSwap(t, blob) /\ Unmoved({c, Child(blob)})
           /\ chan'[Child(blob)] = chan[Child(blob)] \o <<Request(t, blob)>>
  <2> DEFINE d == Child(blob)
             k == Request(t, blob)
  <2>1. d \in Channels \ {c} /\ d \in Places /\ d \in {"delayed", "immediate"}
    BY <1>3 DEF Channels, Places
  <2>2. Unmoved({c, d, "status", "swapper_out"}) /\ chan'[d] = chan[d] \o <<k>>
    BY <1>7 DEF Unmoved
  <2>3. \A s : IsAbout(k, s) <=> s = t
    BY Abouts
  <2>4. k.id = t /\ k.blob = blob
    BY MessageFields
  <2>5. (d = "delayed" <=> blob = "delay") /\ (d = "immediate" <=> blob # "delay")
    BY DEF Child
  <2>6. k \in Carries(d)
    <3>1. CASE blob = "delay"
      <4>1. t \in Delayed
        BY <1>2, <3>1, BlobsApart DEF Accepted, Posted
      <4> QED BY <2>5, <3>1, <4>1, Carried
    <3>2. CASE blob # "delay"
      <4>1. blob \in Versions(t)
        BY <1>2, <3>2, BlobsApart DEF Accepted
      <4> QED BY <2>5, <3>2, <4>1, Carried
    <3> QED BY <3>1, <3>2
  <2> HIDE DEF d, k
  <2>7. At(t, c)
    <3>1. IsAbout(Head(chan[c]), t)
      BY <1>2, MessageFields DEF IsAbout
    <3> QED BY <1>1, <1>3, <3>1, ChannelTakes DEF At
  <2>8. /\ pending' = [pending EXCEPT ![t] = blob] /\ known' = known \cup {t}
        /\ accepted' = accepted \cup {t}
        /\ UNCHANGED <<posted, asking, running, executed>>
    BY <1>1, <1>7 DEF PutSwap, world, memory
  <2>9. d = "immediate" => ToSet(chan'["immediate"]) = ToSet(chan["immediate"]) \cup {k}
    BY <1>3, <2>1, <2>2, <2>6, ChannelGetsOne
  <2>10. d # "immediate" => chan'["immediate"] = chan["immediate"]
    BY <2>2 DEF Unmoved, Channels
  <2>11. ASSUME NEW s \in Swaps
         PROVE  SwapInv(s)'
    <3>1. SwapInv(s) /\ \A e \in Channels : Once(s, chan[e])
      BY DEF Inv, SwapInv
    <3>2. s = t => ~About(s, chan[d])
      BY <2>1, <2>7, <3>1, <1>3 DEF SwapInv, At
    <3>3. IsAbout(k, s) => ~About(s, chan[d])
      BY <2>3, <3>2
    <3>4. /\ \A p \in Places : At(s, p)' => At(s, p) \/ (IsAbout(k, s) /\ p = d)
          /\ \A e \in Channels : Once(s, chan'[e])
          /\ IsAbout(Head(chan[c]), s) => ~At(s, c)'
      BY <1>1, <1>3, <2>1, <2>2, <2>6, <2>8, <3>1, <3>3, Passing
    <3>5. CASE s # t
      <4>1. \A p \in Places : At(s, p)' => At(s, p)
        BY <2>3, <3>4, <3>5
      <4>2. /\ pending'[s] = pending[s] /\ (s \in accepted' <=> s \in accepted)
            /\ s \in known' => s \in known
        BY <1>3, <2>8, <3>5 DEF TypeOK
      <4>3. \A m \in ToSet(chan'["immediate"]) : m.id = s => m \in ToSet(chan["immediate"])
        BY <2>4, <2>9, <2>10, <3>5
      <4> QED BY <2>8, <3>1, <3>4, <4>1, <4>2, <4>3, SwapKept
    <3>6. CASE s = t
      <4>1. \A p \in Places : At(s, p) => p = c
        BY <1>3, <2>7, <3>1, <3>6 DEF SwapInv
      <4>2. IsAbout(Head(chan[c]), s)
        BY <1>2, <3>6, MessageFields DEF IsAbout
      <4>3. \A p \in Places : At(s, p)' => p = d
        BY <3>4, <4>1, <4>2
      <4>10. Puts(t, blob)
        BY <2>8 DEF Puts
      <4>11. /\ pending'[t] = blob /\ t \in accepted' /\ t \in posted /\ blob # "none"
             /\ running[t] = "none"
        BY <1>1, <1>2, <4>10, Storing
      <4>4. pending'[s] = blob /\ s \in accepted' /\ s \in posted' /\ blob # "none"
        BY <2>8, <3>6, <4>11
      <4>5. running'[s] = "none"
        BY <2>8, <3>6, <4>11
      <4>12. \A m \in ToSet(chan["immediate"]) : m.id # t
        BY <1>1, <1>2, <4>10, Storing
      <4>6. \A m \in ToSet(chan["immediate"]) : m.id # s
        BY <3>6, <4>12
      <4>7. \A m \in ToSet(chan'["immediate"]) : m.id = s => pending'[s] = m.blob
        BY <2>4, <2>9, <2>10, <4>4, <4>6
      <4>13. \A b \in Executable : <<t, b>> \notin executed
        BY <1>1, <1>2, <4>10, Storing
      <4>8. \A b \in Executable : <<s, b>> \notin executed
        BY <3>6, <4>13
      <4>9. /\ \A e \in {"wallet", "swapper"} : ~At(s, e)'
            /\ \A p \in {"asking", "delayed_out", "immediate_out"} : ~At(s, p)'
            /\ At(s, "delayed")' => pending'[s] = "delay"
        BY <2>1, <2>5, <4>3, <4>4 DEF Places, Channels
      <4> QED BY <2>8, <3>4, <4>3, <4>4, <4>5, <4>7, <4>8, <4>9 DEF SwapInv
    <3> QED BY <3>5, <3>6
  <2> QED BY <1>5, <2>11
<1> QED BY <1>2, <1>6, <1>7, <1>8

LEMMA AskStep ==
  ASSUME Inv, DelayedTakes \/ DelayedTicks
  PROVE  BootloadFirst' /\ \A s \in Swaps : SwapInv(s)'
<1>1. PICK asked \in SUBSET Delayed :
        /\ Typed /\ Unmoved({"delayed", "delayed_out"})
        /\ \/ /\ chan["delayed"] # <<>> /\ chan'["delayed"] = Tail(chan["delayed"])
              /\ \E s : asked = {s} /\ Head(chan["delayed"]) = Request(s, "delay")
           \/ chan'["delayed"] = chan["delayed"] /\ asked = asking /\ asking # {}
        /\ \E out \in Seq(Carries("delayed_out")) :
             /\ chan'["delayed_out"] = chan["delayed_out"] \o out
             /\ \A s : (About(s, out) <=> s \in asked \ asking') /\ Once(s, out)
        /\ asking' \subseteq asking \cup asked /\ asking \ asked \subseteq asking'
        /\ UNCHANGED <<world, running, executed, disk>>
  BY AskOutcome DEF Inv
<1>2. /\ TypeOK /\ "delayed" \in Channels /\ "delayed_out" \in Channels
      /\ UNCHANGED <<posted, pending, known, accepted, running, executed>>
  BY <1>1 DEF Inv, Channels, world, disk, tables
<1>3. PICK out \in Seq(Carries("delayed_out")) :
        /\ chan'["delayed_out"] = chan["delayed_out"] \o out
        /\ \A s : (About(s, out) <=> s \in asked \ asking') /\ Once(s, out)
  BY <1>1
<1>4. BootloadFirst'
  <2>1. chan'["wallet"] = chan["wallet"] /\ chan'["swapper"] = chan["swapper"]
    BY <1>1 DEF Unmoved, Channels
  <2>2. ~Idle \/ \E d \in Channels \ {"wallet", "swapper", "status"} : chan[d] # <<>>
    BY <1>1, <1>2 DEF Idle
  <2> QED BY <1>1, <2>1, <2>2, BehindFirst
<1>5. ASSUME NEW s \in Swaps
      PROVE  SwapInv(s)'
  <2>1. SwapInv(s)
    BY DEF Inv
  <2>2. /\ About(s, chan'["delayed_out"]) <=> About(s, chan["delayed_out"]) \/ s \in asked \ asking'
        /\ (/\ Once(s, chan["delayed_out"])
            /\ ~(About(s, chan["delayed_out"]) /\ s \in asked \ asking'))
           => Once(s, chan'["delayed_out"])
    BY <1>2, <1>3, ChannelGets
  <2>3. /\ About(s, chan'["delayed"]) => About(s, chan["delayed"])
        /\ Once(s, chan["delayed"]) => Once(s, chan'["delayed"])
    BY <1>1, <1>2, ChannelTakes
  <2>4. s \in asked => \E p \in {"delayed", "asking"} : At(s, p)
    <3>1. CASE asked = asking
      BY <3>1 DEF At, Channels
    <3>2. CASE /\ chan["delayed"] # <<>> /\ chan'["delayed"] = Tail(chan["delayed"])
               /\ \E t : asked = {t} /\ Head(chan["delayed"]) = Request(t, "delay")
      <4>1. s \in asked => IsAbout(Head(chan["delayed"]), s)
        BY <3>2, MessageFields DEF IsAbout
      <4> QED BY <1>2, <3>2, <4>1, ChannelTakes DEF At
    <3> QED BY <1>1, <3>1, <3>2
  <2>5. s \in asked => ~At(s, "delayed_out")
    BY <2>1, <2>4 DEF SwapInv, Places, Channels
  <2>6. \A e \in Channels : Once(s, chan'[e])
    <3>1. ~(About(s, chan["delayed_out"]) /\ s \in asked \ asking')
      BY <1>2, <2>5 DEF At
    <3>2. \A e \in Channels \ {"delayed", "delayed_out"} : chan'[e] = chan[e]
      BY <1>1 DEF Unmoved
    <3> QED BY <2>1, <2>2, <2>3, <3>1, <3>2 DEF SwapInv, Channels
  <2>7. chan'["immediate"] = chan["immediate"]
    BY <1>1 DEF Unmoved, Channels
  <2>8. ASSUME NEW p \in Places, At(s, p)'
        PROVE  \/ At(s, p)
               \/ s \in asked /\ (p = "asking" \/ (p = "delayed_out" /\ s \notin asking'))
    <3>1. CASE p \notin {"delayed", "delayed_out", "asking"}
      BY <1>1, <1>2, <2>8, <3>1, Elsewhere
    <3>2. CASE p = "delayed"
      BY <1>2, <2>3, <2>8, <3>2 DEF At, Channels
    <3>3. CASE p = "delayed_out"
      BY <1>2, <2>2, <2>8, <3>3 DEF At, Channels
    <3>4. CASE p = "asking"
      BY <1>1, <2>8, <3>4 DEF At, Channels
    <3> QED BY <3>1, <3>2, <3>3, <3>4
  <2>9. CASE s \notin asked
    <3>1. \A p \in Places : At(s, p)' => At(s, p)
      BY <2>8, <2>9
    <3> QED BY <1>2, <2>1, <2>6, <2>7, <3>1, SwapKept
  <2>10. CASE s \in asked
    <3>1. ~About(s, chan'["delayed"])
      <4>1. CASE asked = asking /\ chan'["delayed"] = chan["delayed"]
        BY <1>2, <2>1, <2>10, <4>1 DEF SwapInv, At, Places, Channels
      <4>2. CASE /\ chan["delayed"] # <<>> /\ chan'["delayed"] = Tail(chan["delayed"])
                 /\ \E t : asked = {t} /\ Head(chan["delayed"]) = Request(t, "delay")
        <5>1. IsAbout(Head(chan["delayed"]), s)
          BY <2>10, <4>2, MessageFields DEF IsAbout
        <5> QED BY <1>2, <2>1, <4>2, <5>1, ChannelTakes DEF SwapInv
      <4> QED BY <1>1, <4>1, <4>2
    <3>2. \A p \in Places : At(s, p) => p \in {"delayed", "asking"}
      BY <2>1, <2>4, <2>10 DEF SwapInv, Places, Channels
    <3>3. ASSUME NEW p \in Places, At(s, p)'
          PROVE  (p = "asking" /\ s \in asking') \/ (p = "delayed_out" /\ s \notin asking')
      <4>1. p # "delayed"
        BY <3>1, <3>3 DEF At
      <4>2. p = "asking" => s \in asking'
        BY <3>3 DEF At, Channels
      <4> QED BY <2>8, <3>2, <3>3, <4>1, <4>2
    <3>4. \A p, q \in Places : At(s, p)' /\ At(s, q)' => p = q
      BY <3>3
    <3>5. pending[s] = "delay"
      BY <2>1, <2>4, <2>10 DEF SwapInv
    <3>6. /\ \A c \in {"wallet", "swapper"} : ~At(s, c)'
          /\ ~At(s, "immediate_out")'
      BY <3>3 DEF Places, Channels
    <3> QED BY <1>2, <2>1, <2>6, <2>7, <3>4, <3>5, <3>6 DEF SwapInv
  <2> QED BY <2>9, <2>10
<1> QED BY <1>4, <1>5
LEMMA ExecuteStep ==
  ASSUME Inv, ImmediateTakes \/ ImmediateTicks
  PROVE  BootloadFirst' /\ \A s \in Swaps : SwapInv(s)'
<1>1. PICK T \in SUBSET Swaps : \E requested \in [T -> Executable] :
        /\ \A s \in T : requested[s] \in Versions(s)
        /\ Typed /\ Unmoved({"immediate", "immediate_out"})
        /\ \/ /\ chan["immediate"] # <<>> /\ chan'["immediate"] = Tail(chan["immediate"])
              /\ \E s \in Swaps : /\ T = {s}
                                  /\ Head(chan["immediate"]) = Request(s, requested[s])
           \/ /\ chan'["immediate"] = chan["immediate"]
              /\ T = {s \in Swaps : running[s] # "none"} /\ T # {}
              /\ \A s \in T : requested[s] = running[s]
        /\ \E out \in Seq(Carries("immediate_out")) :
             /\ chan'["immediate_out"] = chan["immediate_out"] \o out
             /\ \A s : Once(s, out) /\ (About(s, out) => s \in T)
             /\ \A s \in T : ExecutedAs(s, requested[s], About(s, out))
        /\ DOMAIN running' = Swaps
        /\ \A s \in Swaps \ T : running'[s] = running[s]
        /\ executed \subseteq executed'
        /\ executed' \subseteq executed \cup {<<s, requested[s]>> : s \in T}
        /\ UNCHANGED <<world, asking, disk>>
  BY ExecuteOutcome DEF Inv
<1>2. PICK requested \in [T -> Executable] :
        /\ \A s \in T : requested[s] \in Versions(s)
        /\ Typed /\ Unmoved({"immediate", "immediate_out"})
        /\ \/ /\ chan["immediate"] # <<>> /\ chan'["immediate"] = Tail(chan["immediate"])
              /\ \E s \in Swaps : /\ T = {s}
                                  /\ Head(chan["immediate"]) = Request(s, requested[s])
           \/ /\ chan'["immediate"] = chan["immediate"]
              /\ T = {s \in Swaps : running[s] # "none"} /\ T # {}
              /\ \A s \in T : requested[s] = running[s]
        /\ \E out \in Seq(Carries("immediate_out")) :
             /\ chan'["immediate_out"] = chan["immediate_out"] \o out
             /\ \A s : Once(s, out) /\ (About(s, out) => s \in T)
             /\ \A s \in T : ExecutedAs(s, requested[s], About(s, out))
        /\ DOMAIN running' = Swaps
        /\ \A s \in Swaps \ T : running'[s] = running[s]
        /\ executed \subseteq executed'
        /\ executed' \subseteq executed \cup {<<s, requested[s]>> : s \in T}
        /\ UNCHANGED <<world, asking, disk>>
  BY <1>1
<1>3. PICK out \in Seq(Carries("immediate_out")) :
        /\ chan'["immediate_out"] = chan["immediate_out"] \o out
        /\ \A s : Once(s, out) /\ (About(s, out) => s \in T)
        /\ \A s \in T : ExecutedAs(s, requested[s], About(s, out))
  BY <1>2
<1>4. /\ TypeOK /\ "immediate" \in Channels /\ "immediate_out" \in Channels
      /\ "running" \in Places /\ "immediate" \in Places /\ "immediate_out" \in Places
      /\ UNCHANGED <<posted, pending, known, accepted, asking>>
  BY <1>2 DEF Inv, Channels, Places, world, disk, tables
<1>5. \/ /\ chan["immediate"] # <<>> /\ chan'["immediate"] = Tail(chan["immediate"])
         /\ \E t \in Swaps : T = {t} /\ Head(chan["immediate"]) = Request(t, requested[t])
      \/ /\ chan'["immediate"] = chan["immediate"]
         /\ T = {s \in Swaps : running[s] # "none"} /\ T # {}
         /\ \A s \in T : requested[s] = running[s]
  BY <1>2
<1>6. BootloadFirst'
  <2>1. chan'["wallet"] = chan["wallet"] /\ chan'["swapper"] = chan["swapper"]
    BY <1>2 DEF Unmoved, Channels
  <2>2. ~Idle \/ \E d \in Channels \ {"wallet", "swapper", "status"} : chan[d] # <<>>
    BY <1>4, <1>5 DEF Idle
  <2>3. UNCHANGED world
    BY <1>2
  <2> QED BY <2>1, <2>2, <2>3, BehindFirst
<1>7. /\ ToSet(chan'["immediate"]) \subseteq ToSet(chan["immediate"])
      /\ \A s : /\ About(s, chan'["immediate"]) => About(s, chan["immediate"])
                /\ Once(s, chan["immediate"]) => Once(s, chan'["immediate"])
  <2>1. CASE chan'["immediate"] = chan["immediate"]
    BY <2>1
  <2>2. CASE chan["immediate"] # <<>> /\ chan'["immediate"] = Tail(chan["immediate"])
    BY <1>4, <2>2, ChannelTakes
  <2> QED BY <1>5, <2>1, <2>2
<1>8. ASSUME NEW s \in Swaps
      PROVE  SwapInv(s)'
  <2>1. SwapInv(s)
    BY DEF Inv
  <2>2. /\ About(s, chan'["immediate_out"]) <=> About(s, chan["immediate_out"]) \/ About(s, out)
        /\ (/\ Once(s, chan["immediate_out"]) /\ Once(s, out)
            /\ ~(About(s, chan["immediate_out"]) /\ About(s, out)))
           => Once(s, chan'["immediate_out"])
    BY <1>3, <1>4, ChannelGets
  <2>3. s \in T => /\ pending[s] = requested[s]
                   /\ \E p \in {"immediate", "running"} : At(s, p)
                   /\ ~About(s, chan'["immediate"])
    <3> SUFFICES ASSUME s \in T
                 PROVE  /\ pending[s] = requested[s]
                        /\ \E p \in {"immediate", "running"} : At(s, p)
                        /\ ~About(s, chan'["immediate"])
      OBVIOUS
    <3>1. CASE /\ chan["immediate"] # <<>> /\ chan'["immediate"] = Tail(chan["immediate"])
               /\ \E t \in Swaps : T = {t} /\ Head(chan["immediate"]) = Request(t, requested[t])
      <4>1. Head(chan["immediate"]) = Request(s, requested[s])
        BY <3>1
      <4>2. /\ IsAbout(Head(chan["immediate"]), s)
            /\ Head(chan["immediate"]).id = s /\ Head(chan["immediate"]).blob = requested[s]
        BY <4>1, MessageFields DEF IsAbout
      <4>3. /\ Head(chan["immediate"]) \in ToSet(chan["immediate"])
            /\ About(s, chan["immediate"]) /\ ~About(s, chan'["immediate"])
        BY <1>4, <2>1, <3>1, <4>2, ChannelTakes DEF SwapInv
      <4>4. pending[s] = requested[s]
        BY <2>1, <4>2, <4>3 DEF SwapInv
      <4>5. At(s, "immediate")
        BY <1>4, <4>3 DEF At
      <4> QED BY <4>3, <4>4, <4>5
    <3>2. CASE /\ chan'["immediate"] = chan["immediate"]
               /\ T = {t \in Swaps : running[t] # "none"}
               /\ \A t \in T : requested[t] = running[t]
      <4>1. running[s] # "none" /\ requested[s] = running[s]
        BY <3>2
      <4>2. At(s, "running")
        BY <4>1 DEF At
      <4>3. ~At(s, "immediate")
        BY <1>4, <2>1, <4>2 DEF SwapInv
      <4>4. ~About(s, chan'["immediate"])
        BY <1>4, <3>2, <4>3 DEF At
      <4> QED BY <2>1, <4>1, <4>2, <4>4 DEF SwapInv
    <3> QED BY <1>5, <3>1, <3>2
  <2>4. s \in T => ~At(s, "immediate_out")
    BY <1>4, <2>1, <2>3 DEF SwapInv
  <2>5. \A e \in Channels : Once(s, chan'[e])
    <3>1. ~(About(s, chan["immediate_out"]) /\ About(s, out))
      BY <1>3, <1>4, <2>4 DEF At
    <3>2. \A e \in Channels \ {"immediate", "immediate_out"} : chan'[e] = chan[e]
      BY <1>2 DEF Unmoved
    <3>3. \A e \in Channels : Once(s, chan[e])
      BY <2>1 DEF SwapInv
    <3>4. Once(s, out)
      BY <1>3
    <3> QED BY <1>4, <1>7, <2>2, <3>1, <3>2, <3>3, <3>4
  <2>6. ASSUME NEW p \in Places \ {"immediate", "immediate_out", "running"}
        PROVE  At(s, p)' <=> At(s, p)
    <3>1. Unmoved({"immediate", "immediate_out"}) /\ asking' = asking
      BY <1>2
    <3> QED BY <3>1, Elsewhere
  <2>7. CASE s \notin T
    <3>1. running'[s] = running[s]
      BY <1>2, <2>7
    <3>2. ~About(s, out)
      BY <1>3, <2>7
    <3>3. ASSUME NEW p \in Places, At(s, p)'
          PROVE  At(s, p)
      <4>1. CASE p = "immediate"
        BY <1>7, <3>3, <4>1 DEF At, Channels
      <4>2. CASE p = "immediate_out"
        BY <2>2, <3>2, <3>3, <4>2 DEF At, Channels
      <4>3. CASE p = "running"
        BY <3>1, <3>3, <4>3 DEF At, Channels
      <4> QED BY <2>6, <3>3, <4>1, <4>2, <4>3
    <3>4. \A blob \in Executable : <<s, blob>> \in executed' => <<s, blob>> \in executed
      BY <1>2, <2>7
    <3> QED BY <1>4, <1>7, <2>1, <2>5, <3>1, <3>3, <3>4, SwapKept
  <2>8. CASE s \in T
    <3>1. \A p \in Places : At(s, p) => p \in {"immediate", "running"}
      BY <1>4, <2>1, <2>3, <2>8 DEF SwapInv
    <3>2. ExecutedAs(s, requested[s], About(s, out))
      BY <1>3, <2>8
    <3>3. running'[s] \in {requested[s], "none"} /\ (About(s, out) => running'[s] = "none")
      BY <2>1, <2>3, <2>8, <3>2 DEF ExecutedAs, SwapInv
    <3>4. ASSUME NEW p \in Places, At(s, p)'
          PROVE  (p = "immediate_out" /\ About(s, out)) \/ (p = "running" /\ ~About(s, out))
      <4>1. p # "immediate"
        BY <1>4, <2>3, <2>8, <3>4 DEF At
      <4>2. p = "immediate_out" => About(s, out)
        BY <2>2, <2>4, <2>8, <3>4 DEF At, Channels
      <4>3. p = "running" => ~About(s, out)
        BY <3>3, <3>4 DEF At, Channels
      <4> QED BY <2>6, <3>1, <3>4, <4>1, <4>2, <4>3
    <3>5. \A p, q \in Places : At(s, p)' /\ At(s, q)' => p = q
      BY <3>4
    <3>6. \A m \in ToSet(chan'["immediate"]) : m.id # s
      BY <1>2, <2>3, <2>8, NoneWaiting
    <3>7. pending[s] # "none" /\ s \in accepted /\ s \in posted
      <4>1. requested[s] \in Executable
        BY <2>8
      <4>2. requested[s] # "none"
        BY <4>1, BlobsApart DEF Blobs
      <4> QED BY <2>1, <2>3, <2>8, <4>2 DEF SwapInv
    <3>8. \A blob \in Executable : <<s, blob>> \in executed' => blob = pending[s]
      <4> SUFFICES ASSUME NEW blob \in Executable, <<s, blob>> \in executed'
                   PROVE  blob = pending[s]
        OBVIOUS
      <4>1. CASE <<s, blob>> \in executed
        BY <2>1, <3>7, <4>1 DEF SwapInv
      <4>2. CASE \E t \in T : <<s, blob>> = <<t, requested[t]>>
        BY <2>3, <2>8, <4>2
      <4> QED BY <1>2, <4>1, <4>2
    <3>9. /\ \A c \in {"wallet", "swapper"} : ~At(s, c)'
          /\ \A p \in {"delayed", "asking", "delayed_out"} : ~At(s, p)'
      BY <3>4 DEF Places, Channels
    <3> QED BY <1>4, <2>3, <2>5, <2>8, <3>3, <3>5, <3>6, <3>7, <3>8, <3>9 DEF SwapInv
  <2> QED BY <2>7, <2>8
<1> QED BY <1>6, <1>8

LEMMA CrashStep ==
  ASSUME Inv, Crash
  PROVE  BootloadFirst' /\ \A s \in Swaps : SwapInv(s)'
<1>1. /\ boots' = 0 /\ asking' = {} /\ \A s \in Swaps : running'[s] = "none"
      /\ \A c \in Channels : chan'[c] = <<>>
      /\ UNCHANGED <<posted, executed>>
  BY DEF Crash
<1>2. \A c \in Channels : DOMAIN chan'[c] = {}
  BY <1>1, SmallSeqs
<1>3. BootloadFirst'
  <2>1. \A c \in {"wallet", "swapper"} : \A i \in DOMAIN chan'[c] : FALSE
    BY <1>2 DEF Channels
  <2>2. chan'["swapper"] = <<>> /\ Idle'
    BY <1>1 DEF Channels, Idle
  <2> QED BY <1>1, <2>1, <2>2 DEF BootloadFirst
<1>4. ASSUME NEW s \in Swaps
      PROVE  /\ \A c \in Channels : Once(s, chan'[c])
             /\ \A p \in Places : ~At(s, p)'
  <2>1. \A c \in Channels : ~About(s, chan'[c]) /\ Once(s, chan'[c])
    BY <1>2, AboutSmall
  <2> QED BY <1>1, <2>1 DEF At
<1>5. ToSet(chan'["immediate"]) = {}
  BY <1>2 DEF ToSet, Channels
<1>6. CASE UNCHANGED tables
  <2>1. UNCHANGED <<pending, known, accepted>>
    BY <1>6 DEF tables
  <2>2. ASSUME NEW s \in Swaps
        PROVE  SwapInv(s)'
    BY <1>1, <1>4, <1>5, <2>1, SwapKept DEF Inv
  <2> QED BY <1>3, <2>2
<1>7. ASSUME NEW c \in {"swapper", "delayed_out"}, NEW m \in Messages,
             Takes(c, m), m.type = "SwapRequest", PutPending(m.id, m.blob)
      PROVE  \A s \in Swaps : SwapInv(s)'
  <2>1. PICK t \in Swaps, blob \in Blobs : m = Request(t, blob) /\ Accepted(c, t, blob)
    BY <1>7, AcceptedFirst DEF Inv
  <2>2. chan[c] # <<>> /\ Head(chan[c]) = Request(t, blob)
    BY <1>7, <2>1, AcceptedFirst DEF Inv
  <2>3. Puts(t, blob) /\ UNCHANGED known
    <3>1. m.id = t /\ m.blob = blob
      BY <2>1, MessageFields
    <3> QED BY <1>7, <3>1 DEF Puts, PutPending
  <2>4. ASSUME NEW s \in Swaps
        PROVE  SwapInv(s)'
    <3>1. CASE s # t
      <4>1. pending'[s] = pending[s] /\ (s \in accepted' <=> s \in accepted)
        BY <2>1, <2>2, <2>3, <3>1, Storing
      <4> QED BY <1>1, <1>4, <1>5, <2>3, <4>1, SwapKept DEF Inv
    <3>2. CASE s = t
      <4>1. /\ pending'[t] # "none" /\ t \in accepted' /\ t \in posted'
            /\ \A b \in Executable : <<t, b>> \notin executed'
        <5>1. pending'[t] = blob /\ blob # "none" /\ t \in accepted' /\ t \in posted
          BY <2>1, <2>2, <2>3, Storing
        <5>2. \A b \in Executable : <<t, b>> \notin executed
          BY <2>1, <2>2, <2>3, Storing
        <5> QED BY <1>1, <5>1, <5>2
      <4> QED BY <1>1, <1>4, <1>5, <3>2, <4>1, Stranded
    <3> QED BY <3>1, <3>2
  <2> QED BY <2>4
<1> QED BY <1>3, <1>6, <1>7 DEF Crash
-----------------------------------------------------------------------------
(* The invariant holds                                                     *)

LEMMA InvInit ==
  Init => Inv
<1> SUFFICES ASSUME Init PROVE Inv
  OBVIOUS
<1>1. TypeOK
  BY TypeInit
<1>2. \A c \in Channels : chan[c] = <<>> /\ DOMAIN chan[c] = {}
  BY SmallSeqs DEF Init
<1>3. BootloadFirst
  <2>1. boots = 0 /\ Idle
    BY DEF Init, Idle
  <2>2. \A c \in {"wallet", "swapper"} : \A i \in DOMAIN chan[c] : FALSE
    BY <1>2 DEF Channels
  <2> QED BY <1>2, <2>1, <2>2 DEF BootloadFirst, Channels
<1>4. ASSUME NEW s \in Swaps
      PROVE  SwapInv(s)
  <2>1. \A c \in Channels : ~About(s, chan[c]) /\ Once(s, chan[c])
    BY <1>2, AboutSmall
  <2>2. asking = {} /\ running[s] = "none" /\ pending[s] = "none" /\ known = {} /\ accepted = {} /\ executed = {}
    BY DEF Init
  <2>3. \A p \in Places : ~At(s, p)
    BY <2>1, <2>2 DEF At
  <2>4. ToSet(chan["immediate"]) = {}
    BY <1>2 DEF ToSet, Channels
  <2>5. /\ \A c \in {"wallet", "swapper"} : ~At(s, c)
        /\ \A p \in {"delayed", "asking", "delayed_out", "immediate_out"} : ~At(s, p)
    BY <2>3 DEF Places, Channels
  <2> QED BY <2>1, <2>2, <2>3, <2>4, <2>5 DEF SwapInv
<1> QED BY <1>1, <1>3, <1>4 DEF Inv

LEMMA InvStep ==
  ASSUME SingleBootload, Inv, [Next]_vars
  PROVE  Inv'
<1>1. TypeOK'
  BY TypeStep DEF Inv
<1>2. BootloadFirst' /\ \A s \in Swaps : SwapInv(s)'
  <2>1. CASE UNCHANGED vars
    <3>1. UNCHANGED <<posted, boots, chan, asking, running, pending, known, accepted, executed>>
      BY <2>1 DEF vars
    <3>2. BootloadFirst'
      BY <3>1 DEF Inv, BootloadFirst, Booting, Idle
    <3>3. ASSUME NEW s \in Swaps PROVE SwapInv(s)'
      <4>1. SwapInv(s) /\ \A e \in Channels : Once(s, chan[e])
        BY DEF Inv, SwapInv
      <4>2. \A p \in Places : At(s, p)' => At(s, p)
        BY <3>1 DEF At
      <4> QED BY <3>1, <4>1, <4>2, SwapKept
    <3> QED BY <3>2, <3>3
  <2>2. CASE \E c \in {"swapper", "delayed_out"} : SwapperAccepts(c)
    BY <2>2, AcceptStep
  <2>3. CASE \E c \in {"immediate_out", "delayed_out"} : SwapperForwards(c)
    BY <2>3, ForwardStep
  <2>4. CASE \E c \in {"immediate_out", "delayed_out"} : SwapperDeletes(c)
    BY <2>4, DeleteStep
  <2>5. CASE \E s \in Swaps : PostSwap(s)
    BY <2>5, PostStep
  <2>6. CASE SendBootload \/ Crash \/ WalletRoutes \/ WalletForwards
    BY <2>6, SendStep, CrashStep, RoutesStep, ForwardStep
  <2>7. CASE StatusStores \/ SwapperBootloads
    BY <2>7, StoreStep, BootStep
  <2>8. CASE DelayedTakes \/ DelayedTicks \/ ImmediateTakes \/ ImmediateTicks
    BY <2>8, AskStep, ExecuteStep
  <2> QED BY <2>1, <2>2, <2>3, <2>4, <2>5, <2>6, <2>7, <2>8 DEF Next, Tasks
<1> QED BY <1>1, <1>2 DEF Inv

(* Each swap is in one place, the tables on disk say what that place makes *)
(* of it, and no task is ahead of the Bootload: for any number of swaps,   *)
(* crashes and faults, if a start is followed by one Bootload.             *)
THEOREM Inductive ==
  ASSUME SingleBootload
  PROVE  Spec => []IInv
<1>1. Init => Inv
  BY InvInit
<1>2. Inv /\ [Next]_vars => Inv'
  BY InvStep
<1>3. Inv => IInv
  BY InvIsIInv
<1> QED BY <1>1, <1>2, <1>3, PTL DEF Spec

(* A swap is executed with one version of its details, whatever crashes,   *)
(* lost writes and later answers of the callback server come between.      *)
THEOREM ExecutedOnce ==
  ASSUME SingleBootload
  PROVE  Spec => []OneVersion
<1>1. IInv => OneVersion
  BY DEF IInv
<1> QED BY <1>1, Inductive, PTL

(* The pending table is always ahead of the immediate swapper, so that a   *)
(* restart resumes what was being executed.                                *)
THEOREM StoredFirst ==
  ASSUME SingleBootload
  PROVE  Spec => []WriteAhead
<1>1. IInv => WriteAhead
  BY DEF IInv
<1> QED BY <1>1, Inductive, PTL

-----------------------------------------------------------------------------
(* The tables implement Lifecycle                                          *)

LEMMA StageInit ==
  Init => Life!Init
BY DEF Init, Life!Init, Stage

(* A step that leaves the two tables alone for all swaps but one.          *)
LEMMA StageBecomes ==
  ASSUME NEW t \in Swaps, NEW next,
         \A s \in Swaps \ {t} : pending'[s] = pending[s] /\ (s \in accepted' <=> s \in accepted),
         next = IF pending'[t] # "none" THEN pending'[t]
                ELSE IF t \in accepted' THEN "ended" ELSE "none"
  PROVE  Stage' = [Stage EXCEPT ![t] = next]
BY DEF Stage

(* A request that is stored as pending accepts a swap, or fills it.        *)
LEMMA StageStored ==
  ASSUME Inv, NEW c \in {"swapper", "delayed_out"}, chan[c] # <<>>,
         NEW s \in Swaps, NEW blob \in Blobs,
         Head(chan[c]) = Request(s, blob), Accepted(c, s, blob),
         Puts(s, blob)
  PROVE  [Life!Next]_Stage
<1>1. TypeOK
  BY DEF Inv
<1>2. At(s, c) /\ blob # "none" /\ pending'[s] = blob
  BY Storing
<1>6. \A t \in Swaps \ {s} : pending'[t] = pending[t] /\ (t \in accepted' <=> t \in accepted)
  BY Storing
<1>7. c \in Places
  BY DEF Places, Channels
<1>3. Stage' = [Stage EXCEPT ![s] = blob]
  BY <1>2, <1>6, StageBecomes
<1>4. CASE c = "swapper"
  <2>1. Stage[s] = "none"
    BY <1>2, <1>4, <1>7, Present DEF Stage
  <2>2. blob = IF s \in Delayed THEN "delay" ELSE "posted"
    BY <1>4 DEF Accepted, Posted
  <2> QED BY <1>3, <2>1, <2>2 DEF Life!Next, Life!Accept, Life!Become
<1>5. CASE c = "delayed_out"
  <2>1. Stage[s] = "delay"
    BY <1>2, <1>5, <1>7, Present, BlobsApart DEF Stage
  <2>2. blob \in Fills
    BY <1>5, BlobsApart DEF Accepted
  <2> QED BY <1>3, <2>1, <2>2 DEF Life!Next, Life!Fill, Life!Become
<1> QED BY <1>4, <1>5

LEMMA StageStep ==
  ASSUME Inv, [Next]_vars
  PROVE  [Life!Next]_Stage
<1>1. TypeOK
  BY DEF Inv
<1>2. ASSUME UNCHANGED <<pending, accepted>>
      PROVE  Stage' = Stage
  BY <1>2 DEF Stage
<1>3. ASSUME NEW c \in {"swapper", "delayed_out"}, SwapperAccepts(c)
      PROVE  [Life!Next]_Stage
  <2>1. PICK s \in Swaps, blob \in Blobs :
          /\ Head(chan[c]) = Request(s, blob) /\ Accepted(c, s, blob)
          /\ UNCHANGED tables \/ PutPending(s, blob) \/ PutSwap(s, blob)
    BY <1>1, <1>3, AcceptsEffect
  <2>2. chan[c] # <<>>
    BY <1>1, <1>3, AcceptsEffect
  <2>3. CASE UNCHANGED tables
    BY <1>2, <2>3 DEF tables
  <2>4. CASE PutPending(s, blob) \/ PutSwap(s, blob)
    <3>1. Puts(s, blob)
      BY <2>4 DEF Puts, PutSwap, PutPending
    <3> QED BY <2>1, <2>2, <3>1, StageStored
  <2> QED BY <2>1, <2>3, <2>4
<1>4. ASSUME NEW c \in {"immediate_out", "delayed_out"}, SwapperDeletes(c)
      PROVE  [Life!Next]_Stage
  <2>1. PICK s \in Swaps :
          /\ Head(chan[c]) = DeleteSwap(s)
          /\ pending' = [pending EXCEPT ![s] = "none"] \/ UNCHANGED pending
    BY <1>1, <1>4, DeletesEffect
  <2>2. chan[c] # <<>> /\ c \in Channels /\ c \in Places /\ UNCHANGED accepted
    BY <1>1, <1>4, DeletesEffect DEF Channels, Places
  <2>3. At(s, c)
    <3>1. IsAbout(Head(chan[c]), s)
      BY <2>1, MessageFields DEF IsAbout
    <3>2. Head(chan[c]) \in ToSet(chan[c])
      <4> DEFINE S == Carries(c)
                 q == chan[c]
      <4>1. q \in Seq(S) /\ q # <<>>
        BY <1>1, <2>2 DEF TypeOK
      <4> HIDE DEF S, q
      <4>2. Head(q) \in ToSet(q)
        BY <4>1, TailSet
      <4> QED BY <4>2 DEF q
    <3> QED BY <2>2, <3>1, <3>2 DEF At, About, ToSet
  <2>4. pending[s] # "none" /\ s \in accepted
    BY <2>2, <2>3, Present
  <2>5. CASE pending' = [pending EXCEPT ![s] = "none"]
    <3>1. pending'[s] = "none" /\ s \in accepted'
      BY <1>1, <2>2, <2>4, <2>5 DEF TypeOK
    <3>2. Stage' = [Stage EXCEPT ![s] = "ended"]
      BY <1>1, <2>2, <2>5, <3>1, StageBecomes DEF TypeOK
    <3>3. Stage[s] \notin {"none", "ended"}
      <4>1. pending[s] \in Blobs /\ Stage[s] = pending[s]
        BY <1>1, <2>4 DEF TypeOK, Stage
      <4>2. "ended" \notin Blobs /\ "none" \notin Blobs
        BY FillsAssumption DEF Blobs, Executable
      <4> QED BY <4>1, <4>2
    <3> QED BY <3>2, <3>3 DEF Life!Next, Life!End, Life!Become
  <2> QED BY <1>2, <2>1, <2>2, <2>5
<1>5. CASE DelayedTakes \/ DelayedTicks
  <2>1. UNCHANGED disk
    BY <1>1, <1>5, AskOutcome
  <2> QED BY <1>2, <2>1 DEF disk, tables
<1>6. CASE ImmediateTakes \/ ImmediateTicks
  <2>1. UNCHANGED disk
    <3>1. \E T \in SUBSET Swaps : \E requested \in [T -> Executable] : UNCHANGED disk
      BY <1>1, <1>6, ExecuteOutcome
    <3> QED BY <3>1
  <2> QED BY <1>2, <2>1 DEF disk, tables
<1>7. CASE StatusStores
  BY <1>1, <1>2, <1>7, StoresEffect DEF tables
<1>8. CASE SendBootload \/ \E s \in Swaps : PostSwap(s)
  BY <1>2, <1>8 DEF SendBootload, PostSwap, disk, tables
<1>12. CASE Crash
  <2>1. CASE UNCHANGED tables
    BY <1>2, <2>1 DEF tables
  <2>2. ASSUME NEW c \in {"swapper", "delayed_out"}, NEW m \in Messages,
               Takes(c, m), m.type = "SwapRequest", PutPending(m.id, m.blob)
        PROVE  [Life!Next]_Stage
    <3>1. PICK s \in Swaps, blob \in Blobs : m = Request(s, blob) /\ Accepted(c, s, blob)
      BY <1>1, <2>2, AcceptedFirst
    <3>2. chan[c] # <<>> /\ Head(chan[c]) = Request(s, blob)
      BY <1>1, <2>2, <3>1, AcceptedFirst
    <3>3. Puts(s, blob)
      <4>1. m.id = s /\ m.blob = blob
        BY <3>1, MessageFields
      <4> QED BY <2>2, <4>1 DEF Puts, PutPending
    <3> QED BY <3>1, <3>2, <3>3, StageStored
  <2> QED BY <1>12, <2>1, <2>2 DEF Crash
<1>9. CASE WalletRoutes \/ WalletForwards \/ SwapperBootloads
  BY <1>2, <1>9 DEF WalletRoutes, WalletForwards, SwapperBootloads, disk, tables
<1>10. CASE \E c \in {"immediate_out", "delayed_out"} : SwapperForwards(c)
  BY <1>2, <1>10 DEF SwapperForwards, disk, tables
<1>11. CASE UNCHANGED vars
  BY <1>2, <1>11 DEF vars
<1> QED BY <1>3, <1>4, <1>5, <1>6, <1>7, <1>8, <1>9, <1>10, <1>11, <1>12 DEF Next, Tasks

(* What the tables on disk show of a swap is a life: accepted once, filled *)
(* at most once, ended for good, also across crashes and lost writes.      *)
THEOREM Refinement ==
  ASSUME SingleBootload
  PROVE  Spec => ImplementsLifecycle
<1>1. Init => Life!Init
  BY StageInit
<1>2. Inv /\ [Next]_vars => [Life!Next]_Stage
  BY StageStep
<1>3. Init => Inv
  BY InvInit
<1>4. Inv /\ [Next]_vars => Inv'
  BY InvStep
<1> QED BY <1>1, <1>2, <1>3, <1>4, PTL DEF Spec, ImplementsLifecycle, Life!Spec
-----------------------------------------------------------------------------
(* No swap on disk is forgotten                                            *)

(* What stays in a channel when its first message is taken, or when more   *)
(* is put into it.                                                         *)
LEMMA ChannelLeaves ==
  ASSUME TypeOK, NEW c \in Channels, chan[c] # <<>>, chan'[c] = Tail(chan[c])
  PROVE  /\ ToSet(chan[c]) \subseteq {Head(chan[c])} \cup ToSet(chan'[c])
         /\ \A s : About(s, chan[c]) => IsAbout(Head(chan[c]), s) \/ About(s, chan'[c])
<1> DEFINE S == Carries(c)
           q == chan[c]
           t == Tail(q)
<1>1. q \in Seq(S) /\ q # <<>> /\ chan'[c] = t /\ q = chan[c]
  BY DEF TypeOK
<1> HIDE DEF S, q
<1>2. \A s : ~IsAbout(Head(q), s) => (About(s, t) <=> About(s, q))
  BY <1>1, AboutTail
<1>3. ToSet(q) \subseteq {Head(q)} \cup ToSet(t)
  <2>1. /\ DOMAIN q = 1..Len(q) /\ Len(q) \in Nat \ {0} /\ DOMAIN t = 1..(Len(q) - 1)
        /\ \A i \in 1..(Len(q) - 1) : t[i] = q[i + 1]
        /\ Head(q) = q[1]
    BY <1>1, LenProperties, EmptySeq, HeadTailProperties
  <2>2. \A i \in DOMAIN q : i = 1 \/ (i - 1 \in DOMAIN t /\ q[i] = t[i - 1])
    BY <2>1
  <2> HIDE DEF t
  <2> QED BY <2>1, <2>2 DEF ToSet
<1> QED BY <1>1, <1>2, <1>3

(* The places that PendingIsAlive names.                                   *)
Behind == Channels \ {"wallet", "swapper"}

Held(s) ==
  \/ s \in asking \/ running[s] # "none"
  \/ \E c \in Behind : About(s, chan[c])

LiveInv(s) == pending[s] # "none" => boots = 0 \/ Booting \/ Held(s)

NoFaults == Faults = {}

(* No message to the status task is about a swap.                          *)
LEMMA SilentBefore ==
  ASSUME TypeOK, NEW s
  PROVE  ~About(s, chan["status"])
<1> DEFINE S == Carries("status")
           q == chan["status"]
<1>1. q \in Seq(S)
  BY DEF TypeOK, Channels
<1> HIDE DEF S, q
<1>2. \A i \in DOMAIN q : q[i] \in S
  BY <1>1, ElementOfSeq, LenProperties
<1>3. \A m \in S : ~IsAbout(m, s)
  BY Carried, MessageFields DEF S, IsAbout
<1> QED BY <1>2, <1>3 DEF About, q

(* A step that keeps the Bootload where it is and the swap where it is.    *)
LEMMA LiveKept ==
  ASSUME NEW s, LiveInv(s), pending'[s] = pending[s], UNCHANGED boots,
         Booting => Booting',
         s \in asking => Held(s)', running[s] # "none" => Held(s)',
         \A c \in Behind : About(s, chan[c]) => Held(s)'
  PROVE  LiveInv(s)'
BY DEF LiveInv, Held

LEMMA BootingKept ==
  ASSUME \A c \in {"wallet", "swapper"} : Bootload \in ToSet(chan[c]) => Bootload \in ToSet(chan'[c])
  PROVE  Booting => Booting'
BY DEF Booting

(* Taking an update from c hands it to d, if anybody, and loses no swap.   *)
LEMMA UpdateMoves ==
  ASSUME TypeOK, Typed, NEW c \in Behind, NEW d \in Behind \ {c},
         chan[c] # <<>>, Head(chan[c]) \in Updates, chan'[c] = Tail(chan[c]),
         Head(chan[c]) \in Carries(d), chan'[d] = chan[d] \o <<Head(chan[c])>>,
         Unmoved({c, d}), UNCHANGED <<boots, asking, running, pending>>,
         NEW s \in Swaps, LiveInv(s)
  PROVE  LiveInv(s)'
<1>1. c \in Channels /\ d \in Channels
  BY DEF Behind
<1>2. ~IsAbout(Head(chan[c]), s)
  BY Abouts
<1>3. About(s, chan[c]) => About(s, chan'[c])
  BY <1>1, <1>2, ChannelLeaves
<1>4. About(s, chan[d]) => About(s, chan'[d])
  BY <1>1, ChannelGetsOne
<1>5. \A e \in Channels \ {c, d} : chan'[e] = chan[e]
  BY DEF Unmoved
<1>6. Booting => Booting'
  BY <1>5, BootingKept DEF Behind, Channels
<1>7. \A e \in Behind : About(s, chan[e]) => Held(s)'
  BY <1>3, <1>4, <1>5 DEF Held, Behind
<1> QED BY <1>6, <1>7, LiveKept DEF Held

LEMMA LiveOutside ==
  ASSUME TypeOK, SendBootload \/ Crash \/ WalletRoutes \/ \E t \in Swaps : PostSwap(t),
         NEW s \in Swaps, LiveInv(s)
  PROVE  LiveInv(s)'
<1>1. CASE Crash
  BY <1>1 DEF Crash, LiveInv
<1>2. ASSUME NEW k \in Carries("wallet"), chan' = [chan EXCEPT !["wallet"] = Append(@, k)]
      PROVE  /\ \A e \in Channels \ {"wallet"} : chan'[e] = chan[e]
             /\ ToSet(chan'["wallet"]) = ToSet(chan["wallet"]) \cup {k}
  <2> DEFINE S == Carries("wallet")
  <2>1. chan["wallet"] \in Seq(S) /\ k \in S /\ "wallet" \in DOMAIN chan
    BY DEF TypeOK, Channels
  <2> HIDE DEF S
  <2>2. Append(chan["wallet"], k) = chan["wallet"] \o <<k>>
    BY <2>1, AppendIsConcat
  <2>3. chan'["wallet"] = chan["wallet"] \o <<k>>
    BY <1>2, <2>1, <2>2
  <2> QED BY <1>2, <2>1, <2>3, ChannelGetsOne DEF TypeOK, Channels
<1>3. CASE SendBootload
  <2>1. Bootload \in Carries("wallet") /\ chan' = [chan EXCEPT !["wallet"] = Append(@, Bootload)]
    BY <1>3, Carried DEF SendBootload
  <2>2. Bootload \in ToSet(chan'["wallet"])
    BY <1>2, <2>1
  <2> QED BY <2>2 DEF LiveInv, Booting
<1>4. ASSUME NEW t \in Swaps, PostSwap(t)
      PROVE  LiveInv(s)'
  <2>1. /\ Request(t, Posted(t)) \in Carries("wallet")
        /\ chan' = [chan EXCEPT !["wallet"] = Append(@, Request(t, Posted(t)))]
        /\ UNCHANGED <<boots, asking, running, pending>>
    BY <1>4, Carried DEF PostSwap, memory, disk, tables
  <2>2. /\ \A e \in Channels \ {"wallet"} : chan'[e] = chan[e]
        /\ ToSet(chan["wallet"]) \subseteq ToSet(chan'["wallet"])
    BY <1>2, <2>1
  <2>3. Booting => Booting'
    BY <2>2, BootingKept DEF Channels
  <2>4. \A e \in Behind : About(s, chan[e]) => Held(s)'
    BY <2>2 DEF Held, Behind
  <2> QED BY <2>1, <2>3, <2>4, LiveKept DEF Held
<1>5. CASE WalletRoutes
  <2>1. /\ chan["wallet"] # <<>> /\ Typed /\ chan'["wallet"] = Tail(chan["wallet"])
        /\ UNCHANGED <<boots, asking, running, pending>>
    BY <1>5, RoutesEffect DEF world, memory, disk, tables
  <2>2. \E k \in Carries("swapper") :
          /\ Head(chan["wallet"]) = k /\ chan'["swapper"] = chan["swapper"] \o <<k>>
    BY <1>5, RoutesEffect, Carried
  <2>3. ToSet(chan["wallet"]) \cup ToSet(chan["swapper"])
          \subseteq ToSet(chan'["wallet"]) \cup ToSet(chan'["swapper"])
    <3>1. ToSet(chan["wallet"]) \subseteq {Head(chan["wallet"])} \cup ToSet(chan'["wallet"])
      BY <2>1, ChannelLeaves DEF Channels
    <3>2. ToSet(chan'["swapper"]) = ToSet(chan["swapper"]) \cup {Head(chan["wallet"])}
      BY <2>2, ChannelGetsOne DEF Channels
    <3> QED BY <3>1, <3>2
  <2>4. Booting => Booting'
    BY <2>3 DEF Booting
  <2>5. ASSUME NEW e \in Behind, About(s, chan[e])
        PROVE  Held(s)'
    <3>1. CASE e # "status"
      <4>1. Unmoved({"wallet", "swapper", "status"})
        BY <1>5, RoutesEffect DEF Unmoved
      <4>2. chan'[e] = chan[e]
        BY <3>1, <4>1 DEF Unmoved, Behind
      <4> QED BY <2>5, <4>2 DEF Held
    <3>2. CASE e = "status"
      BY <2>5, <3>2, SilentBefore
    <3> QED BY <3>1, <3>2
  <2> QED BY <2>1, <2>4, <2>5, LiveKept DEF Held
<1> QED BY <1>1, <1>3, <1>4, <1>5

LEMMA LiveUpdates ==
  ASSUME NoFaults, TypeOK,
         WalletForwards \/ StatusStores
           \/ \E c \in {"immediate_out", "delayed_out"} : SwapperForwards(c),
         NEW s \in Swaps, LiveInv(s)
  PROVE  LiveInv(s)'
<1>1. CASE WalletForwards
  <2>1. "swapper_out" \in Behind /\ "status" \in Behind \ {"swapper_out"}
    BY DEF Behind, Channels
  <2>2. \A m \in Updates : m \in Carries("status")
    BY Carried
  <2> QED BY <1>1, <2>1, <2>2, WalletForwardsEffect, UpdateMoves DEF world, memory, disk, tables
<1>2. ASSUME NEW c \in {"immediate_out", "delayed_out"}, SwapperForwards(c)
      PROVE  LiveInv(s)'
  <2>1. c \in Behind /\ "swapper_out" \in Behind \ {c}
    BY DEF Behind, Channels
  <2>2. \A m \in Updates : m \in Carries("swapper_out")
    BY Carried
  <2> QED BY <1>2, <2>1, <2>2, SwapperForwardsEffect, UpdateMoves DEF world, memory, disk, tables
<1>3. CASE StatusStores
  <2>1. Unmoved({"status"}) /\ UNCHANGED <<boots, asking, running, pending>>
    BY <1>3, StoresEffect DEF world, memory, tables
  <2>2. Booting => Booting'
    BY <2>1, BootingKept DEF Unmoved, Channels
  <2>3. \A e \in Behind : About(s, chan[e]) => Held(s)'
    BY <2>1, SilentBefore DEF Unmoved, Held, Behind
  <2> QED BY <2>1, <2>2, <2>3, LiveKept DEF Held
<1> QED BY <1>1, <1>2, <1>3
LEMMA LiveBoots ==
  ASSUME NoFaults, TypeOK, SwapperBootloads, NEW s \in Swaps
  PROVE  LiveInv(s)'
<1>1. chan["swapper"] # <<>> /\ UNCHANGED <<boots, pending>>
  BY DEF SwapperBootloads, Takes, world, disk, tables
<1>2. PICK order \in SetToSeqs({t \in Swaps : pending[t] # "none"}) : Resend(order)
  BY DEF SwapperBootloads, NoFaults
<1>3. \A d \in {"delayed", "immediate"} : \E out \in Seq(Stocks(d)) :
         /\ chan'[d] = chan[d] \o out
         /\ \A t : About(t, out) <=> /\ t \in Swaps /\ pending[t] # "none"
                                     /\ Child(pending[t]) = d
  BY <1>1, <1>2, ResendEffect
<1>4. ASSUME NEW d \in {"delayed", "immediate"}, pending[s] # "none", Child(pending[s]) = d
      PROVE  Held(s)'
  <2> DEFINE S == Stocks(d) \cup Carries(d)
             q == chan[d]
  <2>1. PICK out \in Seq(Stocks(d)) : chan'[d] = q \o out /\ About(s, out)
    BY <1>3, <1>4
  <2>2. d \in Channels /\ d \in Behind
    BY DEF Channels, Behind
  <2>3. q \in Seq(Carries(d))
    BY <2>2 DEF TypeOK
  <2>4. q \in Seq(S) /\ out \in Seq(S)
    BY <2>1, <2>3, SeqMonotonic
  <2> HIDE DEF S, q
  <2>5. About(s, q \o out)
    BY <2>1, <2>4, AboutConcat
  <2> QED BY <2>1, <2>2, <2>5 DEF Held
<1>5. Child(pending[s]) \in {"delayed", "immediate"}
  BY DEF Child
<1> QED BY <1>1, <1>4, <1>5 DEF LiveInv

LEMMA LiveAccepts ==
  ASSUME NoFaults, TypeOK, NEW c \in {"swapper", "delayed_out"}, SwapperAccepts(c),
         NEW s \in Swaps, LiveInv(s)
  PROVE  LiveInv(s)'
<1>1. /\ chan[c] # <<>> /\ chan'[c] = Tail(chan[c]) /\ Typed
      /\ UNCHANGED <<boots, asking, running>>
  BY AcceptsEffect DEF world, memory
<1>2. PICK t \in Swaps, blob \in Blobs :
        /\ Head(chan[c]) = Request(t, blob) /\ PutSwap(t, blob)
        /\ Unmoved({c, Child(blob)})
        /\ chan'[Child(blob)] = chan[Child(blob)] \o <<Request(t, blob)>>
  BY AcceptsEffect DEF NoFaults
<1> DEFINE k == Request(t, blob)
           d == Child(blob)
<1>3. c \in Channels /\ d \in Channels \ {c} /\ d \in Behind
  BY DEF Channels, Behind, Child
<1>4. /\ Head(chan[c]) = k /\ k # Bootload /\ (IsAbout(k, s) <=> s = t)
      /\ Unmoved({c, d}) /\ chan'[d] = chan[d] \o <<k>>
  <2>1. Head(chan[c]) = k /\ Unmoved({c, d}) /\ chan'[d] = chan[d] \o <<k>>
    BY <1>2
  <2>2. k.type = "SwapRequest" /\ Bootload.type = "Bootload"
    BY MessageFields
  <2>3. IsAbout(k, s) <=> s = t
    BY Abouts
  <2> HIDE DEF k, d
  <2> QED BY <2>1, <2>2, <2>3
<1> HIDE DEF k, d
<1>5. /\ ToSet(chan[c]) \subseteq {k} \cup ToSet(chan'[c])
      /\ About(s, chan[c]) => s = t \/ About(s, chan'[c])
  BY <1>1, <1>3, <1>4, ChannelLeaves
<1>6. About(s, chan[d]) \/ s = t => About(s, chan'[d])
  <2> DEFINE S == {k} \cup Carries(d)
             q == chan[d]
             one == <<k>>
  <2>1. q \in Seq(Carries(d))
    BY <1>3 DEF TypeOK
  <2>2. k \in S /\ q \in Seq(S)
    BY <2>1, SeqMonotonic
  <2> HIDE DEF S
  <2>3. one \in Seq(S) /\ DOMAIN one = {1} /\ one[1] = k
    BY <2>2, SmallSeqs
  <2>4. chan'[d] = q \o one
    BY <1>4
  <2> HIDE DEF q, one
  <2>5. About(s, q \o one) <=> About(s, q) \/ About(s, one)
    BY <2>2, <2>3, AboutConcat
  <2>6. About(s, one) <=> s = t
    BY <1>4, <2>3, AboutSmall
  <2> QED BY <2>4, <2>5, <2>6 DEF q
<1>7. \A e \in Channels \ {c, d} : chan'[e] = chan[e]
  BY <1>4 DEF Unmoved
<1>8. CASE s = t
  BY <1>3, <1>6, <1>8 DEF LiveInv, Held
<1>9. CASE s # t
  <2>1. Booting => Booting'
    <3>1. \A e \in {"wallet", "swapper"} : Bootload \in ToSet(chan[e]) => Bootload \in ToSet(chan'[e])
      BY <1>3, <1>4, <1>5, <1>7 DEF Behind, Channels
    <3> QED BY <3>1, BootingKept
  <2>2. \A e \in Behind : About(s, chan[e]) => Held(s)'
    BY <1>5, <1>6, <1>7, <1>9 DEF Held, Behind
  <2>3. pending'[s] = pending[s]
    BY <1>2, <1>9 DEF PutSwap, TypeOK
  <2> QED BY <1>1, <2>1, <2>2, <2>3, LiveKept DEF Held
<1> QED BY <1>8, <1>9

LEMMA LiveDeletes ==
  ASSUME NoFaults, TypeOK, NEW c \in {"immediate_out", "delayed_out"}, SwapperDeletes(c),
         NEW s \in Swaps, LiveInv(s)
  PROVE  LiveInv(s)'
<1>1. /\ chan[c] # <<>> /\ chan'[c] = Tail(chan[c]) /\ Unmoved({c})
      /\ UNCHANGED <<boots, asking, running>> /\ c \in Behind /\ c \in Channels
  BY DeletesEffect DEF world, memory, Behind, Channels
<1>2. PICK t \in Swaps : /\ Head(chan[c]) = DeleteSwap(t)
                         /\ pending' = [pending EXCEPT ![t] = "none"]
  BY DeletesEffect DEF NoFaults
<1>3. CASE s = t
  BY <1>2, <1>3 DEF LiveInv, TypeOK
<1>4. CASE s # t
  <2>1. ~IsAbout(Head(chan[c]), s)
    BY <1>2, <1>4, Abouts
  <2>2. About(s, chan[c]) => About(s, chan'[c])
    BY <1>1, <2>1, ChannelLeaves
  <2>3. \A e \in Channels \ {c} : chan'[e] = chan[e]
    BY <1>1 DEF Unmoved
  <2>4. Booting => Booting'
    BY <1>1, <2>3, BootingKept DEF Behind, Channels
  <2>5. \A e \in Behind : About(s, chan[e]) => Held(s)'
    BY <2>2, <2>3 DEF Held, Behind
  <2>6. pending'[s] = pending[s]
    BY <1>2, <1>4
  <2> QED BY <1>1, <2>4, <2>5, <2>6, LiveKept DEF Held
<1> QED BY <1>3, <1>4

LEMMA LiveAsks ==
  ASSUME TypeOK, DelayedTakes \/ DelayedTicks, NEW s \in Swaps, LiveInv(s)
  PROVE  LiveInv(s)'
<1>1. PICK asked \in SUBSET Delayed :
        /\ Unmoved({"delayed", "delayed_out"})
        /\ \/ /\ chan["delayed"] # <<>> /\ chan'["delayed"] = Tail(chan["delayed"])
              /\ \E t : asked = {t} /\ Head(chan["delayed"]) = Request(t, "delay")
           \/ chan'["delayed"] = chan["delayed"] /\ asked = asking
        /\ \E out \in Seq(Carries("delayed_out")) :
             /\ chan'["delayed_out"] = chan["delayed_out"] \o out
             /\ \A t : About(t, out) <=> t \in asked \ asking'
        /\ asking \ asked \subseteq asking'
        /\ UNCHANGED <<world, running, executed, disk>>
  BY AskOutcome
<1>2. "delayed" \in Channels /\ "delayed_out" \in Channels /\ "delayed_out" \in Behind
  BY DEF Behind, Channels
<1>3. About(s, chan["delayed_out"]) \/ s \in asked \ asking' => About(s, chan'["delayed_out"])
  <2>1. PICK out \in Seq(Carries("delayed_out")) :
          /\ chan'["delayed_out"] = chan["delayed_out"] \o out
          /\ \A t : About(t, out) <=> t \in asked \ asking'
    BY <1>1
  <2> QED BY <1>2, <2>1, ChannelGets
<1>4. s \in asked \/ s \in asking => Held(s)'
  BY <1>1, <1>2, <1>3 DEF Held
<1>5. About(s, chan["delayed"]) => s \in asked \/ About(s, chan'["delayed"])
  <2>1. CASE /\ chan["delayed"] # <<>> /\ chan'["delayed"] = Tail(chan["delayed"])
             /\ \E t : asked = {t} /\ Head(chan["delayed"]) = Request(t, "delay")
    <3>1. IsAbout(Head(chan["delayed"]), s) => s \in asked
      BY <2>1, Abouts
    <3> QED BY <1>2, <2>1, <3>1, ChannelLeaves
  <2>2. CASE chan'["delayed"] = chan["delayed"]
    BY <2>2
  <2> QED BY <1>1, <2>1, <2>2
<1>6. \A e \in Channels \ {"delayed", "delayed_out"} : chan'[e] = chan[e]
  BY <1>1 DEF Unmoved
<1>7. Booting => Booting'
  BY <1>6, BootingKept DEF Channels
<1>8. \A e \in Behind : About(s, chan[e]) => Held(s)'
  BY <1>3, <1>4, <1>5, <1>6 DEF Held, Behind
<1>9. UNCHANGED <<boots, running, pending>>
  BY <1>1 DEF world, disk, tables
<1> QED BY <1>4, <1>7, <1>8, <1>9, LiveKept DEF Held

LEMMA LiveExecutes ==
  ASSUME NoFaults, TypeOK, ImmediateTakes \/ ImmediateTicks, NEW s \in Swaps, LiveInv(s)
  PROVE  LiveInv(s)'
<1>1. PICK T \in SUBSET Swaps : \E requested \in [T -> Executable] :
        /\ Unmoved({"immediate", "immediate_out"})
        /\ \/ /\ chan["immediate"] # <<>> /\ chan'["immediate"] = Tail(chan["immediate"])
              /\ \E t \in Swaps : /\ T = {t}
                                  /\ Head(chan["immediate"]) = Request(t, requested[t])
           \/ chan'["immediate"] = chan["immediate"]
        /\ \E out \in Seq(Carries("immediate_out")) :
             /\ chan'["immediate_out"] = chan["immediate_out"] \o out
             /\ \A t \in T : ExecutedAs(t, requested[t], About(t, out))
        /\ \A t \in Swaps \ T : running'[t] = running[t]
        /\ UNCHANGED <<world, asking, disk>>
  BY ExecuteOutcome
<1>2. PICK requested \in [T -> Executable] :
        /\ Unmoved({"immediate", "immediate_out"})
        /\ \/ /\ chan["immediate"] # <<>> /\ chan'["immediate"] = Tail(chan["immediate"])
              /\ \E t \in Swaps : /\ T = {t}
                                  /\ Head(chan["immediate"]) = Request(t, requested[t])
           \/ chan'["immediate"] = chan["immediate"]
        /\ \E out \in Seq(Carries("immediate_out")) :
             /\ chan'["immediate_out"] = chan["immediate_out"] \o out
             /\ \A t \in T : ExecutedAs(t, requested[t], About(t, out))
        /\ \A t \in Swaps \ T : running'[t] = running[t]
        /\ UNCHANGED <<world, asking, disk>>
  BY <1>1
<1>3. /\ "immediate" \in Channels /\ "immediate_out" \in Channels
      /\ "immediate_out" \in Behind
  BY DEF Behind, Channels
<1>4. PICK out \in Seq(Carries("immediate_out")) :
        /\ chan'["immediate_out"] = chan["immediate_out"] \o out
        /\ \A t \in T : ExecutedAs(t, requested[t], About(t, out))
  BY <1>2
<1>5. About(s, chan["immediate_out"]) \/ About(s, out) => About(s, chan'["immediate_out"])
  BY <1>3, <1>4, ChannelGets
<1>6. s \in T => Held(s)'
  <2> SUFFICES ASSUME s \in T PROVE Held(s)'
    OBVIOUS
  <2>1. ExecutedAs(s, requested[s], About(s, out)) /\ requested[s] \in Executable
    BY <1>4
  <2>2. requested[s] # "none"
    BY <2>1, BlobsApart DEF Blobs
  <2>3. About(s, out) \/ running'[s] # "none"
    BY <2>1, <2>2 DEF ExecutedAs, NoFaults
  <2> QED BY <1>3, <1>5, <2>3 DEF Held
<1>7. running[s] # "none" => Held(s)'
  BY <1>2, <1>6 DEF Held
<1>8. About(s, chan["immediate"]) => s \in T \/ About(s, chan'["immediate"])
  <2>1. CASE /\ chan["immediate"] # <<>> /\ chan'["immediate"] = Tail(chan["immediate"])
             /\ \E t \in Swaps : /\ T = {t}
                                 /\ Head(chan["immediate"]) = Request(t, requested[t])
    <3>1. PICK t \in Swaps : T = {t} /\ Head(chan["immediate"]) = Request(t, requested[t])
      BY <2>1
    <3>2. IsAbout(Request(t, requested[t]), s) => t = s
      BY MessageFields DEF IsAbout
    <3>3. IsAbout(Head(chan["immediate"]), s) => s \in T
      BY <3>1, <3>2
    <3> QED BY <1>3, <2>1, <3>3, ChannelLeaves
  <2>2. CASE chan'["immediate"] = chan["immediate"]
    BY <2>2
  <2> QED BY <1>2, <2>1, <2>2
<1>9. \A e \in Channels \ {"immediate", "immediate_out"} : chan'[e] = chan[e]
  BY <1>2 DEF Unmoved
<1>10. Booting => Booting'
  BY <1>9, BootingKept DEF Channels
<1>11. \A e \in Behind : About(s, chan[e]) => Held(s)'
  BY <1>5, <1>6, <1>8, <1>9 DEF Held, Behind
<1>12. UNCHANGED <<boots, asking, pending>>
  BY <1>2 DEF world, disk, tables
<1> QED BY <1>7, <1>10, <1>11, <1>12, LiveKept DEF Held

(* No task drops a swap that is on disk: after any number of crashes, and  *)
(* with any number of Bootloads, each is sent again and stays in a map or  *)
(* a message until it ended, if the database and the contracts work.       *)
THEOREM NoneForgotten ==
  ASSUME NoFaults
  PROVE  Spec => []PendingIsAlive
<1> DEFINE LInv == TypeOK /\ \A s \in Swaps : LiveInv(s)
<1>1. Init => LInv
  BY TypeInit DEF Init, LiveInv
<1>2. LInv /\ [Next]_vars => LInv'
  <2> SUFFICES ASSUME LInv, [Next]_vars
               PROVE  LInv'
    OBVIOUS
  <2>1. TypeOK'
    BY TypeStep
  <2>2. ASSUME NEW s \in Swaps
        PROVE  LiveInv(s)'
    <3>1. TypeOK /\ LiveInv(s)
      OBVIOUS
    <3>2. CASE SendBootload \/ Crash \/ WalletRoutes \/ \E t \in Swaps : PostSwap(t)
      BY <3>1, <3>2, LiveOutside
    <3>3. CASE WalletForwards \/ StatusStores
                 \/ \E c \in {"immediate_out", "delayed_out"} : SwapperForwards(c)
      BY <3>1, <3>3, LiveUpdates
    <3>4. CASE SwapperBootloads
      BY <3>1, <3>4, LiveBoots
    <3>5. CASE \E c \in {"swapper", "delayed_out"} : SwapperAccepts(c)
      BY <3>1, <3>5, LiveAccepts
    <3>6. CASE \E c \in {"immediate_out", "delayed_out"} : SwapperDeletes(c)
      BY <3>1, <3>6, LiveDeletes
    <3>7. CASE DelayedTakes \/ DelayedTicks
      BY <3>1, <3>7, LiveAsks
    <3>8. CASE ImmediateTakes \/ ImmediateTicks
      BY <3>1, <3>8, LiveExecutes
    <3>9. CASE UNCHANGED vars
      BY <3>1, <3>9 DEF vars, LiveInv, Held, Booting
    <3> QED BY <3>2, <3>3, <3>4, <3>5, <3>6, <3>7, <3>8, <3>9 DEF Next, Tasks
  <2> QED BY <2>1, <2>2
<1>3. LInv => PendingIsAlive
  BY DEF LiveInv, Held, Behind, PendingIsAlive
<1> QED BY <1>1, <1>2, <1>3, PTL DEF Spec
-----------------------------------------------------------------------------
(* No update before its receipt                                            *)

Mentions(m, s)  == m.type # "Bootload" /\ m.id = s

(* There is a receipt of s, or it is on its way; ...                       *)
Acknowledged(s) ==
  receipts[s] # NoReceipt \/ \E m \in ToSet(chan["status"]) : IsReceipt(m, s)

(* ... a task behind the wallet task knows of s; ...                       *)
Traced(s) ==
  \/ pending[s] # "none" \/ s \in asking \/ running[s] # "none"
  \/ \E c \in Channels \ {"wallet"} : \E m \in ToSet(chan[c]) : Mentions(m, s)

(* ... and the receipt comes before the updates.                           *)
Ordered(s, q) ==
  \A i \in DOMAIN q : IsUpdate(q[i], s) => \E j \in DOMAIN q : j < i /\ IsReceipt(q[j], s)

ReceiptInv(s) ==
  /\ Traced(s) => Acknowledged(s)
  /\ receipts[s] # NoReceipt \/ Ordered(s, chan["status"])

DiskWorks == "disk" \notin Faults

LEMMA OrderedTail ==
  ASSUME NEW S, NEW q \in Seq(S), q # <<>>, NEW s, Ordered(s, q)
  PROVE  /\ ~IsReceipt(Head(q), s) => Ordered(s, Tail(q))
         /\ ~IsUpdate(Head(q), s)
<1> DEFINE t == Tail(q)
<1>1. /\ DOMAIN q = 1..Len(q) /\ Len(q) \in Nat \ {0} /\ DOMAIN t = 1..(Len(q) - 1)
      /\ \A i \in 1..(Len(q) - 1) : t[i] = q[i + 1]
      /\ Head(q) = q[1]
  BY LenProperties, EmptySeq, HeadTailProperties
<1>2. \A i \in DOMAIN t : i + 1 \in DOMAIN q /\ t[i] = q[i + 1] /\ i \in Nat
  BY <1>1
<1>3. \A j \in DOMAIN q : j = 1 \/ (j - 1 \in DOMAIN t /\ q[j] = t[j - 1])
  BY <1>1
<1>4. 1 \in DOMAIN q /\ DOMAIN q \subseteq Nat \ {0} /\ Head(q) = q[1]
  BY <1>1
<1> HIDE DEF t
<1>5. ~IsUpdate(Head(q), s)
  BY <1>4 DEF Ordered
<1>6. ASSUME ~IsReceipt(Head(q), s), NEW i \in DOMAIN t, IsUpdate(t[i], s)
      PROVE  \E j \in DOMAIN t : j < i /\ IsReceipt(t[j], s)
  <2>1. PICK j \in DOMAIN q : j < i + 1 /\ IsReceipt(q[j], s)
    BY <1>2, <1>6 DEF Ordered
  <2>2. j - 1 \in DOMAIN t /\ IsReceipt(t[j - 1], s)
    BY <1>3, <1>4, <1>6, <2>1
  <2>3. j - 1 < i
    BY <1>2, <1>4, <2>1
  <2> QED BY <2>2, <2>3
<1>7. ~IsReceipt(Head(q), s) => Ordered(s, t)
  BY <1>6 DEF Ordered
<1> QED BY <1>5, <1>7 DEF t

LEMMA OrderedConcat ==
  ASSUME NEW S, NEW q \in Seq(S), NEW k \in S, NEW s, Ordered(s, q),
         IsUpdate(k, s) => \E m \in ToSet(q) : IsReceipt(m, s)
  PROVE  Ordered(s, q \o <<k>>)
<1> DEFINE n == Len(q)
           r == q \o <<k>>
<1>1. <<k>> \in Seq(S) /\ Len(<<k>>) = 1
  BY SmallSeqs
<1>2. /\ DOMAIN q = 1..n /\ n \in Nat /\ DOMAIN r = 1..(n + 1)
      /\ \A i \in 1..n : r[i] = q[i]
      /\ r[n + 1] = k
  <2>1. /\ DOMAIN q = 1..n /\ n \in Nat /\ Len(r) = n + 1 /\ r \in Seq(S)
        /\ \A i \in 1..Len(r) : r[i] = IF i <= n THEN q[i] ELSE <<k>>[i - n]
    BY <1>1, LenProperties, ConcatProperties
  <2>2. DOMAIN r = 1..(n + 1)
    BY <2>1, LenProperties
  <2>3. (n + 1) - n = 1 /\ <<k>>[1] = k
    BY <2>1
  <2> HIDE DEF r, n
  <2> QED BY <2>1, <2>2, <2>3
<1> HIDE DEF r, n
<1>3. ASSUME NEW i \in DOMAIN r, IsUpdate(r[i], s)
      PROVE  \E j \in DOMAIN r : j < i /\ IsReceipt(r[j], s)
  <2>1. CASE i \in 1..n
    BY <1>2, <1>3, <2>1 DEF Ordered
  <2>2. CASE i = n + 1
    <3>1. \E m \in ToSet(q) : IsReceipt(m, s)
      BY <1>2, <1>3, <2>2
    <3>2. PICK j \in DOMAIN q : IsReceipt(q[j], s)
      BY <3>1 DEF ToSet
    <3> QED BY <1>2, <2>2, <3>2
  <2> QED BY <1>2, <2>1, <2>2
<1> QED BY <1>3 DEF Ordered, r

(* A step that does not touch the receipts and the inbox of their task.    *)
LEMMA ReceiptKept ==
  ASSUME NEW s, ReceiptInv(s), UNCHANGED receipts, chan'["status"] = chan["status"],
         pending'[s] # "none" => Traced(s), s \in asking' => Traced(s),
         running'[s] # "none" => Traced(s),
         \A c \in Channels \ {"wallet", "status"} : \A m \in ToSet(chan'[c]) :
           Mentions(m, s) => Traced(s)
  PROVE  ReceiptInv(s)'
<1>1. Traced(s)' => Traced(s)
  <2>1. \A m \in ToSet(chan["status"]) : Mentions(m, s) => Traced(s)
    BY DEF Traced, Channels
  <2> QED BY <2>1 DEF Traced
<1>2. Acknowledged(s)' <=> Acknowledged(s)
  BY DEF Acknowledged
<1> QED BY <1>1, <1>2 DEF ReceiptInv

LEMMA TraceOf ==
  ASSUME NEW s, NEW c \in Channels \ {"wallet"}, NEW m \in ToSet(chan[c]), Mentions(m, s)
  PROVE  Traced(s)
BY DEF Traced

(* An update removes no receipt.                                           *)
LEMMA UpdateLeavesReceipt ==
  ASSUME TypeOK, NEW m, UpdateReceipt(m), m.id \in Swaps, m.status \in Statuses \cup {"same"},
         NEW s \in Swaps, receipts[s] # NoReceipt
  PROVE  receipts'[s] # NoReceipt
<1> DEFINE r == receipts[m.id]
           new == [status |-> Merge(r.status, m.status), blob |-> Merge(r.blob, m.blob)]
<1>1. CASE r = NoReceipt \/ m.id # s
  <2>1. receipts' = receipts \/ receipts' = [receipts EXCEPT ![m.id] = new]
    BY DEF UpdateReceipt
  <2> HIDE DEF new
  <2>2. receipts' = receipts \/ m.id # s
    BY <1>1 DEF UpdateReceipt
  <2> QED BY <2>1, <2>2 DEF TypeOK
<1>2. CASE r # NoReceipt /\ m.id = s
  <2>1. receipts' = [receipts EXCEPT ![m.id] = new]
    BY <1>2 DEF UpdateReceipt
  <2>2. r.status \in Statuses
    BY <1>2 DEF TypeOK
  <2>3. new.status \in Statuses
    BY <2>2 DEF Merge
  <2> HIDE DEF new, r
  <2>4. receipts'[s] = new
    BY <1>2, <2>1 DEF TypeOK
  <2>5. NoReceipt.status \notin Statuses
    BY DEF NoReceipt, Statuses, Final
  <2> QED BY <2>3, <2>4, <2>5
<1> QED BY <1>1, <1>2

LEMMA ReceiptOutside ==
  ASSUME TypeOK, SendBootload \/ \E t \in Swaps : PostSwap(t), NEW s \in Swaps, ReceiptInv(s)
  PROVE  ReceiptInv(s)'
<1>1. \A c \in Channels \ {"wallet"} : chan'[c] = chan[c]
  BY DEF SendBootload, PostSwap, TypeOK
<1>2. UNCHANGED <<pending, asking, running, receipts>>
  BY DEF SendBootload, PostSwap, memory, disk, tables
<1>3. chan'["status"] = chan["status"]
  BY <1>1 DEF Channels
<1> QED BY <1>1, <1>2, <1>3, ReceiptKept DEF Traced

LEMMA ReceiptRoutes ==
  ASSUME TypeOK, WalletRoutes, NEW s \in Swaps, ReceiptInv(s)
  PROVE  ReceiptInv(s)'
<1>1. UNCHANGED <<pending, asking, running, receipts>>
  BY RoutesEffect DEF memory, disk, tables
<1>2. CASE /\ Unmoved({"wallet", "swapper"})
           /\ chan'["swapper"] = chan["swapper"] \o <<Bootload>>
  <2>1. ToSet(chan'["swapper"]) = ToSet(chan["swapper"]) \cup {Bootload}
    BY <1>2, Carried, ChannelGetsOne DEF Channels
  <2>2. ~Mentions(Bootload, s)
    BY MessageFields DEF Mentions
  <2>3. \A c \in Channels \ {"wallet", "swapper"} : chan'[c] = chan[c]
    BY <1>2 DEF Unmoved
  <2>4. \A c \in Channels \ {"wallet", "status"} : \A m \in ToSet(chan'[c]) :
          Mentions(m, s) => Traced(s)
    BY <2>1, <2>2, <2>3, TraceOf
  <2>5. chan'["status"] = chan["status"]
    BY <2>3 DEF Channels
  <2> QED BY <1>1, <2>4, <2>5, ReceiptKept DEF Traced
<1>3. ASSUME NEW t \in Swaps, Unmoved({"wallet", "swapper", "status"}),
             chan'["swapper"] = chan["swapper"] \o <<Request(t, Posted(t))>>,
             chan'["status"] = chan["status"] \o <<Receipt(t, Posted(t))>>
      PROVE  ReceiptInv(s)'
  <2> DEFINE k == Request(t, Posted(t))
             r == Receipt(t, Posted(t))
             q == chan["status"]
  <2>1. k \in Carries("swapper") /\ r \in Carries("status") /\ "status" \in Channels
    <3>1. r \in Messages /\ r.type = "Receipt"
      BY BlobsApart, MessageFields DEF Messages
    <3> QED BY <3>1, Carried DEF Channels
  <2>2. /\ Mentions(k, s) <=> s = t
        /\ Mentions(r, s) <=> s = t
        /\ IsReceipt(r, s) <=> s = t
        /\ ~IsUpdate(r, s)
    BY MessageFields DEF Mentions, IsReceipt, IsUpdate
  <2> HIDE DEF k, r
  <2>3. ToSet(chan'["swapper"]) = ToSet(chan["swapper"]) \cup {k}
    BY <1>3, <2>1, ChannelGetsOne DEF Channels, k
  <2>4. ToSet(chan'["status"]) = ToSet(q) \cup {r}
    BY <1>3, <2>1, ChannelGetsOne DEF r
  <2>5. \A c \in Channels \ {"wallet", "swapper", "status"} : chan'[c] = chan[c]
    BY <1>3 DEF Unmoved
  <2>6. Traced(s)' => Traced(s) \/ s = t
    <3>1. \A c \in Channels \ {"wallet"} : \A m \in ToSet(chan'[c]) :
            Mentions(m, s) => Traced(s) \/ s = t
      BY <2>2, <2>3, <2>4, <2>5, TraceOf
    <3> QED BY <1>1, <3>1 DEF Traced
  <2>7. Acknowledged(s) \/ s = t => Acknowledged(s)'
    BY <1>1, <2>2, <2>4 DEF Acknowledged
  <2>8. Ordered(s, q) => Ordered(s, chan'["status"])
    <3> DEFINE S == Carries("status")
    <3>1. q \in Seq(S) /\ r \in S /\ chan'["status"] = q \o <<r>>
      BY <1>3, <2>1 DEF TypeOK, r
    <3> HIDE DEF S, q
    <3> QED BY <2>2, <3>1, OrderedConcat
  <2> QED BY <1>1, <2>6, <2>7, <2>8 DEF ReceiptInv
<1> QED BY <1>2, <1>3, RoutesEffect

LEMMA ReceiptWalletForwards ==
  ASSUME TypeOK, WalletForwards, NEW s \in Swaps, ReceiptInv(s)
  PROVE  ReceiptInv(s)'
<1> DEFINE k == Head(chan["swapper_out"])
           q == chan["status"]
<1>1. /\ chan["swapper_out"] # <<>> /\ Unmoved({"swapper_out", "status"})
      /\ k \in Updates /\ chan'["swapper_out"] = Tail(chan["swapper_out"])
      /\ chan'["status"] = q \o <<k>>
      /\ UNCHANGED <<pending, asking, running, receipts>>
  BY WalletForwardsEffect DEF memory, disk, tables
<1>2. "swapper_out" \in Channels \ {"wallet"} /\ "status" \in Channels /\ k \in Carries("status")
  BY <1>1, Carried DEF Channels
<1>3. ToSet(chan'["swapper_out"]) \subseteq ToSet(chan["swapper_out"]) /\ k \in ToSet(chan["swapper_out"])
  BY <1>1, <1>2, ChannelTakes
<1>4. ToSet(chan'["status"]) = ToSet(q) \cup {k}
  BY <1>1, <1>2, ChannelGetsOne
<1>5. \A c \in Channels \ {"swapper_out", "status"} : chan'[c] = chan[c]
  BY <1>1 DEF Unmoved
<1>6. /\ Mentions(k, s) <=> k.id = s
      /\ IsUpdate(k, s) <=> k.id = s
  BY <1>1, UpdateFields DEF Mentions, IsUpdate
<1> HIDE DEF k
<1>7. k.id = s => Traced(s)
  BY <1>2, <1>3, <1>6, TraceOf
<1>8. Traced(s)' => Traced(s)
  <2>1. \A c \in Channels \ {"wallet"} : \A m \in ToSet(chan'[c]) : Mentions(m, s) => Traced(s)
    BY <1>2, <1>3, <1>4, <1>5, <1>6, <1>7, TraceOf
  <2> QED BY <1>1, <2>1 DEF Traced
<1>9. Acknowledged(s) => Acknowledged(s)'
  BY <1>1, <1>4 DEF Acknowledged
<1>10. receipts[s] # NoReceipt \/ Ordered(s, chan'["status"])
  <2> SUFFICES ASSUME receipts[s] = NoReceipt PROVE Ordered(s, chan'["status"])
    OBVIOUS
  <2>1. Ordered(s, q)
    BY DEF ReceiptInv
  <2>2. IsUpdate(k, s) => \E m \in ToSet(q) : IsReceipt(m, s)
    BY <1>6, <1>7 DEF ReceiptInv, Acknowledged
  <2> DEFINE S == Carries("status")
  <2>3. q \in Seq(S) /\ k \in S
    BY <1>2 DEF TypeOK
  <2> HIDE DEF S, q
  <2> QED BY <1>1, <2>1, <2>2, <2>3, OrderedConcat
<1> QED BY <1>1, <1>8, <1>9, <1>10 DEF ReceiptInv

LEMMA ReceiptStores ==
  ASSUME DiskWorks, TypeOK, StatusStores, NEW s \in Swaps, ReceiptInv(s)
  PROVE  ReceiptInv(s)'
<1> DEFINE k == Head(chan["status"])
           q == chan["status"]
<1>1. /\ q # <<>> /\ Unmoved({"status"}) /\ chan'["status"] = Tail(q)
      /\ \/ k.type = "Receipt" /\ PutReceipt(k)
         \/ k.type = "ReceiptUpdate" /\ UpdateReceipt(k)
      /\ UNCHANGED <<pending, asking, running>>
  BY StoresEffect DEF DiskWorks, memory, tables
<1>2. "status" \in Channels \ {"wallet"} /\ k \in Carries("status")
  BY <1>1, FirstMessage DEF Channels
<1>3. /\ ToSet(chan'["status"]) \subseteq ToSet(q) /\ k \in ToSet(q)
      /\ ToSet(q) \subseteq {k} \cup ToSet(chan'["status"])
  BY <1>1, <1>2, ChannelTakes, ChannelLeaves
<1>4. \A c \in Channels \ {"status"} : chan'[c] = chan[c]
  BY <1>1 DEF Unmoved
<1>5. k.id \in Swaps
  BY <1>2, Carried, UpdateFields, ReceiptFields
<1>6. Traced(s)' => Traced(s)
  <2>1. \A c \in Channels \ {"wallet"} : \A m \in ToSet(chan'[c]) : Mentions(m, s) => Traced(s)
    BY <1>2, <1>3, <1>4, TraceOf
  <2> QED BY <1>1, <2>1 DEF Traced
<1>7. IsReceipt(k, s) => receipts'[s] # NoReceipt
  <2> SUFFICES ASSUME IsReceipt(k, s) PROVE receipts'[s] # NoReceipt
    OBVIOUS
  <2>1. receipts' = [receipts EXCEPT ![s] = [status |-> "Inactive", blob |-> k.blob]]
    BY <1>1 DEF IsReceipt, PutReceipt
  <2>2. receipts'[s].status = "Inactive"
    BY <2>1 DEF TypeOK
  <2> QED BY <2>2 DEF NoReceipt
<1>8. receipts[s] # NoReceipt => receipts'[s] # NoReceipt
  <2> SUFFICES ASSUME receipts[s] # NoReceipt PROVE receipts'[s] # NoReceipt
    OBVIOUS
  <2>1. CASE k.type = "Receipt"
    <3>1. CASE k.id = s
      BY <1>7, <2>1, <3>1 DEF IsReceipt
    <3>2. CASE k.id # s
      BY <1>1, <1>5, <2>1, <3>2 DEF PutReceipt, TypeOK
    <3> QED BY <3>1, <3>2
  <2>2. CASE k.type = "ReceiptUpdate"
    <3>1. k \in Updates
      BY <1>2, <2>2, Carried
    <3>2. k.id \in Swaps /\ k.status \in Statuses \cup {"same"}
      BY <3>1, UpdateFields
    <3>3. UpdateReceipt(k)
      BY <1>1, <2>2 DEF PutReceipt
    <3> HIDE DEF k
    <3> QED BY <3>2, <3>3, UpdateLeavesReceipt
  <2> QED BY <1>1, <2>1, <2>2
<1>9. Acknowledged(s) => Acknowledged(s)'
  BY <1>3, <1>7, <1>8 DEF Acknowledged
<1>10. receipts'[s] # NoReceipt \/ Ordered(s, chan'["status"])
  <2> SUFFICES ASSUME receipts'[s] = NoReceipt PROVE Ordered(s, chan'["status"])
    OBVIOUS
  <2>1. Ordered(s, q) /\ ~IsReceipt(k, s)
    BY <1>7, <1>8 DEF ReceiptInv
  <2> DEFINE S == Carries("status")
  <2>2. q \in Seq(S) /\ k = Head(q)
    BY <1>2 DEF TypeOK
  <2> HIDE DEF S, q, k
  <2> QED BY <1>1, <2>1, <2>2, OrderedTail
<1> QED BY <1>6, <1>9, <1>10 DEF ReceiptInv
LEMMA ReceiptBoots ==
  ASSUME TypeOK, SwapperBootloads, NEW s \in Swaps, ReceiptInv(s)
  PROVE  ReceiptInv(s)'
<1>1. /\ chan["swapper"] # <<>> /\ UNCHANGED <<asking, running, pending, receipts>>
      /\ "swapper" \in Channels /\ "swapper_out" \in Channels /\ "status" \in Channels
  BY DEF SwapperBootloads, Takes, memory, disk, tables, Channels
<1>2. /\ chan'["swapper"] = Tail(chan["swapper"])
      /\ Unmoved({"swapper", "swapper_out", "delayed", "immediate"})
      /\ \A d \in {"swapper_out", "delayed", "immediate"} :
           \A m \in ToSet(chan'[d]) : m \in ToSet(chan[d]) \/ pending[m.id] # "none"
  <2>1. CASE \E order \in SetToSeqs({t \in Swaps : pending[t] # "none"}) : Resend(order)
    <3>1. /\ chan'["swapper"] = Tail(chan["swapper"])
          /\ Unmoved({"swapper", "swapper_out", "delayed", "immediate"})
          /\ \E news \in Seq(Updates) :
               /\ chan'["swapper_out"] = chan["swapper_out"] \o news
               /\ \A m \in ToSet(news) : m.id \in Swaps /\ pending[m.id] # "none"
          /\ \A d \in {"delayed", "immediate"} : \E out \in Seq(Stocks(d)) :
               chan'[d] = chan[d] \o out
      BY <1>1, <2>1, ResendEffect
    <3>2. \A m \in ToSet(chan'["swapper_out"]) :
            m \in ToSet(chan["swapper_out"]) \/ pending[m.id] # "none"
      <4>1. PICK news \in Seq(Updates) :
               /\ chan'["swapper_out"] = chan["swapper_out"] \o news
               /\ \A m \in ToSet(news) : m.id \in Swaps /\ pending[m.id] # "none"
        BY <3>1
      <4>2. ToSet(chan'["swapper_out"]) = ToSet(chan["swapper_out"]) \cup ToSet(news)
        BY <1>1, <4>1, Carried, ChannelGets
      <4> QED BY <4>1, <4>2
    <3>3. ASSUME NEW d \in {"delayed", "immediate"}, NEW m \in ToSet(chan'[d])
          PROVE  m \in ToSet(chan[d]) \/ pending[m.id] # "none"
      <4> DEFINE R == Stocks(d)
                 S == R \cup Carries(d)
                 q == chan[d]
      <4>1. PICK out \in Seq(R) : chan'[d] = q \o out
        BY <3>1
      <4>2. q \in Seq(Carries(d))
        BY DEF TypeOK, Channels
      <4> HIDE DEF R
      <4>3. q \in Seq(S) /\ out \in Seq(S) /\ ToSet(out) \subseteq R
        <5>1. ToSet(out) \subseteq R
          BY <4>1, ElementOfSeq, LenProperties DEF ToSet
        <5> QED BY <4>1, <4>2, <5>1, SeqMonotonic
      <4> HIDE DEF S, q
      <4>4. ToSet(chan'[d]) = ToSet(q) \cup ToSet(out)
        BY <4>1, <4>3, ConcatSet
      <4>5. \A k \in R : pending[k.id] # "none"
        BY MessageFields DEF R, Stocks
      <4> QED BY <3>3, <4>3, <4>4, <4>5 DEF q
    <3> QED BY <3>1, <3>2, <3>3
  <2>2. CASE Done("swapper", Nothing)
    <3>1. Unmoved({"swapper"}) /\ chan'["swapper"] = Tail(chan["swapper"])
      BY <1>1, <2>2, DropsEffect
    <3> QED BY <3>1 DEF Unmoved, Channels
  <2> QED BY <2>1, <2>2 DEF SwapperBootloads
<1>3. ToSet(chan'["swapper"]) \subseteq ToSet(chan["swapper"])
  BY <1>1, <1>2, ChannelTakes
<1>4. \A c \in Channels \ {"swapper", "swapper_out", "delayed", "immediate"} : chan'[c] = chan[c]
  BY <1>2 DEF Unmoved
<1>5. ASSUME NEW c \in Channels \ {"wallet", "status"}, NEW m \in ToSet(chan'[c]), Mentions(m, s)
      PROVE  Traced(s)
  <2>1. m \in ToSet(chan[c]) \/ pending[m.id] # "none"
    BY <1>2, <1>3, <1>4, <1>5
  <2>2. m.id = s
    BY <1>5 DEF Mentions
  <2> QED BY <1>5, <2>1, <2>2 DEF Traced
<1>6. chan'["status"] = chan["status"]
  BY <1>1, <1>4
<1> QED BY <1>1, <1>5, <1>6, ReceiptKept DEF Traced

LEMMA ReceiptAccepts ==
  ASSUME TypeOK, NEW c \in {"swapper", "delayed_out"}, SwapperAccepts(c),
         NEW s \in Swaps, ReceiptInv(s)
  PROVE  ReceiptInv(s)'
<1>1. /\ chan[c] # <<>> /\ chan'[c] = Tail(chan[c]) /\ Typed
      /\ UNCHANGED <<asking, running, receipts>> /\ c \in Channels \ {"wallet", "status"}
  BY AcceptsEffect DEF world, memory, Channels
<1>2. PICK t \in Swaps, blob \in Blobs :
        /\ Head(chan[c]) = Request(t, blob)
        /\ \/ Unmoved({c}) /\ (UNCHANGED pending \/ PutPending(t, blob))
           \/ /\ PutSwap(t, blob) /\ Unmoved({c, Child(blob)})
              /\ chan'[Child(blob)] = chan[Child(blob)] \o <<Request(t, blob)>>
  BY AcceptsEffect DEF tables
<1> DEFINE k == Request(t, blob)
           d == Child(blob)
<1>3. d \in Channels \ {"wallet", "status", c}
  BY DEF Channels, Child
<1>4. Mentions(k, s) <=> s = t
  BY MessageFields DEF Mentions
<1>5. \/ Unmoved({c}) /\ (UNCHANGED pending \/ PutPending(t, blob))
      \/ PutSwap(t, blob) /\ Unmoved({c, d}) /\ chan'[d] = chan[d] \o <<k>>
  BY <1>2
<1>6. Head(chan[c]) = k
  BY <1>2
<1> HIDE DEF k, d
<1>7. ToSet(chan'[c]) \subseteq ToSet(chan[c]) /\ k \in ToSet(chan[c])
  BY <1>1, <1>6, ChannelTakes
<1>8. s = t => Traced(s)
  BY <1>1, <1>4, <1>7, TraceOf
<1>9. ToSet(chan'[d]) \subseteq ToSet(chan[d]) \cup {k}
  <2>1. CASE Unmoved({c})
    BY <1>3, <2>1 DEF Unmoved
  <2>2. CASE chan'[d] = chan[d] \o <<k>>
    <3> DEFINE S == {k} \cup Carries(d)
               q == chan[d]
               one == <<k>>
    <3>1. q \in Seq(Carries(d))
      BY <1>3 DEF TypeOK
    <3>2. k \in S /\ q \in Seq(S)
      BY <3>1, SeqMonotonic
    <3> HIDE DEF S
    <3>3. one \in Seq(S) /\ DOMAIN one = {1} /\ one[1] = k
      BY <3>2, SmallSeqs
    <3>4. chan'[d] = q \o one
      BY <2>2
    <3> HIDE DEF q, one
    <3>5. ToSet(q \o one) = ToSet(q) \cup ToSet(one)
      BY <3>2, <3>3, ConcatSet
    <3>6. ToSet(one) = {k}
      BY <3>3 DEF ToSet
    <3> QED BY <3>4, <3>5, <3>6 DEF q
  <2> QED BY <1>5, <2>1, <2>2
<1>10. \A e \in Channels \ {c, d} : chan'[e] = chan[e]
  BY <1>5 DEF Unmoved
<1>11. \A e \in Channels \ {"wallet", "status"} : \A m \in ToSet(chan'[e]) :
         Mentions(m, s) => Traced(s)
  BY <1>1, <1>3, <1>4, <1>7, <1>8, <1>9, <1>10, TraceOf
<1>12. pending'[s] # "none" => Traced(s)
  <2>1. UNCHANGED pending \/ PutPending(t, blob) \/ PutSwap(t, blob)
    BY <1>5
  <2>2. s # t => pending'[s] = pending[s]
    BY <2>1 DEF PutSwap, PutPending, TypeOK
  <2> QED BY <1>8, <2>2 DEF Traced
<1>13. chan'["status"] = chan["status"]
  BY <1>1, <1>3, <1>10 DEF Channels
<1> QED BY <1>1, <1>11, <1>12, <1>13, ReceiptKept DEF Traced

LEMMA ReceiptForwards ==
  ASSUME TypeOK, NEW c \in {"immediate_out", "delayed_out"}, SwapperForwards(c),
         NEW s \in Swaps, ReceiptInv(s)
  PROVE  ReceiptInv(s)'
<1> DEFINE k == Head(chan[c])
<1>1. /\ chan[c] # <<>> /\ Unmoved({c, "swapper_out"}) /\ k \in Updates
      /\ chan'[c] = Tail(chan[c]) /\ chan'["swapper_out"] = chan["swapper_out"] \o <<k>>
      /\ UNCHANGED <<pending, asking, running, receipts>>
  BY SwapperForwardsEffect DEF memory, disk, tables
<1>2. /\ c \in Channels \ {"wallet", "status"} /\ "swapper_out" \in Channels \ {"wallet", "status", c}
      /\ k \in Carries("swapper_out") /\ "status" \in Channels
  BY <1>1, Carried DEF Channels
<1>3. ToSet(chan'[c]) \subseteq ToSet(chan[c]) /\ k \in ToSet(chan[c])
  BY <1>1, <1>2, ChannelTakes
<1>4. ToSet(chan'["swapper_out"]) = ToSet(chan["swapper_out"]) \cup {k}
  BY <1>1, <1>2, ChannelGetsOne
<1>5. \A e \in Channels \ {c, "swapper_out"} : chan'[e] = chan[e]
  BY <1>1 DEF Unmoved
<1> HIDE DEF k
<1>6. \A e \in Channels \ {"wallet", "status"} : \A m \in ToSet(chan'[e]) :
        Mentions(m, s) => Traced(s)
  BY <1>2, <1>3, <1>4, <1>5, TraceOf
<1>7. chan'["status"] = chan["status"]
  BY <1>2, <1>5
<1> QED BY <1>1, <1>6, <1>7, ReceiptKept DEF Traced

LEMMA ReceiptDeletes ==
  ASSUME TypeOK, NEW c \in {"immediate_out", "delayed_out"}, SwapperDeletes(c),
         NEW s \in Swaps, ReceiptInv(s)
  PROVE  ReceiptInv(s)'
<1>1. /\ chan[c] # <<>> /\ Unmoved({c}) /\ chan'[c] = Tail(chan[c])
      /\ UNCHANGED <<asking, running, receipts>>
      /\ c \in Channels \ {"wallet", "status"} /\ "status" \in Channels
  BY DeletesEffect DEF memory, Channels
<1>2. pending'[s] # "none" => Traced(s)
  <2>1. PICK t \in Swaps : UNCHANGED pending \/ pending' = [pending EXCEPT ![t] = "none"]
    BY DeletesEffect
  <2> QED BY <2>1 DEF Traced, TypeOK
<1>3. ToSet(chan'[c]) \subseteq ToSet(chan[c])
  BY <1>1, ChannelTakes
<1>4. \A e \in Channels \ {c} : chan'[e] = chan[e]
  BY <1>1 DEF Unmoved
<1>5. \A e \in Channels \ {"wallet", "status"} : \A m \in ToSet(chan'[e]) :
        Mentions(m, s) => Traced(s)
  BY <1>3, <1>4, TraceOf
<1>6. chan'["status"] = chan["status"]
  BY <1>1, <1>4
<1> QED BY <1>1, <1>2, <1>5, <1>6, ReceiptKept DEF Traced

(* Only a crash is counted.                                                *)
LEMMA StepsKeepCrashes ==
  ASSUME TypeOK, [Next]_vars, ~Crash
  PROVE  UNCHANGED crashes
<1>1. CASE DelayedTakes \/ DelayedTicks
  BY <1>1, AskOutcome DEF world
<1>2. CASE ImmediateTakes \/ ImmediateTicks
  BY <1>2, ExecuteOutcome DEF world
<1>3. CASE SendBootload \/ \E s \in Swaps : PostSwap(s)
  BY <1>3 DEF SendBootload, PostSwap
<1>4. CASE WalletRoutes \/ WalletForwards \/ StatusStores \/ SwapperBootloads
  BY <1>4 DEF WalletRoutes, WalletForwards, StatusStores, SwapperBootloads, world
<1>5. CASE \/ \E c \in {"swapper", "delayed_out"} : SwapperAccepts(c)
           \/ \E c \in {"immediate_out", "delayed_out"} : SwapperForwards(c) \/ SwapperDeletes(c)
  BY <1>5 DEF SwapperAccepts, SwapperForwards, SwapperDeletes, world
<1>6. CASE UNCHANGED vars
  BY <1>6 DEF vars
<1> QED BY <1>1, <1>2, <1>3, <1>4, <1>5, <1>6 DEF Next, Tasks

LEMMA ReceiptAsks ==
  ASSUME TypeOK, DelayedTakes \/ DelayedTicks, NEW s \in Swaps, ReceiptInv(s)
  PROVE  ReceiptInv(s)'
<1>1. PICK asked \in SUBSET Delayed :
        /\ Unmoved({"delayed", "delayed_out"})
        /\ \/ /\ chan["delayed"] # <<>> /\ chan'["delayed"] = Tail(chan["delayed"])
              /\ \E t : asked = {t} /\ Head(chan["delayed"]) = Request(t, "delay")
           \/ chan'["delayed"] = chan["delayed"] /\ asked = asking
        /\ \E out \in Seq(Carries("delayed_out")) :
             /\ chan'["delayed_out"] = chan["delayed_out"] \o out
             /\ \A m \in ToSet(out) : m.id \in asked
        /\ asking' \subseteq asking \cup asked
        /\ UNCHANGED <<world, running, executed, disk>>
  BY AskOutcome
<1>2. /\ "delayed" \in Channels \ {"wallet"} /\ "delayed_out" \in Channels /\ "status" \in Channels
      /\ UNCHANGED <<pending, running, receipts>>
  BY <1>1 DEF Channels, disk, tables
<1>3. s \in asked => Traced(s)
  <2>1. CASE /\ chan["delayed"] # <<>> /\ chan'["delayed"] = Tail(chan["delayed"])
             /\ \E t : asked = {t} /\ Head(chan["delayed"]) = Request(t, "delay")
    <3>1. Head(chan["delayed"]) \in ToSet(chan["delayed"])
      BY <1>2, <2>1, ChannelTakes
    <3>2. s \in asked => Mentions(Head(chan["delayed"]), s)
      BY <2>1, MessageFields DEF Mentions
    <3> QED BY <1>2, <3>1, <3>2, TraceOf
  <2>2. CASE asked = asking
    BY <2>2 DEF Traced
  <2> QED BY <1>1, <2>1, <2>2
<1>4. ToSet(chan'["delayed"]) \subseteq ToSet(chan["delayed"])
  BY <1>1, <1>2, ChannelTakes
<1>5. \A m \in ToSet(chan'["delayed_out"]) : m \in ToSet(chan["delayed_out"]) \/ m.id \in asked
  <2>1. PICK out \in Seq(Carries("delayed_out")) :
          /\ chan'["delayed_out"] = chan["delayed_out"] \o out
          /\ \A m \in ToSet(out) : m.id \in asked
    BY <1>1
  <2>2. ToSet(chan'["delayed_out"]) = ToSet(chan["delayed_out"]) \cup ToSet(out)
    BY <1>2, <2>1, ChannelGets
  <2> QED BY <2>1, <2>2
<1>6. \A e \in Channels \ {"delayed", "delayed_out"} : chan'[e] = chan[e]
  BY <1>1 DEF Unmoved
<1>7. ASSUME NEW e \in Channels \ {"wallet", "status"}, NEW m \in ToSet(chan'[e]), Mentions(m, s)
      PROVE  Traced(s)
  <2>1. m \in ToSet(chan[e]) \/ m.id \in asked
    BY <1>4, <1>5, <1>6, <1>7
  <2>2. m.id = s
    BY <1>7 DEF Mentions
  <2> QED BY <1>3, <1>7, <2>1, <2>2, TraceOf
<1>8. chan'["status"] = chan["status"]
  BY <1>2, <1>6
<1>9. s \in asking' => Traced(s)
  BY <1>1, <1>3 DEF Traced
<1> QED BY <1>2, <1>7, <1>8, <1>9, ReceiptKept DEF Traced

LEMMA ReceiptExecutes ==
  ASSUME TypeOK, ImmediateTakes \/ ImmediateTicks, NEW s \in Swaps, ReceiptInv(s)
  PROVE  ReceiptInv(s)'
<1>1. PICK T \in SUBSET Swaps : \E requested \in [T -> Executable] :
        /\ Unmoved({"immediate", "immediate_out"})
        /\ \/ /\ chan["immediate"] # <<>> /\ chan'["immediate"] = Tail(chan["immediate"])
              /\ \E t \in Swaps : /\ T = {t}
                                  /\ Head(chan["immediate"]) = Request(t, requested[t])
           \/ /\ chan'["immediate"] = chan["immediate"]
              /\ T = {t \in Swaps : running[t] # "none"}
        /\ \E out \in Seq(Carries("immediate_out")) :
             /\ chan'["immediate_out"] = chan["immediate_out"] \o out
             /\ \A m \in ToSet(out) : m.id \in T
        /\ \A t \in Swaps \ T : running'[t] = running[t]
        /\ UNCHANGED <<world, asking, disk>>
  BY ExecuteOutcome
<1>2. PICK requested \in [T -> Executable] :
        \/ /\ chan["immediate"] # <<>> /\ chan'["immediate"] = Tail(chan["immediate"])
           /\ \E t \in Swaps : /\ T = {t}
                               /\ Head(chan["immediate"]) = Request(t, requested[t])
        \/ /\ chan'["immediate"] = chan["immediate"]
           /\ T = {t \in Swaps : running[t] # "none"}
  BY <1>1
<1>3. /\ "immediate" \in Channels \ {"wallet"} /\ "immediate_out" \in Channels
      /\ "status" \in Channels /\ UNCHANGED <<pending, asking, receipts>>
  BY <1>1 DEF Channels, disk, tables
<1>4. s \in T => Traced(s)
  <2>1. CASE /\ chan["immediate"] # <<>> /\ chan'["immediate"] = Tail(chan["immediate"])
             /\ \E t \in Swaps : /\ T = {t}
                                 /\ Head(chan["immediate"]) = Request(t, requested[t])
    <3>1. Head(chan["immediate"]) \in ToSet(chan["immediate"])
      BY <1>3, <2>1, ChannelTakes
    <3>2. s \in T => Mentions(Head(chan["immediate"]), s)
      BY <2>1, MessageFields DEF Mentions
    <3> QED BY <1>3, <3>1, <3>2, TraceOf
  <2>2. CASE T = {t \in Swaps : running[t] # "none"}
    BY <2>2 DEF Traced
  <2> QED BY <1>2, <2>1, <2>2
<1>5. ToSet(chan'["immediate"]) \subseteq ToSet(chan["immediate"])
  BY <1>2, <1>3, ChannelTakes
<1>6. \A m \in ToSet(chan'["immediate_out"]) : m \in ToSet(chan["immediate_out"]) \/ m.id \in T
  <2>1. PICK out \in Seq(Carries("immediate_out")) :
          /\ chan'["immediate_out"] = chan["immediate_out"] \o out
          /\ \A m \in ToSet(out) : m.id \in T
    BY <1>1
  <2>2. ToSet(chan'["immediate_out"]) = ToSet(chan["immediate_out"]) \cup ToSet(out)
    BY <1>3, <2>1, ChannelGets
  <2> QED BY <2>1, <2>2
<1>7. \A e \in Channels \ {"immediate", "immediate_out"} : chan'[e] = chan[e]
  BY <1>1 DEF Unmoved
<1>8. ASSUME NEW e \in Channels \ {"wallet", "status"}, NEW m \in ToSet(chan'[e]), Mentions(m, s)
      PROVE  Traced(s)
  <2>1. m \in ToSet(chan[e]) \/ m.id \in T
    BY <1>5, <1>6, <1>7, <1>8
  <2>2. m.id = s
    BY <1>8 DEF Mentions
  <2> QED BY <1>4, <1>8, <2>1, <2>2, TraceOf
<1>9. chan'["status"] = chan["status"]
  BY <1>3, <1>7
<1>10. running'[s] # "none" => Traced(s)
  BY <1>1, <1>4 DEF Traced
<1> QED BY <1>3, <1>8, <1>9, <1>10, ReceiptKept DEF Traced

(* Until the process crashes, a swap that any task behind the wallet task  *)
(* knows of has a receipt, or one ahead of all its updates: StatusStores   *)
(* never meets an update that has nothing to update, if the receipts are   *)
(* written.                                                                *)
THEOREM ReceiptFirst ==
  ASSUME DiskWorks
  PROVE  Spec => []UpdateFindsReceipt
<1> DEFINE RInv == TypeOK /\ (crashes = 0 => \A s \in Swaps : ReceiptInv(s))
<1>1. Init => RInv
  <2> SUFFICES ASSUME Init, NEW s \in Swaps
               PROVE  ReceiptInv(s)
    BY TypeInit
  <2>1. \A c \in Channels : DOMAIN chan[c] = {}
    BY SmallSeqs DEF Init
  <2>2. "status" \in Channels /\ \A c \in Channels : ToSet(chan[c]) = {}
    BY <2>1 DEF ToSet, Channels
  <2>3. ~Traced(s) /\ Ordered(s, chan["status"])
    BY <2>1, <2>2 DEF Init, Traced, Ordered
  <2> QED BY <2>3 DEF ReceiptInv
<1>2. RInv /\ [Next]_vars => RInv'
  <2> SUFFICES ASSUME RInv, [Next]_vars
               PROVE  RInv'
    OBVIOUS
  <2>1. TypeOK'
    BY TypeStep
  <2>2. ASSUME crashes' = 0, NEW s \in Swaps
        PROVE  ReceiptInv(s)'
    <3>1. crashes = 0 /\ ~Crash
      <4>1. crashes \in Nat /\ ~Crash
        BY <2>2 DEF TypeOK, Crash
      <4>2. UNCHANGED crashes
        BY <4>1, StepsKeepCrashes
      <4> QED BY <2>2, <4>1, <4>2
    <3>2. TypeOK /\ ReceiptInv(s)
      BY <3>1
    <3>3. CASE SendBootload \/ \E t \in Swaps : PostSwap(t)
      BY <3>2, <3>3, ReceiptOutside
    <3>4. CASE WalletRoutes \/ WalletForwards \/ StatusStores \/ SwapperBootloads
      BY <3>2, <3>4, ReceiptRoutes, ReceiptWalletForwards, ReceiptStores, ReceiptBoots
    <3>5. CASE \E c \in {"swapper", "delayed_out"} : SwapperAccepts(c)
      BY <3>2, <3>5, ReceiptAccepts
    <3>6. CASE \E c \in {"immediate_out", "delayed_out"} : SwapperForwards(c)
      BY <3>2, <3>6, ReceiptForwards
    <3>7. CASE \E c \in {"immediate_out", "delayed_out"} : SwapperDeletes(c)
      BY <3>2, <3>7, ReceiptDeletes
    <3>8. CASE DelayedTakes \/ DelayedTicks
      BY <3>2, <3>8, ReceiptAsks
    <3>9. CASE ImmediateTakes \/ ImmediateTicks
      BY <3>2, <3>9, ReceiptExecutes
    <3>10. CASE UNCHANGED vars
      BY <3>2, <3>10 DEF vars, ReceiptInv, Traced, Acknowledged
    <3> QED BY <3>1, <3>3, <3>4, <3>5, <3>6, <3>7, <3>8, <3>9, <3>10 DEF Next, Tasks
  <2> QED BY <2>1, <2>2
<1>3. RInv => UpdateFindsReceipt
  <2> SUFFICES ASSUME RInv, crashes = 0, NEW m \in Messages,
                      Takes("status", m), m.type = "ReceiptUpdate"
               PROVE  receipts[m.id] # NoReceipt
    BY DEF UpdateFindsReceipt
  <2> DEFINE S == Carries("status")
             q == chan["status"]
             s == m.id
  <2>1. q \in Seq(S) /\ q # <<>> /\ m = Head(q)
    BY DEF TypeOK, Takes, Channels
  <2>2. s \in Swaps
    BY UpdateFields DEF Updates
  <2>3. receipts[s] # NoReceipt \/ Ordered(s, q)
    BY <2>2 DEF ReceiptInv
  <2>4. IsUpdate(m, s)
    BY DEF IsUpdate
  <2> HIDE DEF S, q, s
  <2>5. Ordered(s, q) => ~IsUpdate(m, s)
    BY <2>1, OrderedTail
  <2> QED BY <2>3, <2>4, <2>5 DEF s
<1> QED BY <1>1, <1>2, <1>3, PTL DEF Spec
-----------------------------------------------------------------------------
(* A final status is the last                                              *)

(* The channels that a status goes through on its way to the receipt, and  *)
(* which of two is emptied into the receipt before the other, or never     *)
(* holds what the other holds.                                             *)
Outs  == {"status", "swapper_out", "immediate_out", "delayed_out"}
Ahead == {<<"status", "swapper_out">>, <<"status", "immediate_out">>,
          <<"status", "delayed_out">>, <<"swapper_out", "immediate_out">>,
          <<"swapper_out", "delayed_out">>, <<"immediate_out", "delayed_out">>,
          <<"delayed_out", "immediate_out">>}

HasWrite(s, c) == \E m \in ToSet(chan[c]) : Writes(m, s)
HasFinal(s, c) == \E m \in ToSet(chan[c]) : Finals(m, s)

FinalLast(s, q) == \A i, j \in DOMAIN q : Finals(q[i], s) /\ Writes(q[j], s) => j <= i

(* A final status has been given to s.                                     *)
Over(s) == receipts[s].status \in Final \/ \E c \in Outs : HasFinal(s, c)

(* Some task may still give s a status.                                    *)
IsRequest(m, s) == m.type = "SwapRequest" /\ m.id = s
Open(s) ==
  \/ s \notin posted \/ s \in asking \/ running[s] # "none"
  \/ \E c \in Channels : \E m \in ToSet(chan[c]) : IsRequest(m, s)

(* Nothing is behind a final status, and nothing will be.                  *)
EndInv(s) ==
  /\ receipts[s].status \in Final => \A c \in Outs : ~HasWrite(s, c)
  /\ \A c \in Outs : FinalLast(s, chan[c])
  /\ \A c, d \in Outs : <<c, d>> \in Ahead => ~(HasFinal(s, c) /\ HasWrite(s, d))
  /\ Over(s) => ~Open(s)

(* The immediate swapper tells of swaps it has executed, and the delayed   *)
(* one of statuses only the final one.                                     *)
Tellers(s) ==
  /\ HasWrite(s, "immediate_out") => \E blob \in Executable : <<s, blob>> \in executed
  /\ \A m \in ToSet(chan["delayed_out"]) : Writes(m, s) => Finals(m, s)

LEMMA FinalTail ==
  ASSUME NEW S, NEW q \in Seq(S), q # <<>>, NEW s, FinalLast(s, q)
  PROVE  /\ FinalLast(s, Tail(q))
         /\ Finals(Head(q), s) => \A m \in ToSet(Tail(q)) : ~Writes(m, s)
<1> DEFINE t == Tail(q)
<1>1. /\ DOMAIN q = 1..Len(q) /\ Len(q) \in Nat \ {0} /\ DOMAIN t = 1..(Len(q) - 1)
      /\ \A i \in 1..(Len(q) - 1) : t[i] = q[i + 1]
      /\ Head(q) = q[1]
  BY LenProperties, EmptySeq, HeadTailProperties
<1>2. \A i \in DOMAIN t : i + 1 \in DOMAIN q /\ t[i] = q[i + 1] /\ i \in Nat \ {0}
  BY <1>1
<1>3. 1 \in DOMAIN q /\ Head(q) = q[1]
  BY <1>1
<1> HIDE DEF t
<1>4. FinalLast(s, t)
  <2> SUFFICES ASSUME NEW i \in DOMAIN t, NEW j \in DOMAIN t, Finals(t[i], s), Writes(t[j], s)
               PROVE  j <= i
    BY DEF FinalLast
  <2>1. j + 1 <= i + 1
    BY <1>2 DEF FinalLast
  <2> QED BY <1>2, <2>1
<1>5. ASSUME Finals(Head(q), s), NEW j \in DOMAIN t
      PROVE  ~Writes(t[j], s)
  <2>1. Writes(q[j + 1], s) => j + 1 <= 1
    BY <1>2, <1>3, <1>5 DEF FinalLast
  <2> QED BY <1>2, <2>1
<1>6. Finals(Head(q), s) => \A m \in ToSet(t) : ~Writes(m, s)
  BY <1>5 DEF ToSet
<1> QED BY <1>4, <1>6 DEF t

LEMMA FinalConcat ==
  ASSUME NEW S, NEW q \in Seq(S), NEW r \in Seq(S), NEW s,
         FinalLast(s, q), OneWrite(s, r),
         (\E m \in ToSet(q) : Finals(m, s)) => \A m \in ToSet(r) : ~Writes(m, s)
  PROVE  FinalLast(s, q \o r)
<1> DEFINE n == Len(q)
           t == q \o r
<1>1. /\ n \in Nat /\ Len(r) \in Nat /\ DOMAIN q = 1..n /\ DOMAIN r = 1..Len(r)
      /\ DOMAIN t = 1..(n + Len(r))
      /\ \A i \in 1..(n + Len(r)) : t[i] = IF i <= n THEN q[i] ELSE r[i - n]
  BY LenProperties, ConcatProperties
<1>2. \A i \in DOMAIN t : \/ i \in DOMAIN q /\ i <= n /\ t[i] = q[i]
                          \/ i > n /\ i - n \in DOMAIN r /\ t[i] = r[i - n]
  BY <1>1
<1>3. n \in Nat /\ DOMAIN t \subseteq Nat
  BY <1>1
<1> HIDE DEF n, t
<1> SUFFICES ASSUME NEW i \in DOMAIN t, NEW j \in DOMAIN t, Finals(t[i], s), Writes(t[j], s)
             PROVE  j <= i
  BY DEF FinalLast, t
<1>4. CASE i \in DOMAIN q /\ i <= n /\ t[i] = q[i]
  <2>1. \A m \in ToSet(r) : ~Writes(m, s)
    BY <1>4 DEF ToSet
  <2>2. j \in DOMAIN q /\ t[j] = q[j]
    BY <1>2, <2>1 DEF ToSet
  <2> QED BY <1>4, <2>2 DEF FinalLast
<1>5. CASE i > n /\ i - n \in DOMAIN r /\ t[i] = r[i - n]
  <2>1. CASE j <= n
    BY <1>3, <1>5, <2>1
  <2>2. CASE ~(j <= n)
    <3>1. j - n \in DOMAIN r /\ t[j] = r[j - n]
      BY <1>2, <2>2
    <3>2. Writes(t[i], s)
      BY Writings
    <3>3. i - n = j - n
      BY <1>5, <3>1, <3>2 DEF OneWrite
    <3> QED BY <1>3, <3>3
  <2> QED BY <2>1, <2>2
<1> QED BY <1>2, <1>4, <1>5

LEMMA FinalIsWrite ==
  ASSUME NEW s, NEW c
  PROVE  HasFinal(s, c) => HasWrite(s, c)
BY Writings DEF HasFinal, HasWrite

LEMMA OpenBy ==
  ASSUME NEW s, NEW c \in Channels, NEW m \in ToSet(chan[c]), IsRequest(m, s)
  PROVE  Open(s)
BY DEF Open

LEMMA OpenKept ==
  ASSUME NEW s, posted \subseteq posted', s \in asking' => Open(s),
         running'[s] # "none" => Open(s),
         \A c \in Channels : \A m \in ToSet(chan'[c]) : IsRequest(m, s) => Open(s)
  PROVE  Open(s)' => Open(s)
<1>1. s \notin posted' => Open(s)
  BY DEF Open
<1>2. Open(s)' <=> \/ s \notin posted' \/ s \in asking' \/ running'[s] # "none"
                   \/ \E c \in Channels : \E m \in ToSet(chan'[c]) : IsRequest(m, s)
  BY DEF Open
<1> QED BY <1>1, <1>2

(* Nothing is put into the channels.                                       *)
LEMMA EndShrinks ==
  ASSUME TypeOK, NEW s, EndInv(s), Tellers(s), UNCHANGED receipts, executed \subseteq executed',
         Open(s)' => Open(s),
         \A c \in Outs : \/ chan'[c] = chan[c]
                         \/ chan[c] # <<>> /\ chan'[c] = Tail(chan[c])
  PROVE  EndInv(s)' /\ Tellers(s)'
<1>1. ASSUME NEW c \in Outs
      PROVE  ToSet(chan'[c]) \subseteq ToSet(chan[c]) /\ FinalLast(s, chan'[c])
  <2> DEFINE S == Carries(c)
             q == chan[c]
  <2>1. q \in Seq(S) /\ c \in Channels /\ FinalLast(s, q)
    BY DEF TypeOK, Outs, Channels, EndInv
  <2>2. CASE chan'[c] = q
    BY <2>1, <2>2
  <2>3. CASE q # <<>> /\ chan'[c] = Tail(q)
    <3>1. ToSet(chan'[c]) \subseteq ToSet(q)
      BY <2>1, <2>3, ChannelTakes
    <3> HIDE DEF S, q
    <3>2. FinalLast(s, Tail(q))
      BY <2>1, <2>3, FinalTail
    <3> QED BY <2>3, <3>1, <3>2 DEF q
  <2> QED BY <2>2, <2>3
<1>2. \A c \in Outs : /\ HasWrite(s, c)' => HasWrite(s, c)
                      /\ HasFinal(s, c)' => HasFinal(s, c)
  BY <1>1 DEF HasWrite, HasFinal
<1>3. Over(s)' => Over(s)
  BY <1>2 DEF Over
<1>4. EndInv(s)'
  BY <1>1, <1>2, <1>3 DEF EndInv
<1>5. "immediate_out" \in Outs /\ "delayed_out" \in Outs
  BY DEF Outs
<1>6. Tellers(s)'
  BY <1>1, <1>2, <1>5 DEF Tellers
<1> QED BY <1>4, <1>6

(* The first message of c, no removal, moves on to d.                      *)
LEMMA EndMoves ==
  ASSUME TypeOK, NEW s, EndInv(s), Tellers(s), UNCHANGED <<receipts, executed>>,
         Open(s)' => Open(s),
         NEW c \in Outs, NEW d \in Outs \ {c, "immediate_out", "delayed_out"},
         NEW k, chan[c] # <<>>, k = Head(chan[c]), k \in Carries(d),
         chan'[c] = Tail(chan[c]), chan'[d] = chan[d] \o <<k>>,
         \A e \in Outs \ {c, d} : chan'[e] = chan[e],
         <<d, c>> \in Ahead,
         \A e \in Outs \ {c, d} : /\ <<e, d>> \in Ahead => <<e, c>> \in Ahead
                                  /\ <<d, e>> \in Ahead => <<c, e>> \in Ahead
  PROVE  EndInv(s)' /\ Tellers(s)'
<1>1. c \in Channels /\ d \in Channels /\ c # d
  BY DEF Outs, Channels
<1>2. /\ ToSet(chan'[c]) \subseteq ToSet(chan[c]) /\ k \in ToSet(chan[c])
      /\ ToSet(chan'[d]) = ToSet(chan[d]) \cup {k}
  BY <1>1, ChannelTakes, ChannelGetsOne
<1>3. /\ HasWrite(s, c)' => HasWrite(s, c)
      /\ HasFinal(s, c)' => HasFinal(s, c)
      /\ Writes(k, s) => HasWrite(s, c)
      /\ Finals(k, s) => HasFinal(s, c) /\ Writes(k, s)
      /\ HasWrite(s, d)' <=> HasWrite(s, d) \/ Writes(k, s)
      /\ HasFinal(s, d)' <=> HasFinal(s, d) \/ Finals(k, s)
  BY <1>2, Writings DEF HasWrite, HasFinal
<1>4. \A e \in Outs \ {c, d} : /\ HasWrite(s, e)' <=> HasWrite(s, e)
                               /\ HasFinal(s, e)' <=> HasFinal(s, e)
  BY DEF HasWrite, HasFinal
<1>5. /\ FinalLast(s, chan'[c])
      /\ Finals(k, s) => ~HasWrite(s, c)'
  <2> DEFINE S == Carries(c)
             q == chan[c]
  <2>1. q \in Seq(S) /\ FinalLast(s, q) /\ q # <<>> /\ chan'[c] = Tail(q) /\ k = Head(q)
    BY <1>1 DEF TypeOK, EndInv
  <2> HIDE DEF S, q
  <2>2. /\ FinalLast(s, Tail(q))
        /\ Finals(Head(q), s) => \A m \in ToSet(Tail(q)) : ~Writes(m, s)
    BY <2>1, FinalTail
  <2> QED BY <2>1, <2>2 DEF HasWrite
<1>6. FinalLast(s, chan'[d])
  <2> DEFINE S == Carries(d)
             q == chan[d]
             one == <<k>>
  <2>1. q \in Seq(S) /\ k \in S /\ FinalLast(s, q) /\ chan'[d] = q \o one
    BY <1>1 DEF TypeOK, EndInv
  <2>2. (\E m \in ToSet(q) : Finals(m, s)) => ~Writes(k, s)
    BY <1>3 DEF EndInv, HasFinal
  <2> HIDE DEF S, q
  <2>3. one \in Seq(S) /\ DOMAIN one = {1} /\ one[1] = k
    BY <2>1, SmallSeqs
  <2> HIDE DEF one
  <2>4. OneWrite(s, one) /\ ToSet(one) = {k}
    BY <2>3 DEF OneWrite, ToSet
  <2>5. FinalLast(s, q \o one)
    BY <2>1, <2>2, <2>3, <2>4, FinalConcat
  <2> QED BY <2>1, <2>5
<1>7. \A e \in Outs : FinalLast(s, chan'[e])
  BY <1>5, <1>6 DEF EndInv
<1>8. receipts[s].status \in Final => \A e \in Outs : ~HasWrite(s, e)'
  BY <1>3, <1>4 DEF EndInv
<1>9. Over(s)' => Over(s)
  BY <1>3, <1>4 DEF Over
<1>10. ASSUME NEW x \in Outs, NEW y \in Outs, <<x, y>> \in Ahead, HasFinal(s, x)', HasWrite(s, y)'
       PROVE  FALSE
  <2>1. \A e, f \in Outs : <<e, f>> \in Ahead => ~(HasFinal(s, e) /\ HasWrite(s, f))
    BY DEF EndInv
  <2>2. x # y
    BY <1>10 DEF Ahead
  <2>3. CASE x = d /\ y = c
    BY <1>3, <1>5, <1>10, <2>1, <2>3
  <2>4. CASE x = d /\ y # c
    BY <1>3, <1>4, <1>10, <2>1, <2>2, <2>4
  <2>5. CASE x # d /\ y = d
    <3>1. x = c \/ <<x, c>> \in Ahead
      BY <1>10, <2>5
    <3>2. x # c
      <4>1. c = "swapper_out" \/ c = "immediate_out" \/ c = "delayed_out" \/ c = "status"
        BY DEF Outs
      <4>2. <<c, d>> \in Ahead => <<d, c>> \notin Ahead
        BY DEF Ahead, Outs
      <4> QED BY <1>10, <2>5, <4>2
    <3> QED BY <1>3, <1>4, <1>10, <2>1, <2>5, <3>1, <3>2
  <2>6. CASE x # d /\ y # d
    BY <1>3, <1>4, <1>10, <2>1, <2>6
  <2> QED BY <2>3, <2>4, <2>5, <2>6
<1>11. EndInv(s)'
  BY <1>7, <1>8, <1>9, <1>10 DEF EndInv
<1>12. Tellers(s)'
  <2>1. HasWrite(s, "immediate_out")' => HasWrite(s, "immediate_out")
    BY <1>3, <1>4 DEF Outs
  <2>2. ToSet(chan'["delayed_out"]) \subseteq ToSet(chan["delayed_out"])
    BY <1>2 DEF Outs
  <2> QED BY <2>1, <2>2 DEF Tellers
<1> QED BY <1>11, <1>12

(* A task that may still give s a status puts out into c.                  *)
LEMMA EndGrows ==
  ASSUME TypeOK, NEW s, EndInv(s), UNCHANGED receipts, Open(s)' => Open(s),
         NEW c \in Outs, NEW out \in Seq(Carries(c)), chan'[c] = chan[c] \o out,
         \A e \in Outs \ {c} : chan'[e] = chan[e],
         OneWrite(s, out),
         (\E m \in ToSet(out) : Writes(m, s)) => Open(s),
         (\E m \in ToSet(out) : Finals(m, s)) =>
           /\ ~Open(s)'
           /\ \A d \in Outs : <<c, d>> \in Ahead => ~HasWrite(s, d)
  PROVE  EndInv(s)'
<1> DEFINE W == \E m \in ToSet(out) : Writes(m, s)
           F == \E m \in ToSet(out) : Finals(m, s)
<1>1. c \in Channels /\ <<c, c>> \notin Ahead
  BY DEF Outs, Channels, Ahead
<1>2. ToSet(chan'[c]) = ToSet(chan[c]) \cup ToSet(out)
  BY <1>1, ChannelGets
<1>3. F => W
  BY Writings
<1>4. /\ HasWrite(s, c)' <=> HasWrite(s, c) \/ W
      /\ HasFinal(s, c)' <=> HasFinal(s, c) \/ F
  BY <1>2 DEF HasWrite, HasFinal
<1>5. \A e \in Outs \ {c} : /\ HasWrite(s, e)' <=> HasWrite(s, e)
                            /\ HasFinal(s, e)' <=> HasFinal(s, e)
  BY DEF HasWrite, HasFinal
<1>6. W => ~Over(s)
  BY DEF EndInv
<1>7. FinalLast(s, chan'[c])
  <2> DEFINE S == Carries(c)
             q == chan[c]
  <2>1. q \in Seq(S) /\ out \in Seq(S) /\ FinalLast(s, q) /\ chan'[c] = q \o out
    BY <1>1 DEF TypeOK, EndInv
  <2>2. (\E m \in ToSet(q) : Finals(m, s)) => \A m \in ToSet(out) : ~Writes(m, s)
    BY <1>6 DEF Over, HasFinal
  <2> HIDE DEF S, q
  <2> QED BY <2>1, <2>2, FinalConcat
<1> HIDE DEF W, F
<1>8. \A e \in Outs : FinalLast(s, chan'[e])
  BY <1>7 DEF EndInv
<1>9. receipts[s].status \in Final => \A e \in Outs : ~HasWrite(s, e)'
  BY <1>4, <1>5, <1>6 DEF EndInv, Over
<1>10. Over(s)' => ~Open(s)'
  <2>1. Over(s)' => Over(s) \/ F
    BY <1>4, <1>5 DEF Over
  <2>2. F => ~Open(s)'
    BY DEF F
  <2> QED BY <2>1, <2>2 DEF EndInv
<1>11. ASSUME NEW x \in Outs, NEW y \in Outs, <<x, y>> \in Ahead, HasFinal(s, x)', HasWrite(s, y)'
       PROVE  FALSE
  <2>1. ~(HasFinal(s, x) /\ HasWrite(s, y))
    BY <1>11 DEF EndInv
  <2>2. W => ~HasFinal(s, x)
    BY <1>6 DEF Over
  <2>3. x = c /\ F => ~HasWrite(s, y)
    BY <1>11 DEF F
  <2> QED BY <1>1, <1>3, <1>4, <1>5, <1>11, <2>1, <2>2, <2>3
<1> QED BY <1>8, <1>9, <1>10, <1>11 DEF EndInv

(* A swap that is about to be removed is in no other place.                *)
RemovalsClose ==
  \A s \in Swaps : \A c \in {"immediate_out", "delayed_out"} :
    DeleteSwap(s) \in ToSet(chan[c]) => ~Open(s)

LEMMA InvCloses == Inv => RemovalsClose
<1> SUFFICES ASSUME Inv, NEW s \in Swaps, NEW c \in {"immediate_out", "delayed_out"},
                    DeleteSwap(s) \in ToSet(chan[c])
             PROVE  ~Open(s)
  BY DEF RemovalsClose
<1>1. PICK i \in DOMAIN chan[c] : chan[c][i] = DeleteSwap(s)
  BY DEF ToSet
<1>2. IsAbout(chan[c][i], s)
  BY <1>1, MessageFields DEF IsAbout
<1>3. At(s, c) /\ c \in Places /\ c \in Channels
  BY <1>2 DEF At, About, Places, Channels
<1>4. s \in posted
  BY <1>3, Present
<1>5. SwapInv(s)
  BY DEF Inv
<1>6. s \notin asking /\ running[s] = "none"
  <2>1. "asking" \in Places /\ "running" \in Places /\ c # "asking" /\ c # "running"
    BY DEF Places, Channels
  <2>2. ~At(s, "asking") /\ ~At(s, "running")
    BY <1>3, <1>5, <2>1 DEF SwapInv
  <2> QED BY <2>2 DEF At
<1>7. ASSUME NEW e \in Channels, NEW m \in ToSet(chan[e]), IsRequest(m, s)
      PROVE  FALSE
  <2>1. PICK j \in DOMAIN chan[e] : chan[e][j] = m
    BY DEF ToSet
  <2>2. IsAbout(chan[e][j], s)
    BY <1>7, <2>1 DEF IsRequest, IsAbout
  <2>3. At(s, e) /\ e \in Places
    BY <2>2 DEF At, About, Places
  <2>4. e = c
    BY <1>3, <1>5, <2>3 DEF SwapInv
  <2>5. Once(s, chan[c])
    BY <1>3, <1>5 DEF SwapInv
  <2>6. i = j
    BY <1>2, <2>2, <2>4, <2>5 DEF Once
  <2>7. m = DeleteSwap(s)
    BY <1>1, <2>1, <2>4, <2>6
  <2> QED BY <1>7, <2>7, MessageFields DEF IsRequest
<1> QED BY <1>4, <1>6, <1>7 DEF Open

LEMMA InvClosesAfter == Inv' => RemovalsClose'
BY InvCloses, PTL

LEMMA EndOutside ==
  ASSUME TypeOK, SendBootload \/ \E t \in Swaps : PostSwap(t),
         NEW s \in Swaps, EndInv(s), Tellers(s)
  PROVE  EndInv(s)' /\ Tellers(s)'
<1>1. ASSUME NEW k \in Carries("wallet"), chan' = [chan EXCEPT !["wallet"] = Append(@, k)]
      PROVE  /\ \A e \in Channels \ {"wallet"} : chan'[e] = chan[e]
             /\ ToSet(chan'["wallet"]) = ToSet(chan["wallet"]) \cup {k}
  <2> DEFINE S == Carries("wallet")
  <2>1. chan["wallet"] \in Seq(S) /\ k \in S /\ "wallet" \in DOMAIN chan
    BY DEF TypeOK, Channels
  <2> HIDE DEF S
  <2>2. Append(chan["wallet"], k) = chan["wallet"] \o <<k>>
    BY <2>1, AppendIsConcat
  <2>3. chan'["wallet"] = chan["wallet"] \o <<k>>
    BY <1>1, <2>1, <2>2
  <2> QED BY <1>1, <2>1, <2>3, ChannelGetsOne DEF TypeOK, Channels
<1>2. PICK k \in Carries("wallet") :
        /\ chan' = [chan EXCEPT !["wallet"] = Append(@, k)]
        /\ IsRequest(k, s) => Open(s)
        /\ posted \subseteq posted' /\ UNCHANGED <<asking, running, executed, receipts>>
  <2>1. CASE SendBootload
    <3>1. Bootload \in Carries("wallet") /\ ~IsRequest(Bootload, s)
      BY Carried, MessageFields DEF IsRequest
    <3> QED BY <2>1, <3>1 DEF SendBootload, memory, disk, tables
  <2>2. ASSUME NEW t \in Swaps, PostSwap(t)
        PROVE  \E k \in Carries("wallet") :
                 /\ chan' = [chan EXCEPT !["wallet"] = Append(@, k)]
                 /\ IsRequest(k, s) => Open(s)
                 /\ posted \subseteq posted' /\ UNCHANGED <<asking, running, executed, receipts>>
    <3>1. Request(t, Posted(t)) \in Carries("wallet")
      BY Carried
    <3>2. IsRequest(Request(t, Posted(t)), s) => Open(s)
      BY <2>2, MessageFields DEF IsRequest, Open, PostSwap
    <3>3. /\ chan' = [chan EXCEPT !["wallet"] = Append(@, Request(t, Posted(t)))]
          /\ posted \subseteq posted' /\ UNCHANGED <<asking, running, executed, receipts>>
      BY <2>2 DEF PostSwap, memory, disk, tables
    <3> QED BY <3>1, <3>2, <3>3
  <2> QED BY <2>1, <2>2
<1>3. /\ \A e \in Channels \ {"wallet"} : chan'[e] = chan[e]
      /\ ToSet(chan'["wallet"]) = ToSet(chan["wallet"]) \cup {k}
  BY <1>1, <1>2
<1>4. \A c \in Channels : \A m \in ToSet(chan'[c]) : IsRequest(m, s) => Open(s)
  BY <1>2, <1>3, OpenBy
<1>5. Open(s)' => Open(s)
  <2>1. /\ s \in asking' => Open(s)
        /\ running'[s] # "none" => Open(s)
    BY <1>2 DEF Open
  <2> QED BY <1>2, <1>4, <2>1, OpenKept
<1>6. \A c \in Outs : chan'[c] = chan[c]
  BY <1>3 DEF Outs, Channels
<1> QED BY <1>2, <1>5, <1>6, EndShrinks

LEMMA EndRoutes ==
  ASSUME TypeOK, WalletRoutes, NEW s \in Swaps, EndInv(s), Tellers(s)
  PROVE  EndInv(s)' /\ Tellers(s)'
<1>1. /\ chan["wallet"] # <<>> /\ chan'["wallet"] = Tail(chan["wallet"]) /\ "wallet" \in Channels
      /\ UNCHANGED <<posted, asking, running, executed, receipts>>
  BY RoutesEffect DEF world, memory, disk, tables, Channels
<1>2. ToSet(chan'["wallet"]) \subseteq ToSet(chan["wallet"])
      /\ Head(chan["wallet"]) \in ToSet(chan["wallet"])
  BY <1>1, ChannelTakes
<1>3. /\ s \in asking' => Open(s)
      /\ running'[s] # "none" => Open(s)
  BY <1>1 DEF Open
<1>4. CASE /\ Unmoved({"wallet", "swapper"})
           /\ chan'["swapper"] = chan["swapper"] \o <<Bootload>>
  <2>1. ToSet(chan'["swapper"]) = ToSet(chan["swapper"]) \cup {Bootload}
    BY <1>4, Carried, ChannelGetsOne DEF Channels
  <2>2. ~IsRequest(Bootload, s)
    BY MessageFields DEF IsRequest
  <2>3. \A c \in Channels \ {"wallet", "swapper"} : chan'[c] = chan[c]
    BY <1>4 DEF Unmoved
  <2>4. \A c \in Channels : \A m \in ToSet(chan'[c]) : IsRequest(m, s) => Open(s)
    BY <1>2, <2>1, <2>2, <2>3, OpenBy
  <2>5. Open(s)' => Open(s)
    BY <1>1, <1>3, <2>4, OpenKept
  <2>6. \A c \in Outs : chan'[c] = chan[c]
    BY <2>3 DEF Outs, Channels
  <2> QED BY <1>1, <2>5, <2>6, EndShrinks
<1>5. ASSUME NEW t \in Swaps, Head(chan["wallet"]) = Request(t, Posted(t)),
             Unmoved({"wallet", "swapper", "status"}),
             chan'["swapper"] = chan["swapper"] \o <<Request(t, Posted(t))>>,
             chan'["status"] = chan["status"] \o <<Receipt(t, Posted(t))>>
      PROVE  EndInv(s)' /\ Tellers(s)'
  <2> DEFINE k == Request(t, Posted(t))
             r == Receipt(t, Posted(t))
             out == <<r>>
  <2>1. k \in Carries("swapper") /\ r \in Carries("status") /\ "status" \in Outs
    <3>1. r \in Messages /\ r.type = "Receipt"
      BY BlobsApart, MessageFields DEF Messages
    <3> QED BY <3>1, Carried DEF Outs
  <2>2. /\ IsRequest(k, s) <=> s = t
        /\ ~IsRequest(r, s)
        /\ Writes(r, s) <=> s = t
        /\ ~Finals(r, s)
    <3>1. (IsRequest(k, s) <=> s = t) /\ ~IsRequest(r, s)
      BY MessageFields DEF IsRequest
    <3>2. (Writes(r, s) <=> s = t) /\ ~Finals(r, s)
      BY Writings
    <3> QED BY <3>1, <3>2
  <2>3. Head(chan["wallet"]) = k /\ chan'["status"] = chan["status"] \o out
    BY <1>5
  <2> HIDE DEF k, r
  <2>4. ToSet(chan'["swapper"]) = ToSet(chan["swapper"]) \cup {k}
    BY <1>5, <2>1, ChannelGetsOne DEF Channels, k
  <2>5. \A c \in Channels \ {"wallet", "swapper", "status"} : chan'[c] = chan[c]
    BY <1>5 DEF Unmoved
  <2>6. s = t => Open(s)
    BY <1>1, <1>2, <2>2, <2>3, OpenBy
  <2>7. out \in Seq(Carries("status")) /\ DOMAIN out = {1} /\ out[1] = r
    BY <2>1, SmallSeqs
  <2> HIDE DEF out
  <2>8. ToSet(out) = {r} /\ OneWrite(s, out)
    BY <2>7 DEF ToSet, OneWrite
  <2>9. ToSet(chan'["status"]) = ToSet(chan["status"]) \cup {r}
    BY <2>3, <2>7, <2>8, ChannelGets DEF Channels
  <2>10. Open(s)' => Open(s)
    <3>1. \A c \in Channels : \A m \in ToSet(chan'[c]) : IsRequest(m, s) => Open(s)
      BY <1>2, <2>2, <2>4, <2>5, <2>6, <2>9, OpenBy
    <3> QED BY <1>1, <1>3, <3>1, OpenKept
  <2>11. \A e \in Outs \ {"status"} : chan'[e] = chan[e]
    BY <2>5 DEF Outs, Channels
  <2>12. EndInv(s)'
    BY <1>1, <2>1, <2>2, <2>3, <2>6, <2>7, <2>8, <2>10, <2>11, EndGrows
  <2>13. Tellers(s)'
    BY <1>1, <2>11 DEF Tellers, HasWrite, Outs
  <2> QED BY <2>12, <2>13
<1> QED BY <1>4, <1>5, RoutesEffect

LEMMA EndForwards ==
  ASSUME TypeOK, NEW c \in {"swapper_out", "immediate_out", "delayed_out"},
         NEW d \in {"status", "swapper_out"}, c = "swapper_out" <=> d = "status",
         IF c = "swapper_out" THEN WalletForwards ELSE SwapperForwards(c),
         NEW s \in Swaps, EndInv(s), Tellers(s)
  PROVE  EndInv(s)' /\ Tellers(s)'
<1> DEFINE k == Head(chan[c])
<1>1. /\ chan[c] # <<>> /\ Unmoved({c, d}) /\ k \in Updates
      /\ chan'[c] = Tail(chan[c]) /\ chan'[d] = chan[d] \o <<k>>
      /\ UNCHANGED <<world, memory, disk>>
  BY WalletForwardsEffect, SwapperForwardsEffect
<1>2. /\ c \in Outs /\ d \in Outs \ {c, "immediate_out", "delayed_out"}
      /\ c \in Channels /\ d \in Channels /\ k \in Carries(d)
  BY <1>1, Carried DEF Outs, Channels
<1>3. /\ <<d, c>> \in Ahead
      /\ \A e \in Outs \ {c, d} : /\ <<e, d>> \in Ahead => <<e, c>> \in Ahead
                                  /\ <<d, e>> \in Ahead => <<c, e>> \in Ahead
  BY DEF Ahead, Outs
<1>4. UNCHANGED <<posted, asking, running, executed, receipts>>
  BY <1>1 DEF world, memory, disk, tables
<1>5. \A e \in Channels \ {c, d} : chan'[e] = chan[e]
  BY <1>1 DEF Unmoved
<1>6. ~IsRequest(k, s)
  BY <1>1, UpdateFields DEF IsRequest
<1>7. k = Head(chan[c])
  OBVIOUS
<1> HIDE DEF k
<1>8. /\ ToSet(chan'[c]) \subseteq ToSet(chan[c])
      /\ ToSet(chan'[d]) = ToSet(chan[d]) \cup {k}
  BY <1>1, <1>2, ChannelTakes, ChannelGetsOne
<1>9. Open(s)' => Open(s)
  <2>1. \A e \in Channels : \A m \in ToSet(chan'[e]) : IsRequest(m, s) => Open(s)
    BY <1>2, <1>5, <1>6, <1>8, OpenBy
  <2>2. /\ s \in asking' => Open(s)
        /\ running'[s] # "none" => Open(s)
    BY <1>4 DEF Open
  <2> QED BY <1>4, <2>1, <2>2, OpenKept
<1>10. \A e \in Outs \ {c, d} : chan'[e] = chan[e]
  BY <1>5 DEF Outs, Channels
<1> QED BY <1>1, <1>2, <1>3, <1>4, <1>7, <1>9, <1>10, EndMoves

LEMMA EndDeletes ==
  ASSUME TypeOK, NEW c \in {"immediate_out", "delayed_out"}, SwapperDeletes(c),
         NEW s \in Swaps, EndInv(s), Tellers(s)
  PROVE  EndInv(s)' /\ Tellers(s)'
<1>1. /\ chan[c] # <<>> /\ Unmoved({c}) /\ chan'[c] = Tail(chan[c])
      /\ UNCHANGED <<posted, asking, running, executed, receipts>>
      /\ c \in Channels
  BY DeletesEffect DEF world, memory, Channels
<1>2. ToSet(chan'[c]) \subseteq ToSet(chan[c])
  BY <1>1, ChannelTakes
<1>3. \A e \in Channels \ {c} : chan'[e] = chan[e]
  BY <1>1 DEF Unmoved
<1>4. Open(s)' => Open(s)
  <2>1. \A e \in Channels : \A m \in ToSet(chan'[e]) : IsRequest(m, s) => Open(s)
    BY <1>2, <1>3, OpenBy
  <2>2. /\ s \in asking' => Open(s)
        /\ running'[s] # "none" => Open(s)
    BY <1>1 DEF Open
  <2> QED BY <1>1, <2>1, <2>2, OpenKept
<1>5. \A e \in Outs : chan'[e] = chan[e] \/ (chan[e] # <<>> /\ chan'[e] = Tail(chan[e]))
  BY <1>1, <1>3 DEF Outs, Channels
<1> QED BY <1>1, <1>4, <1>5, EndShrinks

LEMMA EndAccepts ==
  ASSUME TypeOK, NEW c \in {"swapper", "delayed_out"}, SwapperAccepts(c),
         NEW s \in Swaps, EndInv(s), Tellers(s)
  PROVE  EndInv(s)' /\ Tellers(s)'
<1>1. /\ chan[c] # <<>> /\ chan'[c] = Tail(chan[c]) /\ Typed
      /\ UNCHANGED <<posted, asking, running, executed, receipts>> /\ c \in Channels
  BY AcceptsEffect DEF world, memory, Channels
<1>2. PICK t \in Swaps, blob \in Blobs :
        /\ Head(chan[c]) = Request(t, blob)
        /\ \/ Unmoved({c})
           \/ /\ Unmoved({c, Child(blob)})
              /\ chan'[Child(blob)] = chan[Child(blob)] \o <<Request(t, blob)>>
  BY AcceptsEffect
<1> DEFINE k == Request(t, blob)
           d == Child(blob)
<1>3. d \in Channels \ {c} /\ d \notin Outs
  BY DEF Channels, Child, Outs
<1>4. Head(chan[c]) = k /\ \/ Unmoved({c})
                           \/ Unmoved({c, d}) /\ chan'[d] = chan[d] \o <<k>>
  BY <1>2
<1> HIDE DEF k, d
<1>5. ToSet(chan'[c]) \subseteq ToSet(chan[c]) /\ k \in ToSet(chan[c])
  BY <1>1, <1>4, ChannelTakes
<1>6. ToSet(chan'[d]) \subseteq ToSet(chan[d]) \cup {k}
  <2>1. CASE Unmoved({c})
    BY <1>3, <2>1 DEF Unmoved
  <2>2. CASE chan'[d] = chan[d] \o <<k>>
    <3> DEFINE S == {k} \cup Carries(d)
               q == chan[d]
               one == <<k>>
    <3>1. q \in Seq(Carries(d))
      BY <1>3 DEF TypeOK
    <3>2. k \in S /\ q \in Seq(S)
      BY <3>1, SeqMonotonic
    <3> HIDE DEF S
    <3>3. one \in Seq(S) /\ DOMAIN one = {1} /\ one[1] = k
      BY <3>2, SmallSeqs
    <3>4. chan'[d] = q \o one
      BY <2>2
    <3> HIDE DEF q, one
    <3>5. ToSet(q \o one) = ToSet(q) \cup ToSet(one)
      BY <3>2, <3>3, ConcatSet
    <3>6. ToSet(one) = {k}
      BY <3>3 DEF ToSet
    <3> QED BY <3>4, <3>5, <3>6 DEF q
  <2> QED BY <1>4, <2>1, <2>2
<1>7. \A e \in Channels \ {c, d} : chan'[e] = chan[e]
  BY <1>4 DEF Unmoved
<1>8. Open(s)' => Open(s)
  <2>1. IsRequest(k, s) => Open(s)
    BY <1>1, <1>5, OpenBy
  <2>2. \A e \in Channels : \A m \in ToSet(chan'[e]) : IsRequest(m, s) => Open(s)
    BY <1>3, <1>5, <1>6, <1>7, <2>1, OpenBy
  <2>3. /\ s \in asking' => Open(s)
        /\ running'[s] # "none" => Open(s)
    BY <1>1 DEF Open
  <2> QED BY <1>1, <2>2, <2>3, OpenKept
<1>9. \A e \in Outs : chan'[e] = chan[e] \/ (chan[e] # <<>> /\ chan'[e] = Tail(chan[e]))
  BY <1>1, <1>3, <1>7 DEF Outs, Channels
<1> QED BY <1>1, <1>8, <1>9, EndShrinks

(* Without a pending swap the Bootload sends nothing.                      *)
LEMMA EndBoots ==
  ASSUME TypeOK, SwapperBootloads, \A t \in Swaps : pending[t] = "none",
         NEW s \in Swaps, EndInv(s), Tellers(s)
  PROVE  EndInv(s)' /\ Tellers(s)'
<1>1. /\ chan["swapper"] # <<>> /\ UNCHANGED <<posted, asking, running, executed, receipts>>
      /\ "swapper" \in Channels /\ "swapper_out" \in Channels
  BY DEF SwapperBootloads, Takes, world, memory, disk, tables, Channels
<1>2. /\ chan'["swapper"] = Tail(chan["swapper"])
      /\ \A c \in Channels \ {"swapper"} : chan'[c] = chan[c]
  <2>1. CASE \E order \in SetToSeqs({t \in Swaps : pending[t] # "none"}) : Resend(order)
    <3>1. /\ chan'["swapper"] = Tail(chan["swapper"])
          /\ Unmoved({"swapper", "swapper_out", "delayed", "immediate"})
          /\ \E news \in Seq(Updates) :
               /\ chan'["swapper_out"] = chan["swapper_out"] \o news
               /\ \A m \in ToSet(news) : m.id \in Swaps /\ pending[m.id] # "none"
          /\ \A d \in {"delayed", "immediate"} : \E out \in Seq(Stocks(d)) :
               chan'[d] = chan[d] \o out
      BY <1>1, <2>1, ResendEffect
    <3>2. ASSUME NEW S, NEW out \in Seq(S), ToSet(out) = {} PROVE out = <<>>
      <4>1. DOMAIN out = 1..Len(out) /\ Len(out) \in Nat
        BY LenProperties
      <4>2. DOMAIN out = {}
        BY <3>2 DEF ToSet
      <4>3. Len(out) = 0
        BY <4>1, <4>2
      <4> QED BY <4>3, EmptySeq
    <3>3. ASSUME NEW d \in {"swapper_out", "delayed", "immediate"}
          PROVE  \E S : \E out \in Seq(S) : chan'[d] = chan[d] \o out /\ ToSet(out) = {}
      <4>1. CASE d = "swapper_out"
        <5>1. PICK news \in Seq(Updates) :
                /\ chan'["swapper_out"] = chan["swapper_out"] \o news
                /\ \A m \in ToSet(news) : m.id \in Swaps /\ pending[m.id] # "none"
          BY <3>1
        <5>2. ToSet(news) = {}
          BY <5>1
        <5> QED BY <4>1, <5>1, <5>2
      <4>2. CASE d \in {"delayed", "immediate"}
        <5> DEFINE R == Stocks(d)
        <5>1. PICK out \in Seq(R) : chan'[d] = chan[d] \o out
          BY <3>1, <4>2
        <5>2. R = {}
          BY DEF Stocks
        <5> HIDE DEF R
        <5>3. ToSet(out) \subseteq R
          BY <5>1, ElementOfSeq, LenProperties DEF ToSet
        <5> QED BY <5>1, <5>2, <5>3
      <4> QED BY <4>1, <4>2
    <3>4. ASSUME NEW d \in {"swapper_out", "delayed", "immediate"}
          PROVE  chan'[d] = chan[d]
      <4>1. \E S : \E out \in Seq(S) : chan'[d] = chan[d] \o out /\ ToSet(out) = {}
        BY <3>3
      <4>2. chan'[d] = chan[d] \o <<>>
        BY <3>2, <4>1
      <4> DEFINE S == Carries(d)
                 q == chan[d]
      <4>3. q \in Seq(S)
        BY DEF TypeOK, Channels
      <4> HIDE DEF S, q
      <4>4. q \o <<>> = q
        BY <4>3, ConcatEmptySeq
      <4> QED BY <4>2, <4>4 DEF q
    <3> QED BY <3>1, <3>4 DEF Unmoved
  <2>2. CASE Done("swapper", Nothing)
    <3>1. Unmoved({"swapper"}) /\ chan'["swapper"] = Tail(chan["swapper"])
      BY <1>1, <2>2, DropsEffect
    <3> QED BY <3>1 DEF Unmoved
  <2> QED BY <2>1, <2>2 DEF SwapperBootloads
<1>3. ToSet(chan'["swapper"]) \subseteq ToSet(chan["swapper"])
  BY <1>1, <1>2, ChannelTakes
<1>4. Open(s)' => Open(s)
  <2>1. \A e \in Channels : \A m \in ToSet(chan'[e]) : IsRequest(m, s) => Open(s)
    BY <1>2, <1>3, OpenBy
  <2>2. /\ s \in asking' => Open(s)
        /\ running'[s] # "none" => Open(s)
    BY <1>1 DEF Open
  <2> QED BY <1>1, <2>1, <2>2, OpenKept
<1>5. \A e \in Outs : chan'[e] = chan[e]
  BY <1>2 DEF Outs, Channels
<1> QED BY <1>1, <1>4, <1>5, EndShrinks

(* What storing a message makes of a status.                               *)
LEMMA StatusStored ==
  ASSUME TypeOK, StatusStores, NEW s \in Swaps
  PROVE  /\ receipts'[s].status \in Final =>
              receipts[s].status \in Final \/ Finals(Head(chan["status"]), s)
         /\ ~Writes(Head(chan["status"]), s) => receipts'[s].status = receipts[s].status
<1> DEFINE k == Head(chan["status"])
           r == receipts[s]
<1>1. \/ k.type = "Receipt" /\ PutReceipt(k)
      \/ k.type = "ReceiptUpdate" /\ UpdateReceipt(k)
      \/ UNCHANGED receipts
  BY StoresEffect
<1>2. DOMAIN receipts = Swaps
  BY DEF TypeOK
<1> HIDE DEF k
<1>3. CASE k.type = "Receipt" /\ PutReceipt(k)
  <2>1. receipts' = [receipts EXCEPT ![k.id] = [status |-> "Inactive", blob |-> k.blob]]
    BY <1>3 DEF PutReceipt
  <2>2. CASE k.id = s
    <3>1. receipts'[s].status = "Inactive"
      BY <1>2, <2>1, <2>2
    <3>2. Writes(k, s)
      BY <1>3, <2>2 DEF Writes, IsReceipt
    <3> QED BY <3>1, <3>2 DEF Final, k
  <2>3. CASE k.id # s
    BY <1>2, <2>1, <2>3 DEF k
  <2> QED BY <2>2, <2>3
<1>4. CASE k.type = "ReceiptUpdate" /\ UpdateReceipt(k)
  <2>1. CASE k.id = s /\ r # NoReceipt
    <3> DEFINE new == [status |-> Merge(r.status, k.status), blob |-> Merge(r.blob, k.blob)]
    <3>1. receipts' = [receipts EXCEPT ![s] = new]
      BY <1>4, <2>1 DEF UpdateReceipt
    <3>2. new.status = Merge(r.status, k.status)
      OBVIOUS
    <3> HIDE DEF new
    <3>3. receipts'[s].status = Merge(r.status, k.status)
      BY <1>2, <3>1, <3>2
    <3>4. IsUpdate(k, s)
      BY <1>4, <2>1 DEF IsUpdate
    <3> QED BY <3>3, <3>4 DEF Merge, Writes, Finals, k
  <2>2. CASE k.id # s \/ r = NoReceipt
    <3>1. receipts'[s] = r
      <4>1. CASE receipts[k.id] = NoReceipt
        BY <1>4, <4>1 DEF UpdateReceipt
      <4>2. CASE receipts[k.id] # NoReceipt
        <5> DEFINE new == [status |-> Merge(receipts[k.id].status, k.status),
                           blob |-> Merge(receipts[k.id].blob, k.blob)]
        <5>1. receipts' = [receipts EXCEPT ![k.id] = new]
          BY <1>4, <4>2 DEF UpdateReceipt
        <5> HIDE DEF new
        <5> QED BY <1>2, <2>2, <4>2, <5>1
      <4> QED BY <4>1, <4>2
    <3> QED BY <3>1
  <2> QED BY <2>1, <2>2
<1>5. CASE UNCHANGED receipts
  BY <1>5
<1> QED BY <1>1, <1>3, <1>4, <1>5

LEMMA EndStores ==
  ASSUME TypeOK, StatusStores, NEW s \in Swaps, EndInv(s), Tellers(s)
  PROVE  EndInv(s)' /\ Tellers(s)'
<1> DEFINE k == Head(chan["status"])
           q == chan["status"]
           S == Carries("status")
<1>1. /\ q # <<>> /\ Unmoved({"status"}) /\ chan'["status"] = Tail(q)
      /\ UNCHANGED <<posted, asking, running, executed>>
      /\ "status" \in Channels /\ "status" \in Outs /\ q \in Seq(S)
  BY StoresEffect DEF world, memory, Channels, Outs, TypeOK
<1>2. ToSet(chan'["status"]) \subseteq ToSet(q) /\ k \in ToSet(q)
  BY <1>1, ChannelTakes
<1>3. /\ receipts'[s].status \in Final => receipts[s].status \in Final \/ Finals(k, s)
  BY StatusStored
<1>4. \A e \in Channels \ {"status"} : chan'[e] = chan[e]
  BY <1>1 DEF Unmoved
<1>5. k = Head(q) /\ FinalLast(s, q)
  BY <1>1 DEF EndInv
<1>6. Finals(k, s) => HasFinal(s, "status")
  BY <1>2 DEF HasFinal
<1> HIDE DEF k, q, S
<1>7. /\ FinalLast(s, chan'["status"])
      /\ Finals(k, s) => ~HasWrite(s, "status")'
  BY <1>1, <1>5, FinalTail DEF HasWrite
<1>8. \A c \in Outs \ {"status"} : chan'[c] = chan[c]
  BY <1>4 DEF Outs, Channels
<1>9. \A c \in Outs : /\ HasWrite(s, c)' => HasWrite(s, c)
                      /\ HasFinal(s, c)' => HasFinal(s, c)
  BY <1>2, <1>8 DEF HasWrite, HasFinal, q
<1>10. ASSUME receipts'[s].status \in Final, NEW c \in Outs
       PROVE  ~HasWrite(s, c)'
  <2>1. CASE receipts[s].status \in Final
    BY <1>9, <2>1 DEF EndInv
  <2>2. CASE Finals(k, s) /\ c = "status"
    BY <1>7, <2>2
  <2>3. CASE Finals(k, s) /\ c # "status"
    <3>1. <<"status", c>> \in Ahead
      BY <2>3 DEF Ahead, Outs
    <3> QED BY <1>1, <1>6, <1>9, <2>3, <3>1 DEF EndInv
  <2> QED BY <1>3, <1>10, <2>1, <2>2, <2>3
<1>11. \A c \in Outs : FinalLast(s, chan'[c])
  BY <1>7, <1>8 DEF EndInv
<1>12. Over(s)' => Over(s)
  BY <1>1, <1>3, <1>6, <1>9 DEF Over
<1>13. Open(s)' => Open(s)
  <2>1. \A e \in Channels : \A m \in ToSet(chan'[e]) : IsRequest(m, s) => Open(s)
    BY <1>1, <1>2, <1>4, OpenBy DEF q
  <2>2. /\ s \in asking' => Open(s)
        /\ running'[s] # "none" => Open(s)
    BY <1>1 DEF Open
  <2> QED BY <1>1, <2>1, <2>2, OpenKept
<1>14. EndInv(s)'
  BY <1>9, <1>10, <1>11, <1>12, <1>13 DEF EndInv
<1>15. Tellers(s)'
  BY <1>1, <1>8 DEF Tellers, HasWrite, Outs
<1> QED BY <1>14, <1>15

(* A swap that the delayed swapper asks about was not executed yet.        *)
LEMMA EndAsks ==
  ASSUME Inv, Inv', DelayedTakes \/ DelayedTicks, NEW s \in Swaps, EndInv(s), Tellers(s)
  PROVE  EndInv(s)' /\ Tellers(s)'
<1>1. PICK asked \in SUBSET Delayed :
        /\ Unmoved({"delayed", "delayed_out"})
        /\ \/ /\ chan["delayed"] # <<>> /\ chan'["delayed"] = Tail(chan["delayed"])
              /\ \E t : asked = {t} /\ Head(chan["delayed"]) = Request(t, "delay")
           \/ chan'["delayed"] = chan["delayed"] /\ asked = asking
        /\ \E out \in Seq(Carries("delayed_out")) :
             /\ chan'["delayed_out"] = chan["delayed_out"] \o out
             /\ \A t : About(t, out) <=> t \in asked \ asking'
             /\ \A m \in ToSet(out) : m.id \in asked
             /\ Conclusive(out) /\ OnlyFinals(out)
        /\ asking' \subseteq asking \cup asked
        /\ UNCHANGED <<world, running, executed, disk>>
  BY AskOutcome DEF Inv
<1>2. /\ TypeOK /\ "delayed" \in Channels /\ "delayed_out" \in Channels /\ "delayed_out" \in Outs
      /\ "delayed" \in Places /\ "asking" \in Places
      /\ UNCHANGED <<posted, pending, running, executed, receipts>>
  BY <1>1 DEF Inv, Channels, Places, Outs, world, disk, tables
<1>3. PICK out \in Seq(Carries("delayed_out")) :
        /\ chan'["delayed_out"] = chan["delayed_out"] \o out
        /\ \A t : About(t, out) <=> t \in asked \ asking'
        /\ \A m \in ToSet(out) : m.id \in asked
        /\ Conclusive(out) /\ OnlyFinals(out)
  BY <1>1
<1>4. s \in asked => Open(s) /\ pending[s] = "delay"
  <2> SUFFICES ASSUME s \in asked PROVE Open(s) /\ pending[s] = "delay"
    OBVIOUS
  <2>1. CASE asked = asking
    <3>1. At(s, "asking")
      BY <2>1 DEF At
    <3> QED BY <1>2, <2>1, <3>1, Present DEF Open
  <2>2. CASE /\ chan["delayed"] # <<>> /\ chan'["delayed"] = Tail(chan["delayed"])
             /\ \E t : asked = {t} /\ Head(chan["delayed"]) = Request(t, "delay")
    <3>1. Head(chan["delayed"]) = Request(s, "delay")
      BY <2>2
    <3>2. IsAbout(Head(chan["delayed"]), s) /\ IsRequest(Head(chan["delayed"]), s)
      BY <3>1, MessageFields DEF IsAbout, IsRequest
    <3>3. Head(chan["delayed"]) \in ToSet(chan["delayed"]) /\ About(s, chan["delayed"])
      BY <1>2, <2>2, <3>2, ChannelTakes
    <3>4. At(s, "delayed")
      BY <1>2, <3>3 DEF At
    <3> QED BY <1>2, <3>2, <3>3, <3>4, OpenBy, Present
  <2> QED BY <1>1, <2>1, <2>2
<1>5. s \in asked => ~HasWrite(s, "immediate_out")
  <2> SUFFICES ASSUME s \in asked, NEW blob \in Executable, <<s, blob>> \in executed PROVE FALSE
    BY DEF Tellers
  <2>1. pending[s] \in {blob, "none"}
    BY DEF Inv, SwapInv
  <2>2. "delay" \notin Executable
    BY BlobsApart
  <2> QED BY <1>4, <2>1, <2>2
<1>6. (\E m \in ToSet(out) : Writes(m, s)) => s \in asked
  <2>1. \A m : Writes(m, s) => m.id = s
    BY Writings
  <2> QED BY <1>3, <2>1
<1>7. ToSet(chan'["delayed"]) \subseteq ToSet(chan["delayed"])
  BY <1>1, <1>2, ChannelTakes
<1>8. ToSet(chan'["delayed_out"]) = ToSet(chan["delayed_out"]) \cup ToSet(out)
  BY <1>2, <1>3, ChannelGets
<1>9. \A e \in Channels \ {"delayed", "delayed_out"} : chan'[e] = chan[e]
  BY <1>1 DEF Unmoved
<1>10. Open(s)' => Open(s)
  <2>1. \A e \in Channels : \A m \in ToSet(chan'[e]) : IsRequest(m, s) => Open(s)
    <3>1. \A m \in ToSet(out) : IsRequest(m, s) => Open(s)
      BY <1>3, <1>4 DEF IsRequest
    <3> QED BY <1>7, <1>8, <1>9, <3>1, OpenBy
  <2>2. /\ s \in asking' => Open(s)
        /\ running'[s] # "none" => Open(s)
    BY <1>1, <1>2, <1>4 DEF Open
  <2> QED BY <1>2, <2>1, <2>2, OpenKept
<1>11. (\E m \in ToSet(out) : Finals(m, s)) => ~Open(s)'
  <2>1. (\E m \in ToSet(out) : Finals(m, s)) => DeleteSwap(s) \in ToSet(out)
    BY <1>3 DEF Conclusive
  <2>2. DeleteSwap(s) \in ToSet(chan'["delayed_out"]) => ~Open(s)'
    BY InvClosesAfter DEF RemovalsClose
  <2> QED BY <1>8, <2>1, <2>2
<1>12. (\E m \in ToSet(out) : Finals(m, s)) =>
         \A d \in Outs : <<"delayed_out", d>> \in Ahead => ~HasWrite(s, d)
  <2>1. \A d : <<"delayed_out", d>> \in Ahead => d = "immediate_out"
    BY DEF Ahead
  <2>2. (\E m \in ToSet(out) : Finals(m, s)) => s \in asked
    BY <1>6, Writings
  <2> QED BY <1>5, <2>1, <2>2
<1>13. \A e \in Outs \ {"delayed_out"} : chan'[e] = chan[e]
  BY <1>9 DEF Outs, Channels
<1>14. OneWrite(s, out)
  BY <1>3 DEF Conclusive
<1>15. EndInv(s)'
  BY <1>2, <1>3, <1>4, <1>6, <1>10, <1>11, <1>12, <1>13, <1>14, EndGrows
<1>16. Tellers(s)'
  <2>1. \A m \in ToSet(chan'["delayed_out"]) : Writes(m, s) => Finals(m, s)
    BY <1>3, <1>8 DEF Tellers, OnlyFinals
  <2>2. HasWrite(s, "immediate_out")' <=> HasWrite(s, "immediate_out")
    BY <1>13 DEF HasWrite, Outs
  <2> QED BY <1>2, <2>1, <2>2 DEF Tellers
<1> QED BY <1>15, <1>16

(* A swap that is executed is open, and what it is told is told of an      *)
(* execution.                                                              *)
LEMMA EndExecutes ==
  ASSUME Inv, Inv', ImmediateTakes \/ ImmediateTicks, NEW s \in Swaps, EndInv(s), Tellers(s)
  PROVE  EndInv(s)' /\ Tellers(s)'
<1>1. PICK T \in SUBSET Swaps : \E requested \in [T -> Executable] :
        /\ Unmoved({"immediate", "immediate_out"})
        /\ \/ /\ chan["immediate"] # <<>> /\ chan'["immediate"] = Tail(chan["immediate"])
              /\ \E t \in Swaps : /\ T = {t}
                                  /\ Head(chan["immediate"]) = Request(t, requested[t])
           \/ /\ chan'["immediate"] = chan["immediate"]
              /\ T = {t \in Swaps : running[t] # "none"}
        /\ \E out \in Seq(Carries("immediate_out")) :
             /\ chan'["immediate_out"] = chan["immediate_out"] \o out
             /\ \A m \in ToSet(out) : m.id \in T /\ <<m.id, requested[m.id]>> \in executed'
             /\ Conclusive(out)
        /\ \A t \in Swaps \ T : running'[t] = running[t]
        /\ executed \subseteq executed'
        /\ UNCHANGED <<world, asking, disk>>
  BY ExecuteOutcome DEF Inv
<1>2. PICK requested \in [T -> Executable] :
        /\ \/ /\ chan["immediate"] # <<>> /\ chan'["immediate"] = Tail(chan["immediate"])
              /\ \E t \in Swaps : /\ T = {t}
                                  /\ Head(chan["immediate"]) = Request(t, requested[t])
           \/ /\ chan'["immediate"] = chan["immediate"]
              /\ T = {t \in Swaps : running[t] # "none"}
        /\ \E out \in Seq(Carries("immediate_out")) :
             /\ chan'["immediate_out"] = chan["immediate_out"] \o out
             /\ \A m \in ToSet(out) : m.id \in T /\ <<m.id, requested[m.id]>> \in executed'
             /\ Conclusive(out)
  BY <1>1
<1>3. /\ TypeOK /\ "immediate" \in Channels /\ "immediate_out" \in Channels
      /\ "immediate_out" \in Outs /\ "delayed_out" \in Outs
      /\ UNCHANGED <<posted, asking, receipts>>
  BY <1>1 DEF Inv, Channels, Outs, world, disk, tables
<1>4. PICK out \in Seq(Carries("immediate_out")) :
        /\ chan'["immediate_out"] = chan["immediate_out"] \o out
        /\ \A m \in ToSet(out) : m.id \in T /\ <<m.id, requested[m.id]>> \in executed'
        /\ Conclusive(out)
  BY <1>2
<1>5. s \in T => Open(s)
  <2>1. CASE /\ chan["immediate"] # <<>> /\ chan'["immediate"] = Tail(chan["immediate"])
             /\ \E t \in Swaps : /\ T = {t}
                                 /\ Head(chan["immediate"]) = Request(t, requested[t])
    <3>1. Head(chan["immediate"]) \in ToSet(chan["immediate"])
      BY <1>3, <2>1, ChannelTakes
    <3>2. s \in T => IsRequest(Head(chan["immediate"]), s)
      BY <2>1, MessageFields DEF IsRequest
    <3> QED BY <1>3, <3>1, <3>2, OpenBy
  <2>2. CASE T = {t \in Swaps : running[t] # "none"}
    BY <2>2 DEF Open
  <2> QED BY <1>2, <2>1, <2>2
<1>6. (\E m \in ToSet(out) : Writes(m, s)) => s \in T
  <2>1. \A m : Writes(m, s) => m.id = s
    BY Writings
  <2> QED BY <1>4, <2>1
<1>7. ToSet(chan'["immediate"]) \subseteq ToSet(chan["immediate"])
  BY <1>2, <1>3, ChannelTakes
<1>8. ToSet(chan'["immediate_out"]) = ToSet(chan["immediate_out"]) \cup ToSet(out)
  BY <1>3, <1>4, ChannelGets
<1>9. \A e \in Channels \ {"immediate", "immediate_out"} : chan'[e] = chan[e]
  BY <1>1 DEF Unmoved
<1>10. Open(s)' => Open(s)
  <2>1. \A e \in Channels : \A m \in ToSet(chan'[e]) : IsRequest(m, s) => Open(s)
    <3>1. \A m \in ToSet(out) : IsRequest(m, s) => Open(s)
      BY <1>4, <1>5 DEF IsRequest
    <3> QED BY <1>7, <1>8, <1>9, <3>1, OpenBy
  <2>2. /\ s \in asking' => Open(s)
        /\ running'[s] # "none" => Open(s)
    BY <1>1, <1>3, <1>5 DEF Open
  <2> QED BY <1>3, <2>1, <2>2, OpenKept
<1>11. (\E m \in ToSet(out) : Finals(m, s)) => ~Open(s)'
  <2>1. (\E m \in ToSet(out) : Finals(m, s)) => DeleteSwap(s) \in ToSet(out)
    BY <1>4 DEF Conclusive
  <2>2. DeleteSwap(s) \in ToSet(chan'["immediate_out"]) => ~Open(s)'
    BY InvClosesAfter DEF RemovalsClose
  <2> QED BY <1>8, <2>1, <2>2
<1>12. (\E m \in ToSet(out) : Finals(m, s)) =>
         \A d \in Outs : <<"immediate_out", d>> \in Ahead => ~HasWrite(s, d)
  <2>1. \A d : <<"immediate_out", d>> \in Ahead => d = "delayed_out"
    BY DEF Ahead
  <2>2. HasWrite(s, "delayed_out") => Over(s)
    BY <1>3 DEF Tellers, HasWrite, HasFinal, Over
  <2>3. (\E m \in ToSet(out) : Finals(m, s)) => s \in T
    BY <1>6, Writings
  <2> QED BY <1>5, <2>1, <2>2, <2>3 DEF EndInv
<1>13. \A e \in Outs \ {"immediate_out"} : chan'[e] = chan[e]
  BY <1>9 DEF Outs, Channels
<1>14. OneWrite(s, out)
  BY <1>4 DEF Conclusive
<1>15. EndInv(s)'
  BY <1>3, <1>4, <1>5, <1>6, <1>10, <1>11, <1>12, <1>13, <1>14, EndGrows
<1>16. Tellers(s)'
  <2>1. chan'["delayed_out"] = chan["delayed_out"]
    BY <1>3, <1>13
  <2>2. HasWrite(s, "immediate_out")' => \E blob \in Executable : <<s, blob>> \in executed'
    <3>1. CASE HasWrite(s, "immediate_out")
      BY <1>1, <3>1 DEF Tellers
    <3>2. CASE \E m \in ToSet(out) : Writes(m, s)
      <4>1. PICK m \in ToSet(out) : Writes(m, s)
        BY <3>2
      <4>2. m.id = s
        BY <4>1, Writings
      <4>3. s \in T /\ <<s, requested[s]>> \in executed'
        BY <1>4, <4>1, <4>2
      <4>4. requested[s] \in Executable
        BY <4>3
      <4> QED BY <4>3, <4>4
    <3> QED BY <1>8, <3>1, <3>2 DEF HasWrite
  <2> QED BY <2>1, <2>2 DEF Tellers
<1> QED BY <1>15, <1>16

(* Until a crash, the Bootload finds no swap on disk.                      *)
Fresh == boots = 0 \/ Booting => \A t \in Swaps : pending[t] = "none"

Bootloads == ToSet(chan["wallet"]) \cup ToSet(chan["swapper"])

LEMMA FreshKept ==
  ASSUME Fresh, UNCHANGED boots, Bootload \in Bootloads' => Bootload \in Bootloads,
         \A t \in Swaps : pending'[t] \in {pending[t], "none"}
  PROVE  Fresh'
<1>1. /\ Booting' <=> Bootload \in Bootloads'
      /\ Booting <=> Bootload \in Bootloads
  BY DEF Booting, Bootloads
<1> QED BY <1>1 DEF Fresh

(* A swap is accepted after the Bootload only.                             *)
LEMMA FreshAccepts ==
  ASSUME Inv, NEW c \in {"swapper", "delayed_out"}, SwapperAccepts(c)
  PROVE  Fresh'
<1>1. /\ TypeOK /\ BootloadFirst /\ chan[c] # <<>> /\ chan'[c] = Tail(chan[c]) /\ UNCHANGED boots
      /\ c \in Channels
  BY AcceptsEffect DEF Inv, world, Channels
<1>2. PICK t \in Swaps, blob \in Blobs :
        /\ Head(chan[c]) = Request(t, blob)
        /\ Unmoved({c}) \/ Unmoved({c, Child(blob)})
  BY AcceptsEffect DEF Inv
<1>3. Child(blob) \notin {"wallet", "swapper"}
  BY DEF Child
<1>4. chan'["wallet"] = chan["wallet"] /\ (c # "swapper" => chan'["swapper"] = chan["swapper"])
  BY <1>2, <1>3 DEF Unmoved, Channels
<1>5. boots = 1 /\ Bootload \notin Bootloads'
  <2>1. CASE c = "delayed_out"
    <3>1. c \in Channels \ {"wallet", "swapper", "status"}
      BY <2>1 DEF Channels
    <3>2. boots = 1 /\ \A d \in {"wallet", "swapper"} : Bootload \notin ToSet(chan[d])
      BY <1>1, <3>1, BehindBootload
    <3> QED BY <1>4, <2>1, <3>2 DEF Bootloads
  <2>2. CASE c = "swapper"
    <3>1. OnlyFirst(chan[c]) /\ boots = 1 /\ Bootload \notin ToSet(chan["wallet"])
      BY <1>1, <2>2 DEF BootloadFirst, OnlyFirst
    <3>2. Bootload \notin ToSet(chan'[c])
      BY <1>1, <3>1, ChannelTakes
    <3> QED BY <1>4, <2>2, <3>1, <3>2 DEF Bootloads
  <2> QED BY <2>1, <2>2
<1> QED BY <1>1, <1>5 DEF Fresh, Booting, Bootloads

LEMMA FreshStep ==
  ASSUME SingleBootload, Inv, Fresh, [Next]_vars, ~Crash
  PROVE  Fresh'
<1>1. TypeOK /\ "wallet" \in Channels /\ "swapper" \in Channels
  BY DEF Inv, Channels
<1>2. ASSUME NEW k \in Carries("wallet"), chan' = [chan EXCEPT !["wallet"] = Append(@, k)],
             k # Bootload
      PROVE  Bootload \in Bootloads' => Bootload \in Bootloads
  <2> DEFINE S == Carries("wallet")
  <2>1. chan["wallet"] \in Seq(S) /\ k \in S /\ "wallet" \in DOMAIN chan
    BY <1>1 DEF TypeOK
  <2> HIDE DEF S
  <2>2. Append(chan["wallet"], k) = chan["wallet"] \o <<k>>
    BY <2>1, AppendIsConcat
  <2>3. chan'["wallet"] = chan["wallet"] \o <<k>> /\ chan'["swapper"] = chan["swapper"]
    BY <1>1, <1>2, <2>1, <2>2 DEF TypeOK
  <2>4. ToSet(chan'["wallet"]) = ToSet(chan["wallet"]) \cup {k}
    BY <1>1, <2>3, ChannelGetsOne
  <2> QED BY <1>2, <2>3, <2>4 DEF Bootloads
<1>3. CASE SendBootload
  <2>1. boots = 0 /\ UNCHANGED pending
    BY <1>1, <1>3 DEF SendBootload, SingleBootload, TypeOK, disk, tables
  <2> QED BY <2>1 DEF Fresh
<1>4. ASSUME NEW t \in Swaps, PostSwap(t)
      PROVE  Fresh'
  <2>1. /\ Request(t, Posted(t)) \in Carries("wallet") /\ Request(t, Posted(t)) # Bootload
        /\ chan' = [chan EXCEPT !["wallet"] = Append(@, Request(t, Posted(t)))]
        /\ UNCHANGED <<boots, pending>>
    BY <1>4, Carried, MessageFields DEF PostSwap, disk, tables
  <2> QED BY <1>2, <2>1, FreshKept
<1>5. CASE WalletRoutes
  <2>1. /\ chan["wallet"] # <<>> /\ chan'["wallet"] = Tail(chan["wallet"])
        /\ UNCHANGED <<boots, pending>>
    BY <1>1, <1>5, RoutesEffect DEF world, disk, tables
  <2>2. \E k \in Carries("swapper") :
          /\ Head(chan["wallet"]) = k /\ chan'["swapper"] = chan["swapper"] \o <<k>>
    BY <1>1, <1>5, RoutesEffect, Carried
  <2>3. /\ ToSet(chan'["wallet"]) \subseteq ToSet(chan["wallet"])
        /\ Head(chan["wallet"]) \in ToSet(chan["wallet"])
    BY <1>1, <2>1, ChannelTakes
  <2>4. ToSet(chan'["swapper"]) = ToSet(chan["swapper"]) \cup {Head(chan["wallet"])}
    BY <1>1, <2>2, ChannelGetsOne
  <2>5. Bootload \in Bootloads' => Bootload \in Bootloads
    BY <2>3, <2>4 DEF Bootloads
  <2> QED BY <2>1, <2>5, FreshKept
<1>6. CASE SwapperBootloads
  <2>1. /\ chan["swapper"] # <<>> /\ UNCHANGED <<boots, pending>>
    BY <1>6 DEF SwapperBootloads, Takes, world, disk, tables
  <2>2. chan'["swapper"] = Tail(chan["swapper"]) /\ chan'["wallet"] = chan["wallet"]
    <3>1. CASE \E order \in SetToSeqs({t \in Swaps : pending[t] # "none"}) : Resend(order)
      <4>1. /\ chan'["swapper"] = Tail(chan["swapper"])
            /\ Unmoved({"swapper", "swapper_out", "delayed", "immediate"})
        BY <1>1, <2>1, <3>1, ResendEffect
      <4> QED BY <1>1, <4>1 DEF Unmoved
    <3>2. CASE Done("swapper", Nothing)
      <4>1. Unmoved({"swapper"}) /\ chan'["swapper"] = Tail(chan["swapper"])
        BY <1>1, <2>1, <3>2, DropsEffect
      <4> QED BY <1>1, <4>1 DEF Unmoved
    <3> QED BY <1>6, <3>1, <3>2 DEF SwapperBootloads
  <2>3. ToSet(chan'["swapper"]) \subseteq ToSet(chan["swapper"])
    BY <1>1, <2>1, <2>2, ChannelTakes
  <2>4. Bootload \in Bootloads' => Bootload \in Bootloads
    BY <2>2, <2>3 DEF Bootloads
  <2> QED BY <2>1, <2>4, FreshKept
<1>7. ASSUME NEW M \in SUBSET (Channels \ {"wallet", "swapper"}), Unmoved(M), UNCHANGED boots,
             \A t \in Swaps : pending'[t] \in {pending[t], "none"}
      PROVE  Fresh'
  <2>1. chan'["wallet"] = chan["wallet"] /\ chan'["swapper"] = chan["swapper"]
    BY <1>1, <1>7 DEF Unmoved
  <2>2. Bootload \in Bootloads' => Bootload \in Bootloads
    BY <2>1 DEF Bootloads
  <2> QED BY <1>7, <2>2, FreshKept
<1>8. CASE WalletForwards
  <2>1. /\ {"swapper_out", "status"} \in SUBSET (Channels \ {"wallet", "swapper"})
        /\ Unmoved({"swapper_out", "status"}) /\ UNCHANGED <<boots, pending>>
    BY <1>1, <1>8, WalletForwardsEffect DEF world, disk, tables, Channels
  <2> QED BY <1>7, <2>1
<1>9. CASE StatusStores
  <2>1. /\ {"status"} \in SUBSET (Channels \ {"wallet", "swapper"})
        /\ Unmoved({"status"}) /\ UNCHANGED <<boots, pending>>
    BY <1>1, <1>9, StoresEffect DEF world, tables, Channels
  <2> QED BY <1>7, <2>1
<1>10. ASSUME NEW c \in {"immediate_out", "delayed_out"}, SwapperForwards(c)
       PROVE  Fresh'
  <2>1. /\ {c, "swapper_out"} \in SUBSET (Channels \ {"wallet", "swapper"})
        /\ Unmoved({c, "swapper_out"}) /\ UNCHANGED <<boots, pending>>
    BY <1>1, <1>10, SwapperForwardsEffect DEF world, disk, tables, Channels
  <2> QED BY <1>7, <2>1
<1>11. ASSUME NEW c \in {"immediate_out", "delayed_out"}, SwapperDeletes(c)
       PROVE  Fresh'
  <2>1. /\ {c} \in SUBSET (Channels \ {"wallet", "swapper"})
        /\ Unmoved({c}) /\ UNCHANGED boots
    BY <1>1, <1>11, DeletesEffect DEF world, Channels
  <2>2. \A t \in Swaps : pending'[t] \in {pending[t], "none"}
    <3>1. DOMAIN pending = Swaps
      BY <1>1 DEF TypeOK
    <3>2. \E s \in Swaps : pending' = [pending EXCEPT ![s] = "none"] \/ UNCHANGED pending
      BY <1>1, <1>11, DeletesEffect
    <3> QED BY <3>1, <3>2
  <2> QED BY <1>7, <2>1, <2>2
<1>12. CASE DelayedTakes \/ DelayedTicks
  <2>1. /\ {"delayed", "delayed_out"} \in SUBSET (Channels \ {"wallet", "swapper"})
        /\ Unmoved({"delayed", "delayed_out"}) /\ UNCHANGED <<boots, pending>>
    BY <1>1, <1>12, AskOutcome DEF world, disk, tables, Channels
  <2> QED BY <1>7, <2>1
<1>13. CASE ImmediateTakes \/ ImmediateTicks
  <2>1. /\ {"immediate", "immediate_out"} \in SUBSET (Channels \ {"wallet", "swapper"})
        /\ Unmoved({"immediate", "immediate_out"}) /\ UNCHANGED <<boots, pending>>
    BY <1>1, <1>13, ExecuteOutcome DEF world, disk, tables, Channels
  <2> QED BY <1>7, <2>1
<1>14. CASE UNCHANGED vars
  BY <1>14 DEF vars, Fresh, Booting
<1>15. CASE \E c \in {"swapper", "delayed_out"} : SwapperAccepts(c)
  BY <1>15, FreshAccepts
<1> QED BY <1>3, <1>4, <1>5, <1>6, <1>8, <1>9, <1>10, <1>11, <1>12, <1>13, <1>14, <1>15
        DEF Next, Tasks

(* With one Bootload per start, and until a crash, a final status is never *)
(* overwritten by an older one (StatusStores), although a status passes up *)
(* to three of four channels on its way from the task that tells it.       *)
THEOREM FinalIsLast ==
  ASSUME SingleBootload
  PROVE  Spec => FinalStays
<1> DEFINE Ending == Fresh /\ \A s \in Swaps : EndInv(s) /\ Tellers(s)
           FInv == Inv /\ (crashes = 0 => Ending)
           Kept == crashes = 0 => \A s \in Swaps : receipts[s].status \in Final =>
                     receipts'[s].status = receipts[s].status
<1>1. Init => FInv
  <2>1. Init => Inv /\ Fresh
    BY InvInit DEF Init, Fresh
  <2> SUFFICES ASSUME Init, NEW s \in Swaps
               PROVE  EndInv(s) /\ Tellers(s)
    BY <2>1
  <2>2. \A c \in Channels : DOMAIN chan[c] = {}
    BY SmallSeqs DEF Init
  <2>3. \A c \in Outs : DOMAIN chan[c] = {} /\ ToSet(chan[c]) = {}
    BY <2>2 DEF ToSet, Outs, Channels
  <2>4. \A c \in Outs : ~HasWrite(s, c) /\ ~HasFinal(s, c) /\ FinalLast(s, chan[c])
    BY <2>3 DEF HasWrite, HasFinal, FinalLast
  <2>5. receipts[s].status \notin Final
    BY DEF Init, NoReceipt, Final
  <2>6. ~Over(s)
    BY <2>4, <2>5 DEF Over
  <2>7. EndInv(s)
    BY <2>4, <2>6 DEF EndInv
  <2>8. Tellers(s)
    BY <2>3, <2>4 DEF Tellers, Outs
  <2> QED BY <2>7, <2>8
<1>2. FInv /\ [Next]_vars => FInv'
  <2> SUFFICES ASSUME FInv, [Next]_vars
               PROVE  FInv'
    OBVIOUS
  <2>1. Inv /\ Inv' /\ TypeOK
    BY InvStep DEF Inv
  <2>2. ASSUME crashes' = 0
        PROVE  Ending'
    <3>1. crashes = 0 /\ ~Crash
      <4>1. crashes \in Nat /\ ~Crash
        BY <2>1, <2>2 DEF TypeOK, Crash
      <4>2. UNCHANGED crashes
        BY <2>1, <4>1, StepsKeepCrashes
      <4> QED BY <2>2, <4>1, <4>2
    <3>2. Fresh'
      BY <2>1, <3>1, FreshStep
    <3>3. ASSUME NEW s \in Swaps
          PROVE  EndInv(s)' /\ Tellers(s)'
      <4>1. EndInv(s) /\ Tellers(s) /\ Fresh
        BY <3>1
      <4>2. CASE SendBootload \/ \E t \in Swaps : PostSwap(t)
        BY <2>1, <4>1, <4>2, EndOutside
      <4>3. CASE WalletRoutes \/ StatusStores
        BY <2>1, <4>1, <4>3, EndRoutes, EndStores
      <4>4. CASE WalletForwards
        <5> DEFINE c == "swapper_out"
                   d == "status"
        <5>1. /\ c \in {"swapper_out", "immediate_out", "delayed_out"}
              /\ d \in {"status", "swapper_out"} /\ (c = "swapper_out" <=> d = "status")
              /\ IF c = "swapper_out" THEN WalletForwards ELSE SwapperForwards(c)
          BY <4>4
        <5> HIDE DEF c, d
        <5> QED BY <2>1, <4>1, <5>1, EndForwards
      <4>5. ASSUME NEW c \in {"immediate_out", "delayed_out"}, SwapperForwards(c)
            PROVE  EndInv(s)' /\ Tellers(s)'
        <5> DEFINE d == "swapper_out"
        <5>1. /\ c \in {"swapper_out", "immediate_out", "delayed_out"}
              /\ d \in {"status", "swapper_out"} /\ (c = "swapper_out" <=> d = "status")
              /\ IF c = "swapper_out" THEN WalletForwards ELSE SwapperForwards(c)
          BY <4>5
        <5> HIDE DEF d
        <5> QED BY <2>1, <4>1, <5>1, EndForwards
      <4>6. CASE SwapperBootloads
        <5>1. Bootload \in ToSet(chan["swapper"])
          <6>1. chan["swapper"] # <<>> /\ Head(chan["swapper"]) = Bootload
            BY <4>6 DEF SwapperBootloads, Takes
          <6> DEFINE S == Carries("swapper")
                     q == chan["swapper"]
          <6>2. q \in Seq(S) /\ q # <<>> /\ Head(q) = Bootload
            BY <2>1, <6>1 DEF TypeOK, Channels
          <6> HIDE DEF S, q
          <6>3. Bootload \in ToSet(q)
            BY <6>2, TailSet
          <6> QED BY <6>3 DEF q
        <5>2. \A t \in Swaps : pending[t] = "none"
          BY <4>1, <5>1 DEF Fresh, Booting
        <5> QED BY <2>1, <4>1, <4>6, <5>2, EndBoots
      <4>7. CASE \E c \in {"swapper", "delayed_out"} : SwapperAccepts(c)
        BY <2>1, <4>1, <4>7, EndAccepts
      <4>8. CASE \E c \in {"immediate_out", "delayed_out"} : SwapperDeletes(c)
        BY <2>1, <4>1, <4>8, EndDeletes
      <4>9. CASE DelayedTakes \/ DelayedTicks
        BY <2>1, <4>1, <4>9, EndAsks
      <4>10. CASE ImmediateTakes \/ ImmediateTicks
        BY <2>1, <4>1, <4>10, EndExecutes
      <4>11. CASE UNCHANGED vars
        BY <4>1, <4>11 DEF vars, EndInv, Tellers, Over, Open, HasWrite, HasFinal
      <4> QED BY <3>1, <4>2, <4>3, <4>4, <4>5, <4>6, <4>7, <4>8, <4>9, <4>10, <4>11
              DEF Next, Tasks
    <3> QED BY <3>2, <3>3
  <2> QED BY <2>1, <2>2
<1>3. FInv /\ [Next]_vars => Kept
  <2> SUFFICES ASSUME FInv, [Next]_vars, crashes = 0, NEW s \in Swaps, receipts[s].status \in Final
               PROVE  receipts'[s].status = receipts[s].status
    OBVIOUS
  <2>1. TypeOK /\ EndInv(s)
    BY DEF Inv
  <2>2. CASE StatusStores
    <3> DEFINE S == Carries("status")
               q == chan["status"]
    <3>1. q \in Seq(S) /\ q # <<>> /\ ~HasWrite(s, "status")
      BY <2>1, <2>2, StoresEffect DEF TypeOK, Channels, EndInv, Outs
    <3>2. ~Writes(Head(q), s)
      <4> HIDE DEF S
      <4>1. Head(q) \in ToSet(q)
        BY <3>1, TailSet
      <4> QED BY <3>1, <4>1 DEF HasWrite
    <3> QED BY <2>1, <2>2, <3>2, StatusStored
  <2>3. CASE Crash \/ SendBootload \/ \E t \in Swaps : PostSwap(t)
    BY <2>3 DEF Crash, SendBootload, PostSwap, disk, tables
  <2>4. CASE WalletRoutes \/ WalletForwards \/ SwapperBootloads
    BY <2>4 DEF WalletRoutes, WalletForwards, SwapperBootloads, disk, tables
  <2>5. CASE \/ \E c \in {"swapper", "delayed_out"} : SwapperAccepts(c)
             \/ \E c \in {"immediate_out", "delayed_out"} : SwapperForwards(c) \/ SwapperDeletes(c)
    BY <2>5 DEF SwapperAccepts, SwapperForwards, SwapperDeletes, disk, tables
  <2>6. CASE DelayedTakes \/ DelayedTicks
    BY <2>1, <2>6, AskOutcome DEF disk, tables
  <2>7. CASE ImmediateTakes \/ ImmediateTicks
    BY <2>1, <2>7, ExecuteOutcome DEF disk, tables
  <2>8. CASE UNCHANGED vars
    BY <2>8 DEF vars
  <2> QED BY <2>2, <2>3, <2>4, <2>5, <2>6, <2>7, <2>8 DEF Next, Tasks
<1> QED BY <1>1, <1>2, <1>3, PTL DEF Spec, FinalStays
=============================================================================
