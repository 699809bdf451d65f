-------------------------- MODULE FlattenTheorems --------------------------
(***************************************************************************)
(* Facts about the concatenation of a sequence of sequences, by induction  *)
(* on its length: a smallest counterexample is not there.                  *)
(***************************************************************************)
EXTENDS SequencesExt, SequenceTheorems, FiniteSetTheorems, TLAPS

(* A set of natural numbers that is not empty has a least one: no set      *)
(* 1..n is contained in infinitely many smaller ones.                      *)
LEMMA Least ==
  ASSUME NEW T \in SUBSET Nat, T # {}
  PROVE  \E n \in T : \A k \in T : n <= k
<1> DEFINE Below == {1..n : n \in T}
           R == StrictSubsetOrdering(Nat)
<1>1. IsWellFoundedOn(R, FiniteSubsetsOf(Nat))
  BY FS_StrictSubsetOrderingWellFounded
<1>2. Below \subseteq FiniteSubsetsOf(Nat)
  BY FS_Interval DEF FiniteSubsetsOf
<1>3. Below # {}
  OBVIOUS
<1>4. PICK B \in Below : \A A \in Below : <<A, B>> \notin R
  <2> HIDE DEF Below, R
  <2> QED BY <1>1, <1>2, <1>3, WFMin
<1>5. PICK n \in T : B = 1..n
  OBVIOUS
<1>6. ASSUME NEW k \in T, k < n PROVE FALSE
  <2>1. 1..k \in Below /\ 1..n \in Below /\ 1..k \in SUBSET Nat /\ 1..n \in SUBSET Nat
    OBVIOUS
  <2>2. 1..k \subseteq 1..n
    BY <1>6
  <2>3. n \in 1..n /\ n \notin 1..k
    BY <1>6
  <2>4. <<1..k, 1..n>> \in R
    BY <2>1, <2>2, <2>3 DEF StrictSubsetOrdering
  <2> QED BY <1>4, <1>5, <2>1, <2>4
<1> QED BY <1>6

(* f[i] is the concatenation of the first i sequences.                     *)
Concatenates(f, seqs, n) ==
  \A i \in 1..n : f[i] = IF i = 1 THEN seqs[i] ELSE f[i-1] \o seqs[i]

LEMMA PrefixesExist ==
  ASSUME NEW S, NEW seqs \in Seq(Seq(S))
  PROVE  \E f \in [1..Len(seqs) -> Seq(S)] : Concatenates(f, seqs, Len(seqs))
<1> DEFINE Good(n) == \E f \in [1..n -> Seq(S)] : Concatenates(f, seqs, n)
           Bad == {n \in Nat : n <= Len(seqs) /\ ~Good(n)}
<1>1. Len(seqs) \in Nat /\ \A i \in 1..Len(seqs) : seqs[i] \in Seq(S)
  BY LenProperties, ElementOfSeq
<1>2. Good(0)
  <2>1. [i \in 1..0 |-> <<>>] \in [1..0 -> Seq(S)]
    BY EmptySeq
  <2>2. Concatenates([i \in 1..0 |-> <<>>], seqs, 0)
    BY DEF Concatenates
  <2> QED BY <2>1, <2>2
<1>3. ASSUME NEW n \in Nat, n + 1 <= Len(seqs), Good(n)
      PROVE  Good(n + 1)
  <2>1. PICK f \in [1..n -> Seq(S)] : Concatenates(f, seqs, n)
    BY <1>3
  <2> DEFINE next == IF n = 0 THEN seqs[1] ELSE f[n] \o seqs[n + 1]
             g == [i \in 1..(n + 1) |-> IF i = n + 1 THEN next ELSE f[i]]
  <2>2. next \in Seq(S)
    BY <1>1, <1>3, ConcatProperties
  <2>3. g \in [1..(n + 1) -> Seq(S)]
    BY <2>2
  <2>4. Concatenates(g, seqs, n + 1)
    <3> HIDE DEF next
    <3>1. SUFFICES ASSUME NEW i \in 1..(n + 1)
                   PROVE  g[i] = IF i = 1 THEN seqs[i] ELSE g[i-1] \o seqs[i]
      BY DEF Concatenates
    <3>2. CASE i = n + 1
      <4>1. g[i] = next
        BY <3>2
      <4>2. n # 0 => g[i - 1] = f[n]
        BY <3>2
      <4> QED BY <3>2, <4>1, <4>2 DEF next
    <3>3. CASE i # n + 1
      <4>1. i \in 1..n /\ g[i] = f[i]
        BY <3>3
      <4>2. i # 1 => g[i - 1] = f[i - 1]
        BY <3>3
      <4> QED BY <2>1, <4>1, <4>2 DEF Concatenates
    <3> QED BY <3>2, <3>3
  <2> HIDE DEF g
  <2> QED BY <2>3, <2>4
<1> HIDE DEF Good
<1>4. ASSUME Bad # {} PROVE FALSE
  <2>1. PICK n \in Bad : \A k \in Bad : n <= k
    BY <1>4, Least
  <2>2. n # 0
    BY <1>2
  <2>3. n - 1 \in Nat /\ n - 1 <= Len(seqs) /\ n - 1 \notin Bad
    BY <1>1, <2>1, <2>2
  <2>4. Good(n - 1)
    BY <2>3
  <2>5. Good((n - 1) + 1)
    BY <1>1, <1>3, <2>3, <2>4
  <2> QED BY <2>5
<1>5. Good(Len(seqs))
  BY <1>1, <1>4
<1> QED BY <1>5 DEF Good

LEMMA FlattenIsLast ==
  ASSUME NEW S, NEW seqs \in Seq(Seq(S)), seqs # <<>>
  PROVE  \E f \in [1..Len(seqs) -> Seq(S)] :
           Concatenates(f, seqs, Len(seqs)) /\ FlattenSeq(seqs) = f[Len(seqs)]
<1> DEFINE Step(f) == [i \in 1..Len(seqs) |->
                        IF i = 1 THEN seqs[i] ELSE f[i-1] \o seqs[i]]
           flatten == CHOOSE f : f = Step(f)
<1>1. Len(seqs) \in Nat \ {0}
  BY LenProperties, EmptySeq
<1>2. PICK f \in [1..Len(seqs) -> Seq(S)] : Concatenates(f, seqs, Len(seqs))
  BY PrefixesExist
<1>3. f = Step(f)
  BY <1>2 DEF Concatenates
<1>4. flatten = Step(flatten)
  BY <1>3
<1> HIDE DEF flatten
<1>5. \A i \in 1..Len(seqs) :
        flatten[i] = IF i = 1 THEN seqs[i] ELSE flatten[i-1] \o seqs[i]
  BY <1>4
<1>6. ASSUME NEW j \in 1..Len(seqs), flatten[j] # f[j] PROVE FALSE
  <2> DEFINE T == {i \in 1..Len(seqs) : flatten[i] # f[i]}
  <2>0. j \in T /\ T \in SUBSET Nat
    BY <1>1, <1>6
  <2>1. PICK i \in T : \A k \in T : i <= k
    <3> HIDE DEF T
    <3> QED BY <2>0, Least
  <2>2. i # 1
    BY <1>1, <1>2, <1>5 DEF Concatenates
  <2>3. i - 1 \in 1..Len(seqs) /\ i - 1 \notin T
    BY <1>1, <2>1, <2>2
  <2> QED BY <1>2, <1>5, <2>2, <2>3 DEF Concatenates
<1>7. FlattenSeq(seqs) = flatten[Len(seqs)]
  BY <1>1 DEF FlattenSeq, flatten
<1>8. flatten[Len(seqs)] = f[Len(seqs)]
  BY <1>1, <1>6
<1> QED BY <1>2, <1>7, <1>8
-----------------------------------------------------------------------------
(* Spots: at[k] = <<i, j>> says that the k-th element of flat is the j-th *)
(* of seqs[i], for the first n of seqs.                                    *)
Before(p, q) == p[1] < q[1] \/ (p[1] = q[1] /\ p[2] < q[2])

Spots(at, flat, seqs, n) ==
  /\ \A k \in 1..Len(flat) :
       /\ at[k] \in (1..n) \X Nat
       /\ at[k][2] \in 1..Len(seqs[at[k][1]])
       /\ flat[k] = seqs[at[k][1]][at[k][2]]
  /\ \A k, m \in 1..Len(flat) : k < m => Before(at[k], at[m])
  /\ \A i \in 1..n : \A j \in 1..Len(seqs[i]) :
       \E k \in 1..Len(flat) : at[k] = <<i, j>>

LEMMA SpotsOfConcat ==
  ASSUME NEW S, NEW seqs \in Seq(Seq(S)), NEW n \in 0..(Len(seqs) - 1),
         NEW flat \in Seq(S), NEW at, Spots(at, flat, seqs, n)
  PROVE  \E more : Spots(more, flat \o seqs[n + 1], seqs, n + 1)
<1> DEFINE next == seqs[n + 1]
           all  == flat \o next
           more == [k \in 1..Len(all) |->
                      IF k <= Len(flat) THEN at[k] ELSE <<n + 1, k - Len(flat)>>]
<1>1. /\ Len(seqs) \in Nat /\ n \in Nat /\ n + 1 \in 1..Len(seqs)
      /\ \A i \in 1..Len(seqs) : seqs[i] \in Seq(S) /\ Len(seqs[i]) \in Nat
  BY LenProperties, ElementOfSeq
<1>2. /\ Len(flat) \in Nat /\ Len(next) \in Nat /\ Len(all) = Len(flat) + Len(next)
      /\ \A k \in 1..Len(flat) : all[k] = flat[k]
      /\ \A k \in 1..Len(next) : all[Len(flat) + k] = next[k]
  BY <1>1, LenProperties, ConcatProperties
<1>3. ASSUME NEW k \in 1..Len(all)
      PROVE  /\ more[k] \in (1..(n + 1)) \X Nat
             /\ more[k][2] \in 1..Len(seqs[more[k][1]])
             /\ all[k] = seqs[more[k][1]][more[k][2]]
  <2>1. CASE k <= Len(flat)
    <3>1. k \in 1..Len(flat) /\ more[k] = at[k] /\ all[k] = flat[k]
      BY <1>2, <2>1
    <3>2. /\ at[k] \in (1..n) \X Nat
          /\ at[k][2] \in 1..Len(seqs[at[k][1]])
          /\ flat[k] = seqs[at[k][1]][at[k][2]]
      BY <3>1 DEF Spots
    <3>3. at[k] \in (1..(n + 1)) \X Nat
      BY <1>1, <3>2
    <3> HIDE DEF more, all
    <3> QED BY <3>1, <3>2, <3>3
  <2>2. CASE k > Len(flat)
    <3> DEFINE j == k - Len(flat)
    <3>1. j \in 1..Len(next) /\ k = Len(flat) + j
      BY <1>2, <2>2
    <3>2. more[k] = <<n + 1, j>>
      BY <1>2, <2>2
    <3>3. all[k] = next[j]
      BY <1>2, <3>1
    <3>4. n + 1 \in 1..(n + 1) /\ j \in Nat
      BY <1>1, <1>2, <3>1
    <3>5. <<n + 1, j>> \in (1..(n + 1)) \X Nat
      BY <3>4
    <3>6. <<n + 1, j>>[1] = n + 1 /\ <<n + 1, j>>[2] = j
      OBVIOUS
    <3> HIDE DEF more, all, j
    <3> QED BY <3>1, <3>2, <3>3, <3>5, <3>6
  <2>3. k <= Len(flat) \/ k > Len(flat)
    BY <1>2
  <2> HIDE DEF more, all
  <2> QED BY <2>1, <2>2, <2>3
<1>4. ASSUME NEW k \in 1..Len(all), NEW m \in 1..Len(all), k < m
      PROVE  Before(more[k], more[m])
  <2>1. CASE m <= Len(flat)
    <3>1. k \in 1..Len(flat) /\ m \in 1..Len(flat) /\ more[k] = at[k] /\ more[m] = at[m]
      BY <1>2, <1>4, <2>1
    <3> QED BY <1>4, <3>1 DEF Spots
  <2>2. CASE m > Len(flat) /\ k <= Len(flat)
    <3>1. k \in 1..Len(flat) /\ more[k] = at[k] /\ more[m] = <<n + 1, m - Len(flat)>>
      BY <1>2, <1>4, <2>2
    <3>2. at[k][1] \in 1..n
      BY <3>1 DEF Spots
    <3> QED BY <1>1, <3>1, <3>2 DEF Before
  <2>3. CASE k > Len(flat)
    <3>1. more[k] = <<n + 1, k - Len(flat)>> /\ more[m] = <<n + 1, m - Len(flat)>>
      BY <1>2, <1>4, <2>3
    <3>2. k - Len(flat) < m - Len(flat)
      BY <1>2, <1>4
    <3> HIDE DEF more, all
    <3> QED BY <3>1, <3>2 DEF Before
  <2>4. k <= Len(flat) \/ k > Len(flat)
    BY <1>2
  <2>5. m <= Len(flat) \/ m > Len(flat)
    BY <1>2
  <2> HIDE DEF more, all
  <2> QED BY <2>1, <2>2, <2>3, <2>4, <2>5
<1>5. ASSUME NEW i \in 1..(n + 1), NEW j \in 1..Len(seqs[i])
      PROVE  \E k \in 1..Len(all) : more[k] = <<i, j>>
  <2>1. CASE i \in 1..n
    <3>1. PICK k \in 1..Len(flat) : at[k] = <<i, j>>
      BY <2>1 DEF Spots
    <3>2. k \in 1..Len(all) /\ k <= Len(flat)
      BY <1>2, <3>1
    <3>3. more[k] = at[k]
      BY <3>2
    <3> HIDE DEF more, all
    <3> QED BY <3>1, <3>2, <3>3
  <2>2. CASE i = n + 1
    <3>1. j \in 1..Len(next)
      BY <2>2
    <3>2. Len(flat) + j \in 1..Len(all) /\ ~(Len(flat) + j <= Len(flat))
      BY <1>2, <3>1
    <3>3. more[Len(flat) + j] = <<n + 1, (Len(flat) + j) - Len(flat)>>
      BY <3>2
    <3>4. (Len(flat) + j) - Len(flat) = j
      BY <1>2, <3>1
    <3> HIDE DEF more, all
    <3> QED BY <2>2, <3>2, <3>3, <3>4
  <2>3. i \in 1..n \/ i = n + 1
    BY <1>1
  <2> QED BY <2>1, <2>2, <2>3
<1> HIDE DEF all, more
<1>6. Spots(more, all, seqs, n + 1)
  BY <1>3, <1>4, <1>5 DEF Spots
<1> QED BY <1>6 DEF all

(* FlattenSeq concatenates: its elements are those of the sequences, each  *)
(* as often and in the same order.                                         *)
THEOREM FlattenProperties ==
  ASSUME NEW S, NEW seqs \in Seq(Seq(S))
  PROVE  /\ FlattenSeq(seqs) \in Seq(S)
         /\ \E at : Spots(at, FlattenSeq(seqs), seqs, Len(seqs))
<1>1. Len(seqs) \in Nat /\ \A i \in 1..Len(seqs) : seqs[i] \in Seq(S)
  BY LenProperties, ElementOfSeq
<1>2. ASSUME NEW at PROVE Spots(at, <<>>, seqs, 0)
  BY EmptySeq DEF Spots
<1>3. CASE seqs = <<>>
  <2>1. FlattenSeq(seqs) = <<>> /\ Len(seqs) = 0
    BY <1>3, EmptySeq DEF FlattenSeq
  <2> QED BY <1>2, <2>1, EmptySeq
<1>4. CASE seqs # <<>>
  <2>1. PICK f \in [1..Len(seqs) -> Seq(S)] :
          Concatenates(f, seqs, Len(seqs)) /\ FlattenSeq(seqs) = f[Len(seqs)]
    BY <1>4, FlattenIsLast
  <2>0. \A i \in 1..Len(seqs) : f[i] \in Seq(S)
    OBVIOUS
  <2> DEFINE Good(n) == \E at : Spots(at, f[n], seqs, n)
             Bad == {n \in 1..Len(seqs) : ~Good(n)}
  <2>2. ASSUME Bad # {} PROVE FALSE
    <3>0. Bad \in SUBSET Nat
      OBVIOUS
    <3>1. PICK n \in Bad : \A k \in Bad : n <= k
      <4> HIDE DEF Bad
      <4> QED BY <2>2, <3>0, Least
    <3>2. n \in 1..Len(seqs) /\ ~Good(n)
      OBVIOUS
    <3>3. CASE n = 1
      <4>1. 1 \in 1..Len(seqs) /\ f[1] = seqs[1] /\ <<>> \o seqs[1] = seqs[1] /\ 0 + 1 = 1
        <5>1. 1 \in 1..Len(seqs)
          BY <1>1, <3>2, <3>3
        <5>2. seqs[1] \in Seq(S)
          BY <1>1, <5>1
        <5>3. <<>> \o seqs[1] = seqs[1]
          BY <5>2, ConcatEmptySeq
        <5>4. f[1] = seqs[1]
          BY <2>1, <5>1 DEF Concatenates
        <5> HIDE DEF Bad
        <5> QED BY <5>1, <5>3, <5>4
      <4>2. 0 \in 0..(Len(seqs) - 1) /\ <<>> \in Seq(S)
        BY <1>1, <4>1, EmptySeq
      <4>3. \E at : Spots(at, <<>> \o seqs[0 + 1], seqs, 0 + 1)
        BY <1>2, <4>2, SpotsOfConcat
      <4> QED BY <3>2, <3>3, <4>1, <4>3
    <3>4. CASE n # 1
      <4>1. n - 1 \in 1..Len(seqs) /\ n - 1 \notin Bad /\ (n - 1) + 1 = n
        <5>1. n \in Nat /\ n - 1 \in 1..Len(seqs) /\ ~(n <= n - 1)
          BY <1>1, <3>2, <3>4
        <5> HIDE DEF Bad
        <5> QED BY <3>1, <5>1
      <4>2. PICK at : Spots(at, f[n - 1], seqs, n - 1)
        BY <4>1
      <4>3. f[n] = f[n - 1] \o seqs[(n - 1) + 1]
        BY <2>1, <3>4, <4>1 DEF Concatenates
      <4>4. n - 1 \in 0..(Len(seqs) - 1) /\ f[n - 1] \in Seq(S)
        BY <1>1, <2>0, <4>1
      <4>5. \E more : Spots(more, f[n - 1] \o seqs[(n - 1) + 1], seqs, (n - 1) + 1)
        BY <4>2, <4>4, SpotsOfConcat
      <4> QED BY <3>2, <4>1, <4>3, <4>5
    <3> QED BY <3>3, <3>4
  <2>3. Len(seqs) \in 1..Len(seqs)
    BY <1>1, <1>4, EmptySeq
  <2> QED BY <2>1, <2>2, <2>3
<1> QED BY <1>3, <1>4
=============================================================================
