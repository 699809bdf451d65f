--------------------------- MODULE Callback_proofs --------------------------
(* What an accepted answer of the callback server guarantees, for every    *)
(* offer and every answer.                                                 *)
EXTENDS Callback, TLAPS

(* Products in the order of their factors.                                 *)
LEMMA LeftFactor ==
  ASSUME NEW a \in Int, NEW b \in Int, NEW k \in Int, k > 0, a * k >= b * k
  PROVE  a >= b
<1> SUFFICES ASSUME a < b PROVE FALSE
  OBVIOUS
<1>1. (b - a) * k > 0
  OBVIOUS
<1>2. (b - a) * k = b * k - a * k
  OBVIOUS
<1> QED
  BY <1>1, <1>2

LEMMA SmallerFactor ==
  ASSUME NEW a \in Int, NEW b \in Int, NEW k \in Int, k >= 0, a <= b
  PROVE  k * a <= k * b
<1>1. k * (b - a) >= 0
  OBVIOUS
<1>2. k * (b - a) = k * b - k * a
  OBVIOUS
<1> QED
  BY <1>1, <1>2

(* A fill that verifyDelaySwap (adapter/callback/callback.go:55) accepts is *)
(* fair, for every offer of a positive amount: the cross-multiplied prices *)
(* and the bounds are enough for it.                                       *)
THEOREM FairFill ==
  ASSUME NEW partial \in BlobTerms, NEW filled \in BlobTerms,
         VerifyDelaySwap(partial, filled), partial.send.value > 0
  PROVE  Fair(partial, filled)
<1> DEFINE offer == partial.send.value
           ask   == partial.receive.value
           gives == filled.send.value
           gets  == filled.receive.value
<1>1. offer \in Int /\ ask \in Int /\ gives \in Int /\ gets \in Int
  BY DEF BlobTerms, Parsed
<1>2. gives <= offer /\ (partial.minReceive.ok => gets >= partial.minReceive.value)
  BY DEF VerifyDelaySwap, WithinBounds, Minimum
<1>3. gets * offer >= ask * gives
  BY DEF VerifyDelaySwap, Favourable
<1>4. ASSUME gives = offer PROVE gets >= ask
  <2>1. gets * offer >= ask * offer
    BY <1>3, <1>4
  <2> QED
    BY <1>1, <2>1, LeftFactor
<1> QED
  BY <1>2, <1>4 DEF Fair

(* Whatever is accepted, the user does not pay for nothing: a fill of a    *)
(* positive amount, for an offer with a positive price, brings something.  *)
THEOREM NothingForNothing ==
  ASSUME NEW partial \in BlobTerms, NEW filled \in BlobTerms,
         VerifyDelaySwap(partial, filled),
         partial.send.value > 0, partial.receive.value > 0, filled.send.value > 0
  PROVE  filled.receive.value > 0
<1> DEFINE offer == partial.send.value
           ask   == partial.receive.value
           gives == filled.send.value
           gets  == filled.receive.value
<1>1. offer \in Int /\ ask \in Int /\ gives \in Int /\ gets \in Int
  BY DEF BlobTerms, Parsed
<1>2. gets * offer >= ask * gives
  BY DEF VerifyDelaySwap, Favourable
<1>3. ask * gives > 0
  BY <1>1
<1> SUFFICES ASSUME gets <= 0 PROVE FALSE
  BY <1>1
<1>4. offer * gets <= offer * 0
  BY <1>1, SmallerFactor
<1> QED
  BY <1>1, <1>2, <1>3, <1>4
=============================================================================
