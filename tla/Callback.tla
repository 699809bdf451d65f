------------------------------ MODULE Callback ------------------------------
(***************************************************************************)
(* adapter/callback: what a daemon makes of an answer of the callback      *)
(* server, which is asked to fill in the details of a delayed swap.        *)
(*                                                                         *)
(* An amount is a decimal string in the blob; what big.Int.SetString makes *)
(* of it is [ok, value], with any integer, negative ones too.              *)
(***************************************************************************)
EXTENDS Integers

Parsed == [ok : BOOLEAN, value : Int]

(* The part of a blob that decides: tokens, amounts, MinimumReceiveAmount. *)
BlobTerms ==
  [pair : STRING, send : Parsed, receive : Parsed, minReceive : Parsed]

(* A minimum that is missing or unreadable is 0.                           *)
Minimum(partial) == IF partial.minReceive.ok THEN partial.minReceive.value ELSE 0

Readable(blob) == blob.send.ok /\ blob.receive.ok

WithinBounds(partial, filled) ==
  /\ filled.receive.value >= Minimum(partial)
  /\ filled.send.value <= partial.send.value

(* Cross-multiplied: filled.receive / filled.send is the better price.     *)
Favourable(partial, filled) ==
  filled.receive.value * partial.send.value >= partial.receive.value * filled.send.value

(* Mutants of verifyDelaySwap: without the price, without the bounds.      *)
VerifyUnpriced(partial, filled) ==
  Readable(partial) /\ Readable(filled) /\ WithinBounds(partial, filled)

VerifyDelaySwap(partial, filled) ==
  /\ Readable(partial) /\ Readable(filled)
  /\ WithinBounds(partial, filled)
  /\ Favourable(partial, filled)

-----------------------------------------------------------------------------
(* What a user expects of a fill: to send no more than offered, to receive *)
(* the minimum, and for the whole of the offer the whole of what was asked.*)
Fair(partial, filled) ==
  /\ filled.send.value <= partial.send.value
  /\ partial.minReceive.ok => filled.receive.value >= partial.minReceive.value
  /\ filled.send.value = partial.send.value =>
       filled.receive.value >= partial.receive.value
=============================================================================
