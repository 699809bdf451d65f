------------------------------ MODULE MCDaemon ------------------------------
(* Instances of Daemon for TLC: an immediate and a delayed swap.  The      *)
(* callback server may answer with details that are accepted, exactly or   *)
(* in part, or that fail one of the checks each.                           *)
EXTENDS Daemon

MCSwaps   == {"now", "later"}
MCDelayed == {"later"}
Later     == {"later"}

Number(n)             == [ok |-> TRUE, value |-> n]
Garbled               == [ok |-> FALSE, value |-> 0]
Blob(pair, send, recv) ==
  [pair |-> pair, send |-> send, receive |-> recv, minReceive |-> Garbled]

MCTerms == [s \in {"later"} |->
  [Blob("ETH/BTC", Number(4), Number(6)) EXCEPT !.minReceive = Number(3)]]

MCDetails ==
  [ whole   |-> Blob("ETH/BTC", Number(4), Number(6)),
    half    |-> Blob("ETH/BTC", Number(2), Number(3)),  \* at both limits
    dear    |-> Blob("ETH/BTC", Number(4), Number(5)),
    large   |-> Blob("ETH/BTC", Number(5), Number(8)),
    small   |-> Blob("ETH/BTC", Number(1), Number(2)),
    garbled |-> Blob("ETH/BTC", Garbled, Number(6)),
    swapped |-> Blob("BTC/ETH", Number(4), Number(6)) ]
GoodFills  == {"whole", "half"}
OneFill    == {"whole"}
OtherFills == {"swapped"}
MCFills    == GoodFills \cup {"dear", "large", "small", "garbled"}
Only(fills) == [f \in fills |-> MCDetails[f]]
AllDetails   == Only(MCFills)
GoodDetails  == Only(GoodFills)
OneDetail    == Only(OneFill)
OtherDetails == Only(OtherFills)

(* A view of the state for the runs whose properties are not about the     *)
(* receipts: no handler but that which writes them reads them.             *)
AllButReceipts ==
  <<posted, boots, crashes, chan, asking, running, pending, known, accepted, executed>>
=============================================================================
