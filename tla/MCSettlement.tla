---------------------------- MODULE MCSettlement ----------------------------
(* An instance of Settlement for TLC: the least amount of bitcoin for a    *)
(* token, with a broker's fee that Bitcoin raises to the dust limit and    *)
(* miners' fees of the user's own choice.                                  *)
EXTENDS Settlement

BtcForToken == [initiator |-> "btc", responder |-> "erc20"]

Addresses ==
  [ initiator |-> [ethereum |-> "alice", bitcoin |-> "alice_btc"],
    responder |-> [ethereum |-> "bob",   bitcoin |-> "bob_btc"] ]

BitcoinOffer ==
  [ sendKind |-> "btc",          receiveKind |-> "erc20",
    sendAmount |-> 20000,        receiveAmount |-> 3000,
    sendTo |-> "bob_btc",        receiveFrom |-> "bob",
    sendFee |-> 5000,            receiveFee |-> 5,
    brokerFee |-> 30,
    brokerSend |-> "broker_btc", brokerReceive |-> "broker" ]
=============================================================================
