---------------------------- MODULE MCAtomicSwap ----------------------------
(* Instances of AtomicSwap for TLC: which token each role funds with.      *)
EXTENDS AtomicSwap

EthForBtc   == [initiator |-> "eth",   responder |-> "btc"]
BtcForErc20 == [initiator |-> "btc",   responder |-> "erc20"]
EthForErc20 == [initiator |-> "eth",   responder |-> "erc20"]
=============================================================================
