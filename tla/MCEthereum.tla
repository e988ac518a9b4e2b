----------------------------- MODULE MCEthereum -----------------------------
(* Small instances of EthereumTransaction and EthereumBuilders. *)
EXTENDS EthereumBuilders

CONSTANTS a1, own, nobody, k1, k2

MCNonces == {-1, 7}
MCPayments == {-1, 0, 1}
MCAmounts == {-1, 1, 2, 3}
MCPayloads == {[method |-> "data", arguments |-> <<1>>]}
=============================================================================
