------------------------------ MODULE MCChains ------------------------------
(* Small instances of ChainTransactions. *)
EXTENDS ChainTransactions

CONSTANTS alice, bob, carol, nobody

MCTimes == {[fields |-> 0, zulu |-> FALSE], [fields |-> 3, zulu |-> TRUE], [fields |-> 3, zulu |-> FALSE]}
MCMessages == {[length |-> 223, text |-> 223], [length |-> 223, text |-> 192], [length |-> 256, text |-> 256]}
MCBlocks == {-1, 20}
=============================================================================
