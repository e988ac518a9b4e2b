------------------------ MODULE MCBitcoinTransaction ------------------------
(* Small instances of BitcoinTransaction; the cfg files give the values. *)
EXTENDS BitcoinTransaction
=============================================================================
