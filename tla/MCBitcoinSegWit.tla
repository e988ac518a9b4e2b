-------------------------- MODULE MCBitcoinSegWit --------------------------
(* A small instance of BitcoinSegWit.  A caller may give the amount of an   *)
(* output wrong, no predicate refuses a negative one; a destination may ask *)
(* for more than one source has, and for more than can be written.          *)
EXTENDS BitcoinSegWit

MCOutputs ==
    {[point |-> "p", amount |-> 2, owner |-> "k"],
     [point |-> "p", amount |-> -1, owner |-> "k"],
     [point |-> "q", amount |-> 2, owner |-> "l"]}
=============================================================================
