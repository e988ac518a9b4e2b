-------------------------- MODULE MCBitcoinChange --------------------------
(* Small instances of BitcoinChange. *)
EXTENDS BitcoinChange

CONSTANTS MaxLeftover, MaxRate, Bases, MaxSpread

SmallTransactions ==
    [leftover: 0 .. MaxLeftover, rate: 0 .. MaxRate, base: Bases,
     spread: 0 .. MaxSpread, hasChange: BOOLEAN, payees: {0, 1}, fits: BOOLEAN]
=============================================================================
