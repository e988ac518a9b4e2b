-------------------------------- MODULE Sums --------------------------------
(***************************************************************************)
(* The sum of a sequence of amounts, as the loops over sources and         *)
(* destinations compute it, one element after the other.                   *)
(***************************************************************************)
EXTENDS Integers, Sequences

RunningTotals(s) ==
    LET sum[i \in 0..Len(s)] == IF i = 0 THEN 0 ELSE sum[i - 1] + s[i]
    IN  sum

Total(s) == RunningTotals(s)[Len(s)]
=============================================================================
