---------------------------- MODULE ChangePolicy ----------------------------
(***************************************************************************)
(* What update() promises of the fee and the change, without saying how it *)
(* computes them: a call on a transaction takes one step to decide between *)
(* a split that its caller can accept and a failure that has a cause.      *)
(* BitcoinChange implements it.                                            *)
(***************************************************************************)
EXTENDS Integers

CONSTANTS Dust, OutputSize, MaxU64, Transactions

VARIABLES
    phase,    \* "idle", "busy" inside update(), "done" after it returned
    tx,       \* the transaction update() was called on, as in BitcoinChange
    outcome,  \* how it ended
    kept      \* the amount of the change it kept

vars == <<phase, tx, outcome, kept>>

Failures == {"FEE_TOO_LOW", "CHANGE_IS_TOO_SMALL", "AMOUNT_TOO_BIG"}

Fee(c) == tx.leftover - c
CheapestFee(c) == (tx.base + (IF c > 0 THEN OutputSize ELSE 0)) * tx.rate
DearestFee == (tx.base + tx.spread + OutputSize) * tx.rate

(* A split to accept: it keeps no dust, pays at least for the bytes, pays   *)
(* at most for the longest transaction unless the change was too small to   *)
(* keep, pays somebody, and every amount can be written.                    *)
Acceptable(c) ==
    /\ c = 0 \/ (tx.hasChange /\ c >= Dust)
    /\ Fee(c) >= CheapestFee(c)
    /\ tx.hasChange => Fee(c) <= IF c > 0 THEN DearestFee ELSE DearestFee + Dust - 1
    /\ tx.payees = 0 => c > 0
    /\ tx.fits /\ c <= MaxU64

(* A failure to accept: there was not enough for the fee without any change,*)
(* nobody left to pay, or an amount over 64 bits.                           *)
Justified(o) ==
    CASE o = "FEE_TOO_LOW" -> tx.leftover < (tx.base + tx.spread) * tx.rate
      [] o = "CHANGE_IS_TOO_SMALL" ->
            tx.payees = 0 /\ (tx.hasChange => tx.leftover < DearestFee + Dust)
      [] o = "AMOUNT_TOO_BIG" -> ~tx.fits \/ (tx.hasChange /\ tx.leftover > MaxU64)
-----------------------------------------------------------------------------
Idle == phase = "idle" /\ outcome = "none" /\ kept = 0

Init == Idle

Modify == phase = "done" /\ Idle'

Begin ==
    /\ phase = "idle" /\ phase' = "busy"
    /\ tx' \in Transactions
    /\ UNCHANGED <<outcome, kept>>

Repeat ==
    /\ phase = "done" /\ outcome # "AMOUNT_TOO_BIG"
    /\ phase' = "busy" /\ outcome' = "none" /\ kept' = 0
    /\ UNCHANGED tx

Decide ==
    /\ phase = "busy" /\ phase' = "done"
    /\ \/ outcome' = "ok" /\ Acceptable(kept')
       \/ outcome' \in Failures /\ Justified(outcome') /\ kept' = 0
    /\ UNCHANGED tx

Next == Modify \/ Begin \/ Repeat \/ Decide

Spec == Init /\ [][Next]_vars
=============================================================================
