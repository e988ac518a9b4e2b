--------------------------- MODULE BitcoinChange ---------------------------
(***************************************************************************)
(* How BitcoinTransaction::update() splits what a transaction leaves over  *)
(* between the fee and the change destination                              *)
(* (multy_core/src/bitcoin/bitcoin_transaction.cpp, from the first         *)
(* measurement of the size to the last check), once verify() has passed    *)
(* and at most one destination is marked as change.                        *)
(*                                                                         *)
(* The fee depends on the size of the signed transaction, the size depends *)
(* on the lengths of the signatures, and the signatures depend on the      *)
(* amount given to the change output: the code iterates.  A signature is a *)
(* deterministic function of what is signed, so `slack' remembers, for     *)
(* every content of the transaction met so far, how many bytes its         *)
(* signatures take above the shortest ones; the first measurement of a     *)
(* content chooses, every later one repeats.                               *)
(***************************************************************************)
EXTENDS Integers

CONSTANTS
    Dust,        \* the smallest amount is_dust_amount() accepts: 182 * 3
    OutputSize,  \* bytes of the serialized change output
    MaxU64,      \* the largest amount the stream can write: 2^64 - 1
    Transactions \* what update() may be called on, a set of transactions

ASSUME DustAssumption == Dust \in Nat \ {0}
ASSUME OutputSizeAssumption == OutputSize \in Nat
ASSUME MaxU64Assumption == MaxU64 \in Nat

(***************************************************************************)
(* What the computation reads of a transaction: the sum of the sources     *)
(* minus the sum of the other destinations, the price of a byte, the bytes *)
(* of the transaction without change and with the shortest signatures, how *)
(* much longer its signatures can be, whether it has a change destination, *)
(* how many other outputs it has, and whether their amounts fit 64 bits.   *)
(***************************************************************************)
Summary == [leftover: Nat, rate: Nat, base: Nat, spread: Nat,
            hasChange: BOOLEAN, payees: Nat, fits: BOOLEAN]

(* Between two calls of update(). *)
Blank == [leftover |-> 0, rate |-> 0, base |-> 0, spread |-> 0,
          hasChange |-> FALSE, payees |-> 0, fits |-> TRUE]

ASSUME TransactionsAssumption == Transactions \subseteq Summary

Outcomes == {"none", "ok", "FEE_TOO_LOW", "CHANGE_IS_TOO_SMALL", "AMOUNT_TOO_BIG"}

VARIABLES
    pc,       \* where update() is
    tx,       \* the transaction it works on
    slack,    \* content of the change output -> signature bytes above the least
    change,   \* change_destination->amount
    outcome,  \* how the last update() ended
    shown     \* the <<outcome, change>> of the update() this one repeats

vars == <<pc, tx, slack, change, outcome, shown>>
-----------------------------------------------------------------------------
(* The definitions named Wrong... are mistakes this code could have made: the *)
(* properties below are checked to notice each of them.                     *)

(* An output of a zero or negative amount is left out of what is signed and *)
(* serialized (get_non_zero_destinations).                                  *)
WrongContent(c) == c
Content(c) == IF c > 0 THEN c ELSE 0
ChangeOutput(c) == IF c > 0 THEN OutputSize ELSE 0

(* calculate_diff(): what the transaction leaves to the miner. *)
Diff(c) == tx.leftover - c

WrongIsDust(amount) == amount < Dust - 1
IsDust(amount) == amount < Dust

(* sign() serializes the positive outputs and throws on one over 64 bits. *)
SignFails(c) == ~tx.fits \/ Content(c) > MaxU64

(* Signatures with random nonces would not repeat. *)
WrongSign(c, k) ==
    /\ k \in 0 .. tx.spread
    /\ slack' = [x \in DOMAIN slack \cup {Content(c)} |->
                    IF x = Content(c) THEN k ELSE slack[x]]

(* The signatures of the transaction with change c are k bytes above the least. *)
Sign(c, k) ==
    /\ k \in 0 .. tx.spread
    /\ Content(c) \in DOMAIN slack => k = slack[Content(c)]
    /\ slack' = [x \in DOMAIN slack \cup {Content(c)} |->
                    IF x = Content(c) THEN k ELSE slack[x]]

(* Sizes in bytes: with the change output counted whatever its amount, and  *)
(* as the transaction is serialized.                                        *)
WrongSizeWithChange(k) == tx.base + k + 2 * OutputSize
SizeWithChange(k) == tx.base + k + OutputSize
SignedSize(c, k) == tx.base + k + ChangeOutput(c)

NothingSigned == [c \in {} |-> 0]
NotShown == <<"none", 0>>

Return(o) == pc' = "done" /\ outcome' = o
-----------------------------------------------------------------------------
Idle(c) ==
    /\ pc' = "idle" /\ tx' = Blank /\ slack' = NothingSigned
    /\ change' = c /\ outcome' = "none" /\ shown' = NotShown

Init ==
    /\ pc = "idle" /\ tx = Blank /\ slack = NothingSigned
    /\ change = 0 /\ outcome = "none" /\ shown = NotShown

(* The caller modifies the transaction; the amount of its change stays. *)
Modify == pc = "done" /\ Idle(change)

(* update() reaches the computation, on one of these transactions. *)
Begin(candidates) ==
    /\ pc = "idle"
    /\ tx' \in candidates
    /\ pc' = IF tx'.hasChange THEN "clear" ELSE "validate"
    /\ change' = IF tx'.hasChange THEN change ELSE 0
    /\ slack' = NothingSigned
    /\ UNCHANGED <<outcome, shown>>

(* update() again on the same transaction, as serialize() does. *)
Repeat ==
    /\ pc = "done" /\ outcome # "AMOUNT_TOO_BIG"
    /\ shown' = <<outcome, change>>
    /\ pc' = IF tx.hasChange THEN "clear" ELSE "validate"
    /\ outcome' = "none"
    /\ UNCHANGED <<tx, slack, change>>

(* The amount the measurement starts from. *)
WrongCleared == change
Cleared == 0

(* What is left for the change after paying for a transaction that has one *)
(* goes to the change, unless it is dust.                                   *)
Clear ==
    /\ pc = "clear"
    /\ ~SignFails(Cleared)
    /\ \E k \in 0 .. tx.spread :
        /\ Sign(Cleared, k)
        /\ LET remainder == Diff(Cleared) - SizeWithChange(k) * tx.rate
           IN  IF IsDust(remainder)
               THEN change' = Cleared /\ pc' = "validate"
               ELSE change' = Cleared + remainder /\ pc' = "shrink"
    /\ UNCHANGED <<tx, outcome, shown>>

(* What the fee is short of for the size just measured. *)
WrongShortage(c, k) == Dust * ((SignedSize(c, k) * tx.rate - Diff(c)) \div Dust)
Shortage(c, k) == SignedSize(c, k) * tx.rate - Diff(c)

(* The change pays what the fee is short of, until it is short of nothing. *)
Shrink ==
    /\ pc = "shrink"
    /\ ~SignFails(change)
    /\ \E k \in 0 .. tx.spread :
        /\ Sign(change, k)
        /\ SignedSize(change, k) * tx.rate > Diff(change)
        /\ change' = change - Shortage(change, k)
    /\ UNCHANGED <<pc, tx, outcome, shown>>

(* The change is dropped after all when the fees made dust of it. *)
Settle ==
    /\ pc = "shrink"
    /\ ~SignFails(change)
    /\ \E k \in 0 .. tx.spread :
        /\ Sign(change, k)
        /\ SignedSize(change, k) * tx.rate <= Diff(change)
    /\ change' = IF IsDust(change) THEN 0 ELSE change
    /\ pc' = "validate"
    /\ UNCHANGED <<tx, outcome, shown>>

WrongPaysNobody == FALSE
PaysNobody == tx.payees = 0 /\ change <= 0

(* validate_fee(), then the transaction must still pay somebody. *)
Validate ==
    /\ pc = "validate"
    /\ ~SignFails(change)
    /\ \E k \in 0 .. tx.spread :
        /\ Sign(change, k)
        /\ Return(IF Diff(change) < tx.rate * SignedSize(change, k) THEN "FEE_TOO_LOW"
                  ELSE IF PaysNobody THEN "CHANGE_IS_TOO_SMALL"
                  ELSE "ok")
    /\ UNCHANGED <<tx, change, shown>>

(* The exception of sign() leaves update() with the amount assigned so far. *)
SignThrows ==
    /\ \/ pc = "clear" /\ SignFails(Cleared) /\ change' = Cleared
       \/ pc \in {"shrink", "validate"} /\ SignFails(change) /\ UNCHANGED change
    /\ Return("AMOUNT_TOO_BIG")
    /\ UNCHANGED <<tx, slack, shown>>

Compute == Clear \/ Shrink \/ Settle \/ Validate \/ SignThrows

Next == Modify \/ Begin(Transactions) \/ Repeat \/ Compute

(* update() is a call: once entered it runs, nothing else does. *)
Spec == Init /\ [][Next]_vars /\ WF_vars(Compute)
-----------------------------------------------------------------------------
TypeOK ==
    /\ pc \in {"idle", "clear", "shrink", "validate", "done"}
    /\ tx \in Transactions \cup {Blank}
    /\ DOMAIN slack \subseteq Nat
    /\ slack \in [DOMAIN slack -> 0 .. tx.spread]
    /\ change \in Int
    /\ outcome \in Outcomes
    /\ shown \in Outcomes \X Int

Done(o) == pc = "done" /\ outcome = o

(* The most a transaction with change is ever charged: every signature long. *)
DearestFee == (tx.base + tx.spread + OutputSize) * tx.rate

(* NoDustChange: an update() that succeeds leaves no change output that the *)
(* network would refuse to relay, and no negative one either.               *)
NoDustChange == Done("ok") => change = 0 \/ change >= Dust

(* FeeIsBounded: with a change destination, whatever the signatures do, the *)
(* fee is at most that of the longest transaction, plus less than the dust  *)
(* limit when the change had to be dropped.                                 *)
FeeIsBounded ==
    Done("ok") /\ tx.hasChange =>
        IF change > 0 THEN Diff(change) <= DearestFee ELSE Diff(change) < DearestFee + Dust

(* FailsOnlyIfUnpayable: FEE_TOO_LOW is reported only when the transaction  *)
(* could not pay for itself even without change; shrinking or dropping the  *)
(* change never makes a payable transaction fail.                           *)
FailsOnlyIfUnpayable ==
    Done("FEE_TOO_LOW") =>
        0 \in DOMAIN slack /\ tx.leftover < (tx.base + slack[0]) * tx.rate

(* RepeatIsStable: update() on a transaction that did not change, the one   *)
(* serialize() makes included, ends as the update() the user saw did.       *)
RepeatIsStable ==
    pc = "done" /\ shown[1] # "none" => shown = <<outcome, change>>

(* What the caller of update() sees of it: only where it is, and the change *)
(* that a successful call kept.                                             *)
Policy == INSTANCE ChangePolicy WITH
    phase <- IF pc \in {"idle", "done"} THEN pc ELSE "busy",
    kept <- IF Done("ok") THEN change ELSE 0

(* ImplementsPolicy: the iteration over sizes and signatures is, to the     *)
(* caller, one decision of ChangePolicy: every amount it keeps and every    *)
(* error it reports is one that the policy accepts for this transaction.    *)
ImplementsPolicy == Policy!Spec

(* UpdateReturns: the iteration ends, for every length of the signatures. *)
UpdateReturns == pc \in {"clear", "shrink", "validate"} ~> pc = "done"
=============================================================================
