------------------------ MODULE BitcoinChangeProofs ------------------------
(***************************************************************************)
(* Theorems about BitcoinChange, for every dust limit, output size, word   *)
(* width and set of transactions.                                          *)
(***************************************************************************)
EXTENDS BitcoinChange, TLAPS

(* A longer transaction costs at least as much. *)
LEMMA CostIsMonotonic ==
    ASSUME NEW a \in Nat, NEW b \in Nat, NEW r \in Nat, a <= b
    PROVE  a * r <= b * r /\ a * r \in Nat /\ b * r \in Nat
  BY SMT

(* Every transaction, the blank one included, is a Summary. *)
LEMMA TxType ==
    ASSUME TypeOK
    PROVE  /\ tx \in Summary
           /\ tx.leftover \in Nat /\ tx.rate \in Nat /\ tx.base \in Nat
           /\ tx.spread \in Nat /\ tx.payees \in Nat
           /\ tx.hasChange \in BOOLEAN /\ tx.fits \in BOOLEAN
<1>1. Blank \in Summary
  BY DEF Blank, Summary
<1>2. tx \in Summary
  BY <1>1, TransactionsAssumption DEF TypeOK
<1> QED
  BY <1>2 DEF Summary

(* Signing adds one content to the memory of signature lengths, keeps what  *)
(* is there, and never leaves the range of the lengths.                     *)
LEMMA SignRemembers ==
    ASSUME TypeOK, NEW c \in Int, NEW k, Sign(c, k)
    PROVE  /\ k \in 0 .. tx.spread
           /\ DOMAIN slack' = DOMAIN slack \cup {Content(c)}
           /\ slack' \in [DOMAIN slack' -> 0 .. tx.spread]
           /\ DOMAIN slack' \subseteq Nat
           /\ slack'[Content(c)] = k
           /\ \A x \in DOMAIN slack : slack'[x] = slack[x]
<1>1. Content(c) \in Nat
  BY DEF Content
<1> QED
  BY <1>1 DEF TypeOK, Sign

(* Every step keeps the types. *)
LEMMA TypeStep == ASSUME TypeOK, [Next]_vars PROVE TypeOK'
<1> USE TxType
<1>1. CASE Modify
  BY <1>1 DEF Modify, Idle, TypeOK, NothingSigned, NotShown, Outcomes
<1>2. CASE Begin(Transactions)
  BY <1>2 DEF Begin, TypeOK, NothingSigned
<1>3. CASE Repeat
  BY <1>3 DEF Repeat, TypeOK, Outcomes
<1>4. CASE Clear
  <2>1. PICK k \in 0 .. tx.spread :
          /\ Sign(0, k)
          /\ LET remainder == Diff(0) - SizeWithChange(k) * tx.rate
             IN  change' = 0 \/ change' = 0 + remainder
    BY <1>4 DEF Clear, Cleared
  <2>2. change' \in Int
    BY <2>1, OutputSizeAssumption DEF Diff, SizeWithChange
  <2>3. 0 \in Int /\ Sign(0, k)
    BY <2>1
  <2>4. slack' \in [DOMAIN slack' -> 0 .. tx.spread] /\ DOMAIN slack' \subseteq Nat
    BY <2>3, SignRemembers
  <2> QED
    BY <1>4, <2>2, <2>4 DEF Clear, TypeOK
<1>5. CASE Shrink
  <2>1. PICK k \in 0 .. tx.spread :
          /\ Sign(change, k)
          /\ change' = change - (SignedSize(change, k) * tx.rate - Diff(change))
    BY <1>5 DEF Shrink, Shortage
  <2>2. change \in Int /\ ChangeOutput(change) \in Nat
    BY OutputSizeAssumption DEF TypeOK, ChangeOutput
  <2>3. change' \in Int
    BY <2>1, <2>2 DEF Diff, SignedSize
  <2> QED
    BY <1>5, <2>1, <2>2, <2>3, SignRemembers DEF Shrink, TypeOK
<1>6. CASE Settle
  <2>1. PICK k \in 0 .. tx.spread : Sign(change, k)
    BY <1>6 DEF Settle
  <2>2. change \in Int /\ change' \in Int
    BY <1>6 DEF TypeOK, Settle
  <2> QED
    BY <1>6, <2>1, <2>2, SignRemembers DEF Settle, TypeOK
<1>7. CASE Validate
  <2>1. PICK k \in 0 .. tx.spread : Sign(change, k)
    BY <1>7 DEF Validate
  <2>2. change \in Int /\ change' = change
    BY <1>7 DEF TypeOK, Validate
  <2>3. outcome' \in Outcomes /\ pc' = "done"
    BY <1>7 DEF Validate, Return, Outcomes
  <2> QED
    BY <1>7, <2>1, <2>2, <2>3, SignRemembers DEF Validate, TypeOK
<1>8. CASE SignThrows
  BY <1>8 DEF SignThrows, Return, TypeOK, Outcomes, Cleared
<1>9. CASE UNCHANGED vars
  BY <1>9 DEF vars, TypeOK
<1> QED
  BY <1>1, <1>2, <1>3, <1>4, <1>5, <1>6, <1>7, <1>8, <1>9 DEF Next, Compute

(* The type invariant of the computation of the change. *)
THEOREM TypeCorrect == Spec => []TypeOK
<1>1. Init => TypeOK
  BY DEF Init, TypeOK, NothingSigned, NotShown, Outcomes
<1>2. TypeOK /\ [Next]_vars => TypeOK'
  BY TypeStep
<1> QED
  BY <1>1, <1>2, PTL DEF Spec
-----------------------------------------------------------------------------
(***************************************************************************)
(* The inductive invariant.  While the change shrinks, the fee already     *)
(* paid is one that some signatures justify, and the transaction is rich   *)
(* enough to do without change: these two facts are what the three         *)
(* properties of a finished call rest on, and neither is visible at its    *)
(* end.                                                                    *)
(***************************************************************************)
ClearInv == pc = "clear" => tx.hasChange

ShrinkInv ==
    pc = "shrink" =>
        /\ tx.hasChange /\ tx.fits
        /\ 0 <= Diff(change) /\ Diff(change) <= DearestFee
        /\ 0 \in DOMAIN slack
        /\ SizeWithChange(slack[0]) * tx.rate + Dust <= tx.leftover

(* What validate_fee() will find of a change that was kept. *)
Kept ==
    /\ tx.hasChange /\ tx.fits
    /\ Dust <= change /\ change <= MaxU64
    /\ change \in DOMAIN slack
    /\ SizeWithChange(slack[change]) * tx.rate <= Diff(change)
    /\ Diff(change) <= DearestFee

(* ... and of a transaction without change. *)
NotKept ==
    /\ change = 0
    /\ tx.hasChange => tx.fits /\ tx.leftover < DearestFee + Dust

ValidateInv == pc = "validate" => Kept \/ NotKept

DoneInv == NoDustChange /\ FeeIsBounded /\ FailsOnlyIfUnpayable

(* No change is remembered for a transaction that has none, and no negative *)
(* one of a call that has ended, even by an exception.                      *)
ZeroInv == pc = "done" => change >= 0 /\ (~tx.hasChange => change = 0)

IInv == TypeOK /\ ClearInv /\ ShrinkInv /\ ValidateInv /\ DoneInv /\ ZeroInv

(* What a transaction of a given size costs, against the dearest one. *)
LEMMA SizeCost ==
    ASSUME TypeOK, NEW k \in 0 .. tx.spread
    PROVE  /\ SizeWithChange(k) * tx.rate \in Nat
           /\ DearestFee \in Nat
           /\ SizeWithChange(k) * tx.rate <= DearestFee
           /\ (tx.base + k) * tx.rate \in Nat
           /\ (tx.base + k) * tx.rate <= SizeWithChange(k) * tx.rate
<1>1. /\ tx.base + k \in Nat /\ SizeWithChange(k) \in Nat
      /\ tx.base + tx.spread + OutputSize \in Nat
      /\ SizeWithChange(k) <= tx.base + tx.spread + OutputSize
      /\ tx.base + k <= SizeWithChange(k)
  BY TxType, OutputSizeAssumption DEF SizeWithChange
<1>2. tx.rate \in Nat
  BY TxType
<1> QED
  BY <1>1, <1>2, CostIsMonotonic DEF DearestFee

(* The size that is signed, with a change output or without. *)
LEMMA SignedCost ==
    ASSUME TypeOK, NEW k \in 0 .. tx.spread, NEW c \in Int
    PROVE  /\ c > 0 => SignedSize(c, k) = SizeWithChange(k)
           /\ c <= 0 => SignedSize(c, k) = tx.base + k
           /\ SignedSize(c, k) * tx.rate \in Nat
           /\ SignedSize(c, k) * tx.rate <= DearestFee
<1>1. /\ c > 0 => SignedSize(c, k) = SizeWithChange(k)
      /\ c <= 0 => SignedSize(c, k) = tx.base + k
  BY TxType DEF SignedSize, SizeWithChange, ChangeOutput
<1> QED
  BY <1>1, SizeCost

(* The bounds that the policy states, against the cost of a signed size. *)
LEMMA PolicyCost ==
    ASSUME TypeOK, NEW k \in 0 .. tx.spread
    PROVE  /\ (tx.base + OutputSize) * tx.rate <= SizeWithChange(k) * tx.rate
           /\ (tx.base + OutputSize) * tx.rate \in Nat
           /\ (tx.base + 0) * tx.rate <= (tx.base + k) * tx.rate
           /\ (tx.base + 0) * tx.rate \in Nat
           /\ (tx.base + k) * tx.rate <= (tx.base + tx.spread) * tx.rate
           /\ (tx.base + tx.spread) * tx.rate \in Nat
<1>1. /\ tx.base + OutputSize \in Nat /\ tx.base + 0 \in Nat
      /\ tx.base + k \in Nat /\ tx.base + tx.spread \in Nat
      /\ SizeWithChange(k) \in Nat /\ tx.rate \in Nat
      /\ tx.base + OutputSize <= SizeWithChange(k)
      /\ tx.base + 0 <= tx.base + k /\ tx.base + k <= tx.base + tx.spread
  BY TxType, OutputSizeAssumption DEF SizeWithChange
<1> QED
  BY <1>1, CostIsMonotonic

(* Assigning the change: what is left after paying for the first size. *)
LEMMA ClearStep == IInv /\ Clear => ShrinkInv' /\ ValidateInv'
<1> SUFFICES ASSUME IInv, Clear
             PROVE  ShrinkInv' /\ ValidateInv'
  OBVIOUS
<1>1. /\ TypeOK /\ tx.hasChange /\ tx.fits /\ tx' = tx
      /\ tx.leftover \in Nat
  BY TxType DEF IInv, ClearInv, Clear, SignFails
<1>2. PICK k \in 0 .. tx.spread :
        /\ Sign(0, k)
        /\ LET remainder == tx.leftover - SizeWithChange(k) * tx.rate
           IN  IF remainder < Dust
               THEN change' = 0 /\ pc' = "validate"
               ELSE change' = remainder /\ pc' = "shrink"
  <2>1. PICK k \in 0 .. tx.spread :
        /\ Sign(0, k)
        /\ LET remainder == (tx.leftover - 0) - SizeWithChange(k) * tx.rate
           IN  IF remainder < Dust
               THEN change' = 0 /\ pc' = "validate"
               ELSE change' = 0 + remainder /\ pc' = "shrink"
    BY DEF Clear, Cleared, Diff, IsDust
  <2> QED
    BY <2>1, <1>1, SizeCost
<1>3. 0 \in DOMAIN slack' /\ slack'[0] = k
  <2>1. 0 \in Int /\ Content(0) = 0
    BY DEF Content
  <2>2. /\ DOMAIN slack' = DOMAIN slack \cup {Content(0)}
        /\ slack'[Content(0)] = k
    BY <2>1, <1>1, <1>2, SignRemembers
  <2> QED
    BY <2>1, <2>2
<1>4. /\ SizeWithChange(k) * tx.rate \in Nat
      /\ DearestFee \in Nat /\ SizeWithChange(k) * tx.rate <= DearestFee
  BY <1>1, <1>2, SizeCost
<1>5. /\ DearestFee' = DearestFee /\ Diff(change)' = tx.leftover - change'
      /\ SizeWithChange(slack[0])' = SizeWithChange(k)
  BY <1>1, <1>3 DEF DearestFee, Diff, SizeWithChange
<1>6. CASE tx.leftover - SizeWithChange(k) * tx.rate < Dust
  <2>1. change' = 0 /\ pc' = "validate" /\ tx.leftover < DearestFee + Dust
    BY <1>1, <1>2, <1>4, <1>6, DustAssumption
  <2> QED
    BY <2>1, <1>1, <1>5 DEF ShrinkInv, ValidateInv, NotKept
<1>7. CASE ~(tx.leftover - SizeWithChange(k) * tx.rate < Dust)
  <2>1. /\ change' = tx.leftover - SizeWithChange(k) * tx.rate /\ pc' = "shrink"
        /\ SizeWithChange(k) * tx.rate + Dust <= tx.leftover
    BY <1>1, <1>2, <1>4, <1>7, DustAssumption
  <2>2. Diff(change)' = SizeWithChange(k) * tx.rate
    BY <2>1, <1>1, <1>4, <1>5
  <2> QED
    BY <2>1, <2>2, <1>1, <1>3, <1>4, <1>5 DEF ShrinkInv, ValidateInv
<1> QED
  BY <1>6, <1>7

(* Taking from the change: the fee becomes that of the size just measured. *)
LEMMA ShrinkStep == IInv /\ Shrink => ShrinkInv'
<1> SUFFICES ASSUME IInv, Shrink
             PROVE  ShrinkInv'
  OBVIOUS
<1>1. /\ TypeOK /\ tx' = tx /\ change \in Int /\ tx.leftover \in Nat
      /\ tx.hasChange /\ tx.fits /\ 0 \in DOMAIN slack
      /\ SizeWithChange(slack[0]) * tx.rate + Dust <= tx.leftover
  BY TxType DEF IInv, ShrinkInv, Shrink, TypeOK
<1>2. PICK k \in 0 .. tx.spread :
        /\ Sign(change, k)
        /\ change' = change - (SignedSize(change, k) * tx.rate - Diff(change))
  BY DEF Shrink, Shortage
<1>3. 0 \in DOMAIN slack' /\ slack'[0] = slack[0]
  BY <1>1, <1>2, SignRemembers
<1>4. /\ SignedSize(change, k) * tx.rate \in Nat
      /\ DearestFee \in Nat /\ SignedSize(change, k) * tx.rate <= DearestFee
  BY <1>1, <1>2, SignedCost, SizeCost
<1>5. /\ DearestFee' = DearestFee /\ Diff(change)' = tx.leftover - change'
      /\ SizeWithChange(slack[0])' = SizeWithChange(slack[0])
  BY <1>1, <1>3 DEF DearestFee, Diff, SizeWithChange
<1>6. Diff(change)' = SignedSize(change, k) * tx.rate
  BY <1>1, <1>2, <1>4, <1>5 DEF Diff
<1> QED
  BY <1>1, <1>3, <1>4, <1>5, <1>6 DEF ShrinkInv

(* The change is kept with a fee that covers it, or the transaction does    *)
(* without.                                                                 *)
LEMMA SettleStep == IInv /\ Settle => ValidateInv'
<1> SUFFICES ASSUME IInv, Settle
             PROVE  ValidateInv'
  OBVIOUS
<1>1. /\ TypeOK /\ tx' = tx /\ change \in Int /\ tx.leftover \in Nat
      /\ tx.hasChange /\ tx.fits
      /\ Diff(change) <= DearestFee
      /\ Content(change) <= MaxU64
  BY TxType, MaxU64Assumption DEF IInv, ShrinkInv, Settle, TypeOK, SignFails, Content
<1>2. PICK k \in 0 .. tx.spread :
        /\ Sign(change, k)
        /\ SignedSize(change, k) * tx.rate <= Diff(change)
  BY DEF Settle
<1>3. DearestFee' = DearestFee /\ DearestFee \in Nat
  BY <1>1, <1>2, SizeCost DEF DearestFee
<1>4. CASE change < Dust
  <2>1. change' = 0
    BY <1>4 DEF Settle, IsDust
  <2>2. tx.leftover < DearestFee + Dust
    BY <1>1, <1>3, <1>4, DustAssumption DEF Diff
  <2> QED
    BY <2>1, <2>2, <1>1, <1>3 DEF ValidateInv, NotKept
<1>5. CASE ~(change < Dust)
  <2>1. change' = change /\ change > 0 /\ Dust <= change /\ Content(change) = change
    BY <1>1, <1>5, DustAssumption DEF Settle, IsDust, Content
  <2>2. change \in DOMAIN slack' /\ slack'[change] = k
    BY <2>1, <1>1, <1>2, SignRemembers
  <2>3. SizeWithChange(k) * tx.rate <= Diff(change)
    BY <2>1, <1>1, <1>2, SignedCost
  <2>4. SizeWithChange(slack[change])' = SizeWithChange(k) /\ Diff(change)' = Diff(change)
    BY <2>1, <2>2, <1>1 DEF SizeWithChange, Diff
  <2> QED
    BY <2>1, <2>2, <2>3, <2>4, <1>1, <1>3 DEF ValidateInv, Kept
<1> QED
  BY <1>4, <1>5

(* The last check: a kept change never fails it, and without change it      *)
(* fails only when there was too little for the fee.                        *)
LEMMA ValidateStep == IInv /\ Validate => DoneInv' /\ Policy!Decide
<1> SUFFICES ASSUME IInv, Validate
             PROVE  DoneInv' /\ Policy!Decide
  OBVIOUS
<1>1. /\ TypeOK /\ tx' = tx /\ change' = change /\ change \in Int
      /\ tx.leftover \in Nat /\ pc = "validate" /\ pc' = "done"
      /\ tx.fits /\ Content(change) <= MaxU64
      /\ Kept \/ NotKept
  BY TxType, MaxU64Assumption
     DEF IInv, ValidateInv, Validate, Return, TypeOK, SignFails, Content
<1>2. PICK k \in 0 .. tx.spread :
        /\ Sign(change, k)
        /\ outcome' = IF Diff(change) < tx.rate * SignedSize(change, k) THEN "FEE_TOO_LOW"
                      ELSE IF tx.payees = 0 /\ change <= 0 THEN "CHANGE_IS_TOO_SMALL"
                      ELSE "ok"
  BY DEF Validate, Return, PaysNobody
<1>3. /\ Content(change) \in DOMAIN slack' /\ slack'[Content(change)] = k
      /\ \A x \in DOMAIN slack : slack'[x] = slack[x]
  BY <1>1, <1>2, SignRemembers
<1>4. /\ tx.rate * SignedSize(change, k) = SignedSize(change, k) * tx.rate
      /\ SignedSize(change, k) * tx.rate \in Nat
      /\ DearestFee \in Nat /\ DearestFee' = DearestFee
      /\ Diff(change) = tx.leftover - change /\ Diff(change)' = Diff(change)
  <2>1. SignedSize(change, k) \in Int /\ tx.rate \in Int
    BY <1>1, TxType, OutputSizeAssumption DEF SignedSize, ChangeOutput
  <2> QED
    BY <2>1, <1>1, <1>2, SignedCost, SizeCost DEF DearestFee, Diff
<1>5. CASE Kept
  <2>1. change > 0 /\ Content(change) = change /\ change # 0
    BY <1>1, <1>5, DustAssumption DEF Kept, Content
  <2>2. SignedSize(change, k) = SizeWithChange(slack[change])
    BY <2>1, <1>1, <1>2, <1>3, <1>5, SignedCost DEF Kept
  <2>3. outcome' = "ok" /\ SignedSize(change, k) * tx.rate <= Diff(change)
    BY <2>1, <2>2, <1>1, <1>2, <1>4, <1>5 DEF Kept
  <2>4. Done("ok")' /\ ~Done("FEE_TOO_LOW")'
    BY <2>3, <1>1 DEF Done
  <2>5. DoneInv'
    BY <2>1, <2>4, <1>1, <1>4, <1>5
       DEF DoneInv, NoDustChange, FeeIsBounded, FailsOnlyIfUnpayable, Kept
  <2>6. Policy!Acceptable(change)
    <3>1. slack[change] \in 0 .. tx.spread
      BY <1>1, <1>5 DEF TypeOK, Kept
    <3>2. (tx.base + OutputSize) * tx.rate <= Diff(change)
      <4>1. /\ (tx.base + OutputSize) * tx.rate \in Nat
            /\ (tx.base + OutputSize) * tx.rate <= SizeWithChange(slack[change]) * tx.rate
            /\ SizeWithChange(slack[change]) * tx.rate \in Nat
        BY <3>1, <1>1, PolicyCost, SizeCost
      <4> QED
        BY <4>1, <1>1, <1>4, <1>5 DEF Kept
    <3> QED
      BY <3>2, <2>1, <1>1, <1>4, <1>5
         DEF Policy!Acceptable, Policy!Fee, Policy!CheapestFee, Policy!DearestFee,
             DearestFee, Kept
  <2> QED
    BY <2>3, <2>4, <2>5, <2>6, <1>1 DEF Policy!Decide, Done
<1>6. CASE NotKept
  <2>1. /\ change = 0 /\ Content(change) = 0 /\ Diff(change) = tx.leftover
        /\ SignedSize(change, k) = tx.base + k
        /\ tx.hasChange => tx.leftover < DearestFee + Dust
    BY <1>1, <1>2, <1>4, <1>6, SignedCost DEF NotKept, Content
  <2>2. /\ (tx.base + k) * tx.rate \in Nat
        /\ (tx.base + 0) * tx.rate \in Nat
        /\ (tx.base + tx.spread) * tx.rate \in Nat
        /\ (tx.base + 0) * tx.rate <= (tx.base + k) * tx.rate
        /\ (tx.base + k) * tx.rate <= (tx.base + tx.spread) * tx.rate
    BY <1>1, <1>2, SizeCost, PolicyCost
  <2>3. outcome' = IF tx.leftover < (tx.base + k) * tx.rate THEN "FEE_TOO_LOW"
                   ELSE IF tx.payees = 0 THEN "CHANGE_IS_TOO_SMALL" ELSE "ok"
    BY <2>1, <1>2, <1>4
  <2>4. DoneInv'
    <3>1. slack'[0] = k /\ 0 \in DOMAIN slack'
      BY <2>1, <1>3
    <3>2. NoDustChange'
      BY <2>1, <1>1 DEF NoDustChange
    <3>3. FeeIsBounded'
      BY <2>1, <1>1, <1>4 DEF FeeIsBounded
    <3>4. FailsOnlyIfUnpayable'
      BY <3>1, <2>3, <1>1 DEF FailsOnlyIfUnpayable, Done
    <3> QED
      BY <3>2, <3>3, <3>4 DEF DoneInv
  <2>5. CASE outcome' = "ok"
    <3>1. Policy!Acceptable(0)
      BY <2>1, <2>2, <2>3, <2>5, <1>1, <1>4, DustAssumption, MaxU64Assumption
         DEF Policy!Acceptable, Policy!Fee, Policy!CheapestFee, Policy!DearestFee,
             DearestFee
    <3> QED
      BY <3>1, <2>1, <2>4, <2>5, <1>1 DEF Policy!Decide, Done
  <2>6. CASE outcome' # "ok"
    <3>1. outcome' \in Policy!Failures /\ Policy!Justified(outcome')
      <4>1. CASE tx.leftover < (tx.base + k) * tx.rate
        <5>1. /\ outcome' = "FEE_TOO_LOW"
              /\ tx.leftover < (tx.base + tx.spread) * tx.rate
          BY <4>1, <2>2, <2>3, <1>1
        <5> QED
          BY <5>1 DEF Policy!Failures, Policy!Justified
      <4>2. CASE ~(tx.leftover < (tx.base + k) * tx.rate)
        <5>1. /\ outcome' = "CHANGE_IS_TOO_SMALL" /\ tx.payees = 0
              /\ tx.hasChange => tx.leftover < Policy!DearestFee + Dust
          BY <4>2, <2>1, <2>3, <2>6 DEF Policy!DearestFee, DearestFee
        <5> QED
          BY <5>1 DEF Policy!Failures, Policy!Justified
      <4> QED
        BY <4>1, <4>2
    <3> QED
      BY <3>1, <2>4, <2>6, <1>1 DEF Policy!Decide, Done
  <2> QED
    BY <2>5, <2>6
<1> QED
  BY <1>1, <1>5, <1>6

(* sign() throws only on an amount that does not fit. *)
LEMMA ThrowStep == IInv /\ SignThrows => DoneInv' /\ Policy!Decide
<1> SUFFICES ASSUME IInv, SignThrows
             PROVE  DoneInv' /\ Policy!Decide
  OBVIOUS
<1>1. /\ TypeOK /\ tx' = tx /\ change \in Int /\ tx.leftover \in Nat
      /\ pc \notin {"idle", "done"} /\ pc' = "done" /\ outcome' = "AMOUNT_TOO_BIG"
  BY TxType DEF IInv, SignThrows, Return, TypeOK
<1>2. DoneInv'
  BY <1>1 DEF DoneInv, NoDustChange, FeeIsBounded, FailsOnlyIfUnpayable, Done
<1>3. ~tx.fits \/ (tx.hasChange /\ tx.leftover > MaxU64)
  <2>1. CASE pc = "clear"
    BY <2>1, MaxU64Assumption DEF SignThrows, SignFails, Cleared, Content
  <2>2. CASE pc = "shrink"
    BY <2>2, <1>1, MaxU64Assumption
       DEF IInv, ShrinkInv, SignThrows, SignFails, Content, Diff
  <2>3. CASE pc = "validate"
    BY <2>3, <1>1, MaxU64Assumption, DustAssumption
       DEF IInv, ValidateInv, Kept, NotKept, SignThrows, SignFails, Content
  <2> QED
    BY <2>1, <2>2, <2>3 DEF SignThrows
<1> QED
  BY <1>1, <1>2, <1>3 DEF Policy!Decide, Policy!Failures, Policy!Justified, Done

(* Every step preserves the inductive invariant and is, for the policy, its *)
(* own step or none.                                                        *)
LEMMA Step == IInv /\ TypeOK' /\ [Next]_vars => IInv' /\ [Policy!Next]_Policy!vars
<1> SUFFICES ASSUME IInv, TypeOK', [Next]_vars
             PROVE  IInv' /\ [Policy!Next]_Policy!vars
  OBVIOUS
<1>1. CASE Modify
  <2>1. ClearInv' /\ ShrinkInv' /\ ValidateInv' /\ DoneInv' /\ ZeroInv'
    BY <1>1 DEF Modify, Idle, ClearInv, ShrinkInv, ValidateInv, ZeroInv, DoneInv, NoDustChange,
        FeeIsBounded, FailsOnlyIfUnpayable, Done
  <2>2. Policy!Modify
    BY <1>1 DEF Modify, Idle, Policy!Modify, Policy!Idle, Done
  <2> QED
    BY <2>1, <2>2 DEF IInv, Policy!Next
<1>2. CASE Begin(Transactions)
  <2>1. ClearInv' /\ ShrinkInv' /\ ValidateInv' /\ DoneInv' /\ ZeroInv'
    BY <1>2 DEF Begin, ClearInv, ShrinkInv, ValidateInv, ZeroInv, NotKept, DoneInv, NoDustChange,
        FeeIsBounded, FailsOnlyIfUnpayable, Done
  <2>2. Policy!Begin
    BY <1>2 DEF Begin, Policy!Begin, Done
  <2> QED
    BY <2>1, <2>2 DEF IInv, Policy!Next
<1>3. CASE Repeat
  <2>1. ClearInv' /\ ShrinkInv' /\ ValidateInv' /\ DoneInv' /\ ZeroInv'
    BY <1>3 DEF IInv, Repeat, ClearInv, ShrinkInv, ValidateInv, ZeroInv, NotKept, DoneInv, NoDustChange,
        FeeIsBounded, FailsOnlyIfUnpayable, Done
  <2>2. Policy!Repeat
    BY <1>3 DEF Repeat, Policy!Repeat, Done
  <2> QED
    BY <2>1, <2>2 DEF IInv, Policy!Next
<1>4. ASSUME Clear \/ Shrink \/ Settle
      PROVE  IInv' /\ UNCHANGED Policy!vars
  <2>1. /\ pc \in {"clear", "shrink"} /\ pc' \in {"shrink", "validate"}
        /\ tx' = tx /\ outcome' = outcome
    BY <1>4 DEF Clear, Shrink, Settle
  <2>2. ClearInv' /\ DoneInv' /\ ZeroInv' /\ UNCHANGED Policy!vars
    BY <2>1 DEF ClearInv, ZeroInv, DoneInv, NoDustChange, FeeIsBounded, FailsOnlyIfUnpayable,
        Policy!vars, Done
  <2>3. ShrinkInv' /\ ValidateInv'
    <3>1. CASE Clear
      BY <3>1, ClearStep
    <3>2. CASE Shrink
      BY <3>2, ShrinkStep DEF Shrink, ValidateInv
    <3>3. CASE Settle
      BY <3>3, SettleStep DEF Settle, ShrinkInv
    <3> QED
      BY <1>4, <3>1, <3>2, <3>3
  <2> QED
    BY <2>2, <2>3 DEF IInv
<1>5. ASSUME Validate \/ SignThrows
      PROVE  IInv' /\ Policy!Decide
  <2>1. DoneInv' /\ Policy!Decide
    BY <1>5, ValidateStep, ThrowStep
  <2>2. pc' = "done"
    BY <1>5 DEF Validate, SignThrows, Return
  <2>3. ZeroInv'
    <3>1. tx' = tx /\ change \in Int
      BY <1>5 DEF IInv, TypeOK, Validate, SignThrows
    <3>2. CASE pc = "clear"
      BY <1>5, <3>1, <3>2 DEF Validate, SignThrows, Cleared, IInv, ClearInv, ZeroInv
    <3>3. CASE pc = "shrink"
      BY <1>5, <3>1, <3>3, MaxU64Assumption
         DEF Validate, SignThrows, SignFails, Content, IInv, ShrinkInv, ZeroInv
    <3>4. CASE pc = "validate"
      BY <1>5, <3>1, <3>4, DustAssumption
         DEF Validate, SignThrows, IInv, ValidateInv, Kept, NotKept, ZeroInv
    <3> QED
      BY <1>5, <3>2, <3>3, <3>4 DEF Validate, SignThrows
  <2> QED
    BY <2>1, <2>2, <2>3 DEF IInv, ClearInv, ShrinkInv, ValidateInv
<1>6. CASE UNCHANGED vars
  BY <1>6 DEF vars, IInv, TypeOK, ClearInv, ShrinkInv, ValidateInv, Kept, NotKept, ZeroInv, DoneInv,
      NoDustChange, FeeIsBounded, FailsOnlyIfUnpayable, Done, Diff, SizeWithChange,
      DearestFee, Policy!vars
<1> QED
  BY <1>1, <1>2, <1>3, <1>4, <1>5, <1>6 DEF Next, Compute, Policy!Next

(* The computation starts where the policy does. *)
LEMMA InitStep == Init => IInv /\ Policy!Init
  BY DEF Init, IInv, TypeOK, NothingSigned, NotShown, Outcomes, ClearInv, ShrinkInv,
      ValidateInv, ZeroInv, DoneInv, NoDustChange, FeeIsBounded, FailsOnlyIfUnpayable, Done,
      Policy!Init, Policy!Idle

(* Every reachable state satisfies the inductive invariant. *)
THEOREM Invariance == Spec => []IInv
  BY TypeCorrect, InitStep, Step, PTL DEF Spec

(* A successful update() leaves no dust and no negative change. *)
THEOREM NoDustChangeHolds == Spec => []NoDustChange
<1>1. IInv => NoDustChange
  BY DEF IInv, DoneInv
<1> QED
  BY <1>1, Invariance, PTL

(* The fee of a transaction with change is bounded, whatever the lengths of *)
(* the signatures.                                                          *)
THEOREM FeeIsBoundedHolds == Spec => []FeeIsBounded
<1>1. IInv => FeeIsBounded
  BY DEF IInv, DoneInv
<1> QED
  BY <1>1, Invariance, PTL

(* FEE_TOO_LOW means that the transaction could not be paid for at all. *)
THEOREM FailsOnlyIfUnpayableHolds == Spec => []FailsOnlyIfUnpayable
<1>1. IInv => FailsOnlyIfUnpayable
  BY DEF IInv, DoneInv
<1> QED
  BY <1>1, Invariance, PTL

(* The computation implements the policy. *)
THEOREM Refinement == Spec => ImplementsPolicy
  BY TypeCorrect, Invariance, InitStep, Step, PTL DEF Spec, ImplementsPolicy, Policy!Spec

-----------------------------------------------------------------------------
(***************************************************************************)
(* Why an update() that is repeated ends as the first did.  Nothing of the *)
(* way the first one took is left but the lengths of the signatures it met *)
(* (slack), so the invariant says that these lengths lead every later      *)
(* update() the same way: through a set of amounts of the change, each of  *)
(* which was signed and but for the last led to another of the set.        *)
(***************************************************************************)

(* What the steps read, whatever the set of transactions. *)
Typed ==
    /\ tx \in Summary
    /\ DOMAIN slack \subseteq Nat /\ slack \in [DOMAIN slack -> 0 .. tx.spread]
    /\ change \in Int /\ shown \in Outcomes \X Int

(* The content of this change was signed before; its length is known.      *)
Measured(c) == ~SignFails(c) /\ Content(c) \in DOMAIN slack
Length(c) == slack[Content(c)]
IsShort(c) == SignedSize(c, Length(c)) * tx.rate > Diff(c)

(* What Clear will find to be left for the change.                         *)
Remainder == Diff(Cleared) - SizeWithChange(Length(Cleared)) * tx.rate

(* Shrinking leads from the remainder through amounts of this set to last. *)
Leads(amounts, last) ==
    /\ Measured(Cleared) /\ ~IsDust(Remainder)
    /\ Cleared + Remainder \in amounts /\ last \in amounts
    /\ \A c \in amounts : \/ c = last
                          \/ /\ Measured(c) /\ IsShort(c)
                             /\ c - Shortage(c, Length(c)) \in amounts

(* ... where it settles for c.                                             *)
Settles(amounts, last, c) ==
    /\ Leads(amounts, last)
    /\ Measured(last) /\ ~IsShort(last)
    /\ c = IF IsDust(last) THEN 0 ELSE last

(* What the known lengths make of the change, and then of the transaction. *)
EndsWith(c) ==
    IF ~tx.hasChange THEN c = 0
    ELSE /\ Measured(Cleared)
         /\ IF IsDust(Remainder) THEN c = Cleared
            ELSE \E amounts \in SUBSET Int, last \in Int : Settles(amounts, last, c)
Judged(c) ==
    IF Diff(c) < tx.rate * SignedSize(c, Length(c)) THEN "FEE_TOO_LOW"
    ELSE IF tx.payees = 0 /\ c <= 0 THEN "CHANGE_IS_TOO_SMALL" ELSE "ok"

IsRepeat == shown[1] # "none"

(* A result that the known lengths lead to.                                *)
Recorded(result) == \E c \in Int : EndsWith(c) /\ Measured(c) /\ result = <<Judged(c), c>>

RepeatInv ==
    /\ pc = "idle" => ~IsRepeat
    /\ pc \in {"clear", "shrink"} => tx.hasChange
    /\ pc \notin {"idle", "done"} /\ IsRepeat => Recorded(shown)
    /\ pc = "shrink" =>
         \E amounts \in SUBSET Int, last \in Int :
            IF IsRepeat
            THEN change \in amounts /\ \E c \in Int : Settles(amounts, last, c) /\ c = shown[2]
            ELSE change = last /\ Leads(amounts, last)
    /\ pc = "validate" => /\ \E c \in Int : EndsWith(c) /\ c = change
                          /\ IsRepeat => change = shown[2]
    /\ pc = "done" /\ outcome # "AMOUNT_TOO_BIG" => Recorded(<<outcome, change>>)
    /\ pc = "done" /\ IsRepeat => shown = <<outcome, change>> /\ outcome # "AMOUNT_TOO_BIG"

(* A content that was signed is known from then on, and signing repeats the *)
(* length that is known.                                                   *)
LEMMA SignMeasures ==
    ASSUME Typed, NEW c \in Int, NEW k, Sign(c, k), ~SignFails(c), tx' = tx
    PROVE  /\ Measured(c)' /\ k = Length(c)' /\ k \in 0 .. tx.spread
           /\ Measured(c) => k = Length(c)
           /\ \A x \in Int : Measured(x) => Measured(x)' /\ Length(x)' = Length(x)
<1>1. Content(c) \in Nat
  BY DEF Content
<1>2. /\ DOMAIN slack' = DOMAIN slack \cup {Content(c)} /\ slack'[Content(c)] = k
      /\ \A x \in DOMAIN slack : slack'[x] = slack[x]
      /\ k \in 0 .. tx.spread /\ (Content(c) \in DOMAIN slack => k = slack[Content(c)])
  BY <1>1 DEF Sign, Typed
<1>3. \A x : SignFails(x)' <=> SignFails(x)
  BY DEF SignFails, Content
<1>4. \A x : Content(x)' = Content(x)
  BY DEF Content
<1> QED
  BY <1>2, <1>3, <1>4 DEF Measured, Length

(* Whatever was led to once still is when more contents are known. *)
LEMMA LeadsIsKept ==
    ASSUME tx' = tx, \A x \in Int : Measured(x) => Measured(x)' /\ Length(x)' = Length(x)
    PROVE  /\ \A amounts \in SUBSET Int, last \in Int : Leads(amounts, last) => Leads(amounts, last)'
           /\ \A amounts \in SUBSET Int, last \in Int, c \in Int :
                Settles(amounts, last, c) => Settles(amounts, last, c)'
           /\ \A c \in Int : EndsWith(c) => EndsWith(c)'
           /\ \A c \in Int : Measured(c) => Judged(c)' = Judged(c)
<1>1. \A c \in Int : Measured(c) => /\ IsShort(c)' <=> IsShort(c)
                                  /\ Shortage(c, Length(c))' = Shortage(c, Length(c))
                                  /\ Judged(c)' = Judged(c)
  BY DEF IsShort, Shortage, Judged, SignedSize, ChangeOutput, Diff
<1>2. Measured(Cleared) => Measured(Cleared)' /\ Remainder' = Remainder
  BY DEF Cleared, Remainder, SizeWithChange, Diff
<1>3. \A amounts \in SUBSET Int, last \in Int : Leads(amounts, last) => Leads(amounts, last)'
  BY <1>1, <1>2 DEF Leads, IsDust, Cleared
<1>4. \A amounts \in SUBSET Int, last \in Int, c \in Int :
        Settles(amounts, last, c) => Settles(amounts, last, c)'
  BY <1>1, <1>3 DEF Settles, IsDust
<1>5. \A c \in Int : EndsWith(c) => EndsWith(c)'
  BY <1>2, <1>4 DEF EndsWith, IsDust, Cleared
<1> QED
  BY <1>1, <1>3, <1>4, <1>5

(* What was recorded still is after another signature. *)
LEMMA RecordedIsKept ==
    ASSUME UNCHANGED <<tx, shown>>, Recorded(shown),
           \A x \in Int : Measured(x) => Measured(x)' /\ Length(x)' = Length(x)
    PROVE  Recorded(shown)'
<1>1. PICK c \in Int : EndsWith(c) /\ Measured(c) /\ shown = <<Judged(c), c>>
  BY DEF Recorded
<1>2. EndsWith(c)' /\ Measured(c)' /\ Judged(c)' = Judged(c)
  BY <1>1, LeadsIsKept
<1> QED
  BY <1>1, <1>2 DEF Recorded

(* The caller has the transaction, or update() starts on it, for the first *)
(* time or again.                                                          *)
LEMMA RepeatKeptOutside ==
    ASSUME Typed, RepeatInv,
           \/ \E c : Idle(c)
           \/ \E candidates : Begin(candidates)
           \/ Repeat
           \/ UNCHANGED vars
    PROVE  RepeatInv'
<1>1. CASE \E c : Idle(c)
  BY <1>1 DEF Idle, RepeatInv, IsRepeat, NotShown
<1>2. CASE \E candidates : Begin(candidates)
  <2>1. change' \in Int
    BY <1>2 DEF Begin, Typed
  <2> QED
    BY <1>2, <2>1 DEF Begin, RepeatInv, IsRepeat, EndsWith
<1>3. UNCHANGED <<tx, slack>> =>
        /\ \A x \in Int : Measured(x) => Measured(x)' /\ Length(x)' = Length(x)
  BY DEF Measured, Length, SignFails, Content
<1>4. CASE Repeat
  <2>1. Recorded(<<outcome, change>>) /\ UNCHANGED <<tx, slack, change>> /\ shown' = <<outcome, change>>
    BY <1>4 DEF Repeat, RepeatInv
  <2>2. PICK c \in Int : EndsWith(c) /\ Measured(c) /\ <<outcome, change>> = <<Judged(c), c>>
    BY <2>1 DEF Recorded
  <2>3. EndsWith(c)' /\ Measured(c)' /\ Judged(c)' = Judged(c)
    BY <2>1, <2>2, <1>3, LeadsIsKept
  <2>4. Recorded(shown)' /\ \E x \in Int : EndsWith(x)' /\ x = change' /\ change' = shown'[2]
    BY <2>1, <2>2, <2>3 DEF Recorded
  <2> QED
    BY <1>4, <2>4 DEF Repeat, RepeatInv
<1>5. CASE UNCHANGED vars
  BY <1>5 DEF vars, RepeatInv, IsRepeat, Recorded, EndsWith, Measured, Judged, Settles, Leads, IsShort, Shortage,
       Remainder, SignFails, Length, Diff, SignedSize, SizeWithChange, Content, ChangeOutput, IsDust, Cleared
<1> QED
  BY <1>1, <1>2, <1>4, <1>5

(* Clearing the change and assigning what is left. *)
LEMMA ClearRepeats == ASSUME Typed, Typed', RepeatInv, Clear PROVE RepeatInv'
<1>1. pc = "clear" /\ tx.hasChange /\ UNCHANGED <<tx, outcome, shown>> /\ ~SignFails(Cleared) /\ Cleared \in Int
  BY DEF Clear, Cleared, RepeatInv
<1>2. PICK k \in 0 .. tx.spread :
        /\ Sign(Cleared, k)
        /\ LET remainder == Diff(Cleared) - SizeWithChange(k) * tx.rate
           IN  IF IsDust(remainder)
               THEN change' = Cleared /\ pc' = "validate"
               ELSE change' = Cleared + remainder /\ pc' = "shrink"
  BY DEF Clear
<1>3. /\ Measured(Cleared)' /\ k = Length(Cleared)' /\ (Measured(Cleared) => k = Length(Cleared))
      /\ \A x \in Int : Measured(x) => Measured(x)' /\ Length(x)' = Length(x)
  BY <1>1, <1>2, SignMeasures
<1>4. IF IsDust(Remainder)' THEN change' = Cleared /\ pc' = "validate"
      ELSE change' = Cleared + Remainder' /\ pc' = "shrink"
  BY <1>1, <1>2, <1>3 DEF Remainder, Diff, SizeWithChange, IsDust, Cleared
<1>5. change' \in Int
  BY DEF Typed
<1>6. IsRepeat => IsRepeat' /\ Recorded(shown)'
  BY <1>1, <1>3, RecordedIsKept DEF RepeatInv, IsRepeat
<1>7. IsRepeat' => IsRepeat
  BY <1>1 DEF IsRepeat
<1>8. CASE IsDust(Remainder)'
  <2>1. EndsWith(Cleared)' /\ Cleared' = Cleared
    BY <1>1, <1>3, <1>8 DEF EndsWith, Cleared
  <2>2. IsRepeat' => change' = shown'[2]
    BY <1>1, <1>3, <1>4, <1>6, <1>7, <1>8 DEF Recorded, EndsWith, Cleared
  <2> QED
    BY <1>1, <1>4, <1>6, <1>7, <1>8, <2>1, <2>2 DEF RepeatInv
<1>9. CASE ~IsDust(Remainder)'
  <2>1. CASE IsRepeat
    <3>1. PICK c \in Int : EndsWith(c)' /\ shown' = <<Judged(c)', c>>
      BY <1>6, <2>1 DEF Recorded
    <3>2. PICK amounts \in SUBSET Int, last \in Int : Settles(amounts, last, c)'
      BY <1>1, <1>9, <3>1 DEF EndsWith
    <3>3. change' \in amounts
      BY <1>4, <1>9, <3>2 DEF Settles, Leads, Cleared
    <3> QED
      BY <1>1, <1>4, <1>6, <1>9, <2>1, <3>1, <3>2, <3>3 DEF RepeatInv
  <2>2. CASE ~IsRepeat
    <3>1. PICK c \in Int : c = change'
      BY <1>5
    <3>2. Leads({c}, c)'
      BY <1>3, <1>4, <1>9, <3>1 DEF Leads, Cleared
    <3> QED
      BY <1>1, <1>4, <1>7, <1>9, <2>2, <3>1, <3>2 DEF RepeatInv
  <2> QED
    BY <2>1, <2>2
<1> QED
  BY <1>8, <1>9

(* Signing the change as it is, which every later step starts with. *)
LEMMA ChangeIsMeasured ==
    ASSUME Typed, NEW k \in 0 .. tx.spread, Sign(change, k), ~SignFails(change), UNCHANGED <<tx, shown>>
    PROVE  \E c \in Int :
             /\ c = change
             /\ Measured(c)' /\ k = Length(c)' /\ (Measured(c) => k = Length(c))
             /\ \A x \in Int : Measured(x) => Measured(x)' /\ Length(x)' = Length(x)
             /\ IsRepeat' <=> IsRepeat
             /\ IsRepeat /\ Recorded(shown) => Recorded(shown)'
             /\ IsShort(c)' <=> SignedSize(c, k) * tx.rate > Diff(c)
             /\ Shortage(c, Length(c))' = Shortage(c, k)
             /\ Judged(c)' = IF Diff(c) < tx.rate * SignedSize(c, k) THEN "FEE_TOO_LOW"
                             ELSE IF tx.payees = 0 /\ c <= 0 THEN "CHANGE_IS_TOO_SMALL" ELSE "ok"
<1>1. PICK c \in Int : c = change
  BY DEF Typed
<1>2. /\ Measured(c)' /\ k = Length(c)' /\ (Measured(c) => k = Length(c))
      /\ \A x \in Int : Measured(x) => Measured(x)' /\ Length(x)' = Length(x)
  BY <1>1, SignMeasures
<1>3. IsRepeat /\ Recorded(shown) => Recorded(shown)'
  BY <1>2, RecordedIsKept
<1>4. /\ IsShort(c)' <=> SignedSize(c, k) * tx.rate > Diff(c)
      /\ Shortage(c, Length(c))' = Shortage(c, k)
      /\ Judged(c)' = IF Diff(c) < tx.rate * SignedSize(c, k) THEN "FEE_TOO_LOW"
                      ELSE IF tx.payees = 0 /\ c <= 0 THEN "CHANGE_IS_TOO_SMALL" ELSE "ok"
  BY <1>2 DEF IsShort, Shortage, Judged, SignedSize, ChangeOutput, Diff
<1> QED
  BY <1>1, <1>2, <1>3, <1>4 DEF IsRepeat

(* Shrinking: the first time the set of amounts grows by the next one, a   *)
(* repeated update() stays in the set.                                     *)
LEMMA ShrinkRepeats == ASSUME Typed, Typed', RepeatInv, Shrink PROVE RepeatInv'
<1>1. /\ pc = "shrink" /\ pc' = "shrink" /\ tx.hasChange
      /\ UNCHANGED <<tx, outcome, shown>> /\ ~SignFails(change)
  BY DEF Shrink, RepeatInv
<1>2. PICK k \in 0 .. tx.spread :
        /\ Sign(change, k)
        /\ SignedSize(change, k) * tx.rate > Diff(change)
        /\ change' = change - Shortage(change, k)
  BY DEF Shrink
<1>3. PICK c \in Int :
        /\ c = change /\ Measured(c)' /\ IsShort(c)' /\ change' = c - Shortage(c, Length(c))'
        /\ Measured(c) => k = Length(c)
        /\ \A x \in Int : Measured(x) => Measured(x)' /\ Length(x)' = Length(x)
        /\ IsRepeat' <=> IsRepeat
        /\ IsRepeat /\ Recorded(shown) => Recorded(shown)'
  BY <1>1, <1>2, ChangeIsMeasured
<1>4. PICK d \in Int : d = change'
  BY DEF Typed
<1>5. PICK amounts \in SUBSET Int, last \in Int :
        IF IsRepeat
        THEN change \in amounts /\ \E x \in Int : Settles(amounts, last, x) /\ x = shown[2]
        ELSE change = last /\ Leads(amounts, last)
  BY <1>1 DEF RepeatInv
<1>6. CASE IsRepeat
  <2>1. PICK x \in Int : Settles(amounts, last, x) /\ x = shown[2]
    BY <1>5, <1>6
  <2>2. Settles(amounts, last, x)'
    BY <1>1, <1>3, <2>1, LeadsIsKept
  <2>3. d \in amounts
    BY <1>3, <1>4, <1>5, <1>6, <2>2 DEF Settles, Leads
  <2>4. Recorded(shown)
    BY <1>1, <1>6 DEF RepeatInv
  <2> QED
    BY <1>1, <1>3, <1>4, <1>6, <2>1, <2>2, <2>3, <2>4 DEF RepeatInv
<1>7. CASE ~IsRepeat
  <2>1. Leads(amounts, c)'
    BY <1>1, <1>3, <1>5, <1>7, LeadsIsKept
  <2>2. Leads(amounts \cup {d}, d)'
    BY <1>3, <1>4, <2>1 DEF Leads
  <2>3. amounts \cup {d} \in SUBSET Int
    OBVIOUS
  <2> QED
    BY <1>1, <1>3, <1>4, <1>7, <2>2, <2>3 DEF RepeatInv
<1> QED
  BY <1>6, <1>7

(* Settling: the first time where shrinking led, and so the next times. *)
LEMMA SettleRepeats == ASSUME Typed, Typed', RepeatInv, Settle PROVE RepeatInv'
<1>1. /\ pc = "shrink" /\ pc' = "validate" /\ tx.hasChange
      /\ UNCHANGED <<tx, outcome, shown>> /\ ~SignFails(change)
      /\ change' = IF IsDust(change) THEN 0 ELSE change
  BY DEF Settle, RepeatInv
<1>2. PICK k \in 0 .. tx.spread :
        Sign(change, k) /\ SignedSize(change, k) * tx.rate <= Diff(change)
  BY DEF Settle
<1>3. PICK c \in Int :
        /\ c = change /\ Measured(c)'
        /\ IsShort(c)' <=> SignedSize(c, k) * tx.rate > Diff(c)
        /\ \A x \in Int : Measured(x) => Measured(x)' /\ Length(x)' = Length(x)
        /\ IsRepeat' <=> IsRepeat
        /\ IsRepeat /\ Recorded(shown) => Recorded(shown)'
  BY <1>1, <1>2, ChangeIsMeasured
<1>4. ~IsShort(c)'
  <2>1. SignedSize(change, k) * tx.rate \in Int /\ Diff(change) \in Int
    <3>1. tx.rate \in Int /\ tx.base \in Int /\ tx.leftover \in Int /\ tx.spread \in Int /\ change \in Int
      BY DEF Typed, Summary
    <3>2. SignedSize(change, k) \in Int
      BY <3>1, OutputSizeAssumption DEF SignedSize, ChangeOutput
    <3> QED
      BY <3>1, <3>2 DEF Diff
  <2> QED
    BY <1>2, <1>3, <2>1
<1>5. PICK amounts \in SUBSET Int, last \in Int :
        IF IsRepeat
        THEN change \in amounts /\ \E x \in Int : Settles(amounts, last, x) /\ x = shown[2]
        ELSE change = last /\ Leads(amounts, last)
  BY <1>1 DEF RepeatInv
<1>6. PICK d \in Int : d = change'
  BY DEF Typed
<1>7. Settles(amounts, c, d)' /\ (IsRepeat => change' = shown[2])
  <2>1. CASE IsRepeat
    <3>1. PICK x \in Int : Settles(amounts, last, x) /\ x = shown[2]
      BY <1>5, <2>1
    <3>2. Settles(amounts, last, x)'
      BY <1>1, <1>3, <3>1, LeadsIsKept
    <3>3. c = last
      BY <1>3, <1>4, <1>5, <2>1, <3>2 DEF Settles, Leads
    <3>4. d = x
      BY <1>1, <1>3, <1>6, <3>2, <3>3 DEF Settles, IsDust
    <3> QED
      BY <1>6, <3>1, <3>2, <3>3, <3>4
  <2>2. CASE ~IsRepeat
    <3>1. Leads(amounts, c)'
      BY <1>1, <1>3, <1>5, <2>2, LeadsIsKept
    <3> QED
      BY <1>1, <1>3, <1>4, <1>6, <2>2, <3>1 DEF Settles, IsDust
  <2> QED
    BY <2>1, <2>2
<1>8. EndsWith(d)'
  BY <1>1, <1>7 DEF EndsWith, Settles, Leads
<1>9. IsRepeat => Recorded(shown)
  BY <1>1 DEF RepeatInv
<1> QED
  BY <1>1, <1>3, <1>6, <1>7, <1>8, <1>9 DEF RepeatInv

(* The last check, of the same change and of the same size. *)
LEMMA ValidateRepeats == ASSUME Typed, Typed', RepeatInv, Validate PROVE RepeatInv'
<1>1. /\ pc = "validate" /\ pc' = "done" /\ UNCHANGED <<tx, change, shown>> /\ ~SignFails(change)
  BY DEF Validate, Return
<1>2. PICK k \in 0 .. tx.spread :
        /\ Sign(change, k)
        /\ outcome' = IF Diff(change) < tx.rate * SignedSize(change, k) THEN "FEE_TOO_LOW"
                      ELSE IF tx.payees = 0 /\ change <= 0 THEN "CHANGE_IS_TOO_SMALL"
                      ELSE "ok"
  BY DEF Validate, Return, PaysNobody
<1>3. PICK c \in Int :
        /\ c = change /\ Measured(c)' /\ Judged(c)' = outcome'
        /\ \A x \in Int : Measured(x) => Measured(x)' /\ Length(x)' = Length(x)
        /\ IsRepeat' <=> IsRepeat
        /\ IsRepeat /\ Recorded(shown) => Recorded(shown)'
  BY <1>1, <1>2, ChangeIsMeasured
<1>4. EndsWith(c)'
  <2>1. EndsWith(c)
    BY <1>1, <1>3 DEF RepeatInv
  <2> QED
    BY <1>1, <1>3, <2>1, LeadsIsKept
<1>5. Recorded(<<outcome, change>>)'
  BY <1>1, <1>3, <1>4 DEF Recorded
<1>6. IsRepeat => shown = <<outcome', change>> /\ outcome' # "AMOUNT_TOO_BIG"
  <2> SUFFICES ASSUME IsRepeat PROVE shown = <<outcome', change>> /\ outcome' # "AMOUNT_TOO_BIG"
    OBVIOUS
  <2>1. Recorded(shown)' /\ change = shown[2]
    BY <1>1, <1>3 DEF RepeatInv
  <2>2. PICK x \in Int : shown = <<Judged(x)', x>>
    BY <1>1, <2>1 DEF Recorded
  <2>3. x = c
    BY <1>3, <2>1, <2>2
  <2> QED
    BY <1>2, <1>3, <2>2, <2>3
<1> QED
  BY <1>1, <1>3, <1>5, <1>6 DEF RepeatInv

(* What was signed once is signed again: a repeated update() never throws. *)
LEMMA ThrowRepeats == ASSUME Typed, Typed', RepeatInv, SignThrows PROVE RepeatInv'
<1>1. /\ pc' = "done" /\ outcome' = "AMOUNT_TOO_BIG" /\ UNCHANGED <<tx, slack, shown>>
      /\ \/ pc = "clear" /\ SignFails(Cleared)
         \/ pc = "shrink" /\ SignFails(change)
         \/ pc = "validate" /\ SignFails(change)
  BY DEF SignThrows, Return
<1>2. ~IsRepeat
  <2> SUFFICES ASSUME IsRepeat PROVE FALSE
    OBVIOUS
  <2>1. PICK c \in Int : EndsWith(c) /\ Measured(c) /\ shown = <<Judged(c), c>>
    BY <1>1 DEF RepeatInv, Recorded
  <2>2. CASE pc = "clear"
    BY <1>1, <2>1, <2>2 DEF RepeatInv, EndsWith, Measured
  <2>3. CASE pc = "shrink"
    <3>1. PICK amounts \in SUBSET Int, last \in Int :
            change \in amounts /\ \E x \in Int : Settles(amounts, last, x)
      BY <2>3 DEF RepeatInv
    <3> QED
      BY <1>1, <2>3, <3>1 DEF Settles, Leads, Measured
  <2>4. CASE pc = "validate"
    BY <1>1, <2>1, <2>4 DEF RepeatInv, Measured
  <2> QED
    BY <1>1, <2>2, <2>3, <2>4
<1> QED
  BY <1>1, <1>2 DEF RepeatInv, IsRepeat

(* Typed is what TypeOK says of what the steps read. *)
LEMMA TypeOKIsTyped == (TypeOK => Typed) /\ (TypeOK' => Typed')
<1>1. Blank \in Summary
  BY DEF Blank, Summary
<1> QED
  BY <1>1, TransactionsAssumption DEF TypeOK, Typed

(* What holds of the computation when its caller has just modified the     *)
(* transaction, and from any step to the next.                             *)
LEMMA IdleHolds == ASSUME NEW c \in Int, Idle(c) PROVE IInv' /\ RepeatInv'
  BY DEF Idle, IInv, TypeOK, NothingSigned, NotShown, Outcomes, ClearInv, ShrinkInv,
      ValidateInv, ZeroInv, DoneInv, NoDustChange, FeeIsBounded, FailsOnlyIfUnpayable, Done,
      RepeatInv, IsRepeat

LEMMA RepeatStep == ASSUME TypeOK, RepeatInv, [Next]_vars PROVE RepeatInv'
<1>1. Typed /\ Typed'
  BY TypeOKIsTyped, TypeStep
<1>2. CASE Modify \/ Begin(Transactions) \/ Repeat \/ UNCHANGED vars
  BY <1>1, <1>2, RepeatKeptOutside DEF Modify
<1>3. CASE Compute
  BY <1>1, <1>3, ClearRepeats, ShrinkRepeats, SettleRepeats, ValidateRepeats, ThrowRepeats DEF Compute
<1> QED
  BY <1>2, <1>3 DEF Next

(* While its transaction is not modified, update() ends as it did before:  *)
(* what serialize() sends is what the user was shown.                      *)
THEOREM RepeatIsStableHolds == Spec => []RepeatIsStable
<1>1. Init => RepeatInv
  BY DEF Init, RepeatInv, IsRepeat, NotShown
<1>2. TypeOK /\ RepeatInv /\ [Next]_vars => RepeatInv'
  BY RepeatStep
<1>3. RepeatInv => RepeatIsStable
  BY DEF RepeatInv, RepeatIsStable, IsRepeat
<1> QED
  BY <1>1, <1>2, <1>3, TypeCorrect, PTL DEF Spec
-----------------------------------------------------------------------------
(* What those who use the computation as a part need of it. *)
LEMMA ComputationStarts == Init => IInv /\ RepeatInv
  BY InitStep DEF Init, RepeatInv, IsRepeat, NotShown

LEMMA ComputationHolds == ASSUME IInv, RepeatInv, [Next]_vars PROVE IInv' /\ RepeatInv'
  BY TypeStep, RepeatStep, Step DEF IInv

(* A change that was judged to be good leaves a fee that pays for what was *)
(* signed.                                                                 *)
LEMMA JudgedPays ==
    ASSUME TypeOK, NEW c \in Int, Measured(c), Judged(c) = "ok"
    PROVE  Diff(c) \in Nat /\ Diff(c) >= tx.rate * (tx.base + ChangeOutput(c))
<1>1. tx.rate \in Nat /\ tx.base \in Nat /\ tx.spread \in Nat /\ tx.leftover \in Nat
  BY TxType
<1>2. PICK k \in 0 .. tx.spread : k = Length(c)
  BY <1>1 DEF Measured, Length, TypeOK
<1>3. ~(Diff(c) < tx.rate * SignedSize(c, k))
  BY <1>2 DEF Judged
<1>4. /\ ChangeOutput(c) \in Nat /\ k \in Nat
      /\ SignedSize(c, k) \in Nat /\ tx.base + ChangeOutput(c) \in Nat
      /\ tx.base + ChangeOutput(c) <= SignedSize(c, k)
  BY <1>1, OutputSizeAssumption DEF ChangeOutput, SignedSize
<1>5. /\ (tx.base + ChangeOutput(c)) * tx.rate <= SignedSize(c, k) * tx.rate
      /\ (tx.base + ChangeOutput(c)) * tx.rate \in Nat /\ SignedSize(c, k) * tx.rate \in Nat
  BY <1>1, <1>4, CostIsMonotonic
<1>6. /\ tx.rate * SignedSize(c, k) = SignedSize(c, k) * tx.rate
      /\ tx.rate * (tx.base + ChangeOutput(c)) = (tx.base + ChangeOutput(c)) * tx.rate
  BY <1>1, <1>4
<1>7. Diff(c) \in Int
  BY <1>1 DEF Diff
<1> QED
  BY <1>3, <1>5, <1>6, <1>7

(* A success leaves no dust and such a fee ... *)
LEMMA SuccessPays ==
    ASSUME IInv, RepeatInv, Done("ok")
    PROVE  /\ change = 0 \/ change >= Dust
           /\ Diff(change) \in Nat
           /\ Diff(change) >= tx.rate * (tx.base + ChangeOutput(change))
<1>1. TypeOK /\ change \in Int
  BY DEF IInv, TypeOK
<1>2. Measured(change) /\ Judged(change) = "ok"
  BY DEF RepeatInv, Done, Recorded
<1>3. Diff(change) \in Nat /\ Diff(change) >= tx.rate * (tx.base + ChangeOutput(change))
  BY <1>1, <1>2, JudgedPays
<1> QED
  BY <1>3 DEF IInv, DoneInv, NoDustChange

(* ... and so did the success that is repeated. *)
LEMMA ShownPays ==
    ASSUME IInv, RepeatInv, pc \notin {"idle", "done"}, shown[1] = "ok"
    PROVE  tx.leftover - shown[2] \in Nat
<1>1. TypeOK
  BY DEF IInv
<1>2. PICK c \in Int : Measured(c) /\ shown = <<Judged(c), c>>
  BY DEF RepeatInv, IsRepeat, Recorded
<1>3. Diff(c) \in Nat
  BY <1>1, <1>2, JudgedPays
<1> QED
  BY <1>2, <1>3 DEF Diff
=============================================================================
