---------------------- MODULE BitcoinTransactionProofs ----------------------
(***************************************************************************)
(* Theorems about BitcoinTransaction: for every dust limit and all sizes,  *)
(* amounts and rates, and any number of sources and destinations.  The     *)
(* invariant joins what BitcoinChangeProofs shows of the computation of    *)
(* the change with what SumProofs shows of the sums it starts from.        *)
(***************************************************************************)
EXTENDS BitcoinTransaction, SumProofs, FiniteSetTheorems, SequenceTheorems, TLAPS

(* The theorems about the computation of the change, of this transaction. *)
Computation == INSTANCE BitcoinChangeProofs WITH Transactions <- Summaries

DestinationWith(S) == [addressSet: BOOLEAN, amountSet: BOOLEAN, amount: S, isChange: BOOLEAN]

TypeInv ==
    /\ mainnet \in BOOLEAN
    /\ sources \in Seq(Source) /\ destinations \in Seq(Destination)
    /\ rate \in Nat /\ isReplaceable \in BOOLEAN /\ hasMessage \in BOOLEAN
    /\ call \in {"none", "update", "serialize"}

ComputationInv == Computation!IInv /\ Computation!RepeatInv

(* Only a change that is being computed can be negative. *)
AmountInv ==
    \A i \in DOMAIN destinations :
        destinations[i].amount \in Nat \/ (destinations[i].isChange /\ call # "none")

(* The computation is about this transaction, and the amount it moves is   *)
(* that of the change.                                                     *)
CurrentChange ==
    IF ChangeDestinations = {} THEN 0
    ELSE destinations[CHOOSE i \in ChangeDestinations : TRUE].amount
LinkInv ==
    /\ change = CurrentChange
    /\ pc # "idle" => tx = Summary /\ \A i, j \in ChangeDestinations : i = j

(* What verify() saw, the sums apart, stays true while the change moves.   *)
Verified ==
    /\ sources # <<>> /\ destinations # <<>>
    /\ IsComplete /\ Unspendable = {} /\ ~PaysDust
CallInv ==
    /\ status \in VerifyErrors \cup Solver!Outcomes \cup {"TOO_MANY_CHANGE_DESTINATIONS", "crash"}
    /\ call # "none" <=> pc \in {"clear", "shrink", "validate"}
    /\ call # "none" => status = "none" /\ Verified
    /\ status = "ok" => pc = "done" /\ outcome = "ok" /\ Verified
    /\ pc # "done" => outcome = "none"

(* A fee that was displayed or sent is that of the last computation; while *)
(* this is repeated, that of the one before.                               *)
FeeInv ==
    \A fee \in {displayed, sent} \ {NoFee} :
        IF call = "none" THEN status = "ok" /\ fee = tx.leftover - change
        ELSE shown[1] = "ok" /\ fee = tx.leftover - shown[2]

(* From its entry on, and until the caller has the object again, a call of *)
(* serialize() works on sequence numbers that say what was asked for.      *)
Signals ==
    \A i \in DOMAIN sources :
        sources[i].sequence = IF isReplaceable THEN "replaceable" ELSE "final"
SignalInv == call = "serialize" \/ sent # NoFee => Signals

IInv ==
    /\ TypeInv /\ ComputationInv /\ AmountInv /\ LinkInv
    /\ CallInv /\ FeeInv /\ SignalInv
-----------------------------------------------------------------------------
(* What BitcoinTransaction calls the steps of the computation are them. *)
LEMMA SameSteps ==
    /\ Solver!Init <=> Computation!Init
    /\ \A c : Solver!Idle(c) <=> Computation!Idle(c)
    /\ \A S : Solver!Begin(S) <=> Computation!Begin(S)
    /\ Solver!Repeat <=> Computation!Repeat
    /\ Solver!Compute <=> Computation!Compute
<1>1. /\ Solver!Init <=> Computation!Init
      /\ \A c : Solver!Idle(c) <=> Computation!Idle(c)
      /\ \A S : Solver!Begin(S) <=> Computation!Begin(S)
      /\ Solver!Repeat <=> Computation!Repeat
  BY DEF Solver!Init, Computation!Init, Solver!Idle, Computation!Idle, Solver!Begin, Computation!Begin,
     Solver!Repeat, Computation!Repeat, Solver!Blank, Computation!Blank,
     Solver!NothingSigned, Computation!NothingSigned, Solver!NotShown, Computation!NotShown
<1>2. Solver!Clear <=> Computation!Clear
  BY DEF Solver!Clear, Computation!Clear, Solver!SignFails, Computation!SignFails,
     Solver!Cleared, Computation!Cleared, Solver!Sign, Computation!Sign, Solver!Content, Computation!Content,
     Solver!Diff, Computation!Diff, Solver!SizeWithChange, Computation!SizeWithChange,
     Solver!IsDust, Computation!IsDust
<1>3. Solver!Shrink <=> Computation!Shrink
  BY DEF Solver!Shrink, Computation!Shrink, Solver!SignFails, Computation!SignFails,
     Solver!Sign, Computation!Sign, Solver!Content, Computation!Content, Solver!Diff, Computation!Diff,
     Solver!SignedSize, Computation!SignedSize, Solver!ChangeOutput, Computation!ChangeOutput,
     Solver!Shortage, Computation!Shortage
<1>4. Solver!Settle <=> Computation!Settle
  BY DEF Solver!Settle, Computation!Settle, Solver!SignFails, Computation!SignFails,
     Solver!Sign, Computation!Sign, Solver!Content, Computation!Content, Solver!Diff, Computation!Diff,
     Solver!SignedSize, Computation!SignedSize, Solver!ChangeOutput, Computation!ChangeOutput,
     Solver!IsDust, Computation!IsDust
<1>5. Solver!Validate <=> Computation!Validate
  BY DEF Solver!Validate, Computation!Validate, Solver!SignFails, Computation!SignFails,
     Solver!Sign, Computation!Sign, Solver!Content, Computation!Content, Solver!Diff, Computation!Diff,
     Solver!SignedSize, Computation!SignedSize, Solver!ChangeOutput, Computation!ChangeOutput,
     Solver!PaysNobody, Computation!PaysNobody, Solver!Return, Computation!Return
<1>6. Solver!SignThrows <=> Computation!SignThrows
  BY DEF Solver!SignThrows, Computation!SignThrows, Solver!SignFails, Computation!SignFails,
     Solver!Cleared, Computation!Cleared, Solver!Content, Computation!Content,
     Solver!Return, Computation!Return
<1> QED
  BY <1>1, <1>2, <1>3, <1>4, <1>5, <1>6 DEF Solver!Compute, Computation!Compute

LEMMA SummariesAre == Summaries \subseteq Computation!Summary
  BY DEF Summaries, Computation!Summary

(* A step of the computation, or none, keeps what is known of it. *)
LEMMA ComputationKeeps ==
    ASSUME ComputationInv,
           \/ Solver!Begin(Summaries) \/ Solver!Repeat \/ Solver!Compute
           \/ UNCHANGED solver
    PROVE  ComputationInv'
<1>1. [Computation!Next]_(Computation!vars)
  BY SameSteps DEF Computation!Next, Computation!vars, solver
<1> QED
  BY <1>1, Computation!ComputationHolds, LimitsAssumption, SummariesAre DEF ComputationInv

LEMMA ComputationIdles ==
    ASSUME NEW c \in Int, Solver!Idle(c)
    PROVE  ComputationInv' /\ pc' = "idle" /\ change' = c /\ outcome' = "none"
<1>1. Computation!Idle(c)
  BY SameSteps
<1>2. ComputationInv'
  BY <1>1, Computation!IdleHolds, LimitsAssumption, SummariesAre DEF ComputationInv
<1> QED
  BY <1>2 DEF Solver!Idle
-----------------------------------------------------------------------------
(* Sums of stored amounts are numbers. *)
LEMMA SumsAreNumbers ==
    ASSUME TypeInv
    PROVE  Available \in Int /\ \A I : Spent(I) \in Int
<1>1. Available \in Int
  <2>1. /\ Len(sources) \in Nat /\ DOMAIN sources = 1..Len(sources)
        /\ \A i \in 1..Len(sources) : sources[i] \in Source
    BY DEF TypeInv
  <2>2. [i \in DOMAIN sources |-> sources[i].amount] \in [1..Len(sources) -> Int]
    BY <2>1 DEF Source
  <2>3. [i \in DOMAIN sources |-> sources[i].amount] \in Seq(Int)
    BY <2>1, <2>2
  <2> QED
    BY <2>3, TotalIsInt DEF Available
<1>2. ASSUME NEW I PROVE Spent(I) \in Int
  <2>1. /\ Len(destinations) \in Nat /\ DOMAIN destinations = 1..Len(destinations)
        /\ \A i \in 1..Len(destinations) : destinations[i] \in Destination
    BY DEF TypeInv
  <2>2. [i \in DOMAIN destinations |-> IF i \in I THEN destinations[i].amount ELSE 0]
            \in [1..Len(destinations) -> Int]
    BY <2>1 DEF Destination
  <2>3. [i \in DOMAIN destinations |-> IF i \in I THEN destinations[i].amount ELSE 0] \in Seq(Int)
    BY <2>1, <2>2
  <2> QED
    BY <2>3, TotalIsInt DEF Spent
<1> QED
  BY <1>1, <1>2

(* With one change at most, it is all that the destinations get more than  *)
(* the payees.                                                             *)
LEMMA SpentSplits ==
    ASSUME TypeInv, \A i, j \in ChangeDestinations : i = j
    PROVE  Spent(DOMAIN destinations) = Spent(Payees) + CurrentChange
<1> DEFINE s == [i \in DOMAIN destinations |-> IF i \in Payees THEN destinations[i].amount ELSE 0]
           t == [i \in DOMAIN destinations |->
                    IF i \in DOMAIN destinations THEN destinations[i].amount ELSE 0]
<1>1. /\ Len(destinations) \in Nat /\ DOMAIN destinations = 1..Len(destinations)
      /\ \A i \in 1..Len(destinations) : destinations[i] \in Destination
  BY DEF TypeInv
<1>2. /\ s \in [1..Len(destinations) -> Int] /\ t \in [1..Len(destinations) -> Int]
  BY <1>1 DEF Destination
<1>3. /\ s \in Seq(Int) /\ t \in Seq(Int) /\ Len(s) = Len(destinations) /\ Len(t) = Len(s)
  BY <1>1, <1>2
<1>4. Spent(Payees) = Total(s) /\ Spent(DOMAIN destinations) = Total(t)
  BY DEF Spent
<1>5. CASE ChangeDestinations = {}
  <2>1. \A i \in DOMAIN destinations : i \in Payees
    BY <1>1, <1>5 DEF ChangeDestinations, Payees, Destination
  <2>2. s = t
    BY <2>1
  <2>3. Total(s) \in Int /\ CurrentChange = 0
    BY <1>3, <1>5, TotalIsInt DEF CurrentChange
  <2> QED
    BY <1>4, <2>2, <2>3
<1>6. CASE ChangeDestinations # {}
  <2>1. PICK k \in ChangeDestinations : k = CHOOSE i \in ChangeDestinations : TRUE
    BY <1>6
  <2>2. k \in 1..Len(s) /\ k \notin Payees /\ k \in DOMAIN destinations
    BY <1>1, <1>3, <2>1 DEF ChangeDestinations, Payees
  <2>3. ASSUME NEW i \in 1..Len(s), i # k PROVE t[i] = s[i]
    <3>1. i \in DOMAIN destinations /\ i \notin ChangeDestinations
      BY <1>1, <1>3, <2>3
    <3>2. i \in Payees
      BY <3>1 DEF ChangeDestinations, Payees
    <3> QED
      BY <3>1, <3>2
  <2>4. s[k] = 0 /\ t[k] = destinations[k].amount
    BY <2>2
  <2>5. CurrentChange = destinations[k].amount /\ destinations[k].amount \in Int
    BY <1>1, <1>6, <2>1, <2>2, <1>3 DEF CurrentChange, Destination
  <2> HIDE DEF s, t
  <2>6. Total(t) = Total(s) + (t[k] - s[k])
    BY <1>3, <2>2, <2>3, TotalOfChanged
  <2>7. Total(s) \in Int
    BY <1>3, TotalIsInt
  <2> QED
    BY <1>4, <2>4, <2>5, <2>6, <2>7
<1> QED
  BY <1>5, <1>6
-----------------------------------------------------------------------------
(* verify() has nothing against the transaction. *)
LEMMA VerdictIs == Verdict = "ok" <=> Verified /\ ~(CalculateDiff < 0)
  BY DEF Verdict, Verified

(* With no negative amount around, what is left out of the transaction     *)
(* adds nothing to the sum.                                                *)
LEMMA SpentPositive ==
    ASSUME TypeInv, AmountInv, call = "none"
    PROVE  Spent(Positive(DOMAIN destinations)) = Spent(DOMAIN destinations)
<1>1. \A i \in DOMAIN destinations : destinations[i].amount \in Nat
  BY DEF AmountInv
<1>2. \A i \in DOMAIN destinations :
        i \notin Positive(DOMAIN destinations) => destinations[i].amount = 0
  BY <1>1 DEF Positive
<1>3. [i \in DOMAIN destinations |->
           IF i \in Positive(DOMAIN destinations) THEN destinations[i].amount ELSE 0]
        = [i \in DOMAIN destinations |->
               IF i \in DOMAIN destinations THEN destinations[i].amount ELSE 0]
  BY <1>2
<1> QED
  BY <1>3 DEF Spent

(* The outputs that are written: those of the payees and that of the change. *)
LEMMA OutputsAre ==
    ASSUME TypeInv, \A i, j \in ChangeDestinations : i = j
    PROVE  LET payees == Cardinality(Positive(Payees))
           IN  /\ payees \in Nat
               /\ Cardinality(Positive(DOMAIN destinations)) =
                      IF CurrentChange > 0 THEN payees + 1 ELSE payees
<1>1. Len(destinations) \in Nat /\ DOMAIN destinations = 1..Len(destinations)
  BY DEF TypeInv
<1>2. IsFiniteSet(Positive(Payees)) /\ Cardinality(Positive(Payees)) \in Nat
  <2>1. IsFiniteSet(1..Len(destinations))
    BY <1>1, FS_Interval
  <2>2. Positive(Payees) \in SUBSET (1..Len(destinations))
    BY <1>1 DEF Positive, Payees
  <2> QED
    BY <2>1, <2>2, FS_Subset, FS_CardinalityType
<1>3. CASE ChangeDestinations = {}
  <2>1. Payees = DOMAIN destinations /\ CurrentChange = 0
    BY <1>3 DEF Payees, ChangeDestinations, CurrentChange
  <2> QED
    BY <1>2, <2>1
<1>4. CASE ChangeDestinations # {}
  <2>1. PICK k \in ChangeDestinations : k = CHOOSE i \in ChangeDestinations : TRUE
    BY <1>4
  <2>2. CurrentChange = destinations[k].amount /\ k \in DOMAIN destinations /\ k \notin Payees
    BY <1>4, <2>1 DEF CurrentChange, ChangeDestinations, Payees
  <2>3. DOMAIN destinations = Payees \cup {k}
    BY <2>1 DEF Payees, ChangeDestinations
  <2>4. CASE CurrentChange > 0
    <3>1. Positive(DOMAIN destinations) = Positive(Payees) \cup {k}
      BY <2>2, <2>3, <2>4 DEF Positive
    <3>2. k \notin Positive(Payees)
      BY <2>2 DEF Positive
    <3> QED
      BY <1>2, <2>4, <3>1, <3>2, FS_AddElement
  <2>5. CASE ~(CurrentChange > 0)
    <3>1. Positive(DOMAIN destinations) = Positive(Payees)
      BY <2>2, <2>3, <2>5 DEF Positive
    <3> QED
      BY <1>2, <2>5, <3>1
  <2> QED
    BY <2>4, <2>5
<1> QED
  BY <1>3, <1>4

(* The sizes that the computation starts from. *)
LEMMA SizesAre ==
    ASSUME TypeInv, \A i, j \in ChangeDestinations : i = j
    PROVE  /\ BaseSize \in Nat /\ Len(sources) \in Nat /\ Message \in Nat
           /\ Cardinality(Positive(Payees)) \in Nat
           /\ Overhead + Len(sources) * InputSize + Message * MessageSize
                + Cardinality(Positive(DOMAIN destinations)) * OutputSize
              = BaseSize + (IF CurrentChange > 0 THEN OutputSize ELSE 0)
<1>1. PICK n \in Nat : n = Len(sources)
  BY DEF TypeInv
<1>2. PICK p \in Nat : p = Cardinality(Positive(Payees))
  BY OutputsAre
<1>3. Cardinality(Positive(DOMAIN destinations)) = IF CurrentChange > 0 THEN p + 1 ELSE p
  BY <1>2, OutputsAre
<1>4. PICK m \in Nat : m = Message
  BY DEF Message
<1>5. n * InputSize \in Nat /\ m * MessageSize \in Nat /\ p * OutputSize \in Nat
  BY LimitsAssumption, SizesAssumption
<1>6. (p + 1) * OutputSize = p * OutputSize + OutputSize
  BY LimitsAssumption
<1>7. BaseSize = Overhead + n * InputSize + m * MessageSize + p * OutputSize
  BY <1>1, <1>2, <1>4 DEF BaseSize
<1>8. Overhead + Len(sources) * InputSize + Message * MessageSize
        + Cardinality(Positive(DOMAIN destinations)) * OutputSize
      = BaseSize + (IF CurrentChange > 0 THEN OutputSize ELSE 0)
  <2>1. CASE CurrentChange > 0
    <3>1. Cardinality(Positive(DOMAIN destinations)) * OutputSize = p * OutputSize + OutputSize
      BY <1>3, <1>6, <2>1
    <3> QED
      BY <1>1, <1>4, <1>5, <1>7, <2>1, <3>1, LimitsAssumption, SizesAssumption
  <2>2. CASE ~(CurrentChange > 0)
    <3>1. Cardinality(Positive(DOMAIN destinations)) * OutputSize = p * OutputSize
      BY <1>3, <2>2
    <3> QED
      BY <1>1, <1>4, <1>5, <1>7, <2>2, <3>1, LimitsAssumption, SizesAssumption
  <2> QED
    BY <2>1, <2>2
<1>9. BaseSize \in Nat
  BY <1>5, <1>7, SizesAssumption
<1> QED
  BY <1>1, <1>2, <1>4, <1>8, <1>9

(* What passed verify() is fit for the computation, *)
LEMMA SummaryTyped ==
    ASSUME TypeInv, AmountInv, call = "none", ~(CalculateDiff < 0),
           \A i, j \in ChangeDestinations : i = j
    PROVE  Summary \in Summaries
<1>1. Available \in Int /\ Spent(Payees) \in Int /\ Spent(DOMAIN destinations) \in Int
  BY SumsAreNumbers
<1>2. Spent(DOMAIN destinations) = Spent(Payees) + CurrentChange
  BY SpentSplits
<1>3. CurrentChange \in Nat
  BY DEF CurrentChange, ChangeDestinations, AmountInv
<1>4. Available - Spent(Payees) \in Nat
  BY <1>1, <1>2, <1>3 DEF CalculateDiff
<1>5. /\ BaseSize \in Nat /\ Len(sources) \in Nat /\ Cardinality(Positive(Payees)) + Message \in Nat
  BY SizesAre
<1>6. rate \in Nat /\ (ChangeDestinations # {}) \in BOOLEAN
      /\ (\A i \in Payees : destinations[i].amount <= MaxU64) \in BOOLEAN
  BY DEF TypeInv
<1> QED
  BY <1>4, <1>5, <1>6 DEF Summary, Summaries

(* and it stays the same while the sequence numbers are set, a script is   *)
(* reset and the change moves.                                             *)
LEMMA SummaryKept ==
    ASSUME TypeInv,
           DOMAIN sources' = DOMAIN sources, Len(sources') = Len(sources),
           \A i \in DOMAIN sources : sources'[i].amount = sources[i].amount,
           DOMAIN destinations' = DOMAIN destinations,
           \A i \in DOMAIN destinations :
               /\ destinations'[i].isChange = destinations[i].isChange
               /\ ~destinations[i].isChange => destinations'[i].amount = destinations[i].amount,
           UNCHANGED <<rate, hasMessage>>
    PROVE  Summary' = Summary /\ ChangeDestinations' = ChangeDestinations
<1>1. /\ ChangeDestinations' = ChangeDestinations /\ Payees' = Payees
      /\ \A i \in Payees : i \in DOMAIN destinations /\ destinations'[i].amount = destinations[i].amount
  BY DEF ChangeDestinations, Payees
<1>2. Available' = Available
  <2>1. [i \in DOMAIN sources' |-> sources'[i].amount] = [i \in DOMAIN sources |-> sources[i].amount]
    OBVIOUS
  <2> QED
    BY <2>1 DEF Available
<1>3. Spent(Payees)' = Spent(Payees)
  <2>1. [i \in DOMAIN destinations' |-> IF i \in Payees' THEN destinations'[i].amount ELSE 0]
        = [i \in DOMAIN destinations |-> IF i \in Payees THEN destinations[i].amount ELSE 0]
    BY <1>1
  <2> QED
    BY <2>1 DEF Spent
<1>4. Positive(Payees)' = Positive(Payees)
  BY <1>1 DEF Positive
<1>5. BaseSize' = BaseSize /\ Message' = Message
  BY <1>4 DEF BaseSize, Message
<1>6. (\A i \in Payees : destinations[i].amount <= MaxU64)'
        <=> (\A i \in Payees : destinations[i].amount <= MaxU64)
  BY <1>1
<1> QED
  BY <1>1, <1>2, <1>3, <1>4, <1>5, <1>6 DEF Summary
-----------------------------------------------------------------------------
(* Initially there is nothing. *)
LEMMA InitHolds == Init => IInv
<1> SUFFICES ASSUME Init PROVE IInv
  OBVIOUS
<1>1. /\ sources = <<>> /\ destinations = <<>> /\ rate = 0 /\ isReplaceable = TRUE /\ hasMessage = FALSE
      /\ call = "none" /\ status = "none" /\ displayed = NoFee /\ sent = NoFee
      /\ pc = "idle" /\ change = 0 /\ outcome = "none" /\ mainnet \in Nets /\ Solver!Init
  BY DEF Init, Solver!Init
<1>2. TypeInv
  <2>1. <<>> \in Seq(Source) /\ <<>> \in Seq(Destination)
    OBVIOUS
  <2> QED
    BY <1>1, <2>1, NetsAssumption DEF TypeInv
<1>3. ComputationInv
  BY <1>1, SameSteps, Computation!ComputationStarts, LimitsAssumption, SummariesAre DEF ComputationInv
<1>4. AmountInv /\ LinkInv /\ FeeInv /\ SignalInv
  BY <1>1 DEF AmountInv, LinkInv, CurrentChange, ChangeDestinations, FeeInv, SignalInv
<1>5. CallInv
  BY <1>1 DEF CallInv, Solver!Outcomes
<1> QED
  BY <1>2, <1>3, <1>4, <1>5 DEF IInv

(* A modification leaves well-formed sources and destinations of natural   *)
(* amounts, and forgets what was computed.                                 *)
LEMMA ModifiedHolds ==
    ASSUME TypeInv,
           Modified, sources' \in Seq(Source), destinations' \in Seq(DestinationWith(Nat)),
           rate' \in Nat, isReplaceable' \in BOOLEAN, hasMessage' \in BOOLEAN
    PROVE  IInv'
<1>1. /\ call' = "none" /\ status' = "none" /\ displayed' = NoFee /\ sent' = NoFee
      /\ mainnet' \in BOOLEAN
  BY DEF Modified, TypeInv
<1>2. /\ DestinationWith(Nat) \subseteq Destination
      /\ \A d \in DestinationWith(Nat) : d.amount \in Nat
  BY DEF DestinationWith, Destination
<1>3. \A i \in DOMAIN destinations' : destinations'[i] \in DestinationWith(Nat)
  OBVIOUS
<1>4. TypeInv'
  <2>1. destinations' \in Seq(Destination)
    BY <1>2, SeqMonotonic
  <2> QED
    BY <1>1, <2>1 DEF TypeInv
<1>5. AmountInv'
  BY <1>2, <1>3 DEF AmountInv
<1>6. CurrentChange' \in Int
  BY <1>2, <1>3 DEF CurrentChange, ChangeDestinations
<1>7. Solver!Idle(CurrentChange')
  BY DEF Modified, CurrentChange, ChangeDestinations
<1>8. ComputationInv' /\ pc' = "idle" /\ change' = CurrentChange' /\ outcome' = "none"
  BY <1>6, <1>7, ComputationIdles
<1>9. LinkInv' /\ CallInv' /\ FeeInv' /\ SignalInv'
  BY <1>1, <1>8 DEF LinkInv, CallInv, FeeInv, SignalInv, Solver!Outcomes
<1> QED
  BY <1>4, <1>5, <1>8, <1>9 DEF IInv

(* Between two calls every amount is a natural number. *)
LEMMA AmountsAtRest ==
    ASSUME TypeInv, AmountInv, call = "none"
    PROVE  destinations \in Seq(DestinationWith(Nat))
<1>1. /\ Len(destinations) \in Nat /\ DOMAIN destinations = 1..Len(destinations)
      /\ destinations \in [1..Len(destinations) -> Destination]
  BY DEF TypeInv
<1>2. \A i \in 1..Len(destinations) : destinations[i].amount \in Nat
  BY <1>1 DEF AmountInv
<1>3. \A d \in Destination : d.amount \in Nat => d \in DestinationWith(Nat)
  BY DEF Destination, DestinationWith
<1>4. destinations \in [1..Len(destinations) -> DestinationWith(Nat)]
  BY <1>1, <1>2, <1>3
<1> QED
  BY <1>1, <1>4

LEMMA SourcesHold ==
    ASSUME IInv, NEW i \in DOMAIN sources,
           \/ ResetSource(i)
           \/ \E n \in SequenceNumbers : SetSequence(i, n)
           \/ \E a \in SourceAmounts, s \in {"own", "foreign"} : SetSource(i, a, s)
    PROVE  IInv'
<1>1. TypeInv /\ sources[i] \in Source /\ i \in 1..Len(sources)
  BY DEF IInv, TypeInv
<1>2. PICK s \in Source : sources' = [sources EXCEPT ![i] = s]
  <2>1. CASE ResetSource(i)
    <3>1. sources' = [sources EXCEPT ![i] = [sources[i] EXCEPT !.given = FALSE]]
      BY <2>1 DEF ResetSource
    <3>2. [sources[i] EXCEPT !.given = FALSE] \in Source
      BY <1>1 DEF Source
    <3> QED
      BY <3>1, <3>2
  <2>2. ASSUME NEW n \in SequenceNumbers, SetSequence(i, n)
        PROVE  \E s \in Source : sources' = [sources EXCEPT ![i] = s]
    <3>1. sources' = [sources EXCEPT ![i] = [sources[i] EXCEPT !.sequence = n]]
      BY <2>2 DEF SetSequence
    <3>2. [sources[i] EXCEPT !.sequence = n] \in Source
      BY <1>1 DEF Source
    <3> QED
      BY <3>1, <3>2
  <2>3. ASSUME NEW a \in SourceAmounts, NEW script \in {"own", "foreign"}, SetSource(i, a, script)
        PROVE  \E s \in Source : sources' = [sources EXCEPT ![i] = s]
    <3>1. sources' = [sources EXCEPT ![i] =
                         [sources[i] EXCEPT !.given = TRUE, !.amount = a, !.script = script]]
      BY <2>3 DEF SetSource
    <3>2. [sources[i] EXCEPT !.given = TRUE, !.amount = a, !.script = script] \in Source
      BY <1>1, ValuesAssumption DEF Source, Scripts
    <3> QED
      BY <3>1, <3>2
  <2> QED
    BY <2>1, <2>2, <2>3
<1>3. sources' \in Seq(Source)
  BY <1>1, <1>2, ExceptSeq DEF TypeInv
<1>4. Modified /\ UNCHANGED <<destinations, rate, isReplaceable, hasMessage>>
  BY DEF ResetSource, SetSequence, SetSource
<1>5. destinations' \in Seq(DestinationWith(Nat))
  BY <1>4, AmountsAtRest DEF IInv, Modified
<1> QED
  BY <1>1, <1>3, <1>4, <1>5, ModifiedHolds DEF TypeInv

LEMMA DestinationsHold ==
    ASSUME IInv, NEW i \in DOMAIN destinations,
           \/ SetAddress(i) \/ ResetAmount(i)
           \/ \E a \in Amounts : SetAmount(i, a)
           \/ \E b \in BOOLEAN : SetIsChange(i, b)
    PROVE  IInv'
<1> DEFINE T == DestinationWith(Nat)
<1>1. TypeInv /\ Modified /\ UNCHANGED <<sources, rate, isReplaceable, hasMessage>>
  BY DEF IInv, SetAddress, ResetAmount, SetAmount, SetIsChange
<1>2. destinations \in Seq(T) /\ destinations[i] \in T /\ i \in 1..Len(destinations)
  <2>1. destinations \in Seq(T)
    BY <1>1, AmountsAtRest DEF IInv, Modified
  <2> HIDE DEF T
  <2> QED
    BY <2>1
<1>3. PICK d \in T : destinations' = [destinations EXCEPT ![i] = d]
  <2>1. CASE SetAddress(i)
    <3>1. destinations' = [destinations EXCEPT ![i] = [destinations[i] EXCEPT !.addressSet = TRUE]]
      BY <2>1 DEF SetAddress
    <3>2. [destinations[i] EXCEPT !.addressSet = TRUE] \in T
      BY <1>2 DEF DestinationWith
    <3> QED
      BY <3>1, <3>2
  <2>2. CASE ResetAmount(i)
    <3>1. destinations' = [destinations EXCEPT ![i] = [destinations[i] EXCEPT !.amountSet = FALSE]]
      BY <2>2 DEF ResetAmount
    <3>2. [destinations[i] EXCEPT !.amountSet = FALSE] \in T
      BY <1>2 DEF DestinationWith
    <3> QED
      BY <3>1, <3>2
  <2>3. ASSUME NEW a \in Amounts, SetAmount(i, a)
        PROVE  \E d \in T : destinations' = [destinations EXCEPT ![i] = d]
    <3>1. destinations' = [destinations EXCEPT ![i] =
                              [destinations[i] EXCEPT !.amountSet = TRUE, !.amount = a]]
      BY <2>3 DEF SetAmount
    <3>2. [destinations[i] EXCEPT !.amountSet = TRUE, !.amount = a] \in T
      BY <1>2, ValuesAssumption DEF DestinationWith
    <3> QED
      BY <3>1, <3>2
  <2>4. ASSUME NEW b \in BOOLEAN, SetIsChange(i, b)
        PROVE  \E d \in T : destinations' = [destinations EXCEPT ![i] = d]
    <3>1. destinations' = [destinations EXCEPT ![i] = [destinations[i] EXCEPT !.isChange = b]]
      BY <2>4 DEF SetIsChange
    <3>2. [destinations[i] EXCEPT !.isChange = b] \in T
      BY <1>2 DEF DestinationWith
    <3> QED
      BY <3>1, <3>2
  <2> QED
    BY <2>1, <2>2, <2>3, <2>4
<1>4. destinations' \in Seq(T)
  <2> HIDE DEF T
  <2> QED
    BY <1>2, <1>3, ExceptSeq
<1> QED
  BY <1>1, <1>4, ModifiedHolds DEF TypeInv

(* Whatever the caller does between two calls. *)
LEMMA ModifyHolds == ASSUME IInv, Modify PROVE IInv'
<1>1. TypeInv /\ Modified /\ destinations \in Seq(DestinationWith(Nat))
  <2>1. Modified
    BY DEF Modify, AddSource, AddDestination, SetMessage, ResetSource, SetSequence, SetSource,
       SetAddress, ResetAmount, SetAmount, SetIsChange, SetFeeRate, SetIsReplaceable
  <2> QED
    BY <2>1, AmountsAtRest DEF IInv, Modified
<1>2. CASE AddSource
  <2>1. NewSource \in Source
    BY DEF NewSource, Source, Scripts, SequenceNumbers
  <2>2. sources' \in Seq(Source) /\ UNCHANGED <<destinations, rate, isReplaceable, hasMessage>>
    BY <1>1, <1>2, <2>1 DEF AddSource, TypeInv
  <2> QED
    BY <1>1, <2>2, ModifiedHolds DEF TypeInv
<1>3. CASE AddDestination
  <2>1. NewDestination \in DestinationWith(Nat)
    BY DEF DestinationWith, NewDestination
  <2>2. /\ destinations' = Append(destinations, NewDestination)
        /\ UNCHANGED <<sources, rate, isReplaceable, hasMessage>>
    BY <1>3 DEF AddDestination
  <2>3. destinations' \in Seq(DestinationWith(Nat))
    BY <1>1, <2>1, <2>2
  <2> QED
    BY <1>1, <2>2, <2>3, ModifiedHolds DEF TypeInv
<1>4. CASE \/ SetMessage \/ \E r \in Rates : SetFeeRate(r)
           \/ \E b \in BOOLEAN : SetIsReplaceable(b)
  <2>1. /\ UNCHANGED <<sources, destinations>>
        /\ rate' \in Nat /\ isReplaceable' \in BOOLEAN /\ hasMessage' \in BOOLEAN
    BY <1>1, <1>4, ValuesAssumption DEF SetMessage, SetFeeRate, SetIsReplaceable, TypeInv
  <2> QED
    BY <1>1, <2>1, ModifiedHolds DEF TypeInv
<1> QED
  BY <1>2, <1>3, <1>4, SourcesHold, DestinationsHold DEF Modify
-----------------------------------------------------------------------------
(* What the computation leaves to the miner is what calculate_diff() finds. *)
LEMMA DiffIs ==
    ASSUME TypeInv, LinkInv, pc # "idle"
    PROVE  /\ CalculateDiff = tx.leftover - change
           /\ tx.leftover \in Int /\ change \in Int
<1>1. Available \in Int /\ Spent(Payees) \in Int /\ Spent(DOMAIN destinations) \in Int
  BY SumsAreNumbers
<1>2. Spent(DOMAIN destinations) = Spent(Payees) + CurrentChange
  BY SpentSplits DEF LinkInv
<1>3. tx.leftover = Available - Spent(Payees) /\ change = CurrentChange
  BY DEF LinkInv, Summary
<1>4. CurrentChange \in Int
  <2>1. \A i \in DOMAIN destinations : destinations[i] \in Destination
    BY DEF TypeInv
  <2>2. \A i \in DOMAIN destinations : destinations[i].amount \in Int
    BY <2>1 DEF Destination
  <2> QED
    BY <2>2 DEF CurrentChange, ChangeDestinations
<1> QED
  BY <1>1, <1>2, <1>3, <1>4 DEF CalculateDiff

(* A call that succeeded has paid, and verify() would pass again. *)
LEMMA SuccessIs ==
    ASSUME IInv, status = "ok"
    PROVE  /\ pc = "done" /\ outcome = "ok" /\ call = "none"
           /\ tx = Summary /\ \A i, j \in ChangeDestinations : i = j
           /\ change = CurrentChange /\ change \in Int /\ CalculateDiff = tx.leftover - change
           /\ change = 0 \/ change >= Dust
           /\ CalculateDiff \in Nat
           /\ CalculateDiff >= rate * (BaseSize + (IF CurrentChange > 0 THEN OutputSize ELSE 0))
           /\ Verdict = "ok" /\ ~PaysDust
<1>1. pc = "done" /\ outcome = "ok" /\ call = "none" /\ Verified
  BY DEF IInv, CallInv
<1>2. tx = Summary /\ change = CurrentChange /\ \A i, j \in ChangeDestinations : i = j
  BY <1>1 DEF IInv, LinkInv
<1>3. CalculateDiff = tx.leftover - change /\ change \in Int
  BY <1>1, DiffIs DEF IInv
<1>4. /\ change = 0 \/ change >= Dust
      /\ tx.leftover - change \in Nat
      /\ tx.leftover - change >= tx.rate * (tx.base + (IF change > 0 THEN OutputSize ELSE 0))
  <2>1. Computation!IInv /\ Computation!RepeatInv /\ Computation!Done("ok")
    BY <1>1 DEF IInv, ComputationInv, Computation!Done
  <2> QED
    BY <2>1, Computation!SuccessPays, LimitsAssumption, SummariesAre
       DEF Computation!Diff, Computation!ChangeOutput
<1>5. tx.rate = rate /\ tx.base = BaseSize
  BY <1>2 DEF Summary
<1>6. Verdict = "ok" /\ ~PaysDust
  <2>1. ~(CalculateDiff < 0)
    BY <1>3, <1>4
  <2> QED
    BY <1>1, <2>1, VerdictIs DEF Verified
<1> QED
  BY <1>1, <1>2, <1>3, <1>4, <1>5, <1>6

(* The loop of update() over the sources. *)
LEMMA SignalReplaceabilitySignals ==
    ASSUME TypeInv, SignalReplaceability, isReplaceable' = isReplaceable
    PROVE  /\ sources' \in Seq(Source) /\ Signals'
           /\ DOMAIN sources' = DOMAIN sources /\ Len(sources') = Len(sources)
           /\ \A i \in DOMAIN sources : /\ sources'[i].given = sources[i].given
                                        /\ sources'[i].amount = sources[i].amount
                                        /\ sources'[i].script = sources[i].script
<1>1. /\ DOMAIN sources = 1..Len(sources) /\ Len(sources) \in Nat
      /\ \A i \in DOMAIN sources : sources[i] \in Source
  BY DEF TypeInv
<1>2. \A s \in Source : /\ [s EXCEPT !.sequence = Sequence(s)] \in Source
                       /\ [s EXCEPT !.sequence = Sequence(s)].sequence = Sequence(s)
                       /\ [s EXCEPT !.sequence = Sequence(s)].given = s.given
                       /\ [s EXCEPT !.sequence = Sequence(s)].amount = s.amount
                       /\ [s EXCEPT !.sequence = Sequence(s)].script = s.script
  BY DEF Source, Sequence, SequenceNumbers
<1>3. /\ DOMAIN sources' = DOMAIN sources
      /\ \A i \in DOMAIN sources : /\ sources'[i] \in Source
                                   /\ sources'[i].sequence = Sequence(sources[i])
                                   /\ sources'[i].given = sources[i].given
                                   /\ sources'[i].amount = sources[i].amount
                                   /\ sources'[i].script = sources[i].script
  BY <1>1, <1>2 DEF SignalReplaceability
<1>4. sources' \in Seq(Source) /\ Len(sources') = Len(sources)
  <2>1. sources' \in [1..Len(sources) -> Source]
    BY <1>1, <1>2 DEF SignalReplaceability
  <2> QED
    BY <1>1, <2>1
<1>5. Signals'
  BY <1>3 DEF Signals, Sequence
<1> QED
  BY <1>3, <1>4, <1>5

(* What verify() looked at is still there. *)
LEMMA VerifiedKept ==
    ASSUME Verified, TypeInv, TypeInv', mainnet' = mainnet,
           DOMAIN sources' = DOMAIN sources, DOMAIN destinations' = DOMAIN destinations,
           \A i \in DOMAIN sources : /\ sources'[i].given = sources[i].given
                                     /\ sources'[i].script = sources[i].script,
           \A i \in DOMAIN destinations :
               /\ destinations'[i].addressSet = destinations[i].addressSet
               /\ destinations'[i].amountSet = destinations[i].amountSet
               /\ destinations'[i].isChange = destinations[i].isChange
               /\ ~destinations[i].isChange => destinations'[i].amount = destinations[i].amount
    PROVE  Verified'
<1>1. sources' # <<>> /\ destinations' # <<>>
  <2>1. sources # <<>> /\ destinations # <<>>
    BY DEF Verified
  <2> QED
    BY <2>1 DEF TypeInv
<1>2. IsComplete'
  BY DEF Verified, IsComplete
<1>3. Unspendable' = {}
  BY DEF Verified, Unspendable
<1>4. ~PaysDust'
  BY DEF Verified, PaysDust
<1> QED
  BY <1>1, <1>2, <1>3, <1>4 DEF Verified

(* A call that verify() or a second change refuses: neither can follow a   *)
(* success.                                                                *)
LEMMA RefuseHolds == ASSUME IInv, Refuse PROVE IInv'
<1>1. /\ call = "none" /\ Verdict # "ok" /\ status' = Verdict
      /\ UNCHANGED <<mainnet, object, call, displayed, sent, solver>>
  BY DEF Refuse
<1>2. status # "ok"
  BY <1>1, SuccessIs
<1>3. UNCHANGED <<mainnet, sources, destinations, rate, isReplaceable, hasMessage, call, displayed, sent,
                  pc, tx, change, outcome, shown>>
  BY <1>1 DEF object, solver
<1>4. TypeInv' /\ AmountInv' /\ SignalInv'
  BY <1>3 DEF IInv, TypeInv, AmountInv, SignalInv, Signals
<1>5. LinkInv'
  BY <1>3 DEF IInv, LinkInv, CurrentChange, ChangeDestinations, Summary, Available, Spent, Payees, BaseSize,
     Positive, Message
<1>6. FeeInv'
  BY <1>1, <1>2, <1>3 DEF IInv, FeeInv
<1>7. Verdict \in VerifyErrors \cup {"crash", "ok"}
  BY DEF Verdict, VerifyErrors
<1>8. CallInv'
  BY <1>1, <1>3, <1>7 DEF IInv, CallInv, Solver!Outcomes
<1>9. ComputationInv'
  BY <1>1, ComputationKeeps DEF IInv
<1> QED
  BY <1>4, <1>5, <1>6, <1>8, <1>9 DEF IInv

LEMMA RefuseSecondChangeHolds == ASSUME IInv, RefuseSecondChange PROVE IInv'
<1>1. /\ TypeInv /\ SignalReplaceability /\ isReplaceable' = isReplaceable
      /\ \E i, j \in ChangeDestinations : i # j
      /\ call = "none" /\ status' = "TOO_MANY_CHANGE_DESTINATIONS"
      /\ UNCHANGED <<mainnet, destinations, rate, hasMessage, call, displayed, sent, solver>>
  BY DEF IInv, RefuseSecondChange
<1>2. sources' \in Seq(Source) /\ Signals'
  BY <1>1, SignalReplaceabilitySignals
<1>3. pc = "idle" /\ status # "ok"
  BY <1>1 DEF IInv, LinkInv, CallInv
<1>4. displayed = NoFee /\ sent = NoFee
  BY <1>1, <1>3 DEF IInv, FeeInv
<1>5. UNCHANGED <<pc, change, outcome>>
  BY <1>1 DEF solver
<1>6. TypeInv' /\ AmountInv' /\ SignalInv'
  BY <1>1, <1>2 DEF IInv, TypeInv, AmountInv, SignalInv
<1>7. LinkInv'
  BY <1>1, <1>3, <1>5 DEF IInv, LinkInv, CurrentChange, ChangeDestinations
<1>8. FeeInv'
  BY <1>1, <1>4 DEF FeeInv
<1>9. CallInv'
  BY <1>1, <1>3, <1>5 DEF IInv, CallInv, Solver!Outcomes
<1>10. ComputationInv'
  BY <1>1, ComputationKeeps DEF IInv
<1> QED
  BY <1>6, <1>7, <1>8, <1>9, <1>10 DEF IInv

(* update() starts to compute, for the first time or again. *)
LEMMA EnterHolds == ASSUME IInv, NEW kind \in {"update", "serialize"}, Enter(kind) PROVE IInv'
<1>1. /\ TypeInv /\ SignalReplaceability /\ isReplaceable' = isReplaceable
      /\ call = "none" /\ call' = kind /\ status' = "none" /\ Verdict = "ok"
      /\ \A i, j \in ChangeDestinations : i = j
      /\ UNCHANGED <<mainnet, destinations, rate, hasMessage, displayed, sent>>
      /\ Solver!Begin({Summary}) \/ Solver!Repeat
  BY DEF IInv, Enter
<1>2. /\ sources' \in Seq(Source) /\ Signals'
      /\ DOMAIN sources' = DOMAIN sources /\ Len(sources') = Len(sources)
      /\ \A i \in DOMAIN sources : /\ sources'[i].given = sources[i].given
                                   /\ sources'[i].amount = sources[i].amount
                                   /\ sources'[i].script = sources[i].script
  BY <1>1, SignalReplaceabilitySignals
<1>3. TypeInv' /\ AmountInv' /\ SignalInv'
  BY <1>1, <1>2 DEF IInv, TypeInv, AmountInv, SignalInv
<1>4. Verified /\ ~(CalculateDiff < 0)
  BY <1>1, VerdictIs
<1>5. Verified'
  BY <1>1, <1>2, <1>3, <1>4, VerifiedKept
<1>6. Summary' = Summary /\ ChangeDestinations' = ChangeDestinations /\ CurrentChange' = CurrentChange
  BY <1>1, <1>2, SummaryKept DEF CurrentChange
<1>7. ComputationInv'
  <2>1. Summary \in Summaries
    BY <1>1, <1>4, SummaryTyped DEF IInv
  <2>2. Solver!Begin({Summary}) => Solver!Begin(Summaries)
    BY <2>1 DEF Solver!Begin
  <2> QED
    BY <1>1, <2>2, ComputationKeeps DEF IInv
<1>8. CASE Solver!Begin({Summary})
  <2>1. /\ pc = "idle" /\ tx' = Summary /\ outcome' = outcome
        /\ pc' \in {"clear", "validate"}
        /\ change' = IF Summary.hasChange THEN change ELSE 0
    BY <1>8 DEF Solver!Begin
  <2>2. displayed = NoFee /\ sent = NoFee
    BY <1>1, <2>1 DEF IInv, CallInv, FeeInv
  <2>3. change' = CurrentChange
    BY <2>1 DEF IInv, LinkInv, CurrentChange, Summary
  <2>4. LinkInv'
    BY <1>1, <1>6, <2>1, <2>3 DEF LinkInv
  <2>5. CallInv' /\ FeeInv'
    BY <1>1, <1>5, <2>1, <2>2 DEF IInv, CallInv, FeeInv, Solver!Outcomes
  <2> QED
    BY <1>3, <1>7, <2>4, <2>5 DEF IInv
<1>9. CASE Solver!Repeat
  <2>1. /\ pc = "done" /\ pc' \in {"clear", "validate"} /\ outcome' = "none"
        /\ shown' = <<outcome, change>> /\ UNCHANGED <<tx, change>>
    BY <1>9 DEF Solver!Repeat
  <2>2. LinkInv'
    BY <1>1, <1>6, <2>1 DEF IInv, LinkInv
  <2>3. CallInv'
    BY <1>1, <1>5, <2>1 DEF CallInv, Solver!Outcomes
  <2>4. FeeInv'
    <3>1. ASSUME NEW fee \in {displayed, sent} \ {NoFee}
          PROVE  shown'[1] = "ok" /\ fee = tx'.leftover - shown'[2]
      <4>1. status = "ok" /\ fee = tx.leftover - change
        BY <1>1, <3>1 DEF IInv, FeeInv
      <4>2. outcome = "ok"
        BY <4>1 DEF IInv, CallInv
      <4> QED
        BY <2>1, <4>1, <4>2
    <3> QED
      BY <1>1, <3>1 DEF FeeInv
  <2> QED
    BY <1>3, <1>7, <2>2, <2>3, <2>4 DEF IInv
<1> QED
  BY <1>1, <1>8, <1>9

(* What a step of the computation does to the object: the amount of the    *)
(* change moves, and a failing signature leaves a null script.             *)
LEMMA ComputeMoves ==
    ASSUME IInv, Compute
    PROVE  /\ sources' \in Seq(Source)
           /\ DOMAIN sources' = DOMAIN sources /\ Len(sources') = Len(sources)
           /\ \A i \in DOMAIN sources : /\ sources'[i].sequence = sources[i].sequence
                                        /\ sources'[i].amount = sources[i].amount
           /\ outcome' # "AMOUNT_TOO_BIG" => sources' = sources
           /\ destinations' \in Seq(Destination) /\ change' \in Int
           /\ DOMAIN destinations' = DOMAIN destinations
           /\ \A i \in DOMAIN destinations :
                /\ destinations'[i].addressSet = destinations[i].addressSet
                /\ destinations'[i].amountSet = destinations[i].amountSet
                /\ destinations'[i].isChange = destinations[i].isChange
                /\ destinations'[i].amount =
                       IF destinations[i].isChange THEN change' ELSE destinations[i].amount
           /\ ComputationInv'
<1>1. TypeInv /\ Solver!Compute
  BY DEF IInv, Compute
<1>2. ComputationInv' /\ change' \in Int
  BY <1>1, ComputationKeeps DEF IInv, ComputationInv, Computation!IInv, Computation!TypeOK
<1>3. /\ sources' \in Seq(Source)
      /\ DOMAIN sources' = DOMAIN sources /\ Len(sources') = Len(sources)
      /\ \A i \in DOMAIN sources : /\ sources'[i].sequence = sources[i].sequence
                                   /\ sources'[i].amount = sources[i].amount
  <2>1. CASE sources' = sources
    BY <1>1, <2>1 DEF TypeInv
  <2>2. CASE sources' = [sources EXCEPT ![1].script = "null"]
    <3>1. Len(sources) \in Nat /\ sources \in [1..Len(sources) -> Source]
      BY <1>1 DEF TypeInv
    <3>2. \A s \in Source : /\ [s EXCEPT !.script = "null"] \in Source
                           /\ [s EXCEPT !.script = "null"].sequence = s.sequence
                           /\ [s EXCEPT !.script = "null"].amount = s.amount
      BY DEF Source, Scripts
    <3>3. /\ sources' \in [1..Len(sources) -> Source]
          /\ \A i \in 1..Len(sources) : /\ sources'[i].sequence = sources[i].sequence
                                        /\ sources'[i].amount = sources[i].amount
      BY <2>2, <3>1, <3>2
    <3>4. sources' \in Seq(Source) /\ Len(sources') = Len(sources)
      BY <3>1, <3>3
    <3> QED
      BY <3>1, <3>3, <3>4
  <2> QED
    BY <2>1, <2>2 DEF Compute, LeftBySign
<1>4. outcome' # "AMOUNT_TOO_BIG" => sources' = sources
  BY DEF Compute, LeftBySign
<1>5. /\ DOMAIN destinations = 1..Len(destinations) /\ Len(destinations) \in Nat
      /\ \A i \in DOMAIN destinations : destinations[i] \in Destination
  BY <1>1 DEF TypeInv
<1>6. \A d \in Destination :
        LET e == [d EXCEPT !.amount = change']
        IN  /\ e \in Destination /\ e.addressSet = d.addressSet /\ e.amountSet = d.amountSet
            /\ e.isChange = d.isChange /\ e.amount = change'
  BY <1>2 DEF Destination
<1>7. /\ DOMAIN destinations' = DOMAIN destinations
      /\ \A i \in DOMAIN destinations :
           /\ destinations'[i] \in Destination
           /\ destinations'[i].addressSet = destinations[i].addressSet
           /\ destinations'[i].amountSet = destinations[i].amountSet
           /\ destinations'[i].isChange = destinations[i].isChange
           /\ destinations'[i].amount =
                  IF destinations[i].isChange THEN change' ELSE destinations[i].amount
  BY <1>5, <1>6 DEF Compute, ChangeDestinations
<1>8. destinations' \in Seq(Destination)
  <2>1. destinations' \in [1..Len(destinations) -> Destination]
    BY <1>5, <1>6 DEF Compute, ChangeDestinations
  <2> QED
    BY <1>5, <2>1
<1> QED
  BY <1>2, <1>3, <1>4, <1>7, <1>8

(* What it does to the call, which it may end. *)
LEMMA ComputeGoesOn ==
    ASSUME IInv, Compute
    PROVE  /\ call # "none" /\ pc \in {"clear", "shrink", "validate"}
           /\ pc' \in {"shrink", "validate", "done"} /\ UNCHANGED <<tx, shown>>
           /\ pc' # "done" => outcome' = "none"
           /\ ~tx.hasChange => change' = change
           /\ pc' = "done" => change' >= 0 /\ outcome' \in Solver!Outcomes
           /\ pc' = "done" /\ shown[1] # "none" => shown = <<outcome', change'>>
<1>1. call # "none" /\ pc \in {"clear", "shrink", "validate"} /\ outcome = "none" /\ Solver!Compute
  BY DEF IInv, CallInv, Compute
<1>2. /\ pc' \in {"shrink", "validate", "done"} /\ UNCHANGED <<tx, shown>>
      /\ pc' # "done" => outcome' = "none"
      /\ pc \notin {"clear", "shrink"} => change' = change
  BY <1>1 DEF Solver!Compute, Solver!Clear, Solver!Shrink, Solver!Settle, Solver!Validate,
     Solver!SignThrows, Solver!Return
<1>3. pc \in {"clear", "shrink"} => tx.hasChange
  BY DEF IInv, ComputationInv, Computation!RepeatInv
<1>4. ComputationInv'
  BY ComputeMoves
<1>5. pc' = "done" => change' >= 0 /\ outcome' \in Solver!Outcomes
  BY <1>4 DEF ComputationInv, Computation!IInv, Computation!ZeroInv, Computation!TypeOK,
     Computation!Outcomes, Solver!Outcomes
<1>6. pc' = "done" /\ shown[1] # "none" => shown = <<outcome', change'>>
  BY <1>2, <1>4 DEF ComputationInv, Computation!RepeatInv, Computation!IsRepeat
<1> QED
  BY <1>1, <1>2, <1>3, <1>5, <1>6

LEMMA ComputeHolds == ASSUME IInv, Compute PROVE IInv'
<1>1. /\ call # "none" /\ UNCHANGED <<mainnet, rate, isReplaceable, hasMessage>>
      /\ pc' # "done" => UNCHANGED <<call, status, displayed, sent>>
      /\ pc' = "done" =>
           /\ call' = "none" /\ status' = outcome'
           /\ LET fee == IF outcome' = "ok" THEN tx.leftover - change' ELSE NoFee
              IN  IF call = "update" THEN displayed' = fee /\ UNCHANGED sent
                  ELSE sent' = fee /\ UNCHANGED displayed
  BY DEF Compute, Solver!Diff
<1>2. /\ TypeInv /\ Verified /\ status = "none"
      /\ call \in {"update", "serialize"}
  BY <1>1 DEF IInv, CallInv, TypeInv
<1>3. TypeInv'
  BY <1>1, <1>2, ComputeMoves DEF TypeInv
<1>4. Summary' = Summary /\ ChangeDestinations' = ChangeDestinations
  BY <1>1, <1>2, ComputeMoves, SummaryKept
<1>5. LinkInv'
  <2>1. tx = Summary /\ change = CurrentChange /\ \A i, j \in ChangeDestinations : i = j
    BY ComputeGoesOn DEF IInv, LinkInv
  <2>2. tx' = Summary' /\ \A i, j \in ChangeDestinations' : i = j
    BY <1>4, <2>1, ComputeGoesOn
  <2>3. CASE ChangeDestinations = {}
    <3>1. tx.hasChange = FALSE /\ change = 0
      BY <2>1, <2>3 DEF Summary, CurrentChange
    <3>2. change' = CurrentChange'
      BY <1>4, <2>3, <3>1, ComputeGoesOn DEF CurrentChange
    <3> QED
      BY <2>2, <3>2 DEF LinkInv
  <2>4. CASE ChangeDestinations # {}
    <3>1. \A k \in ChangeDestinations : destinations'[k].amount = change'
      BY ComputeMoves DEF ChangeDestinations
    <3>2. change' = CurrentChange'
      BY <1>4, <2>4, <3>1 DEF CurrentChange
    <3> QED
      BY <2>2, <3>2 DEF LinkInv
  <2> QED
    BY <2>3, <2>4
<1>6. AmountInv'
  <2>1. \A i \in DOMAIN destinations : destinations[i].amount \in Nat \/ destinations[i].isChange
    BY DEF IInv, AmountInv
  <2>2. pc' = "done" => change' \in Nat
    BY ComputeMoves, ComputeGoesOn
  <2> QED
    BY <1>1, <2>1, <2>2, ComputeMoves DEF AmountInv
<1>7. outcome' # "AMOUNT_TOO_BIG" => Verified'
  <2>1. ASSUME outcome' # "AMOUNT_TOO_BIG" PROVE Verified'
    <3>1. sources' = sources
      BY <2>1, ComputeMoves
    <3> QED
      BY <1>1, <1>2, <1>3, <3>1, ComputeMoves, VerifiedKept
  <2> QED
    BY <2>1
<1>8. CallInv'
  <2>1. CASE pc' # "done"
    BY <1>1, <1>2, <1>7, <2>1, ComputeGoesOn DEF CallInv, Solver!Outcomes
  <2>2. CASE pc' = "done"
    BY <1>1, <1>7, <2>2, ComputeGoesOn DEF CallInv
  <2> QED
    BY <2>1, <2>2
<1>9. FeeInv'
  <2>1. \A fee \in {displayed, sent} \ {NoFee} : shown[1] = "ok" /\ fee = tx.leftover - shown[2]
    BY <1>1 DEF IInv, FeeInv
  <2>2. CASE pc' # "done"
    BY <1>1, <2>1, <2>2, ComputeGoesOn DEF FeeInv
  <2>3. CASE pc' = "done"
    <3>1. ASSUME NEW fee \in {displayed', sent'} \ {NoFee}
          PROVE  status' = "ok" /\ fee = tx.leftover - change'
      <4>1. CASE fee \in {displayed, sent}
        <5>1. shown[1] = "ok" /\ fee = tx.leftover - shown[2]
          BY <2>1, <3>1, <4>1
        <5>2. shown = <<outcome', change'>>
          BY <2>3, <5>1, ComputeGoesOn
        <5> QED
          BY <1>1, <2>3, <5>1, <5>2
      <4>2. CASE fee \notin {displayed, sent}
        BY <1>1, <2>3, <3>1, <4>2
      <4> QED
        BY <4>1, <4>2
    <3> QED
      BY <1>1, <2>3, <3>1, ComputeGoesOn DEF FeeInv
  <2> QED
    BY <2>2, <2>3
<1>10. SignalInv'
  <2>1. Signals => Signals'
    BY <1>1, ComputeMoves DEF Signals
  <2>2. call = "serialize" \/ sent # NoFee => Signals
    BY DEF IInv, SignalInv
  <2>3. call' = "serialize" \/ sent' # NoFee => call = "serialize" \/ sent # NoFee
    BY <1>1, <1>2
  <2> QED
    BY <2>1, <2>2, <2>3 DEF SignalInv
<1> QED
  BY <1>3, <1>5, <1>6, <1>8, <1>9, <1>10, ComputeMoves DEF IInv

LEMMA StutterHolds == ASSUME IInv, UNCHANGED vars PROVE IInv'
<1>1. /\ UNCHANGED <<mainnet, sources, destinations, rate, isReplaceable, hasMessage, call, status,
                     displayed, sent, pc, tx, change, outcome, shown>>
      /\ UNCHANGED solver
  BY DEF vars, object, solver
<1>2. TypeInv' /\ AmountInv' /\ SignalInv' /\ FeeInv'
  BY <1>1 DEF IInv, TypeInv, AmountInv, SignalInv, Signals, FeeInv
<1>3. LinkInv'
  BY <1>1 DEF IInv, LinkInv, CurrentChange, ChangeDestinations, Summary, Available, Spent, Payees, BaseSize,
     Positive, Message
<1>4. CallInv'
  BY <1>1 DEF IInv, CallInv, Verified, IsComplete, Unspendable, PaysDust
<1>5. ComputationInv'
  BY <1>1, ComputationKeeps DEF IInv
<1> QED
  BY <1>2, <1>3, <1>4, <1>5 DEF IInv
-----------------------------------------------------------------------------
(* What a caller and the calls do, in any order, keeps the invariant. *)
THEOREM TransactionInvariance == Spec => []IInv
<1>1. Init => IInv
  BY InitHolds
<1>2. IInv /\ [Next]_vars => IInv'
  BY ModifyHolds, RefuseHolds, RefuseSecondChangeHolds, EnterHolds, ComputeHolds, StutterHolds
     DEF Next
<1> QED
  BY <1>1, <1>2, PTL DEF Spec

(* The type invariant: a fee that is displayed or sent is never negative,  *)
(* though it is the difference of two sums.                                *)
THEOREM TypeCorrect == Spec => []TypeOK
<1>1. ASSUME IInv PROVE TypeOK
  <2>1. ASSUME NEW fee \in {displayed, sent} \ {NoFee} PROVE fee \in Nat
    <3>1. CASE call = "none"
      <4>1. status = "ok" /\ fee = tx.leftover - change
        BY <1>1, <2>1, <3>1 DEF IInv, FeeInv
      <4> QED
        BY <1>1, <4>1, SuccessIs
    <3>2. CASE call # "none"
      <4>1. shown[1] = "ok" /\ fee = tx.leftover - shown[2] /\ pc \notin {"idle", "done"}
        BY <1>1, <2>1, <3>2 DEF IInv, FeeInv, CallInv
      <4>2. Computation!IInv /\ Computation!RepeatInv
        BY <1>1 DEF IInv, ComputationInv
      <4> QED
        BY <4>1, <4>2, Computation!ShownPays, LimitsAssumption, SummariesAre
    <3> QED
      BY <3>1, <3>2
  <2>2. displayed \in Nat \cup {NoFee} /\ sent \in Nat \cup {NoFee}
    BY <2>1
  <2> QED
    BY <1>1, <2>2 DEF IInv, TypeInv, CallInv, TypeOK
<1> QED
  BY <1>1, TransactionInvariance, PTL

(* After a call that succeeded, what is written takes no more than there   *)
(* is, and what remains pays the rate for it: the sums of the code and the *)
(* size it computed are about the same outputs.                            *)
THEOREM PaidFor == Spec => []OutputsArePaidFor
<1>1. ASSUME IInv, Succeeded PROVE OutputsArePaidFor
  <2> DEFINE written == Positive(DOMAIN destinations)
             least == Overhead + Len(sources) * InputSize + Message * MessageSize
                          + Cardinality(written) * OutputSize
  <2>1. status = "ok" /\ call = "none" /\ TypeInv /\ AmountInv
    BY <1>1 DEF IInv, Succeeded
  <2>2. Available - Spent(written) = CalculateDiff
    BY <2>1, SpentPositive DEF CalculateDiff
  <2>3. \A i, j \in ChangeDestinations : i = j
    BY <1>1, <2>1, SuccessIs
  <2>4. least = BaseSize + (IF CurrentChange > 0 THEN OutputSize ELSE 0)
    BY <2>1, <2>3, SizesAre
  <2>5. CalculateDiff >= rate * least
    BY <1>1, <2>1, <2>4, SuccessIs
  <2> QED
    BY <2>2, <2>5 DEF OutputsArePaidFor
<1>2. IInv => OutputsArePaidFor
  BY <1>1 DEF OutputsArePaidFor
<1> QED
  BY <1>2, TransactionInvariance, PTL

(* On the main net a call that succeeds leaves no output that nodes refuse *)
(* (BitcoinTransaction::verify() and update()).                            *)
THEOREM Relayable == Spec => []OutputsAreRelayable
<1>1. ASSUME IInv, Succeeded, mainnet, NEW i \in DOMAIN destinations
      PROVE  LET d == destinations[i]
             IN  ~(d.amount < Dust) \/ (d.isChange /\ d.amount = 0)
  <2>1. /\ ~PaysDust /\ change = CurrentChange /\ (change = 0 \/ change >= Dust) /\ change \in Int
        /\ \A m, n \in ChangeDestinations : m = n
    BY <1>1, SuccessIs DEF Succeeded
  <2>2. CASE destinations[i].isChange
    <3>1. i \in ChangeDestinations
      BY <2>2 DEF ChangeDestinations
    <3>2. destinations[i].amount = change
      BY <2>1, <3>1 DEF CurrentChange
    <3> QED
      BY <2>1, <2>2, <3>2, LimitsAssumption
  <2>3. CASE ~destinations[i].isChange
    BY <1>1, <2>1, <2>3 DEF PaysDust
  <2> QED
    BY <2>2, <2>3
<1>2. IInv => OutputsAreRelayable
  BY <1>1 DEF OutputsAreRelayable
<1> QED
  BY <1>2, TransactionInvariance, PTL

(* While nothing is modified after an update() that succeeded, further     *)
(* calls succeed, and serialize() pays the fee that was displayed.         *)
THEOREM SerializeAgrees == Spec => []SerializeAgreesWithUpdate
<1>1. IInv => SerializeAgreesWithUpdate
  BY DEF IInv, FeeInv, SerializeAgreesWithUpdate
<1> QED
  BY <1>1, TransactionInvariance, PTL

(* What is serialized has the sequence numbers that is_replaceable asks    *)
(* for (the loop of update() over the sources).                            *)
THEOREM SignalsAsAsked == Spec => []SentSignalsReplaceability
<1>1. IInv => SentSignalsReplaceability
  BY DEF IInv, SignalInv, Signals, SentSignalsReplaceability
<1> QED
  BY <1>1, TransactionInvariance, PTL

(* A transaction with change is charged at most for its longest form, and  *)
(* less than the dust limit on top when the change was dropped: the bound  *)
(* that the computation keeps is about what this transaction writes.       *)
THEOREM ChargeBounded == Spec => []ChargeIsBounded
<1>1. ASSUME IInv, Succeeded, ChangeDestinations # {} PROVE ChargeIsBounded
  <2> DEFINE payments == {i \in DOMAIN destinations :
                            ~destinations[i].isChange /\ destinations[i].amount > 0}
             most == Overhead + Len(sources) * InputSize + Message * MessageSize
                          + Cardinality(payments) * OutputSize + Len(sources) + OutputSize
             given == \E i \in ChangeDestinations : destinations[i].amount > 0
  <2>1. /\ status = "ok" /\ call = "none" /\ TypeInv
        /\ pc = "done" /\ outcome = "ok" /\ tx = Summary /\ change = CurrentChange
        /\ CalculateDiff = tx.leftover - change /\ change \in Int
        /\ \A i, j \in ChangeDestinations : i = j
    BY <1>1, SuccessIs DEF IInv, Succeeded
  <2>2. payments = Positive(Payees)
    BY DEF Positive, Payees
  <2>3. given <=> change > 0
    <3>1. (CHOOSE i \in ChangeDestinations : TRUE) \in ChangeDestinations
      BY <1>1
    <3> QED
      BY <1>1, <2>1, <3>1 DEF CurrentChange
  <2>4. tx.rate = rate /\ tx.base = BaseSize /\ tx.spread = Len(sources) /\ tx.hasChange
    BY <1>1, <2>1 DEF Summary
  <2>5. most = tx.base + tx.spread + OutputSize /\ most \in Nat
    <3>1. /\ Len(sources) \in Nat /\ Message \in Nat /\ Cardinality(payments) \in Nat
      BY <2>1, <2>2, SizesAre
    <3>2. PICK n \in Nat, m \in Nat, p \in Nat :
            n = Len(sources) /\ m = Message /\ p = Cardinality(payments)
      BY <3>1
    <3>3. n * InputSize \in Nat /\ m * MessageSize \in Nat /\ p * OutputSize \in Nat
      BY SizesAssumption, LimitsAssumption
    <3>4. BaseSize = Overhead + n * InputSize + m * MessageSize + p * OutputSize
      BY <2>2, <3>2 DEF BaseSize
    <3>5. most = Overhead + n * InputSize + m * MessageSize + p * OutputSize + n + OutputSize
      BY <3>2
    <3>6. tx.base = BaseSize /\ tx.spread = n
      BY <2>4, <3>2
    <3> HIDE DEF most
    <3> QED
      BY <3>3, <3>4, <3>5, <3>6, SizesAssumption, LimitsAssumption
  <2>6. IF change > 0 THEN CalculateDiff <= rate * most ELSE CalculateDiff < rate * most + Dust
    <3>1. Computation!FeeIsBounded /\ Computation!Done("ok")
      BY <1>1, <2>1 DEF IInv, ComputationInv, Computation!IInv, Computation!DoneInv, Computation!Done
    <3>2. Computation!DearestFee = most * rate
      BY <2>4, <2>5 DEF Computation!DearestFee
    <3>3. most * rate = rate * most
      BY <2>1, <2>5 DEF TypeInv
    <3> QED
      BY <2>1, <2>4, <3>1, <3>2, <3>3 DEF Computation!FeeIsBounded, Computation!Diff
  <2> QED
    BY <2>3, <2>6 DEF ChargeIsBounded, CalculateDiff
<1>2. IInv => ChargeIsBounded
  BY <1>1 DEF ChargeIsBounded
<1> QED
  BY <1>2, TransactionInvariance, PTL
=============================================================================
