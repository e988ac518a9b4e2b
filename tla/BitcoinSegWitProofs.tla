------------------------ MODULE BitcoinSegWitProofs ------------------------
(***************************************************************************)
(* Theorems about BitcoinSegWit: for every set of outputs, keys, addresses *)
(* and amounts, and any number of sources and destinations, the witnesses  *)
(* of what is sent commit to what is sent, and to enough to pay for it.    *)
(***************************************************************************)
EXTENDS BitcoinSegWit, SumProofs, TLAPS

Points == {o.point : o \in Outputs}
SequenceValues == SequenceNumbers \cup {"final"}
Paid == [address: Addresses \cup {NoAddress}, amount: Nat]
Commitments ==
    [made: {TRUE}, points: Seq(Points), sequences: Seq(SequenceValues), outputs: Seq(Paid),
     point: Points, amount: Int, sequence: SequenceValues, lockTime: LockTimes \cup {0}, key: Keys]
Source == [output: PropertyOf(Outputs), key: Keys, sequence: SequenceValues,
           witness: Commitments \cup {Nothing}]
Destination == [address: PropertyOf(Addresses \cup {NoAddress}), amount: PropertyOf(Nat),
                isChange: BOOLEAN]

TypeInv ==
    /\ sources \in Seq(Source)
    /\ destinations \in Seq(Destination)
    /\ lockTime \in LockTimes \cup {0}

(* What serialize() returned has a witness for each source that is there   *)
(* now: modifying the sources forgets what was sent.                       *)
SentInv == sent.made => DOMAIN sent.witnesses = DOMAIN sources

IInv == TypeInv /\ SentInv /\ WitnessesCoverWhatIsSent
-----------------------------------------------------------------------------
(* Initially there is nothing. *)
LEMMA InitHolds == Init => IInv
  BY DEF Init, IInv, TypeInv, SentInv, WitnessesCoverWhatIsSent, Nothing

(* A modification forgets what was sent, and keeps the types. *)
LEMMA ModifiedHolds == TypeInv' /\ Modified => IInv'
  BY DEF IInv, SentInv, WitnessesCoverWhatIsSent, Modified, Nothing

LEMMA AddSourceKeepsTypes ==
    ASSUME TypeInv, NEW o \in Outputs, NEW k \in Keys, AddSource(o, k)
    PROVE  TypeInv' /\ Modified
  <1> DEFINE s == [output |-> Given(o), key |-> k, sequence |-> "final", witness |-> Nothing]
  <1>1. s \in Source
    BY DEF Source, PropertyOf, Given, SequenceValues
  <1>2. sources' = Append(sources, s)
    BY DEF AddSource
  <1>3. sources' \in Seq(Source)
    BY <1>1, <1>2 DEF TypeInv
  <1> QED
    BY <1>3 DEF TypeInv, AddSource

LEMMA SetSourceKeepsTypes ==
    ASSUME TypeInv, NEW i \in DOMAIN sources, SetSource(i)
    PROVE  TypeInv' /\ Modified
  <1>1. sources[i] \in Source
    BY DEF TypeInv
  <1>2. PICK s \in Source : sources' = [sources EXCEPT ![i] = s]
    <2>1. CASE \E o \in Outputs : sources' = [sources EXCEPT ![i].output = Given(o)]
      <3>1. PICK o \in Outputs : sources' = [sources EXCEPT ![i].output = Given(o)]
        BY <2>1
      <3>2. [sources[i] EXCEPT !.output = Given(o)] \in Source
        BY <1>1 DEF Source, PropertyOf, Given
      <3> QED
        BY <3>1, <3>2
    <2>2. CASE sources' = [sources EXCEPT ![i].output = Forgotten(@)]
      <3>1. [sources[i] EXCEPT !.output = Forgotten(@)] \in Source
        BY <1>1 DEF Source, PropertyOf, Forgotten
      <3> QED
        BY <2>2, <3>1
    <2>3. CASE \E k \in Keys : sources' = [sources EXCEPT ![i].key = k]
      <3>1. PICK k \in Keys : sources' = [sources EXCEPT ![i].key = k]
        BY <2>3
      <3>2. [sources[i] EXCEPT !.key = k] \in Source
        BY <1>1 DEF Source
      <3> QED
        BY <3>1, <3>2
    <2>4. CASE \E n \in SequenceNumbers : sources' = [sources EXCEPT ![i].sequence = n]
      <3>1. PICK n \in SequenceNumbers : sources' = [sources EXCEPT ![i].sequence = n]
        BY <2>4
      <3>2. [sources[i] EXCEPT !.sequence = n] \in Source
        BY <1>1 DEF Source, SequenceValues
      <3> QED
        BY <3>1, <3>2
    <2> QED
      BY <2>1, <2>2, <2>3, <2>4 DEF SetSource
  <1>3. sources' \in Seq(Source)
    BY <1>2 DEF TypeInv
  <1> QED
    BY <1>3 DEF TypeInv, SetSource

LEMMA AddDestinationKeepsTypes ==
    ASSUME TypeInv, AddDestination
    PROVE  TypeInv' /\ Modified
  <1> DEFINE d == [address |-> Never(NoAddress), amount |-> Never(0), isChange |-> FALSE]
  <1>1. d \in Destination
    BY DEF Destination, PropertyOf, Never
  <1>2. destinations' \in Seq(Destination)
    BY <1>1 DEF TypeInv, AddDestination
  <1> QED
    BY <1>2 DEF TypeInv, AddDestination

LEMMA SetDestinationKeepsTypes ==
    ASSUME TypeInv, NEW i \in DOMAIN destinations, SetDestination(i)
    PROVE  TypeInv' /\ Modified
  <1>1. destinations[i] \in Destination
    BY DEF TypeInv
  <1>2. PICK d \in Destination : destinations' = [destinations EXCEPT ![i] = d]
    <2>1. CASE \E a \in Addresses : destinations' = [destinations EXCEPT ![i].address = Given(a)]
      <3>1. PICK a \in Addresses : destinations' = [destinations EXCEPT ![i].address = Given(a)]
        BY <2>1
      <3>2. [destinations[i] EXCEPT !.address = Given(a)] \in Destination
        BY <1>1 DEF Destination, PropertyOf, Given
      <3> QED
        BY <3>1, <3>2
    <2>2. CASE \E b \in BOOLEAN : destinations' = [destinations EXCEPT ![i].isChange = b]
      <3>1. PICK b \in BOOLEAN : destinations' = [destinations EXCEPT ![i].isChange = b]
        BY <2>2
      <3>2. [destinations[i] EXCEPT !.isChange = b] \in Destination
        BY <1>1 DEF Destination
      <3> QED
        BY <3>1, <3>2
    <2>3. CASE destinations' = [destinations EXCEPT ![i].amount = Forgotten(@)]
      <3>1. [destinations[i] EXCEPT !.amount = Forgotten(@)] \in Destination
        BY <1>1 DEF Destination, PropertyOf, Forgotten
      <3> QED
        BY <2>3, <3>1
    <2>4. CASE \E a \in Amounts : destinations' = [destinations EXCEPT ![i].amount = Given(a)]
      <3>1. PICK a \in Amounts : destinations' = [destinations EXCEPT ![i].amount = Given(a)]
        BY <2>4
      <3>2. [destinations[i] EXCEPT !.amount = Given(a)] \in Destination
        BY <1>1, SegWitAmountsAssumption DEF Destination, PropertyOf, Given
      <3> QED
        BY <3>1, <3>2
    <2> QED
      BY <2>1, <2>2, <2>3, <2>4 DEF SetDestination
  <1>3. destinations' \in Seq(Destination)
    BY <1>2 DEF TypeInv
  <1> QED
    BY <1>3 DEF TypeInv, SetDestination

(* Whatever is edited, the types are kept and what was sent is forgotten. *)
LEMMA ModifyKeepsIInv ==
    ASSUME IInv, Modify
    PROVE  IInv'
  <1> USE DEF IInv
  <1>1. ASSUME NEW o \in Outputs, NEW k \in Keys, AddSource(o, k) PROVE IInv'
    BY <1>1, AddSourceKeepsTypes, ModifiedHolds
  <1>2. CASE AddDestination
    BY <1>2, AddDestinationKeepsTypes, ModifiedHolds
  <1>3. ASSUME NEW i \in DOMAIN sources, SetSource(i) PROVE IInv'
    BY <1>3, SetSourceKeepsTypes, ModifiedHolds
  <1>4. ASSUME NEW i \in DOMAIN destinations, SetDestination(i) PROVE IInv'
    BY <1>4, SetDestinationKeepsTypes, ModifiedHolds
  <1>5. ASSUME NEW t \in LockTimes, SetLockTime(t) PROVE IInv'
    <2>1. TypeInv' /\ Modified
      BY <1>5 DEF TypeInv, SetLockTime
    <2> QED
      BY <2>1, ModifiedHolds
  <1>6. CASE NotImplemented
    BY <1>6 DEF NotImplemented, vars, TypeInv, SentInv, WitnessesCoverWhatIsSent
  <1> QED
    BY <1>1, <1>2, <1>3, <1>4, <1>5, <1>6 DEF Modify
-----------------------------------------------------------------------------
(* A commitment is one. *)
LEMMA CommitmentType ==
    ASSUME TypeInv, NEW i \in DOMAIN sources
    PROVE  Commitment(i) \in Commitments
  <1>0. \A j \in 1..Len(sources) : sources[j] \in Source
    BY DEF TypeInv
  <1>1. AllPoints \in Seq(Points)
    <2>1. \A j \in 1..Len(sources) : sources[j].output.value.point \in Points
      BY <1>0 DEF Points, Source, PropertyOf
    <2>2. AllPoints \in [1..Len(sources) -> Points]
      BY <2>1 DEF AllPoints, TypeInv
    <2> QED
      BY <2>2 DEF TypeInv
  <1>2. AllSequences \in Seq(SequenceValues)
    <2>1. AllSequences \in [1..Len(sources) -> SequenceValues]
      BY <1>0 DEF AllSequences, TypeInv, Source
    <2> QED
      BY <2>1 DEF TypeInv
  <1>3. Written \in Seq(Paid)
    <2>1. \A j \in 1..Len(destinations) : destinations[j] \in Destination
      BY DEF TypeInv
    <2>2. Written \in [1..Len(destinations) -> Paid]
      BY <2>1 DEF Written, TypeInv, Destination, Paid, PropertyOf
    <2> QED
      BY <2>2 DEF TypeInv
  <1>4. sources[i] \in Source
    BY DEF TypeInv
  <1>5. /\ sources[i].output.value \in Outputs
        /\ sources[i].output.value.point \in Points
        /\ sources[i].output.value.amount \in Int
    BY <1>4, SegWitAmountsAssumption DEF Source, PropertyOf, Points
  <1> QED
    BY <1>1, <1>2, <1>3, <1>4, <1>5 DEF Commitment, Commitments, TypeInv, Source

(* Signing changes the witnesses of sources and nothing else, and leaves   *)
(* the old witness of a source it does not reach.                          *)
LEMMA SignedIs ==
    ASSUME TypeInv
    PROVE  /\ Signed \in Seq(Source)
           /\ DOMAIN Signed = DOMAIN sources
           /\ \A i \in DOMAIN sources :
                /\ Signed[i].output = sources[i].output
                /\ Signed[i].key = sources[i].key
                /\ Signed[i].sequence = sources[i].sequence
                /\ i \notin Unsignable => Signed[i].witness = Commitment(i)
  <1>1. ASSUME NEW i \in DOMAIN sources
        PROVE  /\ Signed[i] \in Source
               /\ Signed[i].output = sources[i].output
               /\ Signed[i].key = sources[i].key
               /\ Signed[i].sequence = sources[i].sequence
               /\ i \notin Unsignable => Signed[i].witness = Commitment(i)
    <2>1. sources[i] \in Source
      BY DEF TypeInv
    <2>2. Commitment(i) \in Commitments
      BY CommitmentType
    <2>3. Signed[i] = IF i \in Unsignable THEN sources[i]
                      ELSE [sources[i] EXCEPT !.witness = Commitment(i)]
      BY DEF Signed
    <2> HIDE DEF Commitments
    <2> QED
      BY <2>1, <2>2, <2>3 DEF Source
  <1>2. DOMAIN Signed = DOMAIN sources
    BY DEF Signed
  <1>3. DOMAIN sources = 1..Len(sources) /\ Len(sources) \in Nat
    BY DEF TypeInv
  <1>4. Signed \in [1..Len(sources) -> Source]
    BY <1>1, <1>3 DEF Signed
  <1>5. Signed \in Seq(Source)
    BY <1>3, <1>4
  <1> QED
    BY <1>1, <1>2, <1>5

(* update() keeps what holds of what was sent before: the sources it signs *)
(* are the same in all but their witness, and a witness that was sent is a *)
(* copy.                                                                   *)
LEMMA UpdateKeepsIInv ==
    ASSUME IInv, Update, UNCHANGED sent
    PROVE  IInv'
  <1> USE DEF IInv
  <1>1. /\ sources' \in Seq(Source)
        /\ DOMAIN sources' = DOMAIN sources
        /\ \A i \in DOMAIN sources : sources'[i].output = sources[i].output
    BY SignedIs DEF Update, TypeInv
  <1>2. TypeInv'
    BY <1>1 DEF Update, TypeInv
  <1>3. SentInv'
    BY <1>1 DEF SentInv
  <1>4. WitnessesCoverWhatIsSent'
    BY <1>1 DEF WitnessesCoverWhatIsSent, SentInv
  <1> QED
    BY <1>2, <1>3, <1>4

(* serialize() that returns signed every source, of which verify() had     *)
(* found the key to be the right one.                                      *)
LEMMA SerializeKeepsIInv ==
    ASSUME IInv, Serialize
    PROVE  IInv'
  <1> USE DEF IInv
  <1>1. CASE Outcome # "ok"
    <2>1. TypeInv'
      BY SignedIs DEF Serialize, Update, TypeInv
    <2>2. sent' = Nothing
      BY <1>1 DEF Serialize
    <2> QED
      BY <2>1, <2>2 DEF SentInv, WitnessesCoverWhatIsSent, Nothing
  <1>2. CASE Outcome = "ok"
    <2>1. Verdict = "ok" /\ Unsignable = {}
      BY <1>2 DEF Outcome
    <2>2. sources' = Signed
      BY <2>1 DEF Serialize, Update
    <2>3. TypeInv'
      BY <2>2, SignedIs DEF Serialize, Update, TypeInv
    <2>4. /\ sent'.made
          /\ sent'.points = AllPoints /\ sent'.sequences = AllSequences
          /\ sent'.keys = [i \in DOMAIN sources |-> sources[i].key]
          /\ sent'.outputs = Written /\ sent'.lockTime = lockTime
          /\ sent'.witnesses = [i \in DOMAIN sources |-> sources'[i].witness]
      BY <1>2 DEF Serialize
    <2>5. SentInv'
      BY <2>2, <2>4, SignedIs DEF SentInv
    <2>6. \A i \in DOMAIN sources : sources[i].key = sources[i].output.value.owner
      BY <2>1 DEF Verdict
    <2>7. ASSUME NEW i \in DOMAIN sources
          PROVE  LET w == sent'.witnesses[i]
                     spends == sources'[i].output.value
                 IN  /\ w.made
                     /\ w.points = sent'.points /\ w.sequences = sent'.sequences
                     /\ w.outputs = sent'.outputs /\ w.lockTime = sent'.lockTime
                     /\ w.point = sent'.points[i] /\ w.sequence = sent'.sequences[i]
                     /\ w.point = spends.point /\ w.amount = spends.amount
                     /\ w.key = sent'.keys[i] /\ w.key = spends.owner
      <3>1. sent'.witnesses[i] = Commitment(i)
        BY <2>1, <2>2, <2>4, SignedIs
      <3>2. sources'[i].output = sources[i].output
        BY <2>2, SignedIs
      <3>3. /\ AllPoints[i] = sources[i].output.value.point
            /\ AllSequences[i] = sources[i].sequence
        BY DEF AllPoints, AllSequences
      <3> QED
        BY <2>4, <2>6, <3>1, <3>2, <3>3 DEF Commitment
    <2>8. WitnessesCoverWhatIsSent'
      BY <2>4, <2>7 DEF WitnessesCoverWhatIsSent
    <2> QED
      BY <2>3, <2>5, <2>8
  <1> QED
    BY <1>1, <1>2
-----------------------------------------------------------------------------
(* The inductive invariant: what is stored has its types, what was sent    *)
(* has a witness for each source, and these cover it.                      *)
THEOREM SegWitInvariance == Spec => []IInv
  <1>1. IInv /\ [Next]_vars => IInv'
    <2> SUFFICES ASSUME IInv, [Next]_vars PROVE IInv'
      OBVIOUS
    <2>1. CASE Modify
      BY <2>1, ModifyKeepsIInv
    <2>2. CASE Update /\ UNCHANGED sent
      BY <2>2, UpdateKeepsIInv
    <2>3. CASE Serialize
      BY <2>3, SerializeKeepsIInv
    <2>4. CASE UNCHANGED vars
      BY <2>4 DEF vars, IInv, TypeInv, SentInv, WitnessesCoverWhatIsSent
    <2> QED
      BY <2>1, <2>2, <2>3, <2>4 DEF Next
  <1> QED
    BY <1>1, InitHolds, PTL DEF Spec

(* After any edits, calls and failures of BitcoinTransactionSegWit, the    *)
(* witnesses that serialize() writes commit to what it writes beside them. *)
THEOREM WitnessesCover == Spec => []WitnessesCoverWhatIsSent
  <1>1. IInv => WitnessesCoverWhatIsSent
    BY DEF IInv
  <1> QED
    BY <1>1, SegWitInvariance, PTL

(* The amounts of sources and destinations are numbers, and so their sums. *)
LEMMA StoredAmounts ==
    ASSUME TypeInv
    PROVE  /\ \A i \in DOMAIN sources : sources[i].output.value.amount \in Int
           /\ \A i \in DOMAIN destinations : destinations[i].amount.value \in Int
<1>1. ASSUME NEW i \in DOMAIN sources PROVE sources[i].output.value.amount \in Int
  <2>1. sources[i] \in Source
    BY DEF TypeInv
  <2>2. sources[i].output.value \in Outputs
    BY <2>1 DEF Source, PropertyOf
  <2> QED
    BY <2>2, SegWitAmountsAssumption
<1>2. ASSUME NEW i \in DOMAIN destinations PROVE destinations[i].amount.value \in Int
  <2>1. destinations[i] \in Destination
    BY DEF TypeInv
  <2> QED
    BY <2>1 DEF Destination, PropertyOf
<1> QED
  BY <1>1, <1>2

LEMMA SumsAreNumbers ==
    ASSUME TypeInv
    PROVE  Available \in Int /\ Spent \in Int
<1>1. [i \in DOMAIN sources |-> sources[i].output.value.amount] \in Seq(Int)
  <2>1. \A i \in 1..Len(sources) : sources[i].output.value.amount \in Int
    BY StoredAmounts DEF TypeInv
  <2>2. Len(sources) \in Nat /\ DOMAIN sources = 1..Len(sources)
    BY DEF TypeInv
  <2>3. [i \in DOMAIN sources |-> sources[i].output.value.amount] \in [1..Len(sources) -> Int]
    BY <2>1, <2>2
  <2> QED
    BY <2>2, <2>3
<1>2. [i \in DOMAIN destinations |-> destinations[i].amount.value] \in Seq(Int)
  <2>1. \A i \in 1..Len(destinations) : destinations[i].amount.value \in Int
    BY StoredAmounts DEF TypeInv
  <2>2. Len(destinations) \in Nat /\ DOMAIN destinations = 1..Len(destinations)
    BY DEF TypeInv
  <2>3. [i \in DOMAIN destinations |-> destinations[i].amount.value] \in [1..Len(destinations) -> Int]
    BY <2>1, <2>2
  <2> QED
    BY <2>2, <2>3
<1> QED
  BY <1>1, <1>2, TotalIsInt DEF Available, Spent

(* serialize() that returns found enough, in amounts that can be written.  *)
LEMMA SerializeIsFunded ==
    ASSUME TypeInv, Serialize
    PROVE  SegWitSentIsFunded'
<1>1. CASE Outcome # "ok"
  BY <1>1 DEF Serialize, SegWitSentIsFunded, Nothing
<1>2. CASE Outcome = "ok"
  <2>1. Verdict = "ok" /\ Unsignable = {} /\ sources' = Signed
    BY <1>2 DEF Outcome, Serialize, Update
  <2>2. /\ sent'.outputs = Written
        /\ sent'.witnesses = [i \in DOMAIN sources |-> sources'[i].witness]
    BY <1>2 DEF Serialize
  <2>3. \A i \in DOMAIN sources : sent'.witnesses[i].amount = sources[i].output.value.amount
    <3> SUFFICES ASSUME NEW i \in DOMAIN sources
                 PROVE  sent'.witnesses[i].amount = sources[i].output.value.amount
      OBVIOUS
    <3>1. sent'.witnesses[i] = Commitment(i)
      BY <2>1, <2>2, SignedIs
    <3> QED
      BY <3>1 DEF Commitment
  <2>4. \A i \in DOMAIN sources : sources[i].output.value.amount \in 0..MaxU64
    <3> SUFFICES ASSUME NEW i \in DOMAIN sources
                 PROVE  sources[i].output.value.amount \in 0..MaxU64
      OBVIOUS
    <3>1. i \in 1..i
      BY DEF TypeInv
    <3>2. IsWritable(sources[i].output.value.amount)
      BY <2>1, <3>1 DEF Unsignable
    <3>3. sources[i].output.value.amount \in Int
      BY StoredAmounts
    <3> QED
      BY <3>2, <3>3 DEF IsWritable
  <2>5. [i \in DOMAIN sent'.witnesses |-> sent'.witnesses[i].amount]
          = [i \in DOMAIN sources |-> sources[i].output.value.amount]
    BY <2>2, <2>3
  <2>6. [i \in DOMAIN sent'.outputs |-> sent'.outputs[i].amount]
          = [i \in DOMAIN destinations |-> destinations[i].amount.value]
    BY <2>2 DEF Written
  <2>7. Spent <= Available
    BY <2>1, SumsAreNumbers DEF Verdict
  <2> QED
    BY <2>2, <2>3, <2>4, <2>5, <2>6, <2>7 DEF SegWitSentIsFunded, Available, Spent
<1> QED
  BY <1>1, <1>2

(* What serialize() returns takes no more than the sources have, in        *)
(* amounts of 64 bits (BitcoinTransactionSegWit::verify() and sign()).     *)
THEOREM SentIsFunded == Spec => []SegWitSentIsFunded
<1>1. Init => SegWitSentIsFunded
  BY DEF Init, SegWitSentIsFunded, Nothing
<1>2. IInv /\ SegWitSentIsFunded /\ [Next]_vars => SegWitSentIsFunded'
  <2> SUFFICES ASSUME TypeInv, SegWitSentIsFunded, [Next]_vars PROVE SegWitSentIsFunded'
    BY DEF IInv
  <2>1. CASE sent' = Nothing
    BY <2>1 DEF SegWitSentIsFunded, Nothing
  <2>2. CASE sent' = sent
    BY <2>2 DEF SegWitSentIsFunded
  <2>3. CASE Serialize
    BY <2>3, SerializeIsFunded
  <2>4. ASSUME Modify PROVE sent' \in {Nothing, sent}
    BY <2>4 DEF Modify, AddSource, AddDestination, SetSource, SetDestination, SetLockTime,
       NotImplemented, Modified, vars
  <2> QED
    BY <2>1, <2>2, <2>3, <2>4 DEF Next, vars
<1> QED
  BY <1>1, <1>2, SegWitInvariance, PTL DEF Spec
=============================================================================
