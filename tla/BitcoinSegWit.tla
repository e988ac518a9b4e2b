--------------------------- MODULE BitcoinSegWit ---------------------------
(***************************************************************************)
(* The transaction of a SegWit (P2SH-P2WPKH) account                       *)
(* (multy_core/src/bitcoin/bitcoin_transaction_segwit.cpp): as the one of  *)
(* BitcoinTransaction it is edited in any order between the calls of       *)
(* update() and serialize(), but it computes no change, looks at no fee    *)
(* and writes every destination, and the witness of a source commits to    *)
(* what BIP 143 says.                                                      *)
(*                                                                         *)
(* An output that a source spends is a record of its transaction and index *)
(* (point), its amount and the key whose hash is in its script (owner).    *)
(*                                                                         *)
(* The definitions named Wrong... are mistakes this code could have made:  *)
(* the properties are checked to notice each of them.                      *)
(***************************************************************************)
EXTENDS PropertyValue, Sums

CONSTANTS
    Outputs,                    \* what a caller says that a source spends
    Keys, Addresses,            \* the keys of sources, addresses of destinations
    Amounts,                    \* the amounts of destinations
    SequenceNumbers, LockTimes,
    NoAddress,                  \* the address before one was set
    MaxU64,                     \* the largest amount that can be written
    MaxSources, MaxDestinations \* bounds: the code has none

ASSUME SegWitAmountsAssumption == Amounts \subseteq Nat /\ \A o \in Outputs : o.amount \in Int
ASSUME SegWitBoundsAssumption == MaxU64 \in Nat /\ MaxSources \in Nat /\ MaxDestinations \in Nat

VARIABLES
    sources,        \* m_sources, with the witness each was signed with last
    destinations,   \* m_destinations
    lockTime,
    status,         \* how the last call ended, "none" after a modification
    sent            \* what serialize() returned since the last modification

vars == <<sources, destinations, lockTime, status, sent>>

Nothing == [made |-> FALSE]
-----------------------------------------------------------------------------
Init ==
    /\ sources = <<>> /\ destinations = <<>> /\ lockTime = 0
    /\ status = "none" /\ sent = Nothing

Modified == status' = "none" /\ sent' = Nothing

AddSource(output, key) ==
    /\ Len(sources) < MaxSources
    /\ sources' = Append(sources, [output |-> Given(output), key |-> key,
                                   sequence |-> "final", witness |-> Nothing])
    /\ Modified /\ UNCHANGED <<destinations, lockTime>>

(* The witness stays until the source is signed again. *)
SetSource(i) ==
    /\ sources' \in
            {[sources EXCEPT ![i].output = Given(o)] : o \in Outputs}
            \cup {[sources EXCEPT ![i].output = Forgotten(@)]}
            \cup {[sources EXCEPT ![i].key = k] : k \in Keys}
            \cup {[sources EXCEPT ![i].sequence = n] : n \in SequenceNumbers}
    /\ Modified /\ UNCHANGED <<destinations, lockTime>>

AddDestination ==
    /\ Len(destinations) < MaxDestinations
    /\ destinations' = Append(destinations,
            [address |-> Never(NoAddress), amount |-> Never(0), isChange |-> FALSE])
    /\ Modified /\ UNCHANGED <<sources, lockTime>>

(* The amount of a change is read-only; it keeps what was set before.      *)
SetDestination(i) ==
    /\ destinations' \in
            {[destinations EXCEPT ![i].address = Given(a)] : a \in Addresses}
            \cup {[destinations EXCEPT ![i].isChange = b] : b \in BOOLEAN}
            \cup {[destinations EXCEPT ![i].amount = Forgotten(@)]}
            \cup (IF destinations[i].isChange THEN {}
                  ELSE {[destinations EXCEPT ![i].amount = Given(a)] :
                            a \in {v \in Amounts : VerifyBiggerThan(v, 0)}})
    /\ Modified /\ UNCHANGED <<sources, lockTime>>

SetLockTime(t) ==
    /\ lockTime' = t
    /\ Modified /\ UNCHANGED <<sources, destinations>>

(* set_message(), estimate_total_fee() and get_total_spent() only throw;   *)
(* so does setting the amount of a change.                                 *)
NotImplemented == UNCHANGED vars

Modify ==
    \/ \E o \in Outputs, k \in Keys : AddSource(o, k)
    \/ AddDestination
    \/ \E i \in DOMAIN sources : SetSource(i)
    \/ \E i \in DOMAIN destinations : SetDestination(i)
    \/ \E t \in LockTimes : SetLockTime(t)
    \/ NotImplemented
-----------------------------------------------------------------------------
IsComplete ==
    /\ \A i \in DOMAIN sources : Readable(sources[i].output, "REQUIRED")
    /\ \A i \in DOMAIN destinations :
        LET d == destinations[i]
        IN  /\ Readable(d.address, "REQUIRED")
            /\ Readable(d.amount, IF d.isChange THEN "READONLY" ELSE "REQUIRED")

Available == Total([i \in DOMAIN sources |-> sources[i].output.value.amount])
WrongSpent == Total([i \in DOMAIN destinations |->
                    IF destinations[i].isChange THEN 0 ELSE destinations[i].amount.value])
Spent == Total([i \in DOMAIN destinations |-> destinations[i].amount.value])

(* The key of a source has to be the one its output was locked with. *)
Verdict ==
    IF sources = <<>> THEN "NO_SOURCES"
    ELSE IF destinations = <<>> THEN "NO_DESTINATIONS"
    ELSE IF ~IsComplete THEN "PROPERTIES_NOT_SET"
    ELSE IF Available - Spent < 0 THEN "INSUFFICIENT_FUNDS"
    ELSE IF \E i \in DOMAIN sources : sources[i].key # sources[i].output.value.owner
         THEN "INVALID_PRIVATE_KEY"
    ELSE "ok"

(* get_value_as_uint64(), by which an amount is written. *)
IsWritable(v) == 0 <= v /\ v <= MaxU64

Written == [i \in DOMAIN destinations |->
    [address |-> destinations[i].address.value, amount |-> destinations[i].amount.value]]
AllPoints == [i \in DOMAIN sources |-> sources[i].output.value.point]
AllSequences == [i \in DOMAIN sources |-> sources[i].sequence]

(* What the signature of a source commits to. *)
Commitment(i) ==
    [made |-> TRUE, points |-> AllPoints, sequences |-> AllSequences, outputs |-> Written,
     point |-> sources[i].output.value.point, amount |-> sources[i].output.value.amount,
     sequence |-> sources[i].sequence, lockTime |-> lockTime, key |-> sources[i].key]

(* The outputs are hashed first, then one source after the other is signed *)
(* until one has an amount that cannot be written.                         *)
Unsignable ==
    IF \E i \in DOMAIN destinations : ~IsWritable(destinations[i].amount.value)
    THEN DOMAIN sources
    ELSE {i \in DOMAIN sources :
            \E j \in 1..i : ~IsWritable(sources[j].output.value.amount)}

WrongSigned == [i \in DOMAIN sources |->
    IF i \in Unsignable \/ sources[i].witness.made THEN sources[i]
    ELSE [sources[i] EXCEPT !.witness = Commitment(i)]]
Signed == [i \in DOMAIN sources |->
    IF i \in Unsignable THEN sources[i]
    ELSE [sources[i] EXCEPT !.witness = Commitment(i)]]

Outcome ==
    IF Verdict # "ok" THEN Verdict
    ELSE IF Unsignable # {} THEN "AMOUNT_TOO_BIG" ELSE "ok"

Update ==
    /\ status' = Outcome
    /\ sources' = IF Verdict = "ok" THEN Signed ELSE sources
    /\ UNCHANGED <<destinations, lockTime>>

(* serialize(): update() first, and then it writes every source with the   *)
(* script of its key, every destination and every witness.                 *)
Serialize ==
    /\ Update
    /\ sent' = IF Outcome # "ok" THEN Nothing
               ELSE [made |-> TRUE, points |-> AllPoints, sequences |-> AllSequences,
                     keys |-> [i \in DOMAIN sources |-> sources[i].key],
                     outputs |-> Written, lockTime |-> lockTime,
                     witnesses |-> [i \in DOMAIN sources |-> sources'[i].witness]]

Next == Modify \/ (Update /\ UNCHANGED sent) \/ Serialize

Spec == Init /\ [][Next]_vars
-----------------------------------------------------------------------------
(* WitnessesCoverWhatIsSent: whatever was edited, signed or failed before, *)
(* the witness of every input of a serialized transaction commits to       *)
(* exactly the inputs, sequence numbers, outputs and lock time beside it,  *)
(* and to the output the caller gave for it, with the key that owns it.    *)
WitnessesCoverWhatIsSent ==
    sent.made => \A i \in DOMAIN sent.witnesses :
        LET w == sent.witnesses[i]
            spends == sources[i].output.value
        IN  /\ w.made
            /\ w.points = sent.points /\ w.sequences = sent.sequences
            /\ w.outputs = sent.outputs /\ w.lockTime = sent.lockTime
            /\ w.point = sent.points[i] /\ w.sequence = sent.sequences[i]
            /\ w.point = spends.point /\ w.amount = spends.amount
            /\ w.key = sent.keys[i] /\ w.key = spends.owner

(* SegWitSentIsFunded: the outputs of a serialized transaction, those      *)
(* marked as change included, take no more than the amounts its witnesses  *)
(* commit to, each of which fits 64 bits.                                  *)
SegWitSentIsFunded ==
    sent.made =>
        /\ \A i \in DOMAIN sent.witnesses : sent.witnesses[i].amount \in 0..MaxU64
        /\ Total([i \in DOMAIN sent.outputs |-> sent.outputs[i].amount])
            <= Total([i \in DOMAIN sent.witnesses |-> sent.witnesses[i].amount])
=============================================================================
