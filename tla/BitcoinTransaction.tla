------------------------- MODULE BitcoinTransaction -------------------------
(***************************************************************************)
(* A non-SegWit Bitcoin transaction as a wallet drives it: the caller adds *)
(* sources and destinations and sets their properties in any order, and    *)
(* calls update() and serialize() in between                               *)
(* (multy_core/src/bitcoin/bitcoin_transaction.cpp and                     *)
(* bitcoin_transaction_base.cpp).  A call that throws leaves the object as *)
(* far as it got, and the caller may go on with it.  The computation of    *)
(* the change is the module BitcoinChange, whose `change' is the amount of *)
(* the destination marked as change.                                       *)
(*                                                                         *)
(* The required properties of a source other than its amount (previous     *)
(* hash, index, script, private key) are set and reset together.  A script *)
(* is "own" when the private key of its source can spend it.               *)
(*                                                                         *)
(* The definitions named Wrong... are mistakes this code could have made:  *)
(* the properties are checked to notice each of them.                      *)
(***************************************************************************)
EXTENDS Sums, FiniteSets

CONSTANTS
    Dust, OutputSize, MaxU64,   \* as in BitcoinChange
    Overhead,                   \* bytes of a transaction without inputs and outputs
    InputSize,                  \* bytes of an input with the shortest signature
    MessageSize,                \* bytes of the output that carries the message
    Nets,                       \* whether the net type may be the main net
    MaxSources, MaxDestinations,    \* bounds: the code has none
    SourceAmounts, Amounts, Rates   \* the values a caller sets

ASSUME LimitsAssumption == Dust \in Nat \ {0} /\ OutputSize \in Nat /\ MaxU64 \in Nat
ASSUME SizesAssumption == Overhead \in Nat /\ InputSize \in Nat /\ MessageSize \in Nat
ASSUME NetsAssumption == Nets \subseteq BOOLEAN
ASSUME BoundsAssumption == MaxSources \in Nat /\ MaxDestinations \in Nat
ASSUME ValuesAssumption ==
    SourceAmounts \subseteq Nat /\ Amounts \subseteq Nat /\ Rates \subseteq Nat \ {0}

Scripts == {"own", "foreign", "null"}
SequenceNumbers == {"final", "replaceable"}

Source == [given: BOOLEAN, amount: Nat, script: Scripts, sequence: SequenceNumbers]
Destination == [addressSet: BOOLEAN, amountSet: BOOLEAN, amount: Int, isChange: BOOLEAN]

NewSource == [given |-> FALSE, amount |-> 0, script |-> "null", sequence |-> "final"]
NewDestination ==
    [addressSet |-> FALSE, amountSet |-> FALSE, amount |-> 0, isChange |-> FALSE]

VerifyErrors == {"NO_SOURCES", "NO_DESTINATIONS", "PROPERTIES_NOT_SET",
                 "INSUFFICIENT_FUNDS", "INVALID_PRIVATE_KEY", "DUST_OUTPUT"}
NoFee == -1

VARIABLES
    mainnet,    \* the net type of the transaction, which never changes
    sources, destinations, rate, isReplaceable, hasMessage,  \* the object
    call,       \* the call in progress
    status,     \* how the last one ended, "none" after a modification
    displayed,  \* the fee shown since the last modification, or NoFee
    sent,       \* the fee of the transaction serialized since then, or NoFee
    pc, tx, slack, change, outcome, shown   \* the computation of the change

object == <<sources, destinations, rate, isReplaceable, hasMessage>>
solver == <<pc, tx, slack, change, outcome, shown>>
vars == <<mainnet, object, call, status, displayed, sent, solver>>

(* The computation may be asked of any transaction; Enter says of which. *)
Summaries == [leftover: Nat, rate: Nat, base: Nat, spread: Nat,
              hasChange: BOOLEAN, payees: Nat, fits: BOOLEAN]

Solver == INSTANCE BitcoinChange WITH Transactions <- Summaries
-----------------------------------------------------------------------------
Available == Total([i \in DOMAIN sources |-> sources[i].amount])

(* What some of the destinations get, of all of them. *)
Spent(indices) ==
    Total([i \in DOMAIN destinations |-> IF i \in indices THEN destinations[i].amount ELSE 0])
CalculateDiff == Available - Spent(DOMAIN destinations)

ChangeDestinations == {i \in DOMAIN destinations : destinations[i].isChange}
Payees == {i \in DOMAIN destinations : ~destinations[i].isChange}

(* get_non_zero_destinations(): every positive amount, and the message. *)
WrongPositive(indices) == {i \in indices : destinations[i].amount >= 0}
Positive(indices) == {i \in indices : destinations[i].amount > 0}
Message == IF hasMessage THEN 1 ELSE 0

(* The bytes of everything but the change and the variable part of signatures. *)
WrongBaseSize ==
    Overhead + Len(sources) * InputSize + Cardinality(Positive(Payees)) * OutputSize
BaseSize ==
    Overhead + Len(sources) * InputSize + Message * MessageSize
        + Cardinality(Positive(Payees)) * OutputSize

(* The transaction as the computation of the change reads it. *)
Summary ==
    [leftover |-> Available - Spent(Payees),
     rate |-> rate,
     base |-> BaseSize,
     spread |-> Len(sources),
     hasChange |-> ChangeDestinations # {},
     payees |-> Cardinality(Positive(Payees)) + Message,
     fits |-> \A i \in Payees : destinations[i].amount <= MaxU64]

(* validate_all_properties(): the amount of a change is read-only, not required. *)
IsComplete ==
    /\ \A i \in DOMAIN sources : sources[i].given
    /\ \A i \in DOMAIN destinations :
        LET d == destinations[i] IN d.addressSet /\ (d.amountSet \/ d.isChange)

(* verify() compares the script of one source after the other with the key: *)
(* the first that is not "own" ends it, and one that is null is dereferenced.*)
Unspendable == {i \in DOMAIN sources : sources[i].script # "own"}
FirstUnspendable == CHOOSE i \in Unspendable : \A j \in Unspendable : i <= j

(* Only the main net has a dust limit. *)
WrongPaysDust ==
    mainnet /\ \E i \in DOMAIN destinations :
        ~destinations[i].isChange /\ destinations[i].amount < Dust - 1
PaysDust ==
    mainnet /\ \E i \in DOMAIN destinations :
        ~destinations[i].isChange /\ destinations[i].amount < Dust

Verdict ==
    CASE sources = <<>> -> "NO_SOURCES"
      [] sources # <<>> /\ destinations = <<>> -> "NO_DESTINATIONS"
      [] OTHER ->
            IF ~IsComplete THEN "PROPERTIES_NOT_SET"
            ELSE IF CalculateDiff < 0 THEN "INSUFFICIENT_FUNDS"
            ELSE IF Unspendable # {}
                 THEN IF sources[FirstUnspendable].script = "null"
                      THEN "crash" ELSE "INVALID_PRIVATE_KEY"
            ELSE IF PaysDust THEN "DUST_OUTPUT" ELSE "ok"
-----------------------------------------------------------------------------
Init ==
    /\ mainnet \in Nets
    /\ sources = <<>> /\ destinations = <<>>
    /\ rate = 0 /\ isReplaceable = TRUE /\ hasMessage = FALSE
    /\ call = "none" /\ status = "none" /\ displayed = NoFee /\ sent = NoFee
    /\ Solver!Init

(* The caller has the object, and what was computed for it is out of date. *)
Modified ==
    /\ call = "none" /\ status # "crash"
    /\ UNCHANGED <<mainnet, call>>
    /\ status' = "none" /\ displayed' = NoFee /\ sent' = NoFee
    /\ LET cs == {i \in DOMAIN destinations' : destinations'[i].isChange}
       IN  Solver!Idle(IF cs = {} THEN 0 ELSE destinations'[CHOOSE i \in cs : TRUE].amount)

AddSource ==
    /\ Len(sources) < MaxSources
    /\ sources' = Append(sources, NewSource)
    /\ UNCHANGED <<destinations, rate, isReplaceable, hasMessage>>
    /\ Modified

SetSource(i, amount, script) ==
    /\ sources' = [sources EXCEPT ![i].given = TRUE, ![i].amount = amount, ![i].script = script]
    /\ UNCHANGED <<destinations, rate, isReplaceable, hasMessage>>
    /\ Modified

(* A reset property keeps its value, it only counts as not set. *)
ResetSource(i) ==
    /\ sources[i].given
    /\ sources' = [sources EXCEPT ![i].given = FALSE]
    /\ UNCHANGED <<destinations, rate, isReplaceable, hasMessage>>
    /\ Modified

SetSequence(i, n) ==
    /\ sources' = [sources EXCEPT ![i].sequence = n]
    /\ UNCHANGED <<destinations, rate, isReplaceable, hasMessage>>
    /\ Modified

AddDestination ==
    /\ Len(destinations) < MaxDestinations
    /\ destinations' = Append(destinations, NewDestination)
    /\ UNCHANGED <<sources, rate, isReplaceable, hasMessage>>
    /\ Modified

SetAddress(i) ==
    /\ destinations' = [destinations EXCEPT ![i].addressSet = TRUE]
    /\ UNCHANGED <<sources, rate, isReplaceable, hasMessage>>
    /\ Modified

(* Setting the amount of a change throws: the property is read-only. *)
SetAmount(i, amount) ==
    /\ ~destinations[i].isChange
    /\ destinations' = [destinations EXCEPT ![i].amountSet = TRUE, ![i].amount = amount]
    /\ UNCHANGED <<sources, rate, isReplaceable, hasMessage>>
    /\ Modified

ResetAmount(i) ==
    /\ destinations[i].amountSet
    /\ destinations' = [destinations EXCEPT ![i].amountSet = FALSE]
    /\ UNCHANGED <<sources, rate, isReplaceable, hasMessage>>
    /\ Modified

(* Also makes the amount read-only or required; its value stays. *)
SetIsChange(i, b) ==
    /\ destinations' = [destinations EXCEPT ![i].isChange = b]
    /\ UNCHANGED <<sources, rate, isReplaceable, hasMessage>>
    /\ Modified

SetFeeRate(r) ==
    /\ rate' = r
    /\ UNCHANGED <<sources, destinations, isReplaceable, hasMessage>>
    /\ Modified

SetIsReplaceable(b) ==
    /\ isReplaceable' = b
    /\ UNCHANGED <<sources, destinations, rate, hasMessage>>
    /\ Modified

SetMessage ==
    /\ hasMessage' = TRUE
    /\ UNCHANGED <<sources, destinations, rate, isReplaceable>>
    /\ Modified

Modify ==
    \/ AddSource \/ AddDestination \/ SetMessage
    \/ \E i \in DOMAIN sources :
        \/ ResetSource(i)
        \/ \E n \in SequenceNumbers : SetSequence(i, n)
        \/ \E a \in SourceAmounts, s \in {"own", "foreign"} : SetSource(i, a, s)
    \/ \E i \in DOMAIN destinations :
        \/ SetAddress(i) \/ ResetAmount(i)
        \/ \E a \in Amounts : SetAmount(i, a)
        \/ \E b \in BOOLEAN : SetIsChange(i, b)
    \/ \E r \in Rates : SetFeeRate(r)
    \/ \E b \in BOOLEAN : SetIsReplaceable(b)
-----------------------------------------------------------------------------
WrongSequence(s) == IF isReplaceable THEN "replaceable" ELSE s.sequence
WrongSequenceNumber(s) == IF isReplaceable THEN "replaceable" ELSE "zero"
Sequence(s) == IF isReplaceable THEN "replaceable" ELSE "final"

SignalReplaceability ==
    sources' = [i \in DOMAIN sources |-> [sources[i] EXCEPT !.sequence = Sequence(sources[i])]]

(* verify() throws, or dereferences a null script. *)
Refuse ==
    /\ call = "none" /\ status # "crash"
    /\ Verdict # "ok"
    /\ status' = Verdict
    /\ UNCHANGED <<mainnet, object, call, displayed, sent, solver>>

(* The sequence numbers are already set when the second change is noticed. *)
RefuseSecondChange ==
    /\ call = "none" /\ status # "crash"
    /\ Verdict = "ok"
    /\ \E i, j \in ChangeDestinations : i # j
    /\ SignalReplaceability
    /\ status' = "TOO_MANY_CHANGE_DESTINATIONS"
    /\ UNCHANGED <<mainnet, destinations, rate, isReplaceable, hasMessage, call, displayed, sent, solver>>

(* update(), also as the first half of serialize(). *)
Enter(kind) ==
    /\ call = "none" /\ status # "crash"
    /\ Verdict = "ok"
    /\ \A i, j \in ChangeDestinations : i = j
    /\ SignalReplaceability
    /\ call' = kind
    /\ status' = "none"
    /\ Solver!Begin({Summary}) \/ Solver!Repeat
    /\ UNCHANGED <<mainnet, destinations, rate, isReplaceable, hasMessage, displayed, sent>>

(* sign() had put the script of the first source into script_signature when *)
(* it threw: the property is left null.                                     *)
WrongLeftBySign == [sources EXCEPT ![1].script = "null"]
LeftBySign == IF outcome' = "AMOUNT_TOO_BIG"
              THEN [sources EXCEPT ![1].script = "null"] ELSE sources

Compute ==
    /\ call # "none"
    /\ Solver!Compute
    /\ destinations' = [i \in DOMAIN destinations |->
            IF i \in ChangeDestinations THEN [destinations[i] EXCEPT !.amount = change']
            ELSE destinations[i]]
    /\ sources' = LeftBySign
    /\ UNCHANGED <<mainnet, rate, isReplaceable, hasMessage>>
    /\ IF pc' # "done" THEN UNCHANGED <<call, status, displayed, sent>>
       ELSE /\ call' = "none" /\ status' = outcome'
            /\ LET fee == IF outcome' = "ok" THEN Solver!Diff(change') ELSE NoFee
               IN  IF call = "update" THEN displayed' = fee /\ UNCHANGED sent
                   ELSE sent' = fee /\ UNCHANGED displayed

Next == Modify \/ Refuse \/ RefuseSecondChange \/ (\E k \in {"update", "serialize"} : Enter(k)) \/ Compute

(* A call that was entered runs to its end. *)
Spec == Init /\ [][Next]_vars /\ WF_vars(Compute)
-----------------------------------------------------------------------------
TypeOK ==
    /\ mainnet \in BOOLEAN
    /\ sources \in Seq(Source) /\ destinations \in Seq(Destination)
    /\ rate \in Nat /\ isReplaceable \in BOOLEAN /\ hasMessage \in BOOLEAN
    /\ call \in {"none", "update", "serialize"}
    /\ status \in VerifyErrors \cup Solver!Outcomes
                    \cup {"TOO_MANY_CHANGE_DESTINATIONS", "crash"}
    /\ displayed \in Nat \cup {NoFee} /\ sent \in Nat \cup {NoFee}

Succeeded == call = "none" /\ status = "ok"

(* OutputsArePaidFor: after a call that succeeded, the outputs that will be *)
(* written take no more than the sources have, and what remains pays the    *)
(* rate for at least the shortest form of exactly those outputs.            *)
OutputsArePaidFor ==
    Succeeded =>
        LET written == Positive(DOMAIN destinations)
            least == Overhead + Len(sources) * InputSize + Message * MessageSize
                        + Cardinality(written) * OutputSize
        IN  Available - Spent(written) >= rate * least

(* OutputsAreRelayable: on the main net, after a call that succeeded, every *)
(* payee has an output that nodes relay (none is dropped for its amount)    *)
(* and the change either has one or is left to the fee.                     *)
OutputsAreRelayable ==
    Succeeded /\ mainnet =>
        \A i \in DOMAIN destinations :
            LET d == destinations[i]
            IN  ~(d.amount < Dust) \/ (d.isChange /\ d.amount = 0)

(* SerializeAgreesWithUpdate: while nothing is modified after an update()   *)
(* that succeeded, every further call succeeds too, and the transaction     *)
(* serialized pays the fee that was displayed.                              *)
SerializeAgreesWithUpdate ==
    displayed # NoFee /\ call = "none" =>
        status = "ok" /\ sent \in {NoFee, displayed}

(* SentSignalsReplaceability: a transaction is serialized with the sequence *)
(* numbers that is_replaceable asks for, whatever was set or called before. *)
SentSignalsReplaceability ==
    sent # NoFee =>
        \A i \in DOMAIN sources :
            sources[i].sequence = IF isReplaceable THEN "replaceable" ELSE "final"

(* ChargeIsBounded: a transaction with change overpays no miner: after a    *)
(* call that succeeded, what its sources do not pay to a destination is at  *)
(* most the rate for what is written of them, every signature long, and     *)
(* less than the dust limit on top when the change is left to the fee.      *)
ChargeIsBounded ==
    Succeeded /\ ChangeDestinations # {} =>
        LET payments == {i \in DOMAIN destinations :
                            ~destinations[i].isChange /\ destinations[i].amount > 0}
            most == Overhead + Len(sources) * InputSize + Message * MessageSize
                        + Cardinality(payments) * OutputSize + Len(sources) + OutputSize
            charged == Available - Spent(DOMAIN destinations)
        IN  IF \E i \in ChangeDestinations : destinations[i].amount > 0
            THEN charged <= rate * most
            ELSE charged < rate * most + Dust

(* CallsReturn: update() and serialize() come to an end. *)
CallsReturn == call # "none" ~> call = "none"
-----------------------------------------------------------------------------
(* The next two are what the code says of itself; it does otherwise.        *)

(* InsufficientMeansInsufficient: "Transaction is trying to spend more than *)
(* available in inputs" is reported only if the payees ask for more than    *)
(* the sources have.  verify() also counts the change that an earlier       *)
(* update() computed and that this one would compute again.                 *)
InsufficientMeansInsufficient ==
    status = "INSUFFICIENT_FUNDS" => Spent(Payees) > Available

(* FailuresAreExceptions: serialize() (and update()) "may verify/update     *)
(* internal state and throw exception if something is wrong": no sequence   *)
(* of calls makes it dereference a null script.                             *)
FailuresAreExceptions == status # "crash"
=============================================================================
