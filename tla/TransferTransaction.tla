------------------------ MODULE TransferTransaction ------------------------
(***************************************************************************)
(* What the transactions of EOS and of Golos share                         *)
(* (multy_core/src/eos/eos_transaction.cpp, golos/golos_transaction.cpp):  *)
(* one source, one destination, a message, a reference to a block and an   *)
(* expiration, set by the caller in any order.  What update() and          *)
(* serialize() make of them are the modules EosTransaction and             *)
(* GolosTransaction; chain tells which of the two the object is.           *)
(*                                                                         *)
(* The amount of a source is accepted by both and read by neither, so it   *)
(* is not kept here.                                                       *)
(***************************************************************************)
EXTENDS PropertyValue, Iso8601, Sequences

CONSTANTS
    Payers, Payees,         \* accounts of the source, of the destination
    Amounts, Messages,      \* amounts and messages a caller sets
    Times, Durations,       \* expirations, as a time and in seconds
    BlockNums, BlockRefs,   \* the block referred to: its number, its id
    NoAccount, Offset,      \* the address before one was set, the time zone
    Junk,                   \* what a variable that was never assigned holds
    LastTime                \* how far the clock goes

ASSUME ClockAssumption == Offset \in Int /\ LastTime \in Nat /\ Durations \subseteq Int

ASSUME NumbersAssumption == Amounts \subseteq Int /\ BlockNums \subseteq Int /\ BlockRefs \subseteq Int

(* A message is its length and, as text, what comes before its first NUL. *)
Message == [length: Nat, text: Nat]
ASSUME MessagesAssumption == Messages \subseteq Message /\ \A m \in Messages : m.text <= m.length

VARIABLES
    chain,
    source,                 \* m_source: added or not, its address
    destination,            \* m_destination: added or not, its address and amount
    message,                \* m_message
    expiration, expires,    \* m_explicit_expiration and m_expiration
    duration,               \* m_expires_in_seconds, of Golos alone
    blockNum, blockRef,     \* m_ref_block_num, and m_ref_block_prefix or m_ref_block_hash
    operations, signature,  \* m_actions or m_operation, and m_signature
    clock,
    status,                 \* how the last call ended
    sent                    \* what a serialize() returned since the last modification

parts == <<source, destination, message, blockNum, blockRef, duration, expiration>>
made == <<operations, signature, sent>>
vars == <<chain, parts, expires, made, clock, status>>

MinDuration == 10    \* GOLOS_EXPIRE_MIN_SECONDS
MessageLimit == 255
ConfirmTime == 30    \* EOS_TIME_CONFIRM_TRANSACTION

Nothing == [made |-> FALSE]

(* The constructors.  m_expiration is not initialized. *)
Init ==
    /\ chain \in {"EOS", "Golos"}
    /\ source = [added |-> FALSE, address |-> Never(NoAccount)]
    /\ destination = [added |-> FALSE, address |-> Never(NoAccount), amount |-> Never(0)]
    /\ message = [length |-> 0, text |-> 0]
    /\ expiration = Never([fields |-> 0, zulu |-> FALSE])
    /\ expires \in Junk
    /\ duration = Never(MinDuration)
    /\ blockNum = Never(0)
    /\ blockRef = Never(0)
    /\ operations = <<>>
    /\ signature = Nothing
    /\ clock = 0
    /\ status = "none"
    /\ sent = Nothing

Modified == status' = "none" /\ sent' = Nothing /\ UNCHANGED <<chain, operations, signature, clock>>

(* A call that throws and changes nothing. *)
Rejected == UNCHANGED vars

(* One source and one destination at most; add_source(), add_destination().*)
AddSource ==
    IF source.added THEN Rejected
    ELSE /\ source' = [source EXCEPT !.added = TRUE]
         /\ Modified
         /\ UNCHANGED <<destination, message, blockNum, blockRef, duration, expiration, expires>>

AddDestination ==
    IF destination.added THEN Rejected
    ELSE /\ destination' = [destination EXCEPT !.added = TRUE]
         /\ Modified
         /\ UNCHANGED <<source, message, blockNum, blockRef, duration, expiration, expires>>

(* Their properties, which are not among those of the transaction. *)
SetSource(a) ==
    /\ source.added
    /\ source' \in {[source EXCEPT !.address = Given(a)], [source EXCEPT !.address = Forgotten(@)]}
    /\ Modified
    /\ UNCHANGED <<destination, message, blockNum, blockRef, duration, expiration, expires>>

SetDestination(a) ==
    /\ destination.added
    /\ destination' \in {[destination EXCEPT !.address = Given(a)],
                         [destination EXCEPT !.address = Forgotten(@)],
                         [destination EXCEPT !.amount = Forgotten(@)]}
    /\ Modified
    /\ UNCHANGED <<source, message, blockNum, blockRef, duration, expiration, expires>>

(* EOS transfers at least one unit, Golos may transfer none. *)
SetAmount(v) ==
    /\ destination.added
    /\ IF ~VerifyBiggerThan(v, IF chain = "EOS" THEN 1 ELSE 0) THEN Rejected
       ELSE /\ destination' = [destination EXCEPT !.amount = Given(v)]
            /\ Modified
            /\ UNCHANGED <<source, message, blockNum, blockRef, duration, expiration, expires>>

(* set_message(): only EOS looks at the length. *)
SetMessage(m) ==
    IF chain = "EOS" /\ m.length > MessageLimit THEN Rejected
    ELSE /\ message' = m
         /\ Modified
         /\ UNCHANGED <<source, destination, blockNum, blockRef, duration, expiration, expires>>

(* The predicate of the expiration parses it and keeps the result.         *)
SetExpiration(t) ==
    IF ~IsTime(t, Offset) THEN Rejected
    ELSE /\ expiration' = Given(t)
         /\ expires' = ParseTime(t, Offset) + (IF chain = "EOS" THEN ConfirmTime ELSE 0)
         /\ Modified
         /\ UNCHANGED <<source, destination, message, blockNum, blockRef, duration>>

(* A reset leaves what the predicate kept. *)
ResetExpiration ==
    /\ expiration' = Forgotten(expiration)
    /\ Modified
    /\ UNCHANGED <<source, destination, message, blockNum, blockRef, duration, expires>>

SetDuration(d) ==
    /\ chain = "Golos"
    /\ IF ~VerifyBiggerThan(d, MinDuration) THEN Rejected
       ELSE /\ duration' \in {Given(d), Forgotten(duration)}
            /\ Modified
            /\ UNCHANGED <<source, destination, message, blockNum, blockRef, expiration, expires>>

(* A reference is any that its predicate accepts, of -1 too. *)
SetBlock(n, r) ==
    /\ \/ blockNum' \in {Given(n), Forgotten(blockNum)} /\ UNCHANGED blockRef
       \/ blockRef' \in {Given(r), Forgotten(blockRef)} /\ UNCHANGED blockNum
    /\ Modified
    /\ UNCHANGED <<source, destination, message, duration, expiration, expires>>

(* get_fee(): neither chain has one. *)
GetFee == Rejected

Tick == clock < LastTime /\ clock' = clock + 1 /\ UNCHANGED <<chain, parts, expires, made, status>>

Edit ==
    \/ AddSource \/ AddDestination
    \/ \E a \in Payers : SetSource(a)
    \/ \E a \in Payees : SetDestination(a)
    \/ \E v \in Amounts : SetAmount(v)
    \/ \E m \in Messages : SetMessage(m)
    \/ \E t \in Times : SetExpiration(t)
    \/ ResetExpiration
    \/ \E d \in Durations : SetDuration(d)
    \/ \E n \in BlockNums, r \in BlockRefs : SetBlock(n, r)
    \/ GetFee
    \/ Tick
-----------------------------------------------------------------------------
(* The parts that both update() need, in the order they are asked for.     *)
MissingPart ==
    IF ~source.added THEN "NO_SOURCES"
    ELSE IF ~destination.added THEN "NO_DESTINATIONS"
    ELSE IF ~Readable(source.address, "REQUIRED") \/ ~Readable(destination.address, "REQUIRED")
         THEN "PROPERTY_NOT_SET"
    ELSE "ok"

BlockIsKnown == Readable(blockNum, "REQUIRED") /\ Readable(blockRef, "REQUIRED")
=============================================================================
