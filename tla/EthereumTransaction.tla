------------------------ MODULE EthereumTransaction ------------------------
(***************************************************************************)
(* An Ethereum transaction as a wallet drives it                           *)
(* (multy_core/src/ethereum/ethereum_transaction.cpp, its header and       *)
(* ethereum_extra_data.h): the caller sets the properties of the           *)
(* transaction, its fee, one source and one destination in any order,      *)
(* calls update() and serialize() in between and may change the key of the *)
(* account that the transaction refers to.                                 *)
(*                                                                         *)
(* Amounts are unbounded integers, negative ones included: only writing    *)
(* them refuses a negative one.  How a number or a payload is written is   *)
(* the module RlpEncoding.                                                 *)
(*                                                                         *)
(* The definitions named Wrong... are mistakes this code could have made:  *)
(* the properties are checked to notice each of them.                      *)
(***************************************************************************)
EXTENDS PropertyValue, Sequences

CONSTANTS
    Nonces, GasPrices, GasLimits,   \* the values a caller sets
    Balances, Payments,             \* amounts of the source, of the destination
    Addresses, Payloads, Keys,
    NoAddress,                      \* the address before one was set
    ChainId                         \* the net type of the account

ASSUME NumbersAssumption == (Nonces \cup GasPrices \cup GasLimits \cup Balances
                             \cup Payments \cup {ChainId}) \subseteq Int
(* enum EthereumChainId: a chain, or none as before EIP 155. *)
ASSUME ChainIdAssumption == ChainId > 0 \/ ChainId = -4
ASSUME NoAddressAssumption == NoAddress \notin Addresses

(* Nothing, bytes a caller gives, or the call of a contract: the method,   *)
(* its words.                                                              *)
Methods == {"none", "data", "ERC20/transfer", "ERC20/transfer_from", "ERC20/approve",
            "ERC721/transfer", "ERC721/transfer_from", "ERC721/approve",
            "multisig/new_wallet", "multisig/new_request", "confirm", "reject", "send"}
Payload == [method: Methods, arguments: Seq(Int \cup Addresses)]
ASSUME PayloadsAssumption == Payloads \subseteq Payload

NoPayload == [method |-> "none", arguments |-> <<>>]

VARIABLES
    nonce, payload,                 \* properties of the transaction
    gasPrice, gasLimit, totalFee,   \* m_fee
    source,                         \* m_source: added or not, its amount
    destination,                    \* m_destination: its address as given and as bytes, its amount
    signature,                      \* m_signature: of what, by which key
    key,                            \* the private key of m_account
    status,                         \* how the last call ended
    shown,                          \* fee and total of an update() since the last modification
    sent                            \* what a serialize() returned since then

edited == <<nonce, payload, gasPrice, gasLimit, source, destination, key>>
vars == <<edited, totalFee, signature, status, shown, sent>>

Nothing == [made |-> FALSE]
-----------------------------------------------------------------------------
(* The constructor.  The properties of the fee are not registered.         *)
Init ==
    /\ nonce = Never(0)
    /\ payload = Never(NoPayload)
    /\ gasPrice = Never(0)
    /\ gasLimit = Never(0)
    /\ totalFee = 0
    /\ source = [added |-> FALSE, amount |-> Never(0)]
    /\ destination = [added |-> FALSE, address |-> Never(NoAddress),
                      bytes |-> NoAddress, amount |-> Never(0)]
    /\ signature = Nothing
    /\ key \in Keys
    /\ status = "none"
    /\ shown = Nothing
    /\ sent = Nothing

Modify ==
    /\ shown' = Nothing
    /\ sent' = Nothing
    /\ UNCHANGED <<totalFee, signature>>

Rejected == status' = "rejected" /\ UNCHANGED <<edited, totalFee, signature, shown, sent>>

(* A value whose predicate throws changes nothing.  Minus one is accepted. *)
SetNonce(v) ==
    IF v < -1 THEN Rejected
    ELSE /\ nonce' = Given(v)
         /\ status' = "none" /\ Modify
         /\ UNCHANGED <<payload, gasPrice, gasLimit, source, destination, key>>

ResetNonce ==
    /\ nonce' = Forgotten(nonce)
    /\ status' = "none" /\ Modify
    /\ UNCHANGED <<payload, gasPrice, gasLimit, source, destination, key>>

(* set_message(), or the property by its name. *)
SetPayload(p) ==
    /\ payload' = Given(p)
    /\ status' = "none" /\ Modify
    /\ UNCHANGED <<nonce, gasPrice, gasLimit, source, destination, key>>

ResetPayload ==
    /\ payload' = Forgotten(payload)
    /\ status' = "none" /\ Modify
    /\ UNCHANGED <<nonce, gasPrice, gasLimit, source, destination, key>>

SetGasPrice(v) ==
    /\ gasPrice' \in {Given(v), Forgotten(gasPrice)}
    /\ status' = "none" /\ Modify
    /\ UNCHANGED <<nonce, payload, gasLimit, source, destination, key>>

SetGasLimit(v) ==
    /\ gasLimit' \in {Given(v), Forgotten(gasLimit)}
    /\ status' = "none" /\ Modify
    /\ UNCHANGED <<nonce, payload, gasPrice, source, destination, key>>

AddSource ==
    IF source.added THEN Rejected
    ELSE /\ source' = [source EXCEPT !.added = TRUE]
         /\ status' = "none" /\ Modify
         /\ UNCHANGED <<nonce, payload, gasPrice, gasLimit, destination, key>>

SetBalance(v) ==
    /\ source.added
    /\ source' = [source EXCEPT !.amount = Given(v)]
    /\ status' = "none" /\ Modify
    /\ UNCHANGED <<nonce, payload, gasPrice, gasLimit, destination, key>>

AddDestination ==
    IF destination.added THEN Rejected
    ELSE /\ destination' = [destination EXCEPT !.added = TRUE]
         /\ status' = "none" /\ Modify
         /\ UNCHANGED <<nonce, payload, gasPrice, gasLimit, source, key>>

(* The predicate of the address converts it and keeps the bytes, which a   *)
(* reset does not touch.                                                   *)
SetDestination(a, v) ==
    /\ destination.added
    /\ destination' \in {[destination EXCEPT !.address = Given(a), !.bytes = a],
                         [destination EXCEPT !.address = Forgotten(@)],
                         [destination EXCEPT !.amount = Given(v)]}
    /\ status' = "none" /\ Modify
    /\ UNCHANGED <<nonce, payload, gasPrice, gasLimit, source, key>>

(* account_change_private_key() on the account the transaction refers to. *)
ChangeKey(k) ==
    /\ key' = k
    /\ status' = "none" /\ Modify
    /\ UNCHANGED <<nonce, payload, gasPrice, gasLimit, source, destination>>
-----------------------------------------------------------------------------
RegisteredAreSet ==
    nonce.isSet /\ source.amount.isSet /\ destination.address.isSet /\ destination.amount.isSet

(* verify() *)
Verified ==
    IF ~source.added THEN "NO_SOURCES"
    ELSE IF ~destination.added THEN "NO_DESTINATIONS"
    ELSE IF ~RegisteredAreSet THEN "PROPERTIES_NOT_SET"
    ELSE "ok"

Fee == gasLimit.value * gasPrice.value
TotalSpent == destination.amount.value + totalFee

WrongVerdict ==
    IF Verified # "ok" THEN Verified
    ELSE IF ~Readable(gasPrice, "REQUIRED") THEN "GENERAL_ERROR"
    ELSE IF source.amount.value - destination.amount.value - totalFee < 0
         THEN "INSUFFICIENT_FUNDS"
    ELSE "ok"

(* update(): the price of gas is read after verify(), which has not seen   *)
(* that it is required.                                                    *)
Verdict ==
    IF Verified # "ok" THEN Verified
    ELSE IF ~Readable(gasPrice, "REQUIRED") THEN "GENERAL_ERROR"
    ELSE IF source.amount.value - destination.amount.value - Fee < 0 THEN "INSUFFICIENT_FUNDS"
    ELSE "ok"

WrongUpdatedFee == IF Verdict = "ok" /\ ~gasLimit.isSet THEN totalFee ELSE Fee

(* The fee is assigned before the funds are found to be insufficient. *)
UpdatedFee == IF Verdict \in {"ok", "INSUFFICIENT_FUNDS"} THEN Fee ELSE totalFee

Update ==
    /\ totalFee' = UpdatedFee
    /\ status' = Verdict
    /\ shown' = IF Verdict = "ok"
                THEN [made |-> TRUE, fee |-> Fee, spent |-> destination.amount.value + Fee]
                ELSE shown
    /\ UNCHANGED <<edited, signature, sent>>

(* serialize_to_stream() without the signature.  The payload that is       *)
(* written is the one that is stored.                                      *)
Content == [nonce |-> nonce.value, gasPrice |-> gasPrice.value, gasLimit |-> gasLimit.value,
            to |-> destination.bytes, amount |-> destination.amount.value,
            payload |-> payload.value]

WrongIsWritable(c) == c.nonce >= 0 /\ c.gasPrice >= 0 /\ c.gasLimit >= 0

(* write_int() throws for a negative number. *)
IsWritable(c) == c.nonce >= 0 /\ c.gasPrice >= 0 /\ c.gasLimit >= 0 /\ c.amount >= 0

(* What is signed, and the number that the recovery id is added to: with   *)
(* the chain, or in the manner of before EIP 155 (a chain of -4).          *)
SignedContent == [content |-> Content, chain |-> IF ChainId > 0 THEN ChainId ELSE 0]
RecoveryOffset == ChainId * 2 + 35

WrongSign == IF signature.made THEN signature
             ELSE [made |-> TRUE, of |-> SignedContent, by |-> key]
Sign == [made |-> TRUE, of |-> SignedContent, by |-> key]

(* serialize(): update(), sign() and the same fields again with the        *)
(* signature.  A field that cannot be written throws within sign(), which  *)
(* leaves the signature of an earlier call.                                *)
Serialize ==
    /\ totalFee' = UpdatedFee
    /\ IF Verdict = "ok" /\ IsWritable(Content)
       THEN /\ signature' = Sign
            /\ sent' = [made |-> TRUE, content |-> Content, signature |-> Sign,
                        offset |-> RecoveryOffset]
            /\ status' = "ok"
       ELSE /\ status' = IF Verdict = "ok" THEN "TOO_BIG_FOR_UINT64" ELSE Verdict
            /\ UNCHANGED <<signature, sent>>
    /\ UNCHANGED <<edited, shown>>

Edit ==
    \/ \E v \in Nonces : SetNonce(v)
    \/ ResetNonce
    \/ \E p \in Payloads : SetPayload(p)
    \/ ResetPayload
    \/ \E v \in GasPrices : SetGasPrice(v)
    \/ \E v \in GasLimits : SetGasLimit(v)
    \/ AddSource
    \/ \E v \in Balances : SetBalance(v)
    \/ AddDestination
    \/ \E a \in Addresses, v \in Payments : SetDestination(a, v)
    \/ \E k \in Keys : ChangeKey(k)

Next == Edit \/ Update \/ Serialize

Spec == Init /\ [][Next]_vars
-----------------------------------------------------------------------------
Contents == [nonce: Nat, gasPrice: Nat, gasLimit: Nat,
             to: Addresses \cup {NoAddress}, amount: Nat, payload: Payload]
Signatures == [made: {TRUE}, of: [content: Contents, chain: Nat], by: Keys]

(* TypeOK: the properties hold what their owners accept, and nothing that is *)
(* signed or sent has a negative number.                                    *)
TypeOK ==
    /\ nonce \in PropertyOf(Int)
    /\ payload \in PropertyOf(Payload)
    /\ gasPrice \in PropertyOf(Int)
    /\ gasLimit \in PropertyOf(Int)
    /\ totalFee \in Int
    /\ source \in [added: BOOLEAN, amount: PropertyOf(Int)]
    /\ destination \in [added: BOOLEAN, address: PropertyOf(Addresses \cup {NoAddress}),
                        bytes: Addresses \cup {NoAddress}, amount: PropertyOf(Int)]
    /\ signature \in Signatures \cup {Nothing}
    /\ key \in Keys
    /\ shown \in [made: {TRUE}, fee: Int, spent: Int] \cup {Nothing}
    /\ sent \in [made: {TRUE}, content: Contents, signature: Signatures, offset: Int]
                \cup {Nothing}

(* SentIsCovered: a transaction that serialize() returned goes to the       *)
(* address that was given last, and with its fee costs no more than the     *)
(* source has, whatever calls failed before.                                *)
SentIsCovered ==
    sent.made =>
        LET c == sent.content IN
        /\ c.amount + c.gasLimit * c.gasPrice <= source.amount.value
        /\ c.to = destination.address.value

(* SentIsSigned: the signature that is sent is one of the fields it is sent *)
(* with, for the chain of the account, by the key the account has at that   *)
(* moment, not one of an earlier serialize().                               *)
SentIsSigned ==
    sent.made =>
        /\ sent.signature.of.content = sent.content
        /\ sent.signature.by = key
        /\ sent.offset = (IF sent.signature.of.chain = 0 THEN 27
                          ELSE 2 * sent.signature.of.chain + 35)

(* SentIsAsShown: a transaction that is sent costs what get_total_fee() and *)
(* get_total_spent() answered after an update() with no modification since. *)
SentIsAsShown ==
    /\ shown.made => shown.fee = totalFee /\ shown.spent = TotalSpent
    /\ shown.made /\ sent.made =>
        /\ shown.fee = sent.content.gasLimit * sent.content.gasPrice
        /\ shown.spent = sent.content.amount + shown.fee
=============================================================================
