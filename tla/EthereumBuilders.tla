-------------------------- MODULE EthereumBuilders --------------------------
(***************************************************************************)
(* The transaction builders of Ethereum (the ethereum_transaction_builder  *)
(* files of multy_core/src/ethereum): a basic one and the ones that call a *)
(* contract: ERC20 and ERC721 tokens, multisig wallets.  A wallet sets     *)
(* the properties of a builder, lets it make a transaction, and goes on    *)
(* with the transaction as in the module EthereumTransaction; or it has    *)
(* made the transaction itself.                                            *)
(*                                                                         *)
(* A payload is the method that is called and its arguments, words of 256  *)
(* bits.                                                                   *)
(*                                                                         *)
(* The definitions named Wrong... are mistakes this code could have made:  *)
(* the properties are checked to notice each of them.                      *)
(***************************************************************************)
EXTENDS EthereumTransaction, FiniteSets, Sequences

CONSTANTS
    Kinds,       \* the builders that are looked at
    Amounts,     \* numbers a caller gives to a builder
    WordLimit,   \* 2^256
    Parties,     \* addresses a caller gives to a builder
    MaxOwners,   \* how long the list of the owners of a wallet may be
    OwnAddress   \* get_ethereum_address() of the account

ASSUME WordAssumption == WordLimit \in Nat \ {0, 1} /\ MaxOwners \in 0..(WordLimit - 1)
ASSUME BuilderAssumption ==
    /\ Amounts \subseteq Int
    /\ Parties \cup {OwnAddress} \subseteq Addresses
    /\ Kinds \subseteq {"basic", "ERC20/transfer", "ERC20/transfer_from", "ERC20/approve",
                        "ERC721/transfer", "ERC721/transfer_from", "ERC721/approve",
                        "multisig/new_wallet", "multisig/new_request", "multisig/request"}

VARIABLES
    builder,   \* the builder in use: its kind and its properties
    origin     \* the builder the transaction came from

allVars == <<vars, builder, origin>>

NoBuilder == [kind |-> "none"]
ERC20 == {"ERC20/transfer", "ERC20/transfer_from", "ERC20/approve"}
ERC721 == {"ERC721/transfer", "ERC721/transfer_from", "ERC721/approve"}
Multisig == {"multisig/new_wallet", "multisig/new_request", "multisig/request"}
-----------------------------------------------------------------------------
(* The names each constructor binds: what the account has, whom the        *)
(* transaction goes to, numbers, addresses.                                *)
Balance(kind) == IF kind \in ERC20 \cup ERC721 THEN "balance_eth" ELSE "balance"

Target(kind) ==
    CASE kind = "basic" -> "destination_address"
      [] kind \in ERC20 \cup ERC721 -> "contract_address"
      [] kind = "multisig/new_wallet" -> "factory_address"
      [] OTHER -> "wallet_address"

NumberNames(kind) ==
    CASE kind = "basic" -> {"destination_amount"}
      [] kind = "ERC20/transfer" -> {"balance_token", "transfer_amount_token"}
      [] kind = "ERC20/transfer_from" -> {"available_token_from", "transfer_amount_token"}
      [] kind = "ERC20/approve" -> {"balance_token", "approve_amount_token"}
      [] kind \in ERC721 -> {"token_id"}
      [] kind = "multisig/new_wallet" -> {"confirmations", "price"}
      [] kind = "multisig/new_request" -> {"amount"}
      [] OTHER -> {"request_id"}

AddressNames(kind) ==
    CASE kind = "ERC20/transfer" -> {"destination_address"}
      [] kind \in {"ERC20/transfer_from", "ERC721/transfer_from"} -> {"from", "to"}
      [] kind = "ERC20/approve" -> {"address_for_approve"}
      [] kind \in {"ERC721/transfer", "ERC721/approve"} -> {"to"}
      [] kind = "multisig/new_request" -> {"dest_address"}
      [] OTHER -> {}

(* The list of the owners, the action of a request and the payload of the  *)
(* basic builder are given as one value each.                              *)
OtherNames(kind) ==
    CASE kind = "basic" -> {"payload"}
      [] kind = "multisig/new_wallet" -> {"owners"}
      [] kind = "multisig/request" -> {"action"}
      [] OTHER -> {}

(* A list without an owner is one empty string, which is no address.       *)
Owners == UNION {[1..n -> Parties] : n \in 1..MaxOwners}
OtherValues(kind) ==
    CASE kind = "basic" -> Payloads
      [] kind = "multisig/new_wallet" -> Owners
      [] OTHER -> {"confirm", "reject", "send"}

Names(kind) == {Balance(kind), Target(kind)} \cup NumberNames(kind)
               \cup AddressNames(kind) \cup OtherNames(kind)

Trait(kind, name) ==
    IF name = "payload" \/ <<kind, name>> = <<"ERC721/transfer_from", "from">>
    THEN "OPTIONAL" ELSE "REQUIRED"

Magnitude(n) == IF n < 0 THEN -n ELSE n

(* The predicates.  The one of token_id looks at the bytes of the number,  *)
(* which do not show its sign.                                             *)
Accepts(name, v) ==
    CASE name = "destination_amount" -> VerifyBiggerThan(v, -1)
      [] name = "confirmations" -> VerifyBiggerThan(v, 1)
      [] name = "token_id" -> Magnitude(v) < WordLimit
      [] OTHER -> VerifyBiggerThan(v, 0)

Given0(name) == builder.properties[name].value
-----------------------------------------------------------------------------
SetProperty(name, v) ==
    /\ builder' = [builder EXCEPT !.properties[name] = Given(v)]
    /\ status' = "none"
    /\ UNCHANGED <<edited, totalFee, signature, shown, sent, origin>>

Refused ==
    /\ status' = "rejected"
    /\ UNCHANGED <<edited, totalFee, signature, shown, sent, builder, origin>>

SetNumber(v) ==
    \E name \in NumberNames(builder.kind) \cup {Balance(builder.kind)} :
        IF Accepts(name, v) THEN SetProperty(name, v) ELSE Refused

SetParty(a) == \E name \in AddressNames(builder.kind) \cup {Target(builder.kind)} :
                   SetProperty(name, a)

SetOther == \E name \in OtherNames(builder.kind), v \in OtherValues(builder.kind) :
                SetProperty(name, v)

Reset ==
    \E name \in Names(builder.kind) :
        /\ builder' = [builder EXCEPT !.properties[name] = Forgotten(@)]
        /\ status' = "none"
        /\ UNCHANGED <<edited, totalFee, signature, shown, sent, origin>>

(* What must not exceed what, in validate() of the ERC20 builders. *)
TokensSpent(kind) == IF kind = "ERC20/approve" THEN "approve_amount_token"
                     ELSE "transfer_amount_token"
TokensOwned(kind) == IF kind = "ERC20/transfer_from" THEN "available_token_from"
                     ELSE "balance_token"

AllRequiredSet == \A n \in Names(builder.kind) :
                      Readable(builder.properties[n], Trait(builder.kind, n))

WrongValidated == IF ~AllRequiredSet THEN "PROPERTIES_NOT_SET" ELSE "ok"

Validated ==
    IF ~AllRequiredSet THEN "PROPERTIES_NOT_SET"
    ELSE IF builder.kind \in ERC20
            /\ Given0(TokensSpent(builder.kind)) > Given0(TokensOwned(builder.kind))
    THEN "INSUFFICIENT_FUNDS"
    ELSE "ok"

(* Writing a number as a word exports its bytes, without its sign. *)
Word(n) == Magnitude(n)
FitsWord(n) == Magnitude(n) < WordLimit

Sender == ValueOr(builder.properties["from"], OwnAddress)

(* make_message(): the arguments of the method, in its order. *)
Arguments ==
    LET g(name) == Given0(name)
        w(name) == Word(Given0(name)) IN
    CASE builder.kind = "ERC20/transfer" -> <<g("destination_address"), w("transfer_amount_token")>>
      [] builder.kind = "ERC20/transfer_from" -> <<g("from"), g("to"), w("transfer_amount_token")>>
      [] builder.kind = "ERC20/approve" -> <<g("address_for_approve"), w("approve_amount_token")>>
      [] builder.kind \in {"ERC721/transfer", "ERC721/approve"} -> <<g("to"), w("token_id")>>
      [] builder.kind = "ERC721/transfer_from" -> <<Sender, g("to"), w("token_id")>>
      [] builder.kind = "multisig/new_wallet" ->
            <<2 * 32, w("confirmations"), Len(g("owners"))>> \o g("owners")
      [] builder.kind = "multisig/new_request" -> <<g("dest_address"), w("amount"), 3 * 32, 0>>
      [] OTHER -> <<w("request_id")>>

Method == IF builder.kind = "multisig/request" THEN Given0("action") ELSE builder.kind

MessageFits ==
    \A n \in NumberNames(builder.kind) \ {"price", TokensOwned(builder.kind)} :
        FitsWord(Given0(n))

WrongMadePayload ==
    IF builder.kind \in Multisig THEN Never(NoPayload)
    ELSE IF builder.kind # "basic" THEN Given([method |-> Method, arguments |-> Arguments])
    ELSE IF builder.properties["payload"].isSet THEN Given(Given0("payload"))
    ELSE Never(NoPayload)

MadePayload ==
    IF builder.kind # "basic"
    THEN Given([method |-> Method, arguments |-> Arguments])
    ELSE IF builder.properties["payload"].isSet THEN Given(Given0("payload"))
    ELSE Never(NoPayload)

MadeAmount ==
    CASE builder.kind = "basic" -> Given0("destination_amount")
      [] builder.kind = "multisig/new_wallet" -> Given0("price")
      [] OTHER -> 0

(* make_transaction(): validate(), a new transaction with its source and   *)
(* destination, and the message last.  When the message throws, the        *)
(* transaction is destroyed by its owner.  The wallet frees the builder.   *)
MakeTransaction ==
    IF Validated = "ok" /\ (builder.kind = "basic" \/ MessageFits)
    THEN /\ source' = [added |-> TRUE, amount |-> Given(Given0(Balance(builder.kind)))]
         /\ destination' = [added |-> TRUE, address |-> Given(Given0(Target(builder.kind))),
                            bytes |-> Given0(Target(builder.kind)), amount |-> Given(MadeAmount)]
         /\ payload' = MadePayload
         /\ builder' = NoBuilder
         /\ origin' = builder
         /\ status' = "made"
         /\ UNCHANGED <<nonce, gasPrice, gasLimit, key, totalFee, signature, shown, sent>>
    ELSE /\ status' = IF Validated = "ok" THEN "TOO_BIG_FOR_UINT256" ELSE Validated
         /\ UNCHANGED <<edited, totalFee, signature, shown, sent, builder, origin>>

BuilderStep ==
    /\ builder # NoBuilder
    /\ \/ \E v \in Amounts : SetNumber(v)
       \/ \E a \in Parties : SetParty(a)
       \/ SetOther
       \/ Reset
       \/ MakeTransaction

(* With a transaction that came from a builder the wallet gives what the   *)
(* builder leaves open, and sends it.                                      *)
Complete ==
    \/ \E v \in Nonces : SetNonce(v)
    \/ \E v \in GasPrices : SetGasPrice(v)
    \/ \E v \in GasLimits : SetGasLimit(v)
    \/ Update
    \/ Serialize

TransactionStep ==
    /\ builder = NoBuilder
    /\ IF origin = NoBuilder THEN Next ELSE Complete
    /\ UNCHANGED <<builder, origin>>

(* make_transaction_builder() with the type and action of a kind, or none. *)
BuilderInit ==
    /\ Init
    /\ origin = NoBuilder
    /\ \/ builder = NoBuilder
       \/ \E k \in Kinds : builder = [kind |-> k, properties |-> [n \in Names(k) |-> Never(0)]]

BuilderNext == BuilderStep \/ TransactionStep
BuilderSpec == BuilderInit /\ [][BuilderNext]_allVars
-----------------------------------------------------------------------------
(* BuilderTypeOK: the same with a builder that keeps its own properties. *)
BuilderTypeOK ==
    /\ TypeOK
    /\ \A b \in {builder, origin} :
        b = NoBuilder \/ (b.kind \in Kinds /\ DOMAIN b.properties = Names(b.kind))

Answer(name) == origin.properties[name].value

(* What a contract reads of a call by the ABI: each parameter of the method *)
(* in its place, a list where the word in its place points to, after its    *)
(* length.  The data of a payment request is a list without bytes.          *)
Parameters(kind) ==
    CASE kind = "ERC20/transfer" -> <<"destination_address", "transfer_amount_token">>
      [] kind = "ERC20/transfer_from" -> <<"from", "to", "transfer_amount_token">>
      [] kind = "ERC20/approve" -> <<"address_for_approve", "approve_amount_token">>
      [] kind \in {"ERC721/transfer", "ERC721/approve"} -> <<"to", "token_id">>
      [] kind = "ERC721/transfer_from" -> <<"from", "to", "token_id">>
      [] kind = "multisig/new_wallet" -> <<"owners", "confirmations">>
      [] kind = "multisig/new_request" -> <<"dest_address", "amount", "data">>
      [] kind = "multisig/request" -> <<"request_id">>
      [] OTHER -> <<>>

ListAt(words, i) == LET at == words[i] \div 32 + 1 IN SubSeq(words, at + 1, at + words[at])
ReadParameter(words, i, name) == IF name \in {"owners", "data"} THEN ListAt(words, i) ELSE words[i]

(* What the caller of a builder means by a parameter.                       *)
Meant(asked, name) ==
    IF name = "data" THEN <<>>
    ELSE IF name = "from" /\ ~asked.properties[name].isSet THEN OwnAddress
    ELSE IF name \in NumberNames(asked.kind) THEN Magnitude(asked.properties[name].value)
    ELSE asked.properties[name].value

(* The words of the list, its length first, that follow the parameters.     *)
ListSize(asked) ==
    CASE asked.kind = "multisig/new_wallet" -> 1 + Len(asked.properties["owners"].value)
      [] asked.kind = "multisig/new_request" -> 1
      [] OTHER -> 0

CallIsAsked(asked, call) ==
    LET parameters == Parameters(asked.kind) IN
    /\ call.method = IF asked.kind = "multisig/request" THEN asked.properties["action"].value
                     ELSE asked.kind
    /\ Len(call.arguments) = Len(parameters) + ListSize(asked)
    /\ \A i \in DOMAIN parameters :
         /\ ReadParameter(call.arguments, i, parameters[i]) = Meant(asked, parameters[i])
         /\ parameters[i] \in NumberNames(asked.kind) =>
              /\ Meant(asked, parameters[i]) < WordLimit
              /\ asked.properties[parameters[i]].value < 0 => parameters[i] = "token_id"

AmountAsked(asked) ==
    CASE asked.kind = "basic" -> asked.properties["destination_amount"].value
      [] asked.kind = "multisig/new_wallet" -> asked.properties["price"].value
      [] OTHER -> 0

(* MadeAsAsked: what is sent is what the builder was asked for.  Nothing    *)
(* that it requires was missing, the funds are the ones stated, and the     *)
(* contract at the address given is called with the method that the builder *)
(* is for and reads, parameter by parameter, what was given, the account's  *)
(* own address where the owner of a token was left out or forgotten again,  *)
(* and nothing besides.  No number is cut, and the only one that may lose a *)
(* sign is token_id, whose predicate looks at its bytes.  A builder without *)
(* a call sends the payload it was given, or none.                          *)
MadeAsAsked ==
    sent.made /\ origin # NoBuilder =>
        /\ \A n \in Names(origin.kind) :
             Trait(origin.kind, n) = "REQUIRED" => origin.properties[n].isSet
        /\ source.amount.value = Answer(Balance(origin.kind))
        /\ sent.content.to = Answer(Target(origin.kind))
        /\ sent.content.amount = AmountAsked(origin)
        /\ IF origin.kind # "basic" THEN CallIsAsked(origin, sent.content.payload)
           ELSE sent.content.payload = IF origin.properties["payload"].isSet THEN Answer("payload")
                                       ELSE NoPayload

(* TokensAreOwned: no transfer or approval of ERC20 tokens is sent for more *)
(* than the balance the builder was given.                                  *)
TokensAreOwned ==
    sent.made /\ origin.kind \in ERC20 =>
        sent.content.payload.arguments[Len(sent.content.payload.arguments)]
            <= Answer(TokensOwned(origin.kind))
=============================================================================
