--------------------------- MODULE EthereumProofs ---------------------------
(***************************************************************************)
(* Theorems about EthereumTransaction and EthereumBuilders, for every set  *)
(* of amounts, addresses, payloads and keys, every builder and every       *)
(* chain: a transaction that is sent is covered, signed as it is sent,     *)
(* costs what was shown, and spends no more tokens than were stated.       *)
(***************************************************************************)
EXTENDS EthereumBuilders, SequenceTheorems, TLAPS

(* The numbers and the address of a transaction have their types.          *)
TypeInv ==
    /\ nonce \in PropertyOf(Int)
    /\ gasPrice \in PropertyOf(Int)
    /\ gasLimit \in PropertyOf(Int)
    /\ totalFee \in Int
    /\ source \in [added: BOOLEAN, amount: PropertyOf(Int)]
    /\ destination \in [added: BOOLEAN, address: PropertyOf(Addresses \cup {NoAddress}),
                        bytes: Addresses \cup {NoAddress}, amount: PropertyOf(Int)]

(* The address as it was given and its bytes go together. *)
AddressInv == destination.address.value = destination.bytes

(* What was sent or shown is forgotten by any modification, so that it     *)
(* still agrees with the object.                                           *)
SentInv ==
    sent.made =>
        /\ sent.content = Content
        /\ sent.signature = Sign
        /\ sent.offset = RecoveryOffset
        /\ source.amount.value - destination.amount.value - Fee >= 0

ShownInv ==
    shown.made =>
        /\ shown.fee = Fee
        /\ shown.spent = destination.amount.value + Fee
        /\ totalFee = Fee

TransactionInv == TypeInv /\ AddressInv /\ SentInv /\ ShownInv

(* The rest of the type invariant: what is signed or sent is well-formed.  *)
StoredInv ==
    /\ payload \in PropertyOf(Payload)
    /\ key \in Keys
    /\ signature \in Signatures \cup {Nothing}
    /\ shown \in [made: {TRUE}, fee: Int, spent: Int] \cup {Nothing}
    /\ sent \in [made: {TRUE}, content: Contents, signature: Signatures, offset: Int]
                \cup {Nothing}

Numerals(kind) == NumberNames(kind) \cup {Balance(kind)}
Places(kind) == AddressNames(kind) \cup {Target(kind)}

(* The properties of a builder: a value that is set was accepted.          *)
Fits(kind, name, p) ==
    /\ p \in PropertyOf({p.value})
    /\ p.isSet /\ name \in Numerals(kind) => p.value \in Int /\ Accepts(name, p.value)
    /\ p.isSet /\ name \in Places(kind) => p.value \in Addresses
    /\ p.isSet /\ name \in OtherNames(kind) => p.value \in OtherValues(kind)

IsBuilder(b) ==
    /\ b = [kind |-> b.kind, properties |-> b.properties]
    /\ b.kind \in Kinds
    /\ b.properties = [n \in Names(b.kind) |-> b.properties[n]]
    /\ \A n \in Names(b.kind) : Fits(b.kind, n, b.properties[n])

(* Nothing is sent while the builder is in use. *)
BuilderInv ==
    builder # NoBuilder =>
        IsBuilder(builder) /\ sent = Nothing /\ shown = Nothing /\ origin = NoBuilder

(* The call of a contract, as its builder was asked for it.                *)
Words == 0..(WordLimit - 1) \cup {64, 96}
CallAsAsked(call, b) ==
    /\ CallIsAsked(b, call)
    /\ b.kind \in ERC20 =>
         call.arguments[Len(call.arguments)] <= b.properties[TokensOwned(b.kind)].value

(* What the transaction has of its builder is not modified any more.       *)
OriginInv ==
    origin # NoBuilder =>
        /\ builder = NoBuilder /\ IsBuilder(origin)
        /\ \A n \in Names(origin.kind) :
             Trait(origin.kind, n) = "REQUIRED" => origin.properties[n].isSet
        /\ source.amount.value = Answer(Balance(origin.kind))
        /\ destination.bytes = Answer(Target(origin.kind))
        /\ destination.amount.value = AmountAsked(origin)
        /\ IF origin.kind # "basic" THEN CallAsAsked(payload.value, origin)
           ELSE payload.value = IF origin.properties["payload"].isSet THEN Answer("payload")
                                ELSE NoPayload

IInv == TransactionInv /\ StoredInv /\ BuilderInv /\ OriginInv
-----------------------------------------------------------------------------
(* A property that is given a value, or reset, is still one. *)
LEMMA PropertyKept ==
    ASSUME NEW S, NEW p \in PropertyOf(S), NEW v \in S
    PROVE  Given(v) \in PropertyOf(S) /\ Forgotten(p) \in PropertyOf(S)
  BY DEF Given, Forgotten, PropertyOf

(* A number that a caller gives is an integer. *)
LEMMA GivenNumbers ==
    ASSUME NEW v \in Nonces \cup GasPrices \cup GasLimits \cup Balances \cup Payments
    PROVE  v \in Int
  BY NumbersAssumption

(* A fee is an integer. *)
LEMMA FeeType == TypeInv => Fee \in Int
  BY DEF TypeInv, Fee, PropertyOf

LEMMA InitHolds == BuilderInit => IInv
  <1> SUFFICES ASSUME BuilderInit PROVE IInv
    OBVIOUS
  <1>1. TypeInv /\ AddressInv
    BY DEF BuilderInit, Init, TypeInv, AddressInv, PropertyOf, Never
  <1>2. SentInv /\ ShownInv
    BY DEF BuilderInit, Init, SentInv, ShownInv, Nothing
  <1>3. BuilderInv
    <2>1. ASSUME NEW k \in Kinds, builder = [kind |-> k, properties |-> [n \in Names(k) |-> Never(0)]]
          PROVE  IsBuilder(builder)
      <3>1. \A n \in Names(k) : Fits(k, n, Never(0))
        BY DEF Fits, Never, PropertyOf
      <3> QED
        BY <2>1, <3>1 DEF IsBuilder
    <2> QED
      BY <2>1 DEF BuilderInit, Init, BuilderInv
  <1>4. OriginInv
    BY DEF BuilderInit, OriginInv
  <1>5. StoredInv
    <2>1. NoPayload \in Payload
      BY DEF NoPayload, Payload, Methods
    <2> QED
      BY <2>1 DEF BuilderInit, Init, StoredInv, Never, PropertyOf
  <1> QED
    BY <1>1, <1>2, <1>3, <1>4, <1>5 DEF IInv, TransactionInv

(* After a modification, only the types and the address remain to be seen. *)
LEMMA ModifiedHolds ==
    ASSUME TypeInv', AddressInv', sent' = Nothing, shown' = Nothing
    PROVE  TransactionInv'
  BY DEF TransactionInv, SentInv, ShownInv, Nothing

(* A call that is rejected leaves the transaction as it was. *)
LEMMA UnchangedHolds ==
    ASSUME TransactionInv, UNCHANGED <<edited, totalFee, signature, shown, sent>>
    PROVE  TransactionInv'
  BY DEF TransactionInv, TypeInv, AddressInv, SentInv, ShownInv, edited,
         Content, Sign, SignedContent, RecoveryOffset, Fee

LEMMA SetNonceKeeps == ASSUME TransactionInv, NEW v \in Nonces, SetNonce(v)
                       PROVE  TransactionInv'
  <1>1. CASE v < -1
    BY <1>1, UnchangedHolds DEF SetNonce, Rejected
  <1>2. CASE ~(v < -1)
    <2>1. TypeInv' /\ AddressInv'
      BY <1>2, GivenNumbers, PropertyKept DEF SetNonce, Modify, TransactionInv, TypeInv, AddressInv
    <2> QED
      BY <1>2, <2>1, ModifiedHolds DEF SetNonce, Modify
  <1> QED
    BY <1>1, <1>2

LEMMA NumbersKeep == ASSUME TransactionInv, NEW v \in GasPrices \cup GasLimits,
                            SetGasPrice(v) \/ SetGasLimit(v)
                     PROVE  TransactionInv'
  <1>1. /\ nonce \in PropertyOf(Int) /\ gasPrice \in PropertyOf(Int)
        /\ gasLimit \in PropertyOf(Int) /\ v \in Int
    BY GivenNumbers DEF TransactionInv, TypeInv
  <1>2. /\ nonce' \in PropertyOf(Int) /\ gasPrice' \in PropertyOf(Int)
        /\ gasLimit' \in PropertyOf(Int)
    BY <1>1, PropertyKept DEF SetGasPrice, SetGasLimit
  <1>3. TypeInv' /\ AddressInv'
    BY <1>2 DEF SetGasPrice, SetGasLimit, Modify, TransactionInv, TypeInv, AddressInv
  <1> QED
    BY <1>3, ModifiedHolds DEF SetGasPrice, SetGasLimit, Modify

LEMMA ResetNonceKeeps == ASSUME TransactionInv, ResetNonce PROVE TransactionInv'
  <1>1. TypeInv' /\ AddressInv'
    BY PropertyKept DEF ResetNonce, Modify, TransactionInv, TypeInv, AddressInv
  <1> QED
    BY <1>1, ModifiedHolds DEF ResetNonce, Modify

LEMMA PayloadKeeps == ASSUME TransactionInv, NEW p, SetPayload(p) \/ ResetPayload
                      PROVE  TransactionInv'
  <1>1. TypeInv' /\ AddressInv'
    BY DEF SetPayload, ResetPayload, Modify, TransactionInv, TypeInv, AddressInv
  <1> QED
    BY <1>1, ModifiedHolds DEF SetPayload, ResetPayload, Modify

LEMMA AddSourceKeeps == ASSUME TransactionInv, AddSource PROVE TransactionInv'
  <1>1. CASE source.added
    BY <1>1, UnchangedHolds DEF AddSource, Rejected
  <1>2. CASE ~source.added
    <2>1. TypeInv' /\ AddressInv'
      BY <1>2 DEF AddSource, Modify, TransactionInv, TypeInv, AddressInv
    <2> QED
      BY <1>2, <2>1, ModifiedHolds DEF AddSource, Modify
  <1> QED
    BY <1>1, <1>2

LEMMA SetBalanceKeeps == ASSUME TransactionInv, NEW v \in Balances, SetBalance(v)
                         PROVE  TransactionInv'
  <1>1. TypeInv' /\ AddressInv'
    BY GivenNumbers, PropertyKept DEF SetBalance, Modify, TransactionInv, TypeInv, AddressInv
  <1> QED
    BY <1>1, ModifiedHolds DEF SetBalance, Modify

LEMMA AddDestinationKeeps == ASSUME TransactionInv, AddDestination PROVE TransactionInv'
  <1>1. CASE destination.added
    BY <1>1, UnchangedHolds DEF AddDestination, Rejected
  <1>2. CASE ~destination.added
    <2>1. TypeInv' /\ AddressInv'
      BY <1>2 DEF AddDestination, Modify, TransactionInv, TypeInv, AddressInv
    <2> QED
      BY <1>2, <2>1, ModifiedHolds DEF AddDestination, Modify
  <1> QED
    BY <1>1, <1>2

LEMMA SetDestinationKeeps ==
    ASSUME TransactionInv, NEW a \in Addresses, NEW v \in Payments, SetDestination(a, v)
    PROVE  TransactionInv'
  <1> DEFINE D == [added: BOOLEAN, address: PropertyOf(Addresses \cup {NoAddress}),
                   bytes: Addresses \cup {NoAddress}, amount: PropertyOf(Int)]
  <1>1. destination \in D /\ AddressInv
    BY DEF TransactionInv, TypeInv
  <1>2. destination' \in D /\ AddressInv'
    <2>1. CASE destination' = [destination EXCEPT !.address = Given(a), !.bytes = a]
      BY <1>1, <2>1 DEF AddressInv, Given, PropertyOf
    <2>2. CASE destination' = [destination EXCEPT !.address = Forgotten(@)]
      BY <1>1, <2>2 DEF AddressInv, Forgotten, PropertyOf
    <2>3. CASE destination' = [destination EXCEPT !.amount = Given(v)]
      BY <1>1, <2>3, GivenNumbers, PropertyKept DEF AddressInv
    <2> QED
      BY <2>1, <2>2, <2>3 DEF SetDestination
  <1>3. TypeInv'
    BY <1>2 DEF SetDestination, Modify, TransactionInv, TypeInv
  <1> QED
    BY <1>2, <1>3, ModifiedHolds DEF SetDestination, Modify

LEMMA ChangeKeyKeeps == ASSUME TransactionInv, NEW k \in Keys, ChangeKey(k) PROVE TransactionInv'
  <1>1. TypeInv' /\ AddressInv'
    BY DEF ChangeKey, Modify, TransactionInv, TypeInv, AddressInv
  <1> QED
    BY <1>1, ModifiedHolds DEF ChangeKey, Modify

(* Every edit either is rejected or forgets what was sent. *)
LEMMA EditKeeps == ASSUME TransactionInv, Edit PROVE TransactionInv'
  <1>1. ASSUME NEW v \in Nonces, SetNonce(v) PROVE TransactionInv'
    BY <1>1, SetNonceKeeps
  <1>2. CASE ResetNonce
    BY <1>2, ResetNonceKeeps
  <1>3. ASSUME NEW p \in Payloads, SetPayload(p) PROVE TransactionInv'
    BY <1>3, PayloadKeeps
  <1>4. CASE ResetPayload
    BY <1>4, PayloadKeeps
  <1>5. ASSUME NEW v \in GasPrices \cup GasLimits, SetGasPrice(v) \/ SetGasLimit(v) PROVE TransactionInv'
    BY <1>5, NumbersKeep
  <1>6. CASE AddSource
    BY <1>6, AddSourceKeeps
  <1>7. ASSUME NEW v \in Balances, SetBalance(v) PROVE TransactionInv'
    BY <1>7, SetBalanceKeeps
  <1>8. CASE AddDestination
    BY <1>8, AddDestinationKeeps
  <1>9. ASSUME NEW a \in Addresses, NEW v \in Payments, SetDestination(a, v) PROVE TransactionInv'
    BY <1>9, SetDestinationKeeps
  <1>10. ASSUME NEW k \in Keys, ChangeKey(k) PROVE TransactionInv'
    BY <1>10, ChangeKeyKeeps
  <1> QED
    BY <1>1, <1>2, <1>3, <1>4, <1>5, <1>6, <1>7, <1>8, <1>9, <1>10 DEF Edit
-----------------------------------------------------------------------------
(* The total fee that an update() assigns is the fee, or stays; once an    *)
(* update() succeeded it is the fee already.                               *)
LEMMA UpdateKeeps == ASSUME TransactionInv, Update PROVE TransactionInv'
  <1>1. UNCHANGED <<Content, Sign, RecoveryOffset, Fee>>
    BY DEF Update, edited, Content, Sign, SignedContent, RecoveryOffset, Fee
  <1>2. totalFee' \in {Fee, totalFee}
    BY DEF Update, UpdatedFee
  <1>3. TypeInv' /\ AddressInv'
    BY <1>2, FeeType DEF Update, edited, TransactionInv, TypeInv, AddressInv
  <1>4. SentInv'
    BY <1>1 DEF Update, edited, TransactionInv, SentInv
  <1>5. ShownInv'
    <2>1. CASE Verdict = "ok"
      BY <1>1, <2>1 DEF Update, UpdatedFee, edited, ShownInv
    <2>2. CASE Verdict # "ok"
      BY <1>1, <1>2, <2>2 DEF Update, edited, TransactionInv, ShownInv
    <2> QED
      BY <2>1, <2>2
  <1> QED
    BY <1>3, <1>4, <1>5 DEF TransactionInv

(* serialize() signs and returns what is stored at that moment. *)
LEMMA SerializeKeeps == ASSUME TransactionInv, Serialize PROVE TransactionInv'
  <1>1. UNCHANGED <<Content, Sign, RecoveryOffset, Fee>>
    BY DEF Serialize, edited, Content, Sign, SignedContent, RecoveryOffset, Fee
  <1>2. totalFee' \in {Fee, totalFee}
    BY DEF Serialize, UpdatedFee
  <1>3. TypeInv' /\ AddressInv'
    BY <1>2, FeeType DEF Serialize, edited, TransactionInv, TypeInv, AddressInv
  <1>4. SentInv'
    <2>1. CASE Verdict = "ok" /\ IsWritable(Content)
      <3>1. source.amount.value - destination.amount.value - Fee >= 0
        <4>1. /\ source.amount.value - destination.amount.value - Fee \in Int
              /\ ~(source.amount.value - destination.amount.value - Fee < 0)
          BY <2>1, FeeType DEF Verdict, TransactionInv, TypeInv, PropertyOf
        <4> QED
          BY <4>1
      <3> QED
        BY <1>1, <2>1, <3>1 DEF Serialize, edited, SentInv
    <2>2. CASE ~(Verdict = "ok" /\ IsWritable(Content))
      BY <1>1, <2>2 DEF Serialize, edited, TransactionInv, SentInv
    <2> QED
      BY <2>1, <2>2
  <1>5. ShownInv'
    BY <1>1, <1>2 DEF Serialize, edited, TransactionInv, ShownInv
  <1> QED
    BY <1>3, <1>4, <1>5 DEF TransactionInv
-----------------------------------------------------------------------------
(* What an edit leaves is well-formed, *)
LEMMA StoredEdited == ASSUME StoredInv, Edit PROVE StoredInv'
  <1>1. payload' \in PropertyOf(Payload)
    <2>1. payload \in PropertyOf(Payload)
      BY DEF StoredInv
    <2>2. ASSUME NEW p \in Payloads, SetPayload(p) PROVE payload' \in PropertyOf(Payload)
      BY <2>2, PayloadsAssumption DEF SetPayload, Given, PropertyOf
    <2>3. CASE ResetPayload
      BY <2>1, <2>3, PropertyKept DEF ResetPayload, Forgotten, PropertyOf
    <2>4. UNCHANGED payload \/ ResetPayload \/ \E p \in Payloads : SetPayload(p)
      BY DEF Edit, SetNonce, Rejected, edited, ResetNonce, SetGasPrice, SetGasLimit, AddSource,
         SetBalance, AddDestination, SetDestination, ChangeKey
    <2> QED
      BY <2>1, <2>2, <2>3, <2>4
  <1>2. /\ key' \in Keys /\ UNCHANGED signature
        /\ (shown' = Nothing /\ sent' = Nothing) \/ UNCHANGED <<shown, sent>>
    BY DEF StoredInv, Edit, SetNonce, Rejected, edited, Modify, ResetNonce, SetPayload, ResetPayload,
       SetGasPrice, SetGasLimit, AddSource, SetBalance, AddDestination, SetDestination, ChangeKey
  <1> QED
    BY <1>1, <1>2 DEF StoredInv

(* what can be written has no negative number, *)
LEMMA ContentIs ==
    ASSUME TypeInv, StoredInv, IsWritable(Content)
    PROVE  Content \in Contents /\ Sign \in Signatures
  <1>1. /\ nonce.value \in Int /\ gasPrice.value \in Int /\ gasLimit.value \in Int
        /\ destination.bytes \in Addresses \cup {NoAddress} /\ destination.amount.value \in Int
        /\ payload.value \in Payload
    BY DEF TypeInv, StoredInv, PropertyOf
  <1>2. /\ nonce.value \in Nat /\ gasPrice.value \in Nat /\ gasLimit.value \in Nat
        /\ destination.amount.value \in Nat
    BY <1>1 DEF IsWritable, Content
  <1>3. Content \in Contents
    BY <1>1, <1>2 DEF Content, Contents
  <1>4. (IF ChainId > 0 THEN ChainId ELSE 0) \in Nat
    BY NumbersAssumption
  <1> QED
    BY <1>3, <1>4 DEF Sign, SignedContent, Signatures, StoredInv

(* and update() and serialize() show and send only that. *)
LEMMA StoredCalls == ASSUME TypeInv, StoredInv, Update \/ Serialize PROVE StoredInv'
  <1>1. UNCHANGED <<payload, key>>
    BY DEF Update, Serialize, edited
  <1>2. CASE Update
    <2>1. Fee \in Int /\ destination.amount.value + Fee \in Int
      BY FeeType DEF TypeInv, PropertyOf
    <2>2. shown' \in [made: {TRUE}, fee: Int, spent: Int] \cup {Nothing}
      BY <1>2, <2>1 DEF Update, StoredInv
    <2> QED
      BY <1>1, <1>2, <2>2 DEF Update, StoredInv
  <1>3. CASE Serialize
    <2>1. UNCHANGED shown
      BY <1>3 DEF Serialize
    <2>2. CASE Verdict = "ok" /\ IsWritable(Content)
      <3>1. Content \in Contents /\ Sign \in Signatures /\ RecoveryOffset \in Int
        BY <2>2, ContentIs, NumbersAssumption DEF RecoveryOffset
      <3>2. signature' = Sign /\ sent' = [made |-> TRUE, content |-> Content, signature |-> Sign,
                                          offset |-> RecoveryOffset]
        BY <1>3, <2>2 DEF Serialize
      <3>3. sent' \in [made: {TRUE}, content: Contents, signature: Signatures, offset: Int]
        BY <3>1, <3>2
      <3> QED
        BY <1>1, <2>1, <3>1, <3>2, <3>3 DEF StoredInv
    <2>3. CASE ~(Verdict = "ok" /\ IsWritable(Content))
      BY <1>1, <1>3, <2>1, <2>3 DEF Serialize, StoredInv
    <2> QED
      BY <2>2, <2>3
  <1> QED
    BY <1>2, <1>3
-----------------------------------------------------------------------------
(* The names that a builder reads as a number or an address are required,  *)
(* and none is both.                                                       *)
LEMMA NamesOfAKind ==
    ASSUME NEW k \in Kinds
    PROVE  /\ Numerals(k) \subseteq Names(k) /\ Places(k) \subseteq Names(k)
           /\ Numerals(k) \cap Places(k) = {}
           /\ OtherNames(k) \cap (Numerals(k) \cup Places(k)) = {}
           /\ Trait(k, Balance(k)) = "REQUIRED" /\ Trait(k, Target(k)) = "REQUIRED"
           /\ \A n \in NumberNames(k) : Trait(k, n) = "REQUIRED"
  BY BuilderAssumption DEF Numerals, Places, Names, Trait, NumberNames, AddressNames, OtherNames,
     Balance, Target, ERC20, ERC721

(* Setting one property to a value that fits keeps the builder one. *)
LEMMA SetKeepsBuilder ==
    ASSUME IsBuilder(builder), NEW n \in Names(builder.kind), NEW p, Fits(builder.kind, n, p),
           builder' = [builder EXCEPT !.properties[n] = p]
    PROVE  IsBuilder(builder') /\ builder' # NoBuilder
  <1>1. builder' = [kind |-> builder.kind, properties |-> [builder.properties EXCEPT ![n] = p]]
    BY DEF IsBuilder
  <1>2. \A m \in Names(builder.kind) : builder'.properties[m] = IF m = n THEN p ELSE builder.properties[m]
    BY <1>1 DEF IsBuilder
  <1>3. builder'.properties = [m \in Names(builder.kind) |-> builder'.properties[m]]
    BY <1>1 DEF IsBuilder
  <1>4. builder'.kind = builder.kind
    BY <1>1
  <1>5. IsBuilder(builder')
    BY <1>1, <1>2, <1>3, <1>4 DEF IsBuilder
  <1> QED
    BY <1>4, <1>5, BuilderAssumption DEF IsBuilder, NoBuilder

(* A step of a builder that only edits its properties. *)
EditsBuilder ==
    /\ \/ \E n \in Names(builder.kind) : \E p :
            /\ Fits(builder.kind, n, p)
            /\ builder' = [builder EXCEPT !.properties[n] = p]
       \/ UNCHANGED builder
    /\ UNCHANGED <<edited, totalFee, signature, shown, sent, origin>>

LEMMA EditsBuilderKeeps ==
    ASSUME IInv, builder # NoBuilder, EditsBuilder
    PROVE  IInv'
  <1>1. TransactionInv'
    BY UnchangedHolds DEF IInv, EditsBuilder
  <1>2. IsBuilder(builder') /\ builder' # NoBuilder
    BY SetKeepsBuilder DEF IInv, BuilderInv, EditsBuilder
  <1>3. BuilderInv'
    BY <1>2 DEF IInv, BuilderInv, EditsBuilder
  <1>4. OriginInv'
    BY DEF IInv, OriginInv, EditsBuilder, BuilderInv
  <1>5. StoredInv'
    BY DEF IInv, StoredInv, EditsBuilder, edited
  <1> QED
    BY <1>1, <1>3, <1>4, <1>5 DEF IInv

LEMMA BuilderEditIs ==
    ASSUME IInv, builder # NoBuilder,
           \/ \E v \in Amounts : SetNumber(v)
           \/ \E a \in Parties : SetParty(a)
           \/ SetOther
           \/ Reset
    PROVE  EditsBuilder
  <1> DEFINE k == builder.kind
  <1>0. IsBuilder(builder) /\ k \in Kinds
    BY DEF IInv, BuilderInv, IsBuilder
  <1>1. ASSUME NEW v \in Amounts, SetNumber(v) PROVE EditsBuilder
    <2>1. PICK n \in Numerals(k) : IF Accepts(n, v) THEN SetProperty(n, v) ELSE Refused
      BY <1>1 DEF SetNumber, Numerals
    <2>2. CASE Accepts(n, v)
      <3>1. n \in Names(k) /\ n \notin Places(k) /\ n \notin OtherNames(k)
        BY <1>0, <2>1, NamesOfAKind
      <3>2. Fits(k, n, Given(v))
        BY <2>2, <3>1, BuilderAssumption DEF Fits, Given, PropertyOf
      <3> QED
        BY <2>1, <2>2, <3>1, <3>2 DEF SetProperty, EditsBuilder
    <2>3. CASE ~Accepts(n, v)
      BY <2>1, <2>3 DEF Refused, EditsBuilder
    <2> QED
      BY <2>2, <2>3
  <1>2. ASSUME NEW a \in Parties, SetParty(a) PROVE EditsBuilder
    <2>1. PICK n \in Places(k) : SetProperty(n, a)
      BY <1>2 DEF SetParty, Places
    <2>2. n \in Names(k) /\ n \notin Numerals(k) /\ n \notin OtherNames(k)
      BY <1>0, <2>1, NamesOfAKind
    <2>3. Fits(k, n, Given(a))
      BY <2>2, BuilderAssumption DEF Fits, Given, PropertyOf
    <2> QED
      BY <2>1, <2>2, <2>3 DEF SetProperty, EditsBuilder
  <1>3. CASE SetOther
    <2>1. PICK n \in OtherNames(k), v \in OtherValues(k) : SetProperty(n, v)
      BY <1>3 DEF SetOther
    <2>2. n \in Names(k) /\ n \notin Numerals(k) /\ n \notin Places(k)
      BY <1>0, <2>1, NamesOfAKind DEF Names
    <2>3. Fits(k, n, Given(v))
      BY <2>2 DEF Fits, Given, PropertyOf
    <2> QED
      BY <2>1, <2>2, <2>3 DEF SetProperty, EditsBuilder
  <1>4. CASE Reset
    <2>1. PICK n \in Names(k) : /\ builder' = [builder EXCEPT !.properties[n] = Forgotten(@)]
                                /\ UNCHANGED <<edited, totalFee, signature, shown, sent, origin>>
      BY <1>4 DEF Reset
    <2>2. Fits(k, n, builder.properties[n])
      BY <1>0 DEF IsBuilder
    <2>3. PICK q : q = builder.properties[n]
      OBVIOUS
    <2>4. Fits(k, n, Forgotten(q))
      <3>1. q \in PropertyOf({q.value})
        BY <2>2, <2>3 DEF Fits
      <3>2. Forgotten(q) \in PropertyOf({q.value})
        BY <3>1, PropertyKept
      <3>3. Forgotten(q).isSet = FALSE /\ Forgotten(q).value = q.value
        BY <3>1, <3>2 DEF Forgotten, PropertyOf
      <3> HIDE DEF k
      <3> QED
        BY <3>2, <3>3 DEF Fits
    <2>5. builder' = [builder EXCEPT !.properties[n] = Forgotten(q)]
      BY <2>1, <2>3
    <2> QED
      BY <2>1, <2>4, <2>5 DEF EditsBuilder
  <1> QED
    BY <1>1, <1>2, <1>3, <1>4
-----------------------------------------------------------------------------
(* What a builder that was found valid answers for a name. *)
LEMMA ValidatedIs ==
    ASSUME IsBuilder(builder), Validated = "ok"
    PROVE  /\ \A n \in Numerals(builder.kind) :
                 Given0(n) \in Int /\ Accepts(n, Given0(n))
           /\ Given0(Target(builder.kind)) \in Addresses
           /\ \A n \in Names(builder.kind) :
                 Trait(builder.kind, n) = "REQUIRED" => builder.properties[n].isSet
           /\ builder.kind \in ERC20 =>
                 ~(Given0(TokensSpent(builder.kind)) > Given0(TokensOwned(builder.kind)))
  <1> DEFINE k == builder.kind
  <1>1. k \in Kinds /\ \A n \in Names(k) : Fits(k, n, builder.properties[n])
    BY DEF IsBuilder
  <1>2. \A n \in Names(k) : Trait(k, n) = "REQUIRED" => builder.properties[n].isSet
    BY DEF Validated, AllRequiredSet, Readable
  <1>3. \A n \in Numerals(k) : builder.properties[n].isSet
    BY <1>1, <1>2, NamesOfAKind DEF Numerals
  <1>4. builder.properties[Target(k)].isSet /\ Target(k) \in Names(k)
    BY <1>1, <1>2, NamesOfAKind DEF Places
  <1>5. \A n \in Numerals(k) : Given0(n) \in Int /\ Accepts(n, Given0(n))
    BY <1>1, <1>3, NamesOfAKind DEF Fits, Given0
  <1>6. Given0(Target(k)) \in Addresses
    BY <1>1, <1>4 DEF Fits, Given0, Places
  <1> QED
    BY <1>2, <1>5, <1>6 DEF Validated

(* The last argument of a call of an ERC20 contract is the number of       *)
(* tokens, which its predicate found to be no less than zero.              *)
LEMMA TokensAreLast ==
    ASSUME IsBuilder(builder), Validated = "ok", builder.kind \in ERC20
    PROVE  Arguments[Len(Arguments)] <= Given0(TokensOwned(builder.kind))
  <1> DEFINE spent == TokensSpent(builder.kind)
             owned == TokensOwned(builder.kind)
  <1>1. spent \in Numerals(builder.kind) /\ owned \in Numerals(builder.kind)
    <2>1. CASE builder.kind = "ERC20/transfer"
      BY <2>1 DEF TokensSpent, TokensOwned, Numerals, NumberNames, Balance, ERC20, ERC721
    <2>2. CASE builder.kind = "ERC20/transfer_from"
      BY <2>2 DEF TokensSpent, TokensOwned, Numerals, NumberNames, Balance, ERC20, ERC721
    <2>3. CASE builder.kind = "ERC20/approve"
      BY <2>3 DEF TokensSpent, TokensOwned, Numerals, NumberNames, Balance, ERC20, ERC721
    <2> QED
      BY <2>1, <2>2, <2>3 DEF ERC20
  <1>2. /\ Given0(spent) \in Int /\ Given0(owned) \in Int
        /\ Accepts(spent, Given0(spent))
        /\ ~(Given0(spent) > Given0(owned))
    BY <1>1, ValidatedIs
  <1>3. Given0(spent) >= 0
    BY <1>2 DEF Accepts, VerifyBiggerThan, TokensSpent, ERC20
  <1>4. Word(Given0(spent)) = Given0(spent)
    BY <1>2, <1>3 DEF Word, Magnitude
  <1>5. Arguments[Len(Arguments)] = Word(Given0(spent))
    <2>1. CASE builder.kind = "ERC20/transfer"
      <3>1. Arguments = <<Given0("destination_address"), Word(Given0("transfer_amount_token"))>>
        BY <2>1 DEF Arguments
      <3> QED
        BY <2>1, <3>1 DEF TokensSpent
    <2>2. CASE builder.kind = "ERC20/transfer_from"
      <3>1. Arguments = <<Given0("from"), Given0("to"), Word(Given0("transfer_amount_token"))>>
        BY <2>2 DEF Arguments
      <3> QED
        BY <2>2, <3>1 DEF TokensSpent
    <2>3. CASE builder.kind = "ERC20/approve"
      <3>1. Arguments = <<Given0("address_for_approve"), Word(Given0("approve_amount_token"))>>
        BY <2>3 DEF Arguments
      <3> QED
        BY <2>3, <3>1 DEF TokensSpent
    <2> QED
      BY <2>1, <2>2, <2>3 DEF ERC20
  <1> QED
    BY <1>2, <1>4, <1>5

(* Every argument is an address or a word, *)
LEMMA ArgumentsAreWords ==
    ASSUME IsBuilder(builder), Validated = "ok", MessageFits, builder.kind # "basic"
    PROVE  Arguments \in Seq(Addresses \cup Words) /\ Method \in Methods
  <1> DEFINE k == builder.kind
             S == Addresses \cup Words
  <1>1. k \in Kinds /\ \A n \in Names(k) : Fits(k, n, builder.properties[n])
    BY DEF IsBuilder
  <1>2. \A n \in Names(k) : Trait(k, n) = "REQUIRED" => builder.properties[n].isSet
    BY ValidatedIs
  <1>3. \A n \in NumberNames(k) \ {"price", TokensOwned(k)} : Word(Given0(n)) \in S
    <2> SUFFICES ASSUME NEW n \in NumberNames(k) \ {"price", TokensOwned(k)}
                 PROVE  Word(Given0(n)) \in Words
      OBVIOUS
    <2>1. Given0(n) \in Int /\ Magnitude(Given0(n)) < WordLimit
      BY ValidatedIs DEF MessageFits, FitsWord, Numerals
    <2> QED
      BY <2>1, WordAssumption DEF Word, Magnitude, Words
  <1>4. \A n \in AddressNames(k) : builder.properties[n].isSet => Given0(n) \in S
    BY <1>1 DEF Fits, Places, Names, Given0
  <1>5. \A n \in OtherNames(k) : builder.properties[n].isSet => Given0(n) \in OtherValues(k)
    BY <1>1 DEF Fits, Names, Given0
  <1> HIDE DEF S
  <1>6. CASE k = "ERC20/transfer"
    <2>1. Given0("destination_address") \in S
      BY <1>2, <1>4, <1>6 DEF AddressNames, Names, Trait
    <2>2. Word(Given0("transfer_amount_token")) \in S
      BY <1>3, <1>6 DEF NumberNames, TokensOwned, ERC721
    <2>3. Arguments = <<Given0("destination_address"), Word(Given0("transfer_amount_token"))>>
      BY <1>6 DEF Arguments
    <2> QED
      BY <1>6, <2>1, <2>2, <2>3 DEF S, Method, Methods
  <1>7. CASE k = "ERC20/transfer_from"
    <2>1. Given0("from") \in S /\ Given0("to") \in S
      BY <1>2, <1>4, <1>7 DEF AddressNames, Names, Trait
    <2>2. Word(Given0("transfer_amount_token")) \in S
      BY <1>3, <1>7 DEF NumberNames, TokensOwned, ERC721
    <2>3. Arguments = <<Given0("from"), Given0("to"), Word(Given0("transfer_amount_token"))>>
      BY <1>7 DEF Arguments
    <2> QED
      BY <1>7, <2>1, <2>2, <2>3 DEF S, Method, Methods
  <1>8. CASE k = "ERC20/approve"
    <2>1. Given0("address_for_approve") \in S
      BY <1>2, <1>4, <1>8 DEF AddressNames, Names, Trait
    <2>2. Word(Given0("approve_amount_token")) \in S
      BY <1>3, <1>8 DEF NumberNames, TokensOwned, ERC721
    <2>3. Arguments = <<Given0("address_for_approve"), Word(Given0("approve_amount_token"))>>
      BY <1>8 DEF Arguments
    <2> QED
      BY <1>8, <2>1, <2>2, <2>3 DEF S, Method, Methods
  <1>9. CASE k \in {"ERC721/transfer", "ERC721/approve"}
    <2>1. Given0("to") \in S
      BY <1>2, <1>4, <1>9 DEF AddressNames, Names, Trait
    <2>2. Word(Given0("token_id")) \in S
      BY <1>3, <1>9 DEF NumberNames, TokensOwned, ERC721
    <2>3. Arguments = <<Given0("to"), Word(Given0("token_id"))>>
      BY <1>9 DEF Arguments
    <2> QED
      BY <1>9, <2>1, <2>2, <2>3 DEF S, Method, Methods
  <1>10. CASE k = "ERC721/transfer_from"
    <2>1. Given0("to") \in S
      BY <1>2, <1>4, <1>10 DEF AddressNames, Names, Trait
    <2>2. Word(Given0("token_id")) \in S
      BY <1>3, <1>10 DEF NumberNames, TokensOwned, ERC721
    <2>3. Sender \in S
      <3>1. OwnAddress \in S
        BY BuilderAssumption DEF S
      <3>2. "from" \in AddressNames(k)
        BY <1>10 DEF AddressNames
      <3> QED
        BY <1>4, <3>1, <3>2 DEF Sender, ValueOr, Given0
    <2>4. Arguments = <<Sender, Given0("to"), Word(Given0("token_id"))>>
      BY <1>10 DEF Arguments
    <2> QED
      BY <1>10, <2>1, <2>2, <2>3, <2>4 DEF S, Method, Methods
  <1>11. CASE k = "multisig/new_wallet"
    <2> DEFINE owners == Given0("owners")
    <2>1. Word(Given0("confirmations")) \in S
      BY <1>3, <1>11 DEF NumberNames, TokensOwned, ERC721
    <2>2. owners \in Owners
      BY <1>2, <1>5, <1>11 DEF OtherNames, OtherValues, Names, Trait
    <2>3. PICK n \in 1..MaxOwners : owners \in [1..n -> Parties]
      BY <2>2 DEF Owners
    <2> HIDE DEF owners
    <2>4. owners \in Seq(S) /\ Len(owners) = n
      <3>1. Parties \subseteq S
        BY BuilderAssumption DEF S
      <3> QED
        BY <2>3, <3>1
    <2>5. n \in S /\ 2 * 32 \in S
      BY WordAssumption DEF S, Words
    <2>6. Arguments = <<2 * 32, Word(Given0("confirmations")), n>> \o owners
      BY <1>11, <2>4 DEF Arguments, owners
    <2>7. <<2 * 32, Word(Given0("confirmations")), n>> \in Seq(S)
      BY <2>1, <2>5
    <2>8. Arguments \in Seq(S)
      BY <2>4, <2>6, <2>7
    <2> QED
      BY <1>11, <2>8 DEF S, Method, Methods
  <1>12. CASE k = "multisig/new_request"
    <2>1. Given0("dest_address") \in S
      BY <1>2, <1>4, <1>12 DEF AddressNames, Names, Trait
    <2>2. Word(Given0("amount")) \in S
      BY <1>3, <1>12 DEF NumberNames, TokensOwned, ERC721
    <2>3. 3 * 32 \in S /\ 0 \in S
      BY WordAssumption DEF S, Words
    <2>4. Arguments = <<Given0("dest_address"), Word(Given0("amount")), 3 * 32, 0>>
      BY <1>12 DEF Arguments
    <2> QED
      BY <1>12, <2>1, <2>2, <2>3, <2>4 DEF S, Method, Methods
  <1>13. CASE k = "multisig/request"
    <2>1. Word(Given0("request_id")) \in S
      BY <1>3, <1>13 DEF NumberNames, TokensOwned, ERC721
    <2>2. Arguments = <<Word(Given0("request_id"))>>
      BY <1>13 DEF Arguments
    <2>3. Given0("action") \in {"confirm", "reject", "send"}
      BY <1>2, <1>5, <1>13 DEF OtherNames, OtherValues, Names, Trait
    <2>4. Method \in Methods
      BY <1>13, <2>3 DEF Method, Methods
    <2> QED
      BY <2>1, <2>2, <2>4 DEF S
  <1> QED
    BY <1>1, <1>6, <1>7, <1>8, <1>9, <1>10, <1>11, <1>12, <1>13, BuilderAssumption

(* a number stands in its place without its sign, which only one can have, *)
LEMMA NumberParameter ==
    ASSUME IsBuilder(builder), Validated = "ok", MessageFits, builder.kind # "basic",
           NEW n \in NumberNames(builder.kind) \ {"price", TokensOwned(builder.kind)}
    PROVE  /\ Meant(builder, n) = Word(Given0(n))
           /\ Meant(builder, n) < WordLimit
           /\ builder.properties[n].value < 0 => n = "token_id"
           /\ \A words, i : ReadParameter(words, i, n) = words[i]
  <1>1. Given0(n) \in Int /\ Magnitude(Given0(n)) < WordLimit /\ Accepts(n, Given0(n))
    BY ValidatedIs DEF MessageFits, FitsWord, Numerals
  <1>2. n \notin {"data", "from", "owners", "destination_amount"}
    BY BuilderAssumption DEF NumberNames, ERC721, IsBuilder
  <1>3. Given0(n) < 0 => n = "token_id"
    BY <1>1, <1>2 DEF Accepts, VerifyBiggerThan
  <1>4. Meant(builder, n) = Magnitude(Given0(n))
    BY <1>2 DEF Meant, Given0
  <1> QED
    BY <1>1, <1>2, <1>3, <1>4 DEF Word, Given0, ReadParameter

(* an address in its, *)
LEMMA AddressParameter ==
    ASSUME IsBuilder(builder), NEW n \in AddressNames(builder.kind)
    PROVE  /\ n # "from" \/ builder.properties[n].isSet => Meant(builder, n) = Given0(n)
           /\ n \notin NumberNames(builder.kind)
           /\ \A words, i : ReadParameter(words, i, n) = words[i]
  <1>1. n \notin NumberNames(builder.kind) /\ n \notin {"data", "owners"}
    BY BuilderAssumption DEF NumberNames, AddressNames, ERC721, IsBuilder
  <1> QED
    BY <1>1 DEF Meant, Given0, ReadParameter

(* and the call is the one that was asked for. *)
LEMMA CallIsMade ==
    ASSUME IsBuilder(builder), Validated = "ok", MessageFits, builder.kind # "basic"
    PROVE  CallIsAsked(builder, [method |-> Method, arguments |-> Arguments])
  <1> DEFINE k == builder.kind
             call == [method |-> Method, arguments |-> Arguments]
             Good(i) == LET parameters == Parameters(builder.kind) IN
                 /\ ReadParameter(call.arguments, i, parameters[i]) = Meant(builder, parameters[i])
                 /\ parameters[i] \in NumberNames(builder.kind) =>
                      /\ Meant(builder, parameters[i]) < WordLimit
                      /\ builder.properties[parameters[i]].value < 0 => parameters[i] = "token_id"
  <1>1. k \in Kinds /\ k # "basic"
    BY DEF IsBuilder
  <1>2. call.method = IF builder.kind = "multisig/request" THEN builder.properties["action"].value
                      ELSE builder.kind
    BY DEF Method, Given0
  <1>3. call.arguments = Arguments
    OBVIOUS
  <1>4. ASSUME Len(Arguments) = Len(Parameters(k)) + ListSize(builder), \A i \in DOMAIN Parameters(k) : Good(i)
        PROVE  CallIsAsked(builder, call)
    BY <1>2, <1>3, <1>4 DEF CallIsAsked
  <1>5. ASSUME NEW i \in DOMAIN Parameters(k),
               Parameters(k)[i] \in NumberNames(k) \ {"price", TokensOwned(k)},
               Arguments[i] = Word(Given0(Parameters(k)[i]))
        PROVE  Good(i)
    BY <1>3, <1>5, NumberParameter
  <1>6. ASSUME NEW i \in DOMAIN Parameters(k), Parameters(k)[i] \in AddressNames(k),
               Parameters(k)[i] # "from" \/ builder.properties["from"].isSet,
               Arguments[i] = Given0(Parameters(k)[i])
        PROVE  Good(i)
    BY <1>3, <1>6, AddressParameter
  <1> SUFFICES CallIsAsked(builder, call)
    OBVIOUS
  <1> HIDE DEF Good, call
  <1>7. CASE k = "ERC20/transfer"
    <2>1. Arguments = <<Given0("destination_address"), Word(Given0("transfer_amount_token"))>>
      BY <1>7 DEF Arguments
    <2>2. Parameters(k) = <<"destination_address", "transfer_amount_token">> /\ ListSize(builder) = 0
      BY <1>7 DEF Parameters, ListSize
    <2>3. "destination_address" \in AddressNames(k)
          /\ "transfer_amount_token" \in NumberNames(k) \ {"price", TokensOwned(k)}
      BY <1>7 DEF AddressNames, NumberNames, TokensOwned, ERC721
    <2>4. Good(1) /\ Good(2)
      BY <1>5, <1>6, <2>1, <2>2, <2>3
    <2> QED
      BY <1>4, <2>1, <2>2, <2>4
  <1>8. CASE k = "ERC20/transfer_from"
    <2>1. Arguments = <<Given0("from"), Given0("to"), Word(Given0("transfer_amount_token"))>>
      BY <1>8 DEF Arguments
    <2>2. Parameters(k) = <<"from", "to", "transfer_amount_token">> /\ ListSize(builder) = 0
      BY <1>8 DEF Parameters, ListSize
    <2>3. "from" \in AddressNames(k) /\ "to" \in AddressNames(k)
          /\ "transfer_amount_token" \in NumberNames(k) \ {"price", TokensOwned(k)}
      BY <1>8 DEF AddressNames, NumberNames, TokensOwned, ERC721
    <2>4. builder.properties["from"].isSet
      BY <1>8, <2>3, ValidatedIs DEF Names, Trait
    <2>5. Good(1) /\ Good(2) /\ Good(3)
      BY <1>5, <1>6, <2>1, <2>2, <2>3, <2>4
    <2> QED
      BY <1>4, <2>1, <2>2, <2>5
  <1>9. CASE k = "ERC20/approve"
    <2>1. Arguments = <<Given0("address_for_approve"), Word(Given0("approve_amount_token"))>>
      BY <1>9 DEF Arguments
    <2>2. Parameters(k) = <<"address_for_approve", "approve_amount_token">> /\ ListSize(builder) = 0
      BY <1>9 DEF Parameters, ListSize
    <2>3. "address_for_approve" \in AddressNames(k)
          /\ "approve_amount_token" \in NumberNames(k) \ {"price", TokensOwned(k)}
      BY <1>9 DEF AddressNames, NumberNames, TokensOwned, ERC721
    <2>4. Good(1) /\ Good(2)
      BY <1>5, <1>6, <2>1, <2>2, <2>3
    <2> QED
      BY <1>4, <2>1, <2>2, <2>4
  <1>10. CASE k \in {"ERC721/transfer", "ERC721/approve"}
    <2>1. Arguments = <<Given0("to"), Word(Given0("token_id"))>>
      BY <1>10 DEF Arguments
    <2>2. Parameters(k) = <<"to", "token_id">> /\ ListSize(builder) = 0
      BY <1>10 DEF Parameters, ListSize
    <2>3. "to" \in AddressNames(k) /\ "token_id" \in NumberNames(k) \ {"price", TokensOwned(k)}
      BY <1>10 DEF AddressNames, NumberNames, TokensOwned, ERC721
    <2>4. Good(1) /\ Good(2)
      BY <1>5, <1>6, <2>1, <2>2, <2>3
    <2> QED
      BY <1>4, <2>1, <2>2, <2>4
  <1>11. CASE k = "ERC721/transfer_from"
    <2>1. Arguments = <<Sender, Given0("to"), Word(Given0("token_id"))>>
      BY <1>11 DEF Arguments
    <2>2. Parameters(k) = <<"from", "to", "token_id">> /\ ListSize(builder) = 0
      BY <1>11 DEF Parameters, ListSize
    <2>3. "from" \in AddressNames(k) /\ "to" \in AddressNames(k)
          /\ "token_id" \in NumberNames(k) \ {"price", TokensOwned(k)}
      BY <1>11 DEF AddressNames, NumberNames, TokensOwned, ERC721
    <2>4. Sender = IF builder.properties["from"].isSet THEN Given0("from") ELSE OwnAddress
      BY DEF Sender, ValueOr, Given0
    <2>5. ASSUME builder.properties["from"].isSet PROVE Good(1)
      BY <1>6, <2>1, <2>2, <2>3, <2>4, <2>5
    <2>6. ASSUME ~builder.properties["from"].isSet PROVE Good(1)
      <3>1. Meant(builder, "from") = OwnAddress
        BY <2>6 DEF Meant
      <3>2. ReadParameter(Arguments, 1, "from") = Sender
        BY <2>1 DEF ReadParameter
      <3>3. "from" \notin NumberNames(k)
        BY <2>3, AddressParameter
      <3> QED
        BY <1>3, <2>2, <2>4, <2>6, <3>1, <3>2, <3>3 DEF Good, call
    <2>7. Good(1) /\ Good(2) /\ Good(3)
      BY <1>5, <1>6, <2>1, <2>2, <2>3, <2>4, <2>6
    <2> QED
      BY <1>4, <2>1, <2>2, <2>7
  <1>12. CASE k = "multisig/new_wallet"
    <2> DEFINE owners == Given0("owners")
    <2>1. owners \in Owners
      BY <1>12, ValidatedIs DEF IsBuilder, Fits, Given0, OtherNames, OtherValues, Names, Trait
    <2>2. PICK n \in 1..MaxOwners : owners \in [1..n -> Parties]
      BY <2>1 DEF Owners
    <2>3. Arguments = <<2 * 32, Word(Given0("confirmations")), Len(owners)>> \o owners
      BY <1>12 DEF Arguments
    <2>4. Parameters(k) = <<"owners", "confirmations">> /\ ListSize(builder) = 1 + Len(owners)
      BY <1>12 DEF Parameters, ListSize, Given0
    <2>5. "confirmations" \in NumberNames(k) \ {"price", TokensOwned(k)}
          /\ "owners" \notin NumberNames(k)
      BY <1>12 DEF NumberNames, TokensOwned, ERC721
    <2>6. Meant(builder, "owners") = owners
      BY <2>5 DEF Meant, Given0
    <2> HIDE DEF owners
    <2>7. n \in Nat /\ owners \in Seq(Parties) /\ Len(owners) = n /\ n \in 1..MaxOwners
      BY <2>2, WordAssumption
    <2>8. /\ Len(Arguments) = 3 + n
          /\ Arguments[1] = 64 /\ Arguments[2] = Word(Given0("confirmations")) /\ Arguments[3] = n
          /\ \A i \in 1..n : Arguments[3 + i] = owners[i]
      BY <2>3, <2>7
    <2>9. SubSeq(Arguments, 4, 3 + n) = owners
      <3>1. Arguments \in Seq(Parties \cup {64, Word(Given0("confirmations")), n})
        BY <2>3, <2>7
      <3>2. /\ SubSeq(Arguments, 4, 3 + n) \in Seq(Parties \cup {64, Word(Given0("confirmations")), n})
            /\ Len(SubSeq(Arguments, 4, 3 + n)) = n
            /\ \A i \in 1..n : SubSeq(Arguments, 4, 3 + n)[i] = Arguments[3 + i]
        BY <2>7, <2>8, <3>1, SubSeqProperties
      <3> QED
        BY <2>7, <2>8, <3>2
    <2>10. ReadParameter(Arguments, 1, "owners") = owners
      <3>1. ListAt(Arguments, 1) = SubSeq(Arguments, 4, 3 + n)
        BY <2>7, <2>8 DEF ListAt
      <3> QED
        BY <2>9, <3>1 DEF ReadParameter
    <2>11. Good(1)
      BY <1>3, <2>4, <2>5, <2>6, <2>10 DEF Good, call
    <2>12. Good(2)
      <3>1. 2 \in DOMAIN Parameters(k) /\ Parameters(k)[2] = "confirmations"
        BY <2>4
      <3>2. Arguments[2] = Word(Given0(Parameters(k)[2]))
        BY <2>8, <3>1
      <3> QED
        BY <1>5, <2>5, <3>1, <3>2
    <2> QED
      BY <1>4, <2>4, <2>7, <2>8, <2>11, <2>12
  <1>13. CASE k = "multisig/new_request"
    <2>1. Arguments = <<Given0("dest_address"), Word(Given0("amount")), 3 * 32, 0>>
      BY <1>13 DEF Arguments
    <2>2. Parameters(k) = <<"dest_address", "amount", "data">> /\ ListSize(builder) = 1
      BY <1>13 DEF Parameters, ListSize
    <2>3. "dest_address" \in AddressNames(k) /\ "data" \notin NumberNames(k)
          /\ "amount" \in NumberNames(k) \ {"price", TokensOwned(k)}
      BY <1>13 DEF AddressNames, NumberNames, TokensOwned, ERC721
    <2>4. ReadParameter(Arguments, 3, "data") = Meant(builder, "data")
      <3>1. ListAt(Arguments, 3) = SubSeq(Arguments, 5, 4)
        BY <2>1 DEF ListAt
      <3>2. SubSeq(Arguments, 5, 4) = <<>>
        OBVIOUS
      <3> QED
        BY <3>1, <3>2 DEF ReadParameter, Meant
    <2>5. Good(3)
      BY <1>3, <2>2, <2>3, <2>4 DEF Good, call
    <2>6. Good(1) /\ Good(2)
      BY <1>5, <1>6, <2>1, <2>2, <2>3
    <2> QED
      BY <1>4, <2>1, <2>2, <2>5, <2>6
  <1>14. CASE k = "multisig/request"
    <2>1. Arguments = <<Word(Given0("request_id"))>>
      BY <1>14 DEF Arguments
    <2>2. Parameters(k) = <<"request_id">> /\ ListSize(builder) = 0
      BY <1>14 DEF Parameters, ListSize
    <2>3. "request_id" \in NumberNames(k) \ {"price", TokensOwned(k)}
      BY <1>14 DEF NumberNames, TokensOwned, ERC721
    <2>4. Good(1)
      BY <1>5, <2>1, <2>2, <2>3
    <2> QED
      BY <1>4, <2>1, <2>2, <2>4
  <1> QED
    BY <1>1, <1>7, <1>8, <1>9, <1>10, <1>11, <1>12, <1>13, <1>14, BuilderAssumption DEF call

(* so that the payload is what the builder was asked for. *)
LEMMA PayloadIsMade ==
    ASSUME IsBuilder(builder), Validated = "ok", builder.kind = "basic" \/ MessageFits
    PROVE  /\ MadePayload \in PropertyOf(Payload)
           /\ IF builder.kind # "basic" THEN CallAsAsked(MadePayload.value, builder)
              ELSE MadePayload.value = IF builder.properties["payload"].isSet THEN Given0("payload")
                                       ELSE NoPayload
  <1>1. CASE builder.kind # "basic"
    <2>1. MadePayload = [isSet |-> TRUE, value |-> [method |-> Method, arguments |-> Arguments]]
      BY <1>1 DEF MadePayload, Given
    <2>2. Arguments \in Seq(Addresses \cup Words) /\ Method \in Methods
      BY <1>1, ArgumentsAreWords
    <2>3. Arguments \in Seq(Int \cup Addresses)
      <3>1. Addresses \cup Words \subseteq Int \cup Addresses
        BY WordAssumption DEF Words
      <3> QED
        BY <2>2, <3>1, SeqMonotonic
    <2>4. MadePayload \in PropertyOf(Payload)
      BY <2>1, <2>2, <2>3 DEF PropertyOf, Payload
    <2>5. CallAsAsked([method |-> Method, arguments |-> Arguments], builder)
      BY <1>1, CallIsMade, TokensAreLast DEF CallAsAsked, Given0
    <2> QED
      BY <1>1, <2>1, <2>4, <2>5
  <1>2. CASE builder.kind = "basic"
    <2>1. "payload" \in Names(builder.kind) /\ "payload" \in OtherNames(builder.kind)
      BY <1>2 DEF Names, OtherNames
    <2>2. builder.properties["payload"].isSet => Given0("payload") \in Payloads
      BY <1>2, <2>1 DEF IsBuilder, Fits, Given0, OtherValues
    <2>3. NoPayload \in Payload
      BY DEF NoPayload, Payload, Methods
    <2> QED
      BY <1>2, <2>2, <2>3, PayloadsAssumption DEF MadePayload, Given, Never, PropertyOf
  <1> QED
    BY <1>1, <1>2

LEMMA MakeTransactionKeeps ==
    ASSUME IInv, builder # NoBuilder, MakeTransaction
    PROVE  IInv'
  <1>0. IsBuilder(builder) /\ sent = Nothing /\ shown = Nothing /\ origin = NoBuilder
    BY DEF IInv, BuilderInv
  <1>1. CASE Validated = "ok" /\ (builder.kind = "basic" \/ MessageFits)
    <2>1. MadeAmount \in Int
      <3>1. MadeAmount = 0 \/ \E n \in Numerals(builder.kind) : MadeAmount = Given0(n)
        <4>1. CASE builder.kind = "basic"
          <5>1. MadeAmount = Given0("destination_amount")
            BY <4>1 DEF MadeAmount
          <5>2. "destination_amount" \in Numerals(builder.kind)
            BY <4>1 DEF Numerals, NumberNames, ERC721
          <5> QED
            BY <5>1, <5>2
        <4>2. CASE builder.kind = "multisig/new_wallet"
          BY <4>2 DEF MadeAmount, Numerals, NumberNames, ERC721
        <4>3. CASE builder.kind \notin {"basic", "multisig/new_wallet"}
          BY <4>3 DEF MadeAmount
        <4> QED
          BY <4>1, <4>2, <4>3
      <3> QED
        BY <1>0, <1>1, <3>1, ValidatedIs
    <2>2. Given0(Balance(builder.kind)) \in Int /\ Given0(Target(builder.kind)) \in Addresses
      BY <1>0, <1>1, ValidatedIs DEF Numerals
    <2>3. TypeInv' /\ AddressInv'
      <3>1. /\ source' = [added |-> TRUE, amount |-> Given(Given0(Balance(builder.kind)))]
            /\ destination' = [added |-> TRUE, address |-> Given(Given0(Target(builder.kind))),
                               bytes |-> Given0(Target(builder.kind)), amount |-> Given(MadeAmount)]
            /\ UNCHANGED <<nonce, gasPrice, gasLimit, totalFee>>
        BY <1>1 DEF MakeTransaction
      <3>2. /\ source'.amount = Given(Given0(Balance(builder.kind))) /\ source'.amount \in PropertyOf(Int)
            /\ destination'.amount = Given(MadeAmount) /\ destination'.amount \in PropertyOf(Int)
        BY <2>1, <2>2, <3>1 DEF Given, PropertyOf
      <3>3. Given(Given0(Target(builder.kind))) \in PropertyOf(Addresses \cup {NoAddress})
        BY <2>2 DEF Given, PropertyOf
      <3>4. AddressInv'
        BY <3>1 DEF AddressInv, Given
      <3> QED
        BY <2>2, <3>1, <3>2, <3>3, <3>4 DEF IInv, TransactionInv, TypeInv
    <2>4. TransactionInv'
      BY <1>0, <1>1, <2>3, ModifiedHolds DEF MakeTransaction
    <2>5. builder' = NoBuilder /\ origin' = builder
      BY <1>1 DEF MakeTransaction
    <2>6. StoredInv'
      BY <1>0, <1>1, PayloadIsMade DEF MakeTransaction, IInv, StoredInv
    <2>7. OriginInv'
      <3>1. /\ source'.amount.value = Given0(Balance(builder.kind))
            /\ destination'.bytes = Given0(Target(builder.kind))
            /\ destination'.amount.value = MadeAmount
            /\ payload' = MadePayload
        BY <1>1 DEF MakeTransaction, Given
      <3>2. MadeAmount = AmountAsked(builder)
        BY DEF MadeAmount, AmountAsked, Given0
      <3> QED
        BY <1>0, <1>1, <2>5, <3>1, <3>2, ValidatedIs, PayloadIsMade DEF OriginInv, Answer, Given0
    <2> QED
      BY <2>4, <2>5, <2>6, <2>7 DEF IInv, BuilderInv
  <1>2. CASE ~(Validated = "ok" /\ (builder.kind = "basic" \/ MessageFits))
    <2>1. EditsBuilder
      BY <1>2 DEF MakeTransaction, EditsBuilder
    <2> QED
      BY <2>1, EditsBuilderKeeps
  <1> QED
    BY <1>1, <1>2

(* What completes a transaction leaves alone what its builder gave. *)
LEMMA CompleteKeepsTheRest == Complete => UNCHANGED <<payload, source, destination, key>>
  BY DEF Complete, SetNonce, Rejected, SetGasPrice, SetGasLimit, Update, Serialize, edited

LEMMA TransactionStepKeeps ==
    ASSUME IInv, TransactionStep
    PROVE  IInv'
  <1>1. TransactionInv'
    BY EditKeeps, UpdateKeeps, SerializeKeeps, SetNonceKeeps, NumbersKeep
    DEF TransactionStep, Next, Complete, IInv
  <1>2. BuilderInv'
    BY DEF TransactionStep, BuilderInv
  <1>3. OriginInv'
    <2>1. CASE origin = NoBuilder
      BY <2>1 DEF TransactionStep, OriginInv
    <2>2. CASE origin # NoBuilder
      BY <2>2, CompleteKeepsTheRest DEF TransactionStep, IInv, OriginInv, Answer
    <2> QED
      BY <2>1, <2>2
  <1>4. StoredInv'
    <2>1. TypeInv /\ StoredInv
      BY DEF IInv, TransactionInv
    <2>2. Edit \/ Update \/ Serialize
      BY DEF TransactionStep, Next, Complete, Edit
    <2> QED
      BY <2>1, <2>2, StoredEdited, StoredCalls
  <1> QED
    BY <1>1, <1>2, <1>3, <1>4 DEF IInv
-----------------------------------------------------------------------------
(* The inductive invariant: what was sent and shown agrees with what is    *)
(* stored, in a transaction made by hand or by a builder.                  *)
THEOREM EthereumInvariance == BuilderSpec => []IInv
  <1>1. IInv /\ [BuilderNext]_allVars => IInv'
    <2> SUFFICES ASSUME IInv, [BuilderNext]_allVars PROVE IInv'
      OBVIOUS
    <2>1. CASE BuilderStep
      BY <2>1, BuilderEditIs, EditsBuilderKeeps, MakeTransactionKeeps DEF BuilderStep
    <2>2. CASE TransactionStep
      BY <2>2, TransactionStepKeeps
    <2>3. CASE UNCHANGED allVars
      <3>1. TransactionInv'
        BY <2>3, UnchangedHolds DEF allVars, vars, IInv
      <3>2. StoredInv'
        BY <2>3 DEF allVars, vars, edited, IInv, StoredInv
      <3> QED
        BY <2>3, <3>1, <3>2 DEF allVars, vars, edited, IInv, BuilderInv, OriginInv, Answer
    <2> QED
      BY <2>1, <2>2, <2>3 DEF BuilderNext
  <1> QED
    BY <1>1, InitHolds, PTL DEF BuilderSpec

(* A transaction that EthereumTransaction::serialize() returned goes to    *)
(* the address given last and is covered by what its source has.           *)
THEOREM Covered == BuilderSpec => []SentIsCovered
  <1>1. IInv => SentIsCovered
    <2> SUFFICES ASSUME IInv, sent.made PROVE SentIsCovered
      BY DEF SentIsCovered
    <2>1. source.amount.value - destination.amount.value - Fee >= 0
      BY DEF IInv, TransactionInv, SentInv
    <2>2. /\ source.amount.value \in Int /\ destination.amount.value \in Int /\ Fee \in Int
      BY FeeType DEF IInv, TransactionInv, TypeInv, PropertyOf
    <2>3. destination.amount.value + Fee <= source.amount.value
      BY <2>1, <2>2
    <2>4. /\ sent.content.amount = destination.amount.value
          /\ sent.content.gasLimit = gasLimit.value /\ sent.content.gasPrice = gasPrice.value
          /\ sent.content.to = destination.address.value
      BY DEF IInv, TransactionInv, SentInv, AddressInv, Content
    <2> QED
      BY <2>3, <2>4 DEF SentIsCovered, Fee
  <1> QED
    BY <1>1, EthereumInvariance, PTL

(* The signature that is sent is of the fields beside it, for the chain of *)
(* the account, by the key it has; before EIP 155 the offset is 27.        *)
THEOREM SignedAsSent == BuilderSpec => []SentIsSigned
  <1>1. IInv => SentIsSigned
    BY ChainIdAssumption, NumbersAssumption
    DEF IInv, TransactionInv, SentInv, SentIsSigned, Sign, SignedContent, RecoveryOffset
  <1> QED
    BY <1>1, EthereumInvariance, PTL

(* What is sent costs what get_total_fee() and get_total_spent() said. *)
THEOREM AsShown == BuilderSpec => []SentIsAsShown
  <1>1. IInv => SentIsAsShown
    BY DEF IInv, TransactionInv, SentInv, ShownInv, SentIsAsShown, TotalSpent, Content, Fee
  <1> QED
    BY <1>1, EthereumInvariance, PTL

(* No ERC20 builder lets more tokens be sent than the balance it was given. *)
THEOREM TokensOwnedAreEnough == BuilderSpec => []TokensAreOwned
  <1>1. IInv => TokensAreOwned
    <2> SUFFICES ASSUME IInv, sent.made, origin.kind \in ERC20
                 PROVE  payload.value.arguments[Len(payload.value.arguments)]
                            <= Answer(TokensOwned(origin.kind))
      BY DEF IInv, TransactionInv, SentInv, TokensAreOwned, Content
    <2>1. origin # NoBuilder /\ origin.kind # "basic"
      BY DEF NoBuilder, ERC20
    <2> QED
      BY <2>1 DEF IInv, OriginInv, CallAsAsked, Answer
  <1> QED
    BY <1>1, EthereumInvariance, PTL

(* Every name of a transaction and of a builder keeps its type, and nothing *)
(* that is signed or sent has a negative number.                            *)
THEOREM BuilderTypeCorrect == BuilderSpec => []BuilderTypeOK
  <1>1. IInv => BuilderTypeOK
    <2> SUFFICES ASSUME IInv PROVE BuilderTypeOK
      OBVIOUS
    <2>1. TypeOK
      BY DEF IInv, TransactionInv, TypeInv, StoredInv, TypeOK
    <2>2. ASSUME NEW b \in {builder, origin}, b # NoBuilder
          PROVE  b.kind \in Kinds /\ DOMAIN b.properties = Names(b.kind)
      <3>1. IsBuilder(b)
        BY <2>2 DEF IInv, BuilderInv, OriginInv
      <3>2. b.properties = [n \in Names(b.kind) |-> b.properties[n]]
        BY <3>1 DEF IsBuilder
      <3>3. DOMAIN b.properties = Names(b.kind)
        BY <3>2
      <3> QED
        BY <3>1, <3>3 DEF IsBuilder
    <2> QED
      BY <2>1, <2>2 DEF BuilderTypeOK
  <1> QED
    BY <1>1, EthereumInvariance, PTL

(* What is sent of a transaction that a builder made is what the builder   *)
(* was asked for, whatever was set, reset and refused before: a contract   *)
(* that reads the words of the call finds each parameter in its place      *)
(* (make_transaction() and make_message() of the ethereum_transaction_     *)
(* builder files).                                                         *)
THEOREM SentAsAsked == BuilderSpec => []MadeAsAsked
  <1>1. ASSUME IInv, sent.made, origin # NoBuilder PROVE MadeAsAsked
    <2>1. /\ OriginInv /\ sent.content = Content
      BY <1>1 DEF IInv, TransactionInv, SentInv
    <2>2. /\ sent.content.to = destination.bytes
          /\ sent.content.amount = destination.amount.value
          /\ sent.content.payload = payload.value
      BY <2>1 DEF Content
    <2> QED
      BY <1>1, <2>1, <2>2 DEF OriginInv, CallAsAsked, MadeAsAsked
  <1>2. IInv => MadeAsAsked
    BY <1>1 DEF MadeAsAsked
  <1> QED
    BY <1>2, EthereumInvariance, PTL
=============================================================================
