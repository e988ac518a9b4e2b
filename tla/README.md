# A verification project for Multy-Core

Multy-Core is a C++ library with a C interface that wallets use to derive keys and to build and sign
transactions of several blockchains. These TLA+ modules model its own code, `src/multy_core/`; the paths below
are relative to `src/multy_core/src/` unless they start with `src/`. `src/third-party/`, `src/samples/` and
`src/tools/` are left aside.

The library is sequential: it starts no thread, keeps no file and sends no message. What makes it hard is
different. Its objects are mutable and are driven by a caller in any order; calls throw half-way and the caller
goes on with the same object; `update()` iterates over sizes, signatures and amounts that depend on each other;
two maps of addresses and names have to agree; references outlive what they refer to; unbounded integers end in
64 bits, lengths in 8.

## Files

| Module | What it is |
| --- | --- |
| `ChangePolicy` | what `update()` of a Bitcoin transaction promises of fee and change, in one step |
| `BitcoinChange` | how it computes them, step by step |
| `BitcoinTransaction` | the transaction object in the hands of a caller, composed with `BitcoinChange` |
| `BitcoinSegWit` | the transaction of a SegWit account: edits, witnesses, calls that throw half-way |
| `PropertySet` | a `Properties` object and the variables bound to it |
| `PropertyValue` | one property, as the code that owns it reads it |
| `EthereumTransaction` | edits, `update()`, `sign()`, `serialize()`, a change of the account's key |
| `EthereumBuilders` | the ten builders, composed with `EthereumTransaction` |
| `RlpEncoding` | what an Ethereum transaction is written as |
| `TransferTransaction` | what the transactions of EOS and Golos share |
| `EosTransaction`, `GolosTransaction` | what each makes of it; `ChainTransactions` runs both and has the properties |
| `Iso8601` | times written and read, with the time zone of the device |
| `BigIntConversions`, `TextCodec`, `EosName`, `Keys`, `Accounts`, `JsonValues` | conversions that keep no state |
| `Conversions` | hands one input after the other to them, and says what each must preserve |
| `ApiFunctions` | the functions of the C API: checks, scope of errors, what the caller owns afterwards |
| `Facades` | what each blockchain makes and refuses of what the API asks |
| `ApiCalls` | a wallet that calls the C API: ownership, references, errors |
| `JsonApi` | `make_transaction_from_json()`, composed with `ApiCalls` |
| `Sums` | the sum of a sequence of amounts |
| `...Proofs` | theorems about the module of that name (`EthereumProofs`: `EthereumBuilders`; `ChainProofs`: `ChainTransactions`; `ApiProofs`: `JsonApi` and `PropertySet`; `ConversionProofs`: `Conversions`; `SumProofs`: induction and sums, for the others) |
| `MC...` | small instances |

`PROJECT.json` lists the components, the runs, which definition models which lines, the hazards with the
properties aimed at each, the findings and the theorems.

Definitions named `Wrong...` stand just before the definition they distort. Each is a mistake this code could
have made; replacing the right definition by it makes a property fail, so that every property is known to be
able to.

## Inventory

**Properties** (`api/properties_impl.h`, `.cpp`). State: a map from names to binders (type, trait, set flag,
address of the variable), a map from addresses to names, a dirty flag. Operations: bind, unbind by name or by
address, construct and destroy a `PropertyT`, set, reset, change a trait, validate. Every source, destination, fee,
transaction and builder owns one; the C functions `properties_set_*` reach the variables by name only. Hard: two maps
updated one after the other, exceptions from predicates, constructors and duplicate names, bindings to members of
objects that die. Correct when the maps agree, no name leads to a dead variable, a failed call changes no binding,
and "clean" is not said of an object whose required properties were reset.

**Bitcoin transaction** (`bitcoin/bitcoin_transaction.cpp`, `bitcoin_transaction_base.cpp`, `transaction_base.cpp`).
State: sources, destinations, fee, message, replaceability, with the signatures and the computed change stored in
the same objects the caller edits. Operations: add and edit sources and destinations, set fee, message and
`is_replaceable`, `update()`, `serialize()`. It calls `Properties` for all of its state and validation, keys for the
signatures, the stream for sizes. Hard: the fixed point of fee, size, signature and change; failures half-way;
values that an earlier call computed. Correct when a call that succeeds leaves a transaction that is paid for,
relayable, signals what was asked for and is what the user was shown, and when every call returns.

**Bitcoin SegWit transaction** (`bitcoin/bitcoin_transaction_segwit.cpp`). The same object with an `update()` that
verifies and signs, and computes no change. Hard: a `sign()` that throws between two sources leaves one witness new
and one old. Correct when the witnesses that are sent commit to the outputs that are sent.

**Ethereum transaction and builders** (`ethereum/`). State: nonce, payload, fee, one source, one destination, the
total fee, the signature, and a reference to the account. Builders (basic, ERC20, ERC721, multisig) hold properties
and the account, validate and make a transaction that the caller may go on editing. Hard: the total fee assigned
before the check that may throw, an account whose key changes under the transaction, a signature of an earlier
content, arguments of contract calls placed by offset, RLP forms that switch at 56 bytes. Correct when the fee and
the funds agree, what is sent is what is signed and shown, a node reads the fields that were meant, and the payload
has what the builder was given.

**EOS and Golos transactions** (`eos/`, `golos/`). State: expiration, reference block, source, destination, message,
actions. Hard: an expiration that is read before it is assigned, recomputed by each call, or survives a reset; local
time; 8-bit lengths; text buffers of a fixed size. Correct when what is signed is what is written, with the
expiration that was asked for.

**JSON API** (`api/json_api_impl.cpp`). A pipeline account, builder, transaction, properties, serialization that stops
at the first error and must release what it made, in the right order.

**C API, errors, object validity** (`api/*.cpp`, `error_utility.*`, `object.*`). Checks arguments, turns exceptions to
`Error` objects, hands out ownership. Correct when each object has one owner after every call, failed ones included,
and nothing refers to what was freed.

**Accounts and HD accounts** (`account_base.cpp`, `*/..._account.cpp`, `hd_path.cpp`). State: a key and its path.
Correct when an exported key imports as the same account and two leaves have one key only if they are one leaf.

**BigInt, keys, codecs, streams, EOS names, utilities.** Conversions. Correct when they keep what they convert, at
the boundaries of their sizes too.

**Facades** (`blockchain_facade_base.cpp`, `*_facade.cpp`). Dispatch to the above by blockchain.

**Hashes and mnemonics.** Stateless calls of third-party cryptography; not modelled.

## Plan

Done: all of the modules above, their runs and theorems. The order was by what can be lost: the money that goes to
the miner first, then what is signed, then who owns what. What could be added:

1. The components that `PROJECT.json` calls partly modelled, where a state change is left: the builder of `updateauth`, if
   a transaction ever comes of it, and the validity check of objects, if it is ever told what was freed.
2. The registry of facades with several threads; the library promises nothing of threads today.

## BitcoinChange and ChangePolicy

`update()` first measures the transaction as if the change output were there, gives the change what remains after
the fee for that size (unless that is dust), then signs and measures again, lets the change pay every shortage
until there is none, and drops a change that has become dust. Finally it checks the fee and that somebody is paid.

The variables are those of the code: `change` is `change_destination->amount`; `pc` is the line `update()` is at; `tx`
is what the computation reads and does not modify, one number for each sum or size it takes (`leftover`: sources
minus payees; `base`: bytes of everything but the change and the variable part of the signatures; `spread`: how much
longer the signatures can be; and so on). Two variables are not in the code. `slack` remembers how long the
signatures of each content are: `PrivateKey::sign` is deterministic (RFC 6979), so the same content always has the
same length, but nothing else is known of it, and the first measurement chooses any. `shown` remembers how the call
before ended when `update()` is repeated on an unmodified transaction, as `serialize()` does.

| Action | Code (`bitcoin/bitcoin_transaction.cpp`) |
| --- | --- |
| `Begin`, `Repeat` | entry of the computation, line 292, and of `serialize()`, 121 |
| `Clear` | 294-314: amount zero, first measurement, the remainder, the dust limit |
| `Shrink` | one turn of the loop 319-329 |
| `Settle` | the measurement that ends the loop, and 331-334 |
| `Validate` | 338-344 |
| `SignThrows` | an amount over 64 bits met while signing (`bitcoin_stream.cpp:140`), at any measurement |

`ChangePolicy` has the same calls and one step `Decide`: it returns a split that is `Acceptable` or a failure that
is `Justified`. `BitcoinChange` maps every step inside `update()` but the last to a stutter.

## BitcoinTransaction

The object, and a caller who may do anything the interface allows between two calls: an action for each property
or group of properties (`SetSource`, `SetAmount`, `SetIsChange`, ...), `AddSource`, `AddDestination`, `SetMessage`; `Refuse`
(`verify()` throws), `RefuseSecondChange` (it throws after the sequence numbers are assigned), `Enter` and `Compute`
(`update()` alone or within `serialize()`). `Compute` is the `Compute` of `BitcoinChange`, reached by `INSTANCE`;
the amount of the destination marked as change is assigned at each of its steps, and what `sign()` leaves behind
when it throws is the null script of the first source (`LeftBySign`). `Verdict` is `verify()`: the order of its
checks is the order of the code.

A reset property keeps its value and counts as not set; setting `is_change` makes the amount read-only and leaves
its value; an `update()` that fails leaves the change where it was. `displayed` and `sent` record the fee of the last
successful `update()` and `serialize()` since the last modification. A caller modifying the object clears both.

Merged: the previous hash, index, script and key of a source are set and reset with its amount. `set_message` is
the call with a message of an accepted length. Null scripts come only from `sign()`. `mainnet` says on which net the
account is, which decides whether `verify()` refuses dust; `Nets` has both.

## BitcoinSegWit

The same object for a P2SH-P2WPKH account. An output that a source spends is its place (`point`), amount and the key
its script asks for (`owner`); a witness is the record of everything BIP 143 has it commit to, with the key that
signed (`Commitment`). `Update` is `update()`: `Verdict` is `verify()`, `Signed` the sources after `sign()`, in which
`Unsignable` are those it did not come to because an amount could not be written; they keep an older witness.
`Serialize` writes what is stored. `sent` is what it returned, until the next modification.

What the model shows of the code besides the properties: no change is computed, a destination marked as change
sends what its amount was before, and the rest of the sources goes to the fee, whose rate is never looked at. A
negative amount of a source is refused by nothing before it is written.

## PropertySet

`properties` and `nameByValue` are `m_properties` and `m_property_name_by_value`; a binder is its address, trait, kind
(value or function) and set flag. `alive` are the addresses of the `Property` objects that exist; an address of
`Foreign` belongs to a caller of `bind_property` and stays valid. `checked` remembers the names the last `validate()`
found required and set. `make_property` inserts in one map, then in the other, and takes the first entry out again
when the second is refused: nothing observes the state in between, so `CanBind` decides at once. A constructor
that throws runs the destructor of its base class, which unbinds by address: `ConstructThrows`. Values are
abstracted to accepted or refused.

Binding a property, or making one required, does not set the dirty flag. Within the library this only happens in
constructors and in the predicate of a property that is being set, which sets it; `CleanKeepsChecked` is therefore
stated of what the validation has seen.

`PropertyValue` is one property, seen by its owner: a value and whether it counts as set (`Never`, `Given`,
`Forgotten`), which is all that the models of transactions need of `PropertySet`. That a reset keeps the value is
where several of the hazards start.

## EthereumTransaction, EthereumBuilders, RlpEncoding

`EthereumTransaction` is the object: its own properties, `m_fee` (`gasPrice`, `gasLimit`, `totalFee`), one source and
one destination, the signature that was made last, and the key of the account, which `ChangeKey`
(`account_change_private_key()`) replaces behind its back. `Update` assigns the fee before it finds the funds
insufficient, as the code does. `Serialize` is `update()`, `sign()` and writing; what cannot be written throws in the
middle of `sign()`. Numbers are unbounded and may be negative. `shown` and `sent` are forgotten by every modification.

`EthereumBuilders` adds the builder in use. `Names`, `Trait` and `Accepts` are what each of the ten constructors binds
and with which predicate; `Validated` is `validate()`; `Arguments` is `make_message()`; `MakeTransaction` is
`make_transaction()` of every kind, and leaves a transaction of `EthereumTransaction` (`origin` remembers the builder).
A word of a contract call is a number below `WordLimit` (2^256), a method is its name. The wallet completes such a
transaction with nonce and gas; one made by hand it may edit in any order.

`MadeAsAsked` reads the call that was sent as a contract does by the ABI (`ReadParameter`): each parameter of the method in
its place, and a list behind the word that points to it. It compares every parameter with what the caller of the
builder gave, and the method, the amount and the number of words too, so that a call whose message was dropped, or
one with an argument in another's place, would show.

`RlpEncoding` has the writers of the code and, for the format, the reader of a node, which takes every item in its one
canonical form: no header on a byte below 128, no long header for a short item, no zero in front of a length, of a
number or of half of a signature.

What the model shows besides: a nonce of -1 is accepted and cannot be written; a payload that was reset is still
written; `token_id` loses its sign; `skip_leading_zeroes()` skips nothing; the length of a number switches form at 128
bytes instead of 56.

## TransferTransaction, EosTransaction, GolosTransaction, ChainTransactions, Iso8601

`TransferTransaction` has the variables and edits the two chains share: `chain` says which of them the object is.
`expires` is `m_expiration`, which no constructor assigns: it starts as `Junk`. The predicate of the property assigns it,
a reset does not take it back. `Tick` is time passing between calls. `EosTransaction` and `GolosTransaction` have their
`update()` and `serialize()`, `ChainTransactions` the next-state relation and the properties.

EOS cuts numbers to the bits of their type, two lengths to 8 bits. Golos writes text into buffers: one exact length
throws (`IsFormatted`), a longer operation is cut in its own buffer (`Printed`), and one with what is around it once
more in the buffer of the transaction (`Kept`, `KeptOperations`); `HasItsEnd` says whether the text that is sent is complete.
A message is its length and, since it is printed by `"%s"`, what comes before its first NUL. `"%ud"` prints a letter d after
a number (`Decimal`). `Iso8601` has the detour over local time that `mktime()` forces; a string without Z is local time.

`SentIsTheTransfer` therefore does not say that Golos sends the whole transfer, which the code does not do: it says that
the text has its end exactly if the amount and the message fit both buffers, that it then is the transfer given
last, and that a text which was cut has nothing in it that was not given.

What the models show besides: an EOS transaction whose optional expiration was never set is sent with what the
memory held, and one whose expiration was reset with the old one; an update of EOS without an address drops the
actions of the one before. An amount that was never given is sent as zero by both chains. The three tests of the text of
Golos, all disabled (`src/multy_test/test_golos_transaction.cpp:35`, 110 and 186), expect another JSON than the code writes:
no d after the numbers, braces around the operation. The offset from UTC is a constant: a device whose offset changes between
the two conversions of a time is left out, and with it daylight saving.

## Conversions

Each conversion is an operator of `BigIntConversions`, `TextCodec`, `EosName`, `Keys`, `Accounts`, `JsonValues` or
`RlpEncoding`, named after the function. They keep no state; `Conversions` hands one input after the other to them and
states what must come back: that reading undoes writing, that two inputs do not become one, that what is refused is
what cannot be kept. Machine integers have `Width` bits, so that the C++ overflow of a difference is an overflow of the
model; a power of two is the function `Exp2`, which can be reasoned about. Hashes are what they are a hash of, points of a curve are the key, base 58 and base 32 are the bytes.

What the models show besides: a comparison with a machine integer is wrong where the difference overflows
(`NumbersAreKept` promises it only where none does, and the tests of `src/multy_test/test_big_int.cpp:580` compare numbers close to
each other); a division by zero throws (`api/big_int_impl.cpp:249-254`; `Divide` has no result) and never reaches GMP;
a number of 56 to 127 bytes gets a header that a node does not read as its own (`ethereum/ethereum_transaction.cpp:191`), and half of
a signature that begins with a zero byte keeps it, because `skip_leading_zeroes()` (`binary_data_utility.cpp:88-101`) tests the
pointer: no node takes such a transaction, and about one signature in a hundred is like that. `NodeReadsTheFields` says that these are the only cases;
an uncompressed WIF key imports as a SegWit account whose outputs no node lets it spend; Morden has the paths of the
main net of Ethereum; a `private_key` in a JSON request is always read as that of a default account; EOS and Golos
import a key of any length.

## ApiFunctions, Facades, ApiCalls, JsonApi

`ApiFunctions` is the C interface as a set: for each function the object it is called on, the arguments it checks and
in which order, the scope of its errors and what its caller owns afterwards. `Facades` says what each chain makes and
what it always refuses. `ApiCalls` has the heap: `heap` gives for each place the kind, chain and type of the object
there and the accounts it refers to, `held` what the wallet has to free. `Call` is one call of any function: refused,
thrown from, ended by a null pointer, or returned from. `FreeObject` is the functions that free.

`JsonApi` is `make_transaction_from_json()`: a stage for each statement (`MakeAccount`, `MakeBuilder`, `SetPayload`,
`MakeTransaction`, `SetFee`, `SetTransaction`, `Encode`), `Throw` at each, `Drop` for one turn of the unwinding of the
stack and `Finish`. `locals` are the places it owns. Which request makes which statement throw is left open.

Assumed of the wallet, for no header says it: it passes objects that it holds, and frees an account after what refers
to it. What the models show besides: `BLOCKCHAIN_NAMES` has no EOS, so that no JSON request can name it; the builder of
EOS gives a null pointer.

## Runs

| Run | Bounds | Shows |
| --- | --- | --- |
| `bitcoin_change` | leftover 0..24, rate 0..5, base 1 or 3, up to 2 bytes of slack, dust limit 4, output 2, amounts to 12; with and without change, with and without payees and oversized amounts | types; `NoDustChange`, `FeeIsBounded`, `FailsOnlyIfUnpayable`, `RepeatIsStable`; `ImplementsPolicy`; `UpdateReturns` |
| `bitcoin_transaction` | main and test net, 1 source, 2 destinations, amounts of zero, below the dust limit, ordinary and over 64 bits | types; `OutputsArePaidFor`, `OutputsAreRelayable`, `SerializeAgreesWithUpdate`, `SentSignalsReplaceability`, `ChargeIsBounded`, `CallsReturn` |
| `bitcoin_segwit` | 2 sources of 2 keys with amounts -1 and 2, 1 destination with 3 and 4, where 3 is the 64-bit limit | `WitnessesCoverWhatIsSent`, `SegWitSentIsFunded` |
| `property_set` | 2 names, 2 addresses of properties, 1 of a caller | types; `MapsAreInverse`, `BoundIsAlive`, `CleanKeepsChecked`, `ThrowingChangesNothing` |
| `ethereum` | 10 builders and none; nonces -1 and 7, payments -1..1, balance 3, gas 1 times 2 or 3, 2 keys, 2 addresses; numbers of builders -1..3, words below 3, up to 2 owners | types; `SentIsCovered`, `SentIsSigned`, `SentIsAsShown`, `MadeAsAsked`, `TokensAreOwned` |
| `chains` | EOS and Golos; 1 payer, 2 payees, amounts 0 and 12345, messages of 223 (with a NUL after 192, and with none) and 256, durations 9 and 12, times at and after the epoch, with and without Z, a device one second off UTC | `SentIsTheTransfer`, `SentExpiresAsAsked`, `SignatureIsOfWhatIsSent` |
| `conversions` | integers of 6 bits against numbers -140..140; RLP sizes of data around 1, 24, 55, 56 and 255, of numbers 55, 56, 127 and 128, halves of signatures that begin with 0, 127 and 128; names to 17 characters, keys of 3 bytes, hex to 6 symbols; every leaf of the 4 chains and their nets with small indexes | `NodeReadsTheFields`, `NumbersAreKept`, `NamesReadBack`, `StringsReadBack`, `KeysImportAsExported`, `LeavesHaveTheirKeys`, `SignaturesAreCanonical` |
| `api` | 4 places, 3 chains, at most one member in each section of a request | `EveryObjectIsOwned`, `ReferencesAreAlive`, `AnswersAreComplete` |
| `stale_change`, `null_script`, `eos_memo`, `leaked_builder` | as the run of the same module, `stale_change` and `null_script` with fewer values | the findings below |

*Why these bounds.*

- `bitcoin_change`, `bitcoin_transaction`: the numbers keep the order of the real ones (dust limit above the size of an
  output, 64-bit limit above the dust limit), and rates go up to more than the dust limit, so that one longer signature can
  turn a change negative, which real rates above 546 satoshi per byte do. The leftovers reach from nothing to beyond
  the 64-bit limit, through every boundary of the computation. One source and two destinations give a payee with a
  change, two payees, and two changes; edits and calls are unbounded in number and order. What needs more (many
  sources) is in `spread` of `bitcoin_change`.
- `bitcoin_segwit`: two sources are the least of which the second can fail to be signed.
- `property_set`: with two names and three addresses, a name and an address can each be taken while the other is free, by
  a property or a variable of the caller.
- `ethereum`: with a balance of 3, a fee of 2 or 3 and payments around zero, funds are missing, exact and more than
  enough, and a change of the limit of gas moves between them after a signature was made. Numbers of builders lie on
  both sides of zero, of 1 (confirmations) and of the largest word.
- `chains`: 223 is the first message whose data wraps a byte, 256 the first that EOS refuses. In a buffer of 307 characters, 77 and 2 of
  the operation and 20 and 10 around it leave 197 for the amount and the message: with 192 of the message the amount
  0.000 just fits and 12.345 is one too long for the transaction, with 223 the first makes the operation of the length that
  throws and the second one longer, with 256 both are cut. In the code the buffers have 1024 characters. Of the three
  times one is before the epoch where the device is, and is refused.
  Widths of 11, 6 and 4 bits make the real cuts (64, 32, 16) happen to the block number, and leave the times used here as
  they are, as 32 bits do until 2106. The clock moves once: any call is before or after it. Nothing tells one `Junk` from another.
- `conversions`: six bits have the least and the largest integer, a sign and overflow; the sizes lie on each side of
  every switch of the code, the sums with the other fields included (a list passes 55 bytes when the payload passes
  24 or 44). Numbers of 55, 56, 127 and 128 bytes are on both sides of where the format and the code change the header.
- `api`: four places are enough for a JSON request (an account, a builder, a transaction) beside an object of the wallet, and for a
  wallet with an account, a builder and a transaction of it; Golos differs from Bitcoin only in what it refuses.
  A member is not distinguished from another of its section.

`MaxSources`, `MaxDestinations`, `LastTime`, `MaxProperties`, `Ids` and the sets of values are bounds of the models; the
code has none.

*Deadlock* is checked except where the program may end: the three instances of `BitcoinTransaction` whose states
include the dereference of a null script (status `crash`), after which nothing is modelled.

*Symmetry* in `MCPropertySet` exchanges names, and addresses of properties; in `MCApi` the places of the heap. Nothing
distinguishes them. It is not used where liveness is checked.

*Fairness.* `WF_vars(Compute)`, in `BitcoinChange` and `BitcoinTransaction`: a C++ call that was entered runs on until it
returns. Nothing is assumed of the caller, who may never call. The signatures are not assumed to be kind: the loop ends
for every choice. The other modules have no loop whose end is in question; a call of theirs is one step, or a
sequence of stages none of which comes back.

## Theorems

All proofs are checked by TLAPS with no unproved leaf.

`BitcoinChangeProofs` assumes of the constants what `BitcoinChange` states (`DustAssumption`: positive; the others:
naturals, and records of naturals); the dust limit, the output size and the 64-bit limit are otherwise arbitrary, and
so is the set of transactions.

- `TypeCorrect`, then `Invariance` of `IInv`. None of the properties of a finished call is inductive: at its end, what
  made them true is no longer visible. `ShrinkInv` says, inside the loop, that the fee already paid is not above the
  dearest one and that the transaction could pay for its size with no change, plus the dust limit; `ValidateInv` carries
  either that a kept change is exactly paid for at the size remembered in `slack`, or that it was dropped with little
  left; `DoneInv` has the properties themselves.
- `NoDustChangeHolds`, `FeeIsBoundedHolds`, `FailsOnlyIfUnpayableHolds` follow from `IInv`.
- `Refinement`: `Spec => ImplementsPolicy`. Every step but the last of a call is a stutter; `ValidateStep` and `ThrowStep`
  show that the last one is `Decide`. Products of a size and a rate are compared through `CostIsMonotonic` only.
- `RepeatIsStableHolds`. The first call is over when the second one runs, but the lengths of signatures it met are in
  `slack`, and a length that is known never changes (`SignMeasures`). `Settles` says which amounts the known lengths lead
  through, and where to; `RepeatInv` that a repeated call is on that way, for whatever is left of it, and that its end is
  what `shown` remembers.

`SumProofs` has what the others need of numbers and sums. The induction theorems of the library take a predicate, which
the prover cannot instantiate; `Induction` is about a set of numbers instead and follows from its least element outside.
`TotalIsInt` and `TotalOfChanged` are the sums of `Sums`.

`BitcoinTransactionProofs`: `TypeCorrect`, `PaidFor`, `Relayable`, `SerializeAgrees`, `SignalsAsAsked` and `ChargeBounded`,
for any number of sources and destinations. `IInv` takes the invariants of `BitcoinChangeProofs` over, by `INSTANCE`, for the
transactions that a caller can put together (`ComputationInv`); `LinkInv` says that the computation is about this
transaction and that the change it moves is the amount of the one destination marked as such, which is true because
`TotalOfChanged` says what one amount does to the sums; `CallInv` carries what `verify()` saw through the computation;
`AmountInv` that nothing but a change under computation is negative; `FeeInv` that a fee which was displayed or sent is still
the one of the stored amounts, or of the call that is repeated; `SignalInv` has the sequence numbers, assigned before the
computation. `ChargeBounded` is the bound of `BitcoinChangeProofs` on the fee, brought to the object: the sums and sizes of the
computation are those of the destinations that a node is sent, so that an output of no amount is paid for by no byte.

`BitcoinSegWitProofs`: `WitnessesCover` and `SentIsFunded`. `SentInv` adds that a transaction that is still remembered has one
witness for each source; the rest is that every modification forgets what was sent, and that `sign()` changes nothing
but witnesses. That amounts are not negative is not invariant: it is known of a transaction that could be written.

`EthereumProofs`: `BuilderTypeCorrect`, `Covered`, `SignedAsSent`, `AsShown`, `TokensOwnedAreEnough` and `SentAsAsked`, of a
transaction made by hand or by any of the builders. Assumed: numbers are integers, a chain has a positive number or is -4
(before EIP 155), a word has more than one value and can count the owners of a wallet (`WordAssumption`), and a payload set
by hand is a payload (`PayloadsAssumption`).
`TransactionInv` ties what was sent and shown to what is stored, and the bytes of the address to the address as given;
`BuilderInv` says that each property of a builder holds what its predicate accepted; `OriginInv` carries what was asked for
from the builder, which is gone by then, into the payload: what each parameter of the ABI reads, the length of the call
and of its list, the amount, and the bound on the tokens.

`ChainProofs`: `ExpiresAsAsked`, `SignedAsWritten` and `TransferIsSent`. Assumed: the offset, the durations, the amounts and the
numbers of blocks are integers (`ClockAssumption`, `NumbersAssumption`); a time that is accepted fits the word that EOS
writes it in, as all until 2106 do (`TimesAssumption`); a reference to a block fits its word, which its predicate checks
(`BlocksAssumption`); the two chains cut the number of a block to the same size (`HalvesAssumption`); a message has no more text
before its first NUL than its length (`MessagesAssumption`); the parts of Golos' texts have lengths, and a buffer is longer than
what comes before the operation (`BufferAssumption`). `DeadlineInv` ties the
variable that is written to the property the caller set: no call may compute it anew while the property is set, and the
detour over local time must cancel out. `FieldsInv` says what the predicates let through. `AmountReadsBack` is what the
amount needs: the digits of a number, a recursive function, exist, are unique and read back as the number, with the
zeroes in front of a fraction and the point where it is split. That a text has its end exactly if the transfer fits is
arithmetic on the two buffers, for any sizes of them.

`ApiProofs`, of `JsonApi`: `ObjectsAreOwned`, `NoReferenceDangles` and `AnsweredIsComplete`, for any number of places, chains and
members. What the wallet holds refers to what the wallet holds (`HeldInv`): that alone survives a call that frees.
`LocalsInv` says for each stage what the locals are and that the later ones refer to the first: this is what makes the
reverse order of their destruction the right one, half-way too. `ProgressInv` has the sections that are finished.

`ApiProofs`, of `PropertySet`, for every set of names and addresses: `PropertiesInvariance`, `PropertiesTypeCorrect`,
`MapsAgree`, `NoDanglingBinding`, `CleanIsStillValid` and `ThrowingIsHarmless`. `MapsAreInverse` and `BoundIsAlive` need each other: that
destroying a property takes out its name follows from the maps being inverse, and that a throwing constructor
unbinds nothing follows from no dead address being bound (`DeadIsUnbound`).

`ConversionProofs`: `FieldsHold`, `NumbersHold`, `NamesHold`, `StringsHold`, `KeysHold`, `LeavesHold` and `SignaturesHold`. A state is
one input, so that the only invariant is what may be fed (`OnlyFed`); what is proved is about the operators, for data
of any length and integers of any width. Assumed: a width above 1 (`WidthAssumption`), a key of at least one byte
(`KeySizeAssumption`), naturals where the code has sizes, digits and bytes (`WordAssumption`, `SymbolsAssumption`,
`PayloadsAssumption`, by which the size of a payload has at most the 8 bytes that a header counts), and numbers of at most twice the bits of a machine integer (`NumbersAssumption`): `Bits` looks no
further, while GMP has no such bound.

The library's theorems of induction cannot be instantiated, so each recursive function is shown to exist, to be unique and
to compute what it should, through `Induction` of `SumProofs` and `StrongInduction`, which are about a set of numbers
(`BytesOfIs`, `ImportIs`, `Exp2Is`, `FlattenIs`, `RestExists`).

- `NumbersHold`: the bytes of a number read back as the number (`NumberReadsBack`), whatever its length; a difference
  wraps only where it overflows, by `BitsBound` and powers of two.
- `FieldsHold`: the fields are read one after the other, each by its head alone: what follows a field is never taken for a part
  of it, on both sides of 56 bytes. The other direction is that a reader which refused a field reads nothing after it:
  `LongNumberIsRefused` for a header of the wrong form, `HalfIs` for a zero in front of half of a signature.
- `NamesHold`, `StringsHold`: `NameReadsBack` symbol by symbol, hex by pairs of digits.
- `KeysHold`, `LeavesHold`, `SignaturesHold`: a prefix and a length tell each form from the others; two paths that agree
  agree in the coin, the account, the branch and the index; `SignatureIsTaken` says that what `sign()` returns is what the
  check of the node takes.

Proving them found a mistake in the model, not in the code: the cases of `FirstCharacter` overlapped, and TLC had taken
the first that is true.

Every invariant and every action property of the runs is stated by a theorem. Only model-checked is liveness
(`UpdateReturns`, `CallsReturn`), which the prover cannot reach.

## Findings

1. `stale_change`. After an `update()`, the amount of the change stays stored. A caller who then raises a payee's
   amount, still within what the sources have, is told "Transaction is trying to spend more than available in
   inputs": `verify()` (`bitcoin/bitcoin_transaction_base.cpp:228`) counts the old change as spent, before `update()` would
   set it to zero. The amount is read-only then, so the caller cannot correct it without unmarking the change.
   `src/multy_core/transaction.h:88` asks for `update()` after every modification.
2. `null_script`. `sign()` swaps a source's script into `script_signature` and back. If an amount does not fit 64 bits,
   the stream throws in between (`bitcoin/bitcoin_transaction.cpp:378`), and the script stays null although it counts as
   set. The next call dereferences it (line 226) where `api/transaction_impl.h:37` announces an exception.
3. `eos_memo`. The length of a transfer's data is written as one byte (`eos/eos_transaction_transfer_action.cpp:49`), and the
   data has 33 bytes before the memo. `set_message()` accepts up to 255 ("Max message size is 255 bytes",
   `eos/eos_transaction.cpp:313`); from 223 on the byte wraps, and the transaction is signed and sent with a
   length that is not that of its data.
4. `leaked_builder`. `free_transaction_builder()` only looks at its argument (`api/transaction_builder.cpp:76`), although
   `src/multy_core/transaction_builder.h:27` says that a builder has to be freed with it. The builder stays in memory,
   with a reference to an account that may be gone; so does the one of each JSON request.

## Not modelled

- Hashes, curves, mnemonics and the derivation of keys: third-party code behind stateless wrappers, present in the
  models only as what a signature or a hash is a function of, and how long a signature can be. Base 58 and base 32
  likewise. The order of the curve is not among the checks of a key.
- The registry of facades, filled at the first use of a chain without a lock: the library promises nothing of threads.
- What the validity check of an object answers of memory that was freed or never was one: it is undefined, and no call
  that the headers allow asks for it.
- The action of the EOS builder for `updateauth`: no transaction comes of it.
- Floating point numbers in BigInt, and its sums and products, which GMP does.
- Formatting and messages of errors; functions that only read (`estimate_total_fee`, specifications of properties).
- Running out of memory, everywhere.
- Widths of scripts and addresses: `serialize()` with an address or script of a kind that `make_script_pub_key` refuses is
  the same as a refused value.

The status of each component is in `PROJECT.json`.
