---------------------------- MODULE Conversions ----------------------------
(***************************************************************************)
(* The conversions of Multy Core against what they must preserve: numbers, *)
(* what an Ethereum node reads, EOS names, hex strings, keys and addresses.*)
(* They keep no state, so a behaviour hands one input after the other to   *)
(* them and every state is one input.                                      *)
(***************************************************************************)
EXTENDS RlpEncoding, EosName, JsonValues

CONSTANTS
    Numbers,        \* values of a BigInt
    WordSize,       \* bytes of a word of a contract call
    AddressSize,    \* bytes of an Ethereum address
    Heads,          \* values the first byte of some data has
    Sizes,          \* sizes the payload of a transaction has
    Characters,     \* character codes a name is written with
    Digits          \* symbols a hex string is written with

ASSUME NumbersAssumption == \A n \in Numbers : n \in Int /\ Abs(n) < Exp2[2 * Width]
ASSUME WordAssumption == WordSize \in Nat
ASSUME SymbolsAssumption == Digits \subseteq Nat /\ AddressSize \in Nat
(* A longer payload has no header: the code throws.                        *)
ASSUME PayloadsAssumption ==
    /\ Sizes \subseteq Nat /\ Heads \subseteq 0..255
    /\ \A n \in Sizes : Len(BytesOf[n]) <= MaxLengthBytes

VARIABLE input

Machine == -(Exp2[Width - 1])..(Exp2[Width - 1] - 1)

Filled(n, head, byte) == [i \in 1..n |-> IF i = 1 THEN head ELSE byte]

(* Numbers of no byte, one byte and as many as the forms of a header hold. *)
Numerals == {<<>>, <<127>>, <<128>>, <<1, 0>>} \cup {Filled(n, 1, 0) : n \in {55, 56, 127, 128}}
Nonces == {<<>>, Filled(56, 1, 0)}

(* The fields of an Ethereum transaction in the order they are written:    *)
(* nonce, gas price, gas limit, address, value, payload and, either in     *)
(* what is signed or in what is sent, the chain or the signature, of whose *)
(* halves t has the first bytes.                                           *)
Number(b) == [kind |-> "number", bytes |-> b]
Data(b) == [kind |-> "data", bytes |-> b]
Fields(t) ==
    <<Number(t.nonce), Number(<<1>>), Number(<<82, 8>>), Data(t.to), Number(t.value), Data(t.payload)>>
    \o IF t.halves = <<>> THEN <<Number(<<1>>), Number(<<>>), Number(<<>>)>>
       ELSE SignatureFields(37, Filled(32, t.halves[1], 7), Filled(32, t.halves[2], 7))

(* Names up to three symbols, and long ones around the limit of twelve. *)
Names == (UNION {[1..n -> Characters] : n \in 0..2})
            \cup {Filled(n, a, b) : n \in {3, 11, 12, 13, 16, 17}, a, b \in Characters}

Strings == UNION {[1..n -> Digits] : n \in 0..(2 * AddressSize + 2)}

KeyBytes == {0, 1, 128}
PrivateKeys == {key \in [1..KeySize -> KeyBytes] : IsValid(key)}
Leaves == UNION {[chain: {c}, net: Nets(c), account: 0..1, type: 0..1, index: 0..1] : c \in AccountChains}
Path(l) == LeafPath(AccountPath(l.chain, l.net, l.account), l.type, l.index)
LeafAccounts(key) == UNION {{Leaf(c, net, type, <<0>> \o key, <<>>) : net \in Nets(c), type \in Types(c)} : c \in AccountChains}
HalfHeads == {0, 1, 127, 128} \X {0, 127, 128}

(* What a node of EOS or Golos takes.                                      *)
Takes(c) ==
    \A half \in {c.r, c.s} : 128 <= half[1] * 256 + half[2] /\ half[1] * 256 + half[2] < 32768
-----------------------------------------------------------------------------
Init == input = [of |-> "nothing"]

Feed(x) == input.of = "nothing" /\ input' = x

FeedNumber == \E n \in Numbers, v \in Machine : Feed([of |-> "number", n |-> n, v |-> v])
FeedTransaction ==
    \E nonce \in Nonces, value \in Numerals, to \in {<<>>, Filled(20, 9, 0)}, size \in Sizes, head \in Heads,
       halves \in (Heads \X Heads) \cup {<<>>} :
        Feed([of |-> "transaction", nonce |-> nonce, value |-> value, to |-> to,
              payload |-> Filled(size, head, 5), halves |-> halves])
FeedName == \E name \in Names : Feed([of |-> "name", name |-> name])
FeedString == \E s \in Strings : Feed([of |-> "string", string |-> s])
FeedKey == \E key \in PrivateKeys, net \in {"main", "test"}, compressed \in BOOLEAN :
              Feed([of |-> "key", key |-> key, net |-> net, compressed |-> compressed])
FeedLeaf == \E l \in Leaves : Feed([of |-> "leaf", leaf |-> l])
FeedAttempts == \E r, s \in HalfHeads, t \in HalfHeads :
              Feed([of |-> "attempts", attempts |->
                    <<[r |-> r, s |-> s, recovery |-> 0], [r |-> s, s |-> t, recovery |-> 1], [r |-> t, s |-> r, recovery |-> 3]>>])
Forget == input.of # "nothing" /\ input' = [of |-> "nothing"]

Next == \/ FeedNumber \/ FeedTransaction \/ FeedName \/ FeedString
        \/ FeedKey \/ FeedLeaf \/ FeedAttempts \/ Forget

Spec == Init /\ [][Next]_input
-----------------------------------------------------------------------------
(* An Ethereum node reads from the bytes of a transaction its fields, of   *)
(* all sizes around the boundaries of the forms of a header, but not if a  *)
(* number of it has 56 to 127 bytes, which get the header of something     *)
(* else, or half of its signature begins with a zero, which is left there. *)
NodeReadsTheFields ==
    input.of = "transaction" =>
        (Reads(WriteFields(Fields(input)), Fields(input)) <=>
            /\ \A b \in {input.nonce, input.value} : Len(b) \notin 56..127
            /\ \A i \in DOMAIN input.halves : input.halves[i] # 0)

(* A conversion of a BigInt to a machine integer or bytes either throws or *)
(* keeps the value, of the machine integers the least alone is refused,    *)
(* and a comparison is right unless the difference, or its absolute value, *)
(* overflows.  A JSON request may write a number in any of its ways.       *)
NumbersAreKept ==
    input.of = "number" =>
        LET n == input.n  v == input.v IN
        /\ GetInt(n) \cup GetUint(n) \subseteq {n}
        /\ (n \in Machine /\ n # -(Exp2[Width - 1])) => n \in GetInt(n)
        /\ n \in 0..(Exp2[Width] - 1) => n \in GetUint(n)
        /\ SignedImport(v) = v
        /\ (Abs(n - v) < Exp2[Width - 1] \/ GetInt(n) = {}) => CompareInt(n, v) = Sign(n - v)
        /\ Import(Export(n)) = Abs(n)
        /\ \A q \in Divide(n, v) : Abs(n - q * v) < Abs(v) /\ Sign(n - q * v) \in {0, Sign(n)}
        /\ IsWord(Export(n), WordSize) =>
             LET word == WriteWord(Export(n), WordSize) IN
             Len(word) = WordSize /\ Import(word) = Abs(n)
        /\ BigIntFromJson(JsonInt(n)) = (IF n \in Machine \cup 0..(Exp2[Width] - 1) THEN {n} ELSE {})
        /\ BigIntFromJson(JsonDecimal(n)) = {n}
        /\ n >= 0 => BigIntFromJson(JsonSymbols("0x", EncodeHex(Export(n)))) = {n}

(* The data of a name denotes that name and no other but for dots at the   *)
(* end, which a name does not keep; and a name that is taken as an address *)
(* of Golos is a part of a name there: a letter, some letters or digits,   *)
(* and no sign at the end.                                                 *)
NamesReadBack ==
    input.of = "name" =>
        LET name == input.name IN
        /\ IsAccepted(name) => DecodeName(EncodeName(name)) = Stripped(name)
        /\ IsGolosAddress(name) =>
             name[1] \in 97..122 /\ Last(name) \in 97..122 \cup 48..57

(* A string accepted as hex is the one its bytes would be written as, and  *)
(* one accepted as an address has the size of an address.  Bytes in a JSON *)
(* request are the same however they are written.                          *)
StringsReadBack ==
    input.of = "string" =>
        LET s == input.string  b == DecodeHex(s)  a == AddressOf(s, AddressSize) IN
        /\ b # Failed => EncodeHex(b) = SkipPrefix(s)
        /\ a # Failed => Len(a) = AddressSize /\ AddressOf(AddressString(a), AddressSize) = a
        /\ b # Failed => \A k \in -Len(b)..-1 : PowerSlice(b, k, -k) = SubSeq(b, Len(b) + k + 1, Len(b))
        /\ b # Failed => \A prefix \in {"hex:", "none", "0x", "base32:", "base58:"} :
             BinaryFromJson(JsonSymbols(prefix, Encoded(CodecOf(prefix), b))) = {b}

(* An exported private key imports as the same key, of the same net, with  *)
(* the same form of its public key, whatever byte the key ends in; and the *)
(* key of a leaf account imports as it, but without its path: an address   *)
(* of that net and type, and no account of another net of Bitcoin.         *)
KeysImportAsExported ==
    input.of = "key" =>
        /\ BitcoinKeyFrom(BitcoinKeyString(input.key, input.net, input.compressed))
             = [key |-> input.key, net |-> input.net, compressed |-> input.compressed]
        /\ \A a \in LeafAccounts(input.key) :
             /\ LET imported == AccountFrom(a.chain, a.net, a.type, ExportedKey(a)) IN
                imported = a /\ PublicKey(imported) = PublicKey(a) /\ Addresses(imported) = Addresses(a)
             /\ KeyFromJson(a.chain, a.net, ExportedKey(a)) = {a.key}
             /\ a.chain = "bitcoin" =>
                  /\ \A net \in Nets("bitcoin") \ {a.net} :
                        AccountFrom("bitcoin", net, a.type, ExportedKey(a)) = NoAccount
                  /\ \A address \in Addresses(a) :
                        ParsedAddress(address) = [net |-> a.net, type |-> AddressType(a.type)]
        /\ \A position \in (-KeySize - 1)..KeySize, byte \in KeyBytes :
             LET new == ChangedKey(input.key, position, byte)
                 at == IF position < 0 THEN KeySize + position + 1 ELSE position + 1
                 asked == [i \in 1..KeySize |-> IF i = at THEN byte ELSE input.key[i]]
             IN new = IF position \in -KeySize..(KeySize - 1) /\ IsValid(asked) THEN asked ELSE NoKey

(* Two leaf accounts have one key only if they are the same leaf of one    *)
(* chain, or of test nets; and the key a user id is made of is neither the *)
(* key of a leaf nor above it.                                             *)
LeavesHaveTheirKeys ==
    input.of = "leaf" =>
        LET l == input.leaf IN
        /\ \A m \in Leaves : Path(l) = Path(m) =>
             /\ <<l.account, l.type, l.index>> = <<m.account, m.type, m.index>>
             /\ l.chain = m.chain \/ (IsTestnet(l.chain, l.net) /\ IsTestnet(m.chain, m.net))
             /\ IsTestnet(l.chain, l.net) <=> IsTestnet(m.chain, m.net)
        /\ UserIdPath(<<>>) # {} /\ UserIdPath(Path(l)) = {}
        /\ \A p \in UserIdPath(<<>>) : ~IsPrefix(p, Path(l))

(* A signature of an EOS or Golos transaction is one a node takes: both    *)
(* halves, as signed numbers, need all their bytes and no more.  One that  *)
(* can be had is had, and its header and checksum are its own.             *)
SignaturesAreCanonical ==
    input.of = "attempts" =>
        LET i == SignatureAmong(input.attempts)
        IN IF i = 0 THEN \A j \in DOMAIN input.attempts : ~Takes(input.attempts[j])
           ELSE \E c \in ToSet(input.attempts) :
                  /\ Takes(c)
                  /\ GolosSignature(input.attempts) = [head |-> 31 + c.recovery, r |-> c.r, s |-> c.s]
                  /\ EosSignature(input.attempts).check = <<GolosSignature(input.attempts), "K1">>
=============================================================================
