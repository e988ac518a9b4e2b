-------------------------------- MODULE Keys --------------------------------
(***************************************************************************)
(* Private keys as strings and what they sign (multy_core/src/bitcoin/     *)
(* bitcoin_key.cpp and the account file of each other chain).  Hashes and  *)
(* curves are external: the checksum of a string is a tag, an attempt to   *)
(* sign is what the curve gave, KeySize stands for 32 bytes.               *)
(*                                                                         *)
(* The definitions named Wrong... are mistakes this code could have made:  *)
(* the properties are checked to notice each of them.                      *)
(***************************************************************************)
EXTENDS TextCodec

CONSTANT KeySize

ASSUME KeySizeAssumption == KeySize \in Nat \ {0}

NoKey == <<-1>>    \* an exception instead of a key

(* ec_validate_private_key(), but for the order of the curve. *)
IsValid(key) == Len(key) = KeySize /\ \E i \in 1..KeySize : key[i] # 0

(* A Bitcoin key is decoded to bytes, and the first character tells the    *)
(* prefix and the length of what was encoded.                              *)
WifPrefix(net) == IF net = "main" THEN 128 ELSE 239

FirstCharacter(bytes) ==
    LET long == Len(bytes) = KeySize + 2 IN
    CASE bytes[1] = 128 -> IF long THEN "K" ELSE "5"
      [] bytes[1] = 239 -> IF long THEN "c" ELSE "9"
      [] OTHER -> "?"

(* BitcoinPrivateKey::to_string() *)
BitcoinKeyString(key, net, compressed) ==
    LET bytes == <<WifPrefix(net)>> \o key \o (IF compressed THEN <<1>> ELSE <<>>)
    IN [first |-> FirstCharacter(bytes), bytes |-> bytes]

WrongHasSuffix(s, net) == Last(s.bytes) = 1
HasSuffix(s, net) ==
    s.first \in (IF net = "main" THEN {"L", "K"} ELSE {"c"}) /\ Last(s.bytes) = 1

(* make_bitcoin_private_key_from_wif(): the net by the first byte, the     *)
(* form of the public key by the first character and the last byte.        *)
BitcoinKeyFrom(s) ==
    LET net == IF s.bytes[1] = 239 THEN "test" ELSE "main"
        body == IF s.bytes[1] \in {128, 239} THEN Tail(s.bytes) ELSE s.bytes
        compressed == HasSuffix(s, net)
        key == IF compressed THEN Front(body) ELSE body
    IN [key |-> IF IsValid(key) THEN key ELSE NoKey, net |-> net, compressed |-> compressed]

(* EthereumPrivateKey::to_string() and make_ethereum_account(): hex with   *)
(* no prefix, of exactly the size of a key.                                *)
EthereumKeyString(key) == EncodeHex(key)
EthereumKeyFrom(s) ==
    IF Len(s) # 2 * KeySize \/ \E i \in DOMAIN s : s[i] >= X THEN NoKey
    ELSE LET key == [i \in 1..KeySize |-> s[2 * i - 1] * 16 + s[2 * i]] IN
         IF IsValid(key) THEN key ELSE NoKey

(* EthereumAccountImpl::change_private_key(): -1 is the last byte. *)
ChangedKey(key, position, byte) ==
    LET pos == IF position < 0 THEN KeySize + position ELSE position IN
    IF pos < 0 \/ pos >= KeySize THEN NoKey
    ELSE LET new == [key EXCEPT ![pos + 1] = byte] IN IF IsValid(new) THEN new ELSE NoKey

(* EOS and Golos write 0x80, the key and four bytes of the hash of its     *)
(* hash, and read those of the hash too.  Neither looks at the key.        *)
EosKeyString(key) == [bytes |-> <<128>> \o key, hashed |-> "twice"]
EosKeyFrom(s) ==
    IF s.bytes = <<>> \/ s.hashed \notin {"once", "twice"} THEN NoKey
    ELSE IF s.bytes[1] # 128 THEN NoKey ELSE Tail(s.bytes)
GolosKeyString(key) == EosKeyString(key)
GolosKeyFrom(s) == EosKeyFrom(s)

(* Public keys: the point, and how it is written as bytes. *)
BitcoinPublicKey(key, compressed) ==
    [point |-> key, form |-> IF compressed THEN "compressed" ELSE "uncompressed"]
EthereumPublicKey(key) == [point |-> key, form |-> "no prefix"]
EosPublicKey(key) == [point |-> key, form |-> "compressed"]
GolosPublicKey(key) == [point |-> key, form |-> "compressed"]
-----------------------------------------------------------------------------
(* The signatures of EOS and Golos.  An attempt has its own nonce; r and s *)
(* are given by their first two bytes, recovery by its number.             *)
IsCanonical(c) ==
    /\ c.r[1] < 128 /\ ~(c.r[1] = 0 /\ c.r[2] < 128)
    /\ c.s[1] < 128 /\ ~(c.s[1] = 0 /\ c.s[2] < 128)

(* The loop of sign(): the first attempt that is canonical; 0 if none is.  *)
WrongSignatureAmong(attempts) ==
    IF attempts = <<>> THEN 0 ELSE IF IsCanonical(attempts[1]) THEN 1 ELSE Len(attempts)
SignatureAmong(attempts) ==
    LET good == {i \in DOMAIN attempts : IsCanonical(attempts[i])} IN
    IF good = {} THEN 0 ELSE CHOOSE i \in good : \A j \in good : i <= j

CompressedCompact == 4 + 27

(* The header goes with the attempt that was taken; EOS adds a checksum.   *)
GolosSignature(attempts) ==
    LET c == attempts[SignatureAmong(attempts)] IN [head |-> CompressedCompact + c.recovery, r |-> c.r, s |-> c.s]
EosSignature(attempts) ==
    LET c == attempts[SignatureAmong(attempts)]
        body == [head |-> CompressedCompact + c.recovery, r |-> c.r, s |-> c.s]
    IN [head |-> body.head, r |-> body.r, s |-> body.s, check |-> <<body, "K1">>]
=============================================================================
