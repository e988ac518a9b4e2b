----------------------------- MODULE JsonValues -----------------------------
(***************************************************************************)
(* What a member of a JSON request sets a property to (from_json() and     *)
(* set_properties() in multy_core/src/api/json_api_impl.cpp).  A value has *)
(* the type the parser gave it; a string is one of decimal digits, given   *)
(* by its number, or of the symbols of TextCodec behind a prefix.  Base 58 *)
(* and base 32 are external: such a string is its bytes.                   *)
(***************************************************************************)
EXTENDS BigIntConversions, Accounts

JsonInt(n) == [type |-> "int", value |-> n]
JsonDecimal(n) == [type |-> "string", format |-> "decimal", value |-> n]
JsonSymbols(prefix, s) == [type |-> "string", format |-> prefix, value |-> s]

(* Of an integer, the parser knows whether it has a sign to lose.          *)
IsInt64(v) == v.type = "int" /\ v.value \in -(Exp2[Width - 1])..(Exp2[Width - 1] - 1)
IsUInt64(v) == v.type = "int" /\ v.value \in 0..(Exp2[Width] - 1)

(* A set of what the property may be set to, empty if this throws.  The    *)
(* "0x" of a number is skipped here, and the codec may skip another.       *)
BigIntFromJson(v) ==
    CASE IsInt64(v) -> {SignedImport(v.value)}
      [] ~IsInt64(v) /\ IsUInt64(v) -> {v.value}
      [] v.type = "string" /\ v.format = "decimal" -> {v.value}
      [] v.type = "string" /\ v.format = "0x" ->
            IF DecodeHex(v.value) = Failed THEN {} ELSE {Import(DecodeHex(v.value))}
      [] OTHER -> {}

(* A codec by the prefix of the string, hex without one. *)
CodecOf(prefix) ==
    CASE prefix = "base58:" -> "base58"
      [] prefix = "base32:" -> "base32"
      [] OTHER -> "hex"

Encoded(codec, b) == IF codec = "hex" THEN EncodeHex(b) ELSE b
Decoded(codec, s) == IF codec = "hex" THEN DecodeHex(s) ELSE s

BinaryFromJson(v) ==
    LET symbols == IF v.format = "0x" THEN <<0, X>> \o v.value ELSE v.value
        b == Decoded(CodecOf(v.format), symbols)
    IN IF b = Failed THEN {} ELSE {b}

(* A private key is that of a default account, whatever the type of the    *)
(* account of the request.                                                 *)
KeyFromJson(chain, net, s) ==
    LET key == AccountFrom(chain, net, "default", s).key IN
    IF key = NoKey THEN {} ELSE {key}
=============================================================================
