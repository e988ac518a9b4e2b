----------------------------- MODULE TextCodec -----------------------------
(***************************************************************************)
(* Hex strings and what is read from them (multy_core/src/codec.cpp,       *)
(* binary_data_utility.cpp, ethereum/ethereum_address.cpp).  A string is a *)
(* sequence of symbols: 0 to 15 are the hex digits, X is the letter x and  *)
(* anything above is no digit.  Base 58 and base 32 are external.          *)
(*                                                                         *)
(* The definitions named Wrong... are mistakes this code could have made:  *)
(* the properties are checked to notice each of them.                      *)
(***************************************************************************)
EXTENDS Integers, Sequences, SequencesExt

X == 16
Failed == <<-1>>    \* what is returned is never used: an exception was thrown

(* skip_prefix("0x", ...) *)
SkipPrefix(s) == IF IsPrefix(<<0, X>>, s) THEN SubSeq(s, 3, Len(s)) ELSE s

EncodeHex(b) == FlattenSeq([i \in DOMAIN b |-> <<b[i] \div 16, b[i] % 16>>])

WrongDecodeHex(s) ==
    LET digits == SkipPrefix(s) IN
    IF \E i \in DOMAIN digits : digits[i] >= X THEN Failed
    ELSE [i \in 1..(Len(digits) \div 2) |-> digits[2 * i - 1] * 16 + digits[2 * i]]

DecodeHex(s) ==
    LET digits == SkipPrefix(s) IN
    IF Len(digits) % 2 = 1 \/ \E i \in DOMAIN digits : digits[i] >= X THEN Failed
    ELSE [i \in 1..(Len(digits) \div 2) |-> digits[2 * i - 1] * 16 + digits[2 * i]]

(* slice() and power_slice(): a negative offset or size counts from the    *)
(* end.                                                                    *)
Slice(b, offset, size) ==
    IF offset > Len(b) \/ offset + size > Len(b) THEN Failed
    ELSE SubSeq(b, offset + 1, offset + size)

PowerSlice(b, offset, size) ==
    LET from == IF offset < 0 THEN offset + Len(b) ELSE offset
        n == IF size < 0 THEN size + Len(b) ELSE size
    IN IF from < 0 \/ n < 0 THEN Failed ELSE Slice(b, from, n)
-----------------------------------------------------------------------------
(* EthereumAddress::from_string(): the length is looked at before the      *)
(* prefix is skipped, here and once more in DecodeHex, and again after.    *)
(* AddressSize is 20 bytes in the code.                                    *)
AddressOf(s, AddressSize) ==
    IF Len(s) < 2 * AddressSize THEN Failed
    ELSE LET b == DecodeHex(SkipPrefix(s)) IN
         IF Len(b) = AddressSize THEN b ELSE Failed

AddressString(b) == <<0, X>> \o EncodeHex(b)
=============================================================================
