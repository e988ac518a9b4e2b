------------------------- MODULE BigIntConversions -------------------------
(***************************************************************************)
(* BigInt (multy_core/src/api/big_int_impl.cpp): an integer of any size,   *)
(* and its conversions to and from machine integers of Width bits, which   *)
(* is 64 in the code, and bytes.                                           *)
(*                                                                         *)
(* The definitions named Wrong... are mistakes this code could have made:  *)
(* the properties are checked to notice each of them.                      *)
(***************************************************************************)
EXTENDS Integers, Sequences

CONSTANT Width

ASSUME WidthAssumption == Width \in Nat /\ Width > 1

Abs(n) == IF n < 0 THEN -n ELSE n

(* The power of two, as a function that can be reasoned about. *)
Exp2[k \in Nat] == IF k = 0 THEN 1 ELSE 2 * Exp2[k - 1]

(* The value of a machine integer after an overflow. *)
Wrap(n) == ((n + Exp2[Width - 1]) % Exp2[Width]) - Exp2[Width - 1]

(* mpz_sizeinbase(n, 2): of the absolute value, 1 for zero. *)
Bits(n) == CHOOSE k \in 1..(2 * Width) : Abs(n) < Exp2[k] /\ (k = 1 \/ Abs(n) >= Exp2[k - 1])

(* signed_import(): std::abs() of the least integer is itself, and its     *)
(* bytes are read as those of an unsigned one.                             *)
SignedImport(v) == IF v < 0 THEN -(Wrap(Abs(v)) % Exp2[Width]) ELSE v

WrongIsRepresentable(n) == Bits(n) <= Width
IsRepresentable(n) == Bits(n) < Width

(* What a call returns is a set here, empty if the call throws.  The least *)
(* machine integer is refused although it would fit.                       *)
GetInt(n) == IF IsRepresentable(n) THEN {Wrap(n)} ELSE {}
GetUint(n) == IF n < 0 \/ Bits(n) > Width THEN {} ELSE {n % Exp2[Width]}

Sign(n) == IF n < 0 THEN -1 ELSE IF n > 0 THEN 1 ELSE 0

(* mpz_cmp() *)
CompareBig(n, m) == Sign(n - m)

(* The quotient of two machine integers, rounded towards zero. *)
Truncated(a, b) == Sign(a) * Sign(b) * (Abs(a) \div Abs(b))

(* compare(const int64_t&): the difference may overflow before its sign is *)
(* taken.                                                                  *)
CompareInt(n, v) ==
    IF IsRepresentable(n)
    THEN LET diff == Wrap(n - v) IN
         IF diff = 0 THEN 0 ELSE Truncated(diff, Wrap(Abs(diff)))
    ELSE CompareBig(n, SignedImport(v))

(* operator/=() *)
Divide(n, m) == IF m = 0 THEN {} ELSE {Truncated(n, m)}
-----------------------------------------------------------------------------
(* get_bytes_len() and the bytes of a number, the most significant first.  *)
BytesOf[n \in Nat] == IF n = 0 THEN <<>> ELSE Append(BytesOf[n \div 256], n % 256)

(* export_as_binary_data(): without the sign, one byte for zero. *)
Export(n) == IF n = 0 THEN <<0>> ELSE BytesOf[Abs(n)]

(* set_value_as_binary_data() *)
Import(b) == LET value[i \in 0..Len(b)] == IF i = 0 THEN 0 ELSE value[i - 1] * 256 + b[i]
             IN value[Len(b)]
=============================================================================
