--------------------------- MODULE PropertyValue ---------------------------
(***************************************************************************)
(* The variable behind one name of a Properties object, as the code that   *)
(* owns it reads it (PropertyT and FunctionalPropertyT of                  *)
(* multy_core/src/api/properties_impl.h).  Which names exist and which     *)
(* variables they lead to is the module PropertySet.                       *)
(***************************************************************************)
EXTENDS Integers

Never(initial) == [isSet |-> FALSE, value |-> initial]

(* A value that the predicate or the writer accepted. *)
Given(v) == [isSet |-> TRUE, value |-> v]

(* reset_value() clears the flag: the variable keeps its last value. *)
Forgotten(p) == [p EXCEPT !.isSet = FALSE]

(* throw_if_unset(): reading throws only if the property is REQUIRED. *)
Readable(p, trait) == p.isSet \/ trait # "REQUIRED"

(* get_value_or_default() does look at the flag. *)
ValueOr(p, default) == IF p.isSet THEN p.value ELSE default

PropertyOf(Values) == [isSet: BOOLEAN, value: Values]

(* property_predicates.h: verify_bigger_than<T, L> refuses what is less    *)
(* than L, and accepts L itself.                                           *)
VerifyBiggerThan(v, L) == ~(v < L)
=============================================================================
