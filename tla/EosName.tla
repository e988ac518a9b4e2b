------------------------------ MODULE EosName ------------------------------
(***************************************************************************)
(* The name of an EOS account (multy_core/src/eos/eos_name.cpp): up to 12  *)
(* symbols, five bits each, from the top of 64 bits.  A name is a sequence *)
(* of character codes, its data the sequence of the twelve groups of bits. *)
(*                                                                         *)
(* The definitions named Wrong... are mistakes this code could have made:  *)
(* the properties are checked to notice each of them.                      *)
(***************************************************************************)
EXTENDS Integers, Sequences, SequencesExt

MaxSize == 12    \* EOS_ADDRESS_MAX_SIZE
Dot == 46        \* '.'

WrongEncodeSymbol(c) ==
    CASE c = Dot -> 0
      [] c \in 97..122 -> c - 97 + 6
      [] OTHER -> c - 49 + 1

(* encode_symbol(): '.', '1' to '5', 'a' to 'z'; nothing else. *)
EncodeSymbol(c) ==
    CASE c = Dot -> 0
      [] c \in 97..122 -> c - 97 + 6
      [] c \in 49..53 -> c - 49 + 1
      [] OTHER -> -1

(* name_string_to_uint64(), or the exception it throws. *)
IsAccepted(name) == Len(name) <= MaxSize /\ \A i \in DOMAIN name : EncodeSymbol(name[i]) # -1

EncodeName(name) ==
    [i \in 1..MaxSize |-> IF i \in DOMAIN name THEN EncodeSymbol(name[i]) % 32 ELSE 0]

(* EosFacade::validate_address() *)
IsAddress(name) == name # <<>> /\ IsAccepted(name)

(* What a node makes of the data: the symbols, without the dots at the end. *)
Symbols == <<46, 49, 50, 51, 52, 53>> \o [i \in 1..26 |-> 96 + i]
Stripped(name) ==
    LET used == {i \in DOMAIN name : name[i] # Dot} IN
    SubSeq(name, 1, CHOOSE n \in 0..Len(name) :
                        (n = 0 \/ n \in used) /\ \A i \in used : i <= n)
DecodeName(data) == Stripped([i \in 1..MaxSize |-> Symbols[data[i] + 1]])
=============================================================================
