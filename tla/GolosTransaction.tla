-------------------------- MODULE GolosTransaction --------------------------
(***************************************************************************)
(* update() and serialize() of a Golos transaction                         *)
(* (multy_core/src/golos/golos_transaction.cpp): the text of an operation  *)
(* within the text of a transaction, each in a buffer that cuts it.  The   *)
(* signature is a constant, as the code has it for now.                    *)
(*                                                                         *)
(* The definitions named Wrong... are mistakes this code could have made:  *)
(* the properties are checked to notice each of them.                      *)
(***************************************************************************)
EXTENDS TransferTransaction

CONSTANTS
    HashBits,                       \* 16, the bits of a block's number that are written
    BufferSize,                     \* 1024
    OperationHead, OperationTail,   \* characters before the amount and the memo, and after them
    FrameHead, FrameTail            \* characters around the operation

ASSUME BufferAssumption ==
    /\ OperationHead \in Nat /\ OperationTail \in Nat /\ FrameTail \in Nat
    /\ FrameHead \in Nat \ {0} /\ BufferSize \in Nat /\ BufferSize > FrameHead

Places == 3                 \* GOLOS_VALUE_DECIMAL_PLACES

(* verify() *)
GolosVerdict ==
    IF ~source.added THEN "NO_SOURCES"
    ELSE IF ~destination.added THEN "NO_DESTINATIONS"
    ELSE IF ~duration.isSet /\ ~expiration.isSet THEN "NO_EXPIRATION"
    ELSE MissingPart

WrongExpires == IF ~duration.isSet THEN expires ELSE clock + duration.value

(* Without an explicit expiration it is computed anew, even by a serialize() *)
(* that follows an update().                                                 *)
Expires == IF expiration.isSet THEN expires ELSE clock + duration.value

(* The amount in decimal with a point before the last places.              *)
DigitsOf[n \in Nat] == IF n < 10 THEN <<n>> ELSE Append(DigitsOf[n \div 10], n % 10)
Zeroes(n) == [i \in 1..n |-> 0]
Padded(digits) ==
    IF Len(digits) <= Places THEN Zeroes(Places - Len(digits) + 1) \o digits ELSE digits
AmountText(n) ==
    LET p == Padded(DigitsOf[n]) IN
    [whole |-> SubSeq(p, 1, Len(p) - Places), fraction |-> SubSeq(p, Len(p) - Places + 1, Len(p))]

AmountLength(n) == LET t == AmountText(n) IN Len(t.whole) + 1 + Len(t.fraction)

(* "%ud" prints a number and the letter d. *)
Decimal(n) == [digits |-> n, then |-> "d"]

WrongOperation == [from |-> source.address.value, to |-> destination.address.value,
                   amount |-> destination.amount.value, memo |-> message.length]

(* The operation; its memo is printed by "%s".                             *)
Operation == [from |-> source.address.value, to |-> destination.address.value,
              amount |-> destination.amount.value, memo |-> message.text]
GolosTotalSpent == IF destination.added THEN {destination.amount.value} ELSE {}

(* snprintf(): the characters of a text that are in the buffer.            *)
Printed(n) == IF n < BufferSize THEN n ELSE BufferSize - 1

(* It returns the length of the whole text: one length throws.             *)
BeforeMemo(op) == OperationHead + AmountLength(op.amount)
Length(op) == BeforeMemo(op) + op.memo + OperationTail
IsFormatted(op) == Length(op) # BufferSize

(* The text of the transaction, what of the operation's is in it, and the  *)
(* operation that can be read there.                                       *)
FrameLength(op) == FrameHead + Printed(Length(op)) + FrameTail
HasItsEnd(op) == FrameLength(op) < BufferSize
Least(m, n) == IF m < n THEN m ELSE n
Kept(op) == Least(Printed(Length(op)), Printed(FrameLength(op)) - FrameHead)
KeptOperations(op) ==
    IF Kept(op) < BeforeMemo(op) THEN <<>>
    ELSE <<[from |-> op.from, to |-> op.to, amount |-> AmountText(op.amount),
            memo |-> Least(op.memo, Kept(op) - BeforeMemo(op))]>>

(* An expiration that is recomputed stays although update() throws later.  *)
GolosUpdate ==
    /\ chain = "Golos"
    /\ status' = GolosVerdict
    /\ IF GolosVerdict \in {"ok", "PROPERTY_NOT_SET"} THEN expires' = Expires ELSE UNCHANGED expires
    /\ IF GolosVerdict = "ok"
       THEN operations' = <<Operation>> /\ signature' = [made |-> TRUE]
       ELSE UNCHANGED <<operations, signature>>
    /\ UNCHANGED <<chain, parts, sent, clock>>

(* The block is asked for after the update. *)
GolosSerialize ==
    /\ chain = "Golos"
    /\ IF GolosVerdict \in {"ok", "PROPERTY_NOT_SET"} THEN expires' = Expires ELSE UNCHANGED expires
    /\ IF GolosVerdict # "ok" THEN status' = GolosVerdict /\ UNCHANGED made
       ELSE /\ operations' = <<Operation>> /\ signature' = [made |-> TRUE]
            /\ IF ~BlockIsKnown \/ ~IsFormatted(Operation)
               THEN status' = "not written" /\ UNCHANGED sent
               ELSE /\ status' = "ok"
                    /\ sent' = [made |-> TRUE, at |-> clock, ends |-> HasItsEnd(Operation),
                                content |-> [blockNum |-> Decimal(blockNum.value % 2^HashBits),
                                             blockRef |-> Decimal(blockRef.value),
                                             expires |-> FormatTime(Expires).fields,
                                             operations |-> KeptOperations(Operation)]]
    /\ UNCHANGED <<chain, parts, clock>>
=============================================================================
