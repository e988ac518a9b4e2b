---------------------------- MODULE RlpEncoding ----------------------------
(***************************************************************************)
(* How an Ethereum transaction is written: RLP, as the stream operators of *)
(* multy_core/src/ethereum/ethereum_transaction.cpp do it, and the words   *)
(* of a contract call (ethereum_stream.cpp).  Data is a sequence of bytes, *)
(* a number its bytes from the most significant one, zero having none.     *)
(*                                                                         *)
(* The definitions named Wrong... are mistakes this code could have made:  *)
(* the properties are checked to notice each of them.                      *)
(***************************************************************************)
EXTENDS BigIntConversions, SequencesExt

(* The constants RLP_..., the last byte values of each range included. *)
MaxLengthBytes == 8
DataStart == 128
ListStart == 192
DataCount == ListStart - DataStart - MaxLengthBytes
DataLong == DataStart + DataCount - 1
ListCount == 256 - ListStart - MaxLengthBytes
ListLong == ListStart + ListCount - 1

(* as_int(): a length in as few bytes as it needs. *)
LongHeader(start, n) == <<start + Len(BytesOf[n])>> \o BytesOf[n]

(* write_int(): a number of 56 to 127 bytes still gets the short header. *)
WriteNumber(b) ==
    IF b = <<>> THEN <<DataStart>>
    ELSE IF Len(b) = 1 /\ b[1] < DataStart THEN b
    ELSE IF Len(b) < DataStart THEN <<DataStart + Len(b)>> \o b
    ELSE LongHeader(DataLong, Len(b)) \o b

WrongWriteData(d) ==
    IF Len(d) = 1 /\ d[1] < DataStart THEN d
    ELSE IF Len(d) <= DataCount THEN <<DataStart + Len(d)>> \o d
    ELSE LongHeader(DataLong, Len(d)) \o d

(* operator<<(EthereumDataStream&, const BinaryData&) *)
WriteData(d) ==
    IF Len(d) = 1 /\ d[1] < DataStart THEN d
    ELSE IF Len(d) < DataCount THEN <<DataStart + Len(d)>> \o d
    ELSE LongHeader(DataLong, Len(d)) \o d

(* operator<<(EthereumDataStream&, const EthereumDataStreamList&): the list *)
(* has collected what its items wrote.                                     *)
WriteList(content) ==
    IF Len(content) < ListCount THEN <<ListStart + Len(content)>> \o content
    ELSE LongHeader(ListLong, Len(content)) \o content

(* skip_leading_zeroes() tests the pointer, not the byte it leads to: a    *)
(* pointer that is not null skips nothing.                                 *)
SkipLeadingZeroes(d) == d

(* The fields in the order of serialize_to_stream(); a field is a number,  *)
(* data, or half of a signature, which is written as data but is a number. *)
WriteField(f) == IF f.kind = "number" THEN WriteNumber(f.bytes) ELSE WriteData(f.bytes)
WriteFields(fields) == WriteList(FlattenSeq([i \in DOMAIN fields |-> WriteField(fields[i])]))

(* EthereumTransactionSignature::write_to_stream(): the recovery id with   *)
(* its offset, and the two halves of the signature.                        *)
SignatureFields(v, r, s) ==
    <<[kind |-> "number", bytes |-> BytesOf[v]],
      [kind |-> "half", bytes |-> SkipLeadingZeroes(r)],
      [kind |-> "half", bytes |-> SkipLeadingZeroes(s)]>>
-----------------------------------------------------------------------------
(* An argument of a contract call: EthereumPayloadAsUint256Stream pads it  *)
(* to a word.  WordSize is 32 in the code.                                 *)
WriteWord(b, WordSize) == [i \in 1..(WordSize - Len(b)) |-> 0] \o b
IsWord(b, WordSize) == Len(b) <= WordSize
-----------------------------------------------------------------------------
(* The format: what a node reads back, which takes every item in its one   *)
(* canonical form.  A reader returns the bytes of the first item and the   *)
(* rest; <<-1>> are no bytes and no rest.                                  *)
Refused == [bytes |-> <<-1>>, rest |-> <<-1>>]

ItemAt(s, from, n) ==
    IF from - 1 + n <= Len(s)
    THEN [bytes |-> SubSeq(s, from, from - 1 + n), rest |-> SubSeq(s, from + n, Len(s))]
    ELSE Refused

(* A long header has a length over 55, without a zero in front.            *)
ReadItem(s, start) ==
    LET h == s[1] - start
        k == h - 55
        n == Import(SubSeq(s, 2, 1 + k))
    IN IF h <= 55 THEN ItemAt(s, 2, h)
       ELSE IF 1 + k <= Len(s) /\ s[2] # 0 /\ n > 55 THEN ItemAt(s, 2 + k, n)
       ELSE Refused

(* A string: a byte below 128 has no header, and from 192 on are lists.    *)
ReadField(s) ==
    IF s[1] < 128 THEN [bytes |-> <<s[1]>>, rest |-> Tail(s)]
    ELSE IF s[1] >= 192 THEN Refused
    ELSE LET item == ReadItem(s, 128)
         IN  IF Len(item.bytes) = 1 /\ item.bytes[1] < 128 THEN Refused ELSE item

(* Numbers, the halves of a signature too, are read without zeros in front.*)
IsScalar(b) == b = <<>> \/ b[1] # 0

(* What follows a field that must be this one.                             *)
AfterField(s, f) ==
    IF s = <<>> \/ s[1] = -1 THEN <<-1>>
    ELSE LET item == ReadField(s)
         IN  IF item.bytes = f.bytes /\ (f.kind # "data" => IsScalar(item.bytes))
             THEN item.rest ELSE <<-1>>

(* The fields of a list, read until nothing is left. *)
Reads(s, fields) ==
    LET list == ReadItem(s, 192)
        left[i \in 0..Len(fields)] ==
            IF i = 0 THEN list.bytes ELSE AfterField(left[i - 1], fields[i])
    IN s[1] >= 192 /\ list.rest = <<>> /\ left[Len(fields)] = <<>>
=============================================================================
