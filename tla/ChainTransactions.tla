------------------------- MODULE ChainTransactions -------------------------
(***************************************************************************)
(* A transaction of EOS or of Golos under the calls of a wallet, and what  *)
(* the node it is sent to must find in it.                                 *)
(***************************************************************************)
EXTENDS EosTransaction, GolosTransaction

(* Both write as many bits of the number of a block.                       *)
ASSUME HalvesAssumption == HashBits = HalfBits

Next == Edit \/ EosUpdate \/ EosSerialize \/ GolosUpdate \/ GolosSerialize

Spec == Init /\ [][Next]_vars
-----------------------------------------------------------------------------
NumberOf(digits) == LET value[i \in 0..Len(digits)] == IF i = 0 THEN 0 ELSE value[i - 1] * 10 + digits[i]
                    IN value[Len(digits)]
AmountIn(op) == IF chain = "EOS" THEN op.amount
                ELSE NumberOf(op.amount.whole) * 1000 + NumberOf(op.amount.fraction)

NumberIn(field) == IF chain = "EOS" THEN field ELSE field.digits

(* The characters that the amount and the memo share in the text of Golos. *)
Capacity == BufferSize - 1 - (FrameHead + OperationHead + OperationTail + FrameTail)

(* What is sent is one transfer of the amount, between the accounts, with  *)
(* the message and the block, that were given last, whatever calls failed  *)
(* before: nothing of an earlier update() is left in it.  The amount is    *)
(* what get_total_spent() answers.  Golos sends the message as far as its  *)
(* first NUL, and a text without its end exactly if the amount and the     *)
(* message do not fit both buffers: a transfer that was cut never looks    *)
(* like the whole of a shorter one, and has nothing that was not given.    *)
SentIsTheTransfer ==
    sent.made =>
        LET ops == sent.content.operations
            memo == IF chain = "EOS" THEN message.length ELSE message.text
            fits == chain = "EOS" \/ AmountLength(destination.amount.value) + memo <= Capacity
        IN
        /\ source.address.isSet /\ destination.address.isSet
        /\ chain = "Golos" => (sent.ends <=> fits)
        /\ fits => Len(ops) = 1 /\ ops[1].memo = memo
        /\ Len(ops) <= 1
        /\ \A i \in DOMAIN ops :
             /\ ops[i].from = source.address.value
             /\ ops[i].to = destination.address.value
             /\ AmountIn(ops[i]) = destination.amount.value
             /\ AmountIn(ops[i]) \in IF chain = "EOS" THEN EosTotalSpent ELSE GolosTotalSpent
             /\ ops[i].memo <= memo
        /\ blockNum.isSet /\ (NumberIn(sent.content.blockNum) - blockNum.value) % 2^HalfBits = 0
        /\ blockRef.isSet /\ NumberIn(sent.content.blockRef) = blockRef.value

(* The instant that a time string denotes where the wallet runs.           *)
Instant(t) == IF t.zulu THEN t.fields ELSE t.fields - Offset

(* A transaction expires when the caller said: at the time given, which    *)
(* the zone of the device does not move (EOS adds its margin), or, for     *)
(* Golos alone, that many seconds after the moment it was written.         *)
SentExpiresAsAsked ==
    sent.made =>
        IF expiration.isSet
        THEN sent.content.expires = Instant(expiration.value) + (IF chain = "EOS" THEN ConfirmTime ELSE 0)
        ELSE chain = "Golos" => sent.content.expires = sent.at + duration.value
                                /\ sent.content.expires >= sent.at + MinDuration

(* The signature of an EOS transaction covers the fields it is sent with,  *)
(* not those of an update() before the last modification, and names the    *)
(* chain.  Once update() succeeded serialize() does too.                   *)
SignatureIsOfWhatIsSent ==
    chain = "EOS" =>
        /\ sent.made => sent.signature = [made |-> TRUE, chainId |-> ChainId, of |-> sent.content]
        /\ status = "ok" => IsEosWritable(Actions) /\ signature.of = EosContent(Actions)

(* A message that set_message() accepts - "Max message size is 255 bytes"  *)
(* - is in the transaction with the length of its data.                    *)
DataLengthIsWritten ==
    sent.made /\ chain = "EOS" =>
        \A i \in DOMAIN sent.content.operations :
            LET op == sent.content.operations[i] IN op.dataLength = DataHead + op.memo
=============================================================================
