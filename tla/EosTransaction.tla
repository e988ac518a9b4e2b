--------------------------- MODULE EosTransaction ---------------------------
(***************************************************************************)
(* update(), sign() and serialize() of an EOS transaction                  *)
(* (multy_core/src/eos/eos_transaction.cpp and                             *)
(* eos_transaction_transfer_action.cpp).  Nothing in the repository calls  *)
(* set_action(): the one builder of EOS returns no transaction, so the     *)
(* action is the transfer.  An amount has any size, a number that is       *)
(* written has the bits of its type.                                       *)
(*                                                                         *)
(* The definitions named Wrong... are mistakes this code could have made:  *)
(* the properties are checked to notice each of them.                      *)
(***************************************************************************)
EXTENDS TransferTransaction

CONSTANTS
    ChainId,
    LongBits, WordBits, HalfBits    \* 64, 32 and 16 in the code

(* The times that are given fit the word they are written in, as those of  *)
(* the years 1970 to 2105 do.                                              *)
ASSUME TimesAssumption ==
    /\ 2^WordBits \in Nat \ {0}
    /\ Times \subseteq [fields: Int, zulu: BOOLEAN]
    /\ \A t \in Times : IsTime(t, Offset) =>
            ParseTime(t, Offset) + ConfirmTime \in 0..(2^WordBits - 1)

(* The predicate of the reference accepts no more than fits a word.        *)
ASSUME BlocksAssumption == 2^HalfBits \in Nat \ {0} /\ \A r \in BlockRefs : r < 2^WordBits

(* operator<<(EosBinaryStream&, ...): a number has the bits of its type.   *)
Cut(n, bits) == n % 2^bits

(* make_data(): two names, the amount, its precision, the token and the    *)
(* length of the memo come before the memo.                                *)
DataHead == 8 + 8 + 8 + 1 + 7 + 1

(* EosTransactionTransferAction, as it is written: both lengths are cut to *)
(* a byte.                                                                 *)
Transfer == [from |-> source.address.value, to |-> destination.address.value,
             amount |-> destination.amount.value, memo |-> message.length,
             memoLength |-> Cut(message.length, 8), dataLength |-> Cut(DataHead + message.length, 8)]

Actions == <<Transfer>>

(* get_total_spent(), or the exception it throws; get_total_fee() is 0.    *)
EosTotalSpent == IF destination.added THEN {destination.amount.value} ELSE {}

(* serialize_to_stream(), with the actions that update() left.             *)
IsEosWritable(actions) ==
    /\ BlockIsKnown
    /\ blockRef.value \in 0..(2^LongBits - 1)
    /\ \A i \in DOMAIN actions : actions[i].amount < 2^LongBits

EosContent(actions) ==
    [expires |-> Cut(expires, WordBits), blockNum |-> Cut(blockNum.value, HalfBits),
     blockRef |-> Cut(blockRef.value, WordBits), operations |-> actions]

WrongEosSignature == [made |-> TRUE, chainId |-> ChainId, of |-> EosContent(operations)]

(* sign(): the chain and the fields; there is no key but that of m_account.*)
EosSignature == [made |-> TRUE, chainId |-> ChainId, of |-> EosContent(Actions)]

(* Those of an earlier update() are gone before the addresses are read.    *)
ActionsLeft == IF MissingPart = "PROPERTY_NOT_SET" THEN <<>> ELSE operations

(* The actions are replaced before anything is written. *)
EosUpdate ==
    /\ chain = "EOS"
    /\ IF MissingPart # "ok"
       THEN status' = MissingPart /\ operations' = ActionsLeft /\ UNCHANGED signature
       ELSE /\ operations' = Actions
            /\ IF IsEosWritable(Actions)
               THEN status' = "ok" /\ signature' = EosSignature
               ELSE status' = "not written" /\ UNCHANGED signature
    /\ UNCHANGED <<chain, parts, expires, sent, clock>>

(* serialize(), and encode_serialized(), which adds the signature: both    *)
(* update() first.                                                         *)
EosSerialize ==
    /\ chain = "EOS"
    /\ IF MissingPart # "ok"
       THEN status' = MissingPart /\ operations' = ActionsLeft /\ UNCHANGED <<signature, sent>>
       ELSE /\ operations' = Actions
            /\ IF IsEosWritable(Actions)
               THEN /\ status' = "ok" /\ signature' = EosSignature
                    /\ sent' = [made |-> TRUE, content |-> EosContent(Actions),
                                signature |-> EosSignature, at |-> clock]
               ELSE status' = "not written" /\ UNCHANGED <<signature, sent>>
    /\ UNCHANGED <<chain, parts, expires, clock>>
=============================================================================
