------------------------------ MODULE Facades ------------------------------
(***************************************************************************)
(* What the facade of each blockchain does of what the API asks of all of  *)
(* them (multy_core/src/blockchain_facade_base.cpp and *_facade.cpp): the  *)
(* kinds of accounts it makes, the builders it has, and the functions that *)
(* always throw for it.                                                    *)
(***************************************************************************)
EXTENDS TLC

(* The registry has these; each is built in or left out, Bitcoin and       *)
(* Ethereum never.  A facade is made the first time it is asked for.       *)
Blockchains == {"Bitcoin", "Ethereum", "Golos", "EOS"}

(* BLOCKCHAIN_NAMES: the chains that a JSON request can name. *)
IsNamed(chain) == chain \in {"Bitcoin", "Ethereum", "Golos"}

AccountTypes(chain) == IF chain = "Bitcoin" THEN {"default", "segwit"} ELSE {"default"}

(* make_transaction_builder() has them by number and                       *)
(* make_transaction_builder_by_name() by name; the default of both throws. *)
BuilderTypes(chain) == CASE chain = "Ethereum" -> {"basic", "erc20", "erc721", "multisig"}
                         [] chain = "EOS" -> {"updateauth"}
                         [] OTHER -> {}
BuilderTypesByName(chain) == IF chain = "Ethereum" THEN BuilderTypes("Ethereum") ELSE {}
HasBuilder(chain, way) ==
    (IF way = "number" THEN BuilderTypes(chain) ELSE BuilderTypesByName(chain)) # {}

(* A transaction that signs with the account keeps a reference to it; the  *)
(* others sign with the keys of their sources.                             *)
KeepsAccount(chain) == chain \in {"Ethereum", "EOS"}

(* Functions that always throw for an object of a chain and account type.  *)
NotImplementedBySegWit ==
    {"transaction_set_message", "transaction_estimate_total_fee", "transaction_get_total_spent"}
HasFee(chain) == chain \in {"Bitcoin", "Ethereum"}
HasAddress(chain) == chain \in {"Bitcoin", "Ethereum"}
Unsupported(chain, type) ==
    (IF type = "segwit" THEN NotImplementedBySegWit ELSE {})
    \cup (IF HasFee(chain) THEN {} ELSE {"transaction_get_fee"})
    \cup (IF HasAddress(chain) THEN {} ELSE {"account_get_address_string"})
    \cup (IF chain = "Ethereum" THEN {} ELSE {"account_change_private_key"})
    \cup (IF HasBuilder(chain, "number") THEN {} ELSE {"make_transaction_builder"})
=============================================================================
