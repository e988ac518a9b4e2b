---------------------------- MODULE ApiFunctions ----------------------------
(***************************************************************************)
(* The functions of the C API (multy_core/src/api).  Each looks at its     *)
(* arguments in an order, catches what its body throws and gives that      *)
(* error its scope, and looks at its output.  A function is                *)
(*   on     the kind of the object it is called on, if any;                *)
(*   checks what it looks at before anything else, in order;               *)
(*   scope  the scope of its errors;                                       *)
(*   gives  what the caller has to free afterwards, if anything: a "value" *)
(*          is a key, a number, a string or bytes, a copy that refers to   *)
(*          nothing; "part" belongs to the object the function is on.      *)
(* A pointer that may be null (action, password) is not among the checks.  *)
(***************************************************************************)

F(name, on, checks, scope, gives) ==
    [name |-> name, on |-> on, checks |-> checks, scope |-> scope, gives |-> gives]

AccountFunctions ==
    {F("make_hd_account", "none", <<"master_key", "index", "new_account">>, "ACCOUNT", "value"),
     F("make_hd_leaf_account", "value", <<"base_account", "address_type", "index", "new_account">>, "ACCOUNT", "account"),
     F("make_account", "none", <<"serialized_private_key", "new_account">>, "ACCOUNT", "account"),
     F("account_get_key", "account", <<"account", "key_type", "out_key">>, "ACCOUNT", "value"),
     F("account_change_private_key", "account", <<"account">>, "ACCOUNT", "nothing")}
    \cup {F(f, "account", <<"account", "out">>, "ACCOUNT", "value") :
            f \in {"account_get_address_string", "account_get_address_path"}}
    \cup {F("account_get_blockchain_type", "account", <<"account", "out">>, "ACCOUNT", "nothing")}

BuilderFunctions ==
    {F("make_transaction_builder", "account", <<"account", "new_transaction_builder">>, "TRANSACTION_BUILDER", "builder"),
     F("transaction_builder_get_properties", "builder", <<"transaction_builder", "out">>, "TRANSACTION_BUILDER", "part"),
     F("transaction_builder_make_transaction", "builder", <<"transaction_builder", "new_transaction">>, "TRANSACTION_BUILDER", "transaction")}

TransactionFunctions ==
    {F("make_transaction", "account", <<"account", "new_transaction">>, "TRANSACTION", "transaction"),
     F("transaction_get_blockchain_type", "transaction", <<"transaction", "out">>, "TRANSACTION", "nothing"),
     F("transaction_set_message", "transaction", <<"transaction", "message", "message_bytes">>, "TRANSACTION", "nothing")}
    \cup {F(f, "transaction", <<"transaction", "out">>, "TRANSACTION", "part") :
            f \in {"transaction_add_source", "transaction_add_destination", "transaction_get_fee"}}

ResultFunctions ==
    {F("transaction_estimate_total_fee", "transaction", <<"transaction", "out", "sources_count", "destinations_count">>, "TRANSACTION", "value"),
     F("transaction_get_properties", "transaction", <<"transaction", "out">>, "TRANSACTION", "part"),
     F("transaction_update", "transaction", <<"transaction">>, "TRANSACTION", "nothing")}
    \cup {F(f, "transaction", <<"transaction", "out">>, "TRANSACTION", "value") :
            f \in {"transaction_get_total_fee", "transaction_get_total_spent", "transaction_serialize", "transaction_serialize_encoded"}}

(* Properties belong to a transaction or a builder: on is its kind. *)
PropertiesFunctions ==
    {F(f, "part", <<"properties", "name", "value">>, "GENERIC", "nothing") :
            f \in {"properties_set_string_value", "properties_set_big_int_value", "properties_set_binary_data_value", "properties_set_private_key_value"}}
    \cup {F(f, "part", <<"properties", "name">>, "GENERIC", "nothing") :
            f \in {"properties_set_int32_value", "properties_reset_value"}}
    \cup {F("properties_validate", "part", <<"properties">>, "GENERIC", "nothing"),
        F("properties_get_specification", "part", <<"properties", "out_specification">>, "GENERIC", "value")}

BigIntFunctions ==
    {F("make_big_int", "none", <<"value", "new_big_int">>, "BIG_INT", "value"),
     F("make_big_int_clone", "value", <<"original", "new_big_int">>, "BIG_INT", "value"),
     F("make_big_int_from_int64", "none", <<"new_big_int">>, "BIG_INT", "value"),
     F("big_int_get_value", "value", <<"big_int", "out">>, "BIG_INT", "value"),
     F("big_int_set_value", "value", <<"big_int", "value">>, "BIG_INT", "nothing"),
     F("big_int_get_int64_value", "value", <<"big_int", "out">>, "BIG_INT", "nothing"),
     F("big_int_set_int64_value", "value", <<"big_int">>, "BIG_INT", "nothing")}

ArithmeticFunctions ==
    {F("big_int_cmp", "value", <<"left", "right", "out_result">>, "BIG_INT", "nothing")}
    \cup {F(f, "value", <<"target", "value">>, "BIG_INT", "nothing") :
            f \in {"big_int_add", "big_int_sub", "big_int_mul", "big_int_div"}}
    \cup {F(f, "value", <<"target">>, "BIG_INT", "nothing") :
            f \in {"big_int_add_int64", "big_int_sub_int64", "big_int_mul_int64", "big_int_div_int64",
               "big_int_add_double", "big_int_sub_double", "big_int_mul_double", "big_int_div_double"}}
    \cup {F(f, "value", <<"left", "out_result">>, "BIG_INT", "nothing") :
            f \in {"big_int_cmp_int64", "big_int_cmp_double"}}

KeyFunctions ==
    {F("make_master_key", "none", <<"seed", "out">>, "KEY", "value"),
     F("sign_with_key", "value", <<"key", "data", "new_signature">>, "KEY", "value")}
    \cup {F(f, "value", <<"key", "out">>, "KEY", "value") :
            f \in {"make_user_id_from_master_key", "make_child_key", "extended_key_to_string", "key_to_string"}}

MnemonicFunctions ==
    {F("make_mnemonic", "none", <<"fill_entropy", "mnemonic">>, "MNEMONIC", "value"),
     F("make_seed", "none", <<"mnemonic", "seed">>, "MNEMONIC", "value"),
     F("seed_to_string", "value", <<"seed", "seed_bytes", "str">>, "MNEMONIC", "value"),
     F("mnemonic_get_dictionary", "none", <<"new_dictionary">>, "MNEMONIC", "value")}

(* make_binary_data_clone() hands its argument's bytes to                  *)
(* make_binary_data_from_bytes(), where none is refused if there should be *)
(* some.                                                                   *)
BinaryDataFunctions ==
    {F("make_binary_data", "none", <<"out">>, "GENERIC", "value"),
     F("make_binary_data_clone", "value", <<"source", "source_bytes", "out">>, "GENERIC", "value"),
     F("make_binary_data_from_bytes", "none", <<"data_unless_empty", "out">>, "GENERIC", "value"),
     F("make_binary_data_from_hex", "none", <<"hex_str", "out">>, "GENERIC", "value")}

Sha3Functions ==
    {F("sha3", "value", <<"input", "input_bytes", "output", "output_size">>, "GENERIC", "nothing")}

EthereumFunctions ==
    {F("ethereum_personal_sign", "none", <<"serialized_private_key", "hex_encoded_message", "signature">>, "ACCOUNT", "value")}

(* An unknown chain is an error of scope API, the rest has its own. *)
BlockchainFunctions == {F("validate_address", "none", <<"address">>, "GENERIC", "nothing")}

CommonFunctions ==
    {F("get_version", "none", <<"version">>, "GENERIC", "nothing"),
     F("make_version_string", "none", <<"out">>, "GENERIC", "value")}

Functions == AccountFunctions \cup BuilderFunctions \cup TransactionFunctions \cup ResultFunctions
             \cup PropertiesFunctions \cup BigIntFunctions \cup ArithmeticFunctions \cup KeyFunctions \cup MnemonicFunctions
             \cup BinaryDataFunctions \cup Sha3Functions \cup EthereumFunctions \cup BlockchainFunctions \cup CommonFunctions
=============================================================================
