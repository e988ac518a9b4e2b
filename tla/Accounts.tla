------------------------------ MODULE Accounts ------------------------------
(***************************************************************************)
(* Accounts of the four chains: how a path or a string becomes an account  *)
(* and an account an address (account_base.cpp, hd_path.cpp and the        *)
(* account files of each chain).  Derivation is external: a key in the     *)
(* tree is known by its path.                                              *)
(*                                                                         *)
(* The definitions named Wrong... are mistakes this code could have made:  *)
(* the properties are checked to notice each of them.                      *)
(***************************************************************************)
EXTENDS Keys, TLC

AccountChains == {"bitcoin", "ethereum", "eos", "golos"}
Nets(chain) == IF chain = "ethereum" THEN {"main", "morden", "ropsten", "kovan"} ELSE {"main", "test"}
Types(chain) == IF chain = "bitcoin" THEN {"default", "segwit"} ELSE {"default"}

(* get_chain_index() of each chain; all test nets share one.  Morden is    *)
(* not among those of Ethereum, nor is the chain before EIP-155.           *)
IsTestnet(chain, net) == net \in (IF chain = "ethereum" THEN {"ropsten", "kovan"} ELSE {"test"})
ChainIndex(chain, net) ==
    IF IsTestnet(chain, net) THEN 1
    ELSE CASE chain = "bitcoin" -> 0
           [] chain = "ethereum" -> 60
           [] chain = "eos" -> 194
           [] chain = "golos" -> 393477

Hardened(i) == [hardened |-> TRUE, index |-> i]
Normal(i) == [hardened |-> FALSE, index |-> i]
Child(path, i) == Append(path, i)

(* HDAccountBase: m / 44' / chain' / account' *)
AccountPath(chain, net, index) ==
    Child(Child(Child(<<>>, Hardened(44)), Hardened(ChainIndex(chain, net))), Hardened(index))

WrongLeafPath(base, type, index) == Child(base, Normal(index))

(* make_leaf_account() and make_account() of each chain: external change   *)
(* or internal, and the index.                                             *)
LeafPath(base, type, index) == Child(Child(base, Normal(type)), Normal(index))

(* make_user_id_from_master_key(), refused for any other key. *)
UserIdPath(path) == IF path = <<>> THEN {Child(path, Hardened(1297435732))} ELSE {}
-----------------------------------------------------------------------------
Account(chain, net, type, key, compressed, path) ==
    [chain |-> chain, net |-> net, type |-> type, key |-> key, compressed |-> compressed, path |-> path]
NoAccount == [key |-> NoKey]

(* A leaf takes the bytes of an extended key without the first.            *)
BitcoinLeaf(net, type, extended, path) ==
    Account("bitcoin", net, type, Slice(extended, 1, Len(extended) - 1), TRUE, path)
EthereumLeaf(net, extended, path) ==
    Account("ethereum", net, "default", PowerSlice(extended, 1, -1), FALSE, path)
EosLeaf(net, extended, path) ==
    Account("eos", net, "default", Slice(extended, 1, Len(extended) - 1), TRUE, path)
GolosLeaf(net, extended, path) ==
    Account("golos", net, "default", Slice(extended, 1, Len(extended) - 1), TRUE, path)
Leaf(chain, net, type, extended, path) ==
    CASE chain = "bitcoin" -> BitcoinLeaf(net, type, extended, path)
      [] chain = "ethereum" -> EthereumLeaf(net, extended, path)
      [] chain = "eos" -> EosLeaf(net, extended, path)
      [] chain = "golos" -> GolosLeaf(net, extended, path)

(* make_account() of the facades.  Of these keys only Bitcoin's tell a net.*)
BitcoinImport(net, type, s) ==
    LET k == BitcoinKeyFrom(s) IN
    IF k.key = NoKey \/ k.net # net THEN NoAccount
    ELSE Account("bitcoin", k.net, type, k.key, k.compressed, <<>>)
AccountFrom(chain, net, type, s) ==
    CASE chain = "bitcoin" -> BitcoinImport(net, type, s)
      [] chain = "ethereum" -> Account("ethereum", net, "default", EthereumKeyFrom(s), FALSE, <<>>)
      [] chain = "eos" -> Account("eos", net, "default", EosKeyFrom(s), TRUE, <<>>)
      [] chain = "golos" -> Account("golos", net, "default", GolosKeyFrom(s), TRUE, <<>>)

(* PrivateKey::to_string() of what get_private_key() gives. *)
ExportedKey(a) ==
    CASE a.chain = "bitcoin" -> BitcoinKeyString(a.key, a.net, a.compressed)
      [] a.chain = "ethereum" -> EthereumKeyString(a.key)
      [] a.chain = "eos" -> EosKeyString(a.key)
      [] a.chain = "golos" -> GolosKeyString(a.key)
PublicKey(a) ==
    CASE a.chain = "bitcoin" -> BitcoinPublicKey(a.key, a.compressed)
      [] a.chain = "ethereum" -> EthereumPublicKey(a.key)
      [] a.chain = "eos" -> EosPublicKey(a.key)
      [] a.chain = "golos" -> GolosPublicKey(a.key)
-----------------------------------------------------------------------------
(* ADDRESS_PREFIXES, and bitcoin_parse_address() with the checks of        *)
(* BitcoinFacade::validate_address().                                      *)
AddressPrefixes == [main |-> [P2PKH |-> 0, P2SH |-> 5], test |-> [P2PKH |-> 111, P2SH |-> 196]]

ParsedAddress(a) ==
    LET known == {p \in [net: {"main", "test"}, type: {"P2PKH", "P2SH"}] :
                    AddressPrefixes[p.net][p.type] = a.version}
    IN IF known = {} THEN [net |-> "none"] ELSE CHOOSE p \in known : TRUE

(* get_address() of each: a version and a hash, of the public key or of a  *)
(* script with its hash.  EOS and Golos have none.                         *)
PublicKeyHashAddress(a) ==
    [version |-> AddressPrefixes[a.net]["P2PKH"], hash |-> <<"hash160", PublicKey(a)>>]
WitnessAddress(a) ==
    [version |-> AddressPrefixes[a.net]["P2SH"],
     hash |-> <<"hash160", [witness |-> 0, program |-> <<"hash160", PublicKey(a)>>]>>]
EthereumAddress(a) == [version |-> -1, hash |-> <<"keccak, last 20 bytes", PublicKey(a)>>]
Addresses(a) ==
    CASE a.chain = "ethereum" -> {EthereumAddress(a)}
      [] a.chain = "bitcoin" /\ a.type = "segwit" -> {WitnessAddress(a)}
      [] a.chain = "bitcoin" /\ a.type = "default" -> {PublicKeyHashAddress(a)}
      [] OTHER -> {}

(* GolosFacade::validate_address(): 3 to 16 of a to z and 0 to 9, a letter *)
(* first.  A name is a sequence of character codes.                        *)
IsGolosAddress(name) ==
    /\ Len(name) \in 3..16
    /\ name[1] \in 97..122
    /\ \A i \in DOMAIN name : name[i] \in 97..122 \cup 48..57

(* BitcoinFacade::make_transaction(): what an account pays from. *)
AddressType(type) == IF type = "segwit" THEN "P2SH" ELSE "P2PKH"
=============================================================================
