CONSTANTS
    a1 = a1
    own = own
    nobody = nobody
    k1 = k1
    k2 = k2
    Nonces <- MCNonces
    GasPrices = {1}
    GasLimits = {2, 3}
    Balances = {3}
    Payments <- MCPayments
    Addresses = {a1, own}
    Payloads <- MCPayloads
    Keys = {k1, k2}
    NoAddress = nobody
    ChainId = 1
    Kinds = {"basic", "ERC20/transfer", "ERC20/transfer_from", "ERC20/approve", "ERC721/transfer", "ERC721/transfer_from", "ERC721/approve", "multisig/new_wallet", "multisig/new_request", "multisig/request"}
    Amounts <- MCAmounts
    WordLimit = 3
    MaxOwners = 2
    Parties = {a1, own}
    OwnAddress = own
SPECIFICATION BuilderSpec
INVARIANTS BuilderTypeOK SentIsCovered SentIsSigned SentIsAsShown MadeAsAsked TokensAreOwned
