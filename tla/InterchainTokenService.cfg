SPECIFICATION MCSpec
CONSTANTS
    eth = eth
    sui = sui
    its1 = its1
    its2 = its2
    Axelar = axelar
    Chains = {eth, sui, axelar}
    Addresses = {its1, its2}
    Tokens = {t1}
    TokenAddresses = {a1}
    Decimals = {0, 1}
    Amounts = {2, 25}
    Batches <- MCBatches
    Received <- MCReceived
    Untracked = Untracked
    NoValue = NoValue
    Empty = Empty
    Invalid = Invalid
    U256Bits = 5
    MaxBacking = 30
    MaxChanges = 1
INVARIANTS
    RemoteSupplyBacked
PROPERTIES
    TokensImmutable
CHECK_DEADLOCK FALSE
