SPECIFICATION MCSpec
CONSTANTS
    v1 = v1
    v2 = v2
    e1 = e1
    e2 = e2
    e3 = e3
    c1 = c1
    c2 = c2
    Verifiers = {v1, v2}
    Events = {e1, e2, e3}
    SourceChain <- MCSourceChain
    Weight <- MCWeight
    SetWeight <- MCSetWeight
    Thresholds <- Majority
    BlockExpiry = 1
    ActiveSets <- MCActiveSets
    MaxBatch = 2
    MaxPolls = 2
    U64Max = 2
    a = a
    b = b
    c = c
    full = full
    zero = zero
    k1 = k1
    Signers = {a, b, c}
    VerifierSetIds = {full, zero}
    SignersOf <- MCSignersOf
    ThresholdOf <- MCThresholdOf
    SignerWeight <- MCSignerWeight
    SignersWeight <- MCSignersWeight
    PubKeys = {k1}
    KeyTypeOf <- MCKeyTypeOf
    KeyHolders <- MCKeyHolders
    Provers = {p, q}
    Chains = {x, y}
    BlockExpiries = {1, 2}
    NoValue = NoValue
    MaxSessions = 1
    MaxSigningHeight = 3
    t1 = t1
    t2 = t2
    gw = gw
    other = other
    Txs = {t1, t2}
    Verifier = v1
    Chain = "eth"
    Contract <- MCContract
    GatewayAddress = gw
    Nothing = Nothing
    Body <- MCBody
    Polls <- MCPolls
    Event <- MCEvent
    Logs <- MCLogs
    Outcomes <- MCOutcomes
    ReorgDepth = 1
    MaxHead = 2
    MaxReorgs = 1
    MaxLatest = 1
CHECK_DEADLOCK FALSE
INVARIANTS
    OneEventPerItem
    CompletionMatchesSignatures
    SignaturesRewardedOnce
    OptimizedSignaturesSuffice
    VotesFinal
PROPERTIES
    EventVerificationRefined
    SessionsOnlyAdvance
