SPECIFICATION MCSpec
CONSTANTS
    p1 = p1
    c1 = c1
    Verifiers = {v1, v2}
    Chains = {c1}
    NoValue = NoValue
    Services <- MCServices
    Overrides = {}
    Bonds = {1}
    MaxUpdate = 0
    MaxStake = 1
    MaxTime = 0
    NoLimit = NoLimit
    Keep = Keep
    Provers = {p1, p2}
    Gateways = {g1}
    VotingVerifiers = {w1}
    Deployments = {}
    ChainOf <- OneChainOf
    VerifierSetDiff = 0
    SigningThresholds <- TwoThirds
    GovernanceConfirms = TRUE
    MaxKeys = 1
    MaxHeight = 0
    MaxSessions = 2
SYMMETRY VerifierSymmetry
INVARIANTS
    CoordinatorMirrorsProvers
    SignersStaked
