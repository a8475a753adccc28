SPECIFICATION MCSpec
CONSTANTS
    p1 = p1
    c1 = c1
    Verifiers = {v1, v2}
    Chains = {c1}
    NoValue = NoValue
    Services <- MCServices
    Overrides = {}
    Bonds = {1}
    MaxUpdate = 0
    MaxStake = 1
    MaxTime = 0
    NoLimit = NoLimit
    Keep = Keep
    Provers = {p1}
    Gateways = {g1}
    VotingVerifiers = {w1}
    Deployments = {}
    ChainOf <- OneChainOf
    VerifierSetDiff = 0
    SigningThresholds <- TwoThirds
    GovernanceConfirms = FALSE
    MaxKeys = 2
    MaxHeight = 2
    MaxSessions = 3
SYMMETRY VerifierSymmetry
INVARIANTS
    CurrentSetRegistered
    PendingSignedByCurrent
    GatewayFollowsProver
