SPECIFICATION ContractsSpec
CONSTANTS
    NoValue = NoValue
    Verifiers = {v1, v2}
    Chains = {c1, c2}
    Services <- MCServices
    Overrides <- MCOverrides
    Bonds = {1}
    MaxUpdate = 2
    MaxStake = 2
    MaxTime = 1
    NoLimit = NoLimit
    Keep = Keep
    Provers = {p1, p2}
    Gateways = {g1, g2}
    VotingVerifiers = {w1, w2}
    Deployments = {d1, d2}
    PoolIds = {pool1}
    EventIds = {e1, e2}
    Proxies = {x}
    PoolParams <- MCPoolParams
    Donations = {4}
    EpochCounts = {0, 1, 10}
    Treasury = 8
    FirstHeight = 1
    LastHeight = 5
SYMMETRY Symmetry
INVARIANTS
    AuthorizedWithinLimit
    StakesBacked
    DeploymentsRegisteredWhole
    TalliesCountReports
    EpochsPaidOnce
    PoolsBacked
PROPERTIES
    EpochsAdvanceByOne
