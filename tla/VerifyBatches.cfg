\* Batches: repeated, pending and foreign messages in one call.
SPECIFICATION Spec
CONSTANTS
    v1 = v1
    v2 = v2
    v3 = v3
    Verifiers = {v1, v2}
    Messages = {m1, m2}
    ForeignMessages = {f}
    VerifierSets = {}
    Weight <- MCWeight
    SetWeight <- MCSetWeight
    Thresholds <- Majority
    BlockExpiries = {1}
    ActiveSets <- AllVerifiers
    MaxBatch = 2
    MaxPolls = 2
    U64Max = 2
SYMMETRY MessageSymmetry
INVARIANTS
    TypeOK
    PollsWellFormed
    ContentsMatchItems
    QuorumAnnouncedOnce
    RewardedAgreed
