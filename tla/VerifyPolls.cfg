\* Single items: changing parameters and participants, re-verification, progress.
SPECIFICATION FairSpec
CONSTANTS
    v1 = v1
    v2 = v2
    v3 = v3
    Verifiers = {v1, v2}
    Messages = {m1}
    ForeignMessages = {f}
    VerifierSets = {s1}
    Weight <- MCWeight
    SetWeight <- MCSetWeight
    Thresholds <- MajorityOrAll
    BlockExpiries = {1, 2}
    ActiveSets <- AllOrOneLess
    MaxBatch = 1
    MaxPolls = 2
    U64Max = 2
INVARIANTS
    TalliesCountVotes
    ConsensusUnique
PROPERTIES
    VerificationRefined
    VerificationTerminates
