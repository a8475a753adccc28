\* A poll whose messages were verified again in a later poll.
SPECIFICATION Spec
CONSTANTS
    v1 = v1
    v2 = v2
    v3 = v3
    Verifiers = {v1, v2}
    Messages = {m1}
    ForeignMessages = {f}
    VerifierSets = {s1}
    Weight <- MCWeight
    SetWeight <- MCSetWeight
    Thresholds <- Majority
    BlockExpiries = {1}
    ActiveSets <- AllVerifiers
    MaxBatch = 1
    MaxPolls = 2
    U64Max = 2
INVARIANTS
    PollResponseMessages
