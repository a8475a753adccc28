\* An event is verified again while its first poll is open.
SPECIFICATION Spec
CONSTANTS
    v1 = v1
    v2 = v2
    e1 = e1
    e2 = e2
    e3 = e3
    c1 = c1
    c2 = c2
    Verifiers = {v1, v2}
    Events = {e1, e2, e3}
    SourceChain <- MCSourceChain
    Weight <- MCWeight
    SetWeight <- MCSetWeight
    Thresholds <- Majority
    BlockExpiry = 1
    ActiveSets <- MCActiveSets
    MaxBatch = 2
    MaxPolls = 2
    U64Max = 2
INVARIANTS
    EventExistsWhenVoteIsCast
