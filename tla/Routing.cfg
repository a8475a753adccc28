SPECIFICATION MCSpec
CONSTANTS
    eth = eth
    sol = sol
    osmo = osmo
    g1 = g1
    g2 = g2
    p1 = p1
    Axelar = axelar
    Chains = {eth, sol, axelar}
    NexusChains = {osmo}
    Gateways = {g1, g2}
    axelarnet_gateway = axelarnet_gateway
    NoValue = NoValue
    VerifierChain <- MCVerifierChain
    IncomingMessages <- MCIncoming
    Emitted <- MCEmitted
    Contents = {"a"}
    NexusMessages <- MCNexusMessages
    NonceMax = 1
    Provers = {p1}
    ProverChain <- MCProverChain
    ProverGateway <- MCProverGateway
    MaxSessions = 1
    MaxBatch = 2
    MaxChanges = 2
CHECK_DEADLOCK FALSE
INVARIANTS
    ProofsMatchGateway
PROPERTIES
    DeliveryRefined
    FrozenChainsSilent
