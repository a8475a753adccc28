------------------------ MODULE MCVerifierSetRotation ------------------------
(***************************************************************************)
(* Instances of VerifierSetRotation for TLC.  They start when the service, *)
(* the chains and their provers are registered and the verifiers bonded;   *)
(* the verifiers have yet to register their keys.                          *)
(***************************************************************************)
EXTENDS VerifierSetRotation, TLC

\* No unbonding period: unbonded stake can be claimed in the same block.
MCServices ==
    {[min_num_verifiers |-> 1, max_num_verifiers |-> NoLimit,
      min_verifier_bond |-> 1, unbonding_period_days |-> 0]}

CONSTANTS p1, c1

TwoThirds == {<<2, 3>>}

OneChainOf == [p \in Provers |-> c1]

\* The set-up of every prover's chain.
ContractsOf(p) == [prover |-> p, gateway |-> CHOOSE g \in Gateways : TRUE,
                   verifier |-> CHOOSE w \in VotingVerifiers : TRUE]

MCInit ==
    /\ service \in Services
    /\ overrides = [c \in Chains |-> NoValue]
    /\ verifiers = [v \in Verifiers |-> Verifier_new("Bonded", 1, "Authorized")]
    /\ authorized_count = Cardinality(Verifiers)
    /\ supported = Chains \X Verifiers
    /\ balance = Cardinality(Verifiers)
    /\ time = 0
    /\ protocol = TRUE
    /\ chain_contracts = [c \in Chains |-> ContractsOf(CHOOSE p \in Provers : ChainOf[p] = c)]
    /\ deployed_chains = [d \in Deployments |-> NoValue]
    /\ active = [p \in Provers |-> {}]
    /\ router_gateway = [c \in Chains |-> NoValue]
    /\ prover_chain = [p \in Provers |-> IF ContractsOf(p) = chain_contracts[ChainOf[p]]
                                         THEN ChainOf[p] ELSE NoValue]
    /\ signing_threshold \in [Provers -> SigningThresholds]
    /\ current = [p \in Provers |-> NoValue]
    /\ next = [p \in Provers |-> NoValue]
    /\ pub_keys = [v \in Verifiers |-> 0]
    /\ verifier_sets = {}
    /\ sessions = {}
    /\ signed = {}
    /\ installed = [c \in Chains |-> {}]
    /\ onchain = [c \in Chains |-> NoValue]
    /\ verified = [c \in Chains |-> {}]
    /\ height = 0

MCSpec == MCInit /\ [][Next]_vars

VerifierSymmetry == Permutations(Verifiers)
=============================================================================
