----------------------------- MODULE Coordinator -----------------------------
(***************************************************************************)
(* The coordinator contract (contracts/coordinator): it knows the          *)
(* contracts of every chain, deploys and registers them, and keeps, for    *)
(* every prover, the verifiers of its current and next verifier set.  With *)
(* it come the two registrations that register_deployment makes elsewhere: *)
(* the chain's gateway in the router and its prover in the multisig        *)
(* contract.  All messages of a transaction succeed or none does.          *)
(***************************************************************************)
EXTENDS Amplifier, Integers, FiniteSets

CONSTANTS
    Provers, Gateways, VotingVerifiers,     \* contract addresses
    Deployments                             \* names of deployments

VARIABLES
    protocol,           \* PROTOCOL is set
    chain_contracts,    \* CHAIN_CONTRACTS_MAP, by chain
    deployed_chains,    \* DEPLOYED_CHAINS, by deployment name
    active,             \* VERIFIER_PROVER_INDEXED_MAP: the verifiers recorded for a prover
    router_gateway,     \* the gateway registered for a chain in the router
    prover_chain        \* PROVER_CHAIN of the multisig contract

coordinator_vars ==
    <<protocol, chain_contracts, deployed_chains, active, router_gateway, prover_chain>>

ChainContracts == [prover : Provers, gateway : Gateways, verifier : VotingVerifiers]

\* is_prover_registered
is_prover_registered(p) ==
    \E c \in Chains : chain_contracts[c] # NoValue /\ chain_contracts[c].prover = p

\* Mutant: the records of one prover are looked at.
ready_to_unbond_SomeProver(v) == \E p \in Provers : v \notin active[p]

\* check_verifier_ready_to_unbond
ready_to_unbond(v) == \A p \in Provers : v \notin active[p]

-----------------------------------------------------------------------------
CoordinatorInit ==
    /\ protocol = FALSE
    /\ chain_contracts = [c \in Chains |-> NoValue]
    /\ deployed_chains = [d \in Deployments |-> NoValue]
    /\ active = [p \in Provers |-> {}]
    /\ router_gateway = [c \in Chains |-> NoValue]
    /\ prover_chain = [p \in Provers |-> NoValue]

register_protocol ==
    /\ protocol' = TRUE
    /\ UNCHANGED <<chain_contracts, deployed_chains, active, router_gateway, prover_chain>>

\* The unique indexes by prover, gateway and verifier.
ContractsUnused(chain, contracts) ==
    \A c \in Chains \ {chain} : chain_contracts[c] # NoValue =>
        (\A f \in DOMAIN contracts : chain_contracts[c][f] # contracts[f])

\* Governance may also replace the contracts of a chain that is registered.
register_chain(chain, contracts) ==
    /\ ContractsUnused(chain, contracts)
    /\ chain_contracts' = [chain_contracts EXCEPT ![chain] = contracts]
    /\ UNCHANGED <<protocol, deployed_chains, active, router_gateway, prover_chain>>

\* Mutant: verifiers that left the prover's sets are not removed.
updated_active_NotRemoved(p, new_verifiers) == active[p] \cup new_verifiers

\* update_verifier_set_for_prover removes existing \ new and saves new \ existing.
updated_active(p, new_verifiers) ==
    (active[p] \ (active[p] \ new_verifiers)) \cup (new_verifiers \ active[p])

\* SetActiveVerifiers, which only registered provers may send.
set_active_verifiers(p, new_verifiers) ==
    /\ is_prover_registered(p)
    /\ active' = [active EXCEPT ![p] = updated_active(p, new_verifiers)]
    /\ UNCHANGED <<protocol, chain_contracts, deployed_chains, router_gateway, prover_chain>>

\* A contract instantiated by a deployment has an address of its own.
Undeployed(contracts) ==
    \A d \in Deployments : deployed_chains[d] # NoValue =>
        (\A f \in DOMAIN contracts : deployed_chains[d].contracts[f] # contracts[f])

\* Mutant: a deployment may take the name of an earlier one.
deployment_name_available_Always(name) == TRUE

\* validate_deployment_name_availability
deployment_name_available(name) == deployed_chains[name] = NoValue

instantiate_chain_contracts(name, chain, contracts) ==
    /\ deployment_name_available(name)
    /\ protocol
    /\ Undeployed(contracts)
    /\ deployed_chains' = [deployed_chains EXCEPT ![name] = [chain |-> chain, contracts |-> contracts]]
    /\ UNCHANGED <<protocol, chain_contracts, active, router_gateway, prover_chain>>

\* The router refuses a chain or a gateway that it knows.
RouterAccepts(chain, gateway) ==
    router_gateway[chain] = NoValue /\ \A c \in Chains : router_gateway[c] # gateway

\* The multisig contract refuses a second prover for a chain.
MultisigAccepts(prover, chain) == \A q \in Provers \ {prover} : prover_chain[q] # chain

\* The chain that the prover of a deployment is authorized for.
authorized_chain(name) == deployed_chains[name].chain

register_deployment(name) ==
    /\ deployed_chains[name] # NoValue
    /\ protocol
    /\ LET chain == deployed_chains[name].chain
           contracts == deployed_chains[name].contracts
       IN  /\ ContractsUnused(chain, contracts)
           /\ RouterAccepts(chain, contracts.gateway)
           /\ MultisigAccepts(contracts.prover, chain)
           /\ chain_contracts' = [chain_contracts EXCEPT ![chain] = contracts]
           /\ router_gateway' = [router_gateway EXCEPT ![chain] = contracts.gateway]
           /\ prover_chain' = [prover_chain EXCEPT ![contracts.prover] = authorized_chain(name)]
    /\ UNCHANGED <<protocol, deployed_chains, active>>

-----------------------------------------------------------------------------
RegisterProtocol == register_protocol
RegisterChain == \E c \in Chains, contracts \in ChainContracts : register_chain(c, contracts)
SetActiveVerifiers == \E p \in Provers, new \in SUBSET Verifiers : set_active_verifiers(p, new)
InstantiateChainContracts == \E d \in Deployments, c \in Chains, contracts \in ChainContracts :
                                instantiate_chain_contracts(d, c, contracts)
RegisterDeployment == \E d \in Deployments : register_deployment(d)

\* Governance's messages.
CoordinatorMessages ==
    \/ RegisterProtocol
    \/ RegisterChain
    \/ InstantiateChainContracts
    \/ RegisterDeployment

\* The coordinator with provers that set any verifiers.
CoordinatorNext == CoordinatorMessages \/ SetActiveVerifiers

CoordinatorSpec == CoordinatorInit /\ [][CoordinatorNext]_coordinator_vars

-----------------------------------------------------------------------------
\* Correctness.

\* A chain that a deployment registered is known to the router and to the
\* multisig contract with the contracts of one and the same deployment.
\* Registrations that governance makes with those contracts directly, past the
\* coordinator, are not part of this specification.
DeploymentsRegisteredWhole ==
    /\ \A c \in Chains : router_gateway[c] # NoValue =>
          \E d \in Deployments : /\ deployed_chains[d] # NoValue
                                 /\ deployed_chains[d].chain = c
                                 /\ deployed_chains[d].contracts.gateway = router_gateway[c]
                                 /\ prover_chain[deployed_chains[d].contracts.prover] = c
    /\ \A p \in Provers : prover_chain[p] # NoValue => router_gateway[prover_chain[p]] # NoValue
=============================================================================
