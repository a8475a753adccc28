----------------------------- MODULE MCContracts -----------------------------
(***************************************************************************)
(* Service registry, coordinator and rewards for TLC.  Apart from what     *)
(* VerifierSetRotation composes, the three contracts share no state, so a  *)
(* behaviour runs one of them and leaves the others in their initial       *)
(* state: a state of the product violates a property of one contract only  *)
(* if that contract alone reaches the violation.                           *)
(***************************************************************************)
EXTENDS ServiceRegistry, Coordinator, Rewards, TLC

VARIABLE running        \* the contract that this behaviour runs

\* A service without a limit, and one for one verifier and half the minimum bond.
MCServices ==
    {[min_num_verifiers |-> 1, max_num_verifiers |-> NoLimit,
      min_verifier_bond |-> 2, unbonding_period_days |-> 1],
     [min_num_verifiers |-> 1, max_num_verifiers |-> 1,
      min_verifier_bond |-> 1, unbonding_period_days |-> 1]}

\* A chain that admits two verifiers where the service admits one.
MCOverrides == {[min_num_verifiers |-> Keep, max_num_verifiers |-> 2]}

\* A short and a long epoch, an odd reward, and a threshold of one half or all.
MCPoolParams ==
    {[epoch_duration |-> 1, rewards_per_epoch |-> 3, participation_threshold |-> <<1, 2>>],
     [epoch_duration |-> 3, rewards_per_epoch |-> 2, participation_threshold |-> <<1, 1>>]}

Symmetry == Permutations(Verifiers) \cup Permutations(Chains)

contracts_vars == <<registry_vars, coordinator_vars, rewards_vars, running>>

ContractsInit ==
    /\ running \in {"registry", "coordinator", "rewards"}
    /\ RegistryInit
    /\ CoordinatorInit
    /\ RewardsInit

ContractsNext ==
    \/ /\ running = "registry"
       /\ RegistryNext
       /\ UNCHANGED <<coordinator_vars, rewards_vars, running>>
    \/ /\ running = "coordinator"
       /\ CoordinatorNext
       /\ UNCHANGED <<registry_vars, rewards_vars, running>>
    \/ /\ running = "rewards"
       /\ RewardsNext
       /\ UNCHANGED <<registry_vars, coordinator_vars, running>>

ContractsSpec == ContractsInit /\ [][ContractsNext]_contracts_vars
=============================================================================
