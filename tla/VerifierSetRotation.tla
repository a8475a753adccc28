------------------------- MODULE VerifierSetRotation -------------------------
(***************************************************************************)
(* Rotation of verifier sets: the multisig-prover contracts                *)
(* (contracts/multisig-prover) composed with the service registry they     *)
(* draw verifiers from, the coordinator they report their verifiers to,    *)
(* and the multisig contract that keeps their sets and signs for them.     *)
(*                                                                         *)
(* The multisig contract appears by the sets registered with it and by the *)
(* sessions that were started and completed (Multisig has their detail),   *)
(* the voting verifier by the sets it confirmed (VotingVerifier has its    *)
(* detail).  The gateway on the chain itself is external: it accepts a new *)
(* set signed by its latest one.                                           *)
(***************************************************************************)
EXTENDS ServiceRegistry, Coordinator

CONSTANTS
    ChainOf,                \* ChainOf[p]: chain_name of prover p's configuration
    VerifierSetDiff,        \* verifier_set_diff_threshold of the provers
    SigningThresholds,      \* fractions <<n, d>> governance may set as signing_threshold
    GovernanceConfirms,     \* whether governance confirms sets the chain did not install
    MaxSessions,            \* bound: different signing sessions
    MaxKeys,                \* bound: public keys that a verifier registers in turn
    MaxHeight               \* bound: the block height

ASSUME RotationAssumption ==
    /\ ChainOf \in [Provers -> Chains]
    /\ VerifierSetDiff \in Nat
    /\ SigningThresholds \subseteq (Nat \X (Nat \ {0}))
    /\ GovernanceConfirms \in BOOLEAN
    /\ MaxSessions \in Nat /\ MaxKeys \in Nat /\ MaxHeight \in Nat

VARIABLES
    signing_threshold,  \* CONFIG.signing_threshold, by prover
    current,            \* CURRENT_VERIFIER_SET, by prover
    next,               \* NEXT_VERIFIER_SET, by prover
    pub_keys,           \* multisig: the latest key a verifier registered, 0 if none
    verifier_sets,      \* multisig: the verifier sets registered
    sessions,           \* multisig: the signing sessions started, with their payloads
    signed,             \* multisig: the sessions that completed
    installed,          \* the sets that the gateway of a prover's chain installed
    onchain,            \* the set it installed last
    verified,           \* voting verifier: the sets of a chain with status Succeeded
    height              \* the block height

prover_vars == <<signing_threshold, current, next>>
multisig_vars == <<pub_keys, verifier_sets, sessions, signed>>
chain_vars == <<installed, onchain, verified>>
vars == <<registry_vars, coordinator_vars, prover_vars, multisig_vars, chain_vars, height>>

Members(set) == IF set = NoValue THEN {} ELSE {s[1] : s \in set.signers}

-----------------------------------------------------------------------------
\* The prover.

\* A quorum of signers of weight one each: the threshold, rounded up.
quorum(n, threshold) == (n * threshold[1] + threshold[2] - 1) \div threshold[2]

VerifierSet_new(signers, threshold, created_at) ==
    [signers |-> signers, threshold |-> threshold, created_at |-> created_at]

\* The sets make_verifier_set may return, none when it fails.
make_verifier_set(p) ==
    {VerifierSet_new({<<v, pub_keys[v]>> : v \in S},
                     quorum(Cardinality(S), signing_threshold[p]), height) :
        S \in {T \in {{v \in answer : pub_keys[v] # 0} : answer \in active_verifiers(ChainOf[p])} :
                  /\ T # {}
                  /\ Cardinality(T) >= service_param(ChainOf[p], "min_num_verifiers")}}

\* Signers differ also when they changed their key.
should_update_verifier_set(new, cur) ==
    \/ new.threshold # cur.threshold
    \/ Cardinality(new.signers \ cur.signers) + Cardinality(cur.signers \ new.signers)
          > VerifierSetDiff

\* Mutant: a pending set is replaced by a new one.
next_verifier_set_Replaced(p) ==
    {set \in make_verifier_set(p) : should_update_verifier_set(set, current[p])}

\* A set that is pending stays until it is confirmed.
next_verifier_set(p) ==
    IF next[p] # NoValue THEN {next[p]}
    ELSE {set \in make_verifier_set(p) : should_update_verifier_set(set, current[p])}

all_active_verifiers(cur, nxt) == Members(cur) \cup Members(nxt)

\* multisig.start_signing_session for a payload, by an authorized prover.
start_signing_session(p, set, payload) ==
    /\ prover_chain[p] = ChainOf[p]
    /\ set \in verifier_sets
    /\ sessions' = sessions \cup {[prover |-> p, verifier_set |-> set, payload |-> payload]}
    /\ Cardinality(sessions') <= MaxSessions

\* UpdateVerifierSet without a current set.
first_verifier_set(p) ==
    /\ current[p] = NoValue
    /\ \E set \in make_verifier_set(p) :
          /\ current' = [current EXCEPT ![p] = set]
          /\ verifier_sets' = verifier_sets \cup {set}
          /\ set_active_verifiers(p, Members(set))
    /\ UNCHANGED <<registry_vars, signing_threshold, next, pub_keys, sessions, signed,
                   chain_vars, height>>

\* UpdateVerifierSet with a current set: it signs for the next one.
update_verifier_set(p) ==
    /\ current[p] # NoValue
    /\ \E set \in next_verifier_set(p) :
          /\ next' = [next EXCEPT ![p] = set]
          /\ start_signing_session(p, current[p], set)
          /\ set_active_verifiers(p, all_active_verifiers(current[p], set))
    /\ UNCHANGED <<registry_vars, signing_threshold, current, pub_keys, verifier_sets, signed,
                   chain_vars, height>>

\* Mutant: a set may be confirmed before the voting verifier confirmed it.
ensure_verifier_set_verification_Unchecked(p, set) == TRUE

ensure_verifier_set_verification(p, set) == set \in verified[ChainOf[p]]

\* Mutant: the confirmed set is not registered with the multisig contract.
registered_with_Not(set) == verifier_sets

registered_with(set) == verifier_sets \cup {set}

confirm_verifier_set(p, governance) ==
    /\ next[p] # NoValue
    /\ governance \/ ensure_verifier_set_verification(p, next[p])
    /\ current' = [current EXCEPT ![p] = next[p]]
    /\ next' = [next EXCEPT ![p] = NoValue]
    /\ verifier_sets' = registered_with(next[p])
    /\ set_active_verifiers(p, all_active_verifiers(next[p], NoValue))
    /\ UNCHANGED <<registry_vars, signing_threshold, pub_keys, sessions, signed, chain_vars, height>>

update_signing_threshold(p, threshold) ==
    /\ signing_threshold' = [signing_threshold EXCEPT ![p] = threshold]
    /\ UNCHANGED <<registry_vars, coordinator_vars, current, next, multisig_vars, chain_vars, height>>

-----------------------------------------------------------------------------
\* The contracts and the chain around the prover.

\* A verifier registers a first key or replaces its key.
register_pub_key(v) ==
    /\ pub_keys[v] < MaxKeys
    /\ pub_keys' = [pub_keys EXCEPT ![v] = @ + 1]
    /\ UNCHANGED <<registry_vars, coordinator_vars, prover_vars, verifier_sets, sessions, signed,
                   chain_vars, height>>

\* A session's signers, who see it in a committed block, complete it.
complete_session(s) ==
    /\ s \in sessions \ signed
    /\ height > s.payload.created_at
    /\ signed' = signed \cup {s}
    /\ UNCHANGED <<registry_vars, coordinator_vars, prover_vars, pub_keys, verifier_sets, sessions,
                   chain_vars, height>>

\* External: a gateway is set up on the chain with the prover's current set.
deploy_gateway(p) ==
    /\ current[p] # NoValue
    /\ installed[ChainOf[p]] = {}
    /\ installed' = [installed EXCEPT ![ChainOf[p]] = {current[p]}]
    /\ onchain' = [onchain EXCEPT ![ChainOf[p]] = current[p]]
    /\ UNCHANGED <<registry_vars, coordinator_vars, prover_vars, multisig_vars, verified, height>>

\* External: the gateway installs a set that its latest set signed.
rotate_signers(c, s) ==
    /\ s \in signed /\ ChainOf[s.prover] = c
    /\ s.verifier_set = onchain[c]
    /\ installed' = [installed EXCEPT ![c] = @ \cup {s.payload}]
    /\ onchain' = [onchain EXCEPT ![c] = s.payload]
    /\ UNCHANGED <<registry_vars, coordinator_vars, prover_vars, multisig_vars, verified, height>>

\* A poll confirms that the chain's gateway installed a set.
verify_verifier_set(c, set) ==
    /\ set \in installed[c]
    /\ verified' = [verified EXCEPT ![c] = @ \cup {set}]
    /\ UNCHANGED <<registry_vars, coordinator_vars, prover_vars, multisig_vars, installed, onchain,
                   height>>

NextBlock ==
    /\ height < MaxHeight
    /\ height' = height + 1
    /\ UNCHANGED <<registry_vars, coordinator_vars, prover_vars, multisig_vars, chain_vars>>

\* Governance authorizes provers with the multisig contract directly.
authorize_callers(p) ==
    /\ MultisigAccepts(p, ChainOf[p])
    /\ prover_chain' = [prover_chain EXCEPT ![p] = ChainOf[p]]
    /\ UNCHANGED <<registry_vars, protocol, chain_contracts, deployed_chains, active, router_gateway,
                   prover_vars, multisig_vars, chain_vars, height>>

unauthorize_callers(p) ==
    /\ prover_chain' = [prover_chain EXCEPT ![p] = NoValue]
    /\ UNCHANGED <<registry_vars, protocol, chain_contracts, deployed_chains, active, router_gateway,
                   prover_vars, multisig_vars, chain_vars, height>>

\* A step of the registry.
RegistryStep ==
    /\ RegistryMessages
    /\ UNCHANGED <<coordinator_vars, prover_vars, multisig_vars, chain_vars, height>>

\* Unbonding asks the coordinator.
UnbondStep ==
    /\ \E v \in Verifiers : unbond_verifier(v, ready_to_unbond(v))
    /\ UNCHANGED <<coordinator_vars, prover_vars, multisig_vars, chain_vars, height>>

\* Registrations; the verifiers of a prover are set by the prover alone.
CoordinatorStep ==
    /\ CoordinatorMessages
    /\ UNCHANGED <<registry_vars, prover_vars, multisig_vars, chain_vars, height>>

-----------------------------------------------------------------------------
Init ==
    /\ RegistryInit
    /\ CoordinatorInit
    /\ signing_threshold \in [Provers -> SigningThresholds]
    /\ current = [p \in Provers |-> NoValue]
    /\ next = [p \in Provers |-> NoValue]
    /\ pub_keys = [v \in Verifiers |-> 0]
    /\ verifier_sets = {}
    /\ sessions = {}
    /\ signed = {}
    /\ installed = [c \in Chains |-> {}]
    /\ onchain = [c \in Chains |-> NoValue]
    /\ verified = [c \in Chains |-> {}]
    /\ height = 0

FirstVerifierSet == \E p \in Provers : first_verifier_set(p)
UpdateVerifierSet == \E p \in Provers : update_verifier_set(p)
ConfirmVerifierSet == \E p \in Provers : \E governance \in {FALSE, GovernanceConfirms} :
                         confirm_verifier_set(p, governance)
UpdateSigningThreshold == \E p \in Provers, t \in SigningThresholds : update_signing_threshold(p, t)
RegisterPubKey == \E v \in Verifiers : register_pub_key(v)
CompleteSession == \E s \in sessions : complete_session(s)
AuthorizeCallers == \E p \in Provers : authorize_callers(p)
UnauthorizeCallers == \E p \in Provers : unauthorize_callers(p)
DeployGateway == \E p \in Provers : deploy_gateway(p)
RotateSigners == \E c \in Chains, s \in signed : rotate_signers(c, s)
VerifyVerifierSet == \E c \in Chains : \E set \in installed[c] : verify_verifier_set(c, set)

Next ==
    \/ FirstVerifierSet
    \/ UpdateVerifierSet
    \/ ConfirmVerifierSet
    \/ UpdateSigningThreshold
    \/ RegisterPubKey
    \/ CompleteSession
    \/ DeployGateway
    \/ RotateSigners
    \/ VerifyVerifierSet
    \/ NextBlock
    \/ AuthorizeCallers
    \/ UnauthorizeCallers
    \/ RegistryStep
    \/ UnbondStep
    \/ CoordinatorStep

Spec == Init /\ [][Next]_vars

-----------------------------------------------------------------------------
\* Correctness.

\* The coordinator's records of a prover are the signers of its current and
\* next sets, through first sets, updates that are repeated while a set is
\* pending, confirmations, and replacements of a chain's contracts.
CoordinatorMirrorsProvers ==
    \A p \in Provers : active[p] = Members(current[p]) \cup Members(next[p])

\* A verifier that can still be asked to sign for some chain, now or after the
\* pending rotation, has its stake bonded: whatever the order of rotations and
\* unbonding requests, none of it is unbonding or paid out.
SignersStaked ==
    \A p \in Provers : \A v \in Members(current[p]) \cup Members(next[p]) :
        /\ verifiers[v] # NoValue
        /\ verifiers[v].bonding_state \in {"Bonded", "RequestedUnbonding"}
        /\ verifiers[v].amount > 0

\* The current set of a prover is registered with the multisig contract, so
\* that construct_proof and update_verifier_set can always start a session.
CurrentSetRegistered ==
    \A p \in Provers : current[p] # NoValue => current[p] \in verifier_sets

\* Whatever was started to sign the pending set is signed by the current one,
\* however often UpdateVerifierSet was called.  (Sets are told apart by their
\* created_at; governance, confirming several sets within a block, could bring
\* a set back that an older session was started for.)
PendingSignedByCurrent ==
    \A s \in sessions : s.payload = next[s.prover] => s.verifier_set = current[s.prover]

\* As long as governance does not confirm sets itself and a chain has one
\* prover, the set that the chain's gateway accepts is the prover's current or
\* its pending set; with SignersStaked, its signers are staked.
GatewayFollowsProver ==
    \A p \in Provers : onchain[ChainOf[p]] # NoValue => onchain[ChainOf[p]] \in {current[p], next[p]}
=============================================================================
