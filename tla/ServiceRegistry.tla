--------------------------- MODULE ServiceRegistry ---------------------------
(***************************************************************************)
(* The service-registry contract (contracts/service-registry) for one      *)
(* service: governance registers it, changes its parameters, overrides     *)
(* them per chain and authorizes, unauthorizes or jails verifiers;         *)
(* verifiers bond, declare the chains they support, unbond and claim their *)
(* stake.  Services are stored under their names and do not influence each *)
(* other.                                                                  *)
(*                                                                         *)
(* Whether a verifier may unbond is the coordinator's answer; it is a      *)
(* parameter of unbond_verifier here, and the composed specification       *)
(* VerifierSetRotation passes what the coordinator stores.                 *)
(***************************************************************************)
EXTENDS Amplifier, Integers, Sequences, FiniteSets, FiniteSetsExt

CONSTANTS
    Services,       \* parameters governance may give the service
    Overrides,      \* parameter overrides governance may give a chain
    Bonds,          \* amounts a verifier may send in the bond denomination
    MaxUpdate,      \* bound: how many addresses an authorization message names
    MaxStake,       \* bound: the stake of a verifier
    MaxTime,        \* bound: days that pass
    NoLimit,        \* max_num_verifiers: None
    Keep            \* a parameter that an override leaves alone

ASSUME ServicesAssumption ==
    /\ Services \subseteq [min_num_verifiers : Nat, max_num_verifiers : Nat \cup {NoLimit},
                           min_verifier_bond : Nat \ {0}, unbonding_period_days : Nat]
    /\ Overrides \subseteq [min_num_verifiers : Nat \cup {Keep},
                            max_num_verifiers : Nat \cup {NoLimit, Keep}]
    /\ Bonds \subseteq Nat \ {0}
    /\ NoLimit \notin Nat /\ Keep \notin Nat \cup {NoLimit}

ASSUME RegistryBoundsAssumption ==
    /\ MaxUpdate \in Nat /\ MaxStake \in Nat /\ MaxTime \in Nat
    /\ IsFiniteSet(Verifiers)

VARIABLES
    service,            \* SERVICES: the service's parameters
    overrides,          \* SERVICE_OVERRIDES, by chain
    verifiers,          \* VERIFIERS, by address
    authorized_count,   \* AUTHORIZED_VERIFIER_COUNT
    supported,          \* VERIFIERS_PER_CHAIN: pairs of a chain and a verifier
    balance,            \* what the contract's account holds in the bond denomination
    time                \* the block time in days

registry_vars == <<service, overrides, verifiers, authorized_count, supported, balance, time>>

BondingStates == {"Bonded", "RequestedUnbonding", "Unbonding", "Unbonded"}
AuthorizationStates == {"NotAuthorized", "Authorized", "Jailed"}

Verifier == [bonding_state : BondingStates, amount : Nat, unbonded_at : Nat,
             authorization_state : AuthorizationStates]

Verifier_new(bonding_state, amount, authorization_state) ==
    [bonding_state |-> bonding_state, amount |-> amount, unbonded_at |-> 0,
     authorization_state |-> authorization_state]

Registered == service # NoValue

IsAuthorized(v) == verifiers[v] # NoValue /\ verifiers[v].authorization_state = "Authorized"

-----------------------------------------------------------------------------
\* Queries.

\* A service's parameter on a chain.
service_param(chain, field) ==
    IF overrides[chain] = NoValue \/ overrides[chain][field] = Keep
    THEN service[field]
    ELSE overrides[chain][field]

\* Verifiers that are considered for a chain's active set.
Eligible(chain) ==
    {v \in Verifiers : /\ <<chain, v>> \in supported
                       /\ IsAuthorized(v)
                       /\ verifiers[v].bonding_state = "Bonded"
                       /\ verifiers[v].amount >= service.min_verifier_bond}

\* The answers active_verifiers may give, none when it fails.  All verifiers
\* weigh the same, so that beyond the limit select_top_verifiers orders them
\* by a hash of their address and the block height: any selection may result.
active_verifiers(chain) ==
    LET eligible == Eligible(chain)
        max == service_param(chain, "max_num_verifiers")
    IN  IF ~Registered \/ Cardinality(eligible) < service_param(chain, "min_num_verifiers") THEN {}
        ELSE IF max = NoLimit THEN {eligible}
        ELSE IF Cardinality(eligible) <= max THEN {eligible}
        ELSE {S \in SUBSET eligible : Cardinality(S) = max}

-----------------------------------------------------------------------------
\* Governance's messages.

RegistryInit ==
    /\ service = NoValue
    /\ overrides = [c \in Chains |-> NoValue]
    /\ verifiers = [v \in Verifiers |-> NoValue]
    /\ authorized_count = 0
    /\ supported = {}
    /\ balance = 0
    /\ time = 0

register_service(params) ==
    /\ ~Registered
    /\ service' = params
    /\ authorized_count' = 0
    /\ UNCHANGED <<overrides, verifiers, supported, balance, time>>

LimitAllowed(given, params) ==
    "max_num_verifiers" \in given /\ params.max_num_verifiers # NoLimit =>
        params.max_num_verifiers >= authorized_count

\* An update gives new values for some of the parameters.
update_service(given, params) ==
    /\ Registered
    /\ LimitAllowed(given, params)
    /\ service' = [f \in DOMAIN service |-> IF f \in given THEN params[f] ELSE service[f]]
    /\ UNCHANGED <<overrides, verifiers, authorized_count, supported, balance, time>>

override_service_params(chain, params) ==
    /\ Registered
    /\ overrides' = [overrides EXCEPT ![chain] = params]
    /\ UNCHANGED <<service, verifiers, authorized_count, supported, balance, time>>

remove_service_params_override(chain) ==
    /\ overrides[chain] # NoValue
    /\ overrides' = [overrides EXCEPT ![chain] = NoValue]
    /\ UNCHANGED <<service, verifiers, authorized_count, supported, balance, time>>

Named(list) == {list[i] : i \in DOMAIN list}

\* Mutant: an address named twice is counted twice.
count_change_Repeated(list, state) ==
    IF state = "Authorized" THEN Cardinality({i \in DOMAIN list : ~IsAuthorized(list[i])})
    ELSE 0 - Cardinality({i \in DOMAIN list : IsAuthorized(list[i])})

\* The sum of calculate_auth_verifier_count_change over the list.  Each change
\* is computed from the state the earlier ones left, so an address that is
\* named twice counts once.
count_change(list, state) ==
    IF state = "Authorized" THEN Cardinality({v \in Named(list) : ~IsAuthorized(v)})
    ELSE 0 - Cardinality({v \in Named(list) : IsAuthorized(v)})

\* AuthorizeVerifiers, UnauthorizeVerifiers and JailVerifiers.
update_verifier_authorization_status(list, state) ==
    LET count == authorized_count + count_change(list, state)
    IN  /\ Registered
        /\ count >= 0
        /\ (state = "Authorized" /\ service.max_num_verifiers # NoLimit) =>
              count <= service.max_num_verifiers
        /\ verifiers' = [v \in Verifiers |->
              IF v \notin Named(list) THEN verifiers[v]
              ELSE IF verifiers[v] = NoValue THEN Verifier_new("Unbonded", 0, state)
              ELSE [verifiers[v] EXCEPT !.authorization_state = state]]
        /\ authorized_count' = count
        /\ UNCHANGED <<service, overrides, supported, balance, time>>

-----------------------------------------------------------------------------
\* The verifiers' messages.

\* Mutant: bonding replaces the stake that is there.
bonded_amount_Replaced(v, bond) == bond

\* The stake after bonding; it also ends a period of unbonding.
bonded_amount(v, bond) ==
    IF verifiers[v] = NoValue THEN bond ELSE verifiers[v].amount + bond

\* bond is 0 when no funds are sent: a verifier bonds its unbonding stake again.
bond_verifier(v, bond) ==
    LET amount == bonded_amount(v, bond)
    IN  /\ Registered
        /\ verifiers[v] = NoValue => bond > 0
        /\ verifiers[v] # NoValue => (verifiers[v].bonding_state = "Unbonded" => bond > 0)
        /\ amount <= MaxStake
        /\ verifiers' = [verifiers EXCEPT ![v] =
              Verifier_new("Bonded", amount,
                           IF verifiers[v] = NoValue THEN "NotAuthorized"
                           ELSE verifiers[v].authorization_state)]
        /\ balance' = balance + bond
        /\ UNCHANGED <<service, overrides, authorized_count, supported, time>>

register_chains_support(v, chains) ==
    /\ Registered
    /\ verifiers[v] # NoValue
    /\ supported' = supported \cup (chains \X {v})
    /\ UNCHANGED <<service, overrides, verifiers, authorized_count, balance, time>>

deregister_chains_support(v, chains) ==
    /\ Registered
    /\ verifiers[v] # NoValue
    /\ supported' = supported \ (chains \X {v})
    /\ UNCHANGED <<service, overrides, verifiers, authorized_count, balance, time>>

NotJailed(v) == verifiers[v].authorization_state # "Jailed"

unbond_verifier(v, ready_to_unbond) ==
    /\ Registered
    /\ verifiers[v] # NoValue
    /\ NotJailed(v)
    /\ verifiers[v].bonding_state \in {"Bonded", "RequestedUnbonding"}
    /\ verifiers' = [verifiers EXCEPT ![v] =
          IF ready_to_unbond
          THEN [@ EXCEPT !.bonding_state = "Unbonding", !.unbonded_at = time]
          ELSE [@ EXCEPT !.bonding_state = "RequestedUnbonding"]]
    /\ UNCHANGED <<service, overrides, authorized_count, supported, balance, time>>

claimed(verifier) ==
    [verifier EXCEPT !.bonding_state = "Unbonded", !.amount = 0, !.unbonded_at = 0]

claim_stake(v) ==
    /\ Registered
    /\ verifiers[v] # NoValue
    /\ NotJailed(v)
    /\ verifiers[v].bonding_state = "Unbonding"
    /\ verifiers[v].unbonded_at + service.unbonding_period_days <= time
    /\ verifiers' = [verifiers EXCEPT ![v] = claimed(@)]
    /\ balance' = balance - verifiers[v].amount
    /\ UNCHANGED <<service, overrides, authorized_count, supported, time>>

NextDay ==
    /\ time < MaxTime
    /\ time' = time + 1
    /\ UNCHANGED <<service, overrides, verifiers, authorized_count, supported, balance>>

-----------------------------------------------------------------------------
Lists == UNION {[1..n -> Verifiers] : n \in 0..MaxUpdate}

RegisterService == \E params \in Services : register_service(params)
UpdateService == \E params \in Services : \E given \in SUBSET DOMAIN params :
                    update_service(given, params)
OverrideServiceParams == \E c \in Chains, params \in Overrides : override_service_params(c, params)
RemoveServiceParamsOverride == \E c \in Chains : remove_service_params_override(c)
UpdateAuthorization == \E list \in Lists, state \in AuthorizationStates :
                          update_verifier_authorization_status(list, state)
BondVerifier == \E v \in Verifiers, bond \in Bonds \cup {0} : bond_verifier(v, bond)
RegisterChainSupport == \E v \in Verifiers, chains \in SUBSET Chains :
                           register_chains_support(v, chains)
DeregisterChainSupport == \E v \in Verifiers, chains \in SUBSET Chains :
                             deregister_chains_support(v, chains)
UnbondVerifier == \E v \in Verifiers, ready \in BOOLEAN : unbond_verifier(v, ready)
ClaimStake == \E v \in Verifiers : claim_stake(v)

\* All messages but UnbondVerifier, and the passing of time.
RegistryMessages ==
    \/ RegisterService
    \/ UpdateService
    \/ OverrideServiceParams
    \/ RemoveServiceParamsOverride
    \/ UpdateAuthorization
    \/ BondVerifier
    \/ RegisterChainSupport
    \/ DeregisterChainSupport
    \/ ClaimStake
    \/ NextDay

\* The registry with a coordinator that answers anything.
RegistryNext == RegistryMessages \/ UnbondVerifier

RegistrySpec == RegistryInit /\ [][RegistryNext]_registry_vars

-----------------------------------------------------------------------------
\* Correctness.

Limited == IF Registered THEN service.max_num_verifiers # NoLimit ELSE FALSE

\* The counter that bounds authorizations, updated by differences over lists
\* with repetitions, is the number of authorized verifiers, and never exceeds
\* the service's limit however authorizations and limit updates alternate; nor
\* does what active_verifiers answers for a chain, even where the chain's
\* override is laxer than the service.
AuthorizedWithinLimit ==
    /\ authorized_count = Cardinality({v \in Verifiers : IsAuthorized(v)})
    /\ Limited => /\ authorized_count <= service.max_num_verifiers
                  /\ \A c \in Chains : \A S \in active_verifiers(c) :
                        Cardinality(S) <= service.max_num_verifiers

StakeOf(v) == IF verifiers[v] = NoValue THEN 0 ELSE verifiers[v].amount

\* The contract holds exactly the stakes on its books: whatever the order of
\* bonding, unbonding, bonding again and claiming, every stake is paid out at
\* most once and the contract can pay all of them.
StakesBacked == balance = MapThenSumSet(StakeOf, Verifiers)
=============================================================================
