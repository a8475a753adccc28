------------------------ MODULE InterchainTokenService ------------------------
(***************************************************************************)
(* The hub of the interchain token service                                 *)
(* (contracts/interchain-token-service).  Edge contracts send it ABI       *)
(* payloads; the hub translates them, keeps the token instances of every   *)
(* chain with their decimals and the supply bridged there, and forwards    *)
(* the translated message to the destination chain.  A handler that        *)
(* returns an error reverts its transaction and is no step.                *)
(***************************************************************************)
EXTENDS ItsTranslation, Integers, FiniteSetsExt, TLC

CONSTANTS
    Chains,         \* chain names, the Axelar chain among them
    Axelar,
    Addresses,      \* addresses of edge contracts
    Tokens,         \* token ids
    TokenAddresses, \* addresses of custom tokens
    Decimals,       \* decimals tokens are deployed with
    Amounts,        \* amounts of transfers and of supply modifications
    Batches,        \* chains mapped to new configurations: bits, max_decimals, its_address
    Received,       \* what edge contracts send: chain, address, ABI payload
    Untracked,      \* supply of an instance that is not tracked
    NoValue,        \* absent entry of a map
    U256Bits,       \* width of Uint256
    MaxBacking,     \* bound: value of a token that leaves its origin chain
    MaxChanges      \* bound: number of governance and admin operations

U256Max == 2^U256Bits - 1

ASSUME ItsAssumption ==
    /\ Axelar \in Chains
    /\ Amounts \subseteq 1..U256Max
    /\ Decimals \subseteq Nat
    /\ \A batch \in Batches : \A c \in DOMAIN batch : batch[c].bits \in 1..U256Bits

VARIABLES
    chain_configs,  \* chain -> configuration with its frozen flag, or NoValue
    execution,      \* the killswitch: whether messages are executed
    token_configs,  \* token -> origin chain, or NoValue
    instances,      \* <<chain, token>> -> [supply, decimals], or NoValue
    custom_tokens,  \* <<chain, token address>> -> decimals, or NoValue
    backing,        \* history: value of a token its origin sent out, net
    minted,         \* history: tokens with an untracked instance off their origin
    changes         \* governance and admin operations so far

tokens == <<token_configs, instances, custom_tokens>>
history == <<backing, minted>>
vars == <<chain_configs, execution, tokens, history, changes>>

StoreInit ==
    /\ execution = TRUE
    /\ token_configs = [t \in Tokens |-> NoValue]
    /\ instances = [p \in Chains \X Tokens |-> NoValue]
    /\ backing = [t \in Tokens |-> 0]
    /\ minted = {}
    /\ changes = 0

ItsInit ==
    /\ chain_configs = [c \in Chains |-> NoValue]
    /\ custom_tokens = [p \in Chains \X TokenAddresses |-> NoValue]
    /\ StoreInit

-----------------------------------------------------------------------------
(* Chain configurations and the killswitch                                 *)

ensure_chain_is_registered(c) == chain_configs[c] # NoValue

\* is_chain_frozen fails on an unknown chain
ensure_chain_not_frozen(c) ==
    /\ ensure_chain_is_registered(c)
    /\ ~chain_configs[c].frozen

ensure_is_its_source_address(c, address) ==
    /\ ensure_chain_is_registered(c)
    /\ chain_configs[c].its_address = address

\* ChainConfig::new: a new configuration is not frozen
ChainConfig_new(f) ==
    [bits |-> f.bits, max_decimals |-> f.max_decimals,
     its_address |-> f.its_address, frozen |-> FALSE]

Change ==
    /\ changes < MaxChanges
    /\ changes' = changes + 1

Configured(batch) == [c \in DOMAIN batch |-> ChainConfig_new(batch[c])] @@ chain_configs

register_chains(batch) ==
    /\ Change
    /\ \A c \in DOMAIN batch : ~ensure_chain_is_registered(c)
    /\ chain_configs' = Configured(batch)
    /\ UNCHANGED <<execution, tokens, history>>

\* The configurations are replaced, so a frozen chain is no longer frozen.
update_chains(batch) ==
    /\ Change
    /\ \A c \in DOMAIN batch : ensure_chain_is_registered(c)
    /\ chain_configs' = Configured(batch)
    /\ UNCHANGED <<execution, tokens, history>>

SetFrozen(c, frozen) ==
    /\ Change
    /\ ensure_chain_is_registered(c)
    /\ chain_configs' = [chain_configs EXCEPT ![c].frozen = frozen]
    /\ UNCHANGED <<execution, tokens, history>>

freeze_chain(c) == SetFrozen(c, TRUE)

unfreeze_chain(c) == SetFrozen(c, FALSE)

disable_execution ==
    /\ Change
    /\ execution' = FALSE
    /\ UNCHANGED <<chain_configs, tokens, history>>

enable_execution ==
    /\ Change
    /\ execution' = TRUE
    /\ UNCHANGED <<chain_configs, tokens, history>>

-----------------------------------------------------------------------------
(* Token instances and their supply                                        *)

Deployed(store, c, t) == store[<<c, t>>] # NoValue

checked_add(supply, amount) ==
    IF supply = Untracked THEN Untracked ELSE supply + amount

checked_sub(supply, amount) ==
    IF supply = Untracked THEN Untracked ELSE supply - amount

InRange(supply) == supply = Untracked \/ supply \in 0..U256Max

\* TokenInstance::new: a token that only ITS can mint has a tracked supply
TokenInstance_new(minter, decimals) ==
    [supply |-> IF minter = "none" THEN 0 ELSE Untracked, decimals |-> decimals]

\* TokenInstance::new_on_origin
TokenInstance_new_on_origin(decimals) == [supply |-> Untracked, decimals |-> decimals]

\* Value of an amount with the given decimals, in units of the finest decimals.
Scale(decimals) == 10^(Max(Decimals) - decimals)

\* The token's value bridged to the chains other than its origin.
RemoteValue(t) ==
    LET remote == {c \in Chains \ {token_configs[t]} : Deployed(instances, c, t)}
        value(c) == instances[<<c, t>>].supply * Scale(instances[<<c, t>>].decimals)
    IN  MapThenSumSet(value, remote)

\* After modify_supply an instance is tracked, from zero if it was not before.
modify_supply(c, t, amount) ==
    /\ Change
    /\ Deployed(instances, c, t)
    /\ LET old == instances[<<c, t>>]
           supply == IF old.supply = Untracked THEN 0 ELSE old.supply
       IN  /\ InRange(supply + amount)
           /\ instances' = [instances EXCEPT ![<<c, t>>].supply = supply + amount]
           /\ backing' = IF c = token_configs[t] \/ t \in minted THEN backing
                         ELSE [backing EXCEPT ![t] = @ + amount * Scale(old.decimals)]
    /\ UNCHANGED <<chain_configs, execution, token_configs, custom_tokens, minted>>

register_p2p_token_instance(t, c, origin, decimals, supply) ==
    /\ Change
    /\ ensure_chain_is_registered(c) /\ ensure_chain_is_registered(origin)
    /\ token_configs[t] \in {NoValue, origin}
    /\ ~Deployed(instances, c, t)
    /\ token_configs' = [token_configs EXCEPT ![t] = origin]
    /\ instances' = [instances EXCEPT ![<<c, t>>] = [supply |-> supply, decimals |-> decimals]]
    /\ IF c = origin
       THEN UNCHANGED history
       ELSE IF supply = Untracked
            THEN minted' = minted \cup {t} /\ backing' = [backing EXCEPT ![t] = 0]
            ELSE /\ backing' = IF t \in minted THEN backing
                               ELSE [backing EXCEPT ![t] = @ + supply * Scale(decimals)]
                 /\ UNCHANGED minted
    /\ UNCHANGED <<chain_configs, execution, custom_tokens>>

-----------------------------------------------------------------------------
(* Deploying tokens                                                        *)

ensure_matching_original_deployment(c, t, decimals) ==
    /\ token_configs[t] = c
    /\ Deployed(instances, c, t)
    /\ instances[<<c, t>>].decimals = decimals

CanDeployToSource(c, t, decimals) ==
    \/ token_configs[t] = NoValue
    \/ ensure_matching_original_deployment(c, t, decimals)

\* The instances after deploy_token_to_source_chain: the first deployment makes
\* the source the token's origin.
deploy_token_to_source_chain(c, t, decimals) ==
    IF token_configs[t] = NoValue
    THEN [instances EXCEPT ![<<c, t>>] = TokenInstance_new_on_origin(decimals)]
    ELSE instances

destination_token_decimals(source, destination, decimals) ==
    IF chain_configs[source].bits <= chain_configs[destination].bits
    THEN decimals
    ELSE Min({chain_configs[destination].max_decimals, decimals})

\* deploy_token_to_source_chain, then deploy_token_to_destination_chain
Deploy(source, destination, t, source_decimals, destination_decimals, minter) ==
    LET store == deploy_token_to_source_chain(source, t, source_decimals)
    IN  /\ CanDeployToSource(source, t, source_decimals)
        /\ ~Deployed(store, destination, t)
        /\ token_configs' = [token_configs EXCEPT ![t] = source]
        /\ instances' = [store EXCEPT ![<<destination, t>>] =
                             TokenInstance_new(minter, destination_decimals)]
        /\ minted' = IF minter = "none" THEN minted ELSE minted \cup {t}
        /\ backing' = IF minter = "none" THEN backing ELSE [backing EXCEPT ![t] = 0]

\* The message that reaches the edge contract of the destination chain, after
\* the hub wrapped and encoded it and the edge contract decoded the payload.
\* The Axelar chain has no edge contract: nothing is sent there.
send_to_destination(source, message) ==
    hub_message_abi_decode(hub_message_abi_encode(ReceiveFromHub(source, message))).message

apply_to_token_deployment(source, destination, m) ==
    LET decimals == destination_token_decimals(source, destination, m.decimals)
    IN  Deploy(source, destination, m.token_id, m.decimals, decimals, m.minter)

\* A linked token has a minter of its own.
apply_to_link_token(source, destination, m) ==
    LET source_decimals == custom_tokens[<<source, m.source_token_address>>]
        destination_decimals == custom_tokens[<<destination, m.destination_token_address>>]
    IN  /\ source_decimals # NoValue /\ destination_decimals # NoValue
        /\ Deploy(source, destination, m.token_id,
                  source_decimals, destination_decimals, "minter")

-----------------------------------------------------------------------------
(* Transfers                                                               *)

amount_overflows(amount, bits) == amount \div 2^bits > 0

\* Mutant: an amount is not scaled down to fewer decimals.
destination_amount_Undivided(source, destination, t, amount) ==
    LET source_decimals == instances[<<source, t>>].decimals
        destination_decimals == instances[<<destination, t>>].decimals
    IN  IF source_decimals >= destination_decimals THEN amount
        ELSE amount * 10^(destination_decimals - source_decimals)

\* The amount on the destination chain, 0 where the translation fails.
destination_amount(source, destination, t, amount) ==
    LET source_decimals == instances[<<source, t>>].decimals
        destination_decimals == instances[<<destination, t>>].decimals
        scaled == IF source_decimals > destination_decimals
                  THEN amount \div 10^(source_decimals - destination_decimals)
                  ELSE amount * 10^(destination_decimals - source_decimals)
    IN  IF source_decimals = destination_decimals THEN amount
        ELSE IF \/ scaled > U256Max
                \/ amount_overflows(scaled, chain_configs[destination].bits)
             THEN 0
             ELSE scaled

subtract_supply_amount(store, c, t, amount) ==
    [store EXCEPT ![<<c, t>>].supply = checked_sub(@, amount)]

add_supply_amount(store, c, t, amount) ==
    [store EXCEPT ![<<c, t>>].supply = checked_add(@, amount)]

apply_to_transfer(source, destination, m) ==
    LET t == m.token_id
        debited == subtract_supply_amount(instances, source, t, m.amount)
        amount == destination_amount(source, destination, t, m.amount)
        credited == add_supply_amount(debited, destination, t, amount)
        sent(c) == IF source = c THEN m.amount ELSE 0
        forwarded == IF destination = Axelar THEN [m EXCEPT !.amount = amount]
                     ELSE send_to_destination(source, [m EXCEPT !.amount = amount])
        received(c) == IF destination = c THEN forwarded.amount ELSE 0
        net == sent(token_configs[t]) - received(token_configs[t])
    IN  /\ Deployed(instances, source, t)
        /\ InRange(debited[<<source, t>>].supply)
        /\ Deployed(instances, destination, t)
        /\ amount # 0
        /\ InRange(credited[<<destination, t>>].supply)
        /\ instances' = credited
        /\ IF t \in minted \/ net = 0
           THEN UNCHANGED backing
           ELSE /\ backing' = [backing EXCEPT ![t] =
                        @ + net * Scale(instances[<<token_configs[t], t>>].decimals)]
                /\ backing'[t] <= MaxBacking
        /\ UNCHANGED <<token_configs, minted>>

-----------------------------------------------------------------------------
(* Executing a message from an edge contract                               *)

apply_to_hub(source, destination, m) ==
    /\ ensure_chain_not_frozen(source)
    /\ ensure_chain_not_frozen(destination)
    /\ \/ m.type = "InterchainTransfer" /\ apply_to_transfer(source, destination, m)
       \/ m.type = "DeployInterchainToken" /\ apply_to_token_deployment(source, destination, m)
       \/ m.type = "LinkToken" /\ apply_to_link_token(source, destination, m)
    /\ UNCHANGED custom_tokens

\* Mutant: registering again replaces the decimals.
MatchesRegistered_Any(c, m) == m.decimals \in Decimals

MatchesRegistered(c, m) == custom_tokens[<<c, m.token_address>>] \in {NoValue, m.decimals}

\* Registering a custom token again with the same decimals changes nothing.
register_custom_token(c, m) ==
    /\ ensure_chain_not_frozen(c)
    /\ MatchesRegistered(c, m)
    /\ custom_tokens' = [custom_tokens EXCEPT ![<<c, m.token_address>>] = m.decimals]
    /\ UNCHANGED <<token_configs, instances, history>>

execute_message(source, address, payload) ==
    LET hub_message == hub_message_abi_decode(payload)
    IN  /\ execution
        /\ ensure_is_its_source_address(source, address)
        /\ hub_message # Invalid
        /\ \/ /\ hub_message.type = "SendToHub"
              /\ apply_to_hub(source, hub_message.destination_chain, hub_message.message)
           \/ /\ hub_message.type = "RegisterTokenMetadata"
              /\ register_custom_token(source, hub_message)
        /\ UNCHANGED <<chain_configs, execution, changes>>

-----------------------------------------------------------------------------
Next ==
    \/ \E x \in Received : execute_message(x.chain, x.address, x.payload)
    \/ \E batch \in Batches : register_chains(batch) \/ update_chains(batch)
    \/ \E c \in Chains : freeze_chain(c) \/ unfreeze_chain(c)
    \/ disable_execution
    \/ enable_execution
    \/ \E c \in Chains, t \in Tokens, amount \in Amounts :
            modify_supply(c, t, amount) \/ modify_supply(c, t, -amount)
    \/ \E c, origin \in Chains, t \in Tokens, d \in Decimals,
          supply \in {Untracked} \cup Amounts :
            register_p2p_token_instance(t, c, origin, d, supply)

Spec == ItsInit /\ [][Next]_vars

-----------------------------------------------------------------------------
\* The hub never lets more of a token circulate off its origin chain than the
\* origin chain has sent out and governance has added: for a token that only
\* ITS mints off its origin, the supplies recorded on the other chains, brought
\* to the same decimals, stay within its backing, whatever the order of
\* deployments, transfers between any two chains, roundings, freezes and
\* updated chain configurations.  No tracked supply leaves Uint256, and only
\* tokens with a recorded origin have instances.
RemoteSupplyBacked ==
    /\ \A t \in Tokens \ minted : token_configs[t] # NoValue => RemoteValue(t) <= backing[t]
    /\ \A p \in Chains \X Tokens : instances[p] # NoValue =>
          /\ instances[p].supply = Untracked \/ instances[p].supply \in 0..U256Max
          /\ token_configs[p[2]] # NoValue

\* What is recorded about a token stays: the origin chain, the decimals of an
\* instance and the decimals of a custom token never change, and a tracked
\* supply never becomes untracked, so amounts in flight keep their meaning.
TokensImmutable ==
    [][/\ \A t \in Tokens : token_configs[t] # NoValue => token_configs'[t] = token_configs[t]
       /\ \A p \in Chains \X Tokens : instances[p] # NoValue =>
             /\ instances'[p] # NoValue
             /\ instances'[p].decimals = instances[p].decimals
             /\ instances[p].supply # Untracked => instances'[p].supply # Untracked
       /\ \A p \in Chains \X TokenAddresses :
             custom_tokens[p] # NoValue => custom_tokens'[p] = custom_tokens[p]]_vars

\* A transfer fits the integers of its destination chain (destination_amount:
\* "If new_amount is greater than the destination chain's `max_uint`, the
\* translation fails"): no message credits a tracked supply with more.
TransferFitsDestination ==
    [][\A c \in Chains, t \in Tokens :
          /\ changes' = changes
          /\ instances[<<c, t>>] # NoValue
          /\ instances[<<c, t>>].supply # Untracked
          => instances'[<<c, t>>].supply - instances[<<c, t>>].supply
                < 2^chain_configs[c].bits]_vars
=============================================================================
