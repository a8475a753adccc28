-------------------------------- MODULE Router --------------------------------
(***************************************************************************)
(* The router contract (contracts/router): the registered chains with      *)
(* their gateways, the freezing of chains, the killswitch, and what a call *)
(* of RouteMessages accepts and where it forwards.  Routing composes it    *)
(* with the gateways it calls.                                             *)
(***************************************************************************)
EXTENDS RouterApi

VARIABLES
    endpoints,      \* CHAIN_ENDPOINTS, by chain name
    routing         \* the killswitch is disengaged

router_vars == <<endpoints, routing>>

Registered(chain) == chain \in Chains /\ endpoints[chain] # NoValue

\* The index by gateway address panics if it finds two chains.
chains_of_gateway(gateway) ==
    {c \in Chains : Registered(c) /\ endpoints[c].gateway = gateway}

GatewayFree(gateway) == chains_of_gateway(gateway) = {}

-----------------------------------------------------------------------------
RouterInit ==
    /\ endpoints = [c \in Chains |-> NoValue]
    /\ routing = TRUE

ChainEndpoint_new(gateway, format) ==
    [gateway |-> gateway, frozen_status |-> {}, msg_id_format |-> format]

register_chain(chain, gateway, format) ==
    /\ chains_of_gateway(gateway) = {}
    /\ chain \notin NexusChains
    /\ ~Registered(chain)
    /\ endpoints' = [endpoints EXCEPT ![chain] = ChainEndpoint_new(gateway, format)]
    /\ UNCHANGED routing

upgrade_gateway(chain, gateway) ==
    /\ GatewayFree(gateway)
    /\ Registered(chain)
    /\ endpoints' = [endpoints EXCEPT ![chain].gateway = gateway]
    /\ UNCHANGED routing

\* Freezing adds directions; a chain that is not registered fails the call.
freeze_chains(directions) ==
    /\ \A c \in DOMAIN directions : Registered(c)
    /\ endpoints' = [c \in Chains |->
          IF c \in DOMAIN directions
          THEN [endpoints[c] EXCEPT !.frozen_status = @ \cup directions[c]]
          ELSE endpoints[c]]
    /\ UNCHANGED routing

unfreeze_chains(directions) ==
    /\ \A c \in DOMAIN directions : Registered(c)
    /\ endpoints' = [c \in Chains |->
          IF c \in DOMAIN directions
          THEN [endpoints[c] EXCEPT !.frozen_status = @ \ directions[c]]
          ELSE endpoints[c]]
    /\ UNCHANGED routing

\* The killswitch ignores a call that does not change it.
disable_routing == routing' = FALSE /\ UNCHANGED endpoints

enable_routing == routing' = TRUE /\ UNCHANGED endpoints

RouterNext ==
    \/ \E c \in Chains, g \in Gateways \cup {axelarnet_gateway}, f \in MessageIdFormat :
          register_chain(c, g, f)
    \/ \E c \in Chains, g \in Gateways \cup {axelarnet_gateway} : upgrade_gateway(c, g)
    \/ \E S \in SUBSET Chains \ {{}} : \E d \in [S -> GatewayDirection \ {{}}] :
          freeze_chains(d) \/ unfreeze_chains(d)
    \/ disable_routing
    \/ enable_routing

-----------------------------------------------------------------------------
(***************************************************************************)
(* RouteMessages, for a set of messages: what it checks does not depend on *)
(* their order, and the gateways check a repeated message themselves.      *)
(***************************************************************************)

\* What the messages of a registered gateway must satisfy.
ValidSource(chain, msgs) ==
    /\ ~incoming_frozen(endpoints[chain])
    /\ \A m \in msgs : m.cc_id.source_chain = chain
    /\ \A m \in msgs : verify_msg_id(m, endpoints[chain].msg_id_format)

\* Sources of messages from the axelarnet gateway are unknown to the router.
validate_msgs(sender, msgs) ==
    \/ /\ sender = axelarnet_gateway
       /\ \A m \in msgs : verify_msg_id(m, Hex)
    \/ /\ sender # axelarnet_gateway
       /\ \E c \in chains_of_gateway(sender) : ValidSource(c, msgs)

\* Mutant: outgoing messages are not stopped.
CanReceive_Frozen(chain) == Registered(chain) \/ chain \in NexusChains

CanReceive(chain) ==
    IF Registered(chain) THEN ~outgoing_frozen(endpoints[chain])
                         ELSE chain \in NexusChains

destination_gateway(chain) ==
    IF Registered(chain) THEN endpoints[chain].gateway ELSE axelarnet_gateway

\* The router accepts the call; otherwise the transaction fails.
RouterAccepts(sender, msgs) ==
    /\ routing
    /\ validate_msgs(sender, msgs)
    /\ \A m \in msgs : CanReceive(m.destination_chain)
=============================================================================
