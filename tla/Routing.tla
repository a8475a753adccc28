------------------------------- MODULE Routing -------------------------------
(***************************************************************************)
(* Router, gateways, axelarnet gateway and provers together.  A message    *)
(* that one contract sends to another is executed in the same transaction, *)
(* so an action is a whole call with the calls it makes; if one of them    *)
(* fails, the transaction fails and nothing changes.                       *)
(***************************************************************************)
EXTENDS Router, AxelarnetGateway, ProofConstruction

CONSTANTS
    MaxBatch,       \* bound on the messages of a call
    MaxChanges      \* bound on the calls of governance and admins

VARIABLE changes    \* calls of governance and admins so far

vars == <<router_vars, gateway_vars, axelarnet_vars, prover_vars, changes>>

Init ==
    /\ RouterInit
    /\ GatewayInit
    /\ AxelarnetInit
    /\ ProverInit
    /\ changes = 0

Batches(S) == UNION {[1..n -> S] : n \in 1..MaxBatch}

\* Messages of a call by the gateway that the router forwards them to.
ForGateway(g, msgs) == {m \in msgs : destination_gateway(m.destination_chain) = g}

\* Messages that the router hands to the axelarnet gateway for this chain.
ForAxelar(msgs) == {m \in ForGateway(axelarnet_gateway, msgs) : ~ForNexus(m)}

\* route_outgoing_messages of the gateways and route_messages of the axelarnet
\* gateway succeed for what the router sends them.
GatewaysAccept(msgs) ==
    /\ \A g \in Gateways : \A m \in ForGateway(g, msgs) : CanSave(outgoing[g], m)
    /\ \A m \in ForAxelar(msgs) : CanExecuteLater(m)

\* One call of the router's route_messages with the calls it leads to, and
\* messages that the axelarnet gateway sends to the nexus in the same call.
Route(sender, msgs, to_nexus) ==
    /\ msgs # {} => RouterAccepts(sender, msgs) /\ GatewaysAccept(msgs)
    /\ outgoing' = [g \in Gateways |-> saved(outgoing[g], ForGateway(g, msgs))]
    /\ executable' = executable \cup ForAxelar(msgs)
    /\ executed' = still_executed(ForAxelar(msgs))
    /\ nexus' = nexus \cup {into_nexus(m) : m \in to_nexus \cup
                   {n \in ForGateway(axelarnet_gateway, msgs) : ForNexus(n)}}
    /\ UNCHANGED <<router_vars, status, contract_calls, prover_vars, changes>>

\* RouteMessages of a gateway, by anybody but the router.
route_incoming_messages(g, msgs) ==
    /\ NoDuplicates(msgs)
    /\ Route(g, routable_messages(g, msgs), {})
    /\ UNCHANGED <<nonce, routable>>

\* RouteMessages of the axelarnet gateway, by anybody but the router.
route_messages(msgs) ==
    LET known == known_messages(msgs)
    IN  /\ \A m \in MessagesOf(msgs) : Known(m)
        /\ Route(axelarnet_gateway, {m \in known : ~ForNexus(m)}, {m \in known : ForNexus(m)})
        /\ UNCHANGED <<nonce, routable>>

\* CallContract stores the message and routes it at once.
call_contract(destination_chain, content) ==
    LET m == Message(unique_cross_chain_id, destination_chain, content)
    IN  /\ nonce < NonceMax
        /\ IdUnused(m.cc_id)
        /\ nonce' = nonce + 1
        /\ routable' = routable \cup {m}
        /\ IF ForNexus(m) THEN Route(axelarnet_gateway, {}, {m})
                          ELSE Route(axelarnet_gateway, {m}, {})

\* A gateway refuses a chunk of messages that names one twice.
ChunksUnique(msgs) ==
    \A chunk \in Chunks(msgs) :
        destination_gateway(chunk[1].destination_chain) \in Gateways => NoDuplicates(chunk)

\* RouteMessagesFromNexus, by the nexus module.
route_messages_from_nexus(nexus_msgs) ==
    LET msgs == [i \in DOMAIN nexus_msgs |-> from_nexus(nexus_msgs[i])]
    IN  /\ ChunksUnique(msgs)
        /\ Route(axelarnet_gateway, MessagesOf(msgs), {})
        /\ UNCHANGED <<nonce, routable>>

Destinations == Chains \cup NexusChains

\* Whatever message somebody claims that a contract on Axelar sent.
ClaimedCalls ==
    {Message(CrossChainId(Axelar, Hex, n), d, c) :
        n \in 1..NonceMax, d \in Destinations, c \in Contents}

Next ==
    \/ /\ changes < MaxChanges
       /\ RouterNext
       /\ changes' = changes + 1
       /\ UNCHANGED <<gateway_vars, axelarnet_vars, prover_vars>>
    \/ \E g \in Gateways, msgs \in Batches(IncomingMessages) :
          /\ verify_messages(g, msgs)
          /\ UNCHANGED <<router_vars, axelarnet_vars, prover_vars, changes>>
    \/ \E m \in IncomingMessages :
          /\ VerificationEnds(m)
          /\ UNCHANGED <<router_vars, axelarnet_vars, prover_vars, changes>>
    \/ \E g \in Gateways, msgs \in Batches(IncomingMessages) :
          route_incoming_messages(g, msgs)
    \/ \E msgs \in Batches(ClaimedCalls) : route_messages(msgs)
    \/ \E d \in Destinations, c \in Contents : call_contract(d, c)
    \/ \E msgs \in Batches(NexusMessages) : route_messages_from_nexus(msgs)
    \/ \E m \in executable, payload \in Contents :
          /\ execute(m, payload)
          /\ UNCHANGED <<router_vars, gateway_vars, prover_vars, changes>>
    \/ \E p \in Provers : \E ids \in Batches({m.cc_id : m \in outgoing[ProverGateway[p]]}) :
          /\ construct_proof(p, ids)
          /\ UNCHANGED <<router_vars, gateway_vars, axelarnet_vars, changes>>

Spec == Init /\ [][Next]_vars

-----------------------------------------------------------------------------
(***************************************************************************)
(* Properties.                                                             *)
(***************************************************************************)
SentByNexus == {from_nexus(n) : n \in NexusMessages}

\* Where messages arrive: gateways of external chains, Axelar and the nexus.
Delivered ==
    UNION {{<<g, m>> : m \in outgoing[g]} : g \in Gateways}
        \cup {<<axelarnet_gateway, m>> : m \in executable}
        \cup {<<"nexus", n.message>> : n \in nexus}

Delivery == INSTANCE MessageDelivery WITH
    AxelarPlace <- axelarnet_gateway,
    sent <- Emitted \cup SentByNexus \cup routable,
    delivered <- Delivered,
    handed <- contract_calls

\* Whatever is verified, called, routed again, frozen or upgraded in between:
\* gateways, nexus and Axelar's executable messages only hold messages that a
\* source chain emitted, a contract on Axelar called or the nexus sent; a stored
\* message is never replaced; contracts are called once per message.
DeliveryRefined == Delivery!Spec

\* Every session of a prover is about the messages that its caller asked for,
\* all of them for the prover's chain, and they are still the messages that the
\* gateway stores: the PayloadMismatch of construct_proof cannot occur.
ProofsMatchGateway ==
    \A s \in DOMAIN session_payload :
        LET p == session_payload[s][1]
        IN  /\ payload_id(proof(s)) = requested[s]
            /\ proof(s) = outgoing_messages(ProverGateway[p], requested[s])
            /\ \A i \in DOMAIN proof(s) : proof(s)[i].destination_chain = ProverChain[p]

\* Messages newly delivered by a step.
Arrived == {d \in Delivered' : d \notin Delivered}

\* While routing is disabled nothing crosses the router; a chain that is frozen
\* for incoming messages delivers nothing and one that is frozen for outgoing
\* messages receives nothing.  Calls from Axelar to chains of the nexus do not
\* cross the router, and the router does not see the sources of messages that
\* the axelarnet gateway sends.
FrozenChainsSilent ==
    [][\A d \in Arrived :
          LET source == d[2].cc_id.source_chain
              destination == d[2].destination_chain
          IN  /\ source # Axelar \/ destination \notin NexusChains => routing
              /\ Registered(source) /\ source # Axelar => ~incoming_frozen(endpoints[source])
              /\ Registered(destination) => ~outgoing_frozen(endpoints[destination])]_vars
=============================================================================
