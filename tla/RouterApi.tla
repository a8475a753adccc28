------------------------------ MODULE RouterApi ------------------------------
(***************************************************************************)
(* What router, gateways and provers share (packages/router-api): messages *)
(* between chains, their ids, and the directions in which a chain can be   *)
(* frozen.  Source address, destination address and payload hash of a      *)
(* message are one "content"; two messages are equal, and have the same    *)
(* hash, if id, destination and content are equal.                         *)
(***************************************************************************)
EXTENDS Naturals, Sequences, FiniteSets

CONSTANTS
    Chains,             \* names of chains that the router may register
    Axelar,             \* the name of Axelar itself, one of Chains
    NexusChains,        \* chains of the nexus module, which the router does not register
    Gateways,           \* addresses of gateway contracts
    axelarnet_gateway,  \* the address of the axelarnet gateway
    NoValue             \* an entry that is absent from a map

ASSUME ChainsAssumption == Axelar \in Chains /\ Chains \cap NexusChains = {}
ASSUME GatewaysAssumption == axelarnet_gateway \notin Gateways

Hex == "HexTxHashAndEventIndex"
Base58 == "Base58TxDigestAndEventIndex"

\* The format of a message id is all that the router looks at.
MessageIdFormat == {Hex, Base58}

CrossChainId(source_chain, format, n) ==
    [source_chain |-> source_chain, message_id |-> <<format, n>>]

Message(cc_id, destination_chain, content) ==
    [cc_id |-> cc_id, destination_chain |-> destination_chain, content |-> content]

verify_msg_id(m, format) == m.cc_id.message_id[1] = format

\* None, Incoming, Outgoing and Bidirectional are sets of flags.
GatewayDirection == SUBSET {"Incoming", "Outgoing"}

ChainEndpoint ==
    [gateway : Gateways \cup {axelarnet_gateway},
     frozen_status : GatewayDirection, msg_id_format : MessageIdFormat]

incoming_frozen(endpoint) == "Incoming" \in endpoint.frozen_status

outgoing_frozen(endpoint) == "Outgoing" \in endpoint.frozen_status

MessagesOf(msgs) == {msgs[i] : i \in DOMAIN msgs}

\* Iterator::chunk_by: the maximal runs of messages with one destination.
Chunks(msgs) ==
    LET SameDestination(i, j) == msgs[i].destination_chain = msgs[j].destination_chain
        Runs == {r \in (DOMAIN msgs) \X (DOMAIN msgs) :
                    /\ r[1] <= r[2]
                    /\ \A i \in r[1]..r[2] : SameDestination(i, r[1])
                    /\ r[1] > 1 => ~SameDestination(r[1] - 1, r[1])
                    /\ r[2] < Len(msgs) => ~SameDestination(r[2], r[2] + 1)}
    IN  {SubSeq(msgs, r[1], r[2]) : r \in Runs}
=============================================================================
