-------------------------- MODULE AxelarnetGateway --------------------------
(***************************************************************************)
(* The axelarnet gateway (contracts/axelarnet-gateway): calls of contracts *)
(* on Axelar become routable messages; messages from the router become     *)
(* executable and are executed once; messages for chains of the nexus      *)
(* module go to the nexus, which is external.                              *)
(***************************************************************************)
EXTENDS RouterApi

CONSTANTS
    Contents,           \* contents of contract calls
    NexusMessages,      \* messages that the nexus module sends, as the nexus has them
    NonceMax            \* the largest nonce that fits u32; every call uses one

VARIABLES
    nonce,          \* calls for which the nexus handed out an id
    routable,       \* ROUTABLE_MESSAGES
    executable,     \* EXECUTABLE_MESSAGES: those stored, approved or executed
    executed,       \* those of them whose state is Executed
    contract_calls, \* history: messages handed to their destination contract
    nexus           \* messages that the nexus module received

axelarnet_vars == <<nonce, routable, executable, executed, contract_calls, nexus>>

\* nexus::execute::Message: an id in another format loses its transaction.
into_nexus(m) ==
    [message |-> m,
     source_tx |-> IF m.cc_id.message_id[1] = Hex THEN m.cc_id.message_id[2] ELSE 0]

\* The router message keeps the id and drops the transaction.
from_nexus(n) == n.message

AxelarnetInit ==
    /\ nonce = 0
    /\ routable = {}
    /\ executable = {}
    /\ executed = {}
    /\ contract_calls = << >>
    /\ nexus = {}

\* The nexus never hands out an id twice.
unique_cross_chain_id == CrossChainId(Axelar, Hex, nonce + 1)

\* save_unique_routable_msg: the gateway panics on an id that is taken.
IdUnused(cc_id) == \A m \in routable : m.cc_id # cc_id

\* A message under a known id must be the message that was stored.
Known(m) == \A r \in routable : r.cc_id = m.cc_id => r = m

\* Repeated messages count once and messages that no call created are ignored.
known_messages(msgs) == MessagesOf(msgs) \cap routable

\* determine_routing_destination
ForNexus(m) == m.destination_chain \in NexusChains

\* Mutant: a message that comes again becomes executable again.
still_executed_Reset(msgs) == executed \ msgs

\* save_executable_msg leaves an identical message as it is, executed or not.
still_executed(msgs) == executed

\* Messages for this chain are stored unless the id holds another message.
CanExecuteLater(m) ==
    /\ m.destination_chain = Axelar
    /\ \A e \in executable : e.cc_id = m.cc_id => e = m

\* mark_as_executed: approved, not executed, and the payload is the one hashed.
CanExecute(m, payload) == m \in executable \ executed /\ m.content = payload

\* The destination contract is called in the same transaction.
execute(m, payload) ==
    /\ CanExecute(m, payload)
    /\ executed' = executed \cup {m}
    /\ contract_calls' = Append(contract_calls, m)
    /\ UNCHANGED <<nonce, routable, executable, nexus>>
=============================================================================
