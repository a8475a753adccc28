------------------------------- MODULE Gateway -------------------------------
(***************************************************************************)
(* The gateways of external chains (contracts/gateway).  A gateway asks    *)
(* its verifier for the status of incoming messages, has them verified or  *)
(* passes the verified ones to the router, and stores the outgoing ones    *)
(* for the prover.  The verifier is abstract: a verification follows       *)
(* MessageVerification, which VotingVerifier implements, and a message     *)
(* succeeds only if its source chain emitted it.                           *)
(***************************************************************************)
EXTENDS RouterApi

CONSTANTS
    VerifierChain,      \* the source chain of a gateway's verifier, by gateway
    IncomingMessages,   \* messages that somebody may submit to a gateway
    Emitted             \* the messages among them that source chains emitted

ASSUME EmittedAssumption ==
    /\ Emitted \subseteq IncomingMessages
    /\ \A m, n \in Emitted : m.cc_id = n.cc_id => m = n

VARIABLES
    status,         \* the verifiers' status of a message
    outgoing        \* OUTGOING_MESSAGES of every gateway, a set: one message per id

gateway_vars == <<status, outgoing>>

\* A verifier knows nothing of messages from other source chains.
message_status(g, m) ==
    IF m.cc_id.source_chain = VerifierChain[g] THEN status[m] ELSE "Unknown"

\* check_for_duplicates
NoDuplicates(msgs) ==
    \A i, j \in DOMAIN msgs : msgs[i].cc_id = msgs[j].cc_id => i = j

GatewayInit ==
    /\ status = [m \in IncomingMessages |-> "Unknown"]
    /\ outgoing = [g \in Gateways |-> {}]

\* filter_verifiable_messages
Verifiable(g, m) ==
    message_status(g, m) \in {"Unknown", "NotFoundOnSourceChain", "FailedToVerify"}

\* The verifier refuses a batch with a message of another source chain.
verify_messages(g, msgs) ==
    LET verifiable == {m \in MessagesOf(msgs) : Verifiable(g, m)}
    IN  /\ NoDuplicates(msgs)
        /\ \A m \in verifiable : m.cc_id.source_chain = VerifierChain[g]
        /\ status' = [m \in IncomingMessages |->
                        IF m \in verifiable THEN "InProgress" ELSE status[m]]
        /\ UNCHANGED outgoing

Results(m) ==
    {"FailedToVerify", "NotFoundOnSourceChain", "FailedOnSourceChain"}
        \cup (IF m \in Emitted THEN {"SucceededOnSourceChain"} ELSE {})

\* The verifier's poll about a message ends, or expires.
VerificationEnds(m) ==
    /\ status[m] = "InProgress"
    /\ \E r \in Results(m) : status' = [status EXCEPT ![m] = r]
    /\ UNCHANGED outgoing

\* filter_routable_messages
Routable(g, m) == message_status(g, m) = "SucceededOnSourceChain"

\* The messages of RouteMessages that are passed on to the router.
routable_messages(g, msgs) == {m \in MessagesOf(msgs) : Routable(g, m)}

\* An identical message may be saved again, another one with its id may not.
CanSave(store, m) == \A stored \in store : stored.cc_id = m.cc_id => stored = m

\* save_outgoing_message, for several messages
saved(store, msgs) == {m \in store : \A n \in msgs : n.cc_id # m.cc_id} \cup msgs

\* The outgoing_messages query fails if one of the ids is missing.
HasOutgoing(g, ids) == \A i \in DOMAIN ids : \E m \in outgoing[g] : m.cc_id = ids[i]

outgoing_messages(g, ids) ==
    [i \in DOMAIN ids |-> CHOOSE m \in outgoing[g] : m.cc_id = ids[i]]
=============================================================================
