-------------------------- MODULE ProofConstruction --------------------------
(***************************************************************************)
(* ConstructProof of the multisig-prover contract, the reply to the        *)
(* session it starts, and the proof query.  A payload is a sequence of     *)
(* messages stored under the sequence of their ids.  Signing and the       *)
(* verifier sets are in Multisig and VerifierSetRotation; here a prover    *)
(* has a current set and a session is a number of the multisig contract.   *)
(***************************************************************************)
EXTENDS Gateway

CONSTANTS
    Provers,
    ProverChain,        \* chain_name of a prover's configuration
    ProverGateway,      \* gateway of a prover's configuration
    MaxSessions         \* bound on the signing sessions

VARIABLES
    payloads,           \* PAYLOAD of every prover
    session_payload,    \* MULTISIG_SESSION_PAYLOAD: prover and payload id of a session
    requested           \* history: the ids that the caller of a session asked for

prover_vars == <<payloads, session_payload, requested>>

ProverInit ==
    /\ payloads = [p \in Provers |-> {}]
    /\ session_payload = << >>
    /\ requested = << >>

\* Payload::id, a hash over the ids in order
payload_id(msgs) == [i \in DOMAIN msgs |-> msgs[i].cc_id]

\* Mutant: messages for other chains are signed as well.
ForChain_Any(p, msgs) == TRUE

ForChain(p, msgs) == \A i \in DOMAIN msgs : msgs[i].destination_chain = ProverChain[p]

\* Another payload under the same id fails the call.
CanStorePayload(p, msgs) ==
    \A stored \in payloads[p] : payload_id(stored) = payload_id(msgs) => stored = msgs

\* The multisig contract answers with the number of the session it started.
start_multisig_reply(p, id) == session_payload' = Append(session_payload, <<p, id>>)

\* The session is started and answered in the transaction of the call.
construct_proof(p, ids) ==
    /\ Len(session_payload) < MaxSessions
    /\ HasOutgoing(ProverGateway[p], ids)
    /\ LET msgs == outgoing_messages(ProverGateway[p], ids)
       IN  /\ ForChain(p, msgs)
           /\ CanStorePayload(p, msgs)
           /\ payloads' = [payloads EXCEPT ![p] = @ \cup {msgs}]
           /\ start_multisig_reply(p, payload_id(msgs))
           /\ requested' = Append(requested, ids)

\* The payload of the proof query.
proof(session) ==
    CHOOSE msgs \in payloads[session_payload[session][1]] :
        payload_id(msgs) = session_payload[session][2]
=============================================================================
