------------------------------ MODULE Multisig ------------------------------
(***************************************************************************)
(* The multisig contract (contracts/multisig): provers authorized for a    *)
(* chain open signing sessions for a registered verifier set; the set's    *)
(* signers submit signatures until the session expires; the session        *)
(* completes with the signature that reaches the set's threshold, and      *)
(* every accepted signature is reported to the rewards contract.           *)
(*                                                                         *)
(* A verifier set is identified by the hash of its signers, weights, keys  *)
(* and threshold, so these are functions of its id.  A signature that does *)
(* not verify, natively or in the session's sig_verifier contract, fails   *)
(* the transaction; a failed transaction is a step that is not taken.      *)
(***************************************************************************)
EXTENDS Integers, Sequences, FiniteSets

CONSTANTS
    Signers,        \* addresses that may sign
    VerifierSetIds, \* ids of verifier sets that may be registered
    SignersOf,      \* SignersOf[id]: the signers of a set
    ThresholdOf,    \* ThresholdOf[id]: its threshold, which may be 0 or out of reach
    SignerWeight,   \* SignerWeight[id][a]: the weight of signer a in set id
    SignersWeight,  \* SignersWeight[id][S]: the sum of these weights over S
    PubKeys,        \* public keys that may be registered
    KeyTypeOf,      \* KeyTypeOf[k]: Ecdsa or Ed25519
    KeyHolders,     \* KeyHolders[k]: the addresses that can sign with k
    Provers,        \* contracts that may be authorized to open sessions
    Chains,         \* chain names
    BlockExpiries,  \* values governance may submit for block_expiry
    NoValue,        \* an entry that is absent from a map
    MaxSessions,    \* bound: the number of signing sessions
    MaxSigningHeight \* bound: the largest block height

KeyTypes == {KeyTypeOf[k] : k \in PubKeys}

ASSUME SignersAssumption ==
    /\ SignersOf \in [VerifierSetIds -> SUBSET Signers]
    /\ ThresholdOf \in [VerifierSetIds -> Nat]
    /\ SignerWeight \in [VerifierSetIds -> [Signers -> Nat]]
    /\ SignersWeight \in [VerifierSetIds -> [SUBSET Signers -> Nat]]
    /\ \A id \in VerifierSetIds : \A S, T \in SUBSET Signers :
          S \subseteq T => SignersWeight[id][S] <= SignersWeight[id][T]

ASSUME MultisigParametersAssumption ==
    /\ NoValue \notin PubKeys \cup Chains
    /\ BlockExpiries \subseteq Nat \ {0}
    /\ MaxSessions \in Nat /\ MaxSigningHeight \in Nat

VARIABLES
    signing_height,     \* the current block height
    block_expiry,       \* CONFIG.block_expiry
    signing_enabled,    \* the killswitch is disengaged
    verifier_sets,      \* VERIFIER_SETS: the ids registered
    prover_chain,       \* PROVER_CHAIN: the chain a prover may sign for
    pub_keys,           \* pub_keys(): the key of a signer and key type
    sessions,           \* SIGNING_SESSIONS; SIGNING_SESSION_COUNTER is its length
    signatures,         \* SIGNATURES: signatures[s], the signers that signed
    recorded,           \* recorded[s][a]: the RecordParticipation messages sent
    completed_events    \* completed_events[s]: the SigningCompleted events sent

multisig_vars == <<signing_height, block_expiry, signing_enabled, verifier_sets, prover_chain, pub_keys,
          sessions, signatures, recorded, completed_events>>

admin_vars == <<block_expiry, signing_enabled, verifier_sets, prover_chain, pub_keys>>
session_vars == <<sessions, signatures, recorded, completed_events>>

-----------------------------------------------------------------------------
\* Signing sessions.

SigningSession_new(verifier_set_id, chain_name, expires_at) ==
    [verifier_set_id |-> verifier_set_id, chain_name |-> chain_name,
     state |-> "Pending", completed_at |-> 0, expires_at |-> expires_at]

\* Mutant: the threshold must be exceeded.
recalculate_session_state_Above(session, signed, block_height) ==
    IF /\ session.state = "Pending"
       /\ SignersWeight[session.verifier_set_id][signed] > ThresholdOf[session.verifier_set_id]
    THEN [session EXCEPT !.state = "Completed", !.completed_at = block_height]
    ELSE session

recalculate_session_state(session, signed, block_height) ==
    IF /\ session.state = "Pending"
       /\ SignersWeight[session.verifier_set_id][signed] >= ThresholdOf[session.verifier_set_id]
    THEN [session EXCEPT !.state = "Completed", !.completed_at = block_height]
    ELSE session

\* Mutant: an expired session still takes signatures.
SessionOpen_Forever(session, block_height) == TRUE

\* The expiry check of validate_session_signature.
SessionOpen(session, block_height) == session.expires_at >= block_height

\* Mutant: signatures are taken by increasing weight.
optimize_signatures_Lightest(id, signed) ==
    {T \in SUBSET signed :
        /\ \A a \in T, b \in signed \ T : SignerWeight[id][a] <= SignerWeight[id][b]
        /\ T = signed \/ SignersWeight[id][T] >= ThresholdOf[id]
        /\ T # {} => \E a \in T : /\ \A b \in T : SignerWeight[id][a] >= SignerWeight[id][b]
                                  /\ SignersWeight[id][T \ {a}] < ThresholdOf[id]}

\* The possible results of Multisig::optimize_signatures: signatures are taken
\* by decreasing weight, in any order among equals, while the weight taken is
\* below the threshold.
optimize_signatures(id, signed) ==
    {T \in SUBSET signed :
        /\ \A a \in T, b \in signed \ T : SignerWeight[id][a] >= SignerWeight[id][b]
        /\ T = signed \/ SignersWeight[id][T] >= ThresholdOf[id]
        /\ T # {} => \E a \in T : /\ \A b \in T : SignerWeight[id][a] <= SignerWeight[id][b]
                                  /\ SignersWeight[id][T \ {a}] < ThresholdOf[id]}

-----------------------------------------------------------------------------
\* Messages.

MultisigInit ==
    /\ signing_height = 0
    /\ block_expiry \in BlockExpiries
    /\ signing_enabled = TRUE
    /\ verifier_sets = {}
    /\ prover_chain = [p \in Provers |-> NoValue]
    /\ pub_keys = [k \in Signers \X KeyTypes |-> NoValue]
    /\ sessions = <<>>
    /\ signatures = <<>>
    /\ recorded = <<>>
    /\ completed_events = <<>>

caller_authorized(prover, chain_name) == prover_chain[prover] = chain_name

\* The checked addition of the block height and the block expiry.
ExpiryFits == signing_height + block_expiry <= MaxSigningHeight

start_signing_session(prover, verifier_set_id, chain_name) ==
    /\ caller_authorized(prover, chain_name)
    /\ signing_enabled
    /\ verifier_set_id \in verifier_sets
    /\ Len(sessions) < MaxSessions
    /\ ExpiryFits
    /\ sessions' = Append(sessions,
          SigningSession_new(verifier_set_id, chain_name, signing_height + block_expiry))
    /\ signatures' = Append(signatures, {})
    /\ recorded' = Append(recorded, [a \in Signers |-> 0])
    /\ completed_events' = Append(completed_events, 0)
    /\ UNCHANGED <<signing_height, admin_vars>>

IsParticipant(session, sender) == sender \in SignersOf[session.verifier_set_id]

\* Mutant: a second signature replaces the first.
FirstSignature_Unchecked(session_id, sender) == TRUE

\* save_signature refuses a duplicate.
FirstSignature(session_id, sender) == sender \notin signatures[session_id]

\* A submitted signature that verifies; signing_response sends the reward
\* message and, when the state changed, the completion event.
submit_signature(sender, s) ==
    LET signed == signatures[s] \cup {sender}
        session == recalculate_session_state(sessions[s], signed, signing_height)
    IN  /\ signing_enabled
        /\ s \in 1..Len(sessions)
        /\ IsParticipant(sessions[s], sender)
        /\ SessionOpen(sessions[s], signing_height)
        /\ FirstSignature(s, sender)
        /\ sessions' = [sessions EXCEPT ![s] = session]
        /\ signatures' = [signatures EXCEPT ![s] = signed]
        /\ recorded' = [recorded EXCEPT ![s] = [@ EXCEPT ![sender] = @ + 1]]
        /\ completed_events' = [completed_events EXCEPT ![s] =
              IF session.state = "Completed" /\ session # sessions[s] THEN @ + 1 ELSE @]
        /\ UNCHANGED <<signing_height, admin_vars>>

register_verifier_set(id) ==
    /\ verifier_sets' = verifier_sets \cup {id}
    /\ UNCHANGED <<signing_height, block_expiry, signing_enabled, prover_chain, pub_keys, session_vars>>

KeyUnused(sender, key) == \A k \in DOMAIN pub_keys : pub_keys[k] # key

\* The sender proves that it can sign with the key; an earlier key of the same
\* type is replaced and may be registered by somebody else afterwards.
register_pub_key(sender, key) ==
    /\ sender \in KeyHolders[key]
    /\ KeyUnused(sender, key)
    /\ pub_keys' = [pub_keys EXCEPT ![<<sender, KeyTypeOf[key]>>] = key]
    /\ UNCHANGED <<signing_height, block_expiry, signing_enabled, verifier_sets, prover_chain, session_vars>>

\* The unique index of PROVER_CHAIN over the chains.
ChainFree(chain_of, prover, chain_name) == \A q \in Provers \ {prover} : chain_of[q] # chain_name

\* The provers are saved one after the other in the order of a hash map; the
\* first that violates the index fails the whole message.
authorize_callers(contracts) ==
    /\ \E order \in [1..Cardinality(DOMAIN contracts) -> DOMAIN contracts] :
          /\ DOMAIN contracts = {order[i] : i \in DOMAIN order}
          /\ \A i \in DOMAIN order :
                ChainFree([q \in Provers |-> IF \E j \in 1..(i - 1) : order[j] = q
                                             THEN contracts[q] ELSE prover_chain[q]],
                          order[i], contracts[order[i]])
    /\ prover_chain' = [p \in Provers |->
          IF p \in DOMAIN contracts THEN contracts[p] ELSE prover_chain[p]]
    /\ UNCHANGED <<signing_height, block_expiry, signing_enabled, verifier_sets, pub_keys, session_vars>>

unauthorize_callers(callers) ==
    /\ prover_chain' = [p \in Provers |-> IF p \in callers THEN NoValue ELSE prover_chain[p]]
    /\ UNCHANGED <<signing_height, block_expiry, signing_enabled, verifier_sets, pub_keys, session_vars>>

set_signing(enabled) ==
    /\ signing_enabled' = enabled
    /\ UNCHANGED <<signing_height, block_expiry, verifier_sets, prover_chain, pub_keys, session_vars>>

update_signing_parameters(expiry) ==
    /\ block_expiry' = expiry
    /\ UNCHANGED <<signing_height, signing_enabled, verifier_sets, prover_chain, pub_keys, session_vars>>

\* The chain commits a block.
NextSigningBlock ==
    /\ signing_height < MaxSigningHeight
    /\ signing_height' = signing_height + 1
    /\ UNCHANGED <<admin_vars, session_vars>>

StartSigningSession == \E p \in Provers, id \in VerifierSetIds, c \in Chains :
                          start_signing_session(p, id, c)
SubmitSignature == \E a \in Signers, s \in 1..Len(sessions) : submit_signature(a, s)
RegisterVerifierSet == \E id \in VerifierSetIds : register_verifier_set(id)
RegisterPublicKey == \E a \in Signers, k \in PubKeys : register_pub_key(a, k)
AuthorizeCallers == \E callers \in SUBSET Provers : \E contracts \in [callers -> Chains] :
                       authorize_callers(contracts)
UnauthorizeCallers == \E callers \in SUBSET Provers : unauthorize_callers(callers)
DisableSigning == set_signing(FALSE)
EnableSigning == set_signing(TRUE)
UpdateSigningParameters == \E e \in BlockExpiries : update_signing_parameters(e)

MultisigNext ==
    \/ StartSigningSession
    \/ SubmitSignature
    \/ RegisterVerifierSet
    \/ RegisterPublicKey
    \/ AuthorizeCallers
    \/ UnauthorizeCallers
    \/ DisableSigning
    \/ EnableSigning
    \/ UpdateSigningParameters
    \/ NextSigningBlock

MultisigSpec == MultisigInit /\ [][MultisigNext]_multisig_vars

-----------------------------------------------------------------------------
\* Correctness.

\* The stored state of a session, computed only when a signature arrives,
\* agrees with the signatures kept: it is completed exactly when somebody
\* signed and the signers reach the threshold, and it was completed in time.
CompletionMatchesSignatures ==
    \A s \in 1..Len(sessions) :
        LET session == sessions[s]
            id == session.verifier_set_id
        IN  /\ session.state = "Completed" <=>
                  signatures[s] # {} /\ SignersWeight[id][signatures[s]] >= ThresholdOf[id]
            /\ session.state = "Completed" => session.completed_at <= session.expires_at

\* Each signature of a session, the late ones included, is rewarded once, and
\* the completion of a session is announced once.
SignaturesRewardedOnce ==
    \A s \in 1..Len(sessions) :
        /\ \A a \in Signers : recorded[s][a] = IF a \in signatures[s] THEN 1 ELSE 0
        /\ completed_events[s] = IF sessions[s].state = "Completed" THEN 1 ELSE 0

\* What no message may do to an existing session: withdraw a signature,
\* reopen it or complete it a second time, change its expiry (parameter
\* updates only apply to future sessions), or add a signature after it
\* expired or while signing is disabled.
SessionsOnlyAdvance ==
    [][\A s \in 1..Len(sessions) :
          /\ signatures[s] \subseteq signatures'[s]
          /\ sessions'[s].expires_at = sessions[s].expires_at
          /\ sessions[s].state = "Completed" => sessions'[s] = sessions[s]
          /\ sessions[s].expires_at < signing_height \/ ~signing_enabled =>
                sessions'[s] = sessions[s] /\ signatures'[s] = signatures[s]]_multisig_vars

\* The signatures a proof is made of reach the threshold whenever the session
\* is completed, and no smaller set of the signatures kept would do.
OptimizedSignaturesSuffice ==
    \A s \in 1..Len(sessions) : sessions[s].state = "Completed" =>
        LET id == sessions[s].verifier_set_id
            chosen == optimize_signatures(id, signatures[s])
        IN  /\ chosen # {}
            /\ \A T \in chosen :
                  /\ SignersWeight[id][T] >= ThresholdOf[id]
                  /\ \A U \in SUBSET signatures[s] :
                        SignersWeight[id][U] >= ThresholdOf[id] => Cardinality(T) <= Cardinality(U)
=============================================================================
