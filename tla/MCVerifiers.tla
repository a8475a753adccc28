----------------------------- MODULE MCVerifiers -----------------------------
(***************************************************************************)
(* What verifiers do, for TLC: vote about events (EventVerifier), sign     *)
(* (Multisig), and make up their votes (SourceChainVotes).  The three      *)
(* share no state, so a behaviour runs one of them and leaves the others   *)
(* in an initial state.                                                    *)
(***************************************************************************)
EXTENDS MCEventVerifier, Multisig, SourceChainVotes

CONSTANTS a, b, c, full, zero, k1, t1, t2, gw, other

VARIABLE running

-----------------------------------------------------------------------------
\* Multisig: two verifier sets, one with unequal weights whose threshold some
\* pairs and one single signer reach, one with threshold zero; a key that two of
\* the signers can both sign with.

WeightsOf(id) == [s \in Signers |-> CASE s = a -> 1 [] s = b -> 2 [] OTHER -> 3]

MCSignersOf == [id \in VerifierSetIds |-> IF id = full THEN Signers ELSE {a, b}]
MCThresholdOf == [id \in VerifierSetIds |-> IF id = full THEN 3 ELSE 0]
MCSignerWeight == [id \in VerifierSetIds |-> WeightsOf(id)]
MCSignersWeight ==
    [id \in VerifierSetIds |-> [S \in SUBSET Signers |-> MapThenSumSet(LAMBDA s : WeightsOf(id)[s], S)]]

MCKeyTypeOf == [k \in PubKeys |-> "Ecdsa"]
MCKeyHolders == [k \in PubKeys |-> {a, b}]

-----------------------------------------------------------------------------
\* SourceChainVotes: two transactions, and polls about messages, payments, a
\* verifier set and events.

Call(content) == [contract |-> gw, type |-> "ContractCall", content |-> content]
Rotated(content) == [contract |-> gw, type |-> "SignersRotated", content |-> content]

\* The events as expected, in another place, and none.
MCLogs == [expected |-> <<Call("a"), Rotated("a")>>,
           misplaced |-> <<[Call("a") EXCEPT !.contract = other], Call("a")>>,
           none |-> << >>]

MCOutcomes == {[ok |-> TRUE, full |-> TRUE, logs |-> "expected"],
               [ok |-> TRUE, full |-> FALSE, logs |-> "misplaced"],
               [ok |-> FALSE, full |-> FALSE, logs |-> "none"]}

MCBody == (t1 :> [account |-> gw, destination |-> other, type |-> "Proof", content |-> "a", amount |-> 0])
       @@ (t2 :> [account |-> other, destination |-> gw, type |-> "InterchainTransfer",
                  content |-> "a", amount |-> 2])

Item(tx, index, type) ==
    [tx |-> tx, index |-> index, contract |-> gw, type |-> type, content |-> "a",
     details |-> Nothing, amount |-> 1, gas |-> 1]

PollStarted(type, items) ==
    [type |-> type, contract |-> "voting-verifier", source_chain |-> Chain, gateway |-> gw,
     participants |-> {v1}, expires_at |-> 1, confirmation_height |-> ReorgDepth + 1,
     items |-> items]

MCEvent ==
    [messages |-> PollStarted("messages_poll_started",
                              <<Item(t1, 0, "ContractCall"), Item(t1, 1, "ContractCall"),
                                Item(t2, 0, "ContractCall")>>),
     payments |-> [PollStarted("messages_poll_started",
                       <<Item(t1, 0, "Proof"), Item(t2, 0, "InterchainTransfer"),
                         Item(t2, 0, "CallContract")>>) EXCEPT !.contract = "xrpl-voting-verifier"],
     set      |-> PollStarted("verifier_set_poll_started", <<Item(t1, 1, "SignersRotated")>>),
     events   |-> PollStarted("events_poll_started",
                       <<Item(t1, 0, "ContractCall"),
                         [Item(t2, 0, "ContractCall") EXCEPT !.details = "a"]>>)]

MCPolls == DOMAIN MCEvent

MCContract == [h \in Handlers |-> IF h = "xrpl_verify_msg" THEN "xrpl-voting-verifier"
                                  ELSE "voting-verifier"]

-----------------------------------------------------------------------------
MCInit ==
    /\ running \in {"events", "signing", "voting"}
    /\ Init
    /\ MultisigInit
    /\ running # "signing" => block_expiry = 1
    /\ HandlersInit
    /\ running # "voting" => handler = "evm_verify_msg" /\ finalizer_type = "RPCFinalizedBlock"

MCNext ==
    /\ UNCHANGED running
    /\ \/ running = "events" /\ Next /\ UNCHANGED <<multisig_vars, handler_vars>>
       \/ running = "signing" /\ MultisigNext /\ UNCHANGED <<vars, handler_vars>>
       \/ running = "voting" /\ HandlersNext /\ UNCHANGED <<vars, multisig_vars>>

MCSpec == MCInit /\ [][MCNext]_<<running, vars, multisig_vars, handler_vars>>
=============================================================================
