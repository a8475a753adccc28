--------------------------- MODULE SourceChainVotes ---------------------------
(***************************************************************************)
(* How a verifier's daemon (ampd/src/handlers) votes in the polls of the   *)
(* verifier contracts: a handler sees a poll, reads what its source chain  *)
(* holds, which goes on producing blocks and reorganising meanwhile, and   *)
(* votes.  One handler runs at a time, inside the daemon or as one of the  *)
(* programs of ampd-handlers.                                              *)
(*                                                                         *)
(* The source chain is external.  Blocks at or below final are never       *)
(* replaced: the height the chain calls finalized, the blocks with enough  *)
(* confirmations (when the confirmation_height of the poll, or of the      *)
(* configuration for polls about events, exceeds the depth of a            *)
(* reorganisation), or all blocks on a chain without reorganisations.      *)
(* Its RPC nodes share one view of it, and may fail to answer.             *)
(***************************************************************************)
EXTENDS Integers, Sequences, FiniteSetsExt, SequencesExt, TLC

CONSTANTS
    Polls, Event,       \* the polls handlers see; Event[p] is the event that starts p
    Outcomes,           \* what executing a transaction may result in
    Logs,               \* the events an outcome's logs stand for
    Txs, Body,          \* the transactions; Body[tx] is what tx itself says
    Contract,           \* Contract[h] is the verifier contract that handler h watches
    Verifier, Chain, GatewayAddress, Nothing,
    ReorgDepth,         \* external: the blocks a reorganisation may replace
    MaxHead, MaxReorgs, \* bounds: the height of the source chain, its reorganisations
    MaxLatest           \* bound: the height of the Axelar chain

ASSUME SourceChainAssumption ==
    /\ ReorgDepth \in Nat /\ MaxHead \in Nat /\ MaxReorgs \in Nat /\ MaxLatest \in Nat
    /\ \A p \in Polls : Event[p].confirmation_height > ReorgDepth

VARIABLES
    handler,            \* the handler that runs
    finalizer_type,     \* how an EVM chain's configuration says blocks become final
    head, final,        \* external: the latest block of the source chain, the latest final one
    reorgs,             \* external: the number of reorganisations
    included,           \* external: the block and the outcome of a transaction, Nothing before
    latest,             \* latest_block_height, watched by the handlers
    task,               \* the poll that is handled and the answers collected for it
    ballots             \* the votes sent to the voting verifier, by poll

chain_vars == <<head, final, reorgs, included>>
handler_vars == <<handler, finalizer_type, chain_vars, latest, task, ballots>>

MessageHandlers ==
    {"evm_verify_msg", "sui_verify_msg", "stellar_verify_msg", "starknet_verify_msg",
     "solana_verify_msg", "stacks_verify_msg", "mvx_verify_msg", "xrpl_verify_msg"}
SetHandlers ==
    {"evm_verify_verifier_set", "sui_verify_verifier_set", "stellar_verify_verifier_set",
     "starknet_verify_verifier_set", "solana_verify_verifier_set",
     "stacks_verify_verifier_set", "mvx_verify_verifier_set"}
\* The programs of ampd-handlers: they vote on messages and verifier sets, or on events.
VotingPrograms == {"evm_gmp", "sui", "stellar"}
Handlers ==
    MessageHandlers \cup SetHandlers \cup VotingPrograms
    \cup {"evm_verify_event", "evm_event_verifier"}

EvmEventHandlers == {"evm_verify_event", "evm_event_verifier"}
EvmGmpHandlers == {"evm_verify_msg", "evm_verify_verifier_set", "evm_gmp"}
EvmHandlers == EvmGmpHandlers \cup EvmEventHandlers
SuiHandlers == {"sui_verify_msg", "sui_verify_verifier_set", "sui"}
StacksHandlers == {"stacks_verify_msg", "stacks_verify_verifier_set"}
StellarHandlers == {"stellar_verify_msg", "stellar_verify_verifier_set", "stellar"}
\* Chains whose blocks are not replaced once a node reports their transactions.
ImmediateHandlers == StellarHandlers \cup {"starknet_verify_msg", "starknet_verify_verifier_set"}

-----------------------------------------------------------------------------
\* External: the source chain.

ByConfirmations ==
    handler \in StacksHandlers
    \/ (handler \in EvmHandlers /\ finalizer_type = "ConfirmationHeight")

IsFinal(tx) == included[tx] # Nothing /\ included[tx].block <= final

\* A block, with one of the pending transactions at most.
Block ==
    /\ head < MaxHead
    /\ head' = head + 1
    /\ \/ UNCHANGED included
       \/ \E tx \in Txs, o \in Outcomes :
             /\ included[tx] = Nothing
             /\ included' = [included EXCEPT ![tx] =
                                [block |-> head', ok |-> o.ok, full |-> o.full,
                                 logs |-> o.logs]]
    /\ final' = IF handler \in ImmediateHandlers THEN head'
                ELSE IF ByConfirmations THEN Max({final, head' - ReorgDepth})
                ELSE final
    /\ UNCHANGED <<handler, finalizer_type, reorgs, latest, task, ballots>>

\* Consensus of the source chain makes blocks final.
Finalize ==
    /\ ~ByConfirmations
    /\ final < head
    /\ final' \in (final + 1)..head
    /\ UNCHANGED <<handler, finalizer_type, head, reorgs, included, latest, task, ballots>>

\* The blocks above a height are dropped; their transactions may return.
Reorg ==
    /\ reorgs < MaxReorgs
    /\ \E h \in final..(head - 1) :
          /\ head' = h
          /\ included' = [tx \in Txs |-> IF included[tx] # Nothing /\ included[tx].block > h
                                         THEN Nothing ELSE included[tx]]
    /\ reorgs' = reorgs + 1
    /\ UNCHANGED <<handler, finalizer_type, final, latest, task, ballots>>

-----------------------------------------------------------------------------
\* Handling a poll: the early returns of each handler.

\* The event comes from the contract the handler watches and has its type.
Addressed(p, type) == Event[p].contract = Contract[handler] /\ Event[p].type = type

\* The verifier takes part in the poll, and the poll is open as far as it knows.
Votable(p) == Verifier \in Event[p].participants /\ latest < Event[p].expires_at

\* The first request goes to the finalizer or for the transactions.
Begin(p, phase) ==
    /\ task = Nothing /\ ballots[p] = Nothing
    /\ task' = [poll |-> p, phase |-> phase, finalized |-> 0, answers |-> << >>]
    /\ UNCHANGED <<handler, finalizer_type, chain_vars, latest, ballots>>

should_skip_poll(p) == Event[p].source_chain # Chain \/ ~Votable(p)

evm_verify_msg(p) ==
    /\ handler = "evm_verify_msg" /\ Addressed(p, "messages_poll_started")
    /\ Event[p].source_chain = Chain /\ Votable(p)
    /\ Begin(p, "finalizer")

evm_verify_verifier_set(p) ==
    /\ handler = "evm_verify_verifier_set" /\ Addressed(p, "verifier_set_poll_started")
    /\ Event[p].source_chain = Chain /\ Votable(p)
    /\ Begin(p, "finalizer")

evm_verify_event(p) ==
    /\ handler = "evm_verify_event" /\ Addressed(p, "events_poll_started")
    /\ ~should_skip_poll(p)
    /\ Begin(p, "finalizer")

stacks_verify_msg(p) ==
    /\ handler = "stacks_verify_msg" /\ Addressed(p, "messages_poll_started")
    /\ Event[p].source_chain = Chain /\ Votable(p)
    /\ Begin(p, "finalizer")

stacks_verify_verifier_set(p) ==
    /\ handler = "stacks_verify_verifier_set" /\ Addressed(p, "verifier_set_poll_started")
    /\ Event[p].source_chain = Chain /\ Votable(p)
    /\ Begin(p, "finalizer")

\* The handlers of Solana also compare the gateway with their own.
solana_verify_msg(p) ==
    /\ handler = "solana_verify_msg" /\ Addressed(p, "messages_poll_started")
    /\ Event[p].source_chain = Chain /\ Event[p].gateway = GatewayAddress /\ Votable(p)
    /\ Begin(p, "transactions")

solana_verify_verifier_set(p) ==
    /\ handler = "solana_verify_verifier_set" /\ Addressed(p, "verifier_set_poll_started")
    /\ Event[p].source_chain = Chain /\ Event[p].gateway = GatewayAddress /\ Votable(p)
    /\ Begin(p, "transactions")

\* The other handlers do not compare the chain.
sui_verify_msg(p) ==
    /\ handler = "sui_verify_msg" /\ Addressed(p, "messages_poll_started")
    /\ Votable(p) /\ Begin(p, "transactions")

sui_verify_verifier_set(p) ==
    /\ handler = "sui_verify_verifier_set" /\ Addressed(p, "verifier_set_poll_started")
    /\ Votable(p) /\ Begin(p, "transactions")

stellar_verify_msg(p) ==
    /\ handler = "stellar_verify_msg" /\ Addressed(p, "messages_poll_started")
    /\ Votable(p) /\ Begin(p, "transactions")

stellar_verify_verifier_set(p) ==
    /\ handler = "stellar_verify_verifier_set" /\ Addressed(p, "verifier_set_poll_started")
    /\ Votable(p) /\ Begin(p, "transactions")

starknet_verify_msg(p) ==
    /\ handler = "starknet_verify_msg" /\ Addressed(p, "messages_poll_started")
    /\ Votable(p) /\ Begin(p, "transactions")

starknet_verify_verifier_set(p) ==
    /\ handler = "starknet_verify_verifier_set" /\ Addressed(p, "verifier_set_poll_started")
    /\ Votable(p) /\ Begin(p, "transactions")

mvx_verify_msg(p) ==
    /\ handler = "mvx_verify_msg" /\ Addressed(p, "messages_poll_started")
    /\ Votable(p) /\ Begin(p, "transactions")

mvx_verify_verifier_set(p) ==
    /\ handler = "mvx_verify_verifier_set" /\ Addressed(p, "verifier_set_poll_started")
    /\ Votable(p) /\ Begin(p, "transactions")

xrpl_verify_msg(p) ==
    /\ handler = "xrpl_verify_msg" /\ Addressed(p, "messages_poll_started")
    /\ Votable(p) /\ Begin(p, "transactions")

\* The programs of ampd-handlers subscribe to the polls of their chain and ask
\* the daemon for its latest height.
should_skip_voting(p) ==
    \/ Event[p].source_chain # Chain
    \/ Verifier \notin Event[p].participants
    \/ latest >= Event[p].expires_at

VotingHandler(p) ==
    /\ handler \in VotingPrograms
    /\ Addressed(p, "messages_poll_started") \/ Addressed(p, "verifier_set_poll_started")
    /\ ~should_skip_voting(p)
    /\ Begin(p, IF handler = "evm_gmp" THEN "finalizer" ELSE "transactions")

evm_event_verifier(p) ==
    /\ handler = "evm_event_verifier" /\ Addressed(p, "events_poll_started")
    /\ ~should_skip_poll(p)
    /\ Begin(p, "finalizer")

-----------------------------------------------------------------------------
\* The finalizers.

RPCFinalizer == final

\* Mutant: one is added after the confirmations were subtracted.
ConfirmationHeightFinalizer_AddedLast(p) == Max({head - Event[p].confirmation_height, 0}) + 1

\* The subtraction saturates.
ConfirmationHeightFinalizer(p) == Max({head + 1 - Event[p].confirmation_height, 0})

pick(p) == IF finalizer_type = "RPCFinalizedBlock" THEN RPCFinalizer
           ELSE ConfirmationHeightFinalizer(p)

stacks_latest_finalized_block_height(p) == Max({head + 1 - Event[p].confirmation_height, 0})

\* The height is read before the transactions are asked for.
latest_finalized_block_height ==
    /\ task # Nothing /\ task.phase = "finalizer"
    /\ task' = [task EXCEPT !.phase = "transactions",
                            !.finalized = IF handler \in StacksHandlers
                                          THEN stacks_latest_finalized_block_height(task.poll)
                                          ELSE pick(task.poll)]
    /\ UNCHANGED <<handler, finalizer_type, chain_vars, latest, ballots>>

-----------------------------------------------------------------------------
\* The RPC clients: what they make of a transaction, Nothing if it is not to be used.

finalized_tx_receipts(r) == IF r.block <= task.finalized THEN r ELSE Nothing

\* The full transaction, asked for besides the receipt, may be missing.
fetch_finalized_tx_receipts(r, found) ==
    IF r.block <= task.finalized THEN [r EXCEPT !.full = found] ELSE Nothing

\* A checkpoint is there once the transaction is final.
finalized_transaction_blocks(r) == IF r.block <= final THEN r ELSE Nothing

\* Commitment level "finalized".
solana_tx(r) == IF r.block <= final THEN r ELSE Nothing

is_valid_transaction(r) == IF r.ok /\ r.block <= task.finalized THEN r ELSE Nothing

\* Notarized in the metachain once final.
mvx_is_valid_transaction(r) == IF r.ok /\ r.block <= final THEN r ELSE Nothing

validated_txs(r) == IF r.block <= final THEN r ELSE Nothing

\* Failed transactions are not told from transactions that are not there.
event_by_message_id(r) == IF r.ok THEN r ELSE Nothing

\* Any status but SUCCESS, NOT_FOUND as well, is a failed transaction.
TxResponse(r) ==
    IF r # Nothing /\ r.ok THEN r ELSE [block |-> 0, ok |-> FALSE, full |-> FALSE, logs |-> "none"]

\* finalized_txs of the programs.
evm_gmp_finalized_txs(r) == IF r.block <= task.finalized THEN r ELSE Nothing

sui_finalized_txs(r) == finalized_transaction_blocks(r)

stellar_finalized_txs(r) == TxResponse(r)

\* The answers the client may give for a transaction that a node holds as r.
Answers(r) ==
    CASE handler = "stellar" -> {stellar_finalized_txs(r)}
      [] handler \in StellarHandlers -> {TxResponse(r)}
      [] r = Nothing -> {Nothing}
      [] handler = "evm_gmp" -> {evm_gmp_finalized_txs(r)}
      [] handler = "sui" -> {sui_finalized_txs(r)}
      [] handler \in EvmGmpHandlers -> {finalized_tx_receipts(r)}
      [] handler \in EvmEventHandlers -> {fetch_finalized_tx_receipts(r, found) : found \in BOOLEAN}
      [] handler \in SuiHandlers -> {finalized_transaction_blocks(r)}
      [] handler \in {"solana_verify_msg", "solana_verify_verifier_set"} -> {solana_tx(r)}
      [] handler \in StacksHandlers -> {is_valid_transaction(r)}
      [] handler \in {"mvx_verify_msg", "mvx_verify_verifier_set"} -> {mvx_is_valid_transaction(r)}
      [] handler = "xrpl_verify_msg" -> {validated_txs(r)}
      [] OTHER -> {event_by_message_id(r)}

\* Handlers that fail, to be tried again, when a node does not answer.
Strict == {"evm_verify_verifier_set"} \cup SuiHandlers

\* Starknet's client is asked once per message, the others once per transaction.
Request(item) == <<item.tx, IF handler = "starknet_verify_msg" THEN item.index ELSE 0>>

\* Requests for the transactions run concurrently; one that fails counts as
\* a transaction that is not there.
Fetch ==
    /\ task # Nothing /\ task.phase = "transactions"
    /\ \E q \in {Request(item) : item \in Range(Event[task.poll].items)} \ DOMAIN task.answers :
          \E a \in Answers(included[q[1]]) \cup (IF handler \in Strict THEN {} ELSE {Nothing}) :
             task' = [task EXCEPT !.answers = @ @@ (q :> a)]
    /\ UNCHANGED <<handler, finalizer_type, chain_vars, latest, ballots>>

\* handle returns an error: the finalizer, or a request of a strict handler, failed.
HandleFails ==
    /\ task # Nothing
    /\ task.phase = "finalizer" \/ handler \in Strict
    /\ task' = Nothing
    /\ UNCHANGED <<handler, finalizer_type, chain_vars, latest, ballots>>

-----------------------------------------------------------------------------
\* The verifiers: a vote on an item of the poll, given its transaction.

Decide(succeeded) == IF succeeded THEN "SucceededOnChain" ELSE "NotFound"

\* The event at an index is of a type, from a contract, and says what the item says.
EventAt(r, index, contract, type, content) ==
    /\ index + 1 \in DOMAIN Logs[r.logs]
    /\ Logs[r.logs][index + 1] = [contract |-> contract, type |-> type, content |-> content]

evm_verify(r, p, item) ==
    IF ~r.ok THEN "FailedOnChain"
    ELSE Decide(EventAt(r, item.index, Event[p].gateway, item.type, item.content))

\* Events of any contract; the transaction's details only when they are given.
evm_verify_events(r, p, item) ==
    IF ~r.ok THEN "FailedOnChain"
    ELSE Decide(/\ item.details = Nothing \/ (r.full /\ Body[item.tx].content = item.details)
                /\ EventAt(r, item.index, item.contract, item.type, item.content))

sui_verify(r, p, item) == Decide(EventAt(r, item.index, Event[p].gateway, item.type, item.content))

stellar_verify(r, p, item) ==
    IF ~r.ok THEN "FailedOnChain"
    ELSE Decide(EventAt(r, item.index, Event[p].gateway, item.type, item.content))

starknet_verify(r, p, item) == Decide(EventAt(r, item.index, Event[p].gateway, item.type, item.content))

solana_verify(r, p, item) ==
    IF ~r.ok THEN "FailedOnChain"
    ELSE Decide(EventAt(r, item.index, Event[p].gateway, item.type, item.content))

stacks_verify(r, p, item) == Decide(EventAt(r, item.index, Event[p].gateway, item.type, item.content))

mvx_verify(r, p, item) == Decide(EventAt(r, item.index, Event[p].gateway, item.type, item.content))

\* A transaction that the multisig account signed for the prover.
is_valid_prover_message(r, p, item) ==
    LET body == Body[item.tx] IN
    body.account = Event[p].gateway /\ body.type = "Proof" /\ body.content = item.content

\* A payment to the multisig account, delivered in full.
ValidPayment(r, p, item) ==
    LET body == Body[item.tx] IN
    body.destination = Event[p].gateway /\ r.full /\ body.type = item.type /\ body.content = item.content

\* The payment also holds the gas fee.
is_valid_interchain_transfer_message(r, p, item) ==
    ValidPayment(r, p, item) /\ item.amount + item.gas <= Body[item.tx].amount

is_valid_call_contract_message(r, p, item) ==
    ValidPayment(r, p, item) /\ item.amount = Body[item.tx].amount

xrpl_verify_message(r, p, item) ==
    IF CASE item.type = "Proof" -> is_valid_prover_message(r, p, item)
         [] item.type = "InterchainTransfer" -> is_valid_interchain_transfer_message(r, p, item)
         [] OTHER -> is_valid_call_contract_message(r, p, item)
    THEN IF r.ok THEN "SucceededOnChain" ELSE "FailedOnChain"
    ELSE "NotFound"

Verify(r, p, item) ==
    CASE r = Nothing -> "NotFound"
      [] handler \in EvmGmpHandlers -> evm_verify(r, p, item)
      [] handler \in EvmEventHandlers -> evm_verify_events(r, p, item)
      [] handler \in SuiHandlers -> sui_verify(r, p, item)
      [] handler \in StellarHandlers -> stellar_verify(r, p, item)
      [] handler \in {"starknet_verify_msg", "starknet_verify_verifier_set"} ->
            starknet_verify(r, p, item)
      [] handler \in {"solana_verify_msg", "solana_verify_verifier_set"} -> solana_verify(r, p, item)
      [] handler \in StacksHandlers -> stacks_verify(r, p, item)
      [] handler \in {"mvx_verify_msg", "mvx_verify_verifier_set"} -> mvx_verify(r, p, item)
      [] OTHER -> xrpl_verify_message(r, p, item)

\* Starknet's handler votes once for messages with the same id.
VotedItems(p) ==
    IF handler = "starknet_verify_msg"
    THEN LET first == {i \in DOMAIN Event[p].items :
                          \A j \in 1..(i - 1) : Request(Event[p].items[j]) # Request(Event[p].items[i])}
             order == SetToSortSeq(first, <)
         IN  [k \in DOMAIN order |-> Event[p].items[order[k]]]
    ELSE Event[p].items

CastVotes ==
    /\ task # Nothing /\ task.phase = "transactions"
    /\ LET p == task.poll
           items == VotedItems(p)
       IN  /\ \A item \in Range(items) : Request(item) \in DOMAIN task.answers
           /\ ballots' = [ballots EXCEPT ![p] =
                           [i \in DOMAIN items |->
                               Verify(task.answers[Request(items[i])], p, items[i])]]
    /\ task' = Nothing
    /\ UNCHANGED <<handler, finalizer_type, chain_vars, latest>>

\* The block height monitor's next block.
LatestBlock ==
    /\ latest < MaxLatest
    /\ latest' = latest + 1
    /\ UNCHANGED <<handler, finalizer_type, chain_vars, task, ballots>>

-----------------------------------------------------------------------------
HandlersInit ==
    /\ handler \in Handlers
    /\ finalizer_type \in {"RPCFinalizedBlock"}
                         \cup (IF handler \in EvmHandlers THEN {"ConfirmationHeight"} ELSE {})
    /\ head = 0 /\ final = 0 /\ reorgs = 0
    /\ included = [tx \in Txs |-> Nothing]
    /\ latest = 0
    /\ task = Nothing
    /\ ballots = [p \in Polls |-> Nothing]

Handle ==
    \E p \in Polls :
        \/ evm_verify_msg(p)
        \/ evm_verify_verifier_set(p)
        \/ evm_verify_event(p)
        \/ stacks_verify_msg(p)
        \/ stacks_verify_verifier_set(p)
        \/ solana_verify_msg(p)
        \/ solana_verify_verifier_set(p)
        \/ sui_verify_msg(p)
        \/ sui_verify_verifier_set(p)
        \/ stellar_verify_msg(p)
        \/ stellar_verify_verifier_set(p)
        \/ starknet_verify_msg(p)
        \/ starknet_verify_verifier_set(p)
        \/ mvx_verify_msg(p)
        \/ mvx_verify_verifier_set(p)
        \/ xrpl_verify_msg(p)
        \/ VotingHandler(p)
        \/ evm_event_verifier(p)

HandlersNext ==
    \/ Block
    \/ Finalize
    \/ Reorg
    \/ Handle
    \/ latest_finalized_block_height
    \/ Fetch
    \/ HandleFails
    \/ CastVotes
    \/ LatestBlock

-----------------------------------------------------------------------------
\* Correctness.

\* The transaction of an item is final and did what the item says.
Happened(p, item) ==
    /\ IsFinal(item.tx) /\ included[item.tx].ok
    /\ IF handler = "xrpl_verify_msg"
       THEN /\ Body[item.tx].content = item.content /\ Body[item.tx].type = item.type
            /\ Event[p].gateway \in {Body[item.tx].account, Body[item.tx].destination}
            /\ item.type # "Proof" => included[item.tx].full
       ELSE EventAt(included[item.tx], item.index,
                    IF handler \in EvmEventHandlers THEN item.contract ELSE Event[p].gateway,
                    item.type, item.content)

\* Votes stay true: whatever blocks, reorganisations and answers of the nodes
\* came in while a poll was handled, a vote of success is about a transaction
\* that is final and holds the item's event at the item's index, and a vote of
\* failure about one that is final and failed, so that no later reorganisation
\* makes them wrong.  There is one vote for every item, in the poll's order,
\* when the items have different ids.  Stellar's votes of failure are
\* excepted: its handlers cast them also for transactions that no node knows.
VotesFinal ==
    \A p \in Polls : ballots[p] # Nothing =>
        /\ Len(ballots[p]) = Len(Event[p].items)
        /\ \A i \in DOMAIN ballots[p] :
              /\ ballots[p][i] = "SucceededOnChain" => Happened(p, Event[p].items[i])
              /\ (ballots[p][i] = "FailedOnChain" /\ handler \notin StellarHandlers) =>
                    IsFinal(Event[p].items[i].tx) /\ ~included[Event[p].items[i].tx].ok
=============================================================================
