------------------------------ MODULE Broadcaster ------------------------------
(***************************************************************************)
(* How ampd's messages get into transactions (ampd/src/broadcast): clients *)
(* estimate the gas of their messages and send them to the message queue,  *)
(* which batches them; the broadcaster task makes each batch a transaction *)
(* with the next sequence number of its account and answers the clients;   *)
(* the transaction confirmer follows up on what was broadcast.             *)
(*                                                                         *)
(* The account's sequence is shared by the clients, that correct it when   *)
(* an estimate fails, and the broadcaster.  External: the node, with the   *)
(* sequence it expects next and the one of the last block, which other     *)
(* programs that use the account, new blocks and transactions that are     *)
(* dropped change at any time.                                             *)
(***************************************************************************)
EXTENDS Integers, Sequences, SequencesExt, FiniteSets, FiniteSetsExt

CONSTANTS
    Messages,
    Gas,                 \* the gas a message may be estimated to need
    gas_cap,             \* batch_gas_limit
    queue_cap,           \* of the channel to the message queue
    confirmer_cap,       \* tx_confirmation_queue_cap
    buffer_size,         \* tx_confirmation_buffer_size
    MaxSequence          \* bound: the sequence the node expects

ASSUME BroadcasterAssumption ==
    /\ Gas \subseteq Nat \ {0} /\ gas_cap \in Nat
    /\ {queue_cap, confirmer_cap, buffer_size} \subseteq Nat \ {0}
    /\ MaxSequence \in Nat

VARIABLES
    message,        \* gas and progress of each message
    answers,        \* what the client of a message was told
    mpsc,           \* the channel to the message queue
    queue,          \* the messages that wait to be a batch
    gas_cost,       \* of the messages in queue
    sent,           \* the messages in the order they entered the queue
    batch,          \* the batch that is broadcast, and how far it got
    acc_sequence,
    node_sequence,  \* external: the sequence the node expects
    account,        \* external: the sequence of the last block
    moved,          \* history: node_sequence moved, by something else than a
                    \* transaction of this broadcaster, since acc_sequence was set to it
    txs,            \* the transactions that were signed and sent
    confirmations,  \* the hashes that wait for the confirmer, and how many it works on
    task_status,    \* of the broadcaster task and the confirmer
    token           \* whether the daemon's token is cancelled

client_vars == <<message, answers>>
queue_vars == <<mpsc, queue, gas_cost, sent>>
node_vars == <<node_sequence, account, moved>>
broadcast_vars == <<client_vars, queue_vars, batch, acc_sequence, node_vars, txs,
                    confirmations, task_status, token>>

Running(t) == task_status[t] = "running"

GasOf(ms) == MapThenSumSet(LAMBDA m : message[m].gas, ToSet(ms))

\* An error, "none" when the transaction and the place of the message in it are
\* named; "waiting" before there is an answer.
Error(e) == [error |-> e, tx |-> 0, index |-> 0]

\* The clients of messages get an error.
Answered(ms, e) == [m \in Messages |-> IF m \in ms THEN Error(e) ELSE answers[m]]

-----------------------------------------------------------------------------
\* External: the node.

\* A transaction of another program that uses the account.
OtherTransaction ==
    /\ node_sequence < MaxSequence
    /\ node_sequence' = node_sequence + 1
    /\ moved' = TRUE
    /\ UNCHANGED <<client_vars, queue_vars, batch, acc_sequence, account, txs, confirmations,
                   task_status, token>>

BlockCommitted ==
    /\ account # node_sequence
    /\ account' = node_sequence
    /\ UNCHANGED <<client_vars, queue_vars, batch, acc_sequence, node_sequence, moved, txs,
                   confirmations, task_status, token>>

\* Transactions that were accepted are dropped before they are in a block.
MempoolDropped ==
    /\ account # node_sequence
    /\ node_sequence' = account
    /\ moved' = TRUE
    /\ UNCHANGED <<client_vars, queue_vars, batch, acc_sequence, account, txs, confirmations,
                   task_status, token>>

-----------------------------------------------------------------------------
\* Clients of the message queue (msg_queue.rs, broadcaster.rs).

\* The second call uses the sequence that the node named in the error of the
\* first; a call that fails for another reason may leave the sequence alone.
estimate_gas(ok) ==
    /\ UNCHANGED <<node_sequence, account>>
    /\ \/ acc_sequence' = node_sequence /\ moved' = FALSE
       \/ ~ok /\ UNCHANGED <<acc_sequence, moved>>

\* enqueue_with_channel up to the channel.
enqueue(m) ==
    /\ message[m].at = "new"
    /\ \E ok \in BOOLEAN :
          /\ estimate_gas(ok)
          /\ IF ok
             THEN /\ \E gas \in Gas :
                        message' = [message EXCEPT ![m] = [at |-> "estimated", gas |-> gas]]
                  /\ UNCHANGED answers
             ELSE /\ message' = [message EXCEPT ![m].at = "failed"]
                  /\ answers' = Answered({m}, "EstimateGas")
    /\ UNCHANGED <<queue_vars, batch, txs, confirmations, task_status, token>>

\* The send waits for room in the channel; it fails when the queue is gone.
enqueue_with_channel(m) ==
    /\ message[m].at = "estimated"
    /\ IF Running("broadcaster")
       THEN /\ Len(mpsc) < queue_cap
            /\ mpsc' = Append(mpsc, m)
            /\ message' = [message EXCEPT ![m].at = "sent"]
            /\ UNCHANGED answers
       ELSE /\ message' = [message EXCEPT ![m].at = "failed"]
            /\ answers' = Answered({m}, "EnqueueMsg")
            /\ UNCHANGED mpsc
    /\ UNCHANGED <<queue, gas_cost, sent, batch, acc_sequence, node_vars, txs, confirmations,
                   task_status, token>>

-----------------------------------------------------------------------------
\* The message queue (MsgQueue::poll_next and Queue).

\* The broadcaster task waits for a batch; it takes none once it is cancelled.
Polled == Running("broadcaster") /\ batch.at = "none" /\ ~token

Release(ms) == batch' = [at |-> "released", msgs |-> ms]

\* Mutant: the messages stay in the queue.
pop_all_Kept == UNCHANGED queue /\ gas_cost' = 0

pop_all == queue' = << >> /\ gas_cost' = 0

push_or(m) ==
    LET gas == message[m].gas
        total == gas_cost + gas
    IN  \/ /\ gas > gas_cap
           /\ answers' = Answered({m}, "GasExceedsGasCap")
           /\ UNCHANGED <<queue, gas_cost, batch>>
        \/ /\ gas <= gas_cap /\ total > gas_cap
           /\ Release(queue)
           /\ queue' = <<m>> /\ gas_cost' = gas
           /\ UNCHANGED answers
        \/ /\ gas <= gas_cap /\ total = gas_cap
           /\ Release(Append(queue, m))
           /\ pop_all
           /\ UNCHANGED answers
        \/ /\ total < gas_cap
           /\ queue' = Append(queue, m) /\ gas_cost' = total
           /\ UNCHANGED <<answers, batch>>

poll_next_Message ==
    /\ Polled /\ mpsc # << >>
    /\ mpsc' = Tail(mpsc)
    /\ sent' = Append(sent, Head(mpsc))
    /\ push_or(Head(mpsc))
    /\ UNCHANGED <<message, acc_sequence, node_vars, txs, confirmations, task_status, token>>

\* Mutant: the deadline is only looked at when the queue has room for nothing more.
poll_next_Deadline_Full ==
    /\ Polled /\ mpsc = << >> /\ queue # << >> /\ gas_cost = gas_cap
    /\ Release(queue)
    /\ pop_all
    /\ UNCHANGED <<client_vars, mpsc, sent, acc_sequence, node_vars, txs, confirmations,
                   task_status, token>>

\* The deadline, or the end of the clients, releases what is queued.
poll_next_Deadline ==
    /\ Polled /\ mpsc = << >> /\ queue # << >>
    /\ Release(queue)
    /\ pop_all
    /\ UNCHANGED <<client_vars, mpsc, sent, acc_sequence, node_vars, txs, confirmations,
                   task_status, token>>

-----------------------------------------------------------------------------
\* The broadcaster task (mod.rs and Broadcaster::broadcast).

estimate_fee ==
    /\ batch.at = "released"
    /\ \E ok \in BOOLEAN : /\ estimate_gas(ok)
                           /\ batch' = [batch EXCEPT !.at = IF ok THEN "estimated" ELSE "failed"]
    /\ UNCHANGED <<client_vars, queue_vars, txs, confirmations, task_status, token>>

\* External: the node takes a transaction with the sequence it expects, and
\* answers with the transaction's hash whether it takes it or not.
NodeReceives ==
    /\ txs' = Append(txs, batch.msgs)
    /\ node_sequence' = IF acc_sequence = node_sequence THEN node_sequence + 1 ELSE node_sequence


broadcast_Ok ==
    /\ NodeReceives
    /\ acc_sequence' = acc_sequence + 1
    /\ batch' = [batch EXCEPT !.at = "broadcast"]
    /\ UNCHANGED moved

\* The call fails, before or after the node received the transaction; the
\* sequence is reset to the account's unless that query fails too.
broadcast_Err ==
    /\ NodeReceives \/ UNCHANGED <<txs, node_sequence>>
    /\ \/ acc_sequence' = account
       \/ UNCHANGED acc_sequence
    /\ moved' = (moved \/ acc_sequence' # node_sequence')
    /\ batch' = [batch EXCEPT !.at = "failed"]

broadcast_SignTx ==
    /\ batch' = [batch EXCEPT !.at = "failed"]
    /\ UNCHANGED <<acc_sequence, node_sequence, moved, txs>>

broadcast ==
    /\ batch.at = "estimated"
    /\ broadcast_Ok \/ broadcast_Err \/ broadcast_SignTx
    /\ UNCHANGED <<client_vars, queue_vars, account, confirmations, task_status, token>>

Ends(t) == task_status' = [task_status EXCEPT ![t] = "ended"]

NoBatch == batch' = [at |-> "none", msgs |-> << >>]

\* The callbacks of messages the task still holds are dropped with it.
Dropped(ms) == answers' = Answered(ms, "ReceiveTxResult")

Index(ms, m) == CHOOSE i \in DOMAIN ms : ms[i] = m

\* The confirmer is told first, which may have to wait; a confirmer that is
\* gone ends the task.  Then the clients are told.
handle_tx_res_Ok ==
    /\ batch.at = "broadcast"
    /\ IF Running("confirmer")
       THEN /\ confirmations.queued < confirmer_cap
            /\ confirmations' = [confirmations EXCEPT !.queued = @ + 1]
            /\ answers' = [m \in Messages |->
                              IF m \in ToSet(batch.msgs)
                              THEN [error |-> "none", tx |-> Len(txs), index |-> Index(batch.msgs, m)]
                              ELSE answers[m]]
            /\ UNCHANGED <<task_status, mpsc, queue, gas_cost, token>>
       ELSE /\ Ends("broadcaster")
            /\ Dropped(ToSet(batch.msgs) \cup ToSet(mpsc) \cup ToSet(queue))
            /\ mpsc' = << >>
            /\ pop_all
            /\ token' = TRUE
            /\ UNCHANGED confirmations
    /\ NoBatch
    /\ UNCHANGED <<message, sent, acc_sequence, node_vars, txs>>

handle_tx_res_Err ==
    /\ batch.at = "failed"
    /\ answers' = Answered(ToSet(batch.msgs), "Broadcast")
    /\ NoBatch
    /\ UNCHANGED <<message, queue_vars, acc_sequence, node_vars, txs, confirmations,
                   task_status, token>>

BroadcasterTask_Cancelled ==
    /\ token /\ Running("broadcaster") /\ batch.at = "none"
    /\ Ends("broadcaster")
    /\ Dropped(ToSet(mpsc) \cup ToSet(queue))
    /\ mpsc' = << >>
    /\ pop_all
    /\ UNCHANGED <<message, sent, batch, acc_sequence, node_vars, txs, confirmations, token>>

-----------------------------------------------------------------------------
\* The transaction confirmer, and the daemon's shutdown.

confirm_tx_Starts ==
    /\ Running("confirmer") /\ ~token
    /\ confirmations.queued > 0 /\ confirmations.confirming < buffer_size
    /\ confirmations' = [queued |-> confirmations.queued - 1,
                         confirming |-> confirmations.confirming + 1]
    /\ UNCHANGED <<client_vars, queue_vars, batch, acc_sequence, node_vars, txs, task_status,
                   token>>

\* Found, failed or given up after the retries: it is only logged.
confirm_tx ==
    /\ confirmations.confirming > 0
    /\ confirmations' = [confirmations EXCEPT !.confirming = @ - 1]
    /\ UNCHANGED <<client_vars, queue_vars, batch, acc_sequence, node_vars, txs, task_status,
                   token>>

confirmer_Cancelled ==
    /\ token /\ Running("confirmer") /\ confirmations.confirming = 0
    /\ Ends("confirmer")
    /\ UNCHANGED <<client_vars, queue_vars, batch, acc_sequence, node_vars, txs,
                   confirmations, token>>

Cancel ==
    /\ ~token /\ token' = TRUE
    /\ UNCHANGED <<client_vars, queue_vars, batch, acc_sequence, node_vars, txs,
                   confirmations, task_status>>

-----------------------------------------------------------------------------
\* The sequence is queried when the broadcaster is built.
BroadcasterInit ==
    /\ message = [m \in Messages |-> [at |-> "new", gas |-> 0]]
    /\ answers = [m \in Messages |-> Error("waiting")]
    /\ mpsc = << >> /\ queue = << >> /\ gas_cost = 0 /\ sent = << >>
    /\ batch = [at |-> "none", msgs |-> << >>]
    /\ account \in 0..MaxSequence /\ node_sequence \in account..MaxSequence
    /\ acc_sequence = account
    /\ moved = (account # node_sequence)
    /\ txs = << >>
    /\ confirmations = [queued |-> 0, confirming |-> 0]
    /\ task_status = [t \in {"broadcaster", "confirmer"} |-> "running"]
    /\ token = FALSE

BroadcasterStep ==
    \/ poll_next_Message \/ poll_next_Deadline
    \/ estimate_fee \/ broadcast
    \/ handle_tx_res_Ok \/ handle_tx_res_Err \/ BroadcasterTask_Cancelled

ConfirmerStep == confirm_tx_Starts \/ confirm_tx \/ confirmer_Cancelled

BroadcasterNext ==
    \/ OtherTransaction \/ BlockCommitted \/ MempoolDropped
    \/ \E m \in Messages : enqueue(m) \/ enqueue_with_channel(m)
    \/ BroadcasterStep
    \/ ConfirmerStep
    \/ Cancel

\* The tasks are scheduled, calls of the node and of the signer end, the deadline
\* elapses; a client whose message is estimated sends it when there is room.
BroadcasterFairness ==
    /\ WF_broadcast_vars(BroadcasterStep)
    /\ WF_broadcast_vars(ConfirmerStep)
    /\ \A m \in Messages : WF_broadcast_vars(enqueue_with_channel(m))

-----------------------------------------------------------------------------
\* A message is in at most one transaction, and only the client of a message in
\* a transaction is told of one: the transaction and the place the message has
\* in it.  A transaction's messages are together, in the order in which the
\* queue got them, and need no more gas than batch_gas_limit; transactions are
\* sent in that order too.  Only messages over the limit or of a batch that
\* failed before it was sent are left out.
MessagesOnce ==
    LET Transmitted == FlattenSeq(txs)
        Place(m) == Index(sent, m)
    IN  /\ \A i, j \in DOMAIN Transmitted :
               i < j => Place(Transmitted[i]) < Place(Transmitted[j])
        /\ \A h \in DOMAIN txs : txs[h] # << >> /\ GasOf(txs[h]) <= gas_cap
        /\ \A m \in Messages :
               /\ answers[m].error \in {"EstimateGas", "EnqueueMsg", "GasExceedsGasCap"} =>
                      m \notin ToSet(Transmitted)
               /\ answers[m].error = "none" =>
                      /\ answers[m].tx \in DOMAIN txs
                      /\ answers[m].index \in DOMAIN txs[answers[m].tx]
                      /\ txs[answers[m].tx][answers[m].index] = m


\* A message that a client hands to the queue is answered: its transaction is
\* named, or an error is returned, also when the queue is full, when the
\* confirmer cannot keep up, when a call fails and when the daemon stops.
MessagesAnswered ==
    \A m \in Messages : message[m].at = "estimated" ~> answers[m].error # "waiting"
=============================================================================
