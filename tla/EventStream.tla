------------------------------ MODULE EventStream ------------------------------
(***************************************************************************)
(* How ampd's handlers get the events of the Axelar chain: the publisher   *)
(* (event_sub) follows the chain by polling for its latest block, fills in *)
(* the blocks between two polls, retrieves the events of several blocks at *)
(* once and publishes them in order on a broadcast channel.  Every handler *)
(* (event_processor) of the daemon, and every handler process that         *)
(* subscribes over gRPC (ampd-sdk), consumes them at its own pace.  When   *)
(* one task of the daemon stops, all of them are told to.                  *)
(*                                                                         *)
(* A block holds one event between its begin and its end.  External: the   *)
(* chain, whose nodes may answer with an older height or not at all, and   *)
(* the broadcast channel of tokio, kept as what each receiver has not      *)
(* read.                                                                   *)
(***************************************************************************)
EXTENDS Integers, Sequences, SequencesExt, FiniteSets

CONSTANTS
    Processors,              \* the handlers configured in ampd
    OtherTasks,              \* the tasks of the daemon besides the publisher and the handlers
    Clients,                 \* subscriptions of handlers that run on their own
    EventTypeAt,             \* the type of the event of each block
    Filters,                 \* the event types a subscriber asks for, all if there are none
    Capacity,                \* stream_buffer_size
    BlockProcessingBuffer,   \* block_processing_buffer
    MaxAttempts,             \* retry_max_attempts
    MaxHeight                \* bound: the height of the chain

ASSUME EventStreamAssumption ==
    /\ Processors # {} /\ Processors \cap Clients = {}
    /\ Capacity \in Nat \ {0} /\ BlockProcessingBuffer \in Nat \ {0}
    /\ MaxAttempts \in Nat \ {0} /\ MaxHeight \in Nat \ {0}

VARIABLES
    tip,            \* external: the height of the chain
    last_streamed,  \* of StrictlyIncreasing, 0 for none
    gaps,           \* StreamState of FillGaps
    buffer,         \* the blocks whose events are being retrieved
    outbox,         \* what is left to publish of a retrieved block
    channel,        \* external: what each subscriber has not read, and whether it lags
    seen,           \* the events handed to each handler
    status,         \* of the handlers and the tasks of the daemon
    main_token,     \* whether the daemon's token is cancelled
    handlers_token  \* whether the token of the handlers' group is, main_token's child

poll_vars == <<last_streamed, gaps>>
retrieval_vars == <<buffer, outbox>>
token_vars == <<main_token, handlers_token>>
stream_vars == <<tip, poll_vars, retrieval_vars, channel, seen, status, token_vars>>

Tasks == {"event-publisher"} \cup OtherTasks

Failed == [kind |-> "error", height |-> 0]
BlockBegin(n) == [kind |-> "begin", height |-> n]
Abci(n) == [kind |-> "abci", height |-> n]
BlockEnd(n) == [kind |-> "end", height |-> n]

-----------------------------------------------------------------------------
\* External: a block is added to the chain.
NewBlock ==
    /\ tip < MaxHeight
    /\ tip' = tip + 1
    /\ UNCHANGED <<poll_vars, retrieval_vars, channel, seen, status, token_vars>>

-----------------------------------------------------------------------------
\* The stream of blocks (stream.rs).

Start == [tag |-> "Start", streamed |-> 0, latest |-> 0]
First(n, streamed) == [tag |-> "First", streamed |-> IF streamed THEN n ELSE n - 1, latest |-> n]
BlocksAvailable(n, latest) == [tag |-> "BlocksAvailable", streamed |-> n, latest |-> latest]
CaughtUp(n) == [tag |-> "CaughtUp", streamed |-> n, latest |-> n]

\* Mutant: the comparison is the wrong way round.
update_latest_Inverted(s, new_latest) ==
    IF s.tag = "Start" THEN First(new_latest, FALSE)
    ELSE IF s.latest <= new_latest THEN s
    ELSE BlocksAvailable(IF s.tag = "First" THEN s.latest ELSE s.streamed, new_latest)

update_latest(s, new_latest) ==
    IF s.tag = "Start" THEN First(new_latest, FALSE)
    ELSE IF s.latest >= new_latest THEN s
    ELSE BlocksAvailable(IF s.tag = "First" THEN s.latest ELSE s.streamed, new_latest)

\* Mutant: the latest block is streamed instead of the next one.
streamed_Latest(s) == <<s.latest, CaughtUp(s.latest)>>

\* The block to stream and the state after it; of use if Streams.
streamed(s) ==
    IF s.tag = "First" THEN <<s.latest, First(s.latest, TRUE)>>
    ELSE <<s.streamed + 1, IF s.streamed + 1 < s.latest
                           THEN BlocksAvailable(s.streamed + 1, s.latest)
                           ELSE CaughtUp(s.streamed + 1)>>

Streams(s) == s.tag \in {"First", "BlocksAvailable"} /\ s.streamed < s.latest

Subscribed == {r \in Processors \cup Clients : status[r] \in {"running", "handling"}}

has_subscriber == Subscribed # {}

\* A block whose events are to be retrieved, unless nobody would see them.
Buffered(element) == IF has_subscriber THEN Append(buffer, element) ELSE buffer

\* The streams are polled by one task, when a retrieved block is published.
Pulls ==
    /\ status["event-publisher"] = "running"
    /\ outbox = << >> /\ Len(buffer) < BlockProcessingBuffer

\* latest_block_height, strictly_increasing_values and update_latest of
\* fill_gaps; the delay of delay_blocks only postpones what follows.
blocks_Poll(n) ==
    /\ Pulls /\ ~Streams(gaps)
    /\ n > last_streamed
    /\ last_streamed' = n
    /\ gaps' = update_latest(gaps, n)
    /\ UNCHANGED <<tip, retrieval_vars, channel, seen, status, token_vars>>

\* The query failed.
blocks_Error ==
    /\ Pulls /\ ~Streams(gaps)
    /\ buffer' = Buffered([height |-> 0, attempts |-> 0, result |-> "error"])
    /\ UNCHANGED <<tip, poll_vars, outbox, channel, seen, status, token_vars>>

fill_gaps ==
    /\ Pulls /\ Streams(gaps)
    /\ gaps' = streamed(gaps)[2]
    /\ buffer' = Buffered([height |-> streamed(gaps)[1], attempts |-> 0, result |-> "pending"])
    /\ UNCHANGED <<tip, last_streamed, outbox, channel, seen, status, token_vars>>

-----------------------------------------------------------------------------
\* The stream of events, and the publisher.

\* block_results within with_retry, for one of the blocks in the buffer.
retrieve_all_block_events ==
    /\ status["event-publisher"] = "running" /\ outbox = << >>
    /\ \E i \in DOMAIN buffer :
          /\ buffer[i].result = "pending"
          /\ \/ buffer' = [buffer EXCEPT ![i].result = "ok"]
             \/ LET attempts == buffer[i].attempts + 1 IN
                buffer' = [buffer EXCEPT ![i].attempts = attempts,
                                         ![i].result = IF attempts >= MaxAttempts THEN "error"
                                                       ELSE "pending"]
    /\ UNCHANGED <<tip, poll_vars, outbox, channel, seen, status, token_vars>>

\* An event that cannot be decoded is an error in its place.
block_events(n) == {<<BlockBegin(n), e, BlockEnd(n)>> : e \in {Abci(n), Failed}}

\* The blocks leave the buffer in order.
events ==
    /\ status["event-publisher"] = "running"
    /\ outbox = << >> /\ buffer # << >>
    /\ Head(buffer).result # "pending"
    /\ outbox' \in IF Head(buffer).result = "ok" THEN block_events(Head(buffer).height)
                   ELSE {<<Failed>>}
    /\ buffer' = Tail(buffer)
    /\ UNCHANGED <<tip, poll_vars, channel, seen, status, token_vars>>

\* External: the oldest element makes room; the receiver that has not read it lags.
Sent(c, e) ==
    IF Len(c.items) < Capacity THEN [c EXCEPT !.items = Append(@, e)]
    ELSE [items |-> Append(Tail(c.items), e), lags |-> TRUE]

\* tx.send; an element nobody receives is lost.
run_Send ==
    /\ status["event-publisher"] = "running"
    /\ outbox # << >>
    /\ channel' = [r \in DOMAIN channel |->
                      IF r \in Subscribed THEN Sent(channel[r], Head(outbox)) ELSE channel[r]]
    /\ outbox' = Tail(outbox)
    /\ UNCHANGED <<tip, poll_vars, buffer, seen, status, token_vars>>

\* take_until; what is not published yet is dropped.
run_Cancelled ==
    /\ status["event-publisher"] = "running" /\ main_token
    /\ status' = [status EXCEPT !["event-publisher"] = "ended"]
    /\ buffer' = << >> /\ outbox' = << >>
    /\ UNCHANGED <<tip, poll_vars, channel, seen, token_vars>>

-----------------------------------------------------------------------------
\* Subscribers.

NoItems == [items |-> << >>, lags |-> FALSE]

\* EventFilters; the handlers of ampd all include the begin and the end of blocks.
filter(r, e) ==
    CASE e.kind \in {"begin", "end"} -> r \in Processors
      [] e.kind = "abci" -> Filters[r] = {} \/ EventTypeAt[e.height] \in Filters[r]
      [] OTHER -> TRUE

\* What the receiver reads next: a lag first, then the elements it did not miss.
Reads(r, e) ==
    /\ e = IF channel[r].lags THEN Failed ELSE Head(channel[r].items)
    /\ channel' = [channel EXCEPT ![r] = IF @.lags THEN [@ EXCEPT !.lags = FALSE]
                                          ELSE [@ EXCEPT !.items = Tail(@)]]

HasItems(r) == channel[r].items # << >>

\* Next element of a handler's stream (consume_events): it ends at the begin of
\* a block once the token is cancelled, and fails with an element that is an error.
consume_events(h) ==
    /\ status[h] = "running" /\ HasItems(h)
    /\ \E e \in {Failed, Head(channel[h].items)} :
          /\ Reads(h, e)
          /\ IF e = Failed \/ (e.kind = "begin" /\ handlers_token)
             THEN status' = [status EXCEPT ![h] = "ended"] /\ UNCHANGED seen
             ELSE IF filter(h, e)
             THEN /\ status' = [status EXCEPT ![h] = "handling"]
                  /\ seen' = [seen EXCEPT ![h] = Append(@, e)]
             ELSE UNCHANGED <<status, seen>>
    /\ UNCHANGED <<tip, poll_vars, retrieval_vars, token_vars>>

\* The handler is done with the event: its messages are queued for
\* broadcasting, or the last of its attempts failed, which is logged.
handle_event(h) ==
    /\ status[h] = "handling"
    /\ status' = [status EXCEPT ![h] = "running"]
    /\ UNCHANGED <<tip, poll_vars, retrieval_vars, channel, seen, token_vars>>

\* Mutant: a timeout is only logged.
consume_events_TimedOut_Unchecked(h) == FALSE /\ UNCHANGED stream_vars

\* The stream timed out: should_task_continue looks at the token.
consume_events_TimedOut(h) ==
    /\ status[h] = "running" /\ ~HasItems(h) /\ handlers_token
    /\ status' = [status EXCEPT ![h] = "ended"]
    /\ UNCHANGED <<tip, poll_vars, retrieval_vars, channel, seen, token_vars>>

\* subscribe of the blockchain service.
subscribe(c) ==
    /\ status[c] = "idle"
    /\ "grpc-server" \in OtherTasks => status["grpc-server"] = "running"
    /\ status' = [status EXCEPT ![c] = "running"]
    /\ UNCHANGED <<tip, poll_vars, retrieval_vars, channel, seen, token_vars>>

\* A handler on its own (HandlerTask): an error is logged, and the last
\* element of a gRPC stream.
process_stream(c) ==
    /\ status[c] = "running" /\ HasItems(c)
    /\ \E e \in {Failed, Head(channel[c].items)} :
          /\ Reads(c, e)
          /\ IF e = Failed
             THEN status' = [status EXCEPT ![c] = "ended"] /\ UNCHANGED seen
             ELSE /\ seen' = IF filter(c, e) THEN [seen EXCEPT ![c] = Append(@, e)] ELSE seen
                  /\ UNCHANGED status
    /\ UNCHANGED <<tip, poll_vars, retrieval_vars, token_vars>>

\* The client is cancelled, or the server was stopped.
HandlerTask_Stops(c) ==
    /\ status[c] = "running"
    /\ status' = [status EXCEPT ![c] = "ended"]
    /\ UNCHANGED <<tip, poll_vars, retrieval_vars, channel, seen, token_vars>>

-----------------------------------------------------------------------------
\* The tasks of the daemon (lib.rs, asyncutil/task.rs).

\* A signal to exit.
Signal ==
    /\ ~main_token
    /\ main_token' = TRUE /\ handlers_token' = TRUE
    /\ UNCHANGED <<tip, poll_vars, retrieval_vars, channel, seen, status>>

\* Another task (the block height monitor, the gRPC server, ...) fails, or stops
\* because its token is cancelled.
Task_Ends(t) ==
    /\ status[t] = "running"
    /\ status' = [status EXCEPT ![t] = "ended"]
    /\ UNCHANGED <<tip, poll_vars, retrieval_vars, channel, seen, token_vars>>

Ended(ts) == {t \in ts : status[t] = "ended"}

\* The handlers that could be created when the daemon started (configure_handlers).
Configured == {h \in Processors : status[h] # "absent"}

\* A handler stopped: the others are cancelled.
wait_for_completion_handlers ==
    /\ Ended(Processors) # {} /\ ~handlers_token
    /\ handlers_token' = TRUE
    /\ UNCHANGED <<tip, poll_vars, retrieval_vars, channel, seen, status, main_token>>

\* A task of the daemon stopped, the group of handlers being one; a group
\* without handlers stops at once.
wait_for_completion ==
    /\ Ended(Tasks) # {} \/ Ended(Processors) = Configured
    /\ ~main_token
    /\ main_token' = TRUE /\ handlers_token' = TRUE
    /\ UNCHANGED <<tip, poll_vars, retrieval_vars, channel, seen, status>>

-----------------------------------------------------------------------------
EventStreamInit ==
    /\ tip \in 1..MaxHeight
    /\ last_streamed = 0 /\ gaps = Start
    /\ buffer = << >> /\ outbox = << >>
    /\ channel = [r \in Processors \cup Clients |-> NoItems]
    /\ seen = [r \in Processors \cup Clients |-> << >>]
    /\ \E absent \in SUBSET (Processors \cup Clients) :
          status = [t \in Processors \cup Clients \cup Tasks |->
                       CASE t \in absent -> "absent"
                         [] t \in Clients \ absent -> "idle"
                         [] OTHER -> "running"]
    /\ main_token = FALSE /\ handlers_token = FALSE

EventStreamNext ==
    \/ NewBlock
    \/ \E n \in 1..tip : blocks_Poll(n)
    \/ blocks_Error
    \/ fill_gaps
    \/ retrieve_all_block_events
    \/ events
    \/ run_Send
    \/ run_Cancelled
    \/ \E h \in Processors :
          consume_events(h) \/ handle_event(h) \/ consume_events_TimedOut(h)
    \/ \E c \in Clients : subscribe(c) \/ process_stream(c) \/ HandlerTask_Stops(c)
    \/ Signal
    \/ \E t \in OtherTasks : Task_Ends(t)
    \/ wait_for_completion_handlers
    \/ wait_for_completion

\* Polls go on, reach a node that knows the latest block, and end; timers run
\* out; tasks are scheduled and look at their token; calls of a handler end.
EventStreamFairness ==
    /\ WF_stream_vars(blocks_Poll(tip) \/ fill_gaps \/ retrieve_all_block_events \/ events \/ run_Send)
    /\ WF_stream_vars(run_Cancelled)
    /\ \A h \in Processors :
          WF_stream_vars(consume_events(h) \/ handle_event(h) \/ consume_events_TimedOut(h))
    /\ \A t \in OtherTasks : WF_stream_vars(main_token /\ Task_Ends(t))
    /\ WF_stream_vars(wait_for_completion_handlers \/ wait_for_completion)

-----------------------------------------------------------------------------
\* Correctness.

ChainEvents == FlattenSeq([n \in 1..MaxHeight |-> <<BlockBegin(n), Abci(n), BlockEnd(n)>>])

Place(e) == CHOOSE i \in DOMAIN ChainEvents : ChainEvents[i] = e

\* The events r was handed are those it asked for between two points of the
\* chain, in the chain's order, none left out and none twice.
Contiguous(r) ==
    seen[r] # << >> =>
        seen[r] = SelectSeq(SubSeq(ChainEvents, Place(Head(seen[r])), Place(Last(seen[r]))),
                            LAMBDA e : filter(r, e))

\* A handler sees the chain as it is, whatever is polled, retrieved out of
\* order, retried, lost to a lag or cancelled.  A client is only promised this
\* while a handler of the daemon runs: once none does, the publisher skips
\* blocks, and a client that subscribes then may still be sent earlier ones.
EventsInOrder ==
    /\ \A h \in Processors : Contiguous(h)
    /\ Ended(Processors) # Configured => \A c \in Clients : Contiguous(c)

\* A handler that runs catches up with the chain: again and again it has
\* handled the latest block to its end, for as long as it does not stop and the
\* chain does not outrun it.
CatchesUp ==
    \A h \in Processors :
        []<>(status[h] \in {"absent", "ended"} \/ (seen[h] # << >> /\ Last(seen[h]) = BlockEnd(tip)))

\* When one task or one handler of the daemon stops, or a signal tells it to,
\* all of its tasks and handlers stop.
DaemonStops ==
    (main_token \/ Ended(Tasks \cup Processors) # {})
        ~> (Ended(Tasks \cup Processors) = Tasks \cup Configured)
=============================================================================
