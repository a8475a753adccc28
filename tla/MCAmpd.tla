-------------------------------- MODULE MCAmpd --------------------------------
(***************************************************************************)
(* The event stream and the broadcaster of ampd, and the connections of    *)
(* its clients, for TLC.  A behaviour is one of them, told apart by        *)
(* running; the others have stopped.                                       *)
(***************************************************************************)
EXTENDS EventStream, Broadcaster, ConnectionPool

CONSTANTS p1, p2, c1

VARIABLE running

MCFilters == [r \in Processors \cup Clients |-> IF r = p1 THEN {"a"} ELSE {}]
MCEventTypeAt == <<"a", "b", "a">>

-----------------------------------------------------------------------------
\* The event stream starts with the daemon, or when a block has been handled.

Absent(ts) == \A t \in Processors \cup Clients : t \in ts <=> status[t] = "absent"

Fresh == EventStreamInit /\ tip = 1 /\ (Absent({p2, c1}) \/ Absent({p1, p2, c1}))

Handled(n, absent) ==
    /\ tip = 3 /\ last_streamed = n /\ gaps = First(n, TRUE)
    /\ buffer = << >> /\ outbox = << >>
    /\ channel = [r \in Processors \cup Clients |-> NoItems]
    /\ status = [t \in Processors \cup Clients \cup Tasks |->
                    CASE t = absent -> "absent" [] t = c1 -> "idle" [] OTHER -> "running"]
    /\ seen = [r \in Processors \cup Clients |->
                  IF r \in Configured
                  THEN SelectSeq(<<BlockBegin(n), Abci(n), BlockEnd(n)>>, LAMBDA e : filter(r, e))
                  ELSE << >>]
    /\ main_token = FALSE /\ handlers_token = FALSE

StreamStopped ==
    /\ tip = 1 /\ last_streamed = 0 /\ gaps = Start
    /\ buffer = << >> /\ outbox = << >>
    /\ channel = [r \in Processors \cup Clients |-> NoItems]
    /\ status = [t \in Processors \cup Clients \cup Tasks |->
                    IF t \in Tasks THEN "ended" ELSE "absent"]
    /\ seen = [r \in Processors \cup Clients |-> << >>]
    /\ main_token = TRUE /\ handlers_token = TRUE

BroadcasterStopped ==
    /\ message = [m \in Messages |-> [at |-> "failed", gas |-> 0]]
    /\ answers = [m \in Messages |-> Error("EstimateGas")]
    /\ mpsc = << >> /\ queue = << >> /\ gas_cost = 0 /\ sent = << >>
    /\ batch = [at |-> "none", msgs |-> << >>]
    /\ acc_sequence = 0 /\ node_sequence = 0 /\ account = 0 /\ moved = FALSE
    /\ txs = << >>
    /\ confirmations = [queued |-> 0, confirming |-> 0]
    /\ task_status = [t \in {"broadcaster", "confirmer"} |-> "ended"]
    /\ token = TRUE

PoolStopped ==
    /\ pool = "stopped" /\ attempts = 0
    /\ connection_state = "Shutdown"
    /\ unseen = [h \in Handles |-> TRUE]
    /\ reports = 0 /\ spawned = 0
    /\ handle = [h \in Handles |-> "idle"]
    /\ pool_token = TRUE

MCInit ==
    \/ /\ running = "stream" /\ (Fresh \/ Handled(1, p2) \/ Handled(2, c1))
       /\ BroadcasterStopped /\ PoolStopped
    \/ running = "broadcaster" /\ StreamStopped /\ BroadcasterInit /\ PoolStopped
    \/ running = "pool" /\ StreamStopped /\ BroadcasterStopped /\ ConnectionPoolInit

MCNext ==
    /\ UNCHANGED running
    /\ \/ running = "stream" /\ EventStreamNext /\ UNCHANGED <<broadcast_vars, pool_vars>>
       \/ running = "broadcaster" /\ BroadcasterNext /\ UNCHANGED <<stream_vars, pool_vars>>
       \/ running = "pool" /\ ConnectionPoolNext /\ UNCHANGED <<stream_vars, broadcast_vars>>

MCSpec ==
    /\ MCInit
    /\ [][MCNext]_<<running, stream_vars, broadcast_vars, pool_vars>>
    /\ EventStreamFairness
    /\ BroadcasterFairness
=============================================================================
