---------------------------- MODULE ConnectionPool ----------------------------
(***************************************************************************)
(* How the programs of ampd-handlers stay connected to the daemon          *)
(* (packages/ampd-sdk/src/grpc): one pool per program makes the            *)
(* connection, tells the clients about it over a watch channel and         *)
(* connects again when one of them asks for it.                            *)
(*                                                                         *)
(* is_reconnecting is left out: while it is set the pool does not receive, *)
(* so it never finds it set.  External: the daemon, that accepts a         *)
(* connection or not and breaks it at any time, and tokio's channels.      *)
(***************************************************************************)
EXTENDS Integers

CONSTANTS
    Handles,            \* the clients of the pool
    ReportCapacity,     \* MESSAGE_RECEIVER_CHANNEL_CAPACITY
    ReconnectAttempts,  \* max_attempts of the retry policy
    MaxSpawned          \* bound: reports that wait for a place in the channel

ASSUME ConnectionPoolAssumption ==
    {ReportCapacity, ReconnectAttempts, MaxSpawned} \subseteq Nat \ {0}

VARIABLES
    pool,               \* what the pool does
    attempts,           \* failed attempts of the reconnection
    connection_state,
    unseen,             \* whether a client has yet to see connection_state
    reports,            \* the ConnectionFailed messages in the channel to the pool
    spawned,            \* the tasks that report a failed call
    handle,             \* how far each client is
    pool_token          \* whether the program's token is cancelled

pool_vars == <<pool, attempts, connection_state, unseen, reports, spawned, handle, pool_token>>

ConnectionPoolInit ==
    /\ pool = "connecting" /\ attempts = 0
    /\ connection_state = "Disconnected"
    /\ unseen = [c \in Handles |-> FALSE]
    /\ reports = 0 /\ spawned = 0
    /\ handle = [c \in Handles |-> "idle"]
    /\ pool_token = FALSE

-----------------------------------------------------------------------------
\* The pool.

\* Every send is a change, also of an equal value.
notify_clients(s) ==
    /\ connection_state' = s
    /\ unseen' = [c \in Handles |-> TRUE]

\* The first connection; nobody is told when it fails.
connect ==
    /\ pool = "connecting"
    /\ pool' = "receiving"
    /\ notify_clients("Connected") \/ UNCHANGED <<connection_state, unseen>>
    /\ UNCHANGED <<attempts, reports, spawned, handle, pool_token>>

\* A report starts a reconnection, which first empties the channel.
run_Receives ==
    /\ pool = "receiving" /\ reports > 0
    /\ reports' = reports - 1
    /\ pool' = "draining"
    /\ UNCHANGED <<attempts, connection_state, unseen, spawned, handle, pool_token>>

start_reconnection ==
    /\ pool = "draining"
    /\ IF reports > 0
       THEN reports' = reports - 1 /\ UNCHANGED <<pool, attempts>>
       ELSE pool' = "reconnecting" /\ attempts' = 0 /\ UNCHANGED reports
    /\ UNCHANGED <<connection_state, unseen, spawned, handle, pool_token>>

\* Mutant: clients are only notified of a state that differs.
given_up_Silent ==
    IF connection_state = "Disconnected" THEN UNCHANGED <<connection_state, unseen>>
    ELSE notify_clients("Disconnected")

given_up == notify_clients("Disconnected")

reconnect ==
    /\ pool = "reconnecting"
    /\ \/ /\ notify_clients("Connected")
          /\ pool' = "receiving"
          /\ UNCHANGED attempts
       \/ /\ attempts' = attempts + 1
          /\ IF attempts' < ReconnectAttempts
             THEN UNCHANGED <<pool, connection_state, unseen>>
             ELSE pool' = "receiving" /\ given_up
    /\ UNCHANGED <<reports, spawned, handle, pool_token>>

run_Cancelled_Pool ==
    /\ pool = "receiving" /\ pool_token
    /\ pool' = "stopped"
    /\ notify_clients("Shutdown")
    /\ UNCHANGED <<attempts, reports, spawned, handle, pool_token>>

-----------------------------------------------------------------------------
\* A client that needs the channel: connected_channel is a loop under a timeout.

Steps(c, phase) == handle' = [handle EXCEPT ![c] = phase]

connected_channel(c) ==
    /\ handle[c] = "idle"
    /\ Steps(c, "looking")
    /\ UNCHANGED <<pool, attempts, connection_state, unseen, reports, spawned, pool_token>>

borrow_and_update(c) ==
    /\ handle[c] = "looking"
    /\ unseen' = [unseen EXCEPT ![c] = FALSE]
    /\ Steps(c, CASE connection_state = "Connected" -> "calling"
                  [] connection_state = "Disconnected" -> "requesting"
                  [] OTHER -> "idle")
    /\ UNCHANGED <<pool, attempts, connection_state, reports, spawned, pool_token>>

\* It waits for a place in the channel, and fails once the pool is gone.
request_reconnect(c) ==
    /\ handle[c] = "requesting"
    /\ \/ pool = "stopped" /\ Steps(c, "idle") /\ UNCHANGED reports
       \/ /\ pool # "stopped" /\ reports < ReportCapacity
          /\ reports' = reports + 1
          /\ Steps(c, "waiting")
    /\ UNCHANGED <<pool, attempts, connection_state, unseen, spawned, pool_token>>

changed(c) ==
    /\ handle[c] = "waiting" /\ unseen[c]
    /\ unseen' = [unseen EXCEPT ![c] = FALSE]
    /\ Steps(c, "looking")
    /\ UNCHANGED <<pool, attempts, connection_state, reports, spawned, pool_token>>

connected_channel_TimesOut(c) ==
    /\ handle[c] \in {"looking", "requesting", "waiting"}
    /\ Steps(c, "idle")
    /\ UNCHANGED <<pool, attempts, connection_state, unseen, reports, spawned, pool_token>>

\* A call is answered, or fails on the way: then a task reports it.
ensure_healthy_connection(c) ==
    /\ handle[c] = "calling"
    /\ Steps(c, "idle")
    /\ spawned' \in {spawned} \cup (IF spawned < MaxSpawned THEN {spawned + 1} ELSE {})
    /\ UNCHANGED <<pool, attempts, connection_state, unseen, reports, pool_token>>

Report ==
    /\ spawned > 0
    /\ spawned' = spawned - 1
    /\ \/ pool = "stopped" /\ UNCHANGED reports
       \/ pool # "stopped" /\ reports < ReportCapacity /\ reports' = reports + 1
    /\ UNCHANGED <<pool, attempts, connection_state, unseen, handle, pool_token>>

\* A signal.
start_shutdown_signal_monitor ==
    /\ ~pool_token
    /\ pool_token' = TRUE
    /\ UNCHANGED <<pool, attempts, connection_state, unseen, reports, spawned, handle>>

ConnectionPoolNext ==
    \/ connect
    \/ run_Receives
    \/ start_reconnection
    \/ reconnect
    \/ run_Cancelled_Pool
    \/ \E c \in Handles :
          \/ connected_channel(c)
          \/ borrow_and_update(c)
          \/ request_reconnect(c)
          \/ changed(c)
          \/ connected_channel_TimesOut(c)
          \/ ensure_healthy_connection(c)
    \/ Report
    \/ start_shutdown_signal_monitor

-----------------------------------------------------------------------------
\* No client waits in vain, although reports are drained and a reconnection may
\* end without a connection: while one waits for a change that has not come,
\* the pool runs, and works on a reconnection or has a report in its channel.
\* The timeout of connected_channel is never what a client depends on.
WaitersWoken ==
    \A c \in Handles : handle[c] = "waiting" /\ ~unseen[c] =>
        /\ pool # "stopped"
        /\ reports > 0 \/ pool \in {"draining", "reconnecting"}
=============================================================================
