------------------------------- MODULE Rewards -------------------------------
(***************************************************************************)
(* The rewards contract (contracts/rewards).  Contracts report which       *)
(* verifiers took part in an event; participation is tallied per pool and  *)
(* epoch; two epochs later anyone may have an epoch's rewards paid out.    *)
(* Epochs are not stored: the current one is computed from the block       *)
(* height and the epoch in which the pool's parameters last changed.       *)
(***************************************************************************)
EXTENDS Amplifier, Integers, FiniteSets, FiniteSetsExt

CONSTANTS
    PoolIds,        \* a chain and the contract that reports on it
    EventIds,       \* polls or signing sessions
    Proxies,        \* addresses that receive rewards for verifiers
    PoolParams,     \* parameters governance may give a pool
    Donations,      \* amounts that may be added to a pool
    EpochCounts,    \* limits a distribution may be given; None is the default of 10
    Treasury,       \* bound: all that may be added to pools
    FirstHeight, LastHeight     \* bound: block heights

ASSUME RewardsAssumption ==
    /\ PoolParams \subseteq [epoch_duration : Nat \ {0}, rewards_per_epoch : Nat \ {0},
                             participation_threshold : (Nat \ {0}) \X (Nat \ {0})]
    /\ Donations \subseteq Nat \ {0} /\ EpochCounts \subseteq Nat /\ Treasury \in Nat
    /\ FirstHeight \in Nat /\ LastHeight \in Nat
    /\ IsFiniteSet(PoolIds) /\ IsFiniteSet(EventIds)
    /\ IsFiniteSet(Verifiers) /\ IsFiniteSet(Proxies)

VARIABLES
    pools,          \* POOLS: balance and parameters with the epoch they hold from
    tallies,        \* TALLIES, by pool and epoch
    events,         \* EVENTS: the epoch of an event, by pool
    watermarks,     \* WATERMARKS: the last epoch that was paid, by pool
    proxy,          \* VERIFIER_PROXY_ADDRESSES
    funds,          \* what the contract's account holds
    wallets,        \* what everybody else holds
    height,         \* the block height
    reported,       \* history: the participations that were reported
    payments        \* history: how often an epoch of a pool was paid

rewards_vars == <<pools, tallies, events, watermarks, proxy, funds, wallets, height,
                  reported, payments>>

DonorAccount == "donor"
Recipients == Verifiers \cup Proxies
EPOCH_PAYOUT_DELAY == 2
Epochs == 0..LastHeight

SaturatingSub(a, b) == IF a < b THEN 0 ELSE a - b
Lesser(a, b) == IF a < b THEN a ELSE b

PoolExists(p) == pools[p] # NoValue

\* Epoch::current for the parameters of a pool.
current(pool, h) ==
    LET elapsed == (h - pool.created_at.block_height_started) \div pool.params.epoch_duration
    IN  [epoch_num |-> pool.created_at.epoch_num + elapsed,
         block_height_started |-> pool.created_at.block_height_started
                                  + elapsed * pool.params.epoch_duration]

current_epoch(p) == current(pools[p], height)

-----------------------------------------------------------------------------
\* Recording participation.

EpochTally_new(params) ==
    [event_count |-> 0, participation |-> [v \in Verifiers |-> 0], params |-> params]

\* Mutant: a participation counts in the epoch in which it is reported.
event_epoch_Current(p, event) == current_epoch(p).epoch_num

\* load_or_store_event: all participations in an event count in the epoch of
\* the first one.
event_epoch(p, event) ==
    IF events[p][event] = NoValue THEN current_epoch(p).epoch_num ELSE events[p][event]

record_participation(p, event, verifier) ==
    LET epoch == event_epoch(p, event)
        is_new == events[p][event] = NoValue
        tally == IF tallies[p][epoch] = NoValue THEN EpochTally_new(pools[p].params)
                 ELSE tallies[p][epoch]
    IN  /\ PoolExists(p)
        /\ events' = [events EXCEPT ![p][event] = IF is_new THEN epoch ELSE @]
        /\ tallies' = [tallies EXCEPT ![p][epoch] =
              [tally EXCEPT !.participation[verifier] = @ + 1,
                            !.event_count = IF is_new THEN @ + 1 ELSE @]]
        /\ UNCHANGED <<pools, watermarks, proxy, funds, wallets, height, payments>>

-----------------------------------------------------------------------------
\* Paying rewards.

\* The participation is a proper fraction that reaches the threshold.
EnoughParticipation(tally, v) ==
    /\ tally.participation[v] \in 1..tally.event_count
    /\ tally.participation[v] * tally.params.participation_threshold[2] >=
          tally.params.participation_threshold[1] * tally.event_count

verifiers_to_reward(tally) == {v \in Verifiers : EnoughParticipation(tally, v)}

rewards_per_verifier(tally) ==
    tally.params.rewards_per_epoch \div Cardinality(verifiers_to_reward(tally))

\* rewards_by_verifier: what a verifier is owed for an epoch.
epoch_reward(p, epoch, v) ==
    IF tallies[p][epoch] = NoValue THEN 0
    ELSE IF v \in verifiers_to_reward(tallies[p][epoch])
         THEN rewards_per_verifier(tallies[p][epoch])
         ELSE 0

\* cumulate_rewards over the epochs from..to.
cumulated_reward(p, from, to, v) ==
    MapThenSumSet(LAMBDA e : epoch_reward(p, e, v), from..to)

\* Mutant: the last epoch that was paid is paid again.
first_epoch_Last(p) == IF watermarks[p] = NoValue THEN 0 ELSE watermarks[p]

\* The first epoch that was not paid.
first_epoch(p) == IF watermarks[p] = NoValue THEN 0 ELSE watermarks[p] + 1

\* The last epoch of a distribution.
last_epoch(p, limit) ==
    Lesser(SaturatingSub(first_epoch(p) + limit, 1),
           SaturatingSub(current_epoch(p).epoch_num, EPOCH_PAYOUT_DELAY))

recipient(v) == IF proxy[v] = NoValue THEN v ELSE proxy[v]

\* Mutant: one of the verifiers with the same proxy is paid.
received_One(a, rewards) ==
    LET Payees == {v \in Verifiers : recipient(v) = a}
    IN  IF Payees = {} THEN 0 ELSE rewards[CHOOSE v \in Payees : TRUE]

\* One bank message per verifier.
received(a, rewards) ==
    MapThenSumSet(LAMBDA v : rewards[v], {v \in Verifiers : recipient(v) = a})

BalanceSuffices(p, amount) == amount <= pools[p].balance

distribute_rewards(p, limit) ==
    LET from == first_epoch(p)
        to == last_epoch(p, limit)
        rewards == [v \in Verifiers |-> cumulated_reward(p, from, to, v)]
        total == MapThenSumSet(LAMBDA v : rewards[v], Verifiers)
    IN  /\ PoolExists(p)
        /\ from <= to
        /\ current_epoch(p).epoch_num >= EPOCH_PAYOUT_DELAY
        /\ BalanceSuffices(p, total)
        /\ pools' = [pools EXCEPT ![p].balance = @ - total]
        /\ watermarks' = [watermarks EXCEPT ![p] = to]
        /\ funds' = funds - MapThenSumSet(LAMBDA a : received(a, rewards), Recipients)
        /\ wallets' = [a \in DOMAIN wallets |->
              IF a \in Recipients THEN wallets[a] + received(a, rewards) ELSE wallets[a]]
        /\ payments' = [payments EXCEPT ![p] =
              [e \in Epochs |-> IF e \in from..to THEN @[e] + 1 ELSE @[e]]]
        /\ UNCHANGED <<tallies, events, proxy, height, reported>>

-----------------------------------------------------------------------------
\* Pools and proxies.

RewardsInit ==
    /\ pools = [p \in PoolIds |-> NoValue]
    /\ tallies = [p \in PoolIds |-> [e \in Epochs |-> NoValue]]
    /\ events = [p \in PoolIds |-> [e \in EventIds |-> NoValue]]
    /\ watermarks = [p \in PoolIds |-> NoValue]
    /\ proxy = [v \in Verifiers |-> NoValue]
    /\ funds = 0
    /\ wallets = [a \in Recipients \cup {DonorAccount} |->
                     IF a = DonorAccount THEN Treasury ELSE 0]
    /\ height = FirstHeight
    /\ reported = {}
    /\ payments = [p \in PoolIds |-> [e \in Epochs |-> 0]]

create_pool(p, params) ==
    /\ ~PoolExists(p)
    /\ pools' = [pools EXCEPT ![p] =
          [balance |-> 0, params |-> params,
           created_at |-> [epoch_num |-> 0, block_height_started |-> height]]]
    /\ UNCHANGED <<tallies, events, watermarks, proxy, funds, wallets, height, reported, payments>>

\* Mutant: the current epoch goes on even if it is longer than the new duration.
new_epoch_Kept(p, params) == current_epoch(p)

\* The epoch from which new parameters hold: the current one, unless it is
\* already longer than the new duration.
new_epoch(p, params) ==
    LET cur == current_epoch(p)
    IN  IF cur.block_height_started + params.epoch_duration < height
        THEN [epoch_num |-> cur.epoch_num + 1, block_height_started |-> height]
        ELSE cur

update_pool_params(p, params) ==
    LET epoch == current_epoch(p).epoch_num
    IN  /\ PoolExists(p)
        /\ pools' = [pools EXCEPT ![p].params = params, ![p].created_at = new_epoch(p, params)]
        /\ tallies' = [tallies EXCEPT ![p][epoch] =
              IF @ = NoValue THEN NoValue ELSE [@ EXCEPT !.params = params]]
        /\ UNCHANGED <<events, watermarks, proxy, funds, wallets, height, reported, payments>>

\* Exactly one coin, of the rewards denomination and not zero, is attached.
add_rewards(p, amount) ==
    /\ PoolExists(p)
    /\ amount <= wallets[DonorAccount]
    /\ pools' = [pools EXCEPT ![p].balance = @ + amount]
    /\ funds' = funds + amount
    /\ wallets' = [wallets EXCEPT ![DonorAccount] = @ - amount]
    /\ UNCHANGED <<tallies, events, watermarks, proxy, height, reported, payments>>

set_verifier_proxy(v, a) ==
    /\ proxy' = [proxy EXCEPT ![v] = a]
    /\ UNCHANGED <<pools, tallies, events, watermarks, funds, wallets, height, reported, payments>>

remove_verifier_proxy(v) ==
    /\ proxy' = [proxy EXCEPT ![v] = NoValue]
    /\ UNCHANGED <<pools, tallies, events, watermarks, funds, wallets, height, reported, payments>>

NextRewardsBlock ==
    /\ height < LastHeight
    /\ height' = height + 1
    /\ UNCHANGED <<pools, tallies, events, watermarks, proxy, funds, wallets, reported, payments>>

-----------------------------------------------------------------------------
\* The voting verifier reports the voters of a poll once, when it ends, and the
\* multisig contract every signature once (SignaturesRewardedOnce), so nobody
\* is reported twice for an event.
RecordParticipation ==
    \E p \in PoolIds, event \in EventIds, v \in Verifiers :
        /\ <<p, event, v>> \notin reported
        /\ record_participation(p, event, v)
        /\ reported' = reported \cup {<<p, event, v>>}

DistributeRewards == \E p \in PoolIds, limit \in EpochCounts : distribute_rewards(p, limit)
CreatePool == \E p \in PoolIds, params \in PoolParams : create_pool(p, params)
UpdatePoolParams == \E p \in PoolIds, params \in PoolParams : update_pool_params(p, params)
AddRewards == \E p \in PoolIds, amount \in Donations : add_rewards(p, amount)
SetVerifierProxy == \E v \in Verifiers, a \in Proxies : set_verifier_proxy(v, a)
RemoveVerifierProxy == \E v \in Verifiers : remove_verifier_proxy(v)

RewardsNext ==
    \/ RecordParticipation
    \/ DistributeRewards
    \/ CreatePool
    \/ UpdatePoolParams
    \/ AddRewards
    \/ SetVerifierProxy
    \/ RemoveVerifierProxy
    \/ NextRewardsBlock

RewardsSpec == RewardsInit /\ [][RewardsNext]_rewards_vars

-----------------------------------------------------------------------------
\* Correctness.

\* A tally of an epoch counts exactly the events that were first reported in
\* it and who took part in them, also when verifiers are reported after the
\* epoch changed or the parameters were updated.  So nobody participated in
\* more events than there were, which would disqualify a verifier.
TalliesCountReports ==
    \A p \in PoolIds, e \in Epochs :
        LET InEpoch == {event \in EventIds : events[p][event] = e}
        IN  IF tallies[p][e] = NoValue THEN InEpoch = {}
            ELSE /\ tallies[p][e].event_count = Cardinality(InEpoch)
                 /\ \A v \in Verifiers : tallies[p][e].participation[v] =
                       Cardinality({event \in InEpoch : <<p, event, v>> \in reported})

\* Distributions of any sizes pay every epoch once, the oldest first, and leave
\* none out.  An epoch that was paid stays at least EPOCH_PAYOUT_DELAY epochs in
\* the past however the epoch duration is changed, so no new event falls into it.
EpochsPaidOnce ==
    /\ \A p \in PoolIds, e \in Epochs :
          payments[p][e] = IF watermarks[p] = NoValue THEN 0
                           ELSE IF e <= watermarks[p] THEN 1 ELSE 0
    /\ \A p \in PoolIds : watermarks[p] # NoValue =>
          watermarks[p] + EPOCH_PAYOUT_DELAY <= current_epoch(p).epoch_num

\* The contract's account holds the balances of its pools, and nothing is lost
\* between pools, verifiers and proxies: rounding leaves the rest in the pool,
\* and no pool is overdrawn.
PoolsBacked ==
    /\ \A p \in PoolIds : PoolExists(p) => pools[p].balance >= 0
    /\ funds = MapThenSumSet(LAMBDA p : IF PoolExists(p) THEN pools[p].balance ELSE 0, PoolIds)
    /\ funds + MapThenSumSet(LAMBDA a : wallets[a], DOMAIN wallets) = Treasury

\* No step repeats or jumps over an epoch: neither a block nor a change of the
\* epoch duration moves the current epoch by more than one (the comment of
\* update_pool_params: "This prevents us from jumping forward an arbitrary
\* number of epochs").
EpochsAdvanceByOne ==
    [][\A p \in PoolIds : PoolExists(p) =>
          current(pools'[p], height').epoch_num - current_epoch(p).epoch_num \in {0, 1}]_rewards_vars
=============================================================================
