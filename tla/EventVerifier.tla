---------------------------- MODULE EventVerifier ----------------------------
(***************************************************************************)
(* The event-verifier contract (contracts/event-verifier): polls about     *)
(* batches of events of one source chain.  It differs from the voting      *)
(* verifier in refusing batches that mix chains or repeat an event, in     *)
(* having no end of a poll, and in looking up the event of every item of   *)
(* the poll whenever a vote is cast.  A transaction that fails or panics   *)
(* leaves no trace, so an error path is a step that is not taken.          *)
(***************************************************************************)
EXTENDS WeightedPoll, FiniteSets

CONSTANTS
    Events,         \* events that may be submitted
    SourceChain,    \* SourceChain[e]: the chain event e claims to come from
    Thresholds,     \* pairs <<numerator, denominator>> governance may submit
    BlockExpiry,    \* Config.block_expiry, fixed at instantiation
    ActiveSets,     \* ActiveSets[c]: answers of active_verifiers for chain c
    MaxBatch,       \* bound: the length of a batch of events
    MaxPolls,       \* bound: the number of polls
    U64Max          \* bound: the largest block height

SourceChains == {SourceChain[e] : e \in Events}

ASSUME EventParametersAssumption ==
    /\ IsFiniteSet(Verifiers)
    /\ ActiveSets \in [SourceChains -> SUBSET SUBSET Verifiers]
    /\ Thresholds \subseteq (Nat \ {0}) \X (Nat \ {0})
    /\ BlockExpiry \in Nat \ {0}
    /\ MaxBatch \in Nat /\ MaxPolls \in Nat /\ U64Max \in Nat

VARIABLES
    height,             \* the current block height
    voting_threshold,   \* CONFIG.voting_threshold
    polls,              \* POLLS; POLL_ID is Len(polls)
    votes,              \* VOTES: votes[p][v], <<>> when absent
    poll_events         \* poll_events(), keyed by event

vars == <<height, voting_threshold, polls, votes, poll_events>>

-----------------------------------------------------------------------------
\* Queries.

NoPoll == [poll_id |-> 0, index_in_poll |-> 0]

voting_completed(poll) == status(poll, height) \in {"Expired", "Finished"}

\* event_status; poll indices count from 1 here.
event_status(e) ==
    IF poll_events[e] = NoPoll THEN "Unknown"
    ELSE LET poll == polls[poll_events[e].poll_id]
             vote == consensus(poll.tallies[poll_events[e].index_in_poll], poll.quorum)
         IN  IF vote = "SucceededOnChain" THEN "SucceededOnSourceChain"
             ELSE IF vote = "FailedOnChain" THEN "FailedOnSourceChain"
             ELSE IF vote = "NotFound" THEN "NotFoundOnSourceChain"
             ELSE IF voting_completed(poll) THEN "FailedToVerify"
             ELSE "InProgress"

\* The events stored for item i of poll p.
load_event(p, i) == {e \in Events : poll_events[e] = [poll_id |-> p, index_in_poll |-> i]}

-----------------------------------------------------------------------------
\* Messages.

Init ==
    /\ height = 0
    /\ voting_threshold \in {t \in Thresholds : IsMajorityThreshold(t)}
    /\ polls = <<>>
    /\ votes = <<>>
    /\ poll_events = [e \in Events |-> NoPoll]

update_voting_threshold(new_voting_threshold) ==
    /\ IsMajorityThreshold(new_voting_threshold)
    /\ voting_threshold' = new_voting_threshold
    /\ UNCHANGED <<height, polls, votes, poll_events>>

Reverifiable(e) == event_status(e) \in {"NotFoundOnSourceChain", "FailedToVerify", "Unknown"}

events_to_verify(batch) == {i \in 1..Len(batch) : Reverifiable(batch[i])}

\* Mutant: events of several chains share a poll.
SameChain_Unchecked(batch, source_chain) == TRUE

SameChain(batch, source_chain) ==
    \A i \in events_to_verify(batch) : SourceChain[batch[i]] = source_chain

DistinctEvents(batch) ==
    \A i, j \in events_to_verify(batch) : batch[i] = batch[j] => i = j

create_events_poll(active, poll_size) ==
    /\ active # {}
    /\ height + BlockExpiry <= U64Max
    /\ Len(polls) < MaxPolls
    /\ polls' = Append(polls,
          WeightedPoll_new("Events", active, Snapshot_quorum(active, voting_threshold),
                           height + BlockExpiry, poll_size))
    /\ votes' = Append(votes, [v \in Verifiers |-> <<>>])

\* The chain whose verifiers vote is that of the first event kept.
verify_events(batch, active) ==
    LET kept == events_to_verify(batch)
        kept_events == {batch[i] : i \in kept}
        first == CHOOSE i \in kept : \A j \in kept : i <= j
        index(e) == Cardinality({i \in kept : \E j \in kept : batch[j] = e /\ i <= j})
    IN  /\ kept # {}
        /\ SameChain(batch, SourceChain[batch[first]])
        /\ DistinctEvents(batch)
        /\ active \in ActiveSets[SourceChain[batch[first]]]
        /\ create_events_poll(active, Cardinality(kept))
        /\ poll_events' = [e \in Events |->
              IF e \in kept_events
              THEN [poll_id |-> Len(polls) + 1, index_in_poll |-> index(e)]
              ELSE poll_events[e]]
        /\ UNCHANGED <<height, voting_threshold>>

\* make_quorum_event looks up the event of every item, decided or not, and
\* panics when there is none.
EventsFound(p) == \A i \in 1..polls[p].poll_size : load_event(p, i) # {}

vote(p, sender, ballot) ==
    /\ p \in 1..Len(polls)
    /\ CanVote(polls[p], height, sender, ballot)
    /\ EventsFound(p)
    /\ polls' = [polls EXCEPT ![p] = cast_vote(@, sender, ballot)]
    /\ votes' = [votes EXCEPT ![p] = [@ EXCEPT ![sender] = ballot]]
    /\ UNCHANGED <<height, voting_threshold, poll_events>>

\* The chain commits a block.
NextBlock ==
    /\ height < U64Max
    /\ height' = height + 1
    /\ UNCHANGED <<voting_threshold, polls, votes, poll_events>>

\* Inputs: batches and ballots up to MaxBatch entries.
SequencesOf(S) == UNION {[1..n -> S] : n \in 0..MaxBatch}

VerifyEvents == \E batch \in SequencesOf(Events), active \in UNION {ActiveSets[c] : c \in SourceChains} :
                   verify_events(batch, active)
CastVote == \E p \in 1..Len(polls), v \in Verifiers, ballot \in SequencesOf(Vote) : vote(p, v, ballot)
UpdateVotingThreshold == \E t \in Thresholds : update_voting_threshold(t)

Next ==
    \/ VerifyEvents
    \/ CastVote
    \/ UpdateVotingThreshold
    \/ NextBlock

Spec == Init /\ [][Next]_vars

-----------------------------------------------------------------------------
\* Correctness.

\* The items of a poll belong to different events of one source chain each:
\* load_event never meets "More than one event for poll_id and index_in_poll",
\* and every stored index exists in its poll.  An event leaves a poll that still
\* accepts votes only when that poll has decided that it was not found: a
\* re-verification never discards votes that could still have decided it.
OneEventPerItem ==
    /\ \A e, f \in Events : poll_events[e] # NoPoll =>
          /\ poll_events[e].index_in_poll \in 1..polls[poll_events[e].poll_id].poll_size
          /\ poll_events[e] = poll_events[f] => e = f
          /\ poll_events[e].poll_id = poll_events[f].poll_id => SourceChain[e] = SourceChain[f]
    /\ \A p \in 1..Len(polls) : height < polls[p].expires_at =>
          \A i \in 1..polls[p].poll_size :
              load_event(p, i) = {} => results(polls[p])[i] = "NotFound"

Abstract == INSTANCE MessageVerification
                WITH Contents <- Events, verification <- [e \in Events |-> event_status(e)]

\* The statuses the contract answers follow the verification life cycle.
EventVerificationRefined == Abstract!Spec

\* What the expect of make_quorum_event states: as long as a poll is open to
\* some participant, the event of each of its items can be found.
EventExistsWhenVoteIsCast ==
    \A p \in 1..Len(polls) :
        height < polls[p].expires_at /\ polls[p].participants # polls[p].voted =>
            \A i \in 1..polls[p].poll_size : load_event(p, i) # {}
=============================================================================
