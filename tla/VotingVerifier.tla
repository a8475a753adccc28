--------------------------- MODULE VotingVerifier ---------------------------
(***************************************************************************)
(* The voting-verifier contract (contracts/voting-verifier) on top of the  *)
(* generic weighted polls of packages/axelar-wasm-std/src/voting.rs.       *)
(*                                                                         *)
(* Anyone asks for a batch of messages, or a verifier set, to be verified; *)
(* the contract opens a poll among the verifiers the service registry      *)
(* reports as active; the verifiers vote until the poll expires; anyone    *)
(* may then end the poll, which reports the verifiers that voted with the  *)
(* consensus to the rewards contract.  A transaction that fails leaves no  *)
(* trace, so an error path is a step that is not taken.                    *)
(***************************************************************************)
EXTENDS WeightedPoll, FiniteSets

CONSTANTS
    Messages,       \* messages of the configured source chain, well formed
    ForeignMessages,\* messages refused: other chain, bad address or id
    VerifierSets,   \* verifier sets that may be submitted for confirmation
    Thresholds,     \* pairs <<numerator, denominator>> governance may submit
    BlockExpiries,  \* values governance may submit for block_expiry
    ActiveSets,     \* answers the service registry may give to active_verifiers
    MaxBatch,       \* bound: the length of a batch of messages
    MaxPolls,       \* bound: the number of polls
    U64Max          \* bound: the largest block height

Contents == Messages \cup VerifierSets

ASSUME ContentsAssumption ==
    /\ Messages \cap VerifierSets = {}
    /\ Messages \cap ForeignMessages = {}

ASSUME ParametersAssumption ==
    /\ IsFiniteSet(Verifiers)
    /\ ActiveSets \subseteq SUBSET Verifiers
    /\ Thresholds \subseteq (Nat \ {0}) \X (Nat \ {0})
    /\ BlockExpiries \subseteq Nat \ {0}
    /\ MaxBatch \in Nat /\ MaxPolls \in Nat /\ U64Max \in Nat

VARIABLES
    height,         \* the current block height
    config,         \* CONFIG: voting_threshold and block_expiry
    polls,          \* POLLS; POLL_ID is Len(polls)
    votes,          \* VOTES: votes[p][v], <<>> when absent
    poll_content,   \* poll_messages and poll_verifier_sets, keyed by content
    announced,      \* announced[p][i]: the QuorumReached events sent so far
    recorded        \* recorded[p][v]: the RecordParticipation messages sent

vars == <<height, config, polls, votes, poll_content, announced, recorded>>

-----------------------------------------------------------------------------
\* contracts/voting-verifier: queries.

NoContent == [poll_id |-> 0, index_in_poll |-> 0]

\* Mutant: only a poll that somebody ended counts as completed.
voting_completed_OnlyFinished(poll, block_height) == status(poll, block_height) = "Finished"

voting_completed(poll, block_height) == status(poll, block_height) \in {"Expired", "Finished"}

\* verification_status; poll indices count from 1 here.
verification_status(c) ==
    IF poll_content[c] = NoContent THEN "Unknown"
    ELSE LET poll == polls[poll_content[c].poll_id]
             vote == consensus(poll.tallies[poll_content[c].index_in_poll], poll.quorum)
         IN  IF vote = "SucceededOnChain" THEN "SucceededOnSourceChain"
             ELSE IF vote = "FailedOnChain" THEN "FailedOnSourceChain"
             ELSE IF vote = "NotFound" THEN "NotFoundOnSourceChain"
             ELSE IF voting_completed(poll, height) THEN "FailedToVerify"
             ELSE "InProgress"

ToVerify(m) == verification_status(m) \in {"NotFoundOnSourceChain", "FailedToVerify", "Unknown"}

\* The contents that poll_response finds through the index of poll p.
load_contents(p) == {c \in Contents : poll_content[c].poll_id = p}

-----------------------------------------------------------------------------
\* contracts/voting-verifier: instantiate and execute.

Init ==
    /\ height = 0
    /\ config \in {[voting_threshold |-> t, block_expiry |-> e] :
                      t \in {u \in Thresholds : IsMajorityThreshold(u)}, e \in BlockExpiries}
    /\ polls = <<>>
    /\ votes = <<>>
    /\ poll_content = [c \in Contents |-> NoContent]
    /\ announced = <<>>
    /\ recorded = <<>>

calculate_expiration == height + config.block_expiry

\* take_snapshot and create_messages_poll / create_verifier_set_poll.  The
\* registry's answer must be nonempty and the expiry must not overflow.
create_poll(kind, active, poll_size) ==
    /\ active # {}
    /\ calculate_expiration <= U64Max
    /\ Len(polls) < MaxPolls
    /\ polls' = Append(polls,
          WeightedPoll_new(kind, active, Snapshot_quorum(active, config.voting_threshold),
                           calculate_expiration, poll_size))
    /\ votes' = Append(votes, [v \in Verifiers |-> <<>>])
    /\ announced' = Append(announced, [i \in 1..poll_size |-> <<>>])
    /\ recorded' = Append(recorded, [v \in Verifiers |-> 0])

verify_verifier_set(new_verifier_set, active) ==
    /\ ~is_confirmed(verification_status(new_verifier_set))
    /\ create_poll("ConfirmVerifierSet", active, 1)
    /\ poll_content' = [poll_content EXCEPT ![new_verifier_set] =
          [poll_id |-> Len(polls) + 1, index_in_poll |-> 1]]
    /\ UNCHANGED <<height, config>>

\* The positions of a batch whose message still needs a vote.
msgs_to_verify(batch) == {i \in 1..Len(batch) : ToVerify(batch[i])}

\* Mutant: the position in the batch as submitted, before filtering.
index_in_batch_Unfiltered(batch, m) ==
    Cardinality({i \in 1..Len(batch) : \E j \in msgs_to_verify(batch) : batch[j] = m /\ i <= j})

\* Messages are saved in batch order, so a message given twice ends up at
\* its last position: the number of positions kept up to there.
index_in_batch(batch, m) ==
    Cardinality({i \in msgs_to_verify(batch) :
                    \E j \in msgs_to_verify(batch) : batch[j] = m /\ i <= j})

\* Checks of the source chain, the source address and the message id.
ValidMessage(m) == m \in Messages

verify_messages(batch, active) ==
    /\ batch # <<>>
    /\ \A i \in 1..Len(batch) : ValidMessage(batch[i])
    /\ msgs_to_verify(batch) # {}
    /\ create_poll("Messages", active, Cardinality(msgs_to_verify(batch)))
    /\ poll_content' = [c \in Contents |->
          IF \E i \in msgs_to_verify(batch) : batch[i] = c
          THEN [poll_id |-> Len(polls) + 1, index_in_poll |-> index_in_batch(batch, c)]
          ELSE poll_content[c]]
    /\ UNCHANGED <<height, config>>

\* Mutant: every result is announced again with every vote.
quorum_events_Repeated(before, after) ==
    [i \in DOMAIN after |-> IF after[i] # None THEN <<after[i]>> ELSE <<>>]

\* PollResults::difference followed by make_quorum_event.
quorum_events(before, after) ==
    [i \in DOMAIN after |-> IF after[i] # None /\ before[i] = None THEN <<after[i]>> ELSE <<>>]

vote(p, sender, ballot) ==
    /\ p \in 1..Len(polls)
    /\ CanVote(polls[p], height, sender, ballot)
    /\ LET poll == cast_vote(polls[p], sender, ballot)
           events == quorum_events(results(polls[p]), results(poll))
       IN  /\ polls' = [polls EXCEPT ![p] = poll]
           /\ announced' = [announced EXCEPT ![p] =
                 [i \in 1..poll.poll_size |-> announced[p][i] \o events[i]]]
    /\ votes' = [votes EXCEPT ![p] = [@ EXCEPT ![sender] = ballot]]
    /\ UNCHANGED <<height, config, poll_content, recorded>>

end_poll(p) ==
    /\ p \in 1..Len(polls)
    /\ CanFinish(polls[p], height)
    /\ polls' = [polls EXCEPT ![p] = finish(polls[p])]
    /\ recorded' = [recorded EXCEPT ![p] =
          [v \in Verifiers |->
              IF v \in consensus_participants(finish(polls[p]), votes[p])
              THEN recorded[p][v] + 1 ELSE recorded[p][v]]]
    /\ UNCHANGED <<height, config, votes, poll_content, announced>>

update_voting_parameters(voting_threshold, block_expiry) ==
    /\ IsMajorityThreshold(voting_threshold)
    /\ config' = [voting_threshold |-> voting_threshold, block_expiry |-> block_expiry]
    /\ UNCHANGED <<height, polls, votes, poll_content, announced, recorded>>

\* The chain commits a block.
NextBlock ==
    /\ height < U64Max
    /\ height' = height + 1
    /\ UNCHANGED <<config, polls, votes, poll_content, announced, recorded>>

\* Inputs: batches and ballots up to MaxBatch entries.
SeqOf(S) == UNION {[1..n -> S] : n \in 0..MaxBatch}

VerifyMessages == \E batch \in SeqOf(Messages \cup ForeignMessages), active \in ActiveSets :
                     verify_messages(batch, active)
VerifyVerifierSet == \E s \in VerifierSets, active \in ActiveSets : verify_verifier_set(s, active)
CastVote == \E p \in 1..Len(polls), v \in Verifiers, ballot \in SeqOf(Vote) : vote(p, v, ballot)
EndPoll == \E p \in 1..Len(polls) : end_poll(p)
UpdateVotingParameters == \E t \in Thresholds, e \in BlockExpiries : update_voting_parameters(t, e)

Next ==
    \/ VerifyMessages
    \/ VerifyVerifierSet
    \/ CastVote
    \/ EndPoll
    \/ UpdateVotingParameters
    \/ NextBlock

Spec == Init /\ [][Next]_vars

\* The chain keeps producing blocks whatever the users do.
FairSpec == Spec /\ WF_vars(NextBlock)

-----------------------------------------------------------------------------
\* Correctness.

\* Type correctness of the contract's stores: a poll has one tally per item,
\* and the per-poll records exist for exactly the polls of POLLS.
TypeOK ==
    /\ height \in 0..U64Max
    /\ config \in [voting_threshold : Thresholds, block_expiry : BlockExpiries]
    /\ polls \in Seq(Poll)
    /\ votes \in Seq([Verifiers -> Seq(Vote)])
    /\ poll_content \in [Contents -> [poll_id : Nat, index_in_poll : Nat]]
    /\ announced \in Seq(Seq(Seq(Vote)))
    /\ recorded \in Seq([Verifiers -> Nat])

PollWellFormed(p) ==
    /\ Len(polls[p].tallies) = polls[p].poll_size
    /\ Len(announced[p]) = polls[p].poll_size
    /\ polls[p].poll_size >= 1
    /\ 2 * polls[p].quorum > SetWeight[polls[p].participants]
    /\ polls[p].voted \subseteq polls[p].participants
    /\ polls[p].voted = {v \in Verifiers : votes[p][v] # <<>>}
    /\ \A v \in polls[p].voted : Len(votes[p][v]) = polls[p].poll_size
    /\ polls[p].finished => height >= polls[p].expires_at

\* The bookkeeping the other invariants rest on.  A poll's quorum is more than
\* half of its snapshot's weight even after governance changed the threshold;
\* its voted flags, the ballots kept in VOTES and the sizes agree; and a poll
\* is ended only after its last possible vote.
PollsWellFormed ==
    /\ IsMajorityThreshold(config.voting_threshold)
    /\ Len(votes) = Len(polls) /\ Len(announced) = Len(polls) /\ Len(recorded) = Len(polls)
    /\ \A p \in 1..Len(polls) : PollWellFormed(p)

\* The stored content of verification_status always leads to an item of an
\* existing poll of its own kind, and no two contents share an item, whatever
\* is verified again and however a batch repeats or mixes new, failed and
\* pending messages: the "invalid invariant" expects of the query and the "More
\* than one message for poll_id" of load_message never fire.
ContentsMatchItems ==
    /\ \A c \in Contents : poll_content[c] # NoContent =>
          /\ poll_content[c].poll_id \in 1..Len(polls)
          /\ poll_content[c].index_in_poll \in 1..polls[poll_content[c].poll_id].poll_size
          /\ polls[poll_content[c].poll_id].kind =
                IF c \in Messages THEN "Messages" ELSE "ConfirmVerifierSet"
    /\ \A c, d \in Contents :
          poll_content[c] # NoContent /\ poll_content[c] = poll_content[d] => c = d

\* Who voted v on item i of poll p, according to VOTES.
VotersOf(p, i, v) == {a \in Verifiers : votes[p][a] # <<>> /\ votes[p][a][i] = v}

\* The running tallies of every poll are exactly the weight of the votes kept
\* in VOTES: nobody is counted twice, outside the snapshot or without a record.
TalliesCountVotes ==
    \A p \in 1..Len(polls) : \A i \in 1..polls[p].poll_size : \A v \in Vote :
        polls[p].tallies[i][v] = SetWeight[VotersOf(p, i, v)]

\* A majority quorum is reached by at most one vote, so the order in which
\* Tallies::consensus looks at the votes never decides a result.
ConsensusUnique ==
    \A p \in 1..Len(polls) : \A i \in 1..polls[p].poll_size : \A v, w \in Vote :
        polls[p].tallies[i][v] >= polls[p].quorum /\ polls[p].tallies[i][w] >= polls[p].quorum
            => v = w

\* The QuorumReached events sent for an item are its present result, sent
\* once: no result is announced twice, revoked, changed or left unannounced by
\* later votes.
QuorumAnnouncedOnce ==
    \A p \in 1..Len(polls) : \A i \in 1..polls[p].poll_size :
        announced[p][i] = LET r == results(polls[p])[i] IN IF r = None THEN <<>> ELSE <<r>>

\* A verifier is reported to the rewards contract for a poll exactly once, when
\* the poll was ended and its ballot agrees with every result the poll has
\* from then on; a verifier that did not vote is never reported.
RewardedAgreed ==
    \A p \in 1..Len(polls) : \A v \in Verifiers :
        recorded[p][v] = IF /\ polls[p].finished
                            /\ votes[p][v] # <<>>
                            /\ \A i \in 1..polls[p].poll_size :
                                  results(polls[p])[i] \in {None, votes[p][v][i]}
                         THEN 1 ELSE 0

Abstract == INSTANCE MessageVerification
                WITH verification <- [c \in Contents |-> verification_status(c)]

\* The statuses the contract answers follow the verification life cycle:
\* in particular a confirmed message or verifier set stays as it is, and no vote
\* arrives once a verification has been reported as failed or not found.
VerificationRefined == Abstract!Spec

\* A message does not stay in progress for ever: the poll expires with the
\* passing of blocks even if nobody votes and nobody ends it.
VerificationTerminates ==
    \A m \in Messages :
        verification_status(m) = "InProgress" ~> verification_status(m) # "InProgress"

\* What the assertion of poll_response states: a messages poll has one stored
\* message for each of its items.
PollResponseMessages ==
    \A p \in 1..Len(polls) : polls[p].kind = "Messages" =>
        Cardinality(load_contents(p)) = Len(polls[p].tallies)
=============================================================================
