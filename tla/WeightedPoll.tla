---------------------------- MODULE WeightedPoll ----------------------------
(***************************************************************************)
(* The weighted polls of packages/axelar-wasm-std that the voting verifier *)
(* and the event verifier are built on: thresholds, snapshots, tallies and *)
(* the life of one poll.  The verifiers' weights are constants, as they    *)
(* are in the service registry, and the weight of a set of verifiers is    *)
(* the additive measure they generate.                                     *)
(***************************************************************************)
EXTENDS Integers, Sequences

CONSTANTS
    Verifiers,      \* addresses that may appear in a snapshot
    Weight,         \* Weight[v]: the weight of v in a snapshot
    SetWeight       \* SetWeight[S]: the sum of the weights of S

\* Snapshot weights are nonzero (nonempty::Uint128); the weight of a set is
\* the additive measure they generate.
ASSUME WeightAssumption ==
    /\ Weight \in [Verifiers -> Nat \ {0}]
    /\ SetWeight \in [SUBSET Verifiers -> Nat]
    /\ SetWeight[{}] = 0
    /\ \A v \in Verifiers : SetWeight[{v}] = Weight[v]
    /\ \A S, T \in SUBSET Verifiers :
          S \cap T = {} => SetWeight[S \cup T] = SetWeight[S] + SetWeight[T]

-----------------------------------------------------------------------------
\* Thresholds, votes and tallies.

Vote == {"SucceededOnChain", "FailedOnChain", "NotFound"}
None == "None"

\* Mutant: a half passes for a majority.
IsMajorityThreshold_AtLeastHalf(t) == t[1] <= t[2] /\ t[1] >= t[2] \div 2

IsMajorityThreshold(t) == t[1] <= t[2] /\ t[1] > t[2] \div 2

\* Uint128::mul_ceil
mul_ceil(weight, t) == (weight * t[1] + t[2] - 1) \div t[2]

Snapshot_quorum(participants, t) == mul_ceil(SetWeight[participants], t)

\* Tallies is a BTreeMap keyed by the vote's name: the first one that
\* reaches the quorum, in the order of the names, is the consensus.
consensus(tallies, quorum) ==
    IF tallies["FailedOnChain"] >= quorum THEN "FailedOnChain"
    ELSE IF tallies["NotFound"] >= quorum THEN "NotFound"
    ELSE IF tallies["SucceededOnChain"] >= quorum THEN "SucceededOnChain"
    ELSE None

\* Mutant: the weight is taken off the tally.
tally_Subtracts(tallies, vote, weight) == [tallies EXCEPT ![vote] = @ - weight]

tally(tallies, vote, weight) == [tallies EXCEPT ![vote] = @ + weight]

results(poll) == [i \in 1..poll.poll_size |-> consensus(poll.tallies[i], poll.quorum)]

WeightedPoll_new(kind, participants, quorum, expires_at, poll_size) ==
    [kind         |-> kind,
     quorum       |-> quorum,
     expires_at   |-> expires_at,
     poll_size    |-> poll_size,
     tallies      |-> [i \in 1..poll_size |-> [v \in Vote |-> 0]],
     finished     |-> FALSE,
     participants |-> participants,
     voted        |-> {}]

\* Mutant: a participant may vote again.
CanVote_Again(poll, block_height, sender, ballot) ==
    /\ sender \in poll.participants
    /\ block_height < poll.expires_at
    /\ Len(ballot) = poll.poll_size

\* Mutant: the poll is still open at the height it expires.
CanVote_AtExpiry(poll, block_height, sender, ballot) ==
    /\ sender \in poll.participants
    /\ block_height <= poll.expires_at
    /\ Len(ballot) = poll.poll_size
    /\ sender \notin poll.voted

\* Mutant: a ballot with more votes than the poll has items is accepted.
CanVote_LongBallot(poll, block_height, sender, ballot) ==
    /\ sender \in poll.participants
    /\ block_height < poll.expires_at
    /\ Len(ballot) >= poll.poll_size
    /\ sender \notin poll.voted

CanVote(poll, block_height, sender, ballot) ==
    /\ sender \in poll.participants
    /\ block_height < poll.expires_at
    /\ Len(ballot) = poll.poll_size
    /\ sender \notin poll.voted

cast_vote(poll, sender, ballot) ==
    [poll EXCEPT
        !.tallies = [i \in 1..poll.poll_size |->
                        tally(poll.tallies[i], ballot[i], Weight[sender])],
        !.voted = @ \cup {sender}]

\* Mutant: a poll may be ended before it expires.
CanFinish_Early(poll, block_height) == ~poll.finished

CanFinish(poll, block_height) ==
    /\ ~poll.finished
    /\ block_height >= poll.expires_at

finish(poll) == [poll EXCEPT !.finished = TRUE]

status(poll, block_height) ==
    IF poll.finished THEN "Finished"
    ELSE IF block_height >= poll.expires_at THEN "Expired"
    ELSE "InProgress"

\* WeightedPoll::state: who voted for every result there is a consensus on.
consensus_participants(poll, history) ==
    {v \in poll.participants :
        /\ history[v] # <<>>
        /\ \A i \in 1..poll.poll_size :
              results(poll)[i] \in {None, history[v][i]}}

-----------------------------------------------------------------------------
\* The type of a poll; kind is the variant of the contract's Poll enum.

PollKinds == {"Messages", "ConfirmVerifierSet", "Events"}

Tallies == [Vote -> Nat]

Poll == [kind : PollKinds, quorum : Nat, expires_at : Nat,
         poll_size : Nat, tallies : Seq(Tallies), finished : BOOLEAN,
         participants : SUBSET Verifiers, voted : SUBSET Verifiers]

\* The statuses a verifier contract answers for a content.
VerificationStatus == {"Unknown", "InProgress", "FailedToVerify",
    "NotFoundOnSourceChain", "SucceededOnSourceChain", "FailedOnSourceChain"}

is_confirmed(st) == st \in {"SucceededOnSourceChain", "FailedOnSourceChain"}
=============================================================================
