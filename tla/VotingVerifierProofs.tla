------------------------ MODULE VotingVerifierProofs ------------------------
(***************************************************************************)
(* TLAPS proofs about VotingVerifier.                                      *)
(***************************************************************************)
EXTENDS VotingVerifier, FiniteSetTheorems, SequenceTheorems, TLAPS

\* A function on 1..n is a sequence of length n.
LEMMA FunctionIsSeq ==
    ASSUME NEW S, NEW n \in Nat, NEW f \in [1..n -> S]
    PROVE  f \in Seq(S) /\ Len(f) = n
  OBVIOUS

\* The batches and ballots of the inputs are sequences.
LEMMA SeqOfIsSeq ==
    ASSUME NEW S, NEW s \in SeqOf(S)
    PROVE  /\ s \in Seq(S)
           /\ DOMAIN s = 1..Len(s)
           /\ Len(s) \in Nat
<1>1. PICK n \in 0..MaxBatch : s \in [1..n -> S]
  BY DEF SeqOf
<1>2. n \in Nat
  BY ParametersAssumption
<1>. QED
  BY <1>1, <1>2, IsASeq, LenProperties

\* A nonempty snapshot has a positive weight (nonempty::Uint128).
LEMMA NonemptyWeight ==
    ASSUME NEW S \in SUBSET Verifiers, S # {}
    PROVE  SetWeight[S] \in Nat \ {0}
<1>1. PICK v \in S : TRUE
  OBVIOUS
<1>2. S = {v} \cup (S \ {v}) /\ {v} \cap (S \ {v}) = {}
  OBVIOUS
<1>3. SetWeight[S] = SetWeight[{v}] + SetWeight[S \ {v}]
  BY <1>2, WeightAssumption
<1>4. SetWeight[{v}] = Weight[v] /\ Weight[v] \in Nat \ {0} /\ SetWeight[S \ {v}] \in Nat
  BY WeightAssumption
<1>. QED
  BY <1>3, <1>4

\* The types of the configuration, unpacked once for the provers.
LEMMA ConfigType ==
    ASSUME TypeOK
    PROVE  /\ height \in Nat
           /\ config.block_expiry \in Nat \ {0}
           /\ config.voting_threshold \in (Nat \ {0}) \X (Nat \ {0})
           /\ config.voting_threshold[1] \in Nat \ {0}
           /\ config.voting_threshold[2] \in Nat \ {0}
<1>1. height \in 0..U64Max /\ config \in [voting_threshold : Thresholds, block_expiry : BlockExpiries]
  BY DEF TypeOK
<1>2. height \in Nat
  BY <1>1, ParametersAssumption
<1>3. config.voting_threshold \in Thresholds /\ config.block_expiry \in BlockExpiries
  BY <1>1
<1>4. config.block_expiry \in Nat \ {0}
  BY <1>3, ParametersAssumption
<1>5. config.voting_threshold \in (Nat \ {0}) \X (Nat \ {0})
  BY <1>3, ParametersAssumption
<1>. QED
  BY <1>2, <1>4, <1>5

\* Division with remainder, for Uint128::mul_ceil.
LEMMA DivFacts ==
    ASSUME NEW x \in Nat, NEW d \in Nat \ {0}
    PROVE  /\ x \div d \in Nat
           /\ d * (x \div d) <= x
           /\ x < d * (x \div d) + d
  OBVIOUS

\* The integer half that MajorityThreshold::try_from compares with.
LEMMA Div2 ==
    ASSUME NEW d \in Nat \ {0}, NEW n \in Nat, n > d \div 2
    PROVE  2 * n > d
  OBVIOUS

\* Multiplying a majority by a positive weight.
LEMMA Mul1 ==
    ASSUME NEW w \in Nat \ {0}, NEW n \in Nat, NEW d \in Nat \ {0}, 2*n > d
    PROVE  2 * (w * n) > w * d
  OBVIOUS

\* Cancelling the denominator of a threshold.
LEMMA Mul2 ==
    ASSUME NEW w \in Nat \ {0}, NEW q \in Nat, NEW d \in Nat \ {0}, 2 * (d * q) > w * d
    PROVE  2 * q > w
  OBVIOUS

\* Snapshot_quorum of a majority threshold is more than half of the
\* snapshot's weight, in spite of the rounding of mul_ceil.
LEMMA MajorityQuorum ==
    ASSUME NEW w \in Nat \ {0}, NEW n \in Nat \ {0}, NEW d \in Nat \ {0},
           n > d \div 2
    PROVE  LET q == (w * n + d - 1) \div d IN q \in Nat /\ 2 * q > w
<1>. DEFINE x == w * n + d - 1
            q == x \div d
<1>0. w * n \in Nat /\ w * d \in Nat
  OBVIOUS
<1>1. x \in Nat
  BY <1>0
<1>. HIDE DEF x
<1>2. q \in Nat /\ x < d * q + d
  BY <1>1, DivFacts
<1>3. d * q \in Nat
  BY <1>2
<1>. HIDE DEF q
<1>4. w * n <= d * q
  BY <1>0, <1>2, <1>3 DEF x
<1>5. 2 * (w * n) > w * d
  BY Div2, Mul1
<1>6. 2 * (d * q) > w * d
  BY <1>4, <1>5, <1>0, <1>3
<1>7. 2 * q > w
  BY <1>6, <1>2, Mul2
<1>. QED
  BY <1>2, <1>7 DEF q, x

\* WeightedPoll::new builds a poll whose quorum is a majority.
LEMMA NewPollType ==
    ASSUME TypeOK, PollsWellFormed, NEW active \in ActiveSets, active # {}, NEW size \in Nat,
           NEW kind \in {"Messages", "ConfirmVerifierSet"}
    PROVE  /\ WeightedPoll_new(kind, active, Snapshot_quorum(active, config.voting_threshold),
                               calculate_expiration, size) \in Poll
           /\ 2 * Snapshot_quorum(active, config.voting_threshold) > SetWeight[active]
<1>1. [i \in 1..size |-> [v \in Vote |-> 0]] \in Seq(Tallies)
  BY IsASeq DEF Tallies
<1>2. calculate_expiration \in Nat
  BY ConfigType DEF calculate_expiration
<1>4. active \in SUBSET Verifiers
  BY ParametersAssumption
<1>3. /\ Snapshot_quorum(active, config.voting_threshold) \in Nat
      /\ 2 * Snapshot_quorum(active, config.voting_threshold) > SetWeight[active]
  <2>. DEFINE n == config.voting_threshold[1]
              d == config.voting_threshold[2]
  <2>1. n \in Nat \ {0} /\ d \in Nat \ {0}
    BY ConfigType
  <2>2. SetWeight[active] \in Nat \ {0}
    BY <1>4, NonemptyWeight
  <2>3. n > d \div 2
    BY DEF PollsWellFormed, IsMajorityThreshold
  <2>. HIDE DEF n, d
  <2>4. LET q == (SetWeight[active] * n + d - 1) \div d IN q \in Nat /\ 2 * q > SetWeight[active]
    BY <2>1, <2>2, <2>3, MajorityQuorum
  <2>. QED
    BY <2>4 DEF Snapshot_quorum, mul_ceil, n, d
<1>. QED
  BY <1>1, <1>2, <1>3, <1>4 DEF WeightedPoll_new, Poll, PollKinds

\* WeightedPoll::cast_vote keeps a poll a poll.
LEMMA CastVoteType ==
    ASSUME NEW poll \in Poll, NEW sender \in Verifiers, NEW ballot \in Seq(Vote),
           Len(ballot) = poll.poll_size, Len(poll.tallies) = poll.poll_size
    PROVE  cast_vote(poll, sender, ballot) \in Poll
<1>1. ASSUME NEW i \in 1..poll.poll_size
      PROVE  tally(poll.tallies[i], ballot[i], Weight[sender]) \in Tallies
  <2>1. poll.tallies \in Seq(Tallies) /\ poll.poll_size \in Nat
    BY DEF Poll
  <2>2. poll.tallies[i] \in [Vote -> Nat] /\ ballot[i] \in Vote
    BY <2>1, SMTT(30) DEF Tallies
  <2>. QED
    BY <2>2, WeightAssumption, SMTT(30) DEF tally, Tallies
<1>2. [i \in 1..poll.poll_size |-> tally(poll.tallies[i], ballot[i], Weight[sender])] \in Seq(Tallies)
  BY <1>1, IsASeq DEF Poll
<1>. QED
  BY <1>2 DEF cast_vote, Poll

-----------------------------------------------------------------------------
\* What the two kinds of steps that touch the polls do to the stores.

\* What create_poll does to the stores, poll by poll.
LEMMA CreatePollEffect ==
    ASSUME TypeOK, PollsWellFormed, NEW active \in ActiveSets, NEW size \in Nat,
           NEW kind \in {"Messages", "ConfirmVerifierSet"}, create_poll(kind, active, size)
    PROVE  LET new == WeightedPoll_new(kind, active,
                          Snapshot_quorum(active, config.voting_threshold),
                          calculate_expiration, size)
           IN  /\ polls' \in Seq(Poll) /\ votes' \in Seq([Verifiers -> Seq(Vote)])
               /\ announced' \in Seq(Seq(Seq(Vote))) /\ recorded' \in Seq([Verifiers -> Nat])
               /\ Len(polls') = Len(polls) + 1 /\ Len(votes') = Len(polls) + 1
               /\ Len(announced') = Len(polls) + 1 /\ Len(recorded') = Len(polls) + 1
               /\ \A p \in 1..Len(polls) : /\ polls'[p] = polls[p] /\ votes'[p] = votes[p]
                                           /\ announced'[p] = announced[p]
                                           /\ recorded'[p] = recorded[p]
               /\ polls'[Len(polls) + 1] = new
               /\ votes'[Len(polls) + 1] = [v \in Verifiers |-> <<>>]
               /\ announced'[Len(polls) + 1] = [i \in 1..size |-> <<>>]
               /\ recorded'[Len(polls) + 1] = [v \in Verifiers |-> 0]
<1>. DEFINE new == WeightedPoll_new(kind, active,
                       Snapshot_quorum(active, config.voting_threshold),
                       calculate_expiration, size)
            noVotes == [v \in Verifiers |-> <<>>]
            noEvents == [i \in 1..size |-> <<>>]
            noRecords == [v \in Verifiers |-> 0]
<1>1. /\ polls \in Seq(Poll) /\ votes \in Seq([Verifiers -> Seq(Vote)])
      /\ announced \in Seq(Seq(Seq(Vote))) /\ recorded \in Seq([Verifiers -> Nat])
  BY DEF TypeOK
<1>2. Len(votes) = Len(polls) /\ Len(announced) = Len(polls) /\ Len(recorded) = Len(polls)
  BY DEF PollsWellFormed
<1>3. /\ active # {}
      /\ polls' = Append(polls, new) /\ votes' = Append(votes, noVotes)
      /\ announced' = Append(announced, noEvents) /\ recorded' = Append(recorded, noRecords)
  BY DEF create_poll
<1>4. new \in Poll
  BY <1>3, NewPollType
<1>5. noVotes \in [Verifiers -> Seq(Vote)] /\ noRecords \in [Verifiers -> Nat]
  OBVIOUS
<1>6. noEvents \in Seq(Seq(Vote))
  OBVIOUS
<1>. HIDE DEF new, noVotes, noEvents, noRecords
<1>7. /\ polls' \in Seq(Poll) /\ Len(polls') = Len(polls) + 1
      /\ polls'[Len(polls) + 1] = new /\ \A p \in 1..Len(polls) : polls'[p] = polls[p]
  BY <1>1, <1>3, <1>4, AppendProperties
<1>8. /\ votes' \in Seq([Verifiers -> Seq(Vote)]) /\ Len(votes') = Len(polls) + 1
      /\ votes'[Len(polls) + 1] = noVotes /\ \A p \in 1..Len(polls) : votes'[p] = votes[p]
  BY <1>1, <1>2, <1>3, <1>5, AppendProperties
<1>9. /\ announced' \in Seq(Seq(Seq(Vote))) /\ Len(announced') = Len(polls) + 1
      /\ announced'[Len(polls) + 1] = noEvents
      /\ \A p \in 1..Len(polls) : announced'[p] = announced[p]
  BY <1>1, <1>2, <1>3, <1>6, AppendProperties
<1>10. /\ recorded' \in Seq([Verifiers -> Nat]) /\ Len(recorded') = Len(polls) + 1
       /\ recorded'[Len(polls) + 1] = noRecords
       /\ \A p \in 1..Len(polls) : recorded'[p] = recorded[p]
  BY <1>1, <1>2, <1>3, <1>5, AppendProperties
<1>. QED
  BY <1>7, <1>8, <1>9, <1>10 DEF new, noVotes, noEvents, noRecords

\* The types of the records of one poll.
LEMMA PollType ==
    ASSUME TypeOK, PollsWellFormed, NEW p \in 1..Len(polls)
    PROVE  /\ polls[p] \in Poll /\ votes[p] \in [Verifiers -> Seq(Vote)]
           /\ announced[p] \in Seq(Seq(Vote)) /\ recorded[p] \in [Verifiers -> Nat]
           /\ polls[p].poll_size \in Nat /\ polls[p].quorum \in Nat /\ polls[p].expires_at \in Nat
           /\ polls[p].tallies \in Seq(Tallies)
           /\ polls[p].participants \in SUBSET Verifiers /\ polls[p].voted \in SUBSET Verifiers
           /\ Len(polls[p].tallies) = polls[p].poll_size /\ Len(announced[p]) = polls[p].poll_size
<1>1. /\ polls \in Seq(Poll) /\ votes \in Seq([Verifiers -> Seq(Vote)])
      /\ announced \in Seq(Seq(Seq(Vote))) /\ recorded \in Seq([Verifiers -> Nat])
  BY DEF TypeOK
<1>2. Len(votes) = Len(polls) /\ Len(announced) = Len(polls) /\ Len(recorded) = Len(polls)
  BY DEF PollsWellFormed
<1>3. /\ polls[p] \in Poll /\ votes[p] \in [Verifiers -> Seq(Vote)]
      /\ announced[p] \in Seq(Seq(Vote)) /\ recorded[p] \in [Verifiers -> Nat]
  BY <1>1, <1>2, ElementOfSeq
<1>4. Len(polls[p].tallies) = polls[p].poll_size /\ Len(announced[p]) = polls[p].poll_size
  BY DEF PollsWellFormed, PollWellFormed
<1>. QED
  BY <1>3, <1>4 DEF Poll

\* What vote does to the stores, poll by poll.
LEMMA VoteEffect ==
    ASSUME TypeOK, PollsWellFormed, NEW p \in 1..Len(polls), NEW sender \in Verifiers,
           NEW ballot \in Seq(Vote), vote(p, sender, ballot)
    PROVE  /\ polls' \in Seq(Poll) /\ votes' \in Seq([Verifiers -> Seq(Vote)])
           /\ announced' \in Seq(Seq(Seq(Vote)))
           /\ Len(polls') = Len(polls) /\ Len(votes') = Len(polls) /\ Len(announced') = Len(polls)
           /\ \A q \in 1..Len(polls) \ {p} : /\ polls'[q] = polls[q] /\ votes'[q] = votes[q]
                                              /\ announced'[q] = announced[q]
           /\ polls'[p] = cast_vote(polls[p], sender, ballot)
           /\ announced'[p] = [i \in 1..polls[p].poll_size |-> announced[p][i] \o
                   quorum_events(results(polls[p]), results(cast_vote(polls[p], sender, ballot)))[i]]
<1>. DEFINE poll == cast_vote(polls[p], sender, ballot)
            events == quorum_events(results(polls[p]), results(poll))
            log == [i \in 1..polls[p].poll_size |-> announced[p][i] \o events[i]]
            history == [votes[p] EXCEPT ![sender] = ballot]
<1>1. /\ polls \in Seq(Poll) /\ votes \in Seq([Verifiers -> Seq(Vote)])
      /\ announced \in Seq(Seq(Seq(Vote)))
  BY DEF TypeOK
<1>2. Len(votes) = Len(polls) /\ Len(announced) = Len(polls)
  BY DEF PollsWellFormed
<1>3. /\ polls[p] \in Poll /\ votes[p] \in [Verifiers -> Seq(Vote)] /\ announced[p] \in Seq(Seq(Vote))
      /\ polls[p].poll_size \in Nat
      /\ Len(polls[p].tallies) = polls[p].poll_size /\ Len(announced[p]) = polls[p].poll_size
  BY <1>1, <1>2, PollType, SMTT(30)
<1>4. Len(ballot) = polls[p].poll_size
  BY DEF vote, CanVote
<1>5. poll \in Poll /\ poll.poll_size = polls[p].poll_size
  BY <1>3, <1>4, CastVoteType DEF cast_vote, Poll
<1>6. history \in [Verifiers -> Seq(Vote)]
  BY <1>3
<1>7. \A i \in 1..polls[p].poll_size : events[i] \in Seq(Vote)
  <2>1. \A i \in 1..polls[p].poll_size : results(poll)[i] \in Vote \cup {None}
    BY <1>5 DEF results, consensus, Vote
  <2>2. DOMAIN results(poll) = 1..polls[p].poll_size
    BY <1>5 DEF results
  <2>. QED
    BY <2>1, <2>2 DEF quorum_events
<1>8. log \in Seq(Seq(Vote))
  <2>. HIDE DEF events
  <2>1. polls[p].poll_size \in Nat
    BY <1>3
  <2>2. log \in [1..polls[p].poll_size -> Seq(Vote)]
    BY <1>3, <1>7
  <2>. HIDE DEF log
  <2>. QED
    BY <2>1, <2>2, FunctionIsSeq
<1>9. polls' = [polls EXCEPT ![p] = poll] /\ votes' = [votes EXCEPT ![p] = history]
  BY DEF vote
<1>10. announced' = [announced EXCEPT ![p] = log]
  BY <1>5 DEF vote
<1>. HIDE DEF poll, history, log
<1>11. /\ polls' \in Seq(Poll) /\ Len(polls') = Len(polls) /\ polls'[p] = poll
       /\ \A q \in 1..Len(polls) \ {p} : polls'[q] = polls[q]
  BY <1>1, <1>5, <1>9, ExceptSeq
<1>12. /\ votes' \in Seq([Verifiers -> Seq(Vote)]) /\ Len(votes') = Len(polls) /\ votes'[p] = history
       /\ \A q \in 1..Len(polls) \ {p} : votes'[q] = votes[q]
  BY <1>1, <1>2, <1>6, <1>9, ExceptSeq
<1>13. /\ announced' \in Seq(Seq(Seq(Vote))) /\ Len(announced') = Len(polls) /\ announced'[p] = log
       /\ \A q \in 1..Len(polls) \ {p} : announced'[q] = announced[q]
  BY <1>1, <1>2, <1>8, <1>10, ExceptSeq
<1>. QED
  BY <1>11, <1>12, <1>13 DEF poll, log

\* What vote does to VOTES, verifier by verifier.
LEMMA VoteHistory ==
    ASSUME TypeOK, PollsWellFormed, NEW p \in 1..Len(polls), NEW sender \in Verifiers,
           NEW ballot \in Seq(Vote), vote(p, sender, ballot)
    PROVE  \A v \in Verifiers : votes'[p][v] = IF v = sender THEN ballot ELSE votes[p][v]
<1>1. votes[p] \in [Verifiers -> Seq(Vote)]
  BY PollType
<1>2. votes \in Seq([Verifiers -> Seq(Vote)]) /\ p \in 1..Len(votes)
  BY DEF TypeOK, PollsWellFormed
<1>3. votes' = [votes EXCEPT ![p] = [votes[p] EXCEPT ![sender] = ballot]]
  BY DEF vote
<1>. QED
  BY <1>1, <1>2, <1>3

-----------------------------------------------------------------------------
\* Positions of a message in a batch.

\* The kept positions of a batch are finitely many, and at least one when
\* a poll is opened.
LEMMA BatchPositions ==
    ASSUME NEW batch \in SeqOf(Messages \cup ForeignMessages)
    PROVE  /\ IsFiniteSet(msgs_to_verify(batch))
           /\ Cardinality(msgs_to_verify(batch)) \in Nat
           /\ msgs_to_verify(batch) # {} => Cardinality(msgs_to_verify(batch)) >= 1
<1>1. IsFiniteSet(1..Len(batch))
  BY SeqOfIsSeq, FS_Interval
<1>2. msgs_to_verify(batch) \in SUBSET (1..Len(batch))
  BY DEF msgs_to_verify
<1>3. IsFiniteSet(msgs_to_verify(batch))
  BY <1>1, <1>2, FS_Subset
<1>. QED
  BY <1>3, FS_CardinalityType, FS_EmptySet

\* A kept message is saved at an index of the new poll.
LEMMA BatchIndex ==
    ASSUME NEW batch \in SeqOf(Messages \cup ForeignMessages), NEW m,
           \E i \in msgs_to_verify(batch) : batch[i] = m
    PROVE  index_in_batch(batch, m) \in 1..Cardinality(msgs_to_verify(batch))
<1>. DEFINE K == msgs_to_verify(batch)
            A == {i \in K : \E j \in K : batch[j] = m /\ i <= j}
<1>1. IsFiniteSet(K)
  BY BatchPositions
<1>2. A \in SUBSET K
  OBVIOUS
<1>3. IsFiniteSet(A) /\ Cardinality(A) <= Cardinality(K)
  BY <1>1, <1>2, FS_Subset
<1>4. A # {}
  <2>1. PICK i \in K : batch[i] = m
    OBVIOUS
  <2>2. i \in 1..Len(batch)
    BY DEF msgs_to_verify
  <2>3. i <= i
    BY <2>2, SeqOfIsSeq
  <2>. QED
    BY <2>1, <2>3
<1>5. Cardinality(A) \in Nat /\ Cardinality(A) # 0 /\ Cardinality(K) \in Nat
  BY <1>1, <1>3, <1>4, FS_CardinalityType, FS_EmptySet
<1>. HIDE DEF K
<1>6. Cardinality(A) \in 1..Cardinality(K)
  BY <1>3, <1>5
<1>. QED
  BY <1>6 DEF index_in_batch, K

-----------------------------------------------------------------------------
\* The bookkeeping invariant.

Bookkeeping == TypeOK /\ PollsWellFormed

\* Opening a poll keeps the bookkeeping.
LEMMA BookkeepingCreate ==
    ASSUME Bookkeeping, NEW active \in ActiveSets, NEW size \in Nat, size >= 1,
           NEW kind \in {"Messages", "ConfirmVerifierSet"}, create_poll(kind, active, size),
           UNCHANGED <<height, config>>,
           poll_content' \in [Contents -> [poll_id : Nat, index_in_poll : Nat]]
    PROVE  Bookkeeping'
<1>. USE DEF Bookkeeping
<1>. DEFINE id == Len(polls) + 1
            new == WeightedPoll_new(kind, active,
                       Snapshot_quorum(active, config.voting_threshold),
                       calculate_expiration, size)
<1>1. TypeOK'
  BY CreatePollEffect, ZenonT(40) DEF TypeOK
<1>2. Len(polls) \in Nat
  BY DEF TypeOK
<1>3. active # {}
  BY DEF create_poll
<1>7. /\ Len(polls') = id
      /\ \A p \in 1..Len(polls) : polls'[p] = polls[p] /\ votes'[p] = votes[p] /\ announced'[p] = announced[p]
  BY CreatePollEffect
<1>4. ASSUME NEW p \in 1..Len(polls')
      PROVE  PollWellFormed(p)'
  <2>1. CASE p \in 1..Len(polls)
    <3>1. polls'[p] = polls[p] /\ votes'[p] = votes[p] /\ announced'[p] = announced[p] /\ height' = height
      BY <1>7, <2>1
    <3>. QED
      BY <2>1, <3>1 DEF PollsWellFormed, PollWellFormed
  <2>2. CASE p = id
    <3>1. /\ polls'[p] = new /\ votes'[p] = [v \in Verifiers |-> <<>>]
          /\ announced'[p] = [i \in 1..size |-> <<>>]
      BY <2>2, CreatePollEffect
    <3>2. 2 * new.quorum > SetWeight[new.participants]
      BY <1>3, NewPollType DEF WeightedPoll_new
    <3>3. Len([i \in 1..size |-> <<>>]) = size /\ Len(new.tallies) = size
      BY DEF WeightedPoll_new
    <3>4. new.poll_size = size /\ new.voted = {} /\ new.finished = FALSE
      BY DEF WeightedPoll_new
    <3>. HIDE DEF new
    <3>. QED
      BY <3>1, <3>2, <3>3, <3>4 DEF PollWellFormed
  <2>. QED
    BY <1>2, <1>7, <2>1, <2>2
<1>5. IsMajorityThreshold(config.voting_threshold)'
  BY DEF PollsWellFormed
<1>6. (Len(votes) = Len(polls) /\ Len(announced) = Len(polls) /\ Len(recorded) = Len(polls))'
  BY CreatePollEffect
<1>. QED
  BY <1>1, <1>4, <1>5, <1>6 DEF PollsWellFormed

\* A vote keeps the bookkeeping.
LEMMA BookkeepingVote ==
    ASSUME Bookkeeping, NEW p \in 1..Len(polls), NEW sender \in Verifiers,
           NEW ballot \in Seq(Vote), vote(p, sender, ballot)
    PROVE  Bookkeeping'
<1>. USE DEF Bookkeeping
<1>1. UNCHANGED <<height, config, poll_content, recorded>>
  BY DEF vote
<1>2. TypeOK'
  BY <1>1, VoteEffect DEF TypeOK
<1>3. ASSUME NEW q \in 1..Len(polls)
      PROVE  PollWellFormed(q)'
  <2>0. PollWellFormed(q)
    BY DEF PollsWellFormed
  <2>1. CASE q # p
    <3>1. polls'[q] = polls[q] /\ votes'[q] = votes[q] /\ announced'[q] = announced[q]
      BY <2>1, VoteEffect
    <3>. QED
      BY <1>1, <2>0, <3>1 DEF PollWellFormed
  <2>2. CASE q = p
    <3>. DEFINE poll == cast_vote(polls[p], sender, ballot)
    <3>1. /\ polls[p] \in Poll /\ votes[p] \in [Verifiers -> Seq(Vote)]
          /\ polls[p].poll_size \in Nat
      BY PollType
    <3>2. /\ sender \in polls[p].participants /\ height < polls[p].expires_at
          /\ Len(ballot) = polls[p].poll_size
      BY DEF vote, CanVote
    <3>3. polls[p].poll_size >= 1 /\ ballot # <<>>
      BY <2>0, <2>2, <3>1, <3>2 DEF PollWellFormed
    <3>4. /\ poll.poll_size = polls[p].poll_size /\ poll.quorum = polls[p].quorum
          /\ poll.participants = polls[p].participants /\ poll.finished = polls[p].finished
          /\ poll.expires_at = polls[p].expires_at /\ poll.voted = polls[p].voted \cup {sender}
          /\ Len(poll.tallies) = polls[p].poll_size
      BY <3>1 DEF cast_vote, Poll
    <3>5. polls'[p] = poll
      BY VoteEffect, Zenon
    <3>9. \A v \in Verifiers : votes'[p][v] = IF v = sender THEN ballot ELSE votes[p][v]
      BY VoteHistory
    <3>6. Len(announced'[p]) = polls[p].poll_size
      <4>. DEFINE entry(i) == announced[p][i] \o
                   quorum_events(results(polls[p]), results(cast_vote(polls[p], sender, ballot)))[i]
      <4>1. announced'[p] = [i \in 1..polls[p].poll_size |-> entry(i)]
        BY VoteEffect, Zenon
      <4>. HIDE DEF entry
      <4>. QED
        BY <3>1, <4>1
    <3>7. {v \in Verifiers : votes'[p][v] # <<>>} = {v \in Verifiers : votes[p][v] # <<>>} \cup {sender}
      BY <3>3, <3>9
    <3>8. \A v \in poll.voted : Len(votes'[p][v]) = polls[p].poll_size
      <4>1. \A v \in polls[p].voted : v \in Verifiers /\ Len(votes[p][v]) = polls[p].poll_size
        BY <2>0, <2>2 DEF PollWellFormed
      <4>. QED
        BY <4>1, <3>2, <3>4, <3>9, SMTT(30)
    <3>. HIDE DEF poll
    <3>. QED
      BY <1>1, <2>0, <2>2, <3>2, <3>3, <3>4, <3>5, <3>6, <3>7, <3>8 DEF PollWellFormed
  <2>. QED
    BY <2>1, <2>2
<1>4. Len(polls') = Len(polls) /\ Len(votes') = Len(polls) /\ Len(announced') = Len(polls)
  BY VoteEffect
<1>5. Len(recorded') = Len(polls)
  BY <1>1 DEF PollsWellFormed
<1>6. IsMajorityThreshold(config'.voting_threshold)
  BY <1>1 DEF PollsWellFormed
<1>. QED
  BY <1>2, <1>3, <1>4, <1>5, <1>6 DEF PollsWellFormed

\* What end_poll does to the stores, poll by poll.
LEMMA EndPollEffect ==
    ASSUME Bookkeeping, NEW p \in 1..Len(polls), end_poll(p)
    PROVE  /\ polls' \in Seq(Poll) /\ recorded' \in Seq([Verifiers -> Nat])
           /\ Len(polls') = Len(polls) /\ Len(recorded') = Len(polls)
           /\ \A q \in 1..Len(polls) \ {p} : polls'[q] = polls[q] /\ recorded'[q] = recorded[q]
           /\ polls'[p] = finish(polls[p])
           /\ recorded'[p] = [v \in Verifiers |->
                 IF v \in consensus_participants(finish(polls[p]), votes[p])
                 THEN recorded[p][v] + 1 ELSE recorded[p][v]]
<1>. USE DEF Bookkeeping
<1>. DEFINE log == [v \in Verifiers |->
                 IF v \in consensus_participants(finish(polls[p]), votes[p])
                 THEN recorded[p][v] + 1 ELSE recorded[p][v]]
<1>1. polls \in Seq(Poll) /\ recorded \in Seq([Verifiers -> Nat]) /\ Len(recorded) = Len(polls)
  BY DEF TypeOK, PollsWellFormed
<1>2. finish(polls[p]) \in Poll
  BY PollType DEF finish, Poll
<1>3. log \in [Verifiers -> Nat]
  BY PollType
<1>4. polls' = [polls EXCEPT ![p] = finish(polls[p])] /\ recorded' = [recorded EXCEPT ![p] = log]
  BY DEF end_poll
<1>. HIDE DEF log
<1>5. /\ polls' \in Seq(Poll) /\ Len(polls') = Len(polls) /\ polls'[p] = finish(polls[p])
      /\ \A q \in 1..Len(polls) \ {p} : polls'[q] = polls[q]
  BY <1>1, <1>2, <1>4, ExceptSeq
<1>6. /\ recorded' \in Seq([Verifiers -> Nat]) /\ Len(recorded') = Len(polls) /\ recorded'[p] = log
      /\ \A q \in 1..Len(polls) \ {p} : recorded'[q] = recorded[q]
  BY <1>1, <1>3, <1>4, ExceptSeq
<1>. QED
  BY <1>5, <1>6 DEF log

\* Ending a poll keeps the bookkeeping.
LEMMA BookkeepingEnd ==
    ASSUME Bookkeeping, NEW p \in 1..Len(polls), end_poll(p)
    PROVE  Bookkeeping'
<1>. USE DEF Bookkeeping
<1>1. UNCHANGED <<height, config, votes, poll_content, announced>>
  BY DEF end_poll
<1>2. TypeOK'
  BY <1>1, EndPollEffect DEF TypeOK
<1>3. ASSUME NEW q \in 1..Len(polls)
      PROVE  PollWellFormed(q)'
  <2>0. PollWellFormed(q)
    BY DEF PollsWellFormed
  <2>1. CASE q # p
    BY <1>1, <2>0, <2>1, EndPollEffect DEF PollWellFormed
  <2>2. CASE q = p
    <3>1. polls'[p] = [polls[p] EXCEPT !.finished = TRUE] /\ height >= polls[p].expires_at
      BY EndPollEffect DEF finish, end_poll, CanFinish
    <3>2. polls[p] \in Poll
      BY PollType
    <3>. QED
      BY <1>1, <2>0, <2>2, <3>1, <3>2 DEF PollWellFormed, Poll
  <2>. QED
    BY <2>1, <2>2
<1>. QED
  BY <1>1, <1>2, <1>3, EndPollEffect DEF PollsWellFormed

\* verify_messages keeps the bookkeeping.
LEMMA BookkeepingVerifyMessages ==
    ASSUME Bookkeeping, VerifyMessages
    PROVE  Bookkeeping'
<1>1. PICK batch \in SeqOf(Messages \cup ForeignMessages), active \in ActiveSets :
          verify_messages(batch, active)
  BY DEF VerifyMessages
<1>. DEFINE size == Cardinality(msgs_to_verify(batch))
<1>2. size \in Nat /\ size >= 1
  BY <1>1, BatchPositions DEF verify_messages
<1>3. \A c \in Contents : (\E i \in msgs_to_verify(batch) : batch[i] = c)
                              => index_in_batch(batch, c) \in Nat
  BY <1>2, BatchIndex
<1>4. Len(polls) + 1 \in Nat /\ poll_content \in [Contents -> [poll_id : Nat, index_in_poll : Nat]]
  BY DEF Bookkeeping, TypeOK
<1>5. poll_content' \in [Contents -> [poll_id : Nat, index_in_poll : Nat]]
  BY <1>1, <1>3, <1>4 DEF verify_messages
<1>6. create_poll("Messages", active, size) /\ UNCHANGED <<height, config>>
  BY <1>1 DEF verify_messages
<1>. HIDE DEF size
<1>. QED
  BY <1>2, <1>5, <1>6, BookkeepingCreate

\* verify_verifier_set keeps the bookkeeping.
LEMMA BookkeepingVerifyVerifierSet ==
    ASSUME Bookkeeping, VerifyVerifierSet
    PROVE  Bookkeeping'
<1>1. PICK s \in VerifierSets, active \in ActiveSets : verify_verifier_set(s, active)
  BY DEF VerifyVerifierSet
<1>2. Len(polls) + 1 \in Nat /\ poll_content \in [Contents -> [poll_id : Nat, index_in_poll : Nat]]
  BY DEF Bookkeeping, TypeOK
<1>3. poll_content' \in [Contents -> [poll_id : Nat, index_in_poll : Nat]]
  BY <1>1, <1>2 DEF verify_verifier_set
<1>4. create_poll("ConfirmVerifierSet", active, 1) /\ UNCHANGED <<height, config>>
  BY <1>1 DEF verify_verifier_set
<1>. QED
  BY <1>3, <1>4, BookkeepingCreate

\* Parameter updates, new blocks and stuttering keep the bookkeeping.
LEMMA BookkeepingOther ==
    ASSUME Bookkeeping, UpdateVotingParameters \/ NextBlock \/ UNCHANGED vars
    PROVE  Bookkeeping'
<1>. USE DEF Bookkeeping
<1>1. CASE UpdateVotingParameters
  BY <1>1 DEF UpdateVotingParameters, update_voting_parameters, TypeOK, PollsWellFormed, PollWellFormed
<1>2. CASE NextBlock
  <2>1. /\ UNCHANGED <<config, polls, votes, poll_content, announced, recorded>>
        /\ height' \in 0..U64Max /\ height' >= height /\ height' \in Nat /\ height \in Nat
    BY <1>2, ParametersAssumption DEF NextBlock, TypeOK
  <2>2. TypeOK'
    BY <2>1 DEF TypeOK
  <2>3. ASSUME NEW p \in 1..Len(polls) PROVE PollWellFormed(p)'
    <3>1. PollWellFormed(p) /\ polls[p] \in Poll
      BY PollType DEF PollsWellFormed
    <3>. QED
      BY <2>1, <3>1 DEF PollWellFormed, Poll
  <2>. QED
    BY <2>1, <2>2, <2>3 DEF PollsWellFormed
<1>3. CASE UNCHANGED vars
  BY <1>3 DEF vars, TypeOK, PollsWellFormed, PollWellFormed
<1>. QED
  BY <1>1, <1>2, <1>3

\* The bookkeeping holds after instantiate.
LEMMA BookkeepingInit == Init => Bookkeeping
BY ParametersAssumption DEF Init, Bookkeeping, TypeOK, PollsWellFormed, NoContent

\* Every message of execute keeps the bookkeeping.
LEMMA BookkeepingStep == Bookkeeping /\ [Next]_vars => Bookkeeping'
<1>. SUFFICES ASSUME Bookkeeping, [Next]_vars PROVE Bookkeeping'
  OBVIOUS
<1>1. CASE CastVote
  BY <1>1, SeqOfIsSeq, BookkeepingVote DEF CastVote
<1>2. CASE EndPoll
  BY <1>2, BookkeepingEnd DEF EndPoll
<1>. QED
  BY <1>1, <1>2, BookkeepingVerifyMessages, BookkeepingVerifyVerifierSet, BookkeepingOther DEF Next

\* The stores of the voting verifier keep their types, whatever the
\* verifiers, weights, thresholds, batches and bounds.
THEOREM TypeCorrect == Spec => []TypeOK
<1>1. Bookkeeping => TypeOK
  BY DEF Bookkeeping
<1>. QED
  BY <1>1, BookkeepingInit, BookkeepingStep, PTL DEF Spec

\* The bookkeeping of the polls is right whatever governance, verifiers and
\* relayers do: a majority quorum, ballots of the right size, voted flags
\* that agree with VOTES, and no poll ended while it could still get a vote.
THEOREM BookkeepingCorrect == Spec => []PollsWellFormed
<1>1. Bookkeeping => PollsWellFormed
  BY DEF Bookkeeping
<1>. QED
  BY <1>1, BookkeepingInit, BookkeepingStep, PTL DEF Spec

-----------------------------------------------------------------------------
\* The tallies.  A step changes at most one poll, and only a vote its tallies.

PollCounted(p) ==
    \A i \in 1..polls[p].poll_size : \A v \in Vote :
        polls[p].tallies[i][v] = SetWeight[VotersOf(p, i, v)]

\* A poll whose ballots and tallies did not change is still counted right.
LEMMA CountedKept ==
    ASSUME NEW p, PollCounted(p), votes'[p] = votes[p],
           polls'[p].tallies = polls[p].tallies, polls'[p].poll_size = polls[p].poll_size
    PROVE  PollCounted(p)'
BY DEF PollCounted, VotersOf

\* Tallies::tally adds the weight to one vote and leaves the others alone.
LEMMA TallyAdds ==
    ASSUME NEW t \in Tallies, NEW b \in Vote, NEW v \in Vote, NEW w \in Nat
    PROVE  tally(t, b, w)[v] = t[v] + (IF v = b THEN w ELSE 0)
BY DEF tally, Tallies

\* The weight of a set of voters with one more voter.
LEMMA AddVoter ==
    ASSUME NEW S \in SUBSET Verifiers, NEW a \in Verifiers, a \notin S
    PROVE  SetWeight[S \cup {a}] = SetWeight[S] + Weight[a] /\ SetWeight[S] \in Nat
<1>1. {a} \in SUBSET Verifiers /\ S \cap {a} = {}
  OBVIOUS
<1>. QED
  BY <1>1, WeightAssumption, ZenonT(40)

\* A new poll has an empty tally for each of its items.
LEMMA NewPollTallies ==
    ASSUME NEW kind, NEW active, NEW quorum, NEW expires_at, NEW size
    PROVE  LET poll == WeightedPoll_new(kind, active, quorum, expires_at, size)
           IN  /\ poll.tallies = [i \in 1..size |-> [v \in Vote |-> 0]]
               /\ poll.poll_size = size
BY DEF WeightedPoll_new

\* Opening a poll keeps the tallies equal to the votes.
LEMMA CountedCreate ==
    ASSUME Bookkeeping, TalliesCountVotes, NEW active \in ActiveSets, NEW size \in Nat, size >= 1,
           NEW kind \in {"Messages", "ConfirmVerifierSet"}, create_poll(kind, active, size)
    PROVE  TalliesCountVotes'
<1>. USE DEF Bookkeeping
<1>. DEFINE id == Len(polls) + 1
<1>1. Len(polls) \in Nat
  BY DEF TypeOK
<1>2. Len(polls') = id
  BY CreatePollEffect
<1>3. ASSUME NEW p \in 1..Len(polls) PROVE PollCounted(p)'
  <2>1. polls'[p] = polls[p] /\ votes'[p] = votes[p]
    BY CreatePollEffect
  <2>2. PollCounted(p)
    BY DEF TalliesCountVotes, PollCounted
  <2>. QED
    BY <2>1, <2>2, CountedKept
<1>4. ASSUME NEW p, p = id PROVE PollCounted(p)'
  <2>1. /\ polls'[p] = WeightedPoll_new(kind, active,
                           Snapshot_quorum(active, config.voting_threshold),
                           calculate_expiration, size)
        /\ votes'[p] = [v \in Verifiers |-> <<>>]
    BY <1>4, CreatePollEffect
  <2>2. /\ polls'[p].tallies = [i \in 1..size |-> [v \in Vote |-> 0]]
        /\ polls'[p].poll_size = size
    BY <2>1, NewPollTallies
  <2>3. \A i, v : VotersOf(p, i, v)' = {}
    BY <2>1 DEF VotersOf
  <2>4. \A i \in 1..size, v \in Vote : polls'[p].tallies[i][v] = 0
    BY <2>2
  <2>5. SetWeight[{}] = 0
    BY WeightAssumption
  <2>. QED
    BY <2>2, <2>3, <2>4, <2>5 DEF PollCounted
<1>5. \A p \in 1..Len(polls') : PollCounted(p)'
  BY <1>1, <1>2, <1>3, <1>4
<1>. QED
  BY <1>5 DEF TalliesCountVotes, PollCounted

\* A vote keeps the tallies equal to the votes: the voter was not counted
\* before, and is counted once.
LEMMA CountedVote ==
    ASSUME Bookkeeping, TalliesCountVotes, NEW p \in 1..Len(polls), NEW sender \in Verifiers,
           NEW ballot \in Seq(Vote), vote(p, sender, ballot)
    PROVE  TalliesCountVotes'
<1>. USE DEF Bookkeeping
<1>1. Len(polls') = Len(polls)
  BY VoteEffect
<1>2. ASSUME NEW q \in 1..Len(polls), q # p PROVE PollCounted(q)'
  <2>1. polls'[q] = polls[q] /\ votes'[q] = votes[q]
    BY <1>2, VoteEffect
  <2>2. PollCounted(q)
    BY DEF TalliesCountVotes, PollCounted
  <2>. QED
    BY <2>1, <2>2, CountedKept
<1>3. PollCounted(p)'
  <2>. SUFFICES ASSUME NEW i \in 1..polls'[p].poll_size, NEW v \in Vote
                PROVE  polls'[p].tallies[i][v] = SetWeight[VotersOf(p, i, v)']
    BY DEF PollCounted
  <2>1. polls[p] \in Poll /\ polls[p].poll_size \in Nat /\ Len(polls[p].tallies) = polls[p].poll_size
    BY PollType
  <2>2. polls'[p] = cast_vote(polls[p], sender, ballot)
    BY VoteEffect, Zenon
  <2>3. /\ polls'[p].poll_size = polls[p].poll_size
        /\ polls'[p].tallies = [j \in 1..polls[p].poll_size |->
                                   tally(polls[p].tallies[j], ballot[j], Weight[sender])]
    BY <2>1, <2>2 DEF cast_vote, Poll
  <2>4. i \in 1..Len(polls[p].tallies) /\ i \in 1..polls[p].poll_size
    BY <2>1, <2>3
  <2>5. polls[p].tallies[i] \in Tallies
    BY <2>1, <2>4, ElementOfSeq DEF Poll
  <2>6. Len(ballot) = polls[p].poll_size /\ sender \notin polls[p].voted
    BY DEF vote, CanVote
  <2>7. ballot[i] \in Vote
    BY <2>4, <2>6
  <2>8. polls'[p].tallies[i][v] =
            polls[p].tallies[i][v] + (IF v = ballot[i] THEN Weight[sender] ELSE 0)
    <3>1. polls'[p].tallies[i] = tally(polls[p].tallies[i], ballot[i], Weight[sender])
      BY <2>3, <2>4
    <3>. QED
      BY <2>5, <2>7, <3>1, TallyAdds, WeightAssumption, SMTT(30)
  <2>9. votes[p][sender] = <<>>
    BY <2>6 DEF PollsWellFormed, PollWellFormed
  <2>10. \A a \in Verifiers : votes'[p][a] = IF a = sender THEN ballot ELSE votes[p][a]
    BY VoteHistory
  <2>11. ballot # <<>>
    BY <2>4, <2>6
  <2>12. VotersOf(p, i, v)' =
            IF v = ballot[i] THEN VotersOf(p, i, v) \cup {sender} ELSE VotersOf(p, i, v)
    BY <2>9, <2>10, <2>11 DEF VotersOf
  <2>13. VotersOf(p, i, v) \cap {sender} = {} /\ VotersOf(p, i, v) \in SUBSET Verifiers
    BY <2>9 DEF VotersOf
  <2>14. SetWeight[VotersOf(p, i, v) \cup {sender}] = SetWeight[VotersOf(p, i, v)] + Weight[sender]
    BY <2>13, AddVoter
  <2>15. polls[p].tallies[i][v] = SetWeight[VotersOf(p, i, v)] /\ SetWeight[VotersOf(p, i, v)] \in Nat
    BY <2>4, <2>13, WeightAssumption, SMTT(30) DEF TalliesCountVotes
  <2>. QED
    BY <2>8, <2>12, <2>14, <2>15
<1>. QED
  BY <1>1, <1>2, <1>3 DEF TalliesCountVotes, PollCounted

\* Ending a poll touches no tally.
LEMMA CountedEnd ==
    ASSUME Bookkeeping, TalliesCountVotes, NEW p \in 1..Len(polls), end_poll(p)
    PROVE  TalliesCountVotes'
<1>. USE DEF Bookkeeping
<1>1. Len(polls') = Len(polls) /\ votes' = votes
  BY EndPollEffect DEF end_poll
<1>2. ASSUME NEW q \in 1..Len(polls)
      PROVE  polls'[q].tallies = polls[q].tallies /\ polls'[q].poll_size = polls[q].poll_size
  <2>1. CASE q # p
    BY <2>1, EndPollEffect
  <2>2. CASE q = p
    BY <2>2, EndPollEffect, PollType DEF finish, Poll
  <2>. QED
    BY <2>1, <2>2, SMTT(30)
<1>3. \A q \in 1..Len(polls) : PollCounted(q)
  BY DEF TalliesCountVotes, PollCounted
<1>4. \A q \in 1..Len(polls) : PollCounted(q)'
  BY <1>1, <1>2, <1>3, CountedKept
<1>. QED
  BY <1>1, <1>4 DEF TalliesCountVotes, PollCounted

\* Every message of execute keeps the tallies equal to the votes.
LEMMA CountedStep == Bookkeeping /\ TalliesCountVotes /\ [Next]_vars => TalliesCountVotes'
<1>. SUFFICES ASSUME Bookkeeping, TalliesCountVotes, [Next]_vars PROVE TalliesCountVotes'
  OBVIOUS
<1>1. CASE VerifyMessages
  <2>1. PICK batch \in SeqOf(Messages \cup ForeignMessages), active \in ActiveSets :
            verify_messages(batch, active)
    BY <1>1 DEF VerifyMessages
  <2>. DEFINE size == Cardinality(msgs_to_verify(batch))
  <2>2. size \in Nat /\ size >= 1 /\ create_poll("Messages", active, size)
    BY <2>1, BatchPositions DEF verify_messages
  <2>. HIDE DEF size
  <2>. QED
    BY <2>2, CountedCreate
<1>2. CASE VerifyVerifierSet
  <2>1. PICK active \in ActiveSets : create_poll("ConfirmVerifierSet", active, 1)
    BY <1>2 DEF VerifyVerifierSet, verify_verifier_set
  <2>. QED
    BY <2>1, CountedCreate
<1>3. CASE CastVote
  BY <1>3, SeqOfIsSeq, CountedVote DEF CastVote
<1>4. CASE EndPoll
  BY <1>4, CountedEnd DEF EndPoll
<1>5. CASE UpdateVotingParameters \/ NextBlock \/ UNCHANGED vars
  <2>1. polls' = polls /\ votes' = votes
    BY <1>5 DEF UpdateVotingParameters, update_voting_parameters, NextBlock, vars
  <2>. QED
    <3>1. \A p \in 1..Len(polls) : PollCounted(p)
      BY DEF TalliesCountVotes, PollCounted
    <3>2. \A p \in 1..Len(polls) : PollCounted(p)'
      BY <2>1, <3>1, CountedKept
    <3>. QED
      BY <2>1, <3>2 DEF TalliesCountVotes, PollCounted
<1>. QED
  BY <1>1, <1>2, <1>3, <1>4, <1>5 DEF Next

\* There is nothing to count after instantiate.
LEMMA CountedInit == Init => TalliesCountVotes
BY DEF Init, TalliesCountVotes

\* Two votes that both reached a majority quorum would need more weight
\* than the snapshot has.
LEMMA CountedUnique == Bookkeeping /\ TalliesCountVotes => ConsensusUnique
<1>. SUFFICES ASSUME Bookkeeping, TalliesCountVotes,
                     NEW p \in 1..Len(polls), NEW i \in 1..polls[p].poll_size,
                     NEW v \in Vote, NEW w \in Vote, v # w,
                     polls[p].tallies[i][v] >= polls[p].quorum,
                     polls[p].tallies[i][w] >= polls[p].quorum
              PROVE  FALSE
  BY DEF ConsensusUnique
<1>. DEFINE V == VotersOf(p, i, v)
            W == VotersOf(p, i, w)
            P == polls[p].participants
<1>1. polls[p] \in Poll
  BY PollType DEF Bookkeeping
<1>2. P \in SUBSET Verifiers /\ polls[p].quorum \in Nat
  BY <1>1 DEF Poll
<1>3. /\ polls[p].voted \subseteq P /\ polls[p].voted = {a \in Verifiers : votes[p][a] # <<>>}
      /\ 2 * polls[p].quorum > SetWeight[P]
  BY DEF Bookkeeping, PollsWellFormed, PollWellFormed
<1>4. V \subseteq P /\ W \subseteq P /\ V \cap W = {}
  BY <1>3 DEF VotersOf
<1>5. SetWeight[V] >= polls[p].quorum /\ SetWeight[W] >= polls[p].quorum
  BY DEF TalliesCountVotes
<1>. HIDE DEF V, W, P
<1>6. SetWeight[V \cup W] = SetWeight[V] + SetWeight[W]
  BY <1>2, <1>4, WeightAssumption
<1>7. SetWeight[P] = SetWeight[V \cup W] + SetWeight[P \ (V \cup W)]
  <2>1. P = (V \cup W) \cup (P \ (V \cup W)) /\ (V \cup W) \cap (P \ (V \cup W)) = {}
    BY <1>4
  <2>. QED
    BY <1>2, <1>4, <2>1, WeightAssumption
<1>8. SetWeight[V] \in Nat /\ SetWeight[W] \in Nat /\ SetWeight[P \ (V \cup W)] \in Nat
  BY <1>2, <1>4, WeightAssumption
<1>. QED
  BY <1>2, <1>3, <1>5, <1>6, <1>7, <1>8

\* The running tallies of every poll are the weight of the ballots kept in
\* VOTES, for every number of verifiers and every weighting.
THEOREM TalliesCorrect == Spec => []TalliesCountVotes
BY BookkeepingInit, BookkeepingStep, CountedInit, CountedStep, PTL DEF Spec

\* At most one vote of an item reaches the quorum, for every majority
\* threshold, also after governance changed it while the poll was open: the
\* order in which Tallies::consensus looks at the votes is immaterial.
THEOREM OneConsensus == Spec => []ConsensusUnique
BY BookkeepingInit, BookkeepingStep, CountedInit, CountedStep, CountedUnique, PTL DEF Spec
=============================================================================
