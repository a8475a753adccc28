-------------------------- MODULE MCVotingVerifier --------------------------
(* Instances of VotingVerifier for TLC. *)
EXTENDS VotingVerifier, FiniteSetsExt, TLC

CONSTANTS v1, v2, v3

\* v2 weighs as much as two others.
MCWeight == [v \in Verifiers |-> IF v = v2 THEN 2 ELSE 1]
MCSetWeight == [S \in SUBSET Verifiers |-> MapThenSumSet(LAMBDA v : MCWeight[v], S)]

\* The registry answers with everybody, or with all but one verifier.
AllVerifiers == {Verifiers}
AllOrOneLess == {Verifiers, Verifiers \ {v1}}

\* 3/5, and a half, which is not a majority and is refused.
Majority == {<<3, 5>>, <<1, 2>>}
\* 3/5, unanimity, and a third, refused although 1 is half of 3 rounded down.
MajorityOrAll == {<<3, 5>>, <<1, 1>>, <<1, 3>>}

\* No constant tells the messages apart.
MessageSymmetry == Permutations(Messages)
=============================================================================
