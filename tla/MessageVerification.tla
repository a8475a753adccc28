------------------------ MODULE MessageVerification ------------------------
(***************************************************************************)
(* What the voting verifier promises to the gateway and to the prover      *)
(* about the status of a message or of a verifier set, without polls,      *)
(* votes or block heights.  A content is unknown until somebody asks for   *)
(* its verification; a verification in progress ends in one of four ways;  *)
(* it may be started again only if it failed or if the content was not     *)
(* found; a confirmed status is final.                                     *)
(***************************************************************************)
EXTENDS Naturals

CONSTANT Contents

VARIABLE verification

Moves ==
    {<<"Unknown", "InProgress">>,
     <<"FailedToVerify", "InProgress">>,
     <<"NotFoundOnSourceChain", "InProgress">>,
     <<"InProgress", "FailedToVerify">>,
     <<"InProgress", "NotFoundOnSourceChain">>,
     <<"InProgress", "SucceededOnSourceChain">>,
     <<"InProgress", "FailedOnSourceChain">>}

Statuses == {m[1] : m \in Moves} \cup {m[2] : m \in Moves}

Init == verification = [c \in Contents |-> "Unknown"]

\* One call, vote or block may move several contents.
Next ==
    /\ verification' \in [Contents -> Statuses]
    /\ \A c \in Contents :
          \/ verification'[c] = verification[c]
          \/ <<verification[c], verification'[c]>> \in Moves

Spec == Init /\ [][Next]_verification

Confirmed(c) == verification[c] \in {"SucceededOnSourceChain", "FailedOnSourceChain"}

\* A confirmed content keeps its status for ever.
ConfirmedIsFinal ==
    [][\A c \in Contents : Confirmed(c) => verification'[c] = verification[c]]_verification
=============================================================================
