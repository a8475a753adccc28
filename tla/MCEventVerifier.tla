--------------------------- MODULE MCEventVerifier ---------------------------
(* Instances of EventVerifier for TLC. *)
EXTENDS EventVerifier, FiniteSetsExt

CONSTANTS v1, v2, e1, e2, e3, c1, c2

\* v2 weighs as much as two others: it decides alone.
MCWeight == [v \in Verifiers |-> IF v = v2 THEN 2 ELSE 1]
MCSetWeight == [S \in SUBSET Verifiers |-> MapThenSumSet(LAMBDA v : MCWeight[v], S)]

\* Two events of one chain and one of another, whose verifiers differ.
MCSourceChain == [e \in Events |-> IF e = e3 THEN c2 ELSE c1]
MCActiveSets == [c \in {MCSourceChain[e] : e \in Events} |->
                    IF c = c1 THEN {Verifiers} ELSE {{v2}, {}}]

\* 3/5, and a half, which is not a majority and is refused.
Majority == {<<3, 5>>, <<1, 2>>}
=============================================================================
