--------------------------- MODULE MessageDelivery ---------------------------
(***************************************************************************)
(* What the routing contracts promise together, without verification,      *)
(* gateways' permissions, freezing or batches: only messages that their    *)
(* source sent are delivered, what was delivered under an id to a place    *)
(* stays, and a message for Axelar is handed to its contract once, after   *)
(* it was delivered.                                                       *)
(***************************************************************************)
EXTENDS Sequences, Naturals

CONSTANT AxelarPlace

VARIABLES
    sent,           \* messages sent so far
    delivered,      \* pairs of a place and a message
    handed          \* messages handed to contracts on Axelar, in order

delivery_vars == <<sent, delivered, handed>>

OnePerId(msgs) == \A m, n \in msgs : m.cc_id = n.cc_id => m = n

Init ==
    /\ OnePerId(sent)
    /\ delivered = {}
    /\ handed = << >>

\* A transaction may send a message and deliver it, and others, at once.
Deliver ==
    /\ sent \subseteq sent' /\ OnePerId(sent')
    /\ delivered \subseteq delivered'
    /\ \A d \in delivered' : d[2] \in sent'
    /\ UNCHANGED handed

Hand ==
    /\ Len(handed') = Len(handed) + 1
    /\ SubSeq(handed', 1, Len(handed)) = handed
    /\ LET m == handed'[Len(handed')]
       IN  /\ <<AxelarPlace, m>> \in delivered
           /\ \A i \in DOMAIN handed : handed[i] # m
    /\ UNCHANGED <<sent, delivered>>

Spec == Init /\ [][Deliver \/ Hand]_delivery_vars
=============================================================================
