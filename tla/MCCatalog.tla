----------------------------- MODULE MCCatalog -----------------------------
(* Instances of Catalog for TLC: pages, routing and symmetry.              *)
EXTENDS Catalog, TLC

CONSTANTS near, far, q1, q2, q3, echo, search

TwoPages == <<{echo}, {search}>>
Routed == [q \in Requests |-> IF q = q3 THEN far ELSE near]

(* The behaviours searched: two requests of the administrator's replica    *)
(* with a commit that writes either tool or an override and an expiry, or  *)
(* an answered request of each replica with a commit that writes the       *)
(* remote tool.                                                            *)
Begun == {q \in Requests : request[q].pc # "new"}
Edits == override[search]
Changes == revision - 1 + Edits
Searched ==
    \/ Begun \subseteq {q1, q2} /\ Changes <= 1 /\ redis = {}
    \/ /\ Begun \subseteq {q1, q3} /\ \A q \in Requests : request[q].pc # "failed"
       /\ Edits = 0 /\ row[echo] = 1 /\ expiries = 0
=============================================================================
