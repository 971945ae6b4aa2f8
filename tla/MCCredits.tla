----------------------------- MODULE MCCredits -----------------------------
(* Instances of Credits for TLC: the scenarios.                            *)
EXTENDS Credits, TLC

CONSTANTS root, ann, ben, c1, c2, a1, a2

UpAndDown == {1, -2}

(* One admin adjusts, with keys used again, while a call debits.           *)
Adjusting == [users |-> {root, ann}, admins |-> {root}, codes |-> {}, keys |-> {a1, a2},
              opening |-> 1, requests |-> 4, spends |-> 1, changes |-> 0]
(* Three users redeem codes.                                               *)
Redeeming == [users |-> {root, ann, ben}, admins |-> {root}, codes |-> {c1, c2}, keys |-> {},
              opening |-> 0, requests |-> 5, spends |-> 1, changes |-> 0]
(* Two admins disable each other meanwhile.                                *)
Disabling == [users |-> {root, ann}, admins |-> {root, ann}, codes |-> {c1}, keys |-> {a1},
              opening |-> 0, requests |-> 3, spends |-> 0, changes |-> 2]
AllScenarios == {Adjusting, Redeeming, Disabling}

Alike == Permutations(Handlers)
=============================================================================
