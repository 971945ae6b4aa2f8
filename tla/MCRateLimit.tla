---------------------------- MODULE MCRateLimit ----------------------------
(* Instances of RateLimit for TLC: two tokens of a user, two peers of a     *)
(* deployment; a tick is half a minute.                                     *)
EXTENDS RateLimit, TLC

CONSTANTS t1, t2, user, p1, p2, all

GatewayPaths == {<<t1, user>>, <<t2, user>>}
PublicPaths == {<<p1, all>>, <<p2, all>>}
AllPaths == GatewayPaths \cup PublicPaths
Limits == t1 :> 2 @@ t2 :> 2 @@ user :> 3 @@ p1 :> 1 @@ p2 :> 1 @@ all :> 2
Lengths == t1 :> 2 @@ t2 :> 2 @@ user :> 4 @@ p1 :> 2 @@ p2 :> 2 @@ all :> 2

(* The behaviours searched have requests of one kind: they share no row.   *)
Uses(bs) ==
    /\ \A c \in Callers : \A i \in DOMAIN caller[c].path : caller[c].path[i] \in bs
    /\ \A b \in Budgets \ bs : row[b] = NoRow
Searched == \/ Uses({t1, t2, user})
            \/ Uses({p1, p2, all}) /\ requests <= 4

Alike == Permutations(Callers)
=============================================================================
