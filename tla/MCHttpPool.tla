----------------------------- MODULE MCHttpPool -----------------------------
(* Small instances of HttpPool for TLC. *)
EXTENDS HttpPool, TLC

CONSTANTS q1, q2, q3, old, new

Alike == Permutations(Requests) \cup Permutations(Configs)

(* The behaviours searched: two requests of either configuration against   *)
(* one turn, two of one configuration against a catalog and a shutdown, or *)
(* three of one configuration, whose clients stay, against a catalog.      *)
Started == {r \in Requests : pc[r] # "idle"}
Opened == {pools[r].config : r \in Requests} \ {None}
Searched ==
    \/ Cardinality(Started) <= 2 /\ turns <= 1 /\ Cardinality(gone) <= 1
    \/ Cardinality(Started) <= 2 /\ Cardinality(Opened) <= 1 /\ closed /\ gone = {}
    \/ Cardinality(Opened) <= 1 /\ turns <= 1 /\ gone = {} /\ ~closed
=============================================================================
