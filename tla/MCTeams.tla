------------------------------ MODULE MCTeams ------------------------------
(* Instances of Teams for TLC: the scenarios, and the ids of wallets.      *)
EXTENDS Teams, TLC

CONSTANTS ann, ben, cyd, red, blue

Alone == [t \in Teams |-> {}]
IdsOf == (ann :> 1) @@ (ben :> 4) @@ (cyd :> 5) @@ (red :> 2) @@ (blue :> 3)

(* Three users and the members, seats, invites and tokens of one team.     *)
Joining == [users |-> Users, teams |-> {red},
            founder |-> red :> ann, members |-> [Alone EXCEPT ![red] = {ben}], opening |-> 0,
            operations |-> {"update", "remove", "invite", "accept", "token"},
            requests |-> 4, changes |-> 0]
(* Accounts change while requests found a team, join it and fund it.       *)
Founding == [users |-> {ann, ben}, teams |-> {red},
             founder |-> [t \in {} |-> ann], members |-> Alone, opening |-> 1,
             operations |-> {"create", "invite", "accept", "token", "fund"},
             requests |-> 4, changes |-> 1]
(* One owner funds two teams from one wallet.                              *)
Funding == [users |-> {ann}, teams |-> {red, blue},
            founder |-> (red :> ann) @@ (blue :> ann), members |-> Alone, opening |-> 3,
            operations |-> {"fund"}, requests |-> 4, changes |-> 0]
AllScenarios == {Joining, Founding, Funding}

Alike == Permutations(Handlers) \cup Permutations(Keys)
=============================================================================
