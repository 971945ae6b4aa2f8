----------------------------- MODULE MCAccounts -----------------------------
(* Instances of Accounts for TLC: the scenarios; requests, sessions and    *)
(* cookies are alike.                                                      *)
EXTENDS Accounts, TLC

CONSTANTS root, ann

(* Two admins in several tabs enable and disable each other.               *)
Admins == [known |-> {root, ann}, admins |-> {root, ann}, access |-> 1, refresh |-> 1,
           operations |-> {"login", "enable", "refresh"}, requests |-> 5, time |-> 1]
(* Tabs of two sessions refresh and log out while time passes.             *)
Tabs == [known |-> {root}, admins |-> {}, access |-> 2, refresh |-> 3,
         operations |-> {"login", "refresh", "logout"}, requests |-> 6, time |-> 3]
(* Replicas start at once while somebody registers.                        *)
Starting == [known |-> {}, admins |-> {}, access |-> 1, refresh |-> 1,
             operations |-> {"register", "bootstrap"}, requests |-> 5, time |-> 0]
AllScenarios == {Admins, Tabs, Starting}

Alike == Permutations(Handlers) \cup Permutations(Sessions) \cup Permutations(Cookies)
=============================================================================
