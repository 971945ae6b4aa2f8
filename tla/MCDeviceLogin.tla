--------------------------- MODULE MCDeviceLogin ---------------------------
(* Instances of DeviceLogin for TLC: the scenarios; requests, codes and    *)
(* tokens are alike.                                                       *)
EXTENDS DeviceLogin, TLC

CONSTANTS ann, ben, c1, c2

(* Polls of one login are repeated, delayed and lost.                      *)
Polling == [users |-> {ann}, clients |-> {c1}, prompt |-> FALSE, time |-> 4,
            approvals |-> 2, replays |-> 2, faults |-> 2, changes |-> 0]
(* Two users approve one code while an admin disables and enables them.    *)
Approving == [users |-> {ann, ben}, clients |-> {c1}, prompt |-> FALSE, time |-> 4,
              approvals |-> 2, replays |-> 1, faults |-> 0, changes |-> 2]
(* Two logins where every request is answered before the next tick.        *)
Prompt == [users |-> {ann, ben}, clients |-> {c1, c2}, prompt |-> TRUE, time |-> 5,
           approvals |-> 2, replays |-> 0, faults |-> 0, changes |-> 0]
AllScenarios == {Polling, Approving, Prompt}

Alike == Permutations(Handlers) \cup Permutations(Codes) \cup Permutations(Tokens)
=============================================================================
