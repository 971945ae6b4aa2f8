------------------------------- MODULE Teams -------------------------------
(***************************************************************************)
(* Teams, their members, invites, tokens and funding: internal/app/teams.go*)
(* and createToken of account.go over PostgreSQL at READ COMMITTED.        *)
(*                                                                         *)
(* A handler is one HTTP request.  Its transaction takes the team's row    *)
(* FOR UPDATE, reads what it decides on, inserts rows whose foreign keys   *)
(* take KEY SHARE on the caller's user row, reads the caller's session     *)
(* again and commits.  Writes become visible at the commit.  The wallet    *)
(* rows a metered call locks (module Metering) appear here as debits.      *)
(***************************************************************************)
EXTENDS Integers, FiniteSets

CONSTANTS
  Users, Teams,
  Invites, Tokens, Keys,   \* rows that can be inserted; idempotency keys
  Handlers,     \* requests under way at once
  DefaultSeats, \* the seat limit of a new team, 5 in the code
  Seats,        \* seat limits an owner may ask for
  Credits,      \* amounts an owner may transfer
  WalletId,     \* wallets are locked in the order of their ids
  None,
  Scenarios     \* what there is at the start and the bounds of a behaviour

Wallets == Users \cup Teams

(* A scenario: who takes part, the founders and the other members of the   *)
(* teams that exist, the credits of each user's wallet, what requests ask  *)
(* for, how many come and how often an account changes (is disabled or     *)
(* enabled, signs out).                                                    *)
Kinds == {"create", "update", "remove", "invite", "accept", "token", "fund"}
Scenario ==
  [users : SUBSET Users, teams : SUBSET Teams,
   founder : UNION {[T -> Users] : T \in SUBSET Teams}, members : [Teams -> SUBSET Users],
   opening : Nat, operations : SUBSET Kinds, requests : Nat, changes : Nat]

ASSUME TeamsAssumption ==
  /\ IsFiniteSet(Users) /\ IsFiniteSet(Teams) /\ Users \cap Teams = {}
  /\ Scenarios \subseteq Scenario
  /\ \A c \in Scenarios, t \in Teams :
       /\ Cardinality(c.members[t]) < DefaultSeats
       /\ c.members[t] # {} => t \in DOMAIN c.founder /\ c.founder[t] \notin c.members[t]
  /\ DefaultSeats \in Nat \ {0}
  /\ Seats \subseteq Nat \ {0} /\ Credits \subseteq Nat \ {0}
  /\ WalletId \in [Wallets -> Nat]
  /\ None \notin Users \cup Teams \cup Handlers

VARIABLES
  enabled, session,              \* users.enabled; a live browser session
  role,                          \* team_members: [Teams -> [Users -> role]]
  seats,                         \* teams.seat_limit
  invite, token,                 \* team_invites, tokens of team wallets
  balance, transfers,            \* wallets, team_transfers
  handler,                       \* requests under way
  teamLock, walletLock,          \* rows locked FOR UPDATE, by handler
  userLock,                      \* users whose row setUserEnabled holds
  spent,                         \* history: what metered calls debited
  requests, changes,             \* counters for the bounds
  scenario                       \* where the behaviour started

vars == <<enabled, session, role, seats, invite, token, balance, transfers, handler,
          teamLock, walletLock, userLock, spent, requests, changes, scenario>>
rows == <<role, seats, invite, token, balance, transfers>>
account == <<enabled, session, userLock, changes, scenario>>

Free == [pc |-> "idle", op |-> None, user |-> None, team |-> None, target |-> None,
         item |-> None, credits |-> 0, after |-> [user |-> 0, team |-> 0]]
NoInvite == [team |-> None, accepted |-> None, expired |-> FALSE]
NoToken == [team |-> None, user |-> None, revoked |-> FALSE]

Init ==
  /\ scenario \in Scenarios
  /\ enabled = [u \in Users |-> TRUE] /\ session = [u \in Users |-> TRUE]
  /\ role = [t \in Teams |-> [u \in Users |->
       IF t \in DOMAIN scenario.founder /\ scenario.founder[t] = u THEN "owner"
       ELSE IF u \in scenario.members[t] THEN "member" ELSE "none"]]
  /\ seats = [t \in Teams |-> DefaultSeats]
  /\ invite = [i \in Invites |-> NoInvite] /\ token = [k \in Tokens |-> NoToken]
  /\ balance = [w \in Wallets |-> IF w \in Users THEN scenario.opening ELSE 0]
  /\ transfers = {}
  /\ handler = [h \in Handlers |-> Free]
  /\ teamLock = [t \in Teams |-> None] /\ walletLock = [w \in Wallets |-> None]
  /\ userLock = {}
  /\ spent = [w \in Wallets |-> 0]
  /\ requests = 0 /\ changes = 0

MembersOf(t) == {u \in Users : role[t][u] # "none"}
Exists(t) == MembersOf(t) # {}
SignedIn(u) == session[u] /\ enabled[u]

----------------------------------------------------------------------------
(* Locks                                                                   *)

TeamUnlocked(t) == TRUE                                        \* mutant
TeamFree(t) == teamLock[t] = None
WalletUnlocked(w) == TRUE                                      \* mutant
WalletFree(w) == walletLock[w] = None

(* Inserting a row that refers to the user waits for setUserEnabled, and   *)
(* setUserEnabled waits for those that have inserted one.                  *)
Inserts(op) == op \in {"create", "invite", "accept", "token", "fund"}
UserUnlocked(u) == TRUE                                        \* mutant
UserFree(u) == u \notin userLock
Referred(u) ==
  \E h \in Handlers : /\ handler[h].user = u /\ Inserts(handler[h].op)
                      /\ handler[h].pc \in {"confirm", "commit"}

Unlocked(locks, h) == [x \in DOMAIN locks |-> IF locks[x] = h THEN None ELSE locks[x]]

(* The transaction ends: the deferred rollback, or the commit.             *)
End(h) ==
  /\ handler' = [handler EXCEPT ![h] = Free]
  /\ teamLock' = Unlocked(teamLock, h)
  /\ walletLock' = Unlocked(walletLock, h)

Rollback(h) == End(h) /\ UNCHANGED rows
Goto(h, pc) == handler' = [handler EXCEPT ![h].pc = pc]

----------------------------------------------------------------------------
(* A request arrives and passes currentUser.                               *)

Wants(h, op, u, t, target, item, credits) ==
  /\ handler[h].pc = "idle" /\ requests < scenario.requests /\ op \in scenario.operations
  /\ SignedIn(u)
  /\ handler' = [handler EXCEPT ![h] =
       [Free EXCEPT !.pc = IF op = "create" THEN "insert" ELSE "lock",
                    !.op = op, !.user = u, !.team = t, !.target = target,
                    !.item = item, !.credits = credits]]
  /\ requests' = requests + 1
  /\ UNCHANGED <<rows, account, teamLock, walletLock, spent>>

Unclaimed(t) == ~Exists(t) /\ \A g \in Handlers : handler[g].team # t
Fresh(items, i) == items[i].team = None /\ \A g \in Handlers : handler[g].item # i

Request(h) ==
  \E u \in scenario.users, t \in scenario.teams :
    \/ Unclaimed(t) /\ Wants(h, "create", u, t, None, None, 0)
    \/ /\ Exists(t)
       /\ \/ \E v \in {None} \cup (scenario.users \ {u}), n \in {None} \cup Seats :
               {v, n} # {None} /\ Wants(h, "update", u, t, v, n, 0)
          \/ \E v \in scenario.users : Wants(h, "remove", u, t, v, None, 0)
          \/ \E i \in Invites : Fresh(invite, i) /\ Wants(h, "invite", u, t, None, i, 0)
          \/ \E i \in Invites : invite[i].team = t /\ Wants(h, "accept", u, t, None, i, 0)
          \/ \E k \in Tokens : Fresh(token, k) /\ Wants(h, "token", u, t, None, k, 0)
          \/ \E k \in Keys, c \in Credits : Wants(h, "fund", u, t, None, k, c)

(* SELECT ... FROM teams ... FOR UPDATE, before anything is decided.       *)
LockTeam(h) ==
  LET t == handler[h].team IN
  /\ handler[h].pc = "lock" /\ TeamFree(t)
  /\ teamLock' = [teamLock EXCEPT ![t] = h]
  /\ Goto(h, "check")
  /\ UNCHANGED <<rows, account, walletLock, spent, requests>>

(* What the statements under the team's lock decide, per operation.        *)
Caller(r) == role[r.team][r.user]
SeatTaken(t) == Cardinality(MembersOf(t)) >= seats[t]
Prior(r) == {p \in transfers : p.team = r.team /\ p.user = r.user /\ p.key = r.item}

Open(i) == invite[i].accepted = None /\ ~invite[i].expired

Successor(t, u) == role[t][u] # "none" /\ enabled[u]

MayUpdate(r) ==
  /\ SignedIn(r.user) /\ Caller(r) = "owner"
  /\ r.item # None => Cardinality(MembersOf(r.team)) <= r.item
  /\ r.target # None => Successor(r.team, r.target)
MayRemove(r) ==
  /\ SignedIn(r.user) /\ Caller(r) # "none"
  /\ Caller(r) = "owner" \/ r.target = r.user
  /\ role[r.team][r.target] = "member"
MayInvite(r) == SignedIn(r.user) /\ Caller(r) = "owner"
MayAccept(r) == Open(r.item) /\ Caller(r) = "none" /\ ~SeatTaken(r.team)
MayHaveToken(r) == Caller(r) # "none" /\ SignedIn(r.user)
MayFund(r) == SignedIn(r.user) /\ Caller(r) = "owner" /\ Prior(r) = {}

Allowed(r) ==
  CASE r.op = "update" -> MayUpdate(r)
    [] r.op = "remove" -> MayRemove(r)
    [] r.op = "invite" -> MayInvite(r)
    [] r.op = "accept" -> MayAccept(r)
    [] r.op = "token"  -> MayHaveToken(r)
    [] r.op = "fund"   -> MayFund(r)

Check(h) ==
  LET r == handler[h] IN
  /\ r.pc = "check"
  /\ \/ /\ Allowed(r)
        /\ Goto(h, IF r.op = "fund" THEN "wallets" ELSE IF Inserts(r.op) THEN "insert"
                   ELSE "confirm")
        /\ UNCHANGED <<rows, teamLock, walletLock>>
     \/ ~Allowed(r) /\ Rollback(h)
  /\ UNCHANGED <<account, spent, requests>>

(* fundTeam locks its two wallets in the order of their ids and reads them. *)
FirstWallet(r) == IF WalletId[r.user] < WalletId[r.team] THEN r.user ELSE r.team
SecondWallet(r) == IF FirstWallet(r) = r.user THEN r.team ELSE r.user
NextWallet(h) == IF walletLock[FirstWallet(handler[h])] = h THEN SecondWallet(handler[h])
                 ELSE FirstWallet(handler[h])
LockWallet(h) ==
  LET r == handler[h]
      w == NextWallet(h) IN
  /\ r.pc = "wallets" /\ WalletFree(w)
  /\ walletLock' = [walletLock EXCEPT ![w] = h]
  /\ IF w = FirstWallet(r) THEN UNCHANGED handler
     ELSE handler' = [handler EXCEPT ![h].pc = "balance",
            ![h].after = [user |-> balance[r.user] - r.credits,
                          team |-> balance[r.team] + r.credits]]
  /\ UNCHANGED <<rows, account, teamLock, spent, requests>>

CoversAnything(r) == TRUE                                      \* mutant
Covers(r) == r.after.user >= 0

CheckBalance(h) ==
  LET r == handler[h] IN
  /\ r.pc = "balance"
  /\ \/ SignedIn(r.user) /\ Covers(r) /\ Goto(h, "insert")
        /\ UNCHANGED <<rows, teamLock, walletLock>>
     \/ ~(SignedIn(r.user) /\ Covers(r)) /\ Rollback(h)
  /\ UNCHANGED <<account, spent, requests>>

Insert(h) ==
  /\ handler[h].pc = "insert" /\ UserFree(handler[h].user)
  /\ Goto(h, "confirm")
  /\ UNCHANGED <<rows, account, teamLock, walletLock, spent, requests>>

(* The session is read again, after every wait.                            *)
Confirm(h) ==
  /\ handler[h].pc = "confirm"
  /\ \/ SignedIn(handler[h].user) /\ Goto(h, "commit")
        /\ UNCHANGED <<rows, teamLock, walletLock>>
     \/ ~SignedIn(handler[h].user) /\ Rollback(h)
  /\ UNCHANGED <<account, spent, requests>>

(* What the commit makes visible.                                          *)
Revoked(k, r) == token[k].team = r.team /\ token[k].user = r.target

Moved(b, r) == [b EXCEPT ![r.user] = @ - r.credits, ![r.team] = @ + r.credits]

Created(r) ==
  /\ role' = [role EXCEPT ![r.team][r.user] = "owner"]
  /\ UNCHANGED <<seats, invite, token, balance, transfers>>
Updated(r) ==
  /\ seats' = IF r.item = None THEN seats ELSE [seats EXCEPT ![r.team] = r.item]
  /\ role' = IF r.target = None THEN role
             ELSE [role EXCEPT ![r.team] = [u \in Users |->
               IF @[u] = "none" THEN "none"
               ELSE IF u = r.target THEN "owner" ELSE "member"]]
  /\ UNCHANGED <<invite, token, balance, transfers>>
Removed(r) ==
  /\ role' = [role EXCEPT ![r.team][r.target] = "none"]
  /\ token' = [k \in Tokens |->
       IF Revoked(k, r) THEN [token[k] EXCEPT !.revoked = TRUE] ELSE token[k]]
  /\ UNCHANGED <<seats, invite, balance, transfers>>
Invited(r) ==
  /\ invite' = [invite EXCEPT ![r.item] = [NoInvite EXCEPT !.team = r.team]]
  /\ UNCHANGED <<role, seats, token, balance, transfers>>
Accepted(r) ==
  /\ role' = [role EXCEPT ![r.team][r.user] = "member"]
  /\ invite' = [invite EXCEPT ![r.item].accepted = r.user]
  /\ UNCHANGED <<seats, token, balance, transfers>>
GivenToken(r) ==
  /\ token' = [token EXCEPT ![r.item] = [NoToken EXCEPT !.team = r.team, !.user = r.user]]
  /\ UNCHANGED <<role, seats, invite, balance, transfers>>
Funded(r) ==
  /\ balance' = Moved(balance, r)
  /\ transfers' = transfers \cup
       {[team |-> r.team, user |-> r.user, key |-> r.item, credits |-> r.credits,
         after |-> r.after]}
  /\ UNCHANGED <<role, seats, invite, token>>

Written(r) ==
  \/ r.op = "create" /\ Created(r)
  \/ r.op = "update" /\ Updated(r)
  \/ r.op = "remove" /\ Removed(r)
  \/ r.op = "invite" /\ Invited(r)
  \/ r.op = "accept" /\ Accepted(r)
  \/ r.op = "token" /\ GivenToken(r)
  \/ r.op = "fund" /\ Funded(r)

Commit(h) ==
  /\ handler[h].pc = "commit"
  /\ Written(handler[h]) /\ End(h)
  /\ UNCHANGED <<account, spent, requests>>

(* A statement fails, the client leaves or the replica stops.              *)
Abort(h) ==
  /\ handler[h].pc \notin {"idle"}
  /\ Rollback(h)
  /\ UNCHANGED <<account, spent, requests>>

----------------------------------------------------------------------------
(* What else happens to the rows.                                          *)

ExpireInvite(i) ==
  /\ invite[i].team # None /\ ~invite[i].expired
  /\ invite' = [invite EXCEPT ![i].expired = TRUE]
  /\ UNCHANGED <<role, seats, token, balance, transfers, handler, teamLock, walletLock,
                 account, spent, requests>>

RevokeToken(k) ==
  /\ token[k].team # None /\ ~token[k].revoked /\ SignedIn(token[k].user)
  /\ token' = [token EXCEPT ![k].revoked = TRUE]
  /\ UNCHANGED <<role, seats, invite, balance, transfers, handler, teamLock, walletLock,
                 account, spent, requests>>

(* A metered call reserves one credit under its own wallet lock.           *)
Debit(w) ==
  /\ "fund" \in scenario.operations
  /\ WalletFree(w) /\ balance[w] > 0 /\ requests < scenario.requests
  /\ balance' = [balance EXCEPT ![w] = @ - 1]
  /\ spent' = [spent EXCEPT ![w] = @ + 1]
  /\ requests' = requests + 1
  /\ UNCHANGED <<role, seats, invite, token, transfers, handler, teamLock, walletLock, account>>

LockUser(u) ==
  /\ changes < scenario.changes /\ ~Referred(u) /\ u \notin userLock
  /\ userLock' = userLock \cup {u} /\ changes' = changes + 1
  /\ UNCHANGED <<enabled, session, rows, handler, teamLock, walletLock, spent, requests, scenario>>

SetUserEnabled(u) ==
  /\ u \in userLock
  /\ userLock' = userLock \ {u}
  /\ \E on \in BOOLEAN : enabled' = [enabled EXCEPT ![u] = on]
  /\ UNCHANGED <<session, changes, rows, handler, teamLock, walletLock, spent, requests, scenario>>

SignOut(u) ==
  /\ session[u] /\ changes < scenario.changes
  /\ session' = [session EXCEPT ![u] = FALSE] /\ changes' = changes + 1
  /\ UNCHANGED <<enabled, userLock, rows, handler, teamLock, walletLock, spent, requests, scenario>>

----------------------------------------------------------------------------
HandlerStep(h) ==
  LockTeam(h) \/ Check(h) \/ LockWallet(h) \/ CheckBalance(h) \/ Insert(h) \/ Confirm(h)
    \/ Commit(h)

Next ==
  \/ \E h \in Handlers : Request(h) \/ HandlerStep(h) \/ Abort(h)
  \/ \E i \in Invites : ExpireInvite(i)
  \/ \E k \in Tokens : RevokeToken(k)
  \/ \E w \in scenario.users \cup scenario.teams : Debit(w)
  \/ \E u \in scenario.users : LockUser(u) \/ SetUserEnabled(u) \/ SignOut(u)

Spec == Init /\ [][Next]_vars

----------------------------------------------------------------------------
TypeOK ==
  /\ enabled \in [Users -> BOOLEAN] /\ session \in [Users -> BOOLEAN]
  /\ role \in [Teams -> [Users -> {"owner", "member", "none"}]]
  /\ seats \in [Teams -> Nat]
  /\ invite \in [Invites -> [team : Teams \cup {None}, accepted : Users \cup {None},
                             expired : BOOLEAN]]
  /\ token \in [Tokens -> [team : Teams \cup {None}, user : Users \cup {None},
                           revoked : BOOLEAN]]
  /\ balance \in [Wallets -> Nat] /\ spent \in [Wallets -> Nat]
  /\ teamLock \in [Teams -> Handlers \cup {None}]
  /\ walletLock \in [Wallets -> Handlers \cup {None}]
  /\ userLock \subseteq Users

(* Safety.  A team has exactly one owner, whoever transfers it, leaves or  *)
(* is removed at the same time (teams.go, updateTeam and removeMember).    *)
OneOwner ==
  \A t \in Teams : Exists(t) => Cardinality({u \in Users : role[t][u] = "owner"}) = 1

(* Safety.  A team never has more members than seats, though invites are   *)
(* accepted and the limit is lowered at the same time.                     *)
SeatsRespected == \A t \in Teams : Cardinality(MembersOf(t)) <= seats[t]

(* Safety.  A token that is not revoked belongs to a member: one created   *)
(* while its user is removed does not survive to work again when the user  *)
(* is invited back (removeMember, createToken).                            *)
TokensOfMembers ==
  \A k \in Tokens :
    token[k].team # None /\ ~token[k].revoked => role[token[k].team][token[k].user] # "none"

(* Action.  Nobody becomes a member but by an invite nobody had used, and  *)
(* an invite, once used, keeps its user (acceptInvite).                    *)
JoinsByInvite ==
  [][/\ \A t \in Teams, u \in Users :
          role[t][u] = "none" /\ role'[t][u] = "member" =>
            \E i \in Invites : /\ invite[i].team = t /\ invite[i].accepted = None
                               /\ invite'[i].accepted = u
     /\ \A i \in Invites : invite[i].accepted # None =>
          invite'[i].accepted = invite[i].accepted]_vars

(* Safety.  What a team's and its owners' wallets hold is explained by the *)
(* transfers, at most one for each idempotency key, whatever is spent      *)
(* meanwhile, and no wallet is overdrawn (fundTeam).  A sum is counted     *)
(* credit by credit.                                                       *)
Coins(moves) == UNION {{p} \X (1..p.credits) : p \in moves}
Sent(moves) == Cardinality(Coins(moves))
FundsExplained ==
  /\ \A p, q \in transfers :
       p.team = q.team /\ p.user = q.user /\ p.key = q.key => p = q
  /\ \A w \in Wallets : balance[w] >= 0
  /\ \A t \in Teams : balance[t] + spent[t] = Sent({p \in transfers : p.team = t})
  /\ \A u \in Users : balance[u] + spent[u] + Sent({p \in transfers : p.user = u}) = scenario.opening

(* Action.  A user who is disabled joins nothing, gets no token and moves  *)
(* no credits: the rows inserted for a user commit while it is enabled.    *)
EnabledAtCommit ==
  [][/\ \A t \in Teams, u \in Users :
          role[t][u] = "none" /\ role'[t][u] # "none" => enabled[u]
     /\ \A k \in Tokens : token[k].team = None /\ token'[k].team # None =>
          enabled[token'[k].user]
     /\ \A p \in transfers' \ transfers : enabled[p.user]]_vars

(* Safety.  Requests wait for the rows of others that are under way, and   *)
(* not in a circle: of any that wait one waits for none of the others.     *)
(* Who waits to insert waits for an administrator who waits for nobody.    *)
WaitsFor(h, g) ==
  \/ handler[h].pc = "lock" /\ teamLock[handler[h].team] = g
  \/ handler[h].pc = "wallets" /\ walletLock[NextWallet(h)] = g
NoDeadlock ==
  /\ \A h, g \in Handlers : WaitsFor(h, g) => handler[g].pc # "idle"
  /\ \A waiting \in SUBSET Handlers : waiting # {} =>
       \E h \in waiting : \A g \in waiting : ~WaitsFor(h, g)

(* Safety.  What the rows of teams, members, seats and tokens agree on.    *)
Membership == TypeOK /\ OneOwner /\ SeatsRespected /\ TokensOfMembers

(* Safety.  Transfers explain what the wallets hold, and neither they nor  *)
(* the requests beside them lock each other out.                           *)
TransfersSound == FundsExplained /\ NoDeadlock

(* Action.  Who may join a team, spend for it and move its credits.        *)
JoinsAsAllowed == JoinsByInvite /\ EnabledAtCommit
=============================================================================
