----------------------------- MODULE WebSession -----------------------------
(***************************************************************************)
(* One tab of the web console and its session: fetchResponse of            *)
(* web/src/features/account/api.ts, which refreshes the access cookie once *)
(* for all the requests it was refused to and sends each of them again;    *)
(* SessionBoundary, which gives every identity a query client of its own;  *)
(* SessionEvents, Shell and AuthPage, which end and begin sessions.        *)
(*                                                                         *)
(* The cookies belong to the browser: other tabs change them under this    *)
(* one.  A request is sent, served under the cookies of that moment and    *)
(* answered later, in any order, or lost.  The two queries of the account  *)
(* are one entry, the newer of both, as SessionBoundary reads them.        *)
(***************************************************************************)
EXTENDS Integers, FiniteSets

CONSTANTS
  Users, None,
  Unread,              \* this client has not read whose session it is
  MaxFetches,          \* how many requests this tab sends
  MaxLapses,           \* how often the access cookie expires
  MaxSwitches          \* how often another tab logs in or out

VARIABLES
  cookie, accepted,    \* whose session the cookies name; is the access cookie accepted
  fetches,             \* the requests of this tab
  refreshing,          \* refreshInFlight, and what the server made of it
  refreshed,           \* refreshGeneration
  client, identity,    \* SessionBoundary's generation and identity
  account, rows,       \* what the current client has cached
  route, handled,      \* handled: SessionEvents' flag of this client and route
  epoch,               \* history: how often the cache was given up
  lapses, switches     \* history: how often the cookies lost their right or changed hands

browser == <<cookie, accepted, lapses, switches>>
refresh == <<refreshing, refreshed>>
cache == <<client, identity, account, rows, route, handled, epoch>>
vars == <<browser, fetches, refresh, cache>>

Fetches == 1..MaxFetches
Kinds == {"account", "page", "mutation", "login", "logout"}
Unsent == [pc |-> "idle", kind |-> "account", client |-> 0, generation |-> 0, epoch |-> 0,
           as |-> None, answer |-> None, aborted |-> FALSE, sent |-> 0, executed |-> 0]

Init ==
  /\ cookie \in Users \cup {None} /\ accepted = TRUE
  /\ fetches = [f \in Fetches |-> Unsent]
  /\ refreshing = "none" /\ refreshed = 0
  /\ client = 0 /\ identity = None /\ account = Unread /\ rows = {}
  /\ route = "app" /\ handled = FALSE
  /\ epoch = 0 /\ lapses = (IF cookie = None THEN 1 ELSE 0) /\ switches = 0

Under(f) == fetches[f].pc \notin {"idle", "done"}
Pending(kind) == \E f \in Fetches : fetches[f].kind = kind /\ Under(f)

-----------------------------------------------------------------------------
\* What the tab asks

(* The routes inside Shell are rendered once the account is there; only    *)
(* then do their pages ask anything.                                       *)
Shown == route = "app" /\ account \in Users
Ask(f, kind, as) ==
  /\ fetches[f].pc = "idle" /\ \A g \in 1..(f - 1) : fetches[g].pc # "idle"
  /\ fetches' = [fetches EXCEPT ![f] =
       [Unsent EXCEPT !.pc = "sent", !.kind = kind, !.client = client, !.epoch = epoch,
                      !.generation = refreshed, !.as = as, !.sent = 1]]
  /\ UNCHANGED <<browser, refresh, cache>>

AskAccount(f) == ~Pending("account") /\ Ask(f, "account", None)
AskPage(f) == Shown /\ Ask(f, "page", None)
Mutate(f) == Shown /\ Ask(f, "mutation", identity)
Logout(f) == Shown /\ ~Pending("logout") /\ Ask(f, "logout", identity)
(* AuthPage shows its form to visitors only, and takes one at a time.      *)
Login(f) ==
  /\ route = "login" /\ account = None /\ ~Pending("login")
  /\ \E u \in Users : Ask(f, "login", u)

-----------------------------------------------------------------------------
\* The server and the other tabs

Granted == cookie # None /\ accepted
(* Another account is shown, or read and about to be shown: a login that   *)
(* was sent before changes the cookies behind it, as another tab does.     *)
Elsewhere(u) ==
  \/ account \in Users \ {u}
  \/ \E g \in Fetches : fetches[g].kind = "account" /\ fetches[g].answer \notin {None, u}
Serve(f) ==
  /\ fetches[f].pc = "sent"
  /\ LET kind == fetches[f].kind
         answer == IF kind \in {"login", "logout"} THEN fetches[f].as
                   ELSE IF Granted THEN cookie ELSE None
     IN  /\ fetches' = [fetches EXCEPT ![f].pc = "served", ![f].answer = answer,
                          ![f].executed = IF kind = "mutation" /\ answer # None
                                          THEN @ + 1 ELSE @]
         /\ cookie' = CASE kind = "login" -> fetches[f].as
                        [] kind = "logout" -> None
                        [] OTHER -> cookie
         /\ accepted' = (accepted \/ kind = "login")
         /\ lapses' = IF kind = "logout" THEN lapses + 1 ELSE lapses
         /\ switches' = IF kind = "login" /\ Elsewhere(fetches[f].as) THEN switches + 1 ELSE switches
  /\ UNCHANGED <<refresh, cache>>

ServeRefresh ==
  /\ refreshing = "sent"
  /\ refreshing' = IF cookie = None THEN "refused" ELSE "granted"
  /\ accepted' = (accepted \/ cookie # None)
  /\ UNCHANGED <<cookie, lapses, switches, fetches, refreshed, cache>>

ExpireAccess ==
  /\ accepted /\ cookie # None /\ lapses < MaxLapses
  /\ accepted' = FALSE /\ lapses' = lapses + 1
  /\ UNCHANGED <<cookie, switches, fetches, refresh, cache>>

OtherTab ==
  /\ switches < MaxSwitches
  /\ cookie' \in (Users \cup {None}) \ {cookie}
  /\ accepted' = TRUE /\ switches' = switches + 1 /\ lapses' = lapses + 1
  /\ UNCHANGED <<fetches, refresh, cache>>

-----------------------------------------------------------------------------
\* What answers do to the tab

(* A query that its client gives up is aborted: at once while it is out,   *)
(* after the refresh when it waits for one.  Nothing aborts a mutation.    *)
(* KeptUp: client.clear() without the cancellation.                        *)
Query(f) == fetches[f].kind \in {"account", "page"}
Over(q) == [Unsent EXCEPT !.pc = "done", !.sent = q.sent, !.executed = q.executed,
                          !.aborted = q.aborted]
KeptUp(fs) == fs
GivenUp(fs) == [f \in Fetches |->
  IF Query(f) /\ Under(f) /\ fs[f].client = client /\ fs[f].pc # "done"
  THEN IF fs[f].pc = "refresh" THEN [fs[f] EXCEPT !.aborted = TRUE]
       ELSE Over(fs[f])
  ELSE fs[f]]
Done(f) == [fetches EXCEPT ![f] = Over(@)]

(* client.clear(), and a navigation that mounts other pages.               *)
Cleared(fs, to) ==
  /\ fetches' = GivenUp(fs)
  /\ account' = Unread /\ rows' = {} /\ epoch' = epoch + 1
  /\ route' = to /\ handled' = (to = route)
  /\ UNCHANGED <<client, identity>>

(* A new client, in which only the account is known.                       *)
Seed(u, as) == {[kind |-> "account", owner |-> u, epoch |-> as]}
Swapped(fs, u) ==
  /\ fetches' = GivenUp(fs)
  /\ client' = client + 1 /\ epoch' = epoch + 1
  /\ rows' = IF u = None THEN {} ELSE Seed(u, epoch + 1)

(* SessionBoundary sees every new account; AuthPage sends who is signed in *)
(* to the application.                                                     *)
Distinct(u) == identity # None /\ identity # u
ReadAccount(f, u) ==
  /\ account' = u /\ identity' = u
  /\ route' = IF u # None THEN "app" ELSE route
  /\ IF Distinct(u)
     THEN Swapped(Done(f), u)
     ELSE /\ fetches' = Done(f)
          /\ rows' = {r \in rows : r.kind # "account"}
                     \cup (IF u = None THEN {} ELSE Seed(u, fetches[f].epoch))
          /\ UNCHANGED <<client, epoch>>
  /\ handled' = (handled /\ ~Distinct(u) /\ route' = route)

(* SessionEvents: the first 401 of the current client ends the session.    *)
Expired(f) ==
  IF fetches[f].client = client /\ ~handled THEN Cleared(Done(f), "login")
  ELSE fetches' = Done(f) /\ UNCHANGED cache

Settle(f) ==
  CASE fetches[f].kind = "account" ->
         IF fetches[f].answer = None /\ route = "app" THEN Expired(f)
         ELSE ReadAccount(f, fetches[f].answer)
    [] fetches[f].kind = "page" ->
         IF fetches[f].answer = None THEN Expired(f)
         ELSE /\ rows' = rows \cup {[kind |-> "page", owner |-> fetches[f].answer,
                                     epoch |-> fetches[f].epoch]}
              /\ fetches' = Done(f)
              /\ UNCHANGED <<client, identity, account, route, handled, epoch>>
    [] fetches[f].kind = "mutation" ->
         IF fetches[f].answer = None THEN Expired(f) ELSE fetches' = Done(f) /\ UNCHANGED cache
    [] OTHER ->
         IF fetches[f].client = client
         THEN Cleared(Done(f), IF fetches[f].kind = "login" THEN "app" ELSE "login")
         ELSE fetches' = Done(f) /\ UNCHANGED cache

(* A first refusal waits for the refresh that is under way, or starts one, *)
(* unless one has ended since the request was sent.  UnrefreshedAlways: no *)
(* refreshGeneration.                                                      *)
Refused(f) == fetches[f].answer = None /\ fetches[f].kind \notin {"login", "logout"}
UnrefreshedAlways(f) == TRUE
Unrefreshed(f) == fetches[f].generation = refreshed
Answer(f) ==
  /\ fetches[f].pc = "served"
  /\ IF Refused(f) /\ fetches[f].sent = 1
     THEN /\ IF Unrefreshed(f)
             THEN /\ fetches' = [fetches EXCEPT ![f].pc = "refresh"]
                  /\ refreshing' = IF refreshing = "none" THEN "sent" ELSE refreshing
             ELSE /\ fetches' = [fetches EXCEPT ![f].pc = "sent", ![f].sent = 2]
                  /\ UNCHANGED refreshing
          /\ UNCHANGED cache
     ELSE Settle(f) /\ UNCHANGED refreshing
  /\ UNCHANGED <<browser, refreshed>>

(* Ten seconds pass without an answer, whether or not it was served; the   *)
(* error is shown, nothing is sent again.                                  *)
Lose(f) ==
  /\ fetches[f].pc \in {"sent", "served"}
  /\ fetches' = Done(f)
  /\ UNCHANGED <<browser, refresh, cache>>

(* The end of the refresh: who waited sends again, unless it was aborted.  *)
Resumed(f) == IF fetches[f].aborted THEN Over(fetches[f])
              ELSE [fetches[f] EXCEPT !.pc = "sent", !.sent = 2]
Waiting == {f \in Fetches : fetches[f].pc = "refresh"}
RefreshGranted ==
  /\ refreshing = "granted"
  /\ refreshing' = "none" /\ refreshed' = refreshed + 1
  /\ fetches' = [f \in Fetches |-> IF f \in Waiting THEN Resumed(f) ELSE fetches[f]]
  /\ UNCHANGED <<browser, cache>>

(* A refused refresh is the answer to all who waited for it, one by one.   *)
RefreshRefused ==
  /\ refreshing = "refused"
  /\ \E f \in Waiting :
       /\ IF fetches[f].aborted THEN fetches' = Done(f) /\ UNCHANGED cache
          ELSE Settle(f)
       /\ refreshing' = IF Waiting = {f} THEN "none" ELSE "refused"
  /\ UNCHANGED <<browser, refreshed>>

RefreshLost ==
  /\ refreshing # "none"
  /\ refreshing' = "none"
  /\ fetches' = [f \in Fetches |-> IF f \in Waiting THEN Over(fetches[f]) ELSE fetches[f]]
  /\ UNCHANGED <<browser, refreshed, cache>>

-----------------------------------------------------------------------------
Network(f) == Answer(f) \/ Lose(f)
RefreshEnds == RefreshGranted \/ RefreshRefused \/ RefreshLost
Next ==
  \/ \E f \in Fetches : AskAccount(f) \/ AskPage(f) \/ Mutate(f) \/ Login(f) \/ Logout(f)
  \/ \E f \in Fetches : Serve(f) \/ Network(f)
  \/ ServeRefresh \/ RefreshEnds
  \/ ExpireAccess \/ OtherTab

Spec == Init /\ [][Next]_vars

-----------------------------------------------------------------------------
\* Properties

TypeOK ==
  /\ cookie \in Users \cup {None} /\ accepted \in BOOLEAN
  /\ \A f \in Fetches : /\ fetches[f].pc \in {"idle", "sent", "served", "refresh", "done"}
                        /\ fetches[f].kind \in Kinds
  /\ refreshing \in {"none", "sent", "granted", "refused"}
  /\ identity \in Users \cup {None} /\ account \in Users \cup {None, Unread}
  /\ rows \subseteq [kind : Kinds, owner : Users, epoch : 0..epoch]
  /\ route \in {"login", "app"} /\ handled \in BOOLEAN

(* What the tab has cached was asked since the cache was last given up, at *)
(* a login, a logout, the end of a session or a change of identity: no     *)
(* answer that comes late brings the earlier account back.  Unless the     *)
(* cookies change hands behind the account that is shown, by another tab   *)
(* or by a login sent before it was, all of it is the signed-in user's.    *)
OwnData ==
  /\ TypeOK
  /\ account \in Users => identity = account
  /\ \A r \in rows : r.epoch = epoch /\ (switches = 0 => r.owner = identity)

(* A request goes out twice at most and takes effect once; what was given  *)
(* up is not sent again; nobody waits for a refresh that is not under way; *)
(* and however many requests are refused, in whatever order they learn it, *)
(* a lapse of the cookies costs one refresh.                               *)
ReplayedOnce ==
  /\ \A f \in Fetches : /\ fetches[f].sent <= 2 /\ fetches[f].executed <= 1
                        /\ fetches[f].aborted => fetches[f].pc \in {"refresh", "done"}
                        /\ fetches[f].pc = "refresh" => refreshing # "none"
  /\ refreshed <= lapses
=============================================================================
