------------------------------ MODULE Accounts ------------------------------
(***************************************************************************)
(* Accounts and browser sessions: registration, login, logout and          *)
(* setUserEnabled of internal/app/{account,admin}.go, the refresh of       *)
(* browser_auth.go over internal/auth/browser.go, and the first admin of   *)
(* bootstrap.go, which every starting replica tries to create.             *)
(*                                                                         *)
(* A browser holds the refresh cookie of one session; each of its tabs has *)
(* access cookies of its own.  A handler is one HTTP request or one        *)
(* starting replica; what it writes becomes visible at its commit.         *)
(***************************************************************************)
EXTENDS Integers, FiniteSets, FiniteSetsExt

CONSTANTS
  Names,              \* usernames, one account each
  Root,               \* the username of the bootstrap configuration
  Sessions, Cookies,  \* sessions and access cookies that can be drawn
  Handlers, None,
  Scenarios           \* how a behaviour starts, and its bounds

(* A scenario: the accounts at the start and the admins among them, the    *)
(* configured lives of cookies and sessions, what requests ask for, how    *)
(* many come and how much time passes.                                     *)
Kinds == {"register", "login", "refresh", "logout", "enable", "bootstrap"}
Scenario == [known : SUBSET Names, admins : SUBSET Names, access : Nat \ {0},
             refresh : Nat \ {0}, operations : SUBSET Kinds, requests : Nat, time : Nat]

ASSUME AccountsAssumption ==
  /\ IsFiniteSet(Names) /\ Root \in Names
  /\ Scenarios \subseteq Scenario /\ \A c \in Scenarios : c.admins \subseteq c.known
  /\ None \notin Names \cup Sessions \cup Cookies \cup Handlers \cup Kinds

VARIABLES
  now,
  role, enabled,            \* users
  session, access,          \* sessions, session_access
  drawn,                    \* history: access cookies drawn so far
  nameLock,                 \* who inserts a username and has not committed
  userLock, sessionLock,    \* rows locked FOR UPDATE
  changing, booting,        \* the advisory locks 817392106 and 817392105
  handler, started,         \* started: replicas that tried to bootstrap, with the outcome
  requests,
  scenario                  \* the start and the bounds of this behaviour

vars == <<now, role, enabled, session, access, drawn, nameLock, userLock, sessionLock, changing,
          booting, handler, started, requests, scenario>>
users == <<role, enabled>>
sessions == <<session, access, drawn>>
locks == <<nameLock, userLock, sessionLock, changing, booting>>

NoSession == [user |-> None, expires |-> 0, state |-> "unused"]
NoAccess == [session |-> None, expires |-> 0]
Free == [pc |-> "idle", op |-> None, name |-> None, cookie |-> None, session |-> None,
         actor |-> None, enable |-> FALSE]

Init ==
  /\ scenario \in Scenarios
  /\ now = 0
  /\ role = [n \in Names |-> IF n \in scenario.admins THEN "admin"
                             ELSE IF n \in scenario.known THEN "user" ELSE "none"]
  /\ enabled = [n \in Names |-> n \in scenario.known]
  /\ session = [s \in Sessions |-> NoSession] /\ access = [a \in Cookies |-> NoAccess]
  /\ drawn = {}
  /\ nameLock = [n \in Names |-> None] /\ userLock = [n \in Names |-> None]
  /\ sessionLock = [s \in Sessions |-> None]
  /\ changing = None /\ booting = None
  /\ handler = [h \in Handlers |-> Free] /\ started = {}
  /\ requests = 0

SessionAlive(s) == session[s].state = "live" /\ session[s].expires > now
Authenticates(a) ==
  /\ access[a] # NoAccess /\ access[a].expires > now
  /\ SessionAlive(access[a].session) /\ enabled[session[access[a].session].user]
UserOf(a) == session[access[a].session].user
IsAdmin(a) == Authenticates(a) /\ role[UserOf(a)] = "admin"

(* A new session refers to the user's row.                                 *)
Referred(n) ==
  \E h \in Handlers : handler[h].op = "login" /\ handler[h].pc = "commit" /\ handler[h].name = n

----------------------------------------------------------------------------
Released(f, h) == [x \in DOMAIN f |-> IF f[x] = h THEN None ELSE f[x]]
Freed(l, h) == IF l = h THEN None ELSE l

End(h) ==
  /\ handler' = [handler EXCEPT ![h] = Free]
  /\ nameLock' = Released(nameLock, h) /\ userLock' = Released(userLock, h)
  /\ sessionLock' = Released(sessionLock, h)
  /\ changing' = Freed(changing, h) /\ booting' = Freed(booting, h)

Refuse(h) == End(h) /\ UNCHANGED <<users, sessions, started>>
Goto(h, pc) == handler' = [handler EXCEPT ![h].pc = pc]
Waits == UNCHANGED <<users, sessions, started>>
Stays == UNCHANGED <<now, requests, scenario>>

Serve(h, op, pc, n, a, s, actor, enable) ==
  /\ handler[h].pc = "idle" /\ op \in scenario.operations /\ requests < scenario.requests
  /\ handler' = [handler EXCEPT ![h] =
       [pc |-> pc, op |-> op, name |-> n, cookie |-> a, session |-> s, actor |-> actor,
        enable |-> enable]]
  /\ requests' = requests + 1
  /\ UNCHANGED <<now, users, sessions, locks, started, scenario>>

(* login reads the account and checks the password before it begins a      *)
(* transaction; setUserEnabled has authenticated an admin, not the target. *)
Request(h) ==
  \/ \E n \in Names : Serve(h, "register", "insert", n, None, None, None, FALSE)
  \/ \E n \in Names :
       role[n] # "none" /\ enabled[n] /\ Serve(h, "login", "open", n, None, None, None, FALSE)
  \/ \E s \in Sessions : session[s].state # "unused" /\ Serve(h, "refresh", "lock", None, None, s, None, FALSE)
  \/ \E a \in Cookies :
       access[a] # NoAccess /\ Serve(h, "logout", "delete", None, a, None, None, FALSE)
  \/ \E a \in Cookies, n \in Names, e \in BOOLEAN :
       /\ IsAdmin(a) /\ role[n] # "none" /\ (n = UserOf(a) => e)
       /\ Serve(h, "enable", "advise", n, a, None, UserOf(a), e)
  \/ Serve(h, "bootstrap", "boot", Root, None, None, None, FALSE)

----------------------------------------------------------------------------
(* The session and the first access cookie are inserted together.          *)
AccessExpiry(s) == Min({now + scenario.access, s.expires})

Open(s, a, n) ==
  LET row == [user |-> n, expires |-> now + scenario.refresh, state |-> "live"] IN
  /\ session[s] = NoSession /\ a \notin drawn /\ drawn' = drawn \cup {a}
  /\ session' = [session EXCEPT ![s] = row]
  /\ access' = [access EXCEPT ![a] = [session |-> s, expires |-> AccessExpiry(row)]]

(* register: the unique username makes a second insert wait for the first. *)
Register(h, s, a) ==
  LET n == handler[h].name IN
  /\ handler[h].op = "register"
  /\ \/ /\ handler[h].pc = "insert" /\ nameLock[n] = None
        /\ \/ role[n] # "none" /\ Refuse(h)
           \/ /\ role[n] = "none" /\ nameLock' = [nameLock EXCEPT ![n] = h]
              /\ Goto(h, "commit") /\ Waits
              /\ UNCHANGED <<userLock, sessionLock, changing, booting>>
     \/ /\ handler[h].pc = "commit"
        /\ role' = [role EXCEPT ![n] = "user"] /\ enabled' = [enabled EXCEPT ![n] = TRUE]
        /\ Open(s, a, n) /\ End(h) /\ UNCHANGED started
  /\ Stays

Login(h, s, a) ==
  LET n == handler[h].name IN
  /\ handler[h].op = "login"
  /\ \/ /\ handler[h].pc = "open" /\ userLock[n] = None
        /\ Goto(h, "commit") /\ Waits /\ UNCHANGED locks
     \/ /\ handler[h].pc = "commit"
        /\ Open(s, a, n) /\ End(h) /\ UNCHANGED <<users, started>>
  /\ Stays

(* refresh: lock the session, drop its expired cookies, add one.           *)
DropAllCookies(s) == {a \in Cookies : access[a].session = s}   \* mutant
StaleCookies(s) == {a \in Cookies : access[a].session = s /\ access[a].expires <= now}

LockSession(h) ==
  LET s == handler[h].session IN
  /\ handler[h].pc = "lock" /\ sessionLock[s] = None
  /\ \/ ~(SessionAlive(s) /\ enabled[session[s].user]) /\ Refuse(h)
     \/ /\ SessionAlive(s) /\ enabled[session[s].user]
        /\ sessionLock' = [sessionLock EXCEPT ![s] = h] /\ Goto(h, "issue")
        /\ Waits /\ UNCHANGED <<nameLock, userLock, changing, booting>>
  /\ Stays

IssueAccess(h, a) ==
  LET s == handler[h].session IN
  /\ handler[h].pc = "issue"
  /\ \/ ~SessionAlive(s) /\ Refuse(h)
     \/ /\ SessionAlive(s) /\ a \notin drawn /\ drawn' = drawn \cup {a}
        /\ access' = [b \in Cookies |->
             IF b = a THEN [session |-> s, expires |-> AccessExpiry(session[s])]
             ELSE IF b \in StaleCookies(s) THEN NoAccess ELSE access[b]]
        /\ End(h) /\ UNCHANGED <<users, session, started>>
  /\ Stays

(* logout: the session goes and takes the cookies of every tab with it.    *)
TabsOf(s, a) == {b \in Cookies : access[b].session = s}

Logout(h) ==
  LET a == handler[h].cookie  s == access[a].session IN
  /\ handler[h].pc = "delete"
  /\ \/ access[a] = NoAccess /\ Refuse(h)
     \/ /\ access[a] # NoAccess /\ sessionLock[s] = None
        /\ session' = [session EXCEPT ![s].state = "gone"]
        /\ access' = [b \in Cookies |-> IF b \in TabsOf(s, a) THEN NoAccess ELSE access[b]]
        /\ End(h) /\ UNCHANGED <<users, drawn, started>>
  /\ Stays

----------------------------------------------------------------------------
(* setUserEnabled: one at a time, and never the last admin.                *)
Serialised == changing = None

Advise(h) ==
  /\ handler[h].pc = "advise" /\ Serialised
  /\ changing' = h /\ Goto(h, "target")
  /\ Waits /\ UNCHANGED <<nameLock, userLock, sessionLock, booting>> /\ Stays

LockTarget(h) ==
  LET n == handler[h].name IN
  /\ handler[h].pc = "target" /\ userLock[n] = None /\ ~Referred(n)
  /\ userLock' = [userLock EXCEPT ![n] = h] /\ Goto(h, "confirm")
  /\ Waits /\ UNCHANGED <<nameLock, sessionLock, changing, booting>> /\ Stays

AnyActor(h) == TRUE                                            \* mutant
StillAdmin(h) == IsAdmin(handler[h].cookie)
LastAdmin(h) ==
  LET n == handler[h].name IN
  ~handler[h].enable /\ role[n] = "admin" /\ ~\E m \in Names \ {n} : role[m] = "admin" /\ enabled[m]

Confirm(h) ==
  /\ handler[h].pc = "confirm"
  /\ \/ ~StillAdmin(h) /\ Refuse(h)
     \/ StillAdmin(h) /\ LastAdmin(h) /\ Refuse(h)
     \/ StillAdmin(h) /\ ~LastAdmin(h) /\ Goto(h, "recheck") /\ Waits /\ UNCHANGED locks
  /\ Stays

(* The row is updated, the admin's session read once more, and it commits. *)
Recheck(h) ==
  /\ handler[h].pc = "recheck"
  /\ \/ ~StillAdmin(h) /\ Refuse(h)
     \/ StillAdmin(h) /\ Goto(h, "write") /\ Waits /\ UNCHANGED locks
  /\ Stays

SetEnabled(h) ==
  /\ handler[h].pc = "write"
  /\ enabled' = [enabled EXCEPT ![handler[h].name] = handler[h].enable]
  /\ End(h) /\ UNCHANGED <<role, sessions, started>>
  /\ Stays

----------------------------------------------------------------------------
(* BootstrapAdmin, and what it tells the replica that starts.              *)
AllAtOnce == TRUE                                              \* mutant
OneAtATime == booting = None

Report(h, outcome) == started' = started \cup {[outcome |-> outcome, was |-> role[Root]]}

Bootstrap(h) ==
  /\ handler[h].op = "bootstrap"
  /\ \/ /\ handler[h].pc = "boot" /\ OneAtATime
        /\ booting' = h /\ Goto(h, "look") /\ Waits
        /\ UNCHANGED <<nameLock, userLock, sessionLock, changing>>
     \/ /\ handler[h].pc = "look" /\ role[Root] # "none"
        /\ Report(h, IF role[Root] = "admin" THEN "ok" ELSE "error")
        /\ End(h) /\ UNCHANGED <<users, sessions>>
     \/ /\ handler[h].pc = "look" /\ role[Root] = "none"
        /\ Goto(h, "insert") /\ Waits /\ UNCHANGED locks
     \/ /\ handler[h].pc = "insert" /\ nameLock[Root] = None
        /\ \/ /\ role[Root] # "none" /\ Report(h, "error")
              /\ End(h) /\ UNCHANGED <<users, sessions>>
           \/ /\ role[Root] = "none" /\ nameLock' = [nameLock EXCEPT ![Root] = h]
              /\ Goto(h, "commit") /\ Waits
              /\ UNCHANGED <<userLock, sessionLock, changing, booting>>
     \/ /\ handler[h].pc = "commit"
        /\ role' = [role EXCEPT ![Root] = "admin"] /\ enabled' = [enabled EXCEPT ![Root] = TRUE]
        /\ Report(h, "ok") /\ End(h) /\ UNCHANGED sessions
  /\ Stays

(* The client disconnects, or the database or the process fails.           *)
Aborts(h) == handler[h].pc # "idle" /\ Refuse(h) /\ Stays

Tick == /\ now < scenario.time /\ now' = now + 1
        /\ UNCHANGED <<users, sessions, locks, handler, started, requests, scenario>>

Handle(h) ==
  \/ \E s \in Sessions, a \in Cookies : Register(h, s, a) \/ Login(h, s, a)
  \/ LockSession(h) \/ \E a \in Cookies : IssueAccess(h, a)
  \/ Logout(h) \/ Bootstrap(h)
  \/ Advise(h) \/ LockTarget(h) \/ Confirm(h) \/ Recheck(h) \/ SetEnabled(h)

Next == Tick \/ \E h \in Handlers : Request(h) \/ Handle(h) \/ Aborts(h)

Spec == Init /\ [][Next]_vars

----------------------------------------------------------------------------
TypeOK ==
  /\ scenario \in Scenarios /\ now \in 0..scenario.time /\ requests \in 0..scenario.requests
  /\ role \in [Names -> {"none", "user", "admin"}] /\ enabled \in [Names -> BOOLEAN]
  /\ session \in [Sessions -> [user : Names \cup {None}, expires : Nat,
                               state : {"unused", "live", "gone"}]]
  /\ access \in [Cookies -> [session : Sessions \cup {None}, expires : Nat]]
  /\ drawn \subseteq Cookies
  /\ nameLock \in [Names -> Handlers \cup {None}] /\ userLock \in [Names -> Handlers \cup {None}]
  /\ sessionLock \in [Sessions -> Handlers \cup {None}]
  /\ changing \in Handlers \cup {None} /\ booting \in Handlers \cup {None}
  /\ \A h \in {changing, booting} \ {None} : handler[h].op \in {"enable", "bootstrap"}
  /\ handler \in [Handlers ->
       [pc : {"idle", "insert", "open", "commit", "lock", "issue", "delete", "advise",
              "target", "confirm", "recheck", "write", "boot", "look"},
        op : Kinds \cup {None}, name : Names \cup {None}, cookie : Cookies \cup {None},
        session : Sessions \cup {None}, actor : Names \cup {None}, enable : BOOLEAN]]
  /\ started \subseteq [outcome : {"ok", "error"}, was : {"none", "user", "admin"}]

(* However the admins disable each other, one of them stays enabled.       *)
AdminRemains == scenario.admins # {} => \E n \in Names : role[n] = "admin" /\ enabled[n]

(* A starting replica fails only if its admin's name is an ordinary user's.*)
BootstrapAgrees == \A r \in started : r.outcome = "error" => r.was = "user"

(* What holds of admins after every commit.                                *)
AdminsAgree == TypeOK /\ AdminRemains /\ BootstrapAgrees

(* An account is enabled or disabled by someone who is an enabled admin at *)
(* the commit, not only when the request arrived.                          *)
ChangedByAdmin ==
  [][\A h \in Handlers :
       enabled' # enabled /\ handler[h].op = "enable" /\ handler'[h].pc = "idle"
         => enabled[handler[h].actor] /\ role[handler[h].actor] = "admin"]_vars

(* Logging out in one tab ends the cookies of every tab, those that a      *)
(* refresh is adding at the same time included.                            *)
LogoutEndsTabs ==
  \A a \in Cookies : access[a] # NoAccess => session[access[a].session].state = "live"

(* Refreshing in one tab leaves the unexpired cookies of the others alone: *)
(* only a logout of their session ends them early.                         *)
TabsIndependent ==
  [][\A a \in Cookies : access[a] # NoAccess /\ access'[a] # access[a] =>
       access[a].expires <= now \/ session'[access[a].session].state = "gone"]_vars

(* No cookie outlives its session, and refreshing never prolongs it.       *)
AccessWithinSession ==
  [][\A s \in Sessions :
       session[s].state = "live" =>
         /\ session'[s].expires = session[s].expires
         /\ \A a \in Cookies : access'[a].session = s => access'[a].expires <= session[s].expires
    ]_vars

(* What the tabs of a session may do to each other's cookies.              *)
CookiesKept == TabsIndependent /\ AccessWithinSession /\ []LogoutEndsTabs
=============================================================================
