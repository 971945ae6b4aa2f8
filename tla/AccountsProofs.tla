--------------------------- MODULE AccountsProofs ---------------------------
(***************************************************************************)
(* Theorems about Accounts for every number of accounts, sessions, cookies *)
(* and requests.  A name that is being inserted is nobody's yet, whoever   *)
(* changes an account or starts up is alone with its advisory lock, and so *)
(* what was decided under it still holds at the commit.  A cookie never    *)
(* outlives its session, because a logout finds all of them.               *)
(***************************************************************************)
EXTENDS Accounts, TLAPS

-----------------------------------------------------------------------------
\* The inductive invariant

Phases == {"idle", "insert", "open", "commit", "lock", "issue", "delete", "advise",
           "target", "confirm", "recheck", "write", "boot", "look"}
Changing == {"target", "confirm", "recheck", "write"}
RequestRecords == [pc : Phases, op : Kinds \cup {None}, name : Names \cup {None},
                   cookie : Cookies \cup {None}, session : Sessions \cup {None},
                   actor : Names \cup {None}, enable : BOOLEAN]
SessionRows == [user : Names \cup {None}, expires : Nat, state : {"unused", "live", "gone"}]
AccessRows == [session : Sessions \cup {None}, expires : Nat]

(* What a request carries, and how far it can be.                          *)
WellFormed(r) ==
  /\ r.pc = "idle" => r = Free
  /\ r.pc # "idle" =>
       \/ r.op = "register" /\ r.pc \in {"insert", "commit"} /\ r.name \in Names
       \/ r.op = "login" /\ r.pc \in {"open", "commit"} /\ r.name \in Names
       \/ r.op = "refresh" /\ r.pc \in {"lock", "issue"} /\ r.session \in Sessions
       \/ r.op = "logout" /\ r.pc = "delete" /\ r.cookie \in Cookies
       \/ /\ r.op = "enable" /\ r.pc \in {"advise"} \cup Changing
          /\ r.name \in Names /\ r.cookie \in Cookies /\ r.actor \in Names
       \/ r.op = "bootstrap" /\ r.pc \in {"boot", "look", "insert", "commit"} /\ r.name = Root
Requests == \A h \in Handlers : WellFormed(handler[h])

(* Who holds what: a username under insertion, and the advisory locks.     *)
Inserting(r) == r.pc = "commit" /\ r.op \in {"register", "bootstrap"}
Booting(r) == r.op = "bootstrap" /\ r.pc # "boot"
Locks ==
  /\ \A h \in Handlers : Inserting(handler[h]) => nameLock[handler[h].name] = h
  /\ \A h \in Handlers : handler[h].pc \in Changing => changing = h
  /\ \A h \in Handlers : Booting(handler[h]) => booting = h
  /\ \A h \in Handlers : changing = h => handler[h].op = "enable"
  /\ \A h \in Handlers : booting = h => handler[h].op = "bootstrap"

(* What the holder knows of the accounts.                                  *)
LeavesAdmin(r) ==
  \/ r.enable \/ role[r.name] # "admin"
  \/ \E m \in Names \ {r.name} : role[m] = "admin" /\ enabled[m]
Decided(r) ==
  /\ Inserting(r) => role[r.name] = "none"
  /\ r.op = "bootstrap" /\ r.pc \in {"insert", "commit"} => role[Root] # "admin"
  /\ r.op = "enable" =>
       /\ r.cookie \in drawn /\ role[r.name] # "none"
       /\ access[r.cookie] # NoAccess => UserOf(r.cookie) = r.actor
  /\ r.pc \in {"recheck", "write"} => LeavesAdmin(r)
  /\ r.pc = "write" => enabled[r.actor] /\ role[r.actor] = "admin"
Decisions == \A h \in Handlers : Decided(handler[h])

(* A cookie that is there was drawn, for a session that is open and that   *)
(* it does not outlive.                                                    *)
CookieOK(a) ==
  access[a] # NoAccess =>
    /\ a \in drawn /\ access[a].session \in Sessions
    /\ session[access[a].session].state = "live"
    /\ access[a].expires <= session[access[a].session].expires
SessionOK(s) == IF session[s].state = "unused" THEN session[s] = NoSession
                ELSE session[s].user \in Names
SessionRules == (\A a \in Cookies : CookieOK(a)) /\ (\A s \in Sessions : SessionOK(s))

Rows == AdminRemains /\ BootstrapAgrees
IInv == TypeOK /\ Requests /\ Locks /\ Decisions /\ SessionRules /\ Rows
-----------------------------------------------------------------------------
\* Sessions and cookies

(* What the tabs of a session see of one step.                             *)
TabsStep ==
  /\ \A a \in Cookies : access[a] # NoAccess /\ access'[a] # access[a] =>
       access[a].expires <= now \/ session'[access[a].session].state = "gone"
  /\ \A s \in Sessions : session[s].state = "live" =>
       /\ session'[s].expires = session[s].expires
       /\ \A a \in Cookies : access'[a].session = s => access'[a].expires <= session[s].expires

(* A step draws cookies that are new, and forgets neither whose a session  *)
(* is nor which session a cookie is of.                                    *)
SessionsMove ==
  /\ session' \in [Sessions -> SessionRows] /\ access' \in [Cookies -> AccessRows]
  /\ drawn \subseteq drawn' /\ drawn' \subseteq Cookies
  /\ SessionRules' /\ TabsStep
  /\ \A s \in Sessions : session[s].state # "unused" => session'[s].user = session[s].user
  /\ \A a \in drawn : access'[a] \in {access[a], NoAccess}

LEMMA MinOfTwo ==
  ASSUME NEW m \in Int, NEW n \in Int
  PROVE  Min({m, n}) \in {m, n} /\ Min({m, n}) <= m /\ Min({m, n}) <= n
<1>1. PICK x \in {m, n} : \A y \in {m, n} : x <= y
  BY SMT
<1>2. /\ Min({m, n}) \in {m, n}
      /\ \A y \in {m, n} : Min({m, n}) <= y
  BY <1>1 DEF Min
<1> QED
  BY <1>2

LEMMA ScenarioType ==
  ASSUME TypeOK
  PROVE  /\ scenario.access \in Nat /\ scenario.refresh \in Nat /\ scenario.time \in Nat
         /\ scenario.requests \in Nat /\ scenario.operations \subseteq Kinds
         /\ scenario.admins \subseteq scenario.known /\ now \in Nat
  BY AccountsAssumption DEF TypeOK, Scenario

(* A cookie is drawn for at most what is left of its session.              *)
LEMMA ExpiryBound ==
  ASSUME TypeOK, NEW r, r.expires \in Nat
  PROVE  AccessExpiry(r) \in Nat /\ AccessExpiry(r) <= r.expires
<1>1. PICK m \in Nat : m = now + scenario.access
  BY ScenarioType
<1>2. PICK n \in Nat : n = r.expires
  OBVIOUS
<1>3. AccessExpiry(r) = Min({m, n})
  BY <1>1, <1>2 DEF AccessExpiry
<1>4. Min({m, n}) \in {m, n} /\ Min({m, n}) <= n
  BY MinOfTwo
<1> QED
  BY <1>2, <1>3, <1>4

LEMMA SessionsUnchanged ==
  ASSUME TypeOK, SessionRules, UNCHANGED sessions
  PROVE  SessionsMove
<1> SUFFICES SessionsMove
  OBVIOUS
<1>1. session' = session /\ access' = access /\ drawn' = drawn
  BY DEF sessions
<1>2. SessionRules'
  BY <1>1 DEF SessionRules, CookieOK, SessionOK
<1>3. ASSUME NEW t \in Sessions, NEW a \in Cookies, access[a].session = t
      PROVE  access[a].expires <= session[t].expires
  BY <1>3, AccountsAssumption DEF SessionRules, CookieOK, NoAccess
<1>4. TabsStep
  BY <1>1, <1>3 DEF TabsStep
<1> QED
  BY <1>1, <1>2, <1>4 DEF SessionsMove, TypeOK, SessionRows, AccessRows

LEMMA OpenMoves ==
  ASSUME TypeOK, SessionRules, UNCHANGED <<now, scenario>>,
         NEW s \in Sessions, NEW a \in Cookies, NEW n \in Names, Open(s, a, n)
  PROVE  SessionsMove
<1> DEFINE e == now + scenario.refresh
           row == [user |-> n, expires |-> e, state |-> "live"]
           c == [session |-> s, expires |-> AccessExpiry(row)]
<1>1. /\ session[s] = NoSession /\ a \notin drawn /\ drawn' = drawn \cup {a}
      /\ session' = [session EXCEPT ![s] = row] /\ access' = [access EXCEPT ![a] = c]
  BY DEF Open
<1>2. e \in Nat /\ AccessExpiry(row) \in Nat /\ AccessExpiry(row) <= e
  BY ExpiryBound, ScenarioType
<1>3. row \in SessionRows /\ c \in AccessRows /\ row.state = "live" /\ row.expires = e
      /\ row.user = n /\ c.session = s /\ c.expires = AccessExpiry(row)
  BY <1>2 DEF SessionRows, AccessRows
<1> HIDE DEF row, c, e
<1>4. /\ session \in [Sessions -> SessionRows] /\ access \in [Cookies -> AccessRows]
      /\ drawn \subseteq Cookies
  BY DEF TypeOK, SessionRows, AccessRows
<1>5. session[s].state = "unused" /\ access[a] = NoAccess
  BY <1>1 DEF NoSession, SessionRules, CookieOK
<1>6. ASSUME NEW b \in Cookies
      PROVE  CookieOK(b)'
  <2>1. CASE b = a
    BY <1>1, <1>2, <1>3, <1>4, <2>1 DEF CookieOK
  <2>2. CASE b # a
    BY <1>1, <1>4, <1>5, <2>2 DEF CookieOK, SessionRules
  <2> QED
    BY <2>1, <2>2
<1>7. ASSUME NEW t \in Sessions
      PROVE  SessionOK(t)'
  BY <1>1, <1>3, <1>4 DEF SessionOK, SessionRules
<1>8. TabsStep
  <2>1. ASSUME NEW b \in Cookies, access[b] # NoAccess
        PROVE  access'[b] = access[b]
    BY <1>1, <1>4, <1>5, <2>1
  <2>2. ASSUME NEW t \in Sessions, session[t].state = "live"
        PROVE  /\ session'[t].expires = session[t].expires
               /\ \A b \in Cookies : access'[b].session = t =>
                    access'[b].expires <= session[t].expires
    <3>1. t # s /\ session'[t] = session[t]
      BY <1>1, <1>4, <1>5, <2>2
    <3>2. ASSUME NEW b \in Cookies, access'[b].session = t
          PROVE  access'[b].expires <= session[t].expires
      <4>1. b # a /\ access'[b] = access[b]
        BY <1>1, <1>3, <1>4, <3>1, <3>2
      <4>2. access[b] # NoAccess
        BY <3>2, <4>1, AccountsAssumption DEF NoAccess
      <4> QED
        BY <3>2, <4>1, <4>2 DEF SessionRules, CookieOK
    <3> QED
      BY <3>1, <3>2
  <2> QED
    BY <2>1, <2>2 DEF TabsStep
<1>9. SessionRules'
  BY <1>6, <1>7 DEF SessionRules
<1> QED
  BY <1>1, <1>3, <1>4, <1>5, <1>8, <1>9 DEF SessionsMove

LEMMA IssueMoves ==
  ASSUME TypeOK, SessionRules, UNCHANGED <<now, scenario, session>>,
         NEW s \in Sessions, NEW a \in Cookies, session[s].state = "live",
         a \notin drawn, drawn' = drawn \cup {a},
         access' = [b \in Cookies |->
           IF b = a THEN [session |-> s, expires |-> AccessExpiry(session[s])]
           ELSE IF b \in StaleCookies(s) THEN NoAccess ELSE access[b]]
  PROVE  SessionsMove
<1> DEFINE c == [session |-> s, expires |-> AccessExpiry(session[s])]
<1>1. /\ session \in [Sessions -> SessionRows] /\ access \in [Cookies -> AccessRows]
      /\ drawn \subseteq Cookies /\ session' = session
  BY DEF TypeOK, SessionRows, AccessRows
<1>2. /\ now + scenario.access \in Nat /\ session[s].expires \in Nat
  BY <1>1, ScenarioType DEF SessionRows
<1>3. c \in AccessRows /\ c.session = s /\ c.expires <= session[s].expires /\ c # NoAccess
  <2>1. AccessExpiry(session[s]) \in Nat /\ AccessExpiry(session[s]) <= session[s].expires
    BY <1>1, <1>2, ExpiryBound DEF SessionRows
  <2> QED
    BY <2>1, AccountsAssumption DEF AccessRows, NoAccess
<1>4. access'[a] = c
  OBVIOUS
<1> HIDE DEF c
<1>5. ASSUME NEW b \in Cookies, b # a
      PROVE  /\ access'[b] \in {access[b], NoAccess}
             /\ access'[b] # access[b] => access[b].expires <= now
  BY <1>5 DEF StaleCookies
<1>6. access[a] = NoAccess /\ NoAccess \in AccessRows
  BY DEF SessionRules, CookieOK, NoAccess, AccessRows
<1>7. ASSUME NEW b \in Cookies
      PROVE  CookieOK(b)'
  <2>1. CASE b = a
    BY <1>1, <1>3, <1>4, <2>1 DEF CookieOK
  <2>2. CASE b # a
    BY <1>1, <1>5, <2>2 DEF CookieOK, SessionRules
  <2> QED
    BY <2>1, <2>2
<1>8. SessionRules'
  BY <1>1, <1>7 DEF SessionRules, SessionOK
<1>9. TabsStep
  <2>1. ASSUME NEW t \in Sessions, NEW b \in Cookies, session[t].state = "live",
               access'[b].session = t
        PROVE  access'[b].expires <= session[t].expires
    <3>1. access'[b] # NoAccess
      BY <2>1, AccountsAssumption DEF NoAccess
    <3> QED
      BY <1>1, <1>7, <2>1, <3>1 DEF CookieOK
  <2> QED
    BY <1>1, <1>5, <1>6, <2>1 DEF TabsStep
<1>10. access' \in [Cookies -> AccessRows]
  <2>1. ASSUME NEW b \in Cookies
        PROVE  access'[b] \in AccessRows
    BY <1>1, <1>3, <1>4, <1>5, <1>6
  <2>2. access' = [b \in Cookies |-> access'[b]]
    OBVIOUS
  <2> QED
    BY <2>1, <2>2
<1>11. \A b \in drawn : access'[b] \in {access[b], NoAccess}
  BY <1>1, <1>5
<1> QED
  BY <1>1, <1>8, <1>9, <1>10, <1>11 DEF SessionsMove

LEMMA LogoutMoves ==
  ASSUME TypeOK, SessionRules, UNCHANGED <<now, scenario, drawn>>,
         NEW a \in Cookies, access[a] # NoAccess,
         session' = [session EXCEPT ![access[a].session].state = "gone"],
         access' = [b \in Cookies |->
           IF b \in TabsOf(access[a].session, a) THEN NoAccess ELSE access[b]]
  PROVE  SessionsMove
<1> DEFINE s == access[a].session
<1>1. /\ session \in [Sessions -> SessionRows] /\ access \in [Cookies -> AccessRows]
      /\ drawn \subseteq Cookies /\ drawn' = drawn
  BY DEF TypeOK, SessionRows, AccessRows
<1>2. s \in Sessions /\ session[s].state = "live"
  BY DEF SessionRules, CookieOK
<1>3. /\ session' \in [Sessions -> SessionRows] /\ session'[s].state = "gone"
      /\ session'[s].user = session[s].user /\ session'[s].expires = session[s].expires
      /\ \A t \in Sessions \ {s} : session'[t] = session[t]
  BY <1>1, <1>2 DEF SessionRows
<1>4. NoAccess \in AccessRows
  BY DEF NoAccess, AccessRows
<1>5. ASSUME NEW b \in Cookies
      PROVE  access'[b] = IF access[b].session = s THEN NoAccess ELSE access[b]
  BY DEF TabsOf
<1>6. access' \in [Cookies -> AccessRows]
  BY <1>1, <1>4
<1> HIDE DEF s
<1>7. ASSUME NEW b \in Cookies
      PROVE  CookieOK(b)'
  <2>1. SUFFICES ASSUME access'[b] # NoAccess
                 PROVE  CookieOK(b)'
    BY DEF CookieOK
  <2>2. access'[b] = access[b] /\ access[b].session # s
    BY <1>5, <2>1
  <2>3. /\ b \in drawn /\ access[b].session \in Sessions
        /\ session[access[b].session].state = "live"
        /\ access[b].expires <= session[access[b].session].expires
    BY <2>1, <2>2 DEF CookieOK, SessionRules
  <2>4. session'[access[b].session] = session[access[b].session]
    BY <1>3, <2>2, <2>3
  <2> QED
    BY <1>1, <2>2, <2>3, <2>4 DEF CookieOK
<1>8. ASSUME NEW t \in Sessions
      PROVE  SessionOK(t)'
  BY <1>1, <1>2, <1>3 DEF SessionOK, SessionRules
<1>9. SessionRules'
  BY <1>7, <1>8 DEF SessionRules
<1>10. TabsStep
  <2>1. ASSUME NEW t \in Sessions, NEW b \in Cookies, session[t].state = "live",
               access'[b].session = t
        PROVE  access'[b].expires <= session[t].expires
    <3>1. access'[b] # NoAccess
      BY <2>1, AccountsAssumption DEF NoAccess
    <3> QED
      BY <1>5, <2>1, <3>1 DEF CookieOK, SessionRules
  <2>2. ASSUME NEW t \in Sessions
        PROVE  session'[t].expires = session[t].expires /\ session'[t].user = session[t].user
    BY <1>3
  <2> QED
    BY <1>3, <1>5, <2>1, <2>2 DEF TabsStep
<1>11. \A t \in Sessions : session'[t].user = session[t].user
  BY <1>3
<1>12. \A b \in drawn : access'[b] \in {access[b], NoAccess}
  BY <1>1, <1>5
<1> QED
  BY <1>1, <1>3, <1>6, <1>9, <1>10, <1>11, <1>12 DEF SessionsMove
-----------------------------------------------------------------------------
\* A step of one request

(* The request moves to r or ends; it takes and gives up locks of its own. *)
Stepped(h, r) ==
  /\ handler' = [handler EXCEPT ![h] = r]
  /\ nameLock' \in [Names -> Handlers \cup {None}]
  /\ userLock' \in [Names -> Handlers \cup {None}]
  /\ sessionLock' \in [Sessions -> Handlers \cup {None}]
  /\ \A n \in Names : nameLock[n] \in Handlers \ {h} => nameLock'[n] = nameLock[n]
  /\ changing' \in {changing, h, None} /\ (changing \in Handlers \ {h} => changing' = changing)
  /\ booting' \in {booting, h, None} /\ (booting \in Handlers \ {h} => booting' = booting)
  /\ scenario' = scenario /\ now' = now /\ requests' \in 0..scenario.requests

(* An account is inserted by who has its name, the configured admin by a   *)
(* starting replica only, and one is disabled by a change of its own.      *)
UsersMove(h) ==
  /\ role' \in [Names -> {"none", "user", "admin"}] /\ enabled' \in [Names -> BOOLEAN]
  /\ \A n \in Names : role'[n] # role[n] =>
       /\ role[n] = "none" /\ Inserting(handler[h]) /\ handler[h].name = n
       /\ role'[n] = "admin" => handler[h].op = "bootstrap"
  /\ \A n \in Names : enabled[n] => enabled'[n] \/ handler[h].pc = "write"

(* What the others know stays true.                                        *)
LEMMA OthersKeep ==
  ASSUME IInv, NEW h \in Handlers, NEW r, Stepped(h, r), UsersMove(h), SessionsMove,
         NEW g \in Handlers, g # h
  PROVE  /\ handler'[g] = handler[g] /\ WellFormed(handler'[g])
         /\ Inserting(handler[g]) => nameLock'[handler[g].name] = g
         /\ handler[g].pc \in Changing => changing' = g
         /\ Booting(handler[g]) => booting' = g
         /\ changing' = g => handler[g].op = "enable"
         /\ booting' = g => handler[g].op = "bootstrap"
         /\ Decided(handler[g])'
<1>1. /\ handler'[g] = handler[g] /\ WellFormed(handler[g]) /\ WellFormed(handler[h])
  BY DEF IInv, TypeOK, Stepped, Requests
<1>2. /\ Inserting(handler[g]) => nameLock[handler[g].name] = g
      /\ Inserting(handler[h]) => nameLock[handler[h].name] = h
      /\ handler[g].pc \in Changing => changing = g
      /\ handler[h].pc \in Changing => changing = h
      /\ Booting(handler[g]) => booting = g
      /\ Booting(handler[h]) => booting = h
      /\ changing = g => handler[g].op = "enable"
      /\ booting = g => handler[g].op = "bootstrap"
  BY DEF IInv, Locks
<1>3. /\ Inserting(handler[g]) => handler[g].name \in Names
      /\ handler[g].pc \in Changing => handler[g].op = "enable"
      /\ handler[g].op = "enable" => handler[g].pc = "idle" \/ handler[g].cookie \in Cookies
      /\ handler[g].op = "enable" /\ handler[g].pc # "idle" =>
           handler[g].name \in Names /\ handler[g].actor \in Names
  BY <1>1, AccountsAssumption DEF WellFormed, Inserting, Changing
<1>4. None \notin Handlers
  BY AccountsAssumption
<1>5. /\ Inserting(handler[g]) => nameLock'[handler[g].name] = g
      /\ handler[g].pc \in Changing => changing' = g
      /\ Booting(handler[g]) => booting' = g
      /\ changing' = g => handler[g].op = "enable"
      /\ booting' = g => handler[g].op = "bootstrap"
  BY <1>2, <1>3, <1>4 DEF Stepped
<1>6. ASSUME NEW n \in Names, role[n] # "none"
      PROVE  role'[n] = role[n]
  BY <1>6 DEF UsersMove
<1>7. Decided(handler[g])
  BY DEF IInv, Decisions
<1>8. Inserting(handler[g]) => role'[handler[g].name] = "none"
  BY <1>2, <1>3, <1>7 DEF UsersMove, Decided
<1>9. handler[g].op = "bootstrap" /\ handler[g].pc \in {"insert", "commit"} => role'[Root] # "admin"
  BY <1>2, <1>7, AccountsAssumption DEF UsersMove, Decided, Booting, Inserting
<1>10. ASSUME handler[g].op = "enable"
       PROVE  /\ handler[g].cookie \in drawn' /\ role'[handler[g].name] # "none"
              /\ access'[handler[g].cookie] # NoAccess =>
                   UserOf(handler[g].cookie)' = handler[g].actor
  <2> DEFINE c == handler[g].cookie
  <2>1. handler[g].pc # "idle"
    BY <1>1, <1>10, AccountsAssumption DEF WellFormed, Free, Kinds
  <2>2. c \in drawn /\ c \in Cookies /\ handler[g].name \in Names /\ role[handler[g].name] # "none"
        /\ (access[c] # NoAccess => UserOf(c) = handler[g].actor)
    BY <1>3, <1>7, <1>10, <2>1 DEF Decided
  <2>3. ASSUME access'[c] # NoAccess
        PROVE  UserOf(c)' = handler[g].actor
    <3>1. access'[c] = access[c] /\ access[c] # NoAccess
      BY <2>2, <2>3 DEF SessionsMove
    <3>2. access[c].session \in Sessions /\ session[access[c].session].state = "live"
      BY <2>2, <3>1 DEF IInv, SessionRules, CookieOK
    <3>3. session'[access[c].session].user = session[access[c].session].user
      BY <3>2 DEF SessionsMove
    <3> QED
      BY <1>1, <2>2, <3>1, <3>3 DEF UserOf
  <2> QED
    BY <1>6, <2>2, <2>3 DEF SessionsMove
<1>11. handler[g].pc \in Changing => handler[h].pc # "write"
  BY <1>2 DEF Changing
<1>12. ASSUME handler[g].pc \in {"recheck", "write"}
       PROVE  LeavesAdmin(handler[g])'
  <2>1. LeavesAdmin(handler[g]) /\ handler[g].pc \in Changing /\ handler[g].name \in Names
        /\ role[handler[g].name] # "none"
    BY <1>3, <1>7, <1>12 DEF Decided, Changing
  <2>2. role'[handler[g].name] = role[handler[g].name]
    BY <1>6, <2>1
  <2>3. ASSUME NEW m \in Names, role[m] = "admin", enabled[m]
        PROVE  role'[m] = "admin" /\ enabled'[m]
    BY <1>6, <1>11, <2>1, <2>3 DEF UsersMove
  <2>4. CASE handler[g].enable \/ role[handler[g].name] # "admin"
    BY <1>1, <2>2, <2>4 DEF LeavesAdmin
  <2>5. CASE \E m \in Names \ {handler[g].name} : role[m] = "admin" /\ enabled[m]
    BY <1>1, <2>3, <2>5 DEF LeavesAdmin
  <2> QED
    BY <2>1, <2>4, <2>5 DEF LeavesAdmin
<1>13. handler[g].pc = "write" => enabled'[handler[g].actor] /\ role'[handler[g].actor] = "admin"
  BY <1>3, <1>6, <1>7, <1>11 DEF UsersMove, Decided, Changing
<1>14. Decided(handler[g])'
  BY <1>1, <1>8, <1>9, <1>10, <1>12, <1>13 DEF Decided
<1> QED
  BY <1>1, <1>5, <1>14

LEMMA AdminKept ==
  ASSUME IInv, NEW h \in Handlers, UsersMove(h), handler[h].pc # "write", scenario' = scenario
  PROVE  AdminRemains'
<1>1. ASSUME NEW n \in Names, role[n] = "admin", enabled[n]
      PROVE  role'[n] = "admin" /\ enabled'[n]
  BY <1>1 DEF UsersMove
<1> QED
  BY <1>1 DEF IInv, Rows, AdminRemains

(* What the request itself has to know at its next step.                   *)
Knows(h, r) ==
  /\ r \in RequestRecords /\ WellFormed(r)
  /\ Inserting(r) => nameLock'[r.name] = h
  /\ r.pc \in Changing => changing' = h
  /\ Booting(r) => booting' = h
  /\ changing' = h => r.op = "enable"
  /\ booting' = h => r.op = "bootstrap"

(* A step whose request ends may have written rows; another one has not.   *)
LEMMA StepKeeps ==
  ASSUME IInv, NEW h \in Handlers, NEW r, Stepped(h, r), Knows(h, r),
         UsersMove(h), SessionsMove, started' \subseteq [outcome : {"ok", "error"},
                                                          was : {"none", "user", "admin"}],
         r = Free \/ (UNCHANGED <<users, sessions>> /\ Decided(r)),
         AdminRemains', BootstrapAgrees'
  PROVE  IInv'
<1>1. /\ handler \in [Handlers -> RequestRecords] /\ handler'[h] = r
      /\ handler' \in [Handlers -> RequestRecords]
  BY DEF IInv, TypeOK, RequestRecords, Phases, Stepped, Knows
<1>2. ASSUME NEW g \in Handlers, g # h
      PROVE  /\ handler'[g] = handler[g] /\ WellFormed(handler'[g])
             /\ Inserting(handler[g]) => nameLock'[handler[g].name] = g
             /\ handler[g].pc \in Changing => changing' = g
             /\ Booting(handler[g]) => booting' = g
             /\ changing' = g => handler[g].op = "enable"
             /\ booting' = g => handler[g].op = "bootstrap"
             /\ Decided(handler[g])'
  BY <1>2, OthersKeep
<1>3. Requests'
  BY <1>1, <1>2 DEF Requests, Knows, WellFormed, Free
<1>4. Locks'
  BY <1>1, <1>2 DEF Locks, Knows, Inserting, Booting
<1>5. Decided(handler[h])'
  <2>1. CASE r = Free
    BY <1>1, <2>1, AccountsAssumption DEF Free, Decided, Inserting, Kinds
  <2>2. CASE UNCHANGED <<users, sessions>> /\ Decided(r)
    BY <1>1, <2>2 DEF users, sessions, Decided, LeavesAdmin, UserOf
  <2> QED
    BY <2>1, <2>2
<1>6. Decisions'
  BY <1>2, <1>5 DEF Decisions
<1>7. TypeOK'
  <2>1. scenario \in Scenarios /\ now \in 0..scenario.time
        /\ changing \in Handlers \cup {None} /\ booting \in Handlers \cup {None}
    BY DEF IInv, TypeOK
  <2>2. /\ scenario' \in Scenarios /\ now' \in 0..scenario'.time
        /\ requests' \in 0..scenario'.requests
        /\ changing' \in Handlers \cup {None} /\ booting' \in Handlers \cup {None}
    BY <2>1 DEF Stepped
  <2>3. ASSUME NEW g \in {changing', booting'} \ {None}
        PROVE  handler'[g].op \in {"enable", "bootstrap"}
    BY <1>4, <2>2, <2>3 DEF Locks
  <2> QED
    BY <1>1, <2>2, <2>3 DEF TypeOK, Stepped, UsersMove, SessionsMove, SessionRows, AccessRows,
       RequestRecords, Phases
<1>8. SessionRules'
  BY DEF SessionsMove
<1> QED
  BY <1>3, <1>4, <1>6, <1>7, <1>8 DEF IInv, Rows

-----------------------------------------------------------------------------
\* The kinds of step

LEMMA FreeIsFree ==
  /\ Free \in RequestRecords /\ WellFormed(Free) /\ Free.pc = "idle"
  /\ ~Inserting(Free) /\ ~Booting(Free) /\ Free.pc \notin Changing
  BY AccountsAssumption DEF Free, RequestRecords, WellFormed, Inserting, Booting, Changing, Phases,
     Kinds

LEMMA EndSteps ==
  ASSUME IInv, NEW h \in Handlers, End(h), Stays
  PROVE  Stepped(h, Free) /\ Knows(h, Free)
<1>1. /\ nameLock \in [Names -> Handlers \cup {None}] /\ userLock \in [Names -> Handlers \cup {None}]
      /\ sessionLock \in [Sessions -> Handlers \cup {None}]
      /\ changing \in Handlers \cup {None} /\ booting \in Handlers \cup {None}
      /\ requests \in 0..scenario.requests
  BY DEF IInv, TypeOK
<1>2. /\ nameLock' \in [Names -> Handlers \cup {None}]
      /\ userLock' \in [Names -> Handlers \cup {None}]
      /\ sessionLock' \in [Sessions -> Handlers \cup {None}]
      /\ \A n \in Names : nameLock[n] \in Handlers \ {h} => nameLock'[n] = nameLock[n]
  BY <1>1 DEF End, Released
<1>3. /\ changing' \in {changing, h, None} /\ (changing \in Handlers \ {h} => changing' = changing)
      /\ booting' \in {booting, h, None} /\ (booting \in Handlers \ {h} => booting' = booting)
      /\ changing' # h /\ booting' # h
  BY <1>1, AccountsAssumption DEF End, Freed
<1> QED
  BY <1>1, <1>2, <1>3, FreeIsFree DEF Stepped, Knows, End, Stays

LEMMA UsersUnchanged ==
  ASSUME IInv, NEW h \in Handlers, UNCHANGED users
  PROVE  UsersMove(h)
  BY DEF IInv, TypeOK, users, UsersMove

(* A refusal, and an abort, write nothing.                                 *)
LEMMA RefuseKeeps ==
  ASSUME IInv, NEW h \in Handlers, Refuse(h), Stays
  PROVE  IInv' /\ SessionsMove /\ enabled' = enabled
<1>1. End(h) /\ UNCHANGED users /\ UNCHANGED sessions /\ UNCHANGED started
      /\ role' = role /\ enabled' = enabled /\ scenario' = scenario
  BY DEF Refuse, users, Stays
<1>2. UsersMove(h) /\ SessionsMove
  BY <1>1, UsersUnchanged, SessionsUnchanged DEF IInv
<1>3. AdminRemains' /\ BootstrapAgrees'
  BY <1>1 DEF IInv, Rows, AdminRemains, BootstrapAgrees
<1>4. started' \subseteq [outcome : {"ok", "error"}, was : {"none", "user", "admin"}]
  BY <1>1 DEF IInv, TypeOK
<1>5. Stepped(h, Free) /\ Knows(h, Free)
  BY <1>1, EndSteps
<1>6. IInv'
  BY <1>2, <1>3, <1>4, <1>5, StepKeeps
<1> QED
  BY <1>1, <1>2, <1>6

(* So does a step to the next statement, which may take a lock.            *)
LEMMA GotoKeeps ==
  ASSUME IInv, NEW h \in Handlers, NEW r, Stepped(h, r), Knows(h, r), Decided(r), Waits
  PROVE  IInv' /\ SessionsMove /\ enabled' = enabled
<1>1. UNCHANGED users /\ UNCHANGED sessions /\ UNCHANGED started
      /\ role' = role /\ enabled' = enabled /\ scenario' = scenario
  BY DEF Waits, users, Stepped
<1>2. UsersMove(h) /\ SessionsMove
  BY <1>1, UsersUnchanged, SessionsUnchanged DEF IInv
<1>3. AdminRemains' /\ BootstrapAgrees'
  BY <1>1 DEF IInv, Rows, AdminRemains, BootstrapAgrees
<1>4. started' \subseteq [outcome : {"ok", "error"}, was : {"none", "user", "admin"}]
  BY <1>1 DEF IInv, TypeOK
<1> QED
  BY <1>1, <1>2, <1>3, <1>4, StepKeeps

(* Who changes an account is an enabled admin at the commit.               *)
ChangedStep ==
  \A h \in Handlers :
    enabled' # enabled /\ handler[h].op = "enable" /\ handler'[h].pc = "idle"
      => enabled[handler[h].actor] /\ role[handler[h].actor] = "admin"

Keeps == IInv' /\ TabsStep /\ ChangedStep

LEMMA NothingChanged ==
  ASSUME IInv', SessionsMove, enabled' = enabled
  PROVE  Keeps
  BY DEF Keeps, SessionsMove, ChangedStep

(* A step that keeps the locks, and what it knows of them.                 *)
LEMMA LocksUnchanged ==
  ASSUME IInv, NEW h \in Handlers, NEW r \in RequestRecords, WellFormed(r),
         handler' = [handler EXCEPT ![h] = r], UNCHANGED locks, UNCHANGED <<now, scenario>>,
         requests' \in 0..scenario.requests,
         Inserting(r) => nameLock[r.name] = h,
         r.pc \in Changing => changing = h,
         Booting(r) => booting = h,
         r.op = handler[h].op \/ handler[h].pc = "idle"
  PROVE  Stepped(h, r) /\ Knows(h, r)
<1>1. /\ nameLock \in [Names -> Handlers \cup {None}] /\ userLock \in [Names -> Handlers \cup {None}]
      /\ sessionLock \in [Sessions -> Handlers \cup {None}]
      /\ nameLock' = nameLock /\ userLock' = userLock /\ sessionLock' = sessionLock
      /\ changing' = changing /\ booting' = booting
  BY DEF IInv, TypeOK, locks
<1>2. /\ changing = h => handler[h].op = "enable"
      /\ booting = h => handler[h].op = "bootstrap"
  BY DEF IInv, Locks
<1>3. handler[h].pc = "idle" => handler[h].op \notin Kinds
  BY AccountsAssumption DEF IInv, Requests, WellFormed, Free
<1>4. /\ changing = h => r.op = "enable"
      /\ booting = h => r.op = "bootstrap"
  BY <1>2, <1>3 DEF Kinds
<1> QED
  BY <1>1, <1>4 DEF Stepped, Knows

(* A request moves on to the statement pc.                                 *)
Advanced(h, pc) == [handler[h] EXCEPT !.pc = pc]

LEMMA Advances ==
  ASSUME IInv, NEW h \in Handlers, NEW pc \in Phases, Goto(h, pc)
  PROVE  /\ handler' = [handler EXCEPT ![h] = Advanced(h, pc)]
         /\ Advanced(h, pc) \in RequestRecords
         /\ Advanced(h, pc).pc = pc /\ Advanced(h, pc).op = handler[h].op
         /\ Advanced(h, pc).name = handler[h].name
         /\ Advanced(h, pc).cookie = handler[h].cookie
         /\ Advanced(h, pc).session = handler[h].session
         /\ Advanced(h, pc).actor = handler[h].actor
         /\ Advanced(h, pc).enable = handler[h].enable
<1>1. handler[h] \in RequestRecords
  BY DEF IInv, TypeOK, RequestRecords, Phases
<1> QED
  BY <1>1 DEF Goto, Advanced, RequestRecords

-----------------------------------------------------------------------------
\* One lemma per operation

LEMMA ServeKeeps ==
  ASSUME IInv, NEW h \in Handlers, NEW r \in RequestRecords, WellFormed(r), Decided(r),
         r.pc \notin Changing, ~Inserting(r), ~Booting(r),
         handler[h].pc = "idle", requests < scenario.requests, requests' = requests + 1,
         handler' = [handler EXCEPT ![h] = r],
         UNCHANGED <<now, users, sessions, locks, started, scenario>>
  PROVE  Keeps
<1>1. requests' \in 0..scenario.requests
  BY ScenarioType DEF IInv, TypeOK
<1>2. Stepped(h, r) /\ Knows(h, r)
  BY <1>1, LocksUnchanged
<1>3. Waits
  BY DEF Waits
<1>4. IInv' /\ SessionsMove /\ enabled' = enabled
  BY <1>2, <1>3, GotoKeeps
<1> QED
  BY <1>4, NothingChanged

LEMMA RequestKeeps ==
  ASSUME IInv, NEW h \in Handlers, Request(h)
  PROVE  Keeps
<1> USE DEF Serve
<1> DEFINE R(op, pc, n, a, s, actor, e) ==
      [pc |-> pc, op |-> op, name |-> n, cookie |-> a, session |-> s, actor |-> actor,
       enable |-> e]
<1>1. CASE \E n \in Names : Serve(h, "register", "insert", n, None, None, None, FALSE)
  <2>1. PICK n \in Names : Serve(h, "register", "insert", n, None, None, None, FALSE)
    BY <1>1
  <2> DEFINE r == R("register", "insert", n, None, None, None, FALSE)
  <2>2. r \in RequestRecords /\ WellFormed(r) /\ Decided(r)
        /\ r.pc \notin Changing /\ ~Inserting(r) /\ ~Booting(r)
    BY DEF RequestRecords, Phases, Kinds, WellFormed, Decided, Changing, Inserting, Booting
  <2> HIDE DEF r
  <2> QED
    BY <2>1, <2>2, ServeKeeps DEF r
<1>2. CASE \E n \in Names :
             role[n] # "none" /\ enabled[n] /\ Serve(h, "login", "open", n, None, None, None, FALSE)
  <2>1. PICK n \in Names : Serve(h, "login", "open", n, None, None, None, FALSE)
    BY <1>2
  <2> DEFINE r == R("login", "open", n, None, None, None, FALSE)
  <2>2. r \in RequestRecords /\ WellFormed(r) /\ Decided(r)
        /\ r.pc \notin Changing /\ ~Inserting(r) /\ ~Booting(r)
    BY DEF RequestRecords, Phases, Kinds, WellFormed, Decided, Changing, Inserting, Booting
  <2> HIDE DEF r
  <2> QED
    BY <2>1, <2>2, ServeKeeps DEF r
<1>3. CASE \E s \in Sessions :
             session[s].state # "unused" /\ Serve(h, "refresh", "lock", None, None, s, None, FALSE)
  <2>1. PICK s \in Sessions : Serve(h, "refresh", "lock", None, None, s, None, FALSE)
    BY <1>3
  <2> DEFINE r == R("refresh", "lock", None, None, s, None, FALSE)
  <2>2. r \in RequestRecords /\ WellFormed(r) /\ Decided(r)
        /\ r.pc \notin Changing /\ ~Inserting(r) /\ ~Booting(r)
    BY DEF RequestRecords, Phases, Kinds, WellFormed, Decided, Changing, Inserting, Booting
  <2> HIDE DEF r
  <2> QED
    BY <2>1, <2>2, ServeKeeps DEF r
<1>4. CASE \E a \in Cookies :
             access[a] # NoAccess /\ Serve(h, "logout", "delete", None, a, None, None, FALSE)
  <2>1. PICK a \in Cookies : Serve(h, "logout", "delete", None, a, None, None, FALSE)
    BY <1>4
  <2> DEFINE r == R("logout", "delete", None, a, None, None, FALSE)
  <2>2. r \in RequestRecords /\ WellFormed(r) /\ Decided(r)
        /\ r.pc \notin Changing /\ ~Inserting(r) /\ ~Booting(r)
    BY DEF RequestRecords, Phases, Kinds, WellFormed, Decided, Changing, Inserting, Booting
  <2> HIDE DEF r
  <2> QED
    BY <2>1, <2>2, ServeKeeps DEF r
<1>5. CASE \E a \in Cookies, n \in Names, e \in BOOLEAN :
             /\ IsAdmin(a) /\ role[n] # "none" /\ (n = UserOf(a) => e)
             /\ Serve(h, "enable", "advise", n, a, None, UserOf(a), e)
  <2>1. PICK a \in Cookies, n \in Names, e \in BOOLEAN :
             /\ IsAdmin(a) /\ role[n] # "none"
             /\ Serve(h, "enable", "advise", n, a, None, UserOf(a), e)
    BY <1>5
  <2> DEFINE r == R("enable", "advise", n, a, None, UserOf(a), e)
  <2>2. a \in drawn /\ UserOf(a) \in Names
    BY <2>1 DEF IsAdmin, Authenticates, UserOf, IInv, SessionRules, CookieOK, SessionOK
  <2>3. r \in RequestRecords /\ WellFormed(r) /\ Decided(r)
        /\ r.pc \notin Changing /\ ~Inserting(r) /\ ~Booting(r)
    BY <2>1, <2>2 DEF RequestRecords, Phases, Kinds, WellFormed, Decided, Changing, Inserting, Booting
  <2> HIDE DEF r
  <2> QED
    BY <2>1, <2>3, ServeKeeps DEF r
<1>6. CASE Serve(h, "bootstrap", "boot", Root, None, None, None, FALSE)
  <2> DEFINE r == R("bootstrap", "boot", Root, None, None, None, FALSE)
  <2>1. r \in RequestRecords /\ WellFormed(r) /\ Decided(r)
        /\ r.pc \notin Changing /\ ~Inserting(r) /\ ~Booting(r)
    BY AccountsAssumption
       DEF RequestRecords, Phases, Kinds, WellFormed, Decided, Changing, Inserting, Booting
  <2> HIDE DEF r
  <2> QED
    BY <1>6, <2>1, ServeKeeps DEF r
<1> QED
  BY <1>1, <1>2, <1>3, <1>4, <1>5, <1>6 DEF Request

LEMMA AbortKeeps ==
  ASSUME IInv, NEW h \in Handlers, Refuse(h), Stays
  PROVE  Keeps
  BY RefuseKeeps, NothingChanged

(* A commit ends the request; nobody else's ends with it.                  *)
LEMMA CommitKeeps ==
  ASSUME IInv, NEW h \in Handlers, End(h), Stays, UsersMove(h), SessionsMove,
         started' \subseteq [outcome : {"ok", "error"}, was : {"none", "user", "admin"}],
         AdminRemains', BootstrapAgrees',
         handler[h].op # "enable" \/ handler[h].pc = "write" \/ enabled' = enabled
  PROVE  Keeps
<1>1. Stepped(h, Free) /\ Knows(h, Free)
  BY EndSteps
<1>2. IInv'
  BY <1>1, StepKeeps
<1>3. ASSUME NEW g \in Handlers, enabled' # enabled, handler[g].op = "enable",
             handler'[g].pc = "idle"
      PROVE  enabled[handler[g].actor] /\ role[handler[g].actor] = "admin"
  <2>1. g = h
    <3>1. ASSUME g # h
          PROVE  handler'[g] = handler[g] /\ handler[g] = Free
      BY <1>3, <3>1 DEF End, IInv, TypeOK, Requests, WellFormed
    <3> QED
      BY <1>3, <3>1, AccountsAssumption DEF Free, Kinds
  <2> QED
    BY <1>3, <2>1 DEF IInv, Decisions, Decided
<1> QED
  BY <1>2, <1>3 DEF Keeps, ChangedStep, SessionsMove

(* To insert a username is to lock it, as long as nobody has it.           *)
LEMMA InsertKeeps ==
  ASSUME IInv, NEW h \in Handlers, NEW n \in Names, handler[h].name = n,
         handler[h].pc = "insert", handler[h].op \in {"register", "bootstrap"},
         role[n] = "none", nameLock' = [nameLock EXCEPT ![n] = h], nameLock[n] = None,
         Goto(h, "commit"), Waits, UNCHANGED <<userLock, sessionLock, changing, booting>>, Stays
  PROVE  Keeps
<1> DEFINE r == Advanced(h, "commit")
<1>1. /\ handler' = [handler EXCEPT ![h] = r] /\ r \in RequestRecords
      /\ r.pc = "commit" /\ r.op = handler[h].op /\ r.name = n
  BY Advances DEF Phases
<1> HIDE DEF r
<1>2. WellFormed(handler[h])
  BY DEF IInv, Requests
<1>3. WellFormed(r)
  BY <1>1, <1>2 DEF WellFormed
<1>4. /\ nameLock' \in [Names -> Handlers \cup {None}] /\ nameLock'[n] = h
      /\ userLock' \in [Names -> Handlers \cup {None}]
      /\ sessionLock' \in [Sessions -> Handlers \cup {None}]
      /\ changing' = changing /\ booting' = booting
      /\ \A m \in Names : nameLock[m] \in Handlers => nameLock'[m] = nameLock[m]
      /\ requests' \in 0..scenario.requests /\ scenario' = scenario /\ now' = now
  BY AccountsAssumption DEF IInv, TypeOK, Stays
<1>5. Stepped(h, r)
  BY <1>1, <1>4 DEF Stepped
<1>6. Knows(h, r)
  <2>1. /\ changing = h => handler[h].op = "enable"
        /\ booting = h => handler[h].op = "bootstrap"
        /\ Booting(handler[h]) => booting = h
    BY DEF IInv, Locks
  <2> QED
    BY <1>1, <1>3, <1>4, <2>1 DEF Knows, Inserting, Changing, Booting
<1>7. Decided(r)
  <2>1. handler[h].op = "bootstrap" => role[Root] # "admin"
    BY DEF IInv, Decisions, Decided
  <2> QED
    BY <1>1, <2>1 DEF Decided
<1> QED
  BY <1>5, <1>6, <1>7, GotoKeeps, NothingChanged

LEMMA RegisterKeeps ==
  ASSUME IInv, NEW h \in Handlers, NEW s \in Sessions, NEW a \in Cookies, Register(h, s, a)
  PROVE  Keeps
<1> DEFINE n == handler[h].name
<1>1. handler[h].op = "register" /\ Stays
  BY DEF Register
<1>2. WellFormed(handler[h])
  BY DEF IInv, Requests
<1>3. n \in Names
  BY <1>1, <1>2, AccountsAssumption DEF WellFormed, Free, Kinds
<1>4. CASE handler[h].pc = "insert"
  <2>1. CASE Refuse(h)
    BY <1>1, <2>1, AbortKeeps
  <2>2. CASE ~Refuse(h)
    BY <1>1, <1>3, <1>4, <2>2, InsertKeeps DEF Register
  <2> QED
    BY <2>1, <2>2
<1>5. CASE handler[h].pc = "commit"
  <2>1. /\ role' = [role EXCEPT ![n] = "user"] /\ enabled' = [enabled EXCEPT ![n] = TRUE]
        /\ Open(s, a, n) /\ End(h) /\ started' = started
    BY <1>5 DEF Register
  <2>2. role[n] = "none"
    BY <1>1, <1>5 DEF IInv, Decisions, Decided, Inserting
  <2>3. UsersMove(h)
    BY <1>1, <1>3, <1>5, <2>1, <2>2 DEF IInv, TypeOK, UsersMove, Inserting
  <2>4. SessionsMove
    BY <1>1, <1>3, <2>1, OpenMoves DEF IInv, Stays
  <2>5. AdminRemains'
    BY <1>1, <1>5, <2>3, AdminKept DEF Stays
  <2>6. BootstrapAgrees' /\ started' \subseteq [outcome : {"ok", "error"}, was : {"none", "user", "admin"}]
    BY <2>1 DEF IInv, TypeOK, Rows, BootstrapAgrees
  <2> QED
    BY <1>1, <2>1, <2>3, <2>4, <2>5, <2>6, CommitKeeps
<1> QED
  BY <1>4, <1>5 DEF Register

LEMMA LoginKeeps ==
  ASSUME IInv, NEW h \in Handlers, NEW s \in Sessions, NEW a \in Cookies, Login(h, s, a)
  PROVE  Keeps
<1> DEFINE n == handler[h].name
<1>1. handler[h].op = "login" /\ Stays /\ WellFormed(handler[h])
  BY DEF Login, IInv, Requests
<1>2. n \in Names
  BY <1>1, AccountsAssumption DEF WellFormed, Free, Kinds
<1>3. CASE handler[h].pc = "open"
  <2>1. Goto(h, "commit") /\ Waits /\ UNCHANGED locks
    BY <1>3 DEF Login
  <2> DEFINE r == Advanced(h, "commit")
  <2>2. /\ handler' = [handler EXCEPT ![h] = r] /\ r \in RequestRecords
        /\ r.pc = "commit" /\ r.op = "login" /\ r.name = n
    BY <1>1, <2>1, Advances DEF Phases
  <2> HIDE DEF r
  <2>3. WellFormed(r) /\ Decided(r) /\ ~Inserting(r) /\ ~Booting(r) /\ r.pc \notin Changing
    BY <1>2, <2>2 DEF WellFormed, Decided, Inserting, Booting, Changing
  <2>4. requests' \in 0..scenario.requests /\ UNCHANGED <<now, scenario>>
    BY <1>1 DEF IInv, TypeOK, Stays
  <2>5. Stepped(h, r) /\ Knows(h, r)
    BY <1>1, <2>1, <2>2, <2>3, <2>4, LocksUnchanged
  <2> QED
    BY <2>1, <2>3, <2>5, GotoKeeps, NothingChanged
<1>4. CASE handler[h].pc = "commit"
  <2>1. Open(s, a, n) /\ End(h) /\ UNCHANGED users /\ started' = started
        /\ enabled' = enabled /\ scenario' = scenario
    BY <1>1, <1>4 DEF Login, users, Stays
  <2>2. UsersMove(h) /\ SessionsMove
    BY <1>1, <1>2, <2>1, UsersUnchanged, OpenMoves DEF IInv, Stays
  <2>3. AdminRemains'
    BY <1>4, <2>1, <2>2, AdminKept
  <2>4. BootstrapAgrees' /\ started' \subseteq [outcome : {"ok", "error"}, was : {"none", "user", "admin"}]
    BY <2>1 DEF IInv, TypeOK, Rows, BootstrapAgrees
  <2> QED
    BY <1>1, <2>1, <2>2, <2>3, <2>4, CommitKeeps
<1> QED
  BY <1>3, <1>4 DEF Login

(* A step that locks a row of a user or a session, and no other.           *)
LEMMA LockRowKeeps ==
  ASSUME IInv, NEW h \in Handlers, NEW r \in RequestRecords, WellFormed(r), Decided(r),
         handler' = [handler EXCEPT ![h] = r], r.op = handler[h].op,
         userLock' \in [Names -> Handlers \cup {None}],
         sessionLock' \in [Sessions -> Handlers \cup {None}],
         UNCHANGED <<nameLock, changing, booting>>, Waits, Stays,
         ~Inserting(r), ~Booting(r), r.pc \in Changing => changing = h
  PROVE  Keeps
<1>1. /\ changing = h => handler[h].op = "enable"
      /\ booting = h => handler[h].op = "bootstrap"
      /\ nameLock \in [Names -> Handlers \cup {None}] /\ requests \in 0..scenario.requests
  BY DEF IInv, Locks, TypeOK
<1>2. Stepped(h, r) /\ Knows(h, r)
  BY <1>1 DEF Stepped, Knows, Stays
<1> QED
  BY <1>2, GotoKeeps, NothingChanged

LEMMA LockSessionKeeps ==
  ASSUME IInv, NEW h \in Handlers, LockSession(h)
  PROVE  Keeps
<1> DEFINE s == handler[h].session
<1>1. handler[h].pc = "lock" /\ Stays /\ WellFormed(handler[h])
  BY DEF LockSession, IInv, Requests
<1>2. handler[h].op = "refresh" /\ s \in Sessions
  BY <1>1 DEF WellFormed, Changing
<1>3. CASE Refuse(h)
  BY <1>1, <1>3, AbortKeeps
<1>4. CASE ~Refuse(h)
  <2>1. /\ sessionLock' = [sessionLock EXCEPT ![s] = h] /\ Goto(h, "issue")
        /\ Waits /\ UNCHANGED <<nameLock, userLock, changing, booting>>
    BY <1>4 DEF LockSession
  <2> DEFINE r == Advanced(h, "issue")
  <2>2. /\ handler' = [handler EXCEPT ![h] = r] /\ r \in RequestRecords
        /\ r.pc = "issue" /\ r.op = "refresh" /\ r.session = s
    BY <1>2, <2>1, Advances DEF Phases
  <2> HIDE DEF r
  <2>3. WellFormed(r) /\ Decided(r) /\ ~Inserting(r) /\ ~Booting(r) /\ r.pc \notin Changing
    BY <1>2, <2>2 DEF WellFormed, Decided, Inserting, Booting, Changing
  <2>4. /\ userLock' \in [Names -> Handlers \cup {None}]
        /\ sessionLock' \in [Sessions -> Handlers \cup {None}]
    BY <1>2, <2>1 DEF IInv, TypeOK
  <2> QED
    BY <1>1, <1>2, <2>1, <2>2, <2>3, <2>4, LockRowKeeps
<1> QED
  BY <1>3, <1>4

LEMMA IssueAccessKeeps ==
  ASSUME IInv, NEW h \in Handlers, NEW a \in Cookies, IssueAccess(h, a)
  PROVE  Keeps
<1> DEFINE s == handler[h].session
<1>1. handler[h].pc = "issue" /\ Stays /\ WellFormed(handler[h])
  BY DEF IssueAccess, IInv, Requests
<1>2. handler[h].op = "refresh" /\ s \in Sessions
  BY <1>1 DEF WellFormed, Changing
<1>3. CASE Refuse(h)
  BY <1>1, <1>3, AbortKeeps
<1>4. CASE ~Refuse(h)
  <2>1. /\ SessionAlive(s) /\ a \notin drawn /\ drawn' = drawn \cup {a}
        /\ access' = [b \in Cookies |->
             IF b = a THEN [session |-> s, expires |-> AccessExpiry(session[s])]
             ELSE IF b \in StaleCookies(s) THEN NoAccess ELSE access[b]]
        /\ End(h) /\ UNCHANGED users /\ session' = session /\ started' = started
    BY <1>4 DEF IssueAccess
  <2>2. UNCHANGED <<now, scenario, session>> /\ session[s].state = "live"
    BY <1>1, <2>1 DEF Stays, SessionAlive
  <2>3. SessionsMove
    BY <1>2, <2>1, <2>2, IssueMoves DEF IInv
  <2>4. UsersMove(h) /\ enabled' = enabled
    BY <2>1, UsersUnchanged DEF users
  <2>5. AdminRemains'
    BY <1>1, <2>2, <2>4, AdminKept
  <2>6. BootstrapAgrees' /\ started' \subseteq [outcome : {"ok", "error"}, was : {"none", "user", "admin"}]
    BY <2>1 DEF IInv, TypeOK, Rows, BootstrapAgrees
  <2> QED
    BY <1>1, <2>1, <2>3, <2>4, <2>5, <2>6, CommitKeeps
<1> QED
  BY <1>3, <1>4

LEMMA LogoutKeeps ==
  ASSUME IInv, NEW h \in Handlers, Logout(h)
  PROVE  Keeps
<1> DEFINE a == handler[h].cookie
<1>1. handler[h].pc = "delete" /\ Stays /\ WellFormed(handler[h])
  BY DEF Logout, IInv, Requests
<1>2. handler[h].op = "logout" /\ a \in Cookies
  BY <1>1 DEF WellFormed, Changing
<1>3. CASE Refuse(h)
  BY <1>1, <1>3, AbortKeeps
<1>4. CASE ~Refuse(h)
  <2>1. /\ access[a] # NoAccess
        /\ session' = [session EXCEPT ![access[a].session].state = "gone"]
        /\ access' = [b \in Cookies |->
             IF b \in TabsOf(access[a].session, a) THEN NoAccess ELSE access[b]]
        /\ End(h) /\ UNCHANGED users /\ drawn' = drawn /\ started' = started
    BY <1>4 DEF Logout
  <2>2. UNCHANGED <<now, scenario, drawn>>
    BY <1>1, <2>1 DEF Stays
  <2>3. SessionsMove
    BY <1>2, <2>1, <2>2, LogoutMoves DEF IInv
  <2>4. UsersMove(h) /\ enabled' = enabled
    BY <2>1, UsersUnchanged DEF users
  <2>5. AdminRemains'
    BY <1>1, <2>2, <2>4, AdminKept
  <2>6. BootstrapAgrees' /\ started' \subseteq [outcome : {"ok", "error"}, was : {"none", "user", "admin"}]
    BY <2>1 DEF IInv, TypeOK, Rows, BootstrapAgrees
  <2> QED
    BY <1>1, <2>1, <2>3, <2>4, <2>5, <2>6, CommitKeeps
<1> QED
  BY <1>3, <1>4

LEMMA AdviseKeeps ==
  ASSUME IInv, NEW h \in Handlers, Advise(h)
  PROVE  Keeps
<1>1. /\ handler[h].pc = "advise" /\ Stays /\ WellFormed(handler[h]) /\ Decided(handler[h])
      /\ changing = None /\ changing' = h /\ Goto(h, "target") /\ Waits
      /\ UNCHANGED <<nameLock, userLock, sessionLock, booting>>
  BY DEF Advise, Serialised, IInv, Requests, Decisions
<1>2. /\ handler[h].op = "enable" /\ handler[h].name \in Names /\ handler[h].cookie \in Cookies
      /\ handler[h].actor \in Names
  BY <1>1 DEF WellFormed
<1> DEFINE r == Advanced(h, "target")
<1>3. /\ handler' = [handler EXCEPT ![h] = r] /\ r \in RequestRecords
      /\ r.pc = "target" /\ r.op = "enable" /\ r.name = handler[h].name
      /\ r.cookie = handler[h].cookie /\ r.actor = handler[h].actor
  BY <1>1, <1>2, Advances DEF Phases
<1> HIDE DEF r
<1>4. WellFormed(r) /\ Decided(r) /\ ~Inserting(r) /\ ~Booting(r)
  BY <1>1, <1>2, <1>3 DEF WellFormed, Decided, Inserting, Booting, Changing
<1>5. /\ nameLock \in [Names -> Handlers \cup {None}] /\ userLock \in [Names -> Handlers \cup {None}]
      /\ sessionLock \in [Sessions -> Handlers \cup {None}]
      /\ booting = h => handler[h].op = "bootstrap"
      /\ requests \in 0..scenario.requests
  BY DEF IInv, TypeOK, Locks
<1>6. Stepped(h, r) /\ Knows(h, r)
  BY <1>1, <1>2, <1>3, <1>4, <1>5, AccountsAssumption DEF Stepped, Knows, Stays
<1> QED
  BY <1>1, <1>4, <1>6, GotoKeeps, NothingChanged

LEMMA LockTargetKeeps ==
  ASSUME IInv, NEW h \in Handlers, LockTarget(h)
  PROVE  Keeps
<1>1. /\ handler[h].pc = "target" /\ Stays /\ WellFormed(handler[h]) /\ Decided(handler[h])
      /\ userLock' = [userLock EXCEPT ![handler[h].name] = h] /\ Goto(h, "confirm") /\ Waits
      /\ UNCHANGED <<nameLock, sessionLock, changing, booting>>
  BY DEF LockTarget, IInv, Requests, Decisions
<1>2. /\ handler[h].op = "enable" /\ handler[h].name \in Names /\ handler[h].cookie \in Cookies
      /\ handler[h].actor \in Names /\ changing = h
  BY <1>1 DEF WellFormed, IInv, Locks, Changing
<1> DEFINE r == Advanced(h, "confirm")
<1>3. /\ handler' = [handler EXCEPT ![h] = r] /\ r \in RequestRecords
      /\ r.pc = "confirm" /\ r.op = "enable" /\ r.name = handler[h].name
      /\ r.cookie = handler[h].cookie /\ r.actor = handler[h].actor
  BY <1>1, <1>2, Advances DEF Phases
<1> HIDE DEF r
<1>4. WellFormed(r) /\ Decided(r) /\ ~Inserting(r) /\ ~Booting(r)
  BY <1>1, <1>2, <1>3 DEF WellFormed, Decided, Inserting, Booting, Changing
<1>5. /\ userLock' \in [Names -> Handlers \cup {None}]
      /\ sessionLock' \in [Sessions -> Handlers \cup {None}]
  BY <1>1, <1>2 DEF IInv, TypeOK
<1> QED
  BY <1>1, <1>2, <1>3, <1>4, <1>5, LockRowKeeps

LEMMA ConfirmKeeps ==
  ASSUME IInv, NEW h \in Handlers, Confirm(h)
  PROVE  Keeps
<1>1. handler[h].pc = "confirm" /\ Stays /\ WellFormed(handler[h]) /\ Decided(handler[h])
  BY DEF Confirm, IInv, Requests, Decisions
<1>2. /\ handler[h].op = "enable" /\ handler[h].name \in Names /\ handler[h].cookie \in Cookies
      /\ handler[h].actor \in Names /\ changing = h
  BY <1>1 DEF WellFormed, IInv, Locks, Changing
<1>3. CASE Refuse(h)
  BY <1>1, <1>3, AbortKeeps
<1>4. CASE ~Refuse(h)
  <2>1. ~LastAdmin(h) /\ Goto(h, "recheck") /\ Waits /\ UNCHANGED locks
    BY <1>4 DEF Confirm
  <2> DEFINE r == Advanced(h, "recheck")
  <2>2. /\ handler' = [handler EXCEPT ![h] = r] /\ r \in RequestRecords
        /\ r.pc = "recheck" /\ r.op = "enable" /\ r.name = handler[h].name
        /\ r.cookie = handler[h].cookie /\ r.actor = handler[h].actor /\ r.enable = handler[h].enable
    BY <1>2, <2>1, Advances DEF Phases
  <2> HIDE DEF r
  <2>3. LeavesAdmin(r)
    BY <2>1, <2>2 DEF LastAdmin, LeavesAdmin
  <2>4. WellFormed(r) /\ Decided(r) /\ ~Inserting(r) /\ ~Booting(r)
    BY <1>1, <1>2, <2>2, <2>3 DEF WellFormed, Decided, Inserting, Booting, Changing
  <2>5. requests' \in 0..scenario.requests /\ UNCHANGED <<now, scenario>>
    BY <1>1 DEF IInv, TypeOK, Stays
  <2>6. Stepped(h, r) /\ Knows(h, r)
    BY <1>2, <2>1, <2>2, <2>4, <2>5, LocksUnchanged
  <2> QED
    BY <2>1, <2>4, <2>6, GotoKeeps, NothingChanged
<1> QED
  BY <1>3, <1>4

LEMMA RecheckKeeps ==
  ASSUME IInv, NEW h \in Handlers, Recheck(h)
  PROVE  Keeps
<1>1. handler[h].pc = "recheck" /\ Stays /\ WellFormed(handler[h]) /\ Decided(handler[h])
  BY DEF Recheck, IInv, Requests, Decisions
<1>2. /\ handler[h].op = "enable" /\ handler[h].name \in Names /\ handler[h].cookie \in Cookies
      /\ handler[h].actor \in Names /\ changing = h
  BY <1>1 DEF WellFormed, IInv, Locks, Changing
<1>3. CASE Refuse(h)
  BY <1>1, <1>3, AbortKeeps
<1>4. CASE ~Refuse(h)
  <2>1. StillAdmin(h) /\ Goto(h, "write") /\ Waits /\ UNCHANGED locks
    BY <1>4 DEF Recheck
  <2> DEFINE r == Advanced(h, "write")
  <2>2. /\ handler' = [handler EXCEPT ![h] = r] /\ r \in RequestRecords
        /\ r.pc = "write" /\ r.op = "enable" /\ r.name = handler[h].name
        /\ r.cookie = handler[h].cookie /\ r.actor = handler[h].actor /\ r.enable = handler[h].enable
    BY <1>2, <2>1, Advances DEF Phases
  <2> HIDE DEF r
  <2>3. LeavesAdmin(r)
    BY <1>1, <2>2 DEF Decided, LeavesAdmin
  <2>4. enabled[r.actor] /\ role[r.actor] = "admin"
    BY <1>1, <1>2, <2>1, <2>2 DEF StillAdmin, IsAdmin, Authenticates, UserOf, Decided
  <2>5. WellFormed(r) /\ Decided(r) /\ ~Inserting(r) /\ ~Booting(r)
    BY <1>1, <1>2, <2>2, <2>3, <2>4 DEF WellFormed, Decided, Inserting, Booting, Changing
  <2>6. requests' \in 0..scenario.requests /\ UNCHANGED <<now, scenario>>
    BY <1>1 DEF IInv, TypeOK, Stays
  <2>7. Stepped(h, r) /\ Knows(h, r)
    BY <1>2, <2>1, <2>2, <2>5, <2>6, LocksUnchanged
  <2> QED
    BY <2>1, <2>5, <2>7, GotoKeeps, NothingChanged
<1> QED
  BY <1>3, <1>4

LEMMA SetEnabledKeeps ==
  ASSUME IInv, NEW h \in Handlers, SetEnabled(h)
  PROVE  Keeps
<1> DEFINE n == handler[h].name
<1>1. /\ handler[h].pc = "write" /\ Stays /\ WellFormed(handler[h]) /\ Decided(handler[h])
      /\ enabled' = [enabled EXCEPT ![n] = handler[h].enable]
      /\ End(h) /\ role' = role /\ UNCHANGED sessions /\ started' = started
  BY DEF SetEnabled, IInv, Requests, Decisions
<1>2. handler[h].op = "enable" /\ n \in Names /\ LeavesAdmin(handler[h])
      /\ handler[h].enable \in BOOLEAN
  BY <1>1 DEF WellFormed, Decided, IInv, TypeOK
<1>3. UsersMove(h)
  BY <1>1, <1>2 DEF IInv, TypeOK, UsersMove
<1>4. SessionsMove
  BY <1>1, SessionsUnchanged DEF IInv
<1>5. enabled'[n] = handler[h].enable /\ \A m \in Names \ {n} : enabled'[m] = enabled[m]
  BY <1>1, <1>2 DEF IInv, TypeOK
<1>6. AdminRemains'
  <2>1. SUFFICES ASSUME scenario.admins # {}
                 PROVE  \E m \in Names : role[m] = "admin" /\ enabled'[m]
    BY <1>1 DEF AdminRemains, Stays
  <2>2. PICK m \in Names : role[m] = "admin" /\ enabled[m]
    BY <2>1 DEF IInv, Rows, AdminRemains
  <2> QED
    BY <1>2, <1>5, <2>2 DEF LeavesAdmin
<1>7. BootstrapAgrees' /\ started' \subseteq [outcome : {"ok", "error"}, was : {"none", "user", "admin"}]
  BY <1>1 DEF IInv, TypeOK, Rows, BootstrapAgrees
<1> QED
  BY <1>1, <1>3, <1>4, <1>6, <1>7, CommitKeeps

(* A replica that starts fails only where it found a user of that name:    *)
(* nobody else can have made the admin while it held its advisory lock.    *)
LEMMA ReportKeeps ==
  ASSUME IInv, NEW h \in Handlers, NEW o \in {"ok", "error"}, Report(h, o), End(h), Stays,
         handler[h].op = "bootstrap", UNCHANGED sessions,
         o = "error" => role[Root] = "user",
         UsersMove(h), handler[h].pc # "write"
  PROVE  Keeps
<1>1. role[Root] \in {"none", "user", "admin"}
  BY AccountsAssumption DEF IInv, TypeOK
<1>2. /\ started' \subseteq [outcome : {"ok", "error"}, was : {"none", "user", "admin"}]
      /\ BootstrapAgrees'
  BY <1>1 DEF IInv, TypeOK, Rows, BootstrapAgrees, Report
<1>3. AdminRemains' /\ SessionsMove
  BY AdminKept, SessionsUnchanged DEF IInv, Stays
<1> QED
  BY <1>2, <1>3, CommitKeeps

LEMMA BootstrapKeeps ==
  ASSUME IInv, NEW h \in Handlers, Bootstrap(h)
  PROVE  Keeps
<1>1. /\ handler[h].op = "bootstrap" /\ Stays /\ WellFormed(handler[h]) /\ Decided(handler[h])
      /\ Booting(handler[h]) => booting = h
  BY DEF Bootstrap, IInv, Requests, Decisions, Locks
<1>2. handler[h].name = Root /\ Root \in Names
      /\ handler[h].pc \in {"boot", "look", "insert", "commit"}
  BY <1>1, AccountsAssumption DEF WellFormed, Free, Kinds
<1>3. role[Root] \in {"none", "user", "admin"}
  BY <1>2 DEF IInv, TypeOK
<1>4. CASE handler[h].pc = "boot"
  <2>1. /\ booting = None /\ booting' = h /\ Goto(h, "look") /\ Waits
        /\ UNCHANGED <<nameLock, userLock, sessionLock, changing>>
    BY <1>4 DEF Bootstrap, OneAtATime
  <2> DEFINE r == Advanced(h, "look")
  <2>2. /\ handler' = [handler EXCEPT ![h] = r] /\ r \in RequestRecords
        /\ r.pc = "look" /\ r.op = "bootstrap" /\ r.name = Root
    BY <1>1, <1>2, <2>1, Advances DEF Phases
  <2> HIDE DEF r
  <2>3. WellFormed(r) /\ Decided(r) /\ ~Inserting(r) /\ r.pc \notin Changing
    BY <2>2 DEF WellFormed, Decided, Inserting, Changing
  <2>4. /\ nameLock \in [Names -> Handlers \cup {None}] /\ userLock \in [Names -> Handlers \cup {None}]
        /\ sessionLock \in [Sessions -> Handlers \cup {None}]
        /\ changing = h => handler[h].op = "enable"
        /\ requests \in 0..scenario.requests
    BY DEF IInv, TypeOK, Locks
  <2>5. Stepped(h, r) /\ Knows(h, r)
    BY <1>1, <2>1, <2>2, <2>3, <2>4, AccountsAssumption DEF Stepped, Knows, Stays
  <2> QED
    BY <2>1, <2>3, <2>5, GotoKeeps, NothingChanged
<1>5. CASE handler[h].pc = "look" /\ role[Root] = "none"
  <2>1. Goto(h, "insert") /\ Waits /\ UNCHANGED locks
    BY <1>5 DEF Bootstrap
  <2> DEFINE r == Advanced(h, "insert")
  <2>2. /\ handler' = [handler EXCEPT ![h] = r] /\ r \in RequestRecords
        /\ r.pc = "insert" /\ r.op = "bootstrap" /\ r.name = Root
    BY <1>1, <1>2, <2>1, Advances DEF Phases
  <2> HIDE DEF r
  <2>3. WellFormed(r) /\ Decided(r) /\ ~Inserting(r) /\ r.pc \notin Changing
    BY <1>5, <2>2 DEF WellFormed, Decided, Inserting, Changing
  <2>4. requests' \in 0..scenario.requests /\ UNCHANGED <<now, scenario>> /\ booting = h
    BY <1>1, <1>5 DEF IInv, TypeOK, Stays, Booting
  <2>5. Stepped(h, r) /\ Knows(h, r)
    BY <1>1, <2>1, <2>2, <2>3, <2>4, LocksUnchanged
  <2> QED
    BY <2>1, <2>3, <2>5, GotoKeeps, NothingChanged
<1>6. CASE handler[h].pc = "look" /\ role[Root] # "none"
  <2>1. /\ Report(h, IF role[Root] = "admin" THEN "ok" ELSE "error")
        /\ End(h) /\ UNCHANGED users /\ UNCHANGED sessions
    BY <1>6 DEF Bootstrap
  <2>2. UsersMove(h)
    BY <2>1, UsersUnchanged
  <2>3. CASE role[Root] = "admin"
    BY <1>1, <1>6, <2>1, <2>2, <2>3, ReportKeeps
  <2>4. CASE role[Root] # "admin"
    BY <1>1, <1>3, <1>6, <2>1, <2>2, <2>4, ReportKeeps
  <2> QED
    BY <2>3, <2>4
<1>7. CASE handler[h].pc = "insert" /\ role[Root] = "none"
  <2>1. /\ nameLock[Root] = None /\ nameLock' = [nameLock EXCEPT ![Root] = h]
        /\ Goto(h, "commit") /\ Waits /\ UNCHANGED <<userLock, sessionLock, changing, booting>>
    BY <1>7 DEF Bootstrap
  <2> QED
    BY <1>1, <1>2, <1>7, <2>1, InsertKeeps
<1>8. CASE handler[h].pc = "insert" /\ role[Root] # "none"
  <2>1. Report(h, "error") /\ End(h) /\ UNCHANGED users /\ UNCHANGED sessions
    BY <1>8 DEF Bootstrap
  <2>2. role[Root] = "user"
    BY <1>1, <1>3, <1>8 DEF Decided
  <2> QED
    BY <1>1, <1>8, <2>1, <2>2, UsersUnchanged, ReportKeeps
<1>9. CASE handler[h].pc = "commit"
  <2>1. /\ role' = [role EXCEPT ![Root] = "admin"] /\ enabled' = [enabled EXCEPT ![Root] = TRUE]
        /\ Report(h, "ok") /\ End(h) /\ UNCHANGED sessions
    BY <1>9 DEF Bootstrap
  <2>2. role[Root] = "none" /\ Inserting(handler[h])
    BY <1>1, <1>2, <1>9 DEF Decided, Inserting
  <2>3. UsersMove(h)
    BY <1>1, <1>2, <2>1, <2>2 DEF IInv, TypeOK, UsersMove
  <2> QED
    BY <1>1, <1>9, <2>1, <2>3, ReportKeeps
<1> QED
  BY <1>2, <1>4, <1>5, <1>6, <1>7, <1>8, <1>9

LEMMA TickKeeps ==
  ASSUME IInv, Tick
  PROVE  Keeps
<1>1. /\ role' = role /\ enabled' = enabled /\ session' = session /\ access' = access
      /\ drawn' = drawn /\ nameLock' = nameLock /\ userLock' = userLock
      /\ sessionLock' = sessionLock /\ changing' = changing /\ booting' = booting
      /\ handler' = handler /\ started' = started /\ requests' = requests
      /\ scenario' = scenario /\ now' = now + 1 /\ now < scenario.time
  BY DEF Tick, users, sessions, locks
<1>2. now' \in 0..scenario'.time
  BY <1>1, ScenarioType DEF IInv, TypeOK
<1>3. TypeOK'
  BY <1>1, <1>2 DEF IInv, TypeOK
<1>4. Requests' /\ Locks'
  BY <1>1 DEF IInv, Requests, Locks
<1>5. Decisions'
  BY <1>1 DEF IInv, Decisions, Decided, LeavesAdmin, UserOf
<1>6. SessionsMove
  BY <1>1, SessionsUnchanged DEF IInv, sessions
<1>7. Rows'
  BY <1>1 DEF IInv, Rows, AdminRemains, BootstrapAgrees
<1> QED
  BY <1>1, <1>3, <1>4, <1>5, <1>6, <1>7, NothingChanged DEF IInv, SessionsMove

LEMMA StutterKeeps ==
  ASSUME IInv, UNCHANGED vars
  PROVE  Keeps
<1>1. /\ role' = role /\ enabled' = enabled /\ session' = session /\ access' = access
      /\ drawn' = drawn /\ nameLock' = nameLock /\ userLock' = userLock
      /\ sessionLock' = sessionLock /\ changing' = changing /\ booting' = booting
      /\ handler' = handler /\ started' = started /\ requests' = requests
      /\ scenario' = scenario /\ now' = now
  BY DEF vars
<1>2. TypeOK' /\ Requests' /\ Locks'
  BY <1>1 DEF IInv, TypeOK, Requests, Locks
<1>3. Decisions'
  BY <1>1 DEF IInv, Decisions, Decided, LeavesAdmin, UserOf
<1>4. SessionsMove
  BY <1>1, SessionsUnchanged DEF IInv, sessions
<1>5. Rows'
  BY <1>1 DEF IInv, Rows, AdminRemains, BootstrapAgrees
<1> QED
  BY <1>1, <1>2, <1>3, <1>4, <1>5, NothingChanged DEF IInv, SessionsMove

LEMMA NextKeeps ==
  ASSUME IInv, [Next]_vars
  PROVE  Keeps
<1>1. CASE UNCHANGED vars
  BY <1>1, StutterKeeps
<1>2. CASE Tick
  BY <1>2, TickKeeps
<1>3. ASSUME NEW h \in Handlers, Request(h)
      PROVE  Keeps
  BY <1>3, RequestKeeps
<1>4. ASSUME NEW h \in Handlers, Aborts(h)
      PROVE  Keeps
  BY <1>4, AbortKeeps DEF Aborts
<1>5. ASSUME NEW h \in Handlers, Handle(h)
      PROVE  Keeps
  BY <1>5, RegisterKeeps, LoginKeeps, LockSessionKeeps, IssueAccessKeeps, LogoutKeeps,
     BootstrapKeeps, AdviseKeeps, LockTargetKeeps, ConfirmKeeps, RecheckKeeps, SetEnabledKeeps
     DEF Handle
<1> QED
  BY <1>1, <1>2, <1>3, <1>4, <1>5 DEF Next

LEMMA InitInv ==
  ASSUME Init
  PROVE  IInv
<1>1. /\ handler = [h \in Handlers |-> Free] /\ started = {} /\ drawn = {} /\ now = 0
      /\ requests = 0 /\ changing = None /\ booting = None /\ scenario \in Scenarios
      /\ session = [s \in Sessions |-> NoSession] /\ access = [a \in Cookies |-> NoAccess]
      /\ nameLock = [n \in Names |-> None] /\ userLock = [n \in Names |-> None]
      /\ sessionLock = [s \in Sessions |-> None]
  BY DEF Init
<1>2. /\ scenario.time \in Nat /\ scenario.requests \in Nat
      /\ scenario.admins \subseteq scenario.known /\ scenario.known \subseteq Names
  BY <1>1, AccountsAssumption DEF Scenario
<1>3. role \in [Names -> {"none", "user", "admin"}] /\ enabled \in [Names -> BOOLEAN]
  BY DEF Init
<1>4. NoSession \in SessionRows /\ NoAccess \in AccessRows /\ NoSession.state = "unused"
  BY DEF NoSession, NoAccess, SessionRows, AccessRows
<1>5. TypeOK
  <2>1. handler \in [Handlers -> RequestRecords]
    BY <1>1, FreeIsFree
  <2> QED
    BY <1>1, <1>2, <1>3, <1>4, <2>1 DEF TypeOK, SessionRows, AccessRows, RequestRecords, Phases
<1>6. Requests
  BY <1>1, FreeIsFree DEF Requests
<1>7. Locks
  BY <1>1, FreeIsFree, AccountsAssumption DEF Locks
<1>8. Decisions
  <2>1. Decided(Free)
    BY AccountsAssumption DEF Free, Decided, Inserting, Kinds
  <2> QED
    BY <1>1, <2>1 DEF Decisions
<1>9. SessionRules
  BY <1>1, <1>4 DEF SessionRules, CookieOK, SessionOK
<1>10. Rows
  <2>1. AdminRemains
    <3>1. SUFFICES ASSUME NEW n \in scenario.admins
                   PROVE  role[n] = "admin" /\ enabled[n] /\ n \in Names
      BY DEF AdminRemains
    <3> QED
      BY <1>2, <3>1 DEF Init
  <2> QED
    BY <1>1, <2>1 DEF Rows, BootstrapAgrees
<1> QED
  BY <1>5, <1>6, <1>7, <1>8, <1>9, <1>10 DEF IInv

THEOREM Invariant == Spec => []IInv
<1>1. Init => IInv
  BY InitInv
<1>2. IInv /\ [Next]_vars => IInv'
  BY NextKeeps DEF Keeps
<1> QED
  BY <1>1, <1>2, PTL DEF Spec

-----------------------------------------------------------------------------
\* The theorems

(* However the admins disable each other, one of them stays enabled; a     *)
(* replica that starts fails only where its admin's name is a user's       *)
(* (setUserEnabled of admin.go, BootstrapAdmin of bootstrap.go).           *)
THEOREM AdminsSound == Spec => []AdminsAgree
<1>1. IInv => AdminsAgree
  BY DEF IInv, Rows, AdminsAgree
<1> QED
  BY <1>1, Invariant, PTL

(* An account is enabled or disabled by who is an enabled admin at the     *)
(* commit (setUserEnabled of admin.go).                                    *)
THEOREM ChangesByAdmins == Spec => ChangedByAdmin
<1>1. IInv /\ [Next]_vars =>
        [\A h \in Handlers :
           enabled' # enabled /\ handler[h].op = "enable" /\ handler'[h].pc = "idle"
             => enabled[handler[h].actor] /\ role[handler[h].actor] = "admin"]_vars
  BY NextKeeps DEF Keeps, ChangedStep
<1> QED
  BY <1>1, Invariant, PTL DEF Spec, ChangedByAdmin

(* Tabs of a browser end each other's cookies by a logout only, which ends *)
(* them all, and no refresh prolongs the session (browser_auth.go over     *)
(* internal/auth/browser.go).                                              *)
THEOREM TabsSound == Spec => CookiesKept
<1>1. IInv /\ [Next]_vars =>
        [\A a \in Cookies : access[a] # NoAccess /\ access'[a] # access[a] =>
           access[a].expires <= now \/ session'[access[a].session].state = "gone"]_vars
  BY NextKeeps DEF Keeps, TabsStep
<1>2. IInv /\ [Next]_vars =>
        [\A s \in Sessions :
           session[s].state = "live" =>
             /\ session'[s].expires = session[s].expires
             /\ \A a \in Cookies :
                  access'[a].session = s => access'[a].expires <= session[s].expires]_vars
  BY NextKeeps DEF Keeps, TabsStep
<1>3. IInv => LogoutEndsTabs
  BY DEF IInv, SessionRules, CookieOK, LogoutEndsTabs
<1>4. Spec => TabsIndependent
  BY <1>1, Invariant, PTL DEF Spec, TabsIndependent
<1>5. Spec => AccessWithinSession
  BY <1>2, Invariant, PTL DEF Spec, AccessWithinSession
<1>6. Spec => []LogoutEndsTabs
  BY <1>3, Invariant, PTL
<1> QED
  BY <1>4, <1>5, <1>6 DEF CookiesKept
=============================================================================
