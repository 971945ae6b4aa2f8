------------------------- MODULE DeviceLoginProofs -------------------------
(***************************************************************************)
(* Theorems about DeviceLogin for every value of its constants: any number *)
(* of users, device codes, clients and requests under way.  The lock on    *)
(* the row of a device code carries the argument: what a poll read of the  *)
(* code under the lock is still so when it issues the token.               *)
(* Where nothing disturbs a login, client and server agree on the time.    *)
(***************************************************************************)
EXTENDS DeviceLogin, TLAPS

-----------------------------------------------------------------------------
\* The inductive invariant

CodeRows == [state : {"unused", "live", "gone"}, approved : Users \cup {None},
             consumed : BOOLEAN, expires : Nat, nextPoll : Nat]
TokenRows == [code : Codes \cup {None}, user : Users \cup {None}]
HandlerRows ==
  [pc : {"idle", "purge", "draw", "update", "confirm", "lock", "check", "insert", "refer",
         "commit"},
   op : {"authorize", "approve", "token", None}, code : Codes \cup {None},
   user : Users \cup {None}, from : Clients \cup {None}, began : Nat, waited : Nat,
   nextPoll : Nat]
ClientRows ==
  [pc : {"idle", "starting", "sleeping", "polling", "verify", "write", "done", "failed"},
   code : Codes \cup {None}, wake : Nat, deadline : Nat, interval : Nat,
   token : Tokens \cup {None}]

BoundsType ==
  /\ scenario \in Scenarios /\ now \in 0..scenario.time
  /\ approvals \in 0..scenario.approvals /\ replays \in 0..scenario.replays
  /\ faults \in 0..scenario.faults /\ changes \in 0..scenario.changes
  /\ enabled \in [Users -> BOOLEAN] /\ adminLock \in Users \cup {None}
  /\ adminLock # None => changes < scenario.changes
RowType ==
  /\ code \in [Codes -> CodeRows] /\ codeLock \in [Codes -> Handlers \cup {None}]
  /\ token \in [Tokens -> TokenRows]

(* What a request works on, and how far it may be.                         *)
Shape(h) ==
  LET r == handler[h] IN
  r.pc # "idle" =>
    \/ r.op = "authorize" /\ r.from \in Clients /\ r.pc \in {"purge", "draw"}
    \/ /\ r.op = "approve" /\ r.code \in Codes /\ r.user \in Users
       /\ r.pc \in {"update", "confirm"}
    \/ /\ r.op = "token" /\ r.code \in Codes
       /\ r.pc \in {"lock", "check", "insert", "refer", "confirm", "commit"}
HandlerType ==
  /\ handler \in [Handlers -> HandlerRows]
  /\ \A h \in Handlers : Shape(h)
ClientType ==
  /\ client \in [Clients -> ClientRows] /\ saved \in Tokens \cup {None}
  /\ \A c \in Clients : client[c].pc \in {"sleeping", "polling"} => client[c].code \in Codes
TypeInv == BoundsType /\ RowType /\ HandlerType /\ ClientType

(* The lock on a code's row is where its holder is.                        *)
Approves(h, d) ==
  handler[h].op = "approve" /\ handler[h].code = d /\ handler[h].pc = "confirm"
Polls(h, d) ==
  /\ handler[h].op = "token" /\ handler[h].code = d
  /\ handler[h].pc \in {"check", "insert", "refer", "confirm", "commit"}
LocksMeant ==
  \A d \in Codes, h \in Handlers : codeLock[d] = h <=> Approves(h, d) \/ Polls(h, d)

(* What the holder of the lock knows of the row.                           *)
Unapproved ==
  \A h \in Handlers, d \in Codes : Approves(h, d) =>
    Live(d) /\ code[d].approved = None
ApprovalRead ==
  \A h \in Handlers, d \in Codes : Polls(h, d) =>
    /\ Live(d) /\ handler[h].user = code[d].approved
    /\ handler[h].pc # "check" => ~code[d].consumed /\ code[d].approved # None

(* What the rows say of each other.                                        *)
UnusedIsNew == \A d \in Codes : code[d].state = "unused" => code[d].approved = None
TokenOfCode ==
  \A k \in Tokens : token[k] # NoToken =>
    /\ token[k].code \in Codes /\ code[token[k].code].consumed
    /\ code[token[k].code].state # "unused"
OneEach == \A j, k \in Tokens : token[j] # NoToken /\ token[j].code = token[k].code => j = k
RowInv == UnusedIsNew /\ TokenOfCode /\ OneEach

IInv == TypeInv /\ LocksMeant /\ Unapproved /\ ApprovalRead /\ RowInv

-----------------------------------------------------------------------------
\* Requests and clients keep their types

LEMMA Constants ==
  /\ Life \in Nat \ {0} /\ None \notin Users /\ None \notin Codes /\ None \notin Tokens
  /\ None \notin Clients /\ None \notin Handlers
  /\ TypeInv => /\ scenario.users \subseteq Users /\ scenario.clients \subseteq Clients
                /\ scenario.time \in Nat /\ scenario.approvals \in Nat /\ scenario.replays \in Nat
                /\ scenario.faults \in Nat /\ scenario.changes \in Nat /\ now \in Nat
BY DeviceAssumption DEF Scenario, TypeInv, BoundsType

LEMMA MinOfTwo ==
  ASSUME NEW a \in Nat, NEW b \in Nat
  PROVE  Min({a, b}) \in Nat
<1>1. \E x \in {a, b} : \A y \in {a, b} : x <= y
  <2>1. CASE a <= b
    BY <2>1
  <2>2. CASE b <= a
    BY <2>2
  <2> QED
    BY <2>1, <2>2
<1>2. Min({a, b}) \in {a, b}
  BY <1>1 DEF Min
<1> QED
  BY <1>2

LEMMA SleepTyped ==
  ASSUME NEW c \in ClientRows, NEW n \in Nat, now \in Nat
  PROVE  /\ Sleep(c, n) \in ClientRows /\ Sleep(c, n).pc = "sleeping"
         /\ Sleep(c, n).code = c.code /\ Sleep(c, n).token = c.token
<1>1. now + n \in Nat /\ c.deadline \in Nat
  BY DEF ClientRows
<1>2. PICK m \in Nat : m = Min({now + n, c.deadline})
  <2>1. PICK a \in Nat, b \in Nat : a = now + n /\ b = c.deadline
    BY <1>1
  <2> QED
    BY <2>1, MinOfTwo
<1>3. Sleep(c, n) = [c EXCEPT !.pc = "sleeping", !.interval = n, !.wake = m]
  BY <1>2 DEF Sleep
<1> QED
  BY <1>3 DEF ClientRows

LEMMA PolledTyped ==
  ASSUME NEW c \in ClientRows, NEW answer, NEW k \in Tokens \cup {None}, now \in Nat
  PROVE  Polled(c, answer, k) \in ClientRows /\ Polled(c, answer, k).code = c.code
<1>1. c.interval \in Nat /\ c.interval + Interval \in Nat
  BY DEF ClientRows, Interval
<1>2. CASE answer = "pending"
  BY <1>1, <1>2, SleepTyped DEF Polled
<1>3. CASE answer = "slow_down"
  <2>1. PICK n \in Nat : n = c.interval + Interval
    BY <1>1
  <2> QED
    BY <1>3, <2>1, SleepTyped DEF Polled
<1>4. CASE answer = "token"
  BY <1>4 DEF Polled, ClientRows
<1>5. CASE answer \notin {"pending", "slow_down", "token"}
  BY <1>5 DEF Polled, ClientRows
<1> QED
  BY <1>2, <1>3, <1>4, <1>5

(* One client changes; where it may wait for a poll it has a code.         *)
LEMMA ClientKeeps ==
  ASSUME TypeInv, NEW c \in Clients, NEW r \in ClientRows,
         r.pc \in {"sleeping", "polling"} => r.code \in Codes,
         client' = [client EXCEPT ![c] = r]
  PROVE  client' \in [Clients -> ClientRows]
         /\ \A x \in Clients : client'[x].pc \in {"sleeping", "polling"} => client'[x].code \in Codes
BY DEF TypeInv, ClientType

ClientOK ==
  /\ client \in [Clients -> ClientRows]
  /\ \A c \in Clients : client[c].pc \in {"sleeping", "polling"} => client[c].code \in Codes

LEMMA HearKeeps ==
  ASSUME TypeInv, NEW h \in Handlers, NEW answer, NEW k \in Tokens \cup {None},
         Hear(h, answer, k)
  PROVE  ClientOK'
<1> DEFINE c == handler[h].from
<1>1. CASE UNCHANGED client
  BY <1>1 DEF TypeInv, ClientType, ClientOK
<1>2. CASE c # None /\ client[c].pc = "polling"
           /\ client' = [client EXCEPT ![c] = Polled(client[c], answer, k)]
  <2>1. PICK x \in Clients : x = c
    BY <1>2 DEF TypeInv, HandlerType, HandlerRows
  <2>2. client[x] \in ClientRows /\ client[x].code \in Codes
    BY <1>2, <2>1 DEF TypeInv, ClientType
  <2>3. /\ Polled(client[x], answer, k) \in ClientRows
        /\ Polled(client[x], answer, k).code = client[x].code
    <3>1. PICK r \in ClientRows : r = client[x]
      BY <2>2
    <3> QED
      BY <3>1, PolledTyped, Constants
  <2>4. PICK q \in ClientRows : q = Polled(client[x], answer, k) /\ q.code \in Codes
    BY <2>2, <2>3
  <2> QED
    BY <1>2, <2>1, <2>4, ClientKeeps DEF ClientOK
<1> QED
  BY <1>1, <1>2 DEF Hear

(* A request that ends or moves on leaves the others as they are.          *)
Others(h) == \A g \in Handlers \ {h} : handler'[g] = handler[g]

LEMMA FreeTyped == Free \in HandlerRows
BY DEF Free, HandlerRows

LEMMA RowKeeps ==
  ASSUME TypeInv, NEW h \in Handlers, NEW r \in HandlerRows,
         handler' = [handler EXCEPT ![h] = r], Shape(h)'
  PROVE  HandlerType' /\ Others(h) /\ handler'[h] = r
<1>1. handler \in [Handlers -> HandlerRows] /\ \A g \in Handlers : Shape(g)
  BY DEF TypeInv, HandlerType
<1>2. ASSUME NEW g \in Handlers, g # h PROVE Shape(g)'
  <2>1. handler'[g] = handler[g]
    BY <1>1, <1>2
  <2> QED
    BY <1>1, <2>1 DEF Shape
<1> QED
  BY <1>1, <1>2 DEF HandlerType, Others

LEMMA EndKeeps ==
  ASSUME TypeInv, NEW h \in Handlers, End(h)
  PROVE  /\ HandlerType' /\ Others(h) /\ handler'[h] = Free
         /\ codeLock' \in [Codes -> Handlers \cup {None}]
<1>1. Shape(h)'
  BY DEF TypeInv, HandlerType, End, Shape, Free
<1>2. codeLock' \in [Codes -> Handlers \cup {None}]
  BY DEF TypeInv, RowType, End, Unlocked
<1> QED
  BY <1>1, <1>2, FreeTyped, RowKeeps DEF End

LEMMA MovesOn ==
  ASSUME TypeInv, NEW h \in Handlers, NEW pc, Goto(h, pc),
         \/ handler[h].op = "authorize" /\ pc = "draw" /\ handler[h].pc # "idle"
         \/ handler[h].op = "approve" /\ pc = "confirm" /\ handler[h].pc # "idle"
         \/ handler[h].op = "token" /\ pc \in {"refer", "commit"} /\ handler[h].pc # "idle"
  PROVE  /\ HandlerType' /\ Others(h) /\ handler'[h].pc = pc
         /\ handler'[h].op = handler[h].op /\ handler'[h].code = handler[h].code
         /\ handler'[h].user = handler[h].user /\ handler'[h].waited = handler[h].waited
<1>1. handler[h] \in HandlerRows /\ Shape(h) /\ handler \in [Handlers -> HandlerRows]
  BY DEF TypeInv, HandlerType
<1>2. PICK r : r = [handler[h] EXCEPT !.pc = pc]
  OBVIOUS
<1>3. /\ r \in HandlerRows /\ r.pc = pc /\ r.op = handler[h].op /\ r.code = handler[h].code
      /\ r.user = handler[h].user /\ r.from = handler[h].from
      /\ r.waited = handler[h].waited
  BY <1>1, <1>2 DEF HandlerRows
<1>4. handler' = [handler EXCEPT ![h] = r]
  BY <1>1, <1>2 DEF Goto
<1>5. Shape(h)'
  BY <1>1, <1>3, <1>4 DEF Shape
<1> QED
  BY <1>3, <1>4, <1>5, RowKeeps

(* What begins is what the clients, the users and the repeats let begin.   *)
LEMMA ServeKeeps ==
  ASSUME TypeInv, NEW h \in Handlers, NEW r \in HandlerRows, Serve(h, r),
         \/ r.op = "authorize" /\ r.from \in Clients /\ r.pc = "purge"
         \/ r.op = "approve" /\ r.code \in Codes /\ r.user \in Users /\ r.pc = "update"
         \/ r.op = "token" /\ r.code \in Codes /\ r.pc = "lock"
  PROVE  HandlerType' /\ Others(h) /\ handler'[h] = r /\ handler[h].pc = "idle"
<1>1. handler' = [handler EXCEPT ![h] = r] /\ handler'[h] = r
  BY DEF Serve, TypeInv, HandlerType
<1>2. Shape(h)'
  BY <1>1 DEF Shape
<1> QED
  BY <1>1, <1>2, RowKeeps DEF Serve

-----------------------------------------------------------------------------
\* Type correctness

LEMMA BoundsStep == TypeInv /\ [Next]_vars => BoundsType'
<1> SUFFICES ASSUME TypeInv, [Next]_vars PROVE BoundsType'
  OBVIOUS
<1>1. /\ BoundsType /\ None \notin Users /\ scenario.users \subseteq Users
      /\ scenario.time \in Nat /\ scenario.approvals \in Nat /\ scenario.replays \in Nat
      /\ scenario.faults \in Nat /\ scenario.changes \in Nat
  BY Constants DEF TypeInv
<1> USE DEF BoundsType
<1>2. ASSUME UNCHANGED <<now, admin, approvals, replays, faults>> PROVE BoundsType'
  BY <1>1, <1>2 DEF admin
<1>3. ASSUME NEW h \in Handlers, Handle(h) PROVE BoundsType'
  BY <1>2, <1>3 DEF Handle, Purge, Draw, MarkApproved, CommitApproval, LockCode, Check, ReadUser,
                    InsertToken, ConfirmToken, CommitToken, Stays
<1>4. ASSUME NEW c, Advance(c) \/ \E h \in Handlers : Login(c, h) PROVE BoundsType'
  BY <1>2, <1>4 DEF Advance, Poll, GiveUp, Verify, Write, Login
<1>5. ASSUME NEW c, Breaks(c) PROVE BoundsType'
  BY <1>1, <1>5 DEF Breaks, admin
<1>6. ASSUME NEW h, Aborts(h) PROVE BoundsType'
  BY <1>1, <1>6 DEF Aborts, admin
<1>7. ASSUME NEW h, Approve(h) PROVE BoundsType'
  <2>1. /\ approvals < scenario.approvals /\ approvals' = approvals + 1
        /\ UNCHANGED <<now, admin, replays, faults>>
    BY <1>7 DEF Approve
  <2> QED
    BY <1>1, <2>1 DEF admin
<1>8. ASSUME NEW h, NEW d, Replay(d, h) PROVE BoundsType'
  BY <1>1, <1>8 DEF Replay, admin
<1>9. ASSUME NEW u \in Users, LockUser(u) PROVE BoundsType'
  BY <1>1, <1>9 DEF LockUser
<1>10. ASSUME NEW u \in Users, SetEnabled(u) PROVE BoundsType'
  <2>1. enabled' = [enabled EXCEPT ![u] = ~enabled[u]] /\ enabled \in [Users -> BOOLEAN]
    BY <1>1, <1>10 DEF SetEnabled
  <2>2. enabled' \in [Users -> BOOLEAN]
    BY <2>1, Zenon
  <2>3. /\ adminLock = u /\ u # None /\ adminLock' = None /\ changes' = changes + 1
        /\ UNCHANGED <<now, scenario, approvals, replays, faults>>
    BY <1>1, <1>10 DEF SetEnabled
  <2> QED
    BY <1>1, <2>2, <2>3
<1>11. CASE Tick
  BY <1>1, <1>11 DEF Tick, admin
<1>12. CASE UNCHANGED vars
  BY <1>2, <1>12 DEF vars, admin
<1> QED
  BY <1>1, <1>3, <1>4, <1>5, <1>6, <1>7, <1>8, <1>9, <1>10, <1>11, <1>12 DEF Next

(* A client that goes on by itself, or fails.                              *)
LEMMA ClientGoesOn ==
  ASSUME TypeInv, NEW c \in Clients, NEW pc \in {"starting", "polling", "write", "done", "failed"},
         client' = [client EXCEPT ![c].pc = pc], pc = "polling" => client[c].code \in Codes
  PROVE  ClientOK'
<1>1. client[c] \in ClientRows /\ client \in [Clients -> ClientRows]
  BY DEF TypeInv, ClientType
<1>2. PICK r : r = [client[c] EXCEPT !.pc = pc]
  OBVIOUS
<1>3. r \in ClientRows /\ r.pc = pc /\ r.code = client[c].code
  BY <1>1, <1>2 DEF ClientRows
<1>4. client' = [client EXCEPT ![c] = r]
  BY <1>1, <1>2
<1> QED
  BY <1>3, <1>4, ClientKeeps DEF ClientOK

RequestTyped == HandlerType' /\ UNCHANGED <<database, codeLock>>

LEMMA ClientSteps ==
  ASSUME TypeInv, NEW c \in Clients,
         Advance(c) \/ Breaks(c) \/ \E h \in Handlers : Login(c, h)
  PROVE  ClientType' /\ RequestTyped
<1>1. /\ client[c] \in ClientRows /\ saved \in Tokens \cup {None}
      /\ client[c].pc \in {"sleeping", "polling"} => client[c].code \in Codes
      /\ HandlerType
  BY DEF TypeInv, ClientType
<1>2. ASSUME UNCHANGED handler PROVE HandlerType'
  BY <1>1, <1>2 DEF HandlerType, Shape
<1>3. ASSUME NEW h \in Handlers, Login(c, h) PROVE ClientType' /\ RequestTyped
  <2>1. PICK r : r = [Free EXCEPT !.pc = "purge", !.op = "authorize", !.from = c]
    OBVIOUS
  <2>2. r \in HandlerRows /\ r.op = "authorize" /\ r.from = c /\ r.pc = "purge"
    BY <2>1 DEF Free, HandlerRows
  <2>3. HandlerType'
    BY <1>3, <2>1, <2>2, ServeKeeps DEF Login
  <2> QED
    BY <1>1, <1>3, <2>3, ClientGoesOn DEF Login, RequestTyped, ClientType, ClientOK
<1>4. ASSUME NEW h \in Handlers, Poll(c, h) PROVE ClientType' /\ RequestTyped
  <2>1. PICK r : r = PollRequest(client[c].code, c)
    OBVIOUS
  <2>2. r \in HandlerRows /\ r.op = "token" /\ r.code \in Codes /\ r.pc = "lock"
    BY <1>1, <1>4, <2>1 DEF Poll, PollRequest, Free, HandlerRows
  <2>3. HandlerType'
    BY <1>4, <2>1, <2>2, ServeKeeps DEF Poll
  <2> QED
    BY <1>1, <1>4, <2>3, ClientGoesOn DEF Poll, RequestTyped, ClientType, ClientOK
<1>5. CASE GiveUp(c) \/ Breaks(c)
  BY <1>1, <1>2, <1>5, ClientGoesOn DEF GiveUp, Breaks, RequestTyped, ClientType, ClientOK
<1>6. CASE Verify(c)
  BY <1>1, <1>2, <1>6, ClientGoesOn DEF Verify, RequestTyped, ClientType, ClientOK
<1>7. CASE Write(c)
  <2>1. saved' \in Tokens \cup {None}
    BY <1>1, <1>7 DEF Write, ClientRows
  <2> QED
    BY <1>1, <1>2, <1>7, <2>1, ClientGoesOn DEF Write, RequestTyped, ClientType, ClientOK
<1> QED
  BY <1>3, <1>4, <1>5, <1>6, <1>7 DEF Advance

LEMMA Beginnings ==
  ASSUME TypeInv, NEW h \in Handlers, Approve(h) \/ \E d \in Codes : Replay(d, h)
  PROVE  ClientType' /\ RequestTyped
<1>1. ClientType' /\ UNCHANGED <<database, codeLock>> /\ now \in Nat
  BY Constants DEF Approve, Replay, TypeInv, ClientType
<1>2. ASSUME NEW d \in Codes, Replay(d, h) PROVE HandlerType'
  <2>1. PICK r : r = PollRequest(d, None)
    OBVIOUS
  <2>2. r \in HandlerRows /\ r.op = "token" /\ r.code \in Codes /\ r.pc = "lock"
    BY <2>1 DEF PollRequest, Free, HandlerRows
  <2> QED
    BY <1>2, <2>1, <2>2, ServeKeeps DEF Replay
<1>3. CASE Approve(h)
  <2>1. PICK u \in Users, d \in Codes :
          Serve(h, [Free EXCEPT !.pc = "update", !.op = "approve", !.code = d, !.user = u,
                                !.began = now])
    BY <1>3, Constants DEF Approve
  <2>2. PICK r : r = [Free EXCEPT !.pc = "update", !.op = "approve", !.code = d, !.user = u,
                                  !.began = now]
    OBVIOUS
  <2>3. r \in HandlerRows /\ r.op = "approve" /\ r.code \in Codes /\ r.user \in Users
        /\ r.pc = "update"
    BY <1>1, <2>2 DEF Free, HandlerRows
  <2> QED
    BY <1>1, <2>1, <2>2, <2>3, ServeKeeps DEF RequestTyped
<1> QED
  BY <1>1, <1>2, <1>3 DEF RequestTyped

-----------------------------------------------------------------------------
\* What the steps of the server do to the rows

Purges ==
  /\ UNCHANGED token
  /\ \E old \in SUBSET {d \in Codes : Live(d) /\ CodeFree(d)} :
       code' = [d \in Codes |-> IF d \in old THEN [code[d] EXCEPT !.state = "gone"] ELSE code[d]]
Draws(d) ==
  /\ UNCHANGED token /\ code[d].state = "unused"
  /\ code' = [code EXCEPT ![d] =
       [NoCode EXCEPT !.state = "live", !.expires = now + Life, !.nextPoll = now]]
Grants(h, d) ==
  /\ UNCHANGED token /\ Approves(h, d) /\ enabled[handler[h].user]
  /\ code' = [code EXCEPT ![d].approved = handler[h].user]
PutsOff(h, d) ==
  /\ UNCHANGED token /\ Polls(h, d)
  /\ code' = [code EXCEPT ![d].nextPoll = now + Interval]
Issues(h, d, k) ==
  /\ Polls(h, d) /\ handler[h].pc = "commit" /\ token[k] = NoToken /\ handler'[h] = Free
  /\ token' = [token EXCEPT ![k] = [code |-> d, user |-> handler[h].user]]
  /\ code' = [code EXCEPT ![d].consumed = TRUE, ![d].nextPoll = handler[h].nextPoll]
HandlerStep(h) ==
  \/ Purges \/ \E d \in Codes : Draws(d) \/ Grants(h, d) \/ PutsOff(h, d)
  \/ \E d \in Codes, k \in Tokens : Issues(h, d, k)

(* A step that writes codes or tokens is one of those.                     *)
LEMMA RowsOfServer ==
  ASSUME TypeInv, NEW h \in Handlers, Handle(h)
  PROVE  UNCHANGED database \/ HandlerStep(h)
<1>1. Shape(h)
  BY DEF TypeInv, HandlerType
<1>2. CASE Purge(h)
  <2>1. Purges
    BY <1>2 DEF Purge, Purges
  <2> QED
    BY <2>1 DEF HandlerStep
<1>3. ASSUME NEW d \in Codes, Draw(h, d) PROVE HandlerStep(h)
  <2>1. Draws(d)
    BY <1>3 DEF Draw, Draws
  <2> QED
    BY <2>1 DEF HandlerStep
<1>4. CASE MarkApproved(h) \/ LockCode(h) \/ ReadUser(h) \/ InsertToken(h) \/ ConfirmToken(h)
  BY <1>4 DEF MarkApproved, LockCode, ReadUser, InsertToken, ConfirmToken, Refuse, database
<1>5. CASE CommitApproval(h) /\ ~UNCHANGED database
  <2>1. PICK d \in Codes : d = handler[h].code
    BY <1>1, <1>5 DEF CommitApproval, Shape
  <2>2. Grants(h, d)
    BY <1>5, <2>1 DEF CommitApproval, Grants, Approves, Refuse
  <2> QED
    BY <2>2 DEF HandlerStep
<1>6. CASE Check(h) /\ ~UNCHANGED database
  <2>1. PICK d \in Codes : d = handler[h].code
    BY <1>1, <1>6 DEF Check, Shape
  <2>2. handler[h].op = "token"
    BY <1>1, <1>6 DEF Check, Shape
  <2>3. PutsOff(h, d)
    BY <1>6, <2>1, <2>2 DEF Check, PutsOff, Polls, Refuse
  <2> QED
    BY <2>3 DEF HandlerStep
<1>7. ASSUME NEW k \in Tokens, CommitToken(h, k), ~UNCHANGED database PROVE HandlerStep(h)
  <2>1. PICK d \in Codes : d = handler[h].code
    BY <1>1, <1>7 DEF CommitToken, Shape
  <2>2. handler[h].op = "token" /\ handler'[h] = Free
    BY <1>1, <1>7, EndKeeps DEF CommitToken, Shape
  <2>3. Issues(h, d, k)
    BY <1>7, <2>1, <2>2 DEF CommitToken, Issues, Polls
  <2> QED
    BY <2>3 DEF HandlerStep
<1> QED
  BY <1>2, <1>3, <1>4, <1>5, <1>6, <1>7 DEF Handle

LEMMA RowsTyped ==
  ASSUME TypeInv, NEW h \in Handlers, HandlerStep(h)
  PROVE  code' \in [Codes -> CodeRows] /\ token' \in [Tokens -> TokenRows]
<1>1. /\ code \in [Codes -> CodeRows] /\ token \in [Tokens -> TokenRows]
      /\ handler[h].user \in Users \cup {None} /\ handler[h].nextPoll \in Nat
      /\ now \in Nat /\ now + Life \in Nat /\ now + Interval \in Nat
  BY Constants DEF TypeInv, RowType, HandlerType, HandlerRows, Interval
<1>2. CASE Purges
  BY <1>1, <1>2 DEF Purges, CodeRows
<1>3. ASSUME NEW d \in Codes, Draws(d) PROVE code' \in [Codes -> CodeRows]
  <2>1. [NoCode EXCEPT !.state = "live", !.expires = now + Life, !.nextPoll = now] \in CodeRows
    BY <1>1 DEF NoCode, CodeRows
  <2> QED
    BY <1>1, <1>3, <2>1 DEF Draws
<1>4. ASSUME NEW d \in Codes, Grants(h, d) PROVE code' \in [Codes -> CodeRows]
  BY <1>1, <1>4 DEF Grants, CodeRows
<1>5. ASSUME NEW d \in Codes, PutsOff(h, d) PROVE code' \in [Codes -> CodeRows]
  BY <1>1, <1>5 DEF PutsOff, CodeRows
<1>6. ASSUME NEW d \in Codes, NEW k \in Tokens, Issues(h, d, k)
      PROVE  code' \in [Codes -> CodeRows] /\ token' \in [Tokens -> TokenRows]
  <2>1. [code |-> d, user |-> handler[h].user] \in TokenRows
    BY <1>1 DEF TokenRows
  <2>2. token' \in [Tokens -> TokenRows]
    BY <1>1, <1>6, <2>1 DEF Issues
  <2>3. [code[d] EXCEPT !.consumed = TRUE, !.nextPoll = handler[h].nextPoll] \in CodeRows
    BY <1>1 DEF CodeRows
  <2>4. code' \in [Codes -> CodeRows]
    BY <1>1, <1>6, <2>3 DEF Issues
  <2> QED
    BY <2>2, <2>4
<1> QED
  BY <1>1, <1>2, <1>3, <1>4, <1>5, <1>6 DEF HandlerStep, Draws, Grants, PutsOff

-----------------------------------------------------------------------------
\* What the steps of the server do to the requests and to the locks

(* A request ends, takes the lock of a code, or goes on as it holds it.    *)
Takes(h, d) ==
  /\ codeLock[d] = None /\ codeLock' = [codeLock EXCEPT ![d] = h]
  /\ ~Approves(h, d) /\ ~Polls(h, d) /\ handler'[h].code = d /\ handler[h].code = d
  /\ UNCHANGED database
  /\ \/ /\ handler'[h].op = "approve" /\ handler'[h].pc = "confirm"
        /\ Approvable(d, handler[h].began)
     \/ /\ handler'[h].op = "token" /\ handler'[h].pc = "check"
        /\ Live(d) /\ handler'[h].user = code[d].approved
GoesOn(h) ==
  /\ UNCHANGED codeLock
  /\ \A d \in Codes : /\ Approves(h, d)' <=> Approves(h, d)
                      /\ Polls(h, d)' <=> Polls(h, d)
  /\ handler'[h].user = handler[h].user
  /\ \A d \in Codes : Polls(h, d) =>
       (handler[h].pc = "check" => ~code[d].consumed /\ handler[h].user # None)

LEMMA RequestSteps ==
  ASSUME TypeInv, NEW h \in Handlers, Handle(h)
  PROVE  /\ HandlerType' /\ Others(h) /\ codeLock' \in [Codes -> Handlers \cup {None}]
         /\ \/ End(h)
            \/ \E d \in Codes : Takes(h, d)
            \/ GoesOn(h) /\ (UNCHANGED database \/ Purges)
<1> DEFINE r == handler[h]
           Typed == HandlerType' /\ Others(h) /\ codeLock' \in [Codes -> Handlers \cup {None}]
<1>1. /\ Shape(h) /\ r \in HandlerRows /\ handler \in [Handlers -> HandlerRows]
      /\ codeLock \in [Codes -> Handlers \cup {None}] /\ code \in [Codes -> CodeRows]
      /\ now + Interval \in Nat
  BY Constants DEF TypeInv, HandlerType, RowType, Interval
<1>2. CASE End(h)
  BY <1>2, EndKeeps
<1>3. CASE Purge(h)
  <2>1. r.op = "authorize" /\ r.pc = "purge" /\ Goto(h, "draw") /\ UNCHANGED codeLock
    BY <1>1, <1>3 DEF Purge, Shape
  <2>2. HandlerType' /\ Others(h) /\ handler'[h].op = "authorize" /\ handler'[h].user = r.user
    BY <2>1, MovesOn
  <2>3. GoesOn(h)
    BY <2>1, <2>2 DEF GoesOn, Approves, Polls
  <2>4. Purges
    BY <1>3 DEF Purge, Purges
  <2> QED
    BY <1>1, <2>1, <2>2, <2>3, <2>4
<1>4. CASE MarkApproved(h) /\ ~End(h)
  <2>1. /\ r.op = "approve" /\ r.code \in Codes /\ r.pc = "update" /\ Goto(h, "confirm")
        /\ codeLock[r.code] = None /\ codeLock' = [codeLock EXCEPT ![r.code] = h]
        /\ Approvable(r.code, r.began) /\ UNCHANGED database
    BY <1>1, <1>4 DEF MarkApproved, Refuse, Shape, CodeFree
  <2>2. HandlerType' /\ Others(h) /\ handler'[h].op = "approve" /\ handler'[h].code = r.code
        /\ handler'[h].pc = "confirm"
    BY <2>1, MovesOn
  <2>3. PICK d \in Codes : d = r.code
    BY <2>1
  <2>4. Takes(h, d)
    BY <2>1, <2>2, <2>3 DEF Takes, Approves, Polls
  <2> QED
    BY <1>1, <2>1, <2>2, <2>3, <2>4
<1>5. CASE LockCode(h) /\ ~End(h)
  <2>1. /\ r.op = "token" /\ r.code \in Codes /\ r.pc = "lock" /\ codeLock[r.code] = None
        /\ codeLock' = [codeLock EXCEPT ![r.code] = h] /\ Live(r.code) /\ UNCHANGED database
        /\ handler' = [handler EXCEPT ![h].pc = "check", ![h].user = code[r.code].approved]
    BY <1>1, <1>5 DEF LockCode, Refuse, Shape, CodeFree
  <2>2. PICK d \in Codes : d = r.code
    BY <2>1
  <2>3. PICK q : q = [r EXCEPT !.pc = "check", !.user = code[d].approved]
    OBVIOUS
  <2>4. /\ q \in HandlerRows /\ q.op = "token" /\ q.code = d /\ q.pc = "check"
        /\ q.user = code[d].approved
    BY <1>1, <2>1, <2>2, <2>3 DEF HandlerRows, CodeRows
  <2>5. handler' = [handler EXCEPT ![h] = q] /\ handler'[h] = q
    BY <1>1, <2>1, <2>2, <2>3
  <2>6. HandlerType' /\ Others(h)
    BY <2>4, <2>5, RowKeeps DEF Shape
  <2>7. Takes(h, d)
    BY <2>1, <2>2, <2>4, <2>5 DEF Takes, Approves, Polls
  <2> QED
    BY <1>1, <2>1, <2>6, <2>7
<1>6. CASE Check(h) /\ ~End(h)
  <2>1. /\ r.op = "token" /\ r.code \in Codes /\ r.pc = "check" /\ r.user # None
        /\ ~code[r.code].consumed /\ UNCHANGED <<database, codeLock>>
        /\ handler' = [handler EXCEPT ![h].pc = "insert", ![h].nextPoll = now + Interval]
    BY <1>1, <1>6 DEF Check, Refuse, Shape, PollVerdict
  <2>2. PICK q : q = [r EXCEPT !.pc = "insert", !.nextPoll = now + Interval]
    OBVIOUS
  <2>3. /\ q \in HandlerRows /\ q.op = "token" /\ q.code = r.code /\ q.pc = "insert"
        /\ q.user = r.user
    BY <1>1, <2>1, <2>2 DEF HandlerRows
  <2>4. handler' = [handler EXCEPT ![h] = q] /\ handler'[h] = q
    BY <1>1, <2>1, <2>2
  <2>5. HandlerType' /\ Others(h)
    BY <2>1, <2>3, <2>4, RowKeeps DEF Shape
  <2>6. GoesOn(h)
    BY <2>1, <2>3, <2>4 DEF GoesOn, Approves, Polls
  <2> QED
    BY <1>1, <2>1, <2>5, <2>6
<1>7. CASE (ReadUser(h) \/ ConfirmToken(h)) /\ ~End(h)
  <2>1. PICK pc \in {"refer", "commit"} :
          /\ r.op = "token" /\ r.pc \in {"insert", "confirm"} /\ Goto(h, pc)
          /\ UNCHANGED <<database, codeLock>>
    BY <1>1, <1>7 DEF ReadUser, ConfirmToken, Refuse, Shape
  <2>2. /\ HandlerType' /\ Others(h) /\ handler'[h].op = "token" /\ handler'[h].pc = pc
        /\ handler'[h].code = r.code /\ handler'[h].user = r.user
    BY <2>1, MovesOn
  <2>3. GoesOn(h)
    BY <2>1, <2>2 DEF GoesOn, Approves, Polls
  <2> QED
    BY <1>1, <2>1, <2>2, <2>3
<1>8. CASE InsertToken(h)
  <2>1. /\ r.op = "token" /\ r.code \in Codes /\ r.pc = "refer"
        /\ UNCHANGED <<database, codeLock>> /\ now \in Nat
        /\ handler' = [handler EXCEPT ![h].pc = "confirm", ![h].waited = now]
    BY <1>1, <1>8, Constants DEF InsertToken, Shape
  <2>2. PICK q : q = [r EXCEPT !.pc = "confirm", !.waited = now]
    OBVIOUS
  <2>3. /\ q \in HandlerRows /\ q.op = "token" /\ q.code = r.code /\ q.pc = "confirm"
        /\ q.user = r.user
    BY <1>1, <2>1, <2>2 DEF HandlerRows
  <2>4. handler' = [handler EXCEPT ![h] = q] /\ handler'[h] = q
    BY <1>1, <2>1, <2>2
  <2>5. HandlerType' /\ Others(h)
    BY <2>1, <2>3, <2>4, RowKeeps DEF Shape
  <2>6. GoesOn(h)
    BY <2>1, <2>3, <2>4 DEF GoesOn, Approves, Polls
  <2> QED
    BY <1>1, <2>1, <2>5, <2>6
<1>9. ASSUME (\E d \in Codes : Draw(h, d)) \/ CommitApproval(h) \/ \E k \in Tokens : CommitToken(h, k)
      PROVE  End(h)
  BY <1>9 DEF Draw, CommitApproval, CommitToken, Refuse
<1> QED
  BY <1>2, <1>3, <1>4, <1>5, <1>6, <1>7, <1>8, <1>9 DEF Handle

LEMMA ClientsOfServer ==
  ASSUME TypeInv, NEW h \in Handlers, Handle(h)
  PROVE  ClientType'
<1>1. saved' \in Tokens \cup {None}
  BY DEF Handle, Purge, Draw, MarkApproved, CommitApproval, LockCode, Check, ReadUser,
         InsertToken, ConfirmToken, CommitToken, Stays, TypeInv, ClientType
<1>2. CASE UNCHANGED client
  BY <1>1, <1>2 DEF TypeInv, ClientType
<1>3. ASSUME NEW answer, NEW k \in Tokens \cup {None}, Hear(h, answer, k) PROVE ClientType'
  BY <1>1, <1>3, HearKeeps DEF ClientOK, ClientType
<1>4. ASSUME NEW d \in Codes, Draw(h, d), ~UNCHANGED client PROVE ClientType'
  <2>1. PICK c \in Clients : c = handler[h].from
    BY <1>4 DEF Draw, TypeInv, HandlerType, Shape
  <2>2. client[c] \in ClientRows /\ now \in Nat /\ now + Life \in Nat /\ Interval \in Nat
    BY Constants DEF TypeInv, ClientType, Interval
  <2>3. PICK r : r = [client[c] EXCEPT !.code = d, !.deadline = now + Life]
    OBVIOUS
  <2>4. r \in ClientRows /\ r.code = d
    BY <2>2, <2>3 DEF ClientRows
  <2>5. PICK q \in ClientRows : q = Sleep(r, Interval) /\ q.code = d
    BY <2>2, <2>4, SleepTyped
  <2>6. client' = [client EXCEPT ![c] = q]
    BY <1>4, <2>1, <2>3, <2>5 DEF Draw
  <2> QED
    BY <1>1, <2>5, <2>6, ClientKeeps DEF ClientType
<1>5. UNCHANGED client \/ (\E d \in Codes : Draw(h, d))
        \/ \E answer : \E k \in Tokens \cup {None} : Hear(h, answer, k)
  <2>1. CASE \E answer : Refuse(h, answer)
    BY <2>1 DEF Refuse
  <2>2. CASE ~\E answer : Refuse(h, answer)
    <3>1. CASE Check(h)
      BY <2>2, <3>1 DEF Check
    <3>2. ASSUME NEW k \in Tokens, CommitToken(h, k) PROVE \E answer : Hear(h, answer, k)
      BY <2>2, <3>2 DEF CommitToken
    <3>3. Purge(h) \/ MarkApproved(h) \/ CommitApproval(h) \/ LockCode(h) \/ ReadUser(h)
            \/ InsertToken(h) \/ ConfirmToken(h) => UNCHANGED client
      BY <2>2 DEF Purge, MarkApproved, CommitApproval, LockCode, ReadUser, InsertToken,
                  ConfirmToken
    <3> QED
      BY <3>1, <3>2, <3>3 DEF Handle
  <2> QED
    BY <2>1, <2>2
<1> QED
  BY <1>2, <1>3, <1>4, <1>5

LEMMA AbortKeeps ==
  ASSUME TypeInv, NEW h \in Handlers, Aborts(h)
  PROVE  ClientType'
<1> DEFINE Hit(c) == c = handler[h].from /\ client[c].pc \in {"starting", "polling"}
<1>1. /\ client \in [Clients -> ClientRows]
      /\ client' = [c \in Clients |->
           IF Hit(c) THEN [client[c] EXCEPT !.pc = "failed"] ELSE client[c]]
  BY DEF TypeInv, ClientType, Aborts
<1> HIDE DEF Hit
<1>2. ASSUME NEW c \in Clients
      PROVE  /\ client'[c] \in ClientRows
             /\ client'[c].pc \in {"sleeping", "polling"} => client'[c] = client[c]
  BY <1>1, <1>2 DEF ClientRows
<1>3. client' \in [Clients -> ClientRows]
  BY <1>1, <1>2
<1> QED
  BY <1>2, <1>3 DEF TypeInv, ClientType, Aborts

LEMMA TypeStep == TypeInv /\ [Next]_vars => TypeInv'
<1> SUFFICES ASSUME TypeInv, [Next]_vars PROVE TypeInv'
  OBVIOUS
<1>1. BoundsType'
  BY BoundsStep
<1>2. ASSUME UNCHANGED <<database, codeLock, handler, client, saved>> PROVE TypeInv'
  BY <1>1, <1>2 DEF TypeInv, RowType, HandlerType, Shape, ClientType, database
<1>3. ASSUME ClientType', RequestTyped PROVE TypeInv'
  BY <1>1, <1>3 DEF TypeInv, RequestTyped, RowType, database
<1>4. ASSUME NEW h \in Handlers, Handle(h) PROVE TypeInv'
  <2>1. ClientType' /\ HandlerType' /\ codeLock' \in [Codes -> Handlers \cup {None}]
    BY <1>4, ClientsOfServer, RequestSteps
  <2>2. code' \in [Codes -> CodeRows] /\ token' \in [Tokens -> TokenRows]
    BY <1>4, RowsOfServer, RowsTyped DEF database, TypeInv, RowType
  <2> QED
    BY <1>1, <2>1, <2>2 DEF TypeInv, RowType
<1>5. ASSUME NEW h \in Handlers, Aborts(h) PROVE TypeInv'
  <2>1. End(h) /\ UNCHANGED database
    BY <1>5 DEF Aborts
  <2> QED
    BY <1>1, <1>5, <2>1, AbortKeeps, EndKeeps DEF TypeInv, RowType, database
<1>6. ASSUME NEW u, LockUser(u) \/ SetEnabled(u) PROVE TypeInv'
  BY <1>2, <1>6 DEF LockUser, SetEnabled
<1>7. CASE Tick \/ UNCHANGED vars
  BY <1>2, <1>7 DEF Tick, vars, database
<1> QED
  BY <1>3, <1>4, <1>5, <1>6, <1>7, ClientSteps, Beginnings, Constants DEF Next

-----------------------------------------------------------------------------
\* The lock on a code's row is where its holder is

(* Clients, users, the admin and time leave rows, locks and holders alone. *)
Elsewhere ==
  /\ UNCHANGED <<database, codeLock>>
  /\ \A h \in Handlers, d \in Codes :
       /\ Approves(h, d)' <=> Approves(h, d)
       /\ Polls(h, d)' <=> Polls(h, d)
       /\ Polls(h, d) => handler'[h] = handler[h]

LEMMA StartsElsewhere ==
  ASSUME TypeInv, NEW h \in Handlers, Others(h), handler[h].pc = "idle",
         handler'[h].pc \in {"purge", "update", "lock"}, UNCHANGED <<database, codeLock>>
  PROVE  Elsewhere
BY DEF Elsewhere, Others, Approves, Polls

LEMMA StepsElsewhere ==
  ASSUME TypeInv, [Next]_vars, ~\E h \in Handlers : Handle(h) \/ Aborts(h)
  PROVE  Elsewhere
<1>1. ASSUME UNCHANGED <<database, codeLock, handler>> PROVE Elsewhere
  BY <1>1 DEF Elsewhere, Approves, Polls
<1>2. ASSUME NEW h \in Handlers, NEW r, Serve(h, r), r.pc \in {"purge", "update", "lock"},
             UNCHANGED <<database, codeLock>>
      PROVE  Elsewhere
  <2>1. Others(h) /\ handler[h].pc = "idle" /\ handler'[h] = r
    BY <1>2 DEF Serve, TypeInv, HandlerType, Others
  <2> QED
    BY <1>2, <2>1, StartsElsewhere
<1>3. ASSUME NEW h \in Handlers, NEW c, Login(c, h) PROVE Elsewhere
  <2>1. [Free EXCEPT !.pc = "purge", !.op = "authorize", !.from = c].pc = "purge"
    BY DEF Free
  <2> QED
    BY <1>2, <1>3, <2>1 DEF Login
<1>4. ASSUME NEW d, NEW c PROVE PollRequest(d, c).pc = "lock"
  BY DEF PollRequest, Free
<1>5. ASSUME NEW h \in Handlers, NEW c, Poll(c, h) PROVE Elsewhere
  BY <1>2, <1>4, <1>5 DEF Poll
<1>6. ASSUME NEW h \in Handlers, NEW d \in Codes, Replay(d, h) PROVE Elsewhere
  BY <1>2, <1>4, <1>6 DEF Replay
<1>7. ASSUME NEW h \in Handlers, Approve(h) PROVE Elsewhere
  <2>1. PICK u \in scenario.users, d \in Codes :
          Serve(h, [Free EXCEPT !.pc = "update", !.op = "approve", !.code = d, !.user = u,
                                !.began = now])
    BY <1>7 DEF Approve
  <2>2. [Free EXCEPT !.pc = "update", !.op = "approve", !.code = d, !.user = u,
                     !.began = now].pc = "update"
    BY DEF Free
  <2> QED
    BY <1>2, <1>7, <2>1, <2>2 DEF Approve
<1>8. ASSUME NEW c, GiveUp(c) \/ Verify(c) \/ Write(c) \/ Breaks(c) PROVE Elsewhere
  BY <1>1, <1>8 DEF GiveUp, Verify, Write, Breaks
<1>9. ASSUME NEW u, LockUser(u) \/ SetEnabled(u) PROVE Elsewhere
  BY <1>1, <1>9 DEF LockUser, SetEnabled
<1>10. CASE Tick \/ UNCHANGED vars
  BY <1>1, <1>10 DEF Tick, vars, database
<1> QED
  BY <1>3, <1>5, <1>6, <1>7, <1>8, <1>9, <1>10 DEF Next, Advance

LEMMA FreeHoldsNothing ==
  ASSUME NEW h \in Handlers, handler'[h] = Free
  PROVE  \A d : ~Approves(h, d)' /\ ~Polls(h, d)'
BY DEF Free, Approves, Polls

LEMMA HeldByOthers ==
  ASSUME NEW h \in Handlers, Others(h), NEW g \in Handlers, g # h, NEW d
  PROVE  /\ Approves(g, d)' <=> Approves(g, d)
         /\ Polls(g, d)' <=> Polls(g, d)
         /\ handler'[g] = handler[g]
BY DEF Others, Approves, Polls

LEMMA EndLocks ==
  ASSUME TypeInv, LocksMeant, NEW h \in Handlers, End(h)
  PROVE  LocksMeant'
<1>1. handler'[h] = Free /\ Others(h)
  BY EndKeeps
<1>2. \A d \in Codes : codeLock'[d] = IF codeLock[d] = h THEN None ELSE codeLock[d]
  BY DEF End, Unlocked
<1> SUFFICES ASSUME NEW d \in Codes, NEW g \in Handlers
             PROVE  codeLock'[d] = g <=> Approves(g, d)' \/ Polls(g, d)'
  BY DEF LocksMeant
<1>3. CASE g = h
  BY <1>1, <1>2, <1>3, FreeHoldsNothing, Constants
<1>4. CASE g # h
  BY <1>1, <1>2, <1>4, HeldByOthers, Constants DEF LocksMeant
<1> QED
  BY <1>3, <1>4

LEMMA LocksStep == TypeInv /\ LocksMeant /\ [Next]_vars => LocksMeant'
<1> SUFFICES ASSUME TypeInv, LocksMeant, [Next]_vars PROVE LocksMeant'
  OBVIOUS
<1>1. CASE Elsewhere
  BY <1>1 DEF LocksMeant, Elsewhere
<1>2. ASSUME NEW h \in Handlers, NEW d \in Codes, Others(h), Takes(h, d) PROVE LocksMeant'
  <2> SUFFICES ASSUME NEW x \in Codes, NEW g \in Handlers
               PROVE  codeLock'[x] = g <=> Approves(g, x)' \/ Polls(g, x)'
    BY DEF LocksMeant
  <2>1. /\ codeLock'[d] = h /\ codeLock[d] = None
        /\ x # d => codeLock'[x] = codeLock[x]
    BY <1>2 DEF Takes, TypeInv, RowType
  <2>2. CASE g = h
    <3>1. Approves(h, x)' \/ Polls(h, x)' <=> x = d
      BY <1>2 DEF Takes, Approves, Polls
    <3>2. x # d => ~Approves(h, x) /\ ~Polls(h, x)
      BY <1>2 DEF Takes, Approves, Polls
    <3> QED
      BY <2>1, <2>2, <3>1, <3>2 DEF LocksMeant
  <2>3. CASE g # h
    BY <1>2, <2>1, <2>3, HeldByOthers, Constants DEF LocksMeant
  <2> QED
    BY <2>2, <2>3
<1>3. ASSUME NEW h \in Handlers, Others(h), GoesOn(h) PROVE LocksMeant'
  <2> SUFFICES ASSUME NEW x \in Codes, NEW g \in Handlers
               PROVE  codeLock'[x] = g <=> Approves(g, x)' \/ Polls(g, x)'
    BY DEF LocksMeant
  <2>1. CASE g = h
    BY <1>3, <2>1 DEF LocksMeant, GoesOn
  <2>2. CASE g # h
    BY <1>3, <2>2, HeldByOthers DEF LocksMeant, GoesOn
  <2> QED
    BY <2>1, <2>2
<1>4. ASSUME NEW h \in Handlers, Handle(h) PROVE LocksMeant'
  BY <1>2, <1>3, <1>4, RequestSteps, EndLocks
<1>5. ASSUME NEW h \in Handlers, Aborts(h) PROVE LocksMeant'
  BY <1>5, EndLocks DEF Aborts
<1> QED
  BY <1>1, <1>4, <1>5, StepsElsewhere

-----------------------------------------------------------------------------
\* What the holder of a lock read stays so

WorkInv == LocksMeant /\ Unapproved /\ ApprovalRead
Held(g, d) == Approves(g, d) \/ Polls(g, d)

LEMMA HeldRowKept ==
  ASSUME TypeInv, WorkInv, NEW h \in Handlers, UNCHANGED database \/ HandlerStep(h),
         NEW g \in Handlers, NEW d \in Codes, Held(g, d), g # h \/ UNCHANGED database \/ Purges
  PROVE  code'[d] = code[d]
<1>1. codeLock[d] = g /\ g # None /\ Live(d)
  BY Constants DEF WorkInv, LocksMeant, Unapproved, ApprovalRead, Held
<1>2. CASE UNCHANGED database
  BY <1>2 DEF database
<1>3. CASE Purges
  BY <1>1, <1>3 DEF Purges, CodeFree
<1>4. ASSUME NEW x \in Codes, Draws(x) PROVE code'[d] = code[d]
  BY <1>1, <1>4 DEF Draws, Live, TypeInv, RowType
<1>5. ASSUME NEW x \in Codes, Grants(h, x) \/ PutsOff(h, x) \/ \E k \in Tokens : Issues(h, x, k),
             g # h
      PROVE  code'[d] = code[d]
  <2>1. codeLock[x] = h
    BY <1>5 DEF Grants, PutsOff, Issues, WorkInv, LocksMeant
  <2>2. x # d
    BY <1>1, <1>5, <2>1
  <2> QED
    BY <1>5, <2>2 DEF Grants, PutsOff, Issues, TypeInv, RowType
<1> QED
  BY <1>2, <1>3, <1>4, <1>5 DEF HandlerStep

LEMMA KnownStep ==
  TypeInv /\ WorkInv /\ [Next]_vars => Unapproved' /\ ApprovalRead'
<1> SUFFICES ASSUME TypeInv, WorkInv, [Next]_vars PROVE Unapproved' /\ ApprovalRead'
  OBVIOUS
<1>1. CASE Elsewhere
  <2>1. Unapproved'
    BY <1>1 DEF WorkInv, Unapproved, Elsewhere, database, Live
  <2>2. ApprovalRead'
    BY <1>1 DEF WorkInv, ApprovalRead, Elsewhere, database, Live
  <2> QED
    BY <2>1, <2>2
<1>2. ASSUME NEW h \in Handlers, Handle(h) \/ Aborts(h), NEW g \in Handlers, NEW d \in Codes
      PROVE  /\ Approves(g, d)' => Live(d)' /\ code'[d].approved = None
             /\ Polls(g, d)' =>
                  /\ Live(d)' /\ handler'[g].user = code'[d].approved
                  /\ handler'[g].pc # "check" => ~code'[d].consumed /\ code'[d].approved # None
  <2>1. UNCHANGED database \/ HandlerStep(h)
    BY <1>2, RowsOfServer DEF Aborts
  <2>2. CASE g # h
    <3>1. Others(h)
      BY <1>2, EndKeeps, RequestSteps DEF Aborts
    <3>2. ASSUME Approves(g, d)' \/ Polls(g, d)' PROVE Held(g, d) /\ code'[d] = code[d]
      BY <2>1, <2>2, <3>1, <3>2, HeldByOthers, HeldRowKept DEF Held
    <3> QED
      BY <2>2, <3>1, <3>2, HeldByOthers DEF WorkInv, Unapproved, ApprovalRead, Live
  <2>3. CASE g = h /\ End(h)
    BY <2>3, EndKeeps, FreeHoldsNothing
  <2>4. ASSUME NEW x \in Codes, Takes(h, x), g = h
        PROVE  /\ Approves(g, d)' => Live(d)' /\ code'[d].approved = None
               /\ Polls(g, d)' => /\ Live(d)' /\ handler'[g].user = code'[d].approved
                                  /\ handler'[g].pc = "check"
    BY <2>4 DEF Takes, Approves, Polls, Approvable, Live, database
  <2>5. CASE g = h /\ GoesOn(h) /\ (UNCHANGED database \/ Purges)
    <3>1. ASSUME Approves(g, d)' \/ Polls(g, d)' PROVE Held(g, d) /\ code'[d] = code[d]
      <4>1. Held(g, d)
        BY <2>5, <3>1 DEF GoesOn, Held
      <4> QED
        BY <2>1, <2>5, <4>1, HeldRowKept
    <3>2. Approves(g, d)' => Live(d)' /\ code'[d].approved = None
      BY <2>5, <3>1 DEF GoesOn, WorkInv, Unapproved, Live
    <3>3. ASSUME Polls(g, d)'
          PROVE  /\ Live(d)' /\ handler'[g].user = code'[d].approved
                 /\ ~code'[d].consumed /\ code'[d].approved # None
      <4>1. Polls(g, d) /\ handler'[g].user = handler[g].user /\ code'[d] = code[d]
        BY <2>5, <3>1, <3>3 DEF GoesOn
      <4>2. Live(d) /\ handler[g].user = code[d].approved
        BY <4>1 DEF WorkInv, ApprovalRead
      <4>3. ~code[d].consumed /\ code[d].approved # None
        BY <2>5, <4>1, <4>2 DEF GoesOn, WorkInv, ApprovalRead
      <4> QED
        BY <4>1, <4>2, <4>3 DEF Live
    <3> QED
      BY <3>2, <3>3
  <2> QED
    BY <1>2, <2>2, <2>3, <2>4, <2>5, RequestSteps DEF Aborts
<1> QED
  BY <1>1, <1>2, StepsElsewhere DEF Unapproved, ApprovalRead

-----------------------------------------------------------------------------
\* What the rows say of each other stays so

LEMMA RowsStep == TypeInv /\ WorkInv /\ RowInv /\ [Next]_vars => RowInv'
<1> SUFFICES ASSUME TypeInv, WorkInv, RowInv, [Next]_vars PROVE RowInv'
  OBVIOUS
<1>1. CASE UNCHANGED database
  BY <1>1 DEF RowInv, UnusedIsNew, TokenOfCode, OneEach, database
<1>2. ASSUME UNCHANGED token,
             \A d \in Codes : /\ code'[d].state = "unused" => code'[d].approved = None
                              /\ code[d].state # "unused" => code'[d].state # "unused"
                              /\ code[d].state # "unused" /\ code[d].consumed => code'[d].consumed
      PROVE  RowInv'
  BY <1>2 DEF RowInv, UnusedIsNew, TokenOfCode, OneEach
<1>3. /\ code \in [Codes -> CodeRows] /\ token \in [Tokens -> TokenRows]
      /\ \A d \in Codes : code[d].state = "unused" => code[d].approved = None
  BY DEF TypeInv, RowType, RowInv, UnusedIsNew
<1>4. CASE Purges
  BY <1>2, <1>3, <1>4 DEF Purges, CodeRows
<1>5. ASSUME NEW d \in Codes, Draws(d) PROVE RowInv'
  <2>1. code'[d].state = "live" /\ \A x \in Codes \ {d} : code'[x] = code[x]
    BY <1>3, <1>5 DEF Draws, NoCode
  <2> QED
    BY <1>2, <1>3, <1>5, <2>1 DEF Draws
<1>6. ASSUME NEW h \in Handlers, NEW d \in Codes, Grants(h, d) \/ PutsOff(h, d) PROVE RowInv'
  <2>1. Live(d)
    BY <1>6 DEF Grants, PutsOff, WorkInv, Unapproved, ApprovalRead
  <2>2. code'[d].state = code[d].state /\ code'[d].consumed = code[d].consumed
        /\ \A x \in Codes \ {d} : code'[x] = code[x]
    BY <1>3, <1>6 DEF Grants, PutsOff, CodeRows
  <2> QED
    BY <1>2, <1>3, <1>6, <2>1, <2>2 DEF Grants, PutsOff, Live
<1>7. ASSUME NEW h \in Handlers, NEW d \in Codes, NEW k \in Tokens, Issues(h, d, k) PROVE RowInv'
  <2>1. Live(d) /\ ~code[d].consumed
    BY <1>7 DEF Issues, WorkInv, ApprovalRead
  <2>2. \A j \in Tokens : token[j].code # d
    BY <2>1, Constants DEF RowInv, TokenOfCode, NoToken
  <2>3. /\ code'[d].state = code[d].state /\ code'[d].approved = code[d].approved
        /\ code'[d].consumed /\ \A x \in Codes \ {d} : code'[x] = code[x]
    BY <1>3, <1>7 DEF Issues, CodeRows
  <2>4. token'[k].code = d /\ \A j \in Tokens \ {k} : token'[j] = token[j]
    BY <1>3, <1>7 DEF Issues
  <2>5. UnusedIsNew'
    BY <1>3, <2>3 DEF UnusedIsNew
  <2>6. TokenOfCode'
    BY <2>1, <2>3, <2>4 DEF RowInv, TokenOfCode, Live, NoToken
  <2>7. OneEach'
    <3>1. \A j \in Tokens \ {k} : token'[j].code # d
      BY <2>2, <2>4
    <3> QED
      BY <2>4, <3>1 DEF RowInv, OneEach, NoToken
  <2> QED
    BY <2>5, <2>6, <2>7 DEF RowInv
<1>8. ASSUME NEW h \in Handlers, Handle(h) PROVE RowInv'
  BY <1>1, <1>4, <1>5, <1>6, <1>7, <1>8, RowsOfServer DEF HandlerStep
<1>9. ASSUME NEW h \in Handlers, Aborts(h) PROVE RowInv'
  BY <1>1, <1>9 DEF Aborts
<1> QED
  BY <1>1, <1>8, <1>9, StepsElsewhere DEF Elsewhere

-----------------------------------------------------------------------------
\* The theorems

LEMMA InvInit == Init => IInv
<1> SUFFICES ASSUME Init PROVE IInv
  OBVIOUS
<1>1. /\ scenario \in Scenarios /\ scenario.time \in Nat /\ scenario.approvals \in Nat
      /\ scenario.replays \in Nat /\ scenario.faults \in Nat /\ scenario.changes \in Nat
  BY DeviceAssumption DEF Init, Scenario
<1>2. BoundsType
  BY <1>1 DEF Init, BoundsType
<1>3. RowType
  BY DEF Init, RowType, CodeRows, TokenRows, NoCode, NoToken
<1>4. HandlerType
  BY FreeTyped DEF Init, HandlerType, Shape, Free
<1>5. ClientType
  BY DEF Init, ClientType, ClientRows, Resting
<1>6. \A h \in Handlers : \A d : ~Approves(h, d) /\ ~Polls(h, d)
  BY DEF Init, Free, Approves, Polls
<1>7. LocksMeant /\ Unapproved /\ ApprovalRead
  BY <1>6, Constants DEF Init, LocksMeant, Unapproved, ApprovalRead
<1>8. RowInv
  BY DEF Init, RowInv, UnusedIsNew, TokenOfCode, OneEach, NoCode
<1> QED
  BY <1>2, <1>3, <1>4, <1>5, <1>7, <1>8 DEF IInv, TypeInv

LEMMA InvStep == IInv /\ [Next]_vars => IInv'
BY TypeStep, LocksStep, KnownStep, RowsStep DEF IInv, WorkInv

LEMMA InvAlways == Spec => []IInv
<1>1. Init => IInv
  BY InvInit
<1>2. IInv /\ [Next]_vars => IInv'
  BY InvStep
<1> QED
  BY <1>1, <1>2, PTL DEF Spec

(* However often a device polls, and whichever of its requests fail or are *)
(* repeated: one device code yields one token.                             *)
THEOREM DeviceTokensUnique == Spec => []OneTokenPerCode
<1>1. ASSUME IInv PROVE OneTokenPerCode
  <2>1. \A d \in Codes : codeLock[d] # None => handler[codeLock[d]].code = d
    BY <1>1 DEF IInv, TypeInv, RowType, LocksMeant, Approves, Polls
  <2>2. TypeOK
    BY <1>1, <2>1 DEF IInv, TypeInv, BoundsType, RowType, HandlerType, ClientType, TypeOK,
                      CodeRows, TokenRows, HandlerRows, ClientRows
  <2> QED
    BY <1>1, <2>2 DEF IInv, RowInv, OneEach, OneTokenPerCode
<1> QED
  BY <1>1, InvAlways, PTL

(* A request that has passed the insert holds the row of its user, which   *)
(* no administrator then holds; one that has passed the last check works   *)
(* for an enabled user, and on a code that outlived its last wait.         *)
Ready(h) ==
  LET r == handler[h] IN
  /\ r.waited <= now
  /\ r.op = "token" /\ r.pc \in {"confirm", "commit"} => adminLock # r.user
  /\ r.pc = "commit" => enabled[r.user] /\ r.waited < code[r.code].expires
AllReady == \A h \in Handlers : Ready(h)

LEMMA CommitsPoll ==
  ASSUME TypeInv, WorkInv, NEW h \in Handlers, handler[h].op = "token",
         handler[h].pc \in {"confirm", "commit"}
  PROVE  \E d \in Codes : /\ handler[h].code = d /\ Polls(h, d)
                          /\ handler[h].user = code[d].approved
                          /\ handler[h].user \in Users
<1>1. PICK d \in Codes : d = handler[h].code
  BY DEF TypeInv, HandlerType, Shape
<1>2. Polls(h, d)
  BY <1>1 DEF Polls
<1>3. handler[h].user = code[d].approved /\ code[d].approved # None
  BY <1>2 DEF WorkInv, ApprovalRead
<1> QED
  BY <1>1, <1>2, <1>3 DEF TypeInv, RowType, CodeRows

(* A request that itself does not move stays ready beside one that does.   *)
LEMMA OthersReady ==
  ASSUME TypeInv, WorkInv, AllReady, NEW h \in Handlers, Handle(h) \/ Aborts(h),
         NEW g \in Handlers, g # h
  PROVE  Ready(g)'
<1>1. Others(h) /\ UNCHANGED <<now, enabled, adminLock>>
  <2>1. Others(h)
    BY RequestSteps, EndKeeps DEF Aborts
  <2>2. CASE Aborts(h)
    BY <2>1, <2>2 DEF Aborts, admin
  <2>3. CASE Handle(h)
    BY <2>1, <2>3 DEF Handle, Purge, Draw, MarkApproved, CommitApproval, LockCode, Check, ReadUser,
                      InsertToken, ConfirmToken, CommitToken, Stays, admin
  <2> QED
    BY <2>2, <2>3
<1>2. handler'[g] = handler[g]
  BY <1>1 DEF Others
<1>3. CASE handler[g].pc # "commit"
  BY <1>1, <1>2, <1>3 DEF AllReady, Ready
<1>4. CASE handler[g].pc = "commit"
  <2>1. handler[g].op = "token"
    BY <1>4 DEF TypeInv, HandlerType, Shape
  <2>2. PICK d \in Codes : handler[g].code = d /\ Polls(g, d)
    BY <1>4, <2>1, CommitsPoll
  <2>3. UNCHANGED database \/ HandlerStep(h)
    BY RowsOfServer DEF Aborts
  <2>4. code'[d] = code[d]
    BY <2>2, <2>3, HeldRowKept DEF Held
  <2> QED
    BY <1>1, <1>2, <2>2, <2>4 DEF AllReady, Ready
<1> QED
  BY <1>3, <1>4

LEMMA MoverReady ==
  ASSUME TypeInv, WorkInv, AllReady, NEW h \in Handlers, Handle(h) \/ Aborts(h)
  PROVE  Ready(h)'
<1> DEFINE r == handler[h]
<1>1. /\ r \in HandlerRows /\ handler \in [Handlers -> HandlerRows] /\ Shape(h)
      /\ Ready(h) /\ now \in Nat
  BY Constants DEF TypeInv, HandlerType, AllReady
<1>2. UNCHANGED <<now, enabled, adminLock>>
  <2>1. CASE Aborts(h)
    BY <2>1 DEF Aborts, admin
  <2>2. CASE Handle(h)
    BY <2>2 DEF Handle, Purge, Draw, MarkApproved, CommitApproval, LockCode, Check, ReadUser,
                InsertToken, ConfirmToken, CommitToken, Stays, admin
  <2> QED
    BY <2>1, <2>2
<1>3. CASE End(h)
  <2>1. handler'[h] = Free
    BY <1>3, EndKeeps
  <2> QED
    BY <1>1, <1>2, <2>1 DEF Ready, Free
<1>4. CASE Purge(h) \/ (MarkApproved(h) /\ ~End(h))
  <2>1. PICK pc \in {"draw", "confirm"} :
          /\ Goto(h, pc) /\ r.op # "token" /\ r.pc # "idle"
          /\ \/ r.op = "authorize" /\ pc = "draw"
             \/ r.op = "approve" /\ pc = "confirm"
    BY <1>1, <1>4 DEF Purge, MarkApproved, Refuse, Shape
  <2>2. /\ handler'[h].pc = pc /\ handler'[h].op = r.op /\ handler'[h].waited = r.waited
    BY <2>1, MovesOn
  <2> QED
    BY <1>1, <1>2, <2>1, <2>2 DEF Ready
<1>5. CASE (LockCode(h) \/ Check(h)) /\ ~End(h)
  <2>1. handler'[h].pc \in {"check", "insert"} /\ handler'[h].waited = r.waited
    BY <1>1, <1>5 DEF LockCode, Check, Refuse, HandlerRows
  <2> QED
    BY <1>1, <1>2, <2>1 DEF Ready
<1>6. CASE ReadUser(h) /\ ~End(h)
  <2>1. Goto(h, "refer") /\ r.op = "token" /\ r.pc # "idle"
    BY <1>1, <1>6 DEF ReadUser, Refuse, Shape
  <2>2. handler'[h].pc = "refer" /\ handler'[h].waited = r.waited
    BY <2>1, MovesOn
  <2> QED
    BY <1>1, <1>2, <2>2 DEF Ready
<1>7. CASE InsertToken(h)
  <2>1. /\ handler'[h].pc = "confirm" /\ handler'[h].waited = now /\ handler'[h].user = r.user
        /\ adminLock # r.user
    BY <1>1, <1>7 DEF InsertToken, UserFree, HandlerRows
  <2> QED
    BY <1>1, <1>2, <2>1 DEF Ready
<1>8. CASE ConfirmToken(h) /\ ~End(h)
  <2>1. /\ Goto(h, "commit") /\ r.op = "token" /\ r.pc = "confirm" /\ UNCHANGED database
        /\ FinalVerdict(r.code, r.user) = "token"
    BY <1>8 DEF ConfirmToken, Refuse
  <2>2. /\ handler'[h].pc = "commit" /\ handler'[h].op = r.op /\ handler'[h].waited = r.waited
        /\ handler'[h].user = r.user /\ handler'[h].code = r.code
    BY <2>1, MovesOn
  <2>3. PICK d \in Codes : r.code = d
    BY <2>1, CommitsPoll
  <2>4. enabled[r.user] /\ ~(code[d].expires <= now)
    BY <2>1, <2>3 DEF FinalVerdict
  <2>5. code[d].expires \in Nat /\ r.waited \in Nat /\ r.waited <= now
    BY <1>1 DEF TypeInv, RowType, CodeRows, HandlerRows, Ready
  <2>6. r.waited < code[d].expires
    BY <1>1, <2>4, <2>5
  <2> QED
    BY <1>1, <1>2, <2>1, <2>2, <2>3, <2>4, <2>6 DEF Ready, database
<1>9. ASSUME \/ Aborts(h) \/ CommitApproval(h) \/ \E d \in Codes : Draw(h, d)
             \/ \E k \in Tokens : CommitToken(h, k)
      PROVE  End(h)
  BY <1>9 DEF Aborts, Draw, CommitApproval, CommitToken, Refuse
<1> QED
  BY <1>3, <1>4, <1>5, <1>6, <1>7, <1>8, <1>9 DEF Handle

LEMMA BeginnerReady ==
  ASSUME TypeInv, AllReady, NEW h \in Handlers, NEW r, Serve(h, r), r.waited = 0,
         r.pc \in {"purge", "update", "lock"}, UNCHANGED <<now, admin, database>>
  PROVE  AllReady'
<1>1. handler'[h] = r /\ \A g \in Handlers \ {h} : handler'[g] = handler[g]
  BY DEF Serve, TypeInv, HandlerType
<1>2. now \in Nat /\ UNCHANGED <<now, enabled, adminLock, code>>
  BY Constants DEF admin, database
<1>3. Ready(h)'
  BY <1>1, <1>2 DEF Ready
<1>4. ASSUME NEW g \in Handlers, g # h PROVE Ready(g)'
  BY <1>1, <1>2, <1>4 DEF AllReady, Ready
<1> QED
  BY <1>3, <1>4 DEF AllReady

LEMMA ReadyStep == TypeInv /\ WorkInv /\ AllReady /\ [Next]_vars => AllReady'
<1> SUFFICES ASSUME TypeInv, WorkInv, AllReady, [Next]_vars PROVE AllReady'
  OBVIOUS
<1>1. ASSUME UNCHANGED <<now, enabled, adminLock, code, handler>> PROVE AllReady'
  BY <1>1 DEF AllReady, Ready
<1>2. ASSUME NEW h \in Handlers, Handle(h) \/ Aborts(h) PROVE AllReady'
  BY <1>2, MoverReady, OthersReady DEF AllReady
<1>3. ASSUME NEW h \in Handlers, NEW c, Login(c, h) PROVE AllReady'
  <2>1. PICK r : r = [Free EXCEPT !.pc = "purge", !.op = "authorize", !.from = c]
    OBVIOUS
  <2>2. r.pc = "purge" /\ r.waited = 0
    BY <2>1 DEF Free
  <2> QED
    BY <1>3, <2>1, <2>2, BeginnerReady DEF Login
<1>4. ASSUME NEW d, NEW c PROVE PollRequest(d, c).pc = "lock" /\ PollRequest(d, c).waited = 0
  BY DEF PollRequest, Free
<1>5. ASSUME NEW h \in Handlers, NEW c, Poll(c, h) PROVE AllReady'
  BY <1>4, <1>5, BeginnerReady DEF Poll
<1>6. ASSUME NEW h \in Handlers, NEW d \in Codes, Replay(d, h) PROVE AllReady'
  BY <1>4, <1>6, BeginnerReady DEF Replay
<1>7. ASSUME NEW h \in Handlers, Approve(h) PROVE AllReady'
  <2>1. PICK u \in scenario.users, d \in Codes :
          Serve(h, [Free EXCEPT !.pc = "update", !.op = "approve", !.code = d, !.user = u,
                                !.began = now])
    BY <1>7 DEF Approve
  <2>2. PICK r : r = [Free EXCEPT !.pc = "update", !.op = "approve", !.code = d, !.user = u,
                                  !.began = now]
    OBVIOUS
  <2>3. r.pc = "update" /\ r.waited = 0
    BY <2>2 DEF Free
  <2> QED
    BY <1>7, <2>1, <2>2, <2>3, BeginnerReady DEF Approve
<1>8. ASSUME NEW c, GiveUp(c) \/ Verify(c) \/ Write(c) \/ Breaks(c) PROVE AllReady'
  BY <1>1, <1>8 DEF GiveUp, Verify, Write, Breaks, admin, database
<1>9. ASSUME NEW u \in Users, LockUser(u) PROVE AllReady'
  BY <1>9 DEF LockUser, Referred, AllReady, Ready, database
<1>10. ASSUME NEW u \in Users, SetEnabled(u) PROVE AllReady'
  <2>1. /\ adminLock = u /\ adminLock' = None /\ enabled' = [enabled EXCEPT ![u] = ~enabled[u]]
        /\ UNCHANGED <<now, code, handler>>
    BY <1>10 DEF SetEnabled, database
  <2> SUFFICES ASSUME NEW h \in Handlers PROVE Ready(h)'
    BY DEF AllReady
  <2>2. Ready(h)
    BY DEF AllReady
  <2>3. handler[h].pc = "commit" => handler[h].op = "token"
    BY DEF TypeInv, HandlerType, Shape
  <2>4. ASSUME handler[h].op = "token", handler[h].pc \in {"confirm", "commit"}
        PROVE  /\ handler[h].user # None
               /\ enabled'[handler[h].user] = enabled[handler[h].user]
    <3>1. handler[h].user \in Users /\ handler[h].user # u
      BY <2>1, <2>2, <2>4, CommitsPoll DEF Ready
    <3> QED
      BY <2>1, <3>1, Constants DEF TypeInv, BoundsType
  <2> QED
    BY <2>1, <2>2, <2>3, <2>4 DEF Ready
<1>11. CASE Tick
  <2>1. now' = now + 1 /\ now \in Nat /\ UNCHANGED <<enabled, adminLock, code, handler>>
    BY <1>11, Constants DEF Tick, admin, database
  <2>2. \A h \in Handlers : handler[h].waited \in Nat
    BY DEF TypeInv, HandlerType, HandlerRows
  <2> QED
    BY <2>1, <2>2 DEF AllReady, Ready
<1>12. CASE UNCHANGED vars
  BY <1>1, <1>12 DEF vars
<1> QED
  BY <1>2, <1>3, <1>5, <1>6, <1>7, <1>8, <1>9, <1>10, <1>11, <1>12, Constants DEF Next, Advance

LEMMA ReadyAlways == Spec => [](IInv /\ AllReady)
<1>1. Init => AllReady
  BY DEF Init, AllReady, Ready, Free
<1>2. IInv /\ AllReady /\ [Next]_vars => AllReady'
  BY ReadyStep DEF IInv, WorkInv
<1> QED
  BY <1>1, <1>2, InvAlways, PTL DEF Spec

(* What a step that issues a token is held to.                             *)
IssuedOnTerms ==
  \A k \in Tokens : Issued(k) =>
    /\ token'[k].code \in Codes /\ token'[k].user = code[token'[k].code].approved
    /\ enabled[token'[k].user]
    /\ \A h \in Handlers : handler[h].pc = "commit" /\ handler'[h].pc = "idle" =>
         handler[h].waited < code[token'[k].code].expires
ApprovalKept ==
  \A d \in Codes : code[d].approved # None => code'[d].approved = code[d].approved

LEMMA TermsOfTokens ==
  ASSUME IInv, [Next]_vars
  PROVE  (AllReady => IssuedOnTerms) /\ ApprovalKept
<1>1. TypeInv /\ WorkInv /\ RowInv
  BY DEF IInv, WorkInv
<1>2. /\ code \in [Codes -> CodeRows] /\ token \in [Tokens -> TokenRows] /\ now \in Nat
  BY <1>1, Constants DEF TypeInv, RowType
<1>3. ASSUME UNCHANGED token PROVE IssuedOnTerms
  BY <1>3 DEF IssuedOnTerms, Issued
<1>4. CASE UNCHANGED database
  BY <1>3, <1>4 DEF database, ApprovalKept
<1>5. CASE Purges
  BY <1>2, <1>3, <1>5 DEF Purges, ApprovalKept, CodeRows
<1>6. ASSUME NEW d \in Codes, Draws(d) PROVE IssuedOnTerms /\ ApprovalKept
  <2>1. code[d].approved = None /\ \A x \in Codes \ {d} : code'[x] = code[x]
    BY <1>1, <1>2, <1>6 DEF Draws, RowInv, UnusedIsNew
  <2> QED
    BY <1>3, <1>6, <2>1 DEF Draws, ApprovalKept
<1>7. ASSUME NEW h \in Handlers, NEW d \in Codes, Grants(h, d) PROVE IssuedOnTerms /\ ApprovalKept
  <2>1. code[d].approved = None /\ \A x \in Codes \ {d} : code'[x] = code[x]
    BY <1>1, <1>2, <1>7 DEF Grants, WorkInv, Unapproved
  <2> QED
    BY <1>3, <1>7, <2>1 DEF Grants, ApprovalKept
<1>8. ASSUME NEW h \in Handlers, NEW d \in Codes, PutsOff(h, d) PROVE IssuedOnTerms /\ ApprovalKept
  <2>1. \A x \in Codes : code'[x].approved = code[x].approved
    BY <1>2, <1>8 DEF PutsOff, CodeRows
  <2> QED
    BY <1>3, <1>8, <2>1 DEF PutsOff, ApprovalKept
<1>9. ASSUME NEW h \in Handlers, NEW d \in Codes, NEW k \in Tokens, Issues(h, d, k), Others(h)
      PROVE  (AllReady => IssuedOnTerms) /\ ApprovalKept
  <2>1. \A x \in Codes : code'[x].approved = code[x].approved
    BY <1>2, <1>9 DEF Issues, CodeRows
  <2>2. /\ token'[k].code = d /\ token'[k].user = handler[h].user
        /\ \A j \in Tokens \ {k} : token'[j] = token[j]
    BY <1>2, <1>9 DEF Issues
  <2>3. /\ handler[h].user = code[d].approved
        /\ AllReady => enabled[handler[h].user] /\ handler[h].waited < code[d].expires
    BY <1>1, <1>2, <1>9 DEF Issues, WorkInv, ApprovalRead, AllReady, Ready, Polls
  <2>4. \A g \in Handlers : handler[g].pc = "commit" /\ handler'[g].pc = "idle" => g = h
    BY <1>9 DEF Others
  <2>5. AllReady => IssuedOnTerms
    BY <1>9, <2>2, <2>3, <2>4 DEF IssuedOnTerms, Issued
  <2> QED
    BY <2>1, <2>5 DEF ApprovalKept
<1>10. ASSUME NEW h \in Handlers, Handle(h) \/ Aborts(h)
       PROVE  UNCHANGED database \/ (HandlerStep(h) /\ Others(h))
  BY <1>1, <1>10, RowsOfServer, RequestSteps DEF Aborts
<1> QED
  BY <1>1, <1>4, <1>5, <1>6, <1>7, <1>8, <1>9, <1>10, StepsElsewhere DEF HandlerStep, Elsewhere

(* A token is issued only to the user who approved the code first, while   *)
(* that user is enabled, and from a code that had not expired when the     *)
(* request that issues it last waited for a row.                           *)
THEOREM DeviceTokensGated == Spec => TokensGated
<1> DEFINE Sticks ==
             \A d \in Codes :
               /\ code[d].approved # None => code'[d].approved = code[d].approved
               /\ \A k \in Tokens :
                    Issued(k) /\ token'[k].code = d => token'[k].user = code[d].approved
           InTime == \A k \in Tokens, h \in Handlers :
             Issued(k) /\ handler[h].pc = "commit" /\ handler'[h].pc = "idle" =>
               handler[h].waited < code[token'[k].code].expires
           Allowed == \A k \in Tokens : Issued(k) => enabled[token'[k].user]
<1>1. ASSUME IInv, AllReady, [Next]_vars PROVE [Sticks]_vars /\ [InTime]_vars /\ [Allowed]_vars
  BY <1>1, TermsOfTokens DEF IssuedOnTerms, ApprovalKept
<1>2. [][Sticks]_vars /\ [][InTime]_vars /\ [][Allowed]_vars => TokensGated
  BY PTL DEF TokensGated, ApprovalSticks, NoTokenAfterExpiry, NoTokenWhileDisabled
<1> QED
  BY <1>1, <1>2, ReadyAlways, PTL DEF Spec

-----------------------------------------------------------------------------
\* A login whose code is approved is not missed

(* Where nothing disturbs the logins, each poll under way is one that its  *)
(* client waits for, and a client that waits is in time: its code is still *)
(* there and unconsumed, it ends when the client gives up, and the server  *)
(* asks for no longer pause than the client makes.                         *)
Serving(h) == handler[h].op = "token" /\ handler[h].pc # "idle"
Waits(c) == client[c].pc \in {"sleeping", "polling"}

AllEnabled == adminLock = None /\ \A u \in Users : enabled[u]
ApprovedAlone ==
  \A h \in Handlers : handler[h].op = "approve" /\ handler[h].pc # "idle" =>
    handler[h].from = None
Heard ==
  \A h \in Handlers : Serving(h) =>
    \E c \in Clients : /\ handler[h].from = c /\ client[c].pc = "polling"
                       /\ client[c].code = handler[h].code
Served ==
  \A c \in Clients : client[c].pc = "polling" =>
    \E h \in Handlers : Serving(h) /\ handler[h].from = c
ServedOnce ==
  \A g, h \in Handlers : Serving(g) /\ Serving(h) /\ handler[g].from = handler[h].from => g = h
Timely ==
  \A c \in Clients, d \in Codes : Waits(c) /\ client[c].code = d =>
    /\ Live(d) /\ ~code[d].consumed /\ code[d].expires = client[c].deadline
    /\ code[d].nextPoll <= client[c].wake /\ client[c].wake <= client[c].deadline
    /\ client[c].interval = Interval
    /\ client[c].pc = "sleeping" => now <= client[c].wake
    /\ client[c].pc = "polling" => client[c].wake <= now /\ now < client[c].deadline
CodesApart ==
  \A b, c \in Clients : Waits(b) /\ Waits(c) /\ client[b].code = client[c].code => b = c
Authentic ==
  \A c \in Clients : client[c].pc = "verify" =>
    \E k \in Tokens : client[c].token = k /\ token[k] # NoToken /\ token[k].user \in Users

PromptInv ==
  /\ AllEnabled /\ ApprovedAlone /\ Heard /\ Served /\ ServedOnce
  /\ Timely /\ CodesApart /\ Authentic

(* What most steps leave alone: polls under way, clients that wait, and    *)
(* what those rely on.                                                     *)
SameService ==
  \A h \in Handlers :
    /\ Serving(h)' <=> Serving(h)
    /\ Serving(h) => handler'[h].from = handler[h].from /\ handler'[h].code = handler[h].code
Settles(c) ==
  /\ client'[c].pc \notin {"sleeping", "polling", "verify"} /\ client[c].pc # "polling"
  /\ client[c].pc = "sleeping" => now >= client[c].deadline
  /\ client[c].pc = "verify" => client'[c].pc = "write"
SameWaits == \A c \in Clients : client'[c] = client[c] \/ Settles(c)
SameCodes ==
  \A d \in Codes : (\E c \in Clients : Waits(c) /\ client[c].code = d) =>
    /\ code'[d].state = code[d].state /\ code'[d].consumed = code[d].consumed
    /\ code'[d].expires = code[d].expires /\ code'[d].nextPoll = code[d].nextPoll
Quiet == SameService /\ SameWaits /\ SameCodes /\ UNCHANGED <<now, token>>

LEMMA QuietKeeps ==
  ASSUME IInv, PromptInv, Quiet, AllEnabled', ApprovedAlone'
  PROVE  PromptInv'
<1>1. /\ \A c \in Clients : Waits(c) => client[c].code \in Codes
      /\ \A c \in Clients : client'[c].pc \in {"sleeping", "polling", "verify"} =>
                              client'[c] = client[c]
  BY DEF IInv, TypeInv, ClientType, Waits, Quiet, SameWaits, Settles
<1>2. \A c \in Clients : client[c].pc = "polling" => client'[c] = client[c]
  BY DEF Quiet, SameWaits, Settles
<1>3. Heard'
  BY <1>2 DEF PromptInv, Heard, Quiet, SameService
<1>4. Served'
  BY <1>1 DEF PromptInv, Served, Quiet, SameService
<1>5. ServedOnce'
  BY DEF PromptInv, ServedOnce, Quiet, SameService
<1>6. Timely'
  <2> SUFFICES ASSUME NEW c \in Clients, NEW d \in Codes, Waits(c)', client'[c].code = d
               PROVE  (/\ Live(d) /\ ~code[d].consumed /\ code[d].expires = client[c].deadline
                       /\ code[d].nextPoll <= client[c].wake
                       /\ client[c].wake <= client[c].deadline
                       /\ client[c].interval = Interval
                       /\ client[c].pc = "sleeping" => now <= client[c].wake
                       /\ client[c].pc = "polling" =>
                            client[c].wake <= now /\ now < client[c].deadline)'
    BY DEF Timely
  <2>1. client'[c] = client[c] /\ Waits(c)
    BY <1>1 DEF Waits
  <2>2. /\ code'[d].state = code[d].state /\ code'[d].consumed = code[d].consumed
        /\ code'[d].expires = code[d].expires /\ code'[d].nextPoll = code[d].nextPoll
    BY <2>1 DEF Quiet, SameCodes
  <2>3. /\ Live(d) /\ ~code[d].consumed /\ code[d].expires = client[c].deadline
        /\ code[d].nextPoll <= client[c].wake /\ client[c].wake <= client[c].deadline
        /\ client[c].interval = Interval
        /\ client[c].pc = "sleeping" => now <= client[c].wake
        /\ client[c].pc = "polling" => client[c].wake <= now /\ now < client[c].deadline
    BY <2>1 DEF PromptInv, Timely
  <2> QED
    BY <2>1, <2>2, <2>3 DEF Live, Quiet, Interval
<1>7. CodesApart'
  BY <1>1 DEF PromptInv, CodesApart, Waits
<1>8. Authentic'
  BY <1>1 DEF PromptInv, Authentic, Quiet
<1> QED
  BY <1>3, <1>4, <1>5, <1>6, <1>7, <1>8 DEF PromptInv

LEMMA ScenarioRigid ==
  ASSUME [Next]_vars
  PROVE  UNCHANGED scenario
<1>1. ASSUME NEW h, Handle(h) PROVE UNCHANGED scenario
  BY <1>1 DEF Handle, Purge, Draw, MarkApproved, CommitApproval, LockCode, Check, ReadUser,
              InsertToken, ConfirmToken, CommitToken, Stays, admin
<1>2. ASSUME NEW c, Advance(c) \/ Breaks(c) \/ \E h \in Handlers : Login(c, h)
      PROVE  UNCHANGED scenario
  BY <1>2 DEF Advance, Poll, GiveUp, Verify, Write, Login, Breaks, admin
<1>3. ASSUME NEW h, Aborts(h) \/ Approve(h) \/ \E d \in Codes : Replay(d, h)
      PROVE  UNCHANGED scenario
  BY <1>3 DEF Aborts, Approve, Replay, admin
<1>4. ASSUME NEW u, LockUser(u) \/ SetEnabled(u) PROVE UNCHANGED scenario
  BY <1>4 DEF LockUser, SetEnabled
<1>5. CASE Tick \/ UNCHANGED vars
  BY <1>5 DEF Tick, vars, admin
<1> QED
  BY <1>1, <1>2, <1>3, <1>4, <1>5 DEF Next

(* What the scenario rules out.                                            *)
LEMMA NothingDisturbs ==
  ASSUME IInv, PromptInv, Undisturbed, [Next]_vars
  PROVE  /\ Undisturbed' /\ AllEnabled'
         /\ ~\E c \in Clients : Breaks(c)
         /\ \A h \in Handlers : ~Aborts(h) /\ ~\E d \in Codes : Replay(d, h)
<1>1. /\ faults = 0 /\ replays = 0 /\ changes = 0
      /\ scenario.faults = 0 /\ scenario.replays = 0 /\ scenario.changes = 0
  BY DEF IInv, TypeInv, BoundsType, Undisturbed
<1>2. /\ ~\E c \in Clients : Breaks(c)
      /\ \A h \in Handlers : ~Aborts(h) /\ ~\E d \in Codes : Replay(d, h)
  BY <1>1 DEF Breaks, Aborts, Replay
<1>3. \A u \in Users : ~LockUser(u) /\ ~SetEnabled(u)
  BY <1>1, Constants DEF LockUser, SetEnabled, PromptInv, AllEnabled
<1>4. UNCHANGED <<enabled, adminLock, scenario>>
  <2>1. ASSUME NEW h \in Handlers, Handle(h) PROVE UNCHANGED <<enabled, adminLock, scenario>>
    BY <2>1 DEF Handle, Purge, Draw, MarkApproved, CommitApproval, LockCode, Check, ReadUser,
                InsertToken, ConfirmToken, CommitToken, Stays, admin
  <2>2. ASSUME NEW c, Advance(c) \/ \E h \in Handlers : Login(c, h)
        PROVE  UNCHANGED <<enabled, adminLock, scenario>>
    BY <2>2 DEF Advance, Poll, GiveUp, Verify, Write, Login, admin
  <2>3. ASSUME NEW h, Approve(h) PROVE UNCHANGED <<enabled, adminLock, scenario>>
    BY <2>3 DEF Approve, admin
  <2>4. CASE Tick \/ UNCHANGED vars
    BY <2>4 DEF Tick, vars, admin
  <2> QED
    BY <1>2, <1>3, <2>1, <2>2, <2>3, <2>4, Constants DEF Next, IInv
<1> QED
  BY <1>2, <1>4 DEF Undisturbed, PromptInv, AllEnabled

(* A request keeps its client and its code until it ends.                  *)
LEMMA KeepsRole ==
  ASSUME TypeInv, NEW h \in Handlers, Handle(h)
  PROVE  /\ Others(h) /\ handler[h].pc # "idle"
         /\ \/ handler'[h] = Free
            \/ /\ handler'[h].op = handler[h].op /\ handler'[h].from = handler[h].from
               /\ handler'[h].code = handler[h].code /\ handler'[h].pc # "idle"
<1>1. handler \in [Handlers -> HandlerRows] /\ Others(h)
  BY RequestSteps DEF TypeInv, HandlerType
<1>2. handler[h].pc # "idle"
  BY DEF Handle, Purge, Draw, MarkApproved, CommitApproval, LockCode, Check, ReadUser,
         InsertToken, ConfirmToken, CommitToken
<1>3. ASSUME End(h) PROVE handler'[h] = Free
  BY <1>1, <1>3 DEF End
<1>4. ASSUME NEW pc \in {"draw", "confirm", "refer", "commit"}, Goto(h, pc)
      PROVE  /\ handler'[h].op = handler[h].op /\ handler'[h].from = handler[h].from
             /\ handler'[h].code = handler[h].code /\ handler'[h].pc # "idle"
  BY <1>1, <1>4 DEF Goto, HandlerRows
<1>5. CASE LockCode(h) \/ Check(h) \/ InsertToken(h)
  BY <1>1, <1>3, <1>5 DEF LockCode, Check, InsertToken, Refuse, HandlerRows
<1>6. CASE Purge(h) \/ MarkApproved(h) \/ ReadUser(h) \/ ConfirmToken(h)
  <2>1. End(h) \/ \E pc \in {"draw", "confirm", "refer", "commit"} : Goto(h, pc)
    BY <1>6 DEF Purge, MarkApproved, ReadUser, ConfirmToken, Refuse
  <2> QED
    BY <1>1, <1>2, <1>3, <1>4, <2>1
<1>7. ASSUME (\E d \in Codes : Draw(h, d)) \/ CommitApproval(h) \/ \E k \in Tokens : CommitToken(h, k)
      PROVE  End(h)
  BY <1>7 DEF Draw, CommitApproval, CommitToken, Refuse
<1> QED
  BY <1>1, <1>2, <1>3, <1>5, <1>6, <1>7 DEF Handle

LEMMA ServeBegins ==
  ASSUME TypeInv, NEW h \in Handlers, NEW r, Serve(h, r)
  PROVE  Others(h) /\ handler[h].pc = "idle" /\ handler'[h] = r
BY DEF Serve, TypeInv, HandlerType, Others

LEMMA ApproveBegins ==
  ASSUME NEW h, Approve(h)
  PROVE  \E r : Serve(h, r) /\ r.op = "approve" /\ r.from = None
<1>1. PICK u \in scenario.users, d \in Codes :
        Serve(h, [Free EXCEPT !.pc = "update", !.op = "approve", !.code = d, !.user = u,
                              !.began = now])
  BY DEF Approve
<1>2. PICK r : r = [Free EXCEPT !.pc = "update", !.op = "approve", !.code = d, !.user = u,
                                !.began = now]
  OBVIOUS
<1>3. r.op = "approve" /\ r.from = None
  BY <1>2 DEF Free
<1> QED
  BY <1>1, <1>2, <1>3

LEMMA AloneKept ==
  ASSUME IInv, PromptInv, Undisturbed, [Next]_vars
  PROVE  ApprovedAlone'
<1>1. TypeInv /\ ApprovedAlone
  BY DEF IInv, PromptInv
<1>2. ASSUME UNCHANGED handler PROVE ApprovedAlone'
  BY <1>1, <1>2 DEF ApprovedAlone
<1>3. ASSUME NEW h \in Handlers, NEW r, Serve(h, r), r.op = "approve" => r.from = None
      PROVE  ApprovedAlone'
  BY <1>1, <1>3, ServeBegins DEF ApprovedAlone, Others
<1>4. ASSUME NEW h \in Handlers, Handle(h) PROVE ApprovedAlone'
  BY <1>1, <1>4, KeepsRole DEF ApprovedAlone, Others, Free
<1>5. ASSUME NEW h \in Handlers, NEW c, Login(c, h) PROVE ApprovedAlone'
  <2>1. [Free EXCEPT !.pc = "purge", !.op = "authorize", !.from = c].op = "authorize"
    BY DEF Free
  <2> QED
    BY <1>3, <1>5, <2>1 DEF Login
<1>6. ASSUME NEW h \in Handlers, NEW c, Poll(c, h) PROVE ApprovedAlone'
  <2>1. PollRequest(client[c].code, c).op = "token"
    BY DEF PollRequest, Free
  <2> QED
    BY <1>3, <1>6, <2>1 DEF Poll
<1>7. ASSUME NEW h \in Handlers, Approve(h) PROVE ApprovedAlone'
  BY <1>3, <1>7, ApproveBegins
<1>8. ASSUME NEW c, GiveUp(c) \/ Verify(c) \/ Write(c) PROVE ApprovedAlone'
  BY <1>2, <1>8 DEF GiveUp, Verify, Write
<1>9. ASSUME NEW u, LockUser(u) \/ SetEnabled(u) PROVE ApprovedAlone'
  BY <1>2, <1>9 DEF LockUser, SetEnabled
<1>10. CASE Tick \/ UNCHANGED vars
  BY <1>2, <1>10 DEF Tick, vars
<1> QED
  BY <1>1, <1>4, <1>5, <1>6, <1>7, <1>8, <1>9, <1>10, NothingDisturbs, Constants DEF Next, Advance

(* The code a waiting client holds is the one its poll asks for.           *)
LEMMA WaitsInTime ==
  ASSUME IInv, PromptInv, NEW c \in Clients, Waits(c)
  PROVE  \E d \in Codes :
           /\ client[c].code = d /\ Live(d) /\ ~code[d].consumed
           /\ code[d].expires = client[c].deadline
           /\ code[d].nextPoll <= client[c].wake /\ client[c].wake <= client[c].deadline
           /\ client[c].interval = Interval
           /\ client[c].pc = "sleeping" => now <= client[c].wake
           /\ client[c].pc = "polling" => client[c].wake <= now /\ now < client[c].deadline
           /\ client[c].wake \in Nat /\ client[c].deadline \in Nat /\ now \in Nat
           /\ code[d].nextPoll \in Nat
<1>1. PICK d \in Codes : client[c].code = d
  BY DEF IInv, TypeInv, ClientType, Waits
<1>2. client[c].wake \in Nat /\ client[c].deadline \in Nat /\ now \in Nat /\ code[d].nextPoll \in Nat
  BY Constants DEF IInv, TypeInv, ClientType, ClientRows, RowType, CodeRows
<1> QED
  BY <1>1, <1>2 DEF PromptInv, Timely

LEMMA ServingClient ==
  ASSUME IInv, PromptInv, NEW h \in Handlers, Serving(h)
  PROVE  \E c \in Clients, d \in Codes :
           /\ handler[h].from = c /\ handler[h].code = d /\ client[c].pc = "polling"
           /\ client[c].code = d /\ c # None
           /\ Live(d) /\ ~code[d].consumed /\ code[d].expires = client[c].deadline
           /\ code[d].nextPoll <= now /\ now < client[c].deadline
           /\ client[c].interval = Interval
           /\ client[c].wake \in Nat /\ client[c].deadline \in Nat /\ now \in Nat
<1>1. PICK c \in Clients :
        handler[h].from = c /\ client[c].pc = "polling" /\ client[c].code = handler[h].code
  BY DEF PromptInv, Heard
<1>2. Waits(c)
  BY <1>1 DEF Waits
<1> QED
  BY <1>1, <1>2, WaitsInTime, Constants

(* The clients' own steps, approvals and time.                             *)
LEMMA SameServing ==
  ASSUME NEW h \in Handlers, Others(h), ~Serving(h), ~Serving(h)'
  PROVE  SameService
BY DEF SameService, Others, Serving

LEMMA ClientsQuiet ==
  ASSUME IInv, PromptInv, Undisturbed, NEW c \in Clients,
         GiveUp(c) \/ Verify(c) \/ Write(c) \/ \E h \in Handlers : Login(c, h)
  PROVE  Quiet
<1>1. TypeInv /\ client \in [Clients -> ClientRows]
  BY DEF IInv, TypeInv, ClientType
<1>2. UNCHANGED <<now, token, code>>
  BY DEF GiveUp, Verify, Write, Login, database
<1>3. SameService
  <2>1. CASE UNCHANGED handler
    BY <2>1 DEF SameService, Serving
  <2>2. ASSUME NEW h \in Handlers, Login(c, h) PROVE SameService
    <3>1. PICK r : r = [Free EXCEPT !.pc = "purge", !.op = "authorize", !.from = c]
      OBVIOUS
    <3>2. Others(h) /\ handler[h].pc = "idle" /\ handler'[h] = r
      BY <1>1, <2>2, <3>1, ServeBegins DEF Login
    <3> QED
      BY <3>1, <3>2, SameServing DEF Serving, Free
  <2> QED
    BY <2>1, <2>2 DEF GiveUp, Verify, Write
<1>4. ASSUME NEW pc \in {"failed", "write", "done", "starting"},
             client' = [client EXCEPT ![c].pc = pc], client[c].pc # "polling",
             client[c].pc = "sleeping" => now >= client[c].deadline,
             client[c].pc = "verify" => pc = "write"
      PROVE  SameWaits
  BY <1>1, <1>4 DEF SameWaits, Settles, ClientRows
<1>5. ASSUME GiveUp(c) PROVE SameWaits
  <2>1. PICK pc \in {"failed", "write", "done", "starting"} :
          pc = "failed" /\ client' = [client EXCEPT ![c].pc = pc]
    BY <1>5 DEF GiveUp
  <2>2. client[c].pc = "sleeping" /\ now >= client[c].deadline
    BY <1>5 DEF GiveUp
  <2> QED
    BY <1>4, <2>1, <2>2
<1>6. ASSUME Verify(c) PROVE SameWaits
  <2>1. PICK k \in Tokens : client[c].token = k /\ token[k] # NoToken /\ token[k].user \in Users
    BY <1>6 DEF Verify, PromptInv, Authentic
  <2>2. Authenticates(client[c].token)
    BY <2>1 DEF Authenticates, PromptInv, AllEnabled
  <2>3. PICK pc \in {"failed", "write", "done", "starting"} :
          pc = "write" /\ client' = [client EXCEPT ![c].pc = pc]
    BY <1>6, <2>2 DEF Verify
  <2>4. client[c].pc = "verify"
    BY <1>6 DEF Verify
  <2> QED
    BY <1>4, <2>3, <2>4
<1>7. ASSUME Write(c) PROVE SameWaits
  <2>1. PICK pc \in {"failed", "write", "done", "starting"} :
          pc = "done" /\ client' = [client EXCEPT ![c].pc = pc]
    BY <1>7 DEF Write
  <2>2. client[c].pc = "write"
    BY <1>7 DEF Write
  <2> QED
    BY <1>4, <2>1, <2>2
<1>8. ASSUME NEW h \in Handlers, Login(c, h) PROVE SameWaits
  <2>1. PICK pc \in {"failed", "write", "done", "starting"} :
          pc = "starting" /\ client' = [client EXCEPT ![c].pc = pc]
    BY <1>8 DEF Login
  <2>2. client[c].pc = "idle"
    BY <1>8 DEF Login
  <2> QED
    BY <1>4, <2>1, <2>2
<1> QED
  BY <1>2, <1>3, <1>5, <1>6, <1>7, <1>8 DEF Quiet, SameCodes

LEMMA ApprovalQuiet ==
  ASSUME IInv, NEW h \in Handlers, Approve(h)
  PROVE  Quiet
<1>1. PICK r : Serve(h, r) /\ r.op = "approve"
  BY ApproveBegins
<1>2. SameService
  BY <1>1, ServeBegins, SameServing DEF IInv, Serving
<1> QED
  BY <1>2 DEF Approve, Quiet, SameWaits, SameCodes, database

LEMMA TickKeeps ==
  ASSUME IInv, PromptInv, Undisturbed, Tick, AllEnabled', ApprovedAlone'
  PROVE  PromptInv' /\ UNCHANGED <<client, code>>
<1>1. /\ UNCHANGED <<client, handler, code, token>> /\ now' = now + 1 /\ now \in Nat
      /\ \A h \in Handlers : handler[h].pc = "idle"
      /\ \A c \in Clients : ~Due(c)
  BY Constants DEF Tick, Undisturbed, database, IInv
<1>2. \A c \in Clients : client[c].pc # "polling"
  BY <1>1 DEF PromptInv, Served, Serving
<1>3. Heard' /\ Served' /\ ServedOnce' /\ CodesApart' /\ Authentic'
  BY <1>1, <1>2 DEF PromptInv, Heard, Served, ServedOnce, CodesApart, Authentic, Serving, Waits
<1>4. Timely'
  <2> SUFFICES ASSUME NEW c \in Clients, NEW d \in Codes, Waits(c), client[c].code = d
               PROVE  /\ Live(d) /\ ~code[d].consumed /\ code[d].expires = client[c].deadline
                      /\ code[d].nextPoll <= client[c].wake
                      /\ client[c].wake <= client[c].deadline
                      /\ client[c].interval = Interval
                      /\ client[c].pc = "sleeping" /\ now + 1 <= client[c].wake
    BY <1>1 DEF Timely, Waits, Live, Interval
  <2>1. client[c].pc = "sleeping"
    BY <1>2 DEF Waits
  <2> QED
    BY <1>1, <2>1, WaitsInTime DEF Due
<1> QED
  BY <1>1, <1>3, <1>4 DEF PromptInv

(* Requests that answer nobody: cleaning up, drawing a code for a client   *)
(* that is gone, approving, and polls that go on.                          *)
LEMMA CleanUpQuiet ==
  ASSUME IInv, PromptInv, NEW h \in Handlers,
         \/ Purge(h) \/ MarkApproved(h) \/ (CommitApproval(h) /\ handler[h].op = "approve")
         \/ \E d \in Codes : Draw(h, d) /\ UNCHANGED client
  PROVE  Quiet
<1>1. TypeInv /\ Shape(h) /\ code \in [Codes -> CodeRows]
  BY DEF IInv, TypeInv, HandlerType, RowType
<1>2. Handle(h)
  BY DEF Handle
<1>3. handler[h].op # "token"
  BY <1>1 DEF Purge, MarkApproved, Draw, Shape
<1>4. SameService
  BY <1>1, <1>2, <1>3, KeepsRole, SameServing DEF Serving, Free
<1>5. UNCHANGED <<now, token>>
  BY DEF Purge, MarkApproved, CommitApproval, Draw, Refuse, Stays, database
<1>6. UNCHANGED client
  <2>1. ASSUME NEW answer, Hear(h, answer, None), handler[h].op = "approve" PROVE UNCHANGED client
    <3>1. handler[h].from = None
      BY <1>1, <1>2, <2>1, KeepsRole DEF PromptInv, ApprovedAlone
    <3> QED
      BY <2>1, <3>1 DEF Hear
  <2> QED
    BY <1>1, <2>1 DEF Purge, MarkApproved, CommitApproval, Refuse, Shape
<1>7. ASSUME NEW d \in Codes, NEW c \in Clients, Waits(c), client[c].code = d
      PROVE  /\ code'[d].state = code[d].state /\ code'[d].consumed = code[d].consumed
             /\ code'[d].expires = code[d].expires /\ code'[d].nextPoll = code[d].nextPoll
  <2>1. Live(d) /\ code[d].expires = client[c].deadline /\ now <= client[c].deadline
    <3>1. /\ Live(d) /\ code[d].expires = client[c].deadline
          /\ client[c].wake <= client[c].deadline
          /\ client[c].wake \in Nat /\ client[c].deadline \in Nat /\ now \in Nat
          /\ client[c].pc = "sleeping" => now <= client[c].wake
          /\ client[c].pc = "polling" => now < client[c].deadline
      BY <1>7, WaitsInTime
    <3> QED
      BY <1>7, <3>1 DEF Waits
  <2>2. CASE Purge(h)
    BY <1>1, <2>1, <2>2, Constants DEF Purge, CodeRows
  <2>3. CASE MarkApproved(h)
    BY <2>3 DEF MarkApproved, Refuse, database
  <2>4. CASE CommitApproval(h)
    BY <1>1, <2>4 DEF CommitApproval, Refuse, database, CodeRows
  <2>5. ASSUME NEW x \in Codes, Draw(h, x) PROVE code'[d] = code[d]
    BY <1>1, <2>1, <2>5 DEF Draw, Live
  <2> QED
    BY <2>2, <2>3, <2>4, <2>5
<1> QED
  BY <1>4, <1>5, <1>6, <1>7 DEF Quiet, SameWaits, SameCodes

(* The two answers that a client in time can get.                          *)
Postpones(h, c, d) ==
  /\ handler[h].from = c /\ handler[h].code = d /\ handler' = [handler EXCEPT ![h] = Free]
  /\ code[d].approved = None /\ UNCHANGED <<now, token>>
  /\ code' = [code EXCEPT ![d].nextPoll = now + Interval]
  /\ client' = [client EXCEPT ![c] = Sleep(client[c], client[c].interval)]
Delivers(h, c, d, k) ==
  /\ handler[h].from = c /\ handler[h].code = d /\ handler' = [handler EXCEPT ![h] = Free]
  /\ UNCHANGED now /\ handler[h].user \in Users /\ token[k] = NoToken
  /\ token' = [token EXCEPT ![k] = [code |-> d, user |-> handler[h].user]]
  /\ code' = [code EXCEPT ![d].consumed = TRUE, ![d].nextPoll = handler[h].nextPoll]
  /\ client' = [client EXCEPT ![c] = [client[c] EXCEPT !.pc = "verify", !.token = k]]

LEMMA PollSteps ==
  ASSUME IInv, PromptInv, NEW h \in Handlers, Serving(h), Handle(h)
  PROVE  \/ Quiet
         \/ \E c \in Clients, d \in Codes : Postpones(h, c, d)
         \/ \E c \in Clients, d \in Codes, k \in Tokens : Delivers(h, c, d, k)
<1>1. TypeInv /\ Shape(h) /\ code \in [Codes -> CodeRows] /\ handler \in [Handlers -> HandlerRows]
  BY DEF IInv, TypeInv, HandlerType, RowType
<1>2. PICK c \in Clients, d \in Codes :
        /\ handler[h].from = c /\ handler[h].code = d /\ client[c].pc = "polling"
        /\ client[c].code = d /\ c # None
        /\ Live(d) /\ ~code[d].consumed /\ code[d].expires = client[c].deadline
        /\ code[d].nextPoll <= now /\ now < client[c].deadline
        /\ client[c].interval = Interval
        /\ client[c].wake \in Nat /\ client[c].deadline \in Nat /\ now \in Nat
  BY ServingClient
<1>3. code[d].nextPoll \in Nat /\ code[d].expires \in Nat
  BY <1>1 DEF CodeRows
<1>4. ~Throttled(d) /\ ~(code[d].expires <= now)
  BY <1>2, <1>3 DEF Throttled
<1>5. handler[h].op = "token"
  BY DEF Serving
<1>6. handler[h].pc \in {"insert", "refer", "confirm", "commit"} =>
        handler[h].user \in Users /\ enabled[handler[h].user]
  BY <1>1, <1>2, <1>5 DEF IInv, ApprovalRead, Polls, CodeRows, PromptInv, AllEnabled
<1>7. ASSUME handler'[h] # Free, UNCHANGED <<now, client, database>> PROVE Quiet
  <2>1. SameService
    BY <1>1, <1>5, <1>7, KeepsRole DEF SameService, Serving, Others
  <2> QED
    BY <1>7, <2>1 DEF Quiet, SameWaits, SameCodes, database
<1>8. ASSUME NEW answer, NEW k, Hear(h, answer, k)
      PROVE  client' = [client EXCEPT ![c] = Polled(client[c], answer, k)]
  BY <1>2, <1>8 DEF Hear
<1>9. CASE LockCode(h)
  <2>1. handler' = [handler EXCEPT ![h].pc = "check", ![h].user = code[d].approved]
        /\ UNCHANGED <<now, client, database>>
    BY <1>2, <1>9 DEF LockCode, Stays
  <2>2. handler'[h] # Free
    BY <1>1, <2>1 DEF Free, HandlerRows
  <2> QED
    BY <1>7, <2>1, <2>2
<1>10. CASE Check(h)
  <2>1. PollVerdict(d) = "go"
    BY <1>2, <1>4 DEF PollVerdict
  <2>2. CASE handler[h].user = None
    <3>1. /\ code' = [code EXCEPT ![d].nextPoll = now + Interval]
          /\ End(h) /\ Hear(h, "pending", None) /\ UNCHANGED <<now, token>>
      BY <1>2, <1>10, <2>1, <2>2 DEF Check, Stays
    <3>2. code[d].approved = None
      BY <1>2, <1>5, <1>10, <2>2 DEF Check, IInv, ApprovalRead, Polls
    <3>3. client' = [client EXCEPT ![c] = Sleep(client[c], client[c].interval)]
      BY <1>8, <3>1 DEF Polled
    <3>4. Postpones(h, c, d)
      BY <1>2, <3>1, <3>2, <3>3 DEF Postpones, End
    <3> QED
      BY <3>4
  <2>3. CASE handler[h].user # None
    <3>1. handler' = [handler EXCEPT ![h].pc = "insert", ![h].nextPoll = now + Interval]
          /\ UNCHANGED <<now, client, database>>
      BY <1>2, <1>10, <2>1, <2>3 DEF Check, Stays
    <3>2. handler'[h] # Free
      BY <1>1, <3>1 DEF Free, HandlerRows
    <3> QED
      BY <1>7, <3>1, <3>2
  <2> QED
    BY <2>2, <2>3
<1>11. CASE ReadUser(h) \/ InsertToken(h) \/ ConfirmToken(h)
  <2>1. CASE InsertToken(h)
    BY <1>1, <1>7, <2>1 DEF InsertToken, Stays, Free, HandlerRows
  <2>2. CASE ReadUser(h) \/ ConfirmToken(h)
    <3>1. PICK pc \in {"refer", "commit"} : Goto(h, pc) /\ UNCHANGED <<now, client, database>>
      <4>1. handler[h].pc = "confirm" => FinalVerdict(handler[h].code, handler[h].user) = "token"
        BY <1>2, <1>4, <1>6 DEF FinalVerdict
      <4> QED
        BY <1>6, <2>2, <4>1 DEF ReadUser, ConfirmToken, Stays
    <3>2. handler'[h] # Free
      BY <1>1, <3>1 DEF Goto, Free, HandlerRows
    <3> QED
      BY <1>7, <3>1, <3>2
  <2> QED
    BY <1>11, <2>1, <2>2
<1>12. ASSUME NEW k \in Tokens, CommitToken(h, k) PROVE Delivers(h, c, d, k)
  <2>1. handler[h].pc = "commit" /\ token[k] = NoToken
    BY <1>12 DEF CommitToken
  <2>3. /\ token' = [token EXCEPT ![k] = [code |-> d, user |-> handler[h].user]]
        /\ code' = [code EXCEPT ![d].consumed = TRUE, ![d].nextPoll = handler[h].nextPoll]
        /\ End(h) /\ Hear(h, "token", k) /\ UNCHANGED now
    BY <1>2, <1>12 DEF CommitToken, Stays
  <2>4. client' = [client EXCEPT ![c] = [client[c] EXCEPT !.pc = "verify", !.token = k]]
    BY <1>8, <2>3 DEF Polled
  <2> QED
    BY <1>2, <1>6, <2>1, <2>3, <2>4 DEF Delivers, End
<1>13. ~Purge(h) /\ ~MarkApproved(h) /\ ~CommitApproval(h) /\ \A x \in Codes : ~Draw(h, x)
  BY <1>1, <1>5 DEF Purge, MarkApproved, CommitApproval, Draw, Shape
<1> QED
  BY <1>9, <1>10, <1>11, <1>12, <1>13 DEF Handle

(* A client's poll begins.                                                 *)
LEMMA PollKeeps ==
  ASSUME IInv, PromptInv, NEW c \in Clients, NEW h \in Handlers, Poll(c, h),
         AllEnabled', ApprovedAlone'
  PROVE  /\ PromptInv'
         /\ client'[c].pc = "polling" /\ \A b \in Clients \ {c} : client'[b] = client[b]
<1>1. /\ client[c].pc = "sleeping" /\ client[c].wake <= now /\ now < client[c].deadline
      /\ client' = [client EXCEPT ![c].pc = "polling"] /\ UNCHANGED <<now, code, token>>
      /\ Serve(h, PollRequest(client[c].code, c))
  BY DEF Poll, database
<1>2. TypeInv /\ client \in [Clients -> ClientRows]
  BY DEF IInv, TypeInv, ClientType
<1>3. /\ Others(h) /\ handler[h].pc = "idle" /\ handler'[h].pc = "lock"
      /\ handler'[h].op = "token" /\ handler'[h].from = c
      /\ handler'[h].code = client[c].code
  <2>1. PICK d, r : d = client[c].code /\ r = PollRequest(d, c)
    OBVIOUS
  <2>2. r.pc = "lock" /\ r.op = "token" /\ r.from = c /\ r.code = d
    BY <2>1 DEF PollRequest, Free
  <2> QED
    BY <1>1, <1>2, <2>1, <2>2, ServeBegins
<1>4. /\ client'[c].pc = "polling" /\ client'[c].code = client[c].code
      /\ client'[c].wake = client[c].wake /\ client'[c].deadline = client[c].deadline
      /\ client'[c].interval = client[c].interval
      /\ \A b \in Clients \ {c} : client'[b] = client[b]
  BY <1>1, <1>2 DEF ClientRows
<1>5. /\ ~Serving(h) /\ Serving(h)'
      /\ \A g \in Handlers \ {h} : Serving(g)' <=> Serving(g)
  BY <1>3 DEF Serving, Others
<1>6. \A g \in Handlers : Serving(g) => handler[g].from # c
  BY <1>1 DEF PromptInv, Heard
<1>7. Heard'
  <2> SUFFICES ASSUME NEW g \in Handlers, Serving(g)'
               PROVE  \E b \in Clients : /\ handler'[g].from = b /\ client'[b].pc = "polling"
                                         /\ client'[b].code = handler'[g].code
    BY DEF Heard
  <2>1. CASE g = h
    BY <1>3, <1>4, <2>1
  <2>2. CASE g # h
    BY <1>3, <1>4, <1>5, <1>6, <2>2 DEF PromptInv, Heard, Others
  <2> QED
    BY <2>1, <2>2
<1>8. Served'
  <2> SUFFICES ASSUME NEW b \in Clients, client'[b].pc = "polling"
               PROVE  \E g \in Handlers : Serving(g)' /\ handler'[g].from = b
    BY DEF Served
  <2>1. CASE b = c
    BY <1>3, <1>5, <2>1
  <2>2. CASE b # c
    <3>1. PICK g \in Handlers : Serving(g) /\ handler[g].from = b
      BY <1>4, <2>2 DEF PromptInv, Served
    <3> QED
      BY <1>3, <1>5, <3>1 DEF Others
  <2> QED
    BY <2>1, <2>2
<1>9. ServedOnce'
  BY <1>3, <1>5, <1>6 DEF PromptInv, ServedOnce, Others
<1>10. \A b \in Clients : /\ Waits(b)' <=> Waits(b)
                          /\ client'[b].code = client[b].code
  BY <1>1, <1>4 DEF Waits
<1>11. Timely'
  <2> SUFFICES ASSUME NEW b \in Clients, NEW d \in Codes, Waits(b), client[b].code = d
               PROVE  /\ Live(d)' /\ ~code'[d].consumed
                      /\ code'[d].expires = client'[b].deadline
                      /\ code'[d].nextPoll <= client'[b].wake
                      /\ client'[b].wake <= client'[b].deadline
                      /\ client'[b].interval = Interval
                      /\ client'[b].pc = "sleeping" => now' <= client'[b].wake
                      /\ client'[b].pc = "polling" =>
                           client'[b].wake <= now' /\ now' < client'[b].deadline
    BY <1>10 DEF Timely, Interval
  <2>1. /\ Live(d) /\ ~code[d].consumed /\ code[d].expires = client[b].deadline
        /\ code[d].nextPoll <= client[b].wake /\ client[b].wake <= client[b].deadline
        /\ client[b].interval = Interval
        /\ client[b].pc = "sleeping" => now <= client[b].wake
        /\ client[b].pc = "polling" => client[b].wake <= now /\ now < client[b].deadline
    BY DEF PromptInv, Timely
  <2>2. CASE b = c
    BY <1>1, <1>4, <2>1, <2>2 DEF Live
  <2>3. CASE b # c
    BY <1>1, <1>4, <2>1, <2>3 DEF Live
  <2> QED
    BY <2>2, <2>3
<1>12. CodesApart'
  BY <1>10 DEF PromptInv, CodesApart
<1>13. Authentic'
  BY <1>1, <1>4 DEF PromptInv, Authentic
<1> QED
  BY <1>4, <1>7, <1>8, <1>9, <1>11, <1>12, <1>13 DEF PromptInv

(* A sleep that ends before the deadline is as long as it is said to be.   *)
LEMMA SleepsTill ==
  ASSUME NEW r \in ClientRows, now \in Nat, now + Interval <= r.deadline
  PROVE  Sleep(r, Interval) =
           [r EXCEPT !.pc = "sleeping", !.interval = Interval, !.wake = now + Interval]
<1>1. PICK a \in Nat, b \in Nat : a = now + Interval /\ b = r.deadline /\ a <= b
  BY DEF ClientRows, Interval
<1>2. Min({a, b}) = a
  <2>1. \A x \in {a, b} : (\A y \in {a, b} : x <= y) <=> x = a
    BY <1>1
  <2>2. a \in {a, b} /\ \A y \in {a, b} : a <= y
    BY <1>1
  <2> DEFINE m == CHOOSE x \in {a, b} : \A y \in {a, b} : x <= y
  <2>3. m \in {a, b} /\ \A y \in {a, b} : m <= y
    BY <2>2
  <2>4. m = a
    BY <2>1, <2>3
  <2> QED
    BY <2>4 DEF Min
<1> QED
  BY <1>1, <1>2 DEF Sleep

(* A client that slept, or begins to sleep, until a moment of its own code *)
(* and that no request serves.                                             *)
LEMMA SleeperKeeps ==
  ASSUME IInv, PromptInv, NEW c \in Clients, NEW d \in Codes,
         AllEnabled', ApprovedAlone', UNCHANGED <<now, token>>, now \in Nat,
         \A b \in Clients \ {c} : client'[b] = client[b],
         \A x \in Codes \ {d} : code'[x] = code[x],
         \A b \in Clients \ {c} : Waits(b) => client[b].code # d,
         client'[c].pc = "sleeping", client'[c].code = d,
         client'[c].interval = Interval, client'[c].wake = now + Interval,
         client'[c].wake <= client'[c].deadline,
         code'[d].state = "live", ~code'[d].consumed,
         code'[d].expires = client'[c].deadline, code'[d].nextPoll \in Nat,
         code'[d].nextPoll <= now + Interval,
         \A g \in Handlers : Serving(g)' => Serving(g) /\ handler'[g] = handler[g],
         \A g \in Handlers : Serving(g) => Serving(g)' \/ handler[g].from = c,
         \A g \in Handlers : Serving(g)' => handler[g].from # c
  PROVE  PromptInv'
<1>1. Heard'
  BY DEF PromptInv, Heard
<1>2. Served'
  <2> SUFFICES ASSUME NEW b \in Clients, client'[b].pc = "polling"
               PROVE  \E g \in Handlers : Serving(g)' /\ handler'[g].from = b
    BY DEF Served
  <2>1. b # c /\ client[b].pc = "polling"
    OBVIOUS
  <2>2. PICK g \in Handlers : Serving(g) /\ handler[g].from = b
    BY <2>1 DEF PromptInv, Served
  <2> QED
    BY <2>1, <2>2
<1>3. ServedOnce'
  BY DEF PromptInv, ServedOnce
<1>4. \A b \in Clients \ {c} : Waits(b)' <=> Waits(b)
  BY DEF Waits
<1>5. Timely'
  <2> SUFFICES ASSUME NEW b \in Clients, NEW x \in Codes, Waits(b)', client'[b].code = x
               PROVE  /\ Live(x)' /\ ~code'[x].consumed
                      /\ code'[x].expires = client'[b].deadline
                      /\ code'[x].nextPoll <= client'[b].wake
                      /\ client'[b].wake <= client'[b].deadline
                      /\ client'[b].interval = Interval
                      /\ client'[b].pc = "sleeping" => now' <= client'[b].wake
                      /\ client'[b].pc = "polling" =>
                           client'[b].wake <= now' /\ now' < client'[b].deadline
    BY DEF Timely, Interval
  <2>1. CASE b = c
    BY <2>1 DEF Live, Interval
  <2>2. CASE b # c
    <3>1. Waits(b) /\ client[b].code = x /\ x # d
      BY <1>4, <2>2
    <3> QED
      BY <2>2, <3>1 DEF PromptInv, Timely, Live
  <2> QED
    BY <2>1, <2>2
<1>6. CodesApart'
  BY <1>4 DEF PromptInv, CodesApart
<1>7. Authentic'
  BY DEF PromptInv, Authentic
<1> QED
  BY <1>1, <1>2, <1>3, <1>5, <1>6, <1>7 DEF PromptInv

(* A code is drawn for a client that starts.                               *)
LEMMA DrawKeeps ==
  ASSUME IInv, PromptInv, NEW h \in Handlers, NEW d \in Codes, Draw(h, d), ~UNCHANGED client,
         AllEnabled', ApprovedAlone'
  PROVE  /\ PromptInv'
         /\ \A b \in Clients :
              client'[b] = client[b] \/ client[b].pc = "starting"
<1>1. TypeInv /\ Shape(h) /\ now \in Nat /\ Life \in Nat \ {0}
      /\ code \in [Codes -> CodeRows] /\ client \in [Clients -> ClientRows]
  BY Constants DEF IInv, TypeInv, HandlerType, RowType, ClientType
<1>2. handler[h].op = "authorize" /\ handler[h].from \in Clients
  BY <1>1 DEF Draw, Shape
<1>3. PICK c \in Clients : handler[h].from = c
  BY <1>2
<1>4. PICK r : r = [client[c] EXCEPT !.code = d, !.deadline = now + Life]
  OBVIOUS
<1>5. r \in ClientRows /\ r.code = d /\ r.deadline = now + Life /\ now + Interval <= r.deadline
  <2>1. PICK n \in Nat : n = now + Life /\ now + Interval <= n
    BY <1>1 DEF Interval
  <2>2. r = [client[c] EXCEPT !.code = d, !.deadline = n] /\ client[c] \in ClientRows
    BY <1>1, <1>4, <2>1
  <2>3. r \in ClientRows /\ r.code = d /\ r.deadline = n
    BY <2>2 DEF ClientRows
  <2> QED
    BY <2>1, <2>3
<1>6. /\ client[c].pc = "starting" /\ client' = [client EXCEPT ![c] = Sleep(r, Interval)]
      /\ UNCHANGED <<now, token>> /\ End(h) /\ code[d].state = "unused"
      /\ code' = [code EXCEPT ![d] =
           [NoCode EXCEPT !.state = "live", !.expires = now + Life, !.nextPoll = now]]
  BY <1>3, <1>4 DEF Draw, Stays
<1>7. /\ client'[c] = [r EXCEPT !.pc = "sleeping", !.interval = Interval, !.wake = now + Interval]
      /\ \A b \in Clients \ {c} : client'[b] = client[b]
  BY <1>1, <1>5, <1>6, SleepsTill
<1>8. /\ client'[c].pc = "sleeping" /\ client'[c].code = d
      /\ client'[c].interval = Interval /\ client'[c].wake = now + Interval
      /\ client'[c].deadline = now + Life /\ client'[c].wake <= client'[c].deadline
  BY <1>5, <1>7 DEF ClientRows
<1>9. /\ code'[d].state = "live" /\ ~code'[d].consumed /\ code'[d].expires = now + Life
      /\ code'[d].nextPoll = now /\ \A x \in Codes \ {d} : code'[x] = code[x]
  BY <1>1, <1>6 DEF NoCode
<1>10. \A b \in Clients : Waits(b) => client[b].code # d
  BY <1>6, WaitsInTime DEF Live
<1>11. handler'[h] = Free /\ Others(h)
  BY <1>1, <1>6, EndKeeps
<1>12. ~Serving(h) /\ ~Serving(h)'
  BY <1>2, <1>11 DEF Serving, Free
<1>13. \A g \in Handlers : /\ Serving(g)' <=> Serving(g)
                           /\ Serving(g) => handler'[g] = handler[g] /\ handler[g].from # c
  BY <1>6, <1>11, <1>12 DEF Others, Serving, PromptInv, Heard
<1>14. code'[d].nextPoll \in Nat /\ code'[d].nextPoll <= now + Interval
  BY <1>1, <1>9 DEF Interval
<1>15. PromptInv'
  BY <1>1, <1>6, <1>7, <1>8, <1>9, <1>10, <1>13, <1>14, SleeperKeeps
<1> QED
  BY <1>6, <1>7, <1>15

LEMMA PostponesKeeps ==
  ASSUME IInv, PromptInv, NEW h \in Handlers, Serving(h), NEW c \in Clients, NEW d \in Codes,
         Postpones(h, c, d), AllEnabled', ApprovedAlone'
  PROVE  PromptInv' /\ \A b \in Clients \ {c} : client'[b] = client[b]
<1>1. /\ code \in [Codes -> CodeRows] /\ client \in [Clients -> ClientRows]
      /\ handler \in [Handlers -> HandlerRows] /\ now \in Nat
  BY Constants DEF IInv, TypeInv, HandlerType, RowType, ClientType
<1>2. /\ client[c].pc = "polling" /\ client[c].code = d /\ Live(d) /\ ~code[d].consumed
      /\ code[d].expires = client[c].deadline /\ now < client[c].deadline
      /\ client[c].interval = Interval /\ client[c].deadline \in Nat
  BY ServingClient DEF Postpones
<1>3. now + Interval <= client[c].deadline
  BY <1>1, <1>2 DEF Interval
<1>4. /\ client'[c] = [client[c] EXCEPT !.pc = "sleeping", !.interval = Interval,
                                        !.wake = now + Interval]
      /\ \A b \in Clients \ {c} : client'[b] = client[b]
  BY <1>1, <1>2, <1>3, SleepsTill DEF Postpones
<1>5. /\ client'[c].pc = "sleeping" /\ client'[c].code = d
      /\ client'[c].interval = Interval /\ client'[c].wake = now + Interval
      /\ client'[c].deadline = client[c].deadline /\ client'[c].wake <= client'[c].deadline
  BY <1>1, <1>2, <1>3, <1>4 DEF ClientRows
<1>6. /\ code'[d].state = "live" /\ ~code'[d].consumed /\ code'[d].expires = client'[c].deadline
      /\ code'[d].nextPoll = now + Interval /\ \A x \in Codes \ {d} : code'[x] = code[x]
  BY <1>1, <1>2, <1>5 DEF Postpones, CodeRows, Live
<1>7. \A b \in Clients \ {c} : Waits(b) => client[b].code # d
  BY <1>2 DEF PromptInv, CodesApart, Waits
<1>8. handler'[h] = Free /\ \A g \in Handlers \ {h} : handler'[g] = handler[g]
  BY <1>1 DEF Postpones
<1>9. \A g \in Handlers : Serving(g)' => Serving(g) /\ handler'[g] = handler[g]
  BY <1>8 DEF Serving, Free
<1>10. \A g \in Handlers : Serving(g) => Serving(g)' \/ handler[g].from = c
  BY <1>8 DEF Serving, Postpones
<1>11. \A g \in Handlers : Serving(g)' => handler[g].from # c
  <2>1. ~Serving(h)'
    BY <1>8 DEF Serving, Free
  <2> QED
    BY <1>9, <2>1 DEF PromptInv, ServedOnce, Postpones
<1>12. code'[d].nextPoll \in Nat /\ code'[d].nextPoll <= now + Interval
  BY <1>1, <1>6 DEF Interval
<1>13. PromptInv'
  BY <1>1, <1>4, <1>5, <1>6, <1>7, <1>9, <1>10, <1>11, <1>12, SleeperKeeps DEF Postpones
<1> QED
  BY <1>4, <1>13

LEMMA DeliversKeeps ==
  ASSUME IInv, PromptInv, NEW h \in Handlers, Serving(h), NEW c \in Clients, NEW d \in Codes,
         NEW k \in Tokens, Delivers(h, c, d, k), AllEnabled', ApprovedAlone'
  PROVE  /\ PromptInv'
         /\ client'[c].pc = "verify" /\ \A b \in Clients \ {c} : client'[b] = client[b]
<1>1. /\ code \in [Codes -> CodeRows] /\ client \in [Clients -> ClientRows]
      /\ handler \in [Handlers -> HandlerRows] /\ now \in Nat /\ token \in [Tokens -> TokenRows]
  BY Constants DEF IInv, TypeInv, HandlerType, RowType, ClientType
<1>2. client[c].pc = "polling" /\ client[c].code = d
  BY ServingClient DEF Delivers
<1>3. /\ client'[c].pc = "verify" /\ client'[c].token = k
      /\ \A b \in Clients \ {c} : client'[b] = client[b]
  BY <1>1 DEF Delivers, ClientRows
<1>4. \A x \in Codes \ {d} : code'[x] = code[x]
  BY <1>1 DEF Delivers
<1>5. \A b \in Clients \ {c} : Waits(b) => client[b].code # d
  BY <1>2 DEF PromptInv, CodesApart, Waits
<1>6. handler'[h] = Free /\ \A g \in Handlers \ {h} : handler'[g] = handler[g]
  BY <1>1 DEF Delivers
<1>7. \A g \in Handlers : /\ Serving(g)' <=> Serving(g) /\ g # h
                          /\ Serving(g)' => handler'[g] = handler[g] /\ handler[g].from # c
  BY <1>6 DEF Serving, Free, PromptInv, ServedOnce, Delivers
<1>8. Heard'
  BY <1>3, <1>7 DEF PromptInv, Heard
<1>9. Served'
  <2> SUFFICES ASSUME NEW b \in Clients, client'[b].pc = "polling"
               PROVE  \E g \in Handlers : Serving(g)' /\ handler'[g].from = b
    BY DEF Served
  <2>1. b # c /\ client[b].pc = "polling"
    BY <1>3
  <2>2. PICK g \in Handlers : Serving(g) /\ handler[g].from = b
    BY <2>1 DEF PromptInv, Served
  <2> QED
    BY <1>7, <2>1, <2>2 DEF Delivers
<1>10. ServedOnce'
  BY <1>7 DEF PromptInv, ServedOnce
<1>11. \A b \in Clients : Waits(b)' <=> Waits(b) /\ b # c
  BY <1>3 DEF Waits
<1>12. Timely'
  <2> SUFFICES ASSUME NEW b \in Clients, NEW x \in Codes, Waits(b)', client'[b].code = x
               PROVE  /\ Live(x)' /\ ~code'[x].consumed
                      /\ code'[x].expires = client'[b].deadline
                      /\ code'[x].nextPoll <= client'[b].wake
                      /\ client'[b].wake <= client'[b].deadline
                      /\ client'[b].interval = Interval
                      /\ client'[b].pc = "sleeping" => now' <= client'[b].wake
                      /\ client'[b].pc = "polling" =>
                           client'[b].wake <= now' /\ now' < client'[b].deadline
    BY DEF Timely, Interval
  <2>1. b # c /\ Waits(b) /\ client'[b] = client[b] /\ x # d /\ now' = now
    BY <1>3, <1>5, <1>11 DEF Delivers
  <2> QED
    BY <1>4, <2>1 DEF PromptInv, Timely, Live
<1>13. CodesApart'
  BY <1>3, <1>11 DEF PromptInv, CodesApart
<1>14. Authentic'
  <2> SUFFICES ASSUME NEW b \in Clients, client'[b].pc = "verify"
               PROVE  \E j \in Tokens : /\ client'[b].token = j /\ token'[j] # NoToken
                                        /\ token'[j].user \in Users
    BY DEF Authentic
  <2>1. /\ token'[k] = [code |-> d, user |-> handler[h].user] /\ handler[h].user \in Users
        /\ \A j \in Tokens \ {k} : token'[j] = token[j]
        /\ token[k] = NoToken
    BY <1>1 DEF Delivers
  <2>2. token'[k] # NoToken /\ token'[k].user \in Users
    BY <2>1, Constants DEF NoToken
  <2>3. CASE b = c
    BY <1>3, <2>2, <2>3
  <2>4. CASE b # c
    <3>1. PICK j \in Tokens : client[b].token = j /\ token[j] # NoToken /\ token[j].user \in Users
      BY <1>3, <2>4 DEF PromptInv, Authentic
    <3> QED
      BY <1>3, <2>1, <2>4, <3>1
  <2> QED
    BY <2>3, <2>4
<1> QED
  BY <1>3, <1>8, <1>9, <1>10, <1>12, <1>13, <1>14 DEF PromptInv

(* One step: the clients stay in time, and none is turned away from a      *)
(* login that was approved.                                                *)
NotMissed ==
  \A c \in Clients :
    /\ Approved(c) => Approved(c)' \/ client'[c].pc = "polling"
    /\ client[c].pc = "polling" /\ code[client[c].code].approved # None =>
         client'[c].pc \in {"polling", "verify"}
    /\ client[c].pc = "verify" => client'[c].pc \in {"verify", "write"}

LEMMA StaysApproved ==
  ASSUME IInv, [Next]_vars, NEW c \in Clients, client'[c] = client[c]
  PROVE  /\ Approved(c) => Approved(c)'
         /\ client[c].pc = "verify" => client'[c].pc = "verify"
         /\ client[c].pc = "polling" => client'[c].pc = "polling"
<1>1. Approved(c) => client[c].code \in Codes
  BY DEF IInv, TypeInv, ClientType, Approved
<1> QED
  BY <1>1, TermsOfTokens DEF ApprovalKept, Approved

LEMMA QuietNotMissed ==
  ASSUME IInv, PromptInv, [Next]_vars, Quiet
  PROVE  NotMissed
<1> SUFFICES ASSUME NEW c \in Clients, client'[c] # client[c]
             PROVE  /\ ~Approved(c) /\ client[c].pc # "polling"
                    /\ client[c].pc = "verify" => client'[c].pc = "write"
  BY StaysApproved DEF NotMissed
<1>1. Settles(c)
  BY DEF Quiet, SameWaits
<1>2. ASSUME client[c].pc = "sleeping" PROVE ~(client[c].wake < client[c].deadline)
  BY <1>1, <1>2, WaitsInTime DEF Settles, Waits
<1> QED
  BY <1>1, <1>2 DEF Settles, Approved

LEMMA PromptStep ==
  ASSUME IInv, PromptInv, Undisturbed, [Next]_vars
  PROVE  PromptInv' /\ NotMissed
<1>1. AllEnabled' /\ ApprovedAlone'
  BY NothingDisturbs, AloneKept
<1>2. CASE Quiet
  BY <1>1, <1>2, QuietKeeps, QuietNotMissed
<1>3. ASSUME NEW c \in Clients,
             GiveUp(c) \/ Verify(c) \/ Write(c) \/ \E h \in Handlers : Login(c, h)
      PROVE  Quiet
  BY <1>3, ClientsQuiet
<1>4. ASSUME NEW c \in Clients, NEW h \in Handlers, Poll(c, h) PROVE PromptInv' /\ NotMissed
  <2>1. /\ PromptInv' /\ client'[c].pc = "polling"
        /\ \A b \in Clients \ {c} : client'[b] = client[b]
    BY <1>1, <1>4, PollKeeps
  <2>2. client[c].pc = "sleeping"
    BY <1>4 DEF Poll
  <2> QED
    BY <2>1, <2>2, StaysApproved DEF NotMissed
<1>5. ASSUME NEW h \in Handlers, NEW d \in Codes, Draw(h, d), ~UNCHANGED client
      PROVE  PromptInv' /\ NotMissed
  <2>1. PromptInv' /\ \A b \in Clients : client'[b] = client[b] \/ client[b].pc = "starting"
    BY <1>1, <1>5, DrawKeeps
  <2> QED
    BY <2>1, StaysApproved DEF NotMissed, Approved
<1>6. ASSUME NEW h \in Handlers, Serving(h), NEW c \in Clients, NEW d \in Codes,
             Postpones(h, c, d)
      PROVE  PromptInv' /\ NotMissed
  <2>1. PromptInv' /\ \A b \in Clients \ {c} : client'[b] = client[b]
    BY <1>1, <1>6, PostponesKeeps
  <2>2. client[c].pc = "polling" /\ client[c].code = d /\ code[d].approved = None
    BY <1>6, ServingClient DEF Postpones
  <2> QED
    BY <2>1, <2>2, StaysApproved DEF NotMissed, Approved
<1>7. ASSUME NEW h \in Handlers, Serving(h), NEW c \in Clients, NEW d \in Codes,
             NEW k \in Tokens, Delivers(h, c, d, k)
      PROVE  PromptInv' /\ NotMissed
  <2>1. /\ PromptInv' /\ client'[c].pc = "verify"
        /\ \A b \in Clients \ {c} : client'[b] = client[b]
    BY <1>1, <1>7, DeliversKeeps
  <2>2. client[c].pc = "polling"
    BY <1>7, ServingClient DEF Delivers
  <2> QED
    BY <2>1, <2>2, StaysApproved DEF NotMissed, Approved
<1>8. ASSUME NEW h \in Handlers, Handle(h), Serving(h) PROVE PromptInv' /\ NotMissed
  BY <1>2, <1>6, <1>7, <1>8, PollSteps
<1>9. ASSUME NEW h \in Handlers, Handle(h), ~Serving(h) PROVE PromptInv' /\ NotMissed
  <2>1. Shape(h) /\ handler[h].pc # "idle" /\ handler[h].op # "token"
    BY <1>9, KeepsRole DEF IInv, TypeInv, HandlerType, Serving
  <2>2. \/ Purge(h) \/ MarkApproved(h) \/ (CommitApproval(h) /\ handler[h].op = "approve")
        \/ \E d \in Codes : Draw(h, d)
    <3>1. handler[h].pc \in {"purge", "draw", "update", "confirm"}
      BY <2>1 DEF Shape
    <3>2. ~LockCode(h) /\ ~Check(h) /\ ~ReadUser(h) /\ ~InsertToken(h) /\ ~ConfirmToken(h)
      BY <2>1, <3>1 DEF LockCode, Check, ReadUser, InsertToken, ConfirmToken
    <3>3. \A k \in Tokens : ~CommitToken(h, k)
      BY <3>1 DEF CommitToken
    <3>4. CommitApproval(h) => handler[h].op = "approve"
      BY DEF CommitApproval
    <3> QED
      BY <1>9, <3>2, <3>3, <3>4 DEF Handle
  <2> QED
    BY <1>2, <1>5, <2>2, CleanUpQuiet
<1>10. CASE Tick
  <2>1. PromptInv' /\ UNCHANGED client
    BY <1>1, <1>10, TickKeeps
  <2> QED
    BY <2>1, StaysApproved DEF NotMissed
<1>11. CASE UNCHANGED vars
  BY <1>2, <1>11 DEF vars, Quiet, SameService, SameWaits, SameCodes, Serving
<1>12. ASSUME NEW u \in Users PROVE ~LockUser(u) /\ ~SetEnabled(u)
  <2>1. changes = 0 /\ scenario.changes = 0
    BY DEF IInv, TypeInv, BoundsType, Undisturbed
  <2> QED
    BY <2>1, Constants DEF LockUser, SetEnabled, PromptInv, AllEnabled
<1>13. ASSUME NEW h \in Handlers, Approve(h) PROVE Quiet
  BY <1>13, ApprovalQuiet
<1>14. scenario.users \subseteq Users /\ scenario.clients \subseteq Clients
  BY Constants DEF IInv
<1> QED
  BY <1>2, <1>3, <1>4, <1>8, <1>9, <1>10, <1>11, <1>12, <1>13, <1>14, NothingDisturbs
     DEF Next, Advance

LEMMA PromptInit == Init => PromptInv
<1> SUFFICES ASSUME Init PROVE PromptInv
  OBVIOUS
<1>1. /\ \A h \in Handlers : handler[h].op = None /\ handler[h].pc = "idle"
      /\ \A c \in Clients : client[c].pc = "idle"
      /\ adminLock = None /\ \A u \in Users : enabled[u]
  BY DEF Init, Free, Resting
<1> QED
  BY <1>1 DEF PromptInv, AllEnabled, ApprovedAlone, Heard, Served, ServedOnce, Timely,
              CodesApart, Authentic, Serving, Waits

(* Where nothing disturbs the logins and requests take less than an        *)
(* interval, a login whose code is approved one poll before its deadline   *)
(* ends with a token that authenticates, however long codes live and       *)
(* however many clients sign in.                                           *)
THEOREM ApprovalsInTime == Spec => ApprovalNotMissed
<1> DEFINE PInv == Undisturbed => PromptInv
<1>1. Init => PInv
  BY PromptInit
<1>2. IInv /\ PInv /\ [Next]_vars => PInv' /\ (Undisturbed => NotMissed)
  <2> SUFFICES ASSUME IInv, PInv, [Next]_vars PROVE PInv' /\ (Undisturbed => NotMissed)
    OBVIOUS
  <2>1. CASE Undisturbed
    BY <2>1, PromptStep
  <2>2. CASE ~Undisturbed
    <3>1. UNCHANGED scenario
      BY ScenarioRigid
    <3> QED
      BY <2>2, <3>1 DEF Undisturbed
  <2> QED
    BY <2>1, <2>2
<1>3. [][Undisturbed => NotMissed]_vars => ApprovalNotMissed
  BY PTL DEF ApprovalNotMissed, NotMissed
<1> HIDE DEF PInv
<1> QED
  BY <1>1, <1>2, <1>3, InvAlways, PTL DEF Spec

=============================================================================
