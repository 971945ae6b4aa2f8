---------------------------- MODULE DeviceLogin ----------------------------
(***************************************************************************)
(* Signing a device in through the browser: the device endpoints of        *)
(* internal/app/devices.go, which the polling client of cli/src/device.rs  *)
(* calls, and the admin who may disable the approving user meanwhile.      *)
(*                                                                         *)
(* A tick is the polling interval of five seconds.  A handler is one HTTP  *)
(* request; its transaction locks the row of the device code, and its      *)
(* writes become visible at the commit.  A client is one login under way.  *)
(***************************************************************************)
EXTENDS Integers, FiniteSets, FiniteSetsExt

CONSTANTS
  Users, Codes, Tokens,   \* device codes and tokens the server can draw
  Clients, Handlers,
  Life,                   \* how long a code lives, 10 minutes in the code
  None,
  Scenarios               \* who takes part, and the bounds of a behaviour

(* A scenario: the users and clients that take part, whether requests take *)
(* less than a tick, and how much time passes and how many approvals,      *)
(* repeated polls, faults and changes of accounts there are.               *)
Scenario == [users : SUBSET Users, clients : SUBSET Clients, prompt : BOOLEAN, time : Nat,
             approvals : Nat, replays : Nat, faults : Nat, changes : Nat]

ASSUME DeviceAssumption ==
  /\ IsFiniteSet(Users) /\ IsFiniteSet(Codes) /\ IsFiniteSet(Tokens)
  /\ Life \in Nat \ {0}
  /\ Scenarios \subseteq Scenario
  /\ None \notin Users \cup Codes \cup Tokens \cup Clients \cup Handlers

VARIABLES
  now,
  enabled, adminLock,     \* users.enabled; the user row setUserEnabled holds
  code, codeLock,         \* device_authorizations; the handler that holds a row
  token,                  \* tokens inserted for devices
  handler, client,
  saved,                  \* the token in the credentials file of the machine
  approvals, replays, faults, changes,
  scenario                \* the bounds of this behaviour

vars == <<now, enabled, adminLock, code, codeLock, token, handler, client, saved,
          approvals, replays, faults, changes, scenario>>
database == <<code, token>>
admin == <<enabled, adminLock, changes, scenario>>

Interval == 1

(* A handler remembers as history when it last stopped waiting for a lock. *)
NoCode == [state |-> "unused", approved |-> None, consumed |-> FALSE, expires |-> 0, nextPoll |-> 0]
NoToken == [code |-> None, user |-> None]
Free == [pc |-> "idle", op |-> None, code |-> None, user |-> None, from |-> None,
         began |-> 0, waited |-> 0, nextPoll |-> 0]
Resting == [pc |-> "idle", code |-> None, wake |-> 0, deadline |-> 0, interval |-> 0,
            token |-> None]

Init ==
  /\ scenario \in Scenarios
  /\ now = 0
  /\ enabled = [u \in Users |-> TRUE] /\ adminLock = None
  /\ code = [d \in Codes |-> NoCode] /\ codeLock = [d \in Codes |-> None]
  /\ token = [k \in Tokens |-> NoToken]
  /\ handler = [h \in Handlers |-> Free]
  /\ client = [c \in Clients |-> Resting]
  /\ saved = None
  /\ approvals = 0 /\ replays = 0 /\ faults = 0 /\ changes = 0

Live(d) == code[d].state = "live"
CodeFree(d) == codeLock[d] = None

(* Both the approval and the token refer to the user's row.                *)
UserFree(u) == adminLock # u
Referred(u) ==
  \E h \in Handlers : handler[h].user = u /\ handler[h].pc \in {"confirm", "commit"}

----------------------------------------------------------------------------
(* The client, which hears an answer only while it still waits for it.     *)

Sleep(c, interval) ==
  [c EXCEPT !.pc = "sleeping", !.interval = interval,
            !.wake = Min({now + interval, c.deadline})]

Polled(c, answer, k) ==
  CASE answer = "pending" -> Sleep(c, c.interval)
    [] answer = "slow_down" -> Sleep(c, c.interval + Interval)
    [] answer = "token" -> [c EXCEPT !.pc = "verify", !.token = k]
    [] OTHER -> [c EXCEPT !.pc = "failed"]

Hear(h, answer, k) ==
  LET c == handler[h].from IN
  client' = IF c # None /\ client[c].pc = "polling"
            THEN [client EXCEPT ![c] = Polled(client[c], answer, k)] ELSE client

Serve(h, request) == handler[h].pc = "idle" /\ handler' = [handler EXCEPT ![h] = request]

Login(c, h) ==
  /\ client[c].pc = "idle" /\ now + Life <= scenario.time
  /\ Serve(h, [Free EXCEPT !.pc = "purge", !.op = "authorize", !.from = c])
  /\ client' = [client EXCEPT ![c].pc = "starting"]
  /\ UNCHANGED <<now, admin, database, codeLock, saved, approvals, replays, faults>>

PollRequest(d, c) == [Free EXCEPT !.pc = "lock", !.op = "token", !.code = d, !.from = c]

Poll(c, h) ==
  /\ client[c].pc = "sleeping" /\ client[c].wake <= now /\ now < client[c].deadline
  /\ Serve(h, PollRequest(client[c].code, c))
  /\ client' = [client EXCEPT ![c].pc = "polling"]
  /\ UNCHANGED <<now, admin, database, codeLock, saved, approvals, replays, faults>>

GiveUp(c) ==
  /\ client[c].pc = "sleeping" /\ now >= client[c].deadline
  /\ client' = [client EXCEPT ![c].pc = "failed"]
  /\ UNCHANGED <<now, admin, database, codeLock, handler, saved, approvals, replays, faults>>

(* login_inner: the token must authenticate before the file is replaced.   *)
Authenticates(k) == token[k] # NoToken /\ enabled[token[k].user]

Verify(c) ==
  /\ client[c].pc = "verify"
  /\ client' = [client EXCEPT ![c].pc =
       IF Authenticates(client[c].token) THEN "write" ELSE "failed"]
  /\ UNCHANGED <<now, admin, database, codeLock, handler, saved, approvals, replays, faults>>

Write(c) ==
  /\ client[c].pc = "write"
  /\ saved' = client[c].token
  /\ client' = [client EXCEPT ![c].pc = "done"]
  /\ UNCHANGED <<now, admin, database, codeLock, handler, approvals, replays, faults>>

(* The answer does not arrive, the file cannot be written, or it is killed.*)
Breaks(c) ==
  /\ client[c].pc \notin {"idle", "done", "failed"} /\ faults < scenario.faults
  /\ client' = [client EXCEPT ![c].pc = "failed"] /\ faults' = faults + 1
  /\ UNCHANGED <<now, admin, database, codeLock, handler, saved, approvals, replays>>

(* The poll is delivered twice, or another process repeats it.             *)
Replay(d, h) ==
  /\ code[d].state # "unused" /\ replays < scenario.replays
  /\ Serve(h, PollRequest(d, None))
  /\ replays' = replays + 1
  /\ UNCHANGED <<now, admin, database, codeLock, client, saved, approvals, faults>>

----------------------------------------------------------------------------
(* The server.                                                             *)

Unlocked(h) == [d \in Codes |-> IF codeLock[d] = h THEN None ELSE codeLock[d]]

End(h) == handler' = [handler EXCEPT ![h] = Free] /\ codeLock' = Unlocked(h)
Refuse(h, answer) == End(h) /\ Hear(h, answer, None) /\ UNCHANGED database
Goto(h, pc) == handler' = [handler EXCEPT ![h].pc = pc]
Stays == UNCHANGED <<now, admin, saved, approvals, replays, faults>>

(* deviceAuthorize: two statements, each committed by itself.              *)
Purge(h) ==
  LET old == {d \in Codes : Live(d) /\ code[d].expires < now} IN
  /\ handler[h].pc = "purge"
  /\ \A d \in old : CodeFree(d)
  /\ code' = [d \in Codes |-> IF d \in old THEN [code[d] EXCEPT !.state = "gone"] ELSE code[d]]
  /\ Goto(h, "draw")
  /\ UNCHANGED <<token, codeLock, client>> /\ Stays

Draw(h, d) ==
  LET c == handler[h].from IN
  /\ handler[h].pc = "draw" /\ code[d].state = "unused"
  /\ code' = [code EXCEPT ![d] =
       [NoCode EXCEPT !.state = "live", !.expires = now + Life, !.nextPoll = now]]
  /\ client' = IF client[c].pc # "starting" THEN client ELSE
       [client EXCEPT ![c] =
          Sleep([client[c] EXCEPT !.code = d, !.deadline = now + Life], Interval)]
  /\ End(h)
  /\ UNCHANGED token /\ Stays

(* approveDevice                                                           *)
Approve(h) ==
  \E u \in scenario.users, d \in Codes :
    /\ code[d].state # "unused" /\ enabled[u]
    /\ Serve(h, [Free EXCEPT !.pc = "update", !.op = "approve", !.code = d, !.user = u,
                             !.began = now])
    /\ approvals < scenario.approvals /\ approvals' = approvals + 1
    /\ UNCHANGED <<now, admin, database, codeLock, client, saved, replays, faults>>

Approvable(d, began) ==
  Live(d) /\ code[d].approved = None /\ ~code[d].consumed /\ code[d].expires > began

MarkApproved(h) ==
  LET d == handler[h].code IN
  /\ handler[h].pc = "update" /\ CodeFree(d)
  /\ \/ ~Approvable(d, handler[h].began) /\ Refuse(h, None)
     \/ /\ Approvable(d, handler[h].began) /\ UserFree(handler[h].user)
        /\ codeLock' = [codeLock EXCEPT ![d] = h]
        /\ Goto(h, "confirm")
        /\ UNCHANGED <<database, client>>
  /\ Stays

CommitApproval(h) ==
  LET d == handler[h].code IN
  /\ handler[h].pc = "confirm" /\ handler[h].op = "approve"
  /\ \/ ~enabled[handler[h].user] /\ Refuse(h, None)
     \/ /\ enabled[handler[h].user]
        /\ code' = [code EXCEPT ![d].approved = handler[h].user]
        /\ End(h) /\ UNCHANGED <<token, client>>
  /\ Stays

(* deviceToken                                                             *)
LockCode(h) ==
  LET d == handler[h].code IN
  /\ handler[h].pc = "lock" /\ CodeFree(d)
  /\ \/ ~Live(d) /\ Refuse(h, "invalid_grant")
     \/ /\ Live(d)
        /\ codeLock' = [codeLock EXCEPT ![d] = h]
        /\ handler' = [handler EXCEPT ![h].pc = "check", ![h].user = code[d].approved]
        /\ UNCHANGED <<database, client>>
  /\ Stays

EagerlyThrottled(d) == code[d].nextPoll >= now                 \* mutant
Throttled(d) == code[d].nextPoll > now

NotConsumed(d) == IF code[d].expires <= now THEN "expired_token" \* mutant
                  ELSE IF Throttled(d) THEN "slow_down" ELSE "go"
PollVerdict(d) == IF code[d].consumed THEN "invalid_grant"
                  ELSE IF code[d].expires <= now THEN "expired_token"
                  ELSE IF Throttled(d) THEN "slow_down" ELSE "go"

Check(h) ==
  LET d == handler[h].code
      verdict == PollVerdict(d) IN
  /\ handler[h].pc = "check"
  /\ \/ verdict # "go" /\ Refuse(h, verdict)
     \/ /\ verdict = "go" /\ handler[h].user = None
        /\ code' = [code EXCEPT ![d].nextPoll = now + Interval]
        /\ End(h) /\ Hear(h, "pending", None) /\ UNCHANGED token
     \/ /\ verdict = "go" /\ handler[h].user # None
        /\ handler' = [handler EXCEPT ![h].pc = "insert", ![h].nextPoll = now + Interval]
        /\ UNCHANGED <<database, codeLock, client>>
  /\ Stays

(* The insert reads users.enabled and then waits for the row it refers to. *)
ReadUser(h) ==
  /\ handler[h].pc = "insert"
  /\ \/ ~enabled[handler[h].user] /\ Refuse(h, "invalid_grant")
     \/ /\ enabled[handler[h].user] /\ Goto(h, "refer")
        /\ UNCHANGED <<database, codeLock, client>>
  /\ Stays

InsertToken(h) ==
  /\ handler[h].pc = "refer" /\ UserFree(handler[h].user)
  /\ handler' = [handler EXCEPT ![h].pc = "confirm", ![h].waited = now]
  /\ UNCHANGED <<database, codeLock, client>> /\ Stays

(* consumed_at is set, expiry and user are read again; then it commits.    *)
ExpiryOnly(d, u) == IF code[d].expires <= now THEN "expired_token" ELSE "token" \* mutant
FinalVerdict(d, u) == IF code[d].expires <= now THEN "expired_token"
                      ELSE IF ~enabled[u] THEN "invalid_grant" ELSE "token"

ConfirmToken(h) ==
  LET verdict == FinalVerdict(handler[h].code, handler[h].user) IN
  /\ handler[h].pc = "confirm" /\ handler[h].op = "token"
  /\ \/ verdict # "token" /\ Refuse(h, verdict)
     \/ verdict = "token" /\ Goto(h, "commit") /\ UNCHANGED <<database, codeLock, client>>
  /\ Stays

CommitToken(h, k) ==
  LET d == handler[h].code IN
  /\ handler[h].pc = "commit" /\ token[k] = NoToken
  /\ token' = [token EXCEPT ![k] = [code |-> d, user |-> handler[h].user]]
  /\ code' = [code EXCEPT ![d].consumed = TRUE, ![d].nextPoll = handler[h].nextPoll]
  /\ End(h) /\ Hear(h, "token", k)
  /\ Stays

(* The connection, the database or the process fails before the commit.    *)
Aborts(h) ==
  /\ handler[h].pc # "idle" /\ faults < scenario.faults /\ faults' = faults + 1
  /\ End(h)
  /\ client' = [c \in Clients |->
       IF c = handler[h].from /\ client[c].pc \in {"starting", "polling"}
       THEN [client[c] EXCEPT !.pc = "failed"] ELSE client[c]]
  /\ UNCHANGED <<now, admin, database, saved, approvals, replays>>

----------------------------------------------------------------------------
(* setUserEnabled, and time.                                               *)

LockUser(u) ==
  /\ adminLock = None /\ changes < scenario.changes /\ ~Referred(u)
  /\ adminLock' = u
  /\ UNCHANGED <<now, enabled, changes, scenario, database, codeLock, handler, client,
                 saved, approvals, replays, faults>>

SetEnabled(u) ==
  /\ adminLock = u
  /\ enabled' = [enabled EXCEPT ![u] = ~enabled[u]]
  /\ adminLock' = None /\ changes' = changes + 1
  /\ UNCHANGED <<now, scenario, database, codeLock, handler, client, saved, approvals,
                 replays, faults>>

Due(c) == \/ client[c].pc \in {"verify", "write"}
          \/ client[c].pc = "sleeping" /\ client[c].wake <= now

Tick ==
  /\ now < scenario.time
  /\ scenario.prompt => /\ \A h \in Handlers : handler[h].pc = "idle"
                        /\ \A c \in Clients : ~Due(c)
  /\ now' = now + 1
  /\ UNCHANGED <<admin, database, codeLock, handler, client, saved, approvals, replays, faults>>

Handle(h) ==
  \/ Purge(h) \/ \E d \in Codes : Draw(h, d)
  \/ MarkApproved(h) \/ CommitApproval(h)
  \/ LockCode(h) \/ Check(h) \/ ReadUser(h) \/ InsertToken(h)
  \/ ConfirmToken(h) \/ \E k \in Tokens : CommitToken(h, k)

Advance(c) ==
  \/ \E h \in Handlers : Poll(c, h)
  \/ GiveUp(c) \/ Verify(c) \/ Write(c)

Next ==
  \/ \E c \in scenario.clients :
       \/ Advance(c) \/ Breaks(c)
       \/ \E h \in Handlers : Login(c, h)
  \/ \E h \in Handlers :
       \/ Handle(h) \/ Aborts(h) \/ Approve(h)
       \/ \E d \in Codes : Replay(d, h)
  \/ \E u \in scenario.users : LockUser(u) \/ SetEnabled(u)
  \/ Tick

Spec == Init /\ [][Next]_vars

----------------------------------------------------------------------------
TypeOK ==
  /\ scenario \in Scenarios /\ now \in 0..scenario.time
  /\ approvals \in 0..scenario.approvals
  /\ enabled \in [Users -> BOOLEAN] /\ adminLock \in Users \cup {None}
  /\ code \in [Codes -> [state : {"unused", "live", "gone"}, approved : Users \cup {None},
                         consumed : BOOLEAN, expires : Nat, nextPoll : Nat]]
  /\ codeLock \in [Codes -> Handlers \cup {None}]
  /\ \A d \in Codes : codeLock[d] # None => handler[codeLock[d]].code = d
  /\ token \in [Tokens -> [code : Codes \cup {None}, user : Users \cup {None}]]
  /\ handler \in [Handlers ->
       [pc : {"idle", "purge", "draw", "update", "confirm", "lock", "check", "insert", "refer",
              "commit"},
        op : {"authorize", "approve", "token", None}, code : Codes \cup {None},
        user : Users \cup {None}, from : Clients \cup {None}, began : Nat, waited : Nat,
        nextPoll : Nat]]
  /\ client \in [Clients ->
       [pc : {"idle", "starting", "sleeping", "polling", "verify", "write", "done", "failed"},
        code : Codes \cup {None}, wake : Nat, deadline : Nat, interval : Nat,
        token : Tokens \cup {None}]]
  /\ saved \in Tokens \cup {None}
  /\ replays \in 0..scenario.replays /\ faults \in 0..scenario.faults
  /\ changes \in 0..scenario.changes

Issued(k) == token[k] = NoToken /\ token'[k] # NoToken

(* However often, and however concurrently, a device polls, and whatever   *)
(* answers are lost: one device code yields one token.                     *)
OneTokenPerCode ==
  /\ TypeOK
  /\ \A j, k \in Tokens : token[j] # NoToken /\ token[j].code = token[k].code => j = k

(* A code approved by one user is never taken over by another, so that the *)
(* device is given a token of the user who typed the code first.           *)
ApprovalSticks ==
  [][\A d \in Codes :
       /\ code[d].approved # None => code'[d].approved = code[d].approved
       /\ \A k \in Tokens : Issued(k) /\ token'[k].code = d => token'[k].user = code[d].approved
    ]_vars

(* A poll that had to wait, for the code's row or for the user's, until    *)
(* the code had expired draws no token from it.  (It may expire between    *)
(* the last read of the row and the commit, where nothing is waited for.)  *)
NoTokenAfterExpiry ==
  [][\A k \in Tokens, h \in Handlers :
       Issued(k) /\ handler[h].pc = "commit" /\ handler'[h].pc = "idle" =>
         handler[h].waited < code[token'[k].code].expires]_vars

(* A user disabled while the device was polling is not given a token that  *)
(* would work as soon as the account is enabled again: he is found out by  *)
(* the last read, and the row the token refers to keeps administrators out *)
(* from then on.                                                           *)
NoTokenWhileDisabled == [][\A k \in Tokens : Issued(k) => enabled[token'[k].user]]_vars

(* What a token issued to a device must respect.                           *)
TokensGated == ApprovalSticks /\ NoTokenAfterExpiry /\ NoTokenWhileDisabled

(* Where nothing fails, nobody repeats a poll or disables the user, and    *)
(* requests take less than an interval, a login whose code is approved one *)
(* poll before its deadline succeeds: the client's sleep and the server's  *)
(* throttle agree, so that its next poll comes before the deadline and is  *)
(* answered with the token, and the token authenticates.                   *)
Undisturbed ==
  scenario.prompt /\ scenario.faults = 0 /\ scenario.replays = 0 /\ scenario.changes = 0
Approved(c) ==
  /\ client[c].pc = "sleeping" /\ client[c].wake < client[c].deadline
  /\ code[client[c].code].approved # None
ApprovalNotMissed ==
  [][Undisturbed => \A c \in Clients :
       /\ Approved(c) => Approved(c)' \/ client'[c].pc = "polling"
       /\ client[c].pc = "polling" /\ code[client[c].code].approved # None =>
            client'[c].pc \in {"polling", "verify"}
       /\ client[c].pc = "verify" => client'[c].pc \in {"verify", "write"}]_vars
=============================================================================
