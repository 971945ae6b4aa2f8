------------------------------ MODULE Metering ------------------------------
(***************************************************************************)
(* The metered call path: the gateway's call handler, the PostgreSQL       *)
(* transactions of the store that reserve and settle its price, the        *)
(* recovery goroutine that every server replica runs, and the account and  *)
(* admin writes that race with them.                                       *)
(*                                                                         *)
(* One action is one SQL statement of a transaction (or one autocommitted  *)
(* statement).  What a transaction has written becomes visible in the      *)
(* commit action; the row locks it holds until then are a function of      *)
(* where it stands (Holds... below), so a rollback frees them.             *)
(***************************************************************************)
EXTENDS Integers, Sequences, FiniteSets

CONSTANTS
    Users, Wallets, Tokens, Keys, Tools, Roles,
    Callers,      \* goroutines that run Gateway.call
    Replicas,     \* server processes, each with one recovery goroutine
    TokenUser,    \* tokens.user_id
    TokenWallet,  \* tokens.wallet_id
    WalletUser,   \* wallets.user_id; NoUser for the wallet of a team
    NoUser,
    Requests,     \* the [call, tool] a caller may carry
    Grant,        \* the registration credits of each wallet
    InitTools, InitRole, InitRate,
    Prices,       \* what an admin may set tools.cost to
    Rates,        \* what an admin may set billing_roles.multiplier_bp to
    Adjustments,  \* the deltas an admin may post
    BatchSize,    \* LIMIT of the recovery query (100 in the code)
    KeysFresh,    \* callers draw a fresh request key, as the gateway does
    MaxAdmin,     \* bound: account and admin writes in a behaviour
    MaxFaults     \* bound: lost connections, timeouts and crashes

Procs == Callers \cup Replicas
CallIds == Tokens \X Keys      \* usage_logs: UNIQUE(token_id, request_key)
NoCall == <<>>

ToolRows == [enabled : BOOLEAN, cost : Nat, roles : SUBSET Roles]
Statuses == {"none", "pending", "ok", "error", "denied", "recovered"}
Settled == {"ok", "error", "recovered"}
UsageRows == [status : Statuses, tool : Tools, requested : Nat, cost : Nat,
              rate : Nat, overdue : BOOLEAN, audited : BOOLEAN]
Kinds == {"registration", "adjustment", "reservation", "refund", "recovery"}
Entries == [kind : Kinds, call : CallIds \cup {NoCall}, delta : Int, after : Int]

Phases == {"idle", "admit", "refuse", "reserve", "price", "authorize",
           "insert", "recheck", "commit", "execute", "finish", "settle",
           "post", "close", "done"}

ASSUME MeteringAssumption ==
    /\ Callers \cap Replicas = {}
    /\ NoUser \notin Users /\ Tools # {}
    /\ TokenUser \in [Tokens -> Users]
    /\ TokenWallet \in [Tokens -> Wallets]
    /\ WalletUser \in [Wallets -> Users \cup {NoUser}]
    /\ Requests \subseteq [call : CallIds, tool : Tools]
    /\ Grant \in [Wallets -> Nat]
    /\ InitTools \in [Tools -> ToolRows]
    /\ InitRole \in [Users -> Roles]
    /\ InitRate \in [Roles -> Nat]
    /\ Prices \subseteq Nat /\ Rates \subseteq Nat /\ Adjustments \subseteq Int
    /\ KeysFresh \in BOOLEAN
    /\ BatchSize \in Nat \ {0} /\ MaxAdmin \in Nat /\ MaxFaults \in Nat

VARIABLES
    balance,   \* wallets.balance
    ledger,    \* the ledger rows of each wallet, in insertion order
    usage,     \* usage_logs, by token and request key
    revoked,   \* tokens with revoked_at set
    enabled,   \* users with enabled set
    members,   \* team_members, as the users of each team wallet
    tools,     \* tools: enabled, cost, allowed_roles
    role,      \* users.billing_role
    rate,      \* billing_roles.multiplier_bp
    frozen,    \* the users row that setUserEnabled holds FOR UPDATE
    pc, job, want, verdict, \* where a process is, its call, tool and outcome
    tx,        \* what the open transaction of a process has read
    batch,     \* ids a recovery pass has still to finish
    writes, faults          \* the bounded counters

db == <<balance, ledger, usage>>
auth == <<revoked, enabled, members, tools, role, rate, frozen>>
vars == <<balance, ledger, usage, revoked, enabled, members, tools, role, rate,
          frozen, pc, job, want, verdict, tx, batch, writes, faults>>

-----------------------------------------------------------------------------
\* Operators the transactions share

(* A tool price under a billing role, in basis points, rounded up. *)
applyMultiplierBPSlip(cost, bp) == (cost * bp - 9999) \div 10000
applyMultiplierBP(cost, bp) == (cost * bp + 9999) \div 10000

NoRow == [status |-> "none", tool |-> CHOOSE t \in Tools : TRUE, requested |-> 0,
          cost |-> 0, rate |-> 0, overdue |-> FALSE, audited |-> FALSE]
NoTx == [read |-> 0, cost |-> 0, rate |-> 0]

Tok(p) == job[p][1]
Wal(p) == TokenWallet[Tok(p)]
Usr(p) == TokenUser[Tok(p)]

(* Row locks, each held from the statement that takes it to the end of the *)
(* transaction: the wallet FOR UPDATE, the tool FOR SHARE, the usage row   *)
(* FOR UPDATE, and the KEY SHARE lock on the users row that the foreign    *)
(* keys of usage_logs and ledger take.                                     *)
HoldsWalletThroughCall(p, w) ==
    /\ pc[p] \in {"price", "authorize", "insert", "recheck", "commit", "execute",
                  "finish", "settle", "post"}
    /\ Wal(p) = w
HoldsWallet(p, w) ==
    /\ \/ pc[p] \in {"price", "authorize", "insert", "recheck", "commit", "post"}
       \/ pc[p] = "close" /\ verdict[p] # "ok"
    /\ Wal(p) = w
HoldsTool(p, t) ==
    pc[p] \in {"authorize", "insert", "recheck", "commit"} /\ want[p] = t
HoldsUser(p, u) ==
    /\ \/ pc[p] \in {"recheck", "commit"}
       \/ pc[p] = "close" /\ verdict[p] # "ok"
    /\ Usr(p) = u
HoldsCall(p, c) == pc[p] \in {"settle", "post", "close"} /\ job[p] = c
InsertedCall(p, c) == pc[p] \in {"recheck", "commit"} /\ job[p] = c

WalletUnlocked(w) == TRUE
WalletFree(w) == \A p \in Procs : ~HoldsWallet(p, w)
ToolFree(t) == \A p \in Procs : ~HoldsTool(p, t)
UserUnlocked(u) == TRUE
UserUnused(u) == \A p \in Procs : ~HoldsUser(p, u)
CallFree(c) == \A p \in Procs : ~HoldsCall(p, c)

(* The authorization query of reserve and of AuthToken. *)
Authorized(t) ==
    LET u == TokenUser[t]  w == TokenWallet[t]
    IN  /\ t \notin revoked
        /\ u \in enabled
        /\ WalletUser[w] = u \/ u \in members[w]

Latest(s) == IF s = <<>> THEN 0 ELSE s[Len(s)].after
Post(w, kind, call, delta, after) ==
    ledger' = [ledger EXCEPT ![w] =
        Append(@, [kind |-> kind, call |-> call, delta |-> delta, after |-> after])]

Goto(p, phase) == pc' = [pc EXCEPT ![p] = phase]
(* The end of a transaction that is not followed by another step of the    *)
(* same call: a caller answers, a recovery goroutine takes its next id.    *)
Rest(p) == Goto(p, IF p \in Callers THEN "done" ELSE "idle")

-----------------------------------------------------------------------------
\* Initial state

Init ==
    /\ balance = Grant
    /\ ledger = [w \in Wallets |->
           IF Grant[w] = 0 THEN <<>>
           ELSE <<[kind |-> "registration", call |-> NoCall,
                   delta |-> Grant[w], after |-> Grant[w]]>>]
    /\ usage = [c \in CallIds |-> NoRow]
    /\ revoked = {}
    /\ enabled = Users
    /\ members = [w \in Wallets |->
           IF WalletUser[w] = NoUser
           THEN {TokenUser[t] : t \in {s \in Tokens : TokenWallet[s] = w}} ELSE {}]
    /\ tools = InitTools
    /\ role = InitRole
    /\ rate = InitRate
    /\ frozen = NoUser
    /\ pc = [p \in Procs |-> "idle"]
    /\ job = [p \in Procs |-> NoCall]
    /\ want = [p \in Procs |-> NoRow.tool]
    /\ verdict = [p \in Procs |-> "ok"]
    /\ tx = [p \in Procs |-> NoTx]
    /\ batch = [r \in Replicas |-> {}]
    /\ writes = 0
    /\ faults = 0

-----------------------------------------------------------------------------
\* Gateway.call and Store.reserve

(* The bearer token is resolved to a principal before the call starts. *)
AuthToken(p) ==
    /\ pc[p] = "idle"
    /\ \E r \in Requests :
        /\ KeysFresh => \A q \in Callers : job[q] # r.call
        /\ job' = [job EXCEPT ![p] = r.call]
        /\ want' = [want EXCEPT ![p] = r.tool]
        /\ Goto(p, IF Authorized(r.call[1]) THEN "admit" ELSE "done")
    /\ UNCHANGED <<db, auth, verdict, tx, batch, writes, faults>>

(* The rate budgets (module RateLimit) let the call through or refuse it. *)
Admit(p) ==
    /\ pc[p] = "admit"
    /\ \/ Goto(p, "reserve")
       \/ Goto(p, "refuse")
    /\ UNCHANGED <<db, auth, job, want, verdict, tx, batch, writes, faults>>

(* recordDenied: one autocommitted INSERT of a free row; the handler       *)
(* ignores its error, such as a request key that is taken.                 *)
RecordDenied(p) ==
    /\ pc[p] = "refuse"
    /\ frozen # Usr(p)
    /\ \A q \in Procs : ~InsertedCall(q, job[p])
    /\ usage' = IF usage[job[p]].status # "none" THEN usage
                ELSE [usage EXCEPT ![job[p]] =
                        [NoRow EXCEPT !.status = "denied", !.tool = want[p],
                                      !.rate = rate[role[Usr(p)]], !.audited = TRUE]]
    /\ Goto(p, "done")
    /\ UNCHANGED <<balance, ledger, auth, job, want, verdict, tx, batch, writes, faults>>

LockWallet(p) ==
    /\ pc[p] = "reserve"
    /\ WalletFree(Wal(p))
    /\ tx' = [tx EXCEPT ![p] = [NoTx EXCEPT !.read = balance[Wal(p)]]]
    /\ Goto(p, "price")
    /\ UNCHANGED <<db, auth, job, want, verdict, batch, writes, faults>>

(* A disabled tool ends the transaction with ErrNotFound. *)
ReadTool(p) ==
    /\ pc[p] = "price"
    /\ IF tools[want[p]].enabled
       THEN /\ tx' = [tx EXCEPT ![p].cost = tools[want[p]].cost]
            /\ Goto(p, "authorize")
       ELSE /\ tx' = [tx EXCEPT ![p] = NoTx]
            /\ Goto(p, "refuse")
    /\ UNCHANGED <<db, auth, job, want, verdict, batch, writes, faults>>

(* The first authorization check, the billing role, the tool's allowed     *)
(* roles and the lookup of an earlier call under the same request key.     *)
Authorize(p) ==
    LET r == role[Usr(p)]
        roles == tools[want[p]].roles
        price == applyMultiplierBP(tx[p].cost, rate[r])
        old == usage[job[p]]
    IN  /\ pc[p] = "authorize"
        /\ \/ /\ ~Authorized(Tok(p))
              /\ Goto(p, "done")
              /\ UNCHANGED verdict
           \/ /\ Authorized(Tok(p)) /\ roles # {} /\ r \notin roles
              /\ Goto(p, "refuse")
              /\ UNCHANGED verdict
           \/ /\ Authorized(Tok(p)) /\ (roles = {} \/ r \in roles)
              /\ \/ /\ old.status = "none"
                    /\ Goto(p, "insert")
                    /\ UNCHANGED verdict
                 \/ /\ old.status # "none"
                    /\ old.tool # want[p] \/ old.requested # price   \* ErrConflict
                    /\ Goto(p, "done")
                    /\ UNCHANGED verdict
                 \/ /\ old.status = "denied"
                    /\ old.tool = want[p] /\ old.requested = price
                    /\ Goto(p, "finish")
                    /\ verdict' = [verdict EXCEPT ![p] = "error"]
                 \/ /\ old.status \notin {"none", "denied"}
                    /\ old.tool = want[p] /\ old.requested = price
                    /\ Goto(p, "execute")
                    /\ UNCHANGED verdict
        /\ tx' = [tx EXCEPT ![p] = IF pc'[p] = "insert"
                                   THEN [@ EXCEPT !.cost = price, !.rate = rate[r]]
                                   ELSE NoTx]
        /\ UNCHANGED <<db, auth, job, want, batch, writes, faults>>

(* INSERT INTO usage_logs: it waits for the users row (foreign key), fails *)
(* on a request key that was taken meanwhile, and stays invisible to       *)
(* others until the commit.                                                *)
Insert(p) ==
    /\ pc[p] = "insert"
    /\ frozen # Usr(p)
    /\ IF usage[job[p]].status = "none"
       THEN Goto(p, "recheck") /\ UNCHANGED tx
       ELSE Goto(p, "done") /\ tx' = [tx EXCEPT ![p] = NoTx]
    /\ UNCHANGED <<db, auth, job, want, verdict, batch, writes, faults>>

(* "Recheck after every write, so revocation during that wait rolls back". *)
RecheckPasses(p) == Authorized(Tok(p))
Recheck(p) ==
    /\ pc[p] = "recheck"
    /\ IF RecheckPasses(p)
       THEN Goto(p, "commit") /\ UNCHANGED tx
       ELSE Goto(p, "done") /\ tx' = [tx EXCEPT ![p] = NoTx]
    /\ UNCHANGED <<db, auth, job, want, verdict, batch, writes, faults>>

(* The commit publishes the row and, for an affordable call, the debited   *)
(* balance and its reservation entry.  A denied row is then given its      *)
(* audit data by a FinishWithData that fails the call.                     *)
CoversAnything(read, cost) == TRUE
Covers(read, cost) == read >= cost
CommitReservation(p) ==
    LET c == job[p]  t == tx[p]  funded == Covers(t.read, t.cost)
    IN  /\ pc[p] = "commit"
        /\ usage' = [usage EXCEPT ![c] =
               [NoRow EXCEPT !.status = IF funded THEN "pending" ELSE "denied",
                             !.tool = want[p], !.requested = t.cost, !.rate = t.rate]]
        /\ IF funded
           THEN /\ balance' = [balance EXCEPT ![Wal(p)] = @ - t.cost]
                /\ Post(Wal(p), "reservation", c, 0 - t.cost, t.read - t.cost)
                /\ Goto(p, "execute")
                /\ UNCHANGED verdict
           ELSE /\ UNCHANGED <<balance, ledger>>
                /\ Goto(p, "finish")
                /\ verdict' = [verdict EXCEPT ![p] = "error"]
        /\ tx' = [tx EXCEPT ![p] = NoTx]
        /\ UNCHANGED <<auth, job, want, batch, writes, faults>>

(* The upstream answers and the settlement policy judges the answer. *)
Execute(p) ==
    /\ pc[p] = "execute"
    /\ \E v \in {"ok", "error"} : verdict' = [verdict EXCEPT ![p] = v]
    /\ Goto(p, "finish")
    /\ UNCHANGED <<db, auth, job, want, tx, batch, writes, faults>>

-----------------------------------------------------------------------------
\* Store.finish, shared by the caller and by recovery

(* Lock the usage row and decide on what it says: a pending row is         *)
(* settled, a denied one takes the caller's audit data, any other is left. *)
OpenAnyRow(s) == s \in {"pending", "ok", "error"}
Open(s) == s = "pending"
LockCall(p) ==
    LET c == job[p]  s == usage[c].status
    IN  /\ pc[p] = "finish"
        /\ CallFree(c)
        /\ IF Open(s)
           THEN /\ Goto(p, IF verdict[p] = "ok" THEN "close" ELSE "settle")
                /\ UNCHANGED <<usage, job>>
           ELSE /\ usage' = IF s = "denied" /\ p \in Callers
                            THEN [usage EXCEPT ![c].audited = TRUE] ELSE usage
                /\ Rest(p)
                /\ job' = [job EXCEPT ![p] = IF p \in Callers THEN @ ELSE NoCall]
        /\ UNCHANGED <<balance, ledger, auth, want, verdict, tx, batch, writes, faults>>

(* UPDATE wallets ... RETURNING balance. *)
CreditWallet(p) ==
    /\ pc[p] = "settle"
    /\ WalletFree(Wal(p))
    /\ tx' = [tx EXCEPT ![p] =
           [NoTx EXCEPT !.read = balance[Wal(p)] + usage[job[p]].requested]]
    /\ Goto(p, "post")
    /\ UNCHANGED <<db, auth, job, want, verdict, batch, writes, faults>>

(* The ledger INSERT waits for the users row. *)
PostCredit(p) ==
    /\ pc[p] = "post"
    /\ frozen # Usr(p)
    /\ Goto(p, "close")
    /\ UNCHANGED <<db, auth, job, want, verdict, tx, batch, writes, faults>>

CloseCall(p) ==
    LET c == job[p]  row == usage[c]  v == verdict[p]
    IN  /\ pc[p] = "close"
        /\ usage' = [usage EXCEPT ![c] =
               [row EXCEPT !.status = v,
                           !.cost = IF v = "ok" THEN row.requested ELSE 0,
                           !.audited = @ \/ p \in Callers]]
        /\ IF v = "ok" THEN UNCHANGED <<balance, ledger>>
           ELSE /\ balance' = [balance EXCEPT ![Wal(p)] = @ + row.requested]
                /\ Post(Wal(p), IF v = "error" THEN "refund" ELSE "recovery",
                        c, row.requested, tx[p].read)
        /\ tx' = [tx EXCEPT ![p] = NoTx]
        /\ job' = [job EXCEPT ![p] = IF p \in Callers THEN @ ELSE NoCall]
        /\ Rest(p)
        /\ UNCHANGED <<auth, want, verdict, batch, writes, faults>>

-----------------------------------------------------------------------------
\* The recovery goroutine of a replica

(* A pending row passes the five minutes of recoverExpiredCalls. *)
Expire(c) ==
    /\ usage[c].status = "pending" /\ ~usage[c].overdue
    /\ usage' = [usage EXCEPT ![c].overdue = TRUE]
    /\ UNCHANGED <<balance, ledger, auth, pc, job, want, verdict, tx, batch, writes, faults>>

RecoverableAtOnce(c) == usage[c].status = "pending"
Recoverable(c) == usage[c].status = "pending" /\ usage[c].overdue

(* One query of RecoverPending: a batch of the overdue pending ids, which  *)
(* other replicas and late callers may settle before this pass gets there. *)
Scan(r) ==
    LET due == {c \in CallIds : Recoverable(c)}
    IN  /\ pc[r] = "idle" /\ batch[r] = {} /\ due # {}
        /\ \E b \in SUBSET due :
            /\ b # {} /\ Cardinality(b) <= BatchSize
            /\ Cardinality(b) = BatchSize \/ b = due
            /\ batch' = [batch EXCEPT ![r] = b]
        /\ UNCHANGED <<db, auth, pc, job, want, verdict, tx, writes, faults>>

Recover(r) ==
    /\ pc[r] = "idle"
    /\ \E c \in batch[r] :
        /\ job' = [job EXCEPT ![r] = c]
        /\ batch' = [batch EXCEPT ![r] = @ \ {c}]
    /\ verdict' = [verdict EXCEPT ![r] = "recovered"]
    /\ Goto(r, "finish")
    /\ UNCHANGED <<db, auth, want, tx, writes, faults>>

(* A lost connection, a timeout or a crash: the open transaction rolls     *)
(* back; a caller gives up (a reservation it made stays pending), and a    *)
(* recovery pass ends with its error.  A commit whose answer is lost is    *)
(* the commit followed by this step.                                       *)
Fail(p) ==
    /\ faults < MaxFaults
    /\ pc[p] \notin {"idle", "done"}
    /\ faults' = faults + 1
    /\ tx' = [tx EXCEPT ![p] = NoTx]
    /\ Rest(p)
    /\ IF p \in Callers THEN UNCHANGED <<job, batch>>
       ELSE /\ job' = [job EXCEPT ![p] = NoCall]
            /\ batch' = [batch EXCEPT ![p] = {}]
    /\ UNCHANGED <<db, auth, want, verdict, writes>>

-----------------------------------------------------------------------------
\* Account and admin writes, each a transaction of its own

AdminWrite ==
    /\ writes < MaxAdmin
    /\ writes' = writes + 1
    /\ UNCHANGED <<usage, pc, job, want, verdict, tx, batch, faults>>

RevokeToken(t) ==
    /\ AdminWrite
    /\ t \notin revoked
    /\ revoked' = revoked \cup {t}
    /\ UNCHANGED <<balance, ledger, enabled, members, tools, role, rate, frozen>>

(* Leaving a team deletes the membership and revokes the member's tokens   *)
(* on the team's wallet, in one transaction.                               *)
RemoveMember(w, u) ==
    /\ AdminWrite
    /\ u \in members[w]
    /\ members' = [members EXCEPT ![w] = @ \ {u}]
    /\ revoked' = revoked \cup
                  {t \in Tokens : TokenWallet[t] = w /\ TokenUser[t] = u}
    /\ UNCHANGED <<balance, ledger, enabled, tools, role, rate, frozen>>

(* setUserEnabled: an advisory lock admits one such transaction at a time; *)
(* it takes the users row FOR UPDATE, waiting for the KEY SHARE locks on   *)
(* it, and later commits the new columns or gives up.                      *)
LockUser(u) ==
    /\ AdminWrite
    /\ frozen = NoUser
    /\ UserUnused(u)
    /\ frozen' = u
    /\ UNCHANGED <<balance, ledger, revoked, enabled, members, tools, role, rate>>

CommitUser ==
    /\ frozen # NoUser
    /\ frozen' = NoUser
    /\ \/ enabled' \in {enabled \ {frozen}, enabled \cup {frozen}} /\ UNCHANGED role
       \/ \E r \in Roles : role' = [role EXCEPT ![frozen] = r] /\ UNCHANGED enabled
    /\ UNCHANGED <<db, revoked, members, tools, rate, pc, job, want, verdict, tx,
                   batch, writes, faults>>

(* saveTool takes the tools row FOR UPDATE. *)
SaveTool(t) ==
    /\ AdminWrite
    /\ ToolFree(t)
    /\ \/ tools' = [tools EXCEPT ![t].enabled = ~@]
       \/ \E n \in Prices : tools' = [tools EXCEPT ![t].cost = n]
       \/ \E s \in SUBSET Roles : tools' = [tools EXCEPT ![t].roles = s]
    /\ UNCHANGED <<balance, ledger, revoked, enabled, members, role, rate, frozen>>

UpdateBillingRole(r) ==
    /\ AdminWrite
    /\ \E n \in Rates : rate' = [rate EXCEPT ![r] = n]
    /\ UNCHANGED <<balance, ledger, revoked, enabled, members, tools, role, frozen>>

(* adjustBalance under a fresh idempotency key: it holds the wallet lock   *)
(* from its first statement to its commit, so it is one step that waits.   *)
AdjustBalance(w, d) ==
    /\ AdminWrite
    /\ d # 0
    /\ WalletFree(w)
    /\ WalletUser[w] # NoUser /\ WalletUser[w] # frozen
    /\ balance[w] + d >= 0
    /\ balance' = [balance EXCEPT ![w] = @ + d]
    /\ Post(w, "adjustment", NoCall, d, balance[w] + d)
    /\ UNCHANGED auth

-----------------------------------------------------------------------------
CallerStep(p) ==
    \/ AuthToken(p) \/ Admit(p) \/ RecordDenied(p)
    \/ LockWallet(p) \/ ReadTool(p) \/ Authorize(p) \/ Insert(p) \/ Recheck(p)
    \/ CommitReservation(p) \/ Execute(p)

FinishStep(p) == LockCall(p) \/ CreditWallet(p) \/ PostCredit(p) \/ CloseCall(p)

RecoveryStep(r) == Scan(r) \/ Recover(r)

AdminStep ==
    \/ \E t \in Tokens : RevokeToken(t)
    \/ \E w \in Wallets, u \in Users : RemoveMember(w, u)
    \/ \E u \in Users : LockUser(u)
    \/ \E t \in Tools : SaveTool(t)
    \/ \E r \in Roles : UpdateBillingRole(r)
    \/ \E w \in Wallets, d \in Adjustments : AdjustBalance(w, d)

(* Every caller has answered and no pending row is left to recover. *)
Quiet ==
    /\ \A p \in Callers : pc[p] = "done"
    /\ \A r \in Replicas : pc[r] = "idle" /\ batch[r] = {}
    /\ \A c \in CallIds : usage[c].status # "pending"
    /\ frozen = NoUser
    /\ UNCHANGED vars

Next ==
    \/ \E p \in Callers : CallerStep(p)
    \/ \E p \in Procs : FinishStep(p)
    \/ \E r \in Replicas : RecoveryStep(r)
    \/ \E c \in CallIds : Expire(c)
    \/ \E p \in Procs : Fail(p)
    \/ CommitUser
    \/ AdminStep
    \/ Quiet

Spec == Init /\ [][Next]_vars

(* The scheduling the code relies on: every goroutine runs, a database     *)
(* statement that can run does, the recovery ticker ticks, time passes.    *)
Fairness ==
    /\ \A p \in Callers : WF_vars(CallerStep(p) \/ FinishStep(p))
    /\ \A r \in Replicas : WF_vars(RecoveryStep(r) \/ FinishStep(r))
    /\ \A c \in CallIds : WF_vars(Expire(c))
    /\ WF_vars(CommitUser)

FairSpec == Spec /\ Fairness

-----------------------------------------------------------------------------
\* Properties

TypeOK ==
    /\ balance \in [Wallets -> Int]
    /\ ledger \in [Wallets -> Seq(Entries)]
    /\ usage \in [CallIds -> UsageRows]
    /\ revoked \subseteq Tokens
    /\ enabled \subseteq Users
    /\ members \in [Wallets -> SUBSET Users]
    /\ tools \in [Tools -> ToolRows]
    /\ role \in [Users -> Roles]
    /\ rate \in [Roles -> Nat]
    /\ frozen \in Users \cup {NoUser}
    /\ pc \in [Procs -> Phases]
    /\ job \in [Procs -> CallIds \cup {NoCall}]
    /\ want \in [Procs -> Tools]
    /\ verdict \in [Procs -> Settled]
    /\ tx \in [Procs -> [read : Int, cost : Nat, rate : Nat]]
    /\ batch \in [Replicas -> SUBSET CallIds]
    /\ writes \in Nat /\ faults \in Nat

(* What the row locks buy, and what every later property rests on: one     *)
(* process at a time holds a wallet or a usage row, what it read there is  *)
(* still true when it writes, a row being settled is still pending and a   *)
(* row being inserted still absent.                                        *)
Reserving(p) == pc[p] \in {"price", "authorize", "insert", "recheck", "commit"}
Crediting(p) == pc[p] = "post" \/ (pc[p] = "close" /\ verdict[p] # "ok")
WalletExclusive ==
    \A p, q \in Procs, w \in Wallets : HoldsWallet(p, w) /\ HoldsWallet(q, w) => p = q
CallExclusive ==
    \A p, q \in Procs, c \in CallIds : HoldsCall(p, c) /\ HoldsCall(q, c) => p = q
ReadsCurrent ==
    \A p \in Procs :
        /\ Reserving(p) => tx[p].read = balance[Wal(p)]
        /\ Crediting(p) => tx[p].read = balance[Wal(p)] + usage[job[p]].requested
RowsHeld ==
    \A p \in Procs, c \in CallIds :
        /\ HoldsCall(p, c) => usage[c].status = "pending"
        /\ InsertedCall(p, c) => usage[c].status = "none"
LockDiscipline == WalletExclusive /\ CallExclusive /\ ReadsCurrent /\ RowsHeld

(* The ledger of a wallet explains its balance: every row's balance_after  *)
(* is the previous row's plus the row's delta, never negative, and the     *)
(* last one is the balance, although reservations, refunds and adjustments *)
(* read and write the wallet in separate statements.                       *)
Before(s, i) == IF i = 1 THEN 0 ELSE s[i - 1].after
LedgerChain ==
    \A w \in Wallets :
        /\ balance[w] = Latest(ledger[w])
        /\ balance[w] >= 0
        /\ \A i \in 1..Len(ledger[w]) :
             /\ ledger[w][i].after = Before(ledger[w], i) + ledger[w][i].delta
             /\ ledger[w][i].after >= 0

(* Every call is in the ledger exactly as its row says: a reservation once *)
(* if it was ever funded, one refund if it failed, one recovery if it was  *)
(* abandoned, never both, and it is charged only when it succeeded, also   *)
(* when a late answer and recovery settle the same call.                   *)
Rows(c, kind) ==
    LET s == ledger[TokenWallet[c[1]]]
    IN  {i \in 1..Len(s) : s[i].call = c /\ s[i].kind = kind}
PostedOnce(c, kind, delta) ==
    \E i \in 1..Len(ledger[TokenWallet[c[1]]]) :
        Rows(c, kind) = {i} /\ ledger[TokenWallet[c[1]]][i].delta = delta
CallsAccounted ==
  TypeOK /\
    \A c \in CallIds :
        LET row == usage[c]
        IN  /\ IF row.status \in {"none", "denied"} THEN Rows(c, "reservation") = {}
               ELSE PostedOnce(c, "reservation", 0 - row.requested)
            /\ IF row.status = "error" THEN PostedOnce(c, "refund", row.requested)
               ELSE Rows(c, "refund") = {}
            /\ IF row.status = "recovered" THEN PostedOnce(c, "recovery", row.requested)
               ELSE Rows(c, "recovery") = {}
            /\ row.cost = IF row.status = "ok" THEN row.requested ELSE 0

(* A reservation commits only while its user is enabled, its tool enabled, *)
(* and at the tool's price of that moment: the foreign key's lock on the   *)
(* users row and the FOR SHARE lock on the tool hold them still between    *)
(* the reads and the commit.                                               *)
ReservedAtCommit ==
    [][\A c \in CallIds :
        usage[c].status = "none" /\ usage'[c].status = "pending" =>
            LET t == tools[usage'[c].tool]
            IN  /\ TokenUser[c[1]] \in enabled
                /\ t.enabled
                /\ usage'[c].requested = applyMultiplierBP(t.cost, usage'[c].rate)]_vars

(* A tool runs only while its price is held, or after recovery returned a  *)
(* reservation that was overdue: no caller executes unfunded, and nobody   *)
(* else settles the call of a caller that is still executing it in time.   *)
NoFreeExecution ==
    \A p \in Callers : pc[p] = "execute" =>
        \/ usage[job[p]].status = "pending"
        \/ usage[job[p]].status = "recovered" /\ usage[job[p]].overdue

(* Behind its statements, locks and processes the metering is an account   *)
(* that holds, charges, releases and adjusts in single steps.              *)
CallWallet == [c \in CallIds |-> TokenWallet[c[1]]]
Abstract(row) ==
    CASE row.status = "none" -> "new"
      [] row.status = "denied" -> "refused"
      [] row.status = "pending" -> "held"
      [] row.status = "ok" -> "charged"
      [] OTHER -> "released"
AbstractPhase == [c \in CallIds |-> Abstract(usage[c])]
AbstractAmount == [c \in CallIds |->
    IF usage[c].status \in {"none", "denied"} THEN 0 ELSE usage[c].requested]
Account == INSTANCE CallAccount WITH
    Wallets <- Wallets, Calls <- CallIds, WalletOf <- CallWallet, Initial <- Grant,
    available <- balance, phase <- AbstractPhase, amount <- AbstractAmount
RefinesAccount == Account!AccountSpec

(* Whatever fails, every reservation is eventually charged or returned,    *)
(* and every caller that starts a call answers it: no lock wait lasts.  A  *)
(* caller calls once and a settled row stays settled, so that both come to *)
(* an end for good.                                                        *)
NonePending == \A c \in CallIds : usage[c].status # "pending"
AllAnswered == \A p \in Callers : pc[p] \in {"idle", "done"}
CallsSettle == <>[](NonePending /\ AllAnswered)
=============================================================================
