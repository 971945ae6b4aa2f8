------------------------------ MODULE Credits ------------------------------
(***************************************************************************)
(* Credits that enter or leave a personal wallet without a call: an admin  *)
(* adjusts a balance (adjustBalance of internal/app/account.go), mints a   *)
(* redemption code and a user redeems it (internal/app/billing.go).        *)
(*                                                                         *)
(* A handler is one HTTP request over PostgreSQL at READ COMMITTED.  What  *)
(* it writes becomes visible at its commit.  A client that heard nothing   *)
(* sends the request again: to the server that is one more request.        *)
(***************************************************************************)
EXTENDS Integers, Sequences, FiniteSets, FiniteSetsExt

CONSTANTS
  Users,           \* accounts
  Codes,           \* codes that can be minted, each worth Worth credits
  Worth,
  Keys,            \* idempotency keys of adjustments
  Deltas,          \* amounts an admin may adjust by
  Handlers, None,
  Scenarios        \* who takes part, and the bounds of a behaviour

(* A scenario: the users that take part and the admins among them, the     *)
(* codes and keys that are used, the credits of each wallet at the start,  *)
(* and how many requests, debits by calls and changes of accounts come.    *)
Scenario == [users : SUBSET Users, admins : SUBSET Users, codes : SUBSET Codes,
             keys : SUBSET Keys, opening : Nat, requests : Nat, spends : Nat, changes : Nat]

ASSUME CreditsAssumption ==
  /\ IsFiniteSet(Users)
  /\ Worth \in Nat \ {0} /\ Deltas \subseteq Int \ {0}
  /\ Scenarios \subseteq Scenario
  /\ None \notin Users \cup Codes \cup Keys \cup Handlers
  /\ Users \cap {"none", "open"} = {}

VARIABLES
  enabled, userLock,       \* users.enabled; the user row setUserEnabled holds
  balance, ledger,         \* wallets and their ledger rows
  code,                    \* redemption_codes: "none", "open" or redeemed by a user
  walletLock, codeLock,    \* rows locked FOR UPDATE, by handler
  handler,
  answers,                 \* history: adjustments answered with success
  requests, spends, changes,
  scenario                 \* the bounds of this behaviour

vars == <<enabled, userLock, balance, ledger, code, walletLock, codeLock, handler, answers,
          requests, spends, changes, scenario>>
rows == <<balance, ledger, code>>
locks == <<walletLock, codeLock>>
account == <<enabled, userLock, changes, scenario>>

Free == [pc |-> "idle", op |-> None, actor |-> None, user |-> None, item |-> None,
         delta |-> 0, balance |-> 0]

Init ==
  /\ scenario \in Scenarios
  /\ enabled = [u \in Users |-> TRUE] /\ userLock = None
  /\ balance = [u \in Users |-> scenario.opening] /\ ledger = [u \in Users |-> <<>>]
  /\ code = [c \in Codes |-> "none"]
  /\ walletLock = [u \in Users |-> None] /\ codeLock = [c \in Codes |-> None]
  /\ handler = [h \in Handlers |-> Free]
  /\ answers = {}
  /\ requests = 0 /\ spends = 0 /\ changes = 0

WalletUnlocked(u) == TRUE                                      \* mutant
WalletFree(u) == walletLock[u] = None
CodeFree(c) == codeLock[c] = None

(* Ledger rows and codes refer to the rows of the users they name.         *)
Names(h) == {handler[h].actor, handler[h].user}
Referred(u) == \E h \in Handlers : u \in Names(h) /\ handler[h].pc \in {"confirm", "commit"}
MayRefer(h) == userLock \notin Names(h)

Entry(kind, key, delta, after) == [kind |-> kind, key |-> key, delta |-> delta, after |-> after]
Posted(u, kind, key) ==
  {i \in DOMAIN ledger[u] : ledger[u][i].kind = kind /\ ledger[u][i].key = key}

----------------------------------------------------------------------------
Unlocked(f, h) == [x \in DOMAIN f |-> IF f[x] = h THEN None ELSE f[x]]

End(h) ==
  /\ handler' = [handler EXCEPT ![h] = Free]
  /\ walletLock' = Unlocked(walletLock, h) /\ codeLock' = Unlocked(codeLock, h)
Rollback(h) == End(h) /\ UNCHANGED <<rows, answers>>
Goto(h, pc) == handler' = [handler EXCEPT ![h].pc = pc]
Stays == UNCHANGED <<account, requests, spends>>

(* A request passes currentUser; adjusting and minting want an admin.      *)
Starts(h, first, op, a, u, item, delta) ==
  /\ handler[h].pc = "idle" /\ requests < scenario.requests /\ enabled[a]
  /\ handler' = [handler EXCEPT ![h] =
       [Free EXCEPT !.pc = first, !.op = op, !.actor = a, !.user = u, !.item = item,
                    !.delta = delta]]
  /\ requests' = requests + 1
  /\ UNCHANGED <<account, rows, locks, answers, spends>>

Request(h) ==
  \/ \E a \in scenario.admins, u \in scenario.users, k \in scenario.keys, d \in Deltas :
       Starts(h, "wallet", "adjust", a, u, k, d)
  \/ \E a \in scenario.admins, c \in scenario.codes :
       /\ code[c] = "none" /\ \A g \in Handlers : handler[g].item # c
       /\ Starts(h, "refer", "mint", a, a, c, Worth)
  \/ \E u \in scenario.users, c \in scenario.codes :
       code[c] # "none" /\ Starts(h, "code", "redeem", u, u, c, Worth)

(* redeem: the code's row, then the wallet's.                              *)
LockCode(h) ==
  LET c == handler[h].item IN
  /\ handler[h].pc = "code" /\ CodeFree(c)
  /\ \/ code[c] # "open" /\ Rollback(h)
     \/ /\ code[c] = "open"
        /\ codeLock' = [codeLock EXCEPT ![c] = h] /\ Goto(h, "wallet")
        /\ UNCHANGED <<walletLock, rows, answers>>
  /\ Stays

LockWallet(h) ==
  LET u == handler[h].user IN
  /\ handler[h].pc = "wallet" /\ WalletFree(u)
  /\ walletLock' = [walletLock EXCEPT ![u] = h]
  /\ handler' = [handler EXCEPT ![h].pc = "authorize", ![h].balance = balance[u]]
  /\ UNCHANGED <<codeLock, rows, answers>> /\ Stays

(* The session is read again now that the rows are locked.                 *)
Authorize(h) ==
  /\ handler[h].pc = "authorize"
  /\ \/ ~enabled[handler[h].actor] /\ Rollback(h)
     \/ /\ enabled[handler[h].actor]
        /\ Goto(h, IF handler[h].op = "adjust" THEN "replay" ELSE "refer")
        /\ UNCHANGED <<locks, rows, answers>>
  /\ Stays

Answer(u, k, d, after) == [user |-> u, key |-> k, delta |-> d, balance |-> after]

(* adjustBalance: the key may have been used before, for the same or for   *)
(* another adjustment; a new one must leave nothing owing.                 *)
CurrentBalance(u, i) == balance[u]                             \* mutant
StoredBalance(u, i) == ledger[u][i].after

Replay(h) ==
  LET r == handler[h]  prior == Posted(r.user, "adjustment", r.item) IN
  /\ r.pc = "replay"
  /\ \/ \E i \in prior :
          /\ answers' = IF ledger[r.user][i].delta # r.delta THEN answers
                        ELSE answers \cup {Answer(r.user, r.item, r.delta, StoredBalance(r.user, i))}
          /\ End(h) /\ UNCHANGED rows
     \/ prior = {} /\ r.balance + r.delta < 0 /\ Rollback(h)
     \/ /\ prior = {} /\ r.balance + r.delta >= 0
        /\ Goto(h, "refer") /\ UNCHANGED <<locks, rows, answers>>
  /\ Stays

(* The rows are inserted, which waits for setUserEnabled.                  *)
Refer(h) ==
  /\ handler[h].pc = "refer" /\ MayRefer(h)
  /\ Goto(h, "confirm")
  /\ UNCHANGED <<locks, rows, answers>> /\ Stays

Pays(h) ==
  LET r == handler[h] IN
  /\ balance' = [balance EXCEPT ![r.user] = @ + r.delta]
  /\ ledger' = [ledger EXCEPT ![r.user] = Append(@,
       Entry(IF r.op = "adjust" THEN "adjustment" ELSE "redemption", r.item, r.delta,
             r.balance + r.delta))]

UncheckedActor(h) == TRUE                                      \* mutant
StillAllowed(h) == enabled[handler[h].actor]

(* The session is read a last time; what comes between that and the commit *)
(* is shut out by the rows held alone.                                     *)
Confirm(h) ==
  /\ handler[h].pc = "confirm"
  /\ \/ ~StillAllowed(h) /\ Rollback(h)
     \/ StillAllowed(h) /\ Goto(h, "commit") /\ UNCHANGED <<locks, rows, answers>>
  /\ Stays

Commit(h) ==
  LET r == handler[h] IN
  /\ r.pc = "commit" /\ End(h)
  /\ \/ /\ r.op = "mint" /\ code' = [code EXCEPT ![r.item] = "open"]
        /\ UNCHANGED <<balance, ledger, answers>>
     \/ /\ r.op = "redeem" /\ code' = [code EXCEPT ![r.item] = r.user] /\ Pays(h)
        /\ UNCHANGED answers
     \/ /\ r.op = "adjust" /\ Pays(h) /\ UNCHANGED code
        /\ answers' = answers \cup {Answer(r.user, r.item, r.delta, r.balance + r.delta)}
  /\ Stays

(* The client disconnects, or the database or the process fails.           *)
Aborts(h) == handler[h].pc # "idle" /\ Rollback(h) /\ Stays

(* A metered call debits the wallet: one transaction of module Metering.   *)
Spend(u) ==
  /\ WalletFree(u) /\ balance[u] > 0 /\ spends < scenario.spends
  /\ balance' = [balance EXCEPT ![u] = @ - 1]
  /\ ledger' = [ledger EXCEPT ![u] = Append(@, Entry("reservation", None, -1, balance[u] - 1))]
  /\ spends' = spends + 1
  /\ UNCHANGED <<account, code, locks, handler, answers, requests>>

(* setUserEnabled, by an admin who keeps at least one admin enabled.       *)
LockUser(u) ==
  /\ userLock = None /\ changes < scenario.changes /\ ~Referred(u)
  /\ u \in scenario.admins /\ enabled[u] => \E a \in scenario.admins \ {u} : enabled[a]
  /\ userLock' = u
  /\ UNCHANGED <<enabled, changes, scenario, rows, locks, handler, answers, requests, spends>>

SetEnabled(u) ==
  /\ userLock = u /\ userLock' = None
  /\ enabled' = [enabled EXCEPT ![u] = ~@] /\ changes' = changes + 1
  /\ UNCHANGED <<scenario, rows, locks, handler, answers, requests, spends>>

Handle(h) ==
  \/ LockCode(h) \/ LockWallet(h) \/ Authorize(h) \/ Replay(h) \/ Refer(h)
  \/ Confirm(h) \/ Commit(h)

Next ==
  \/ \E h \in Handlers : Request(h) \/ Handle(h) \/ Aborts(h)
  \/ \E u \in scenario.users : Spend(u) \/ LockUser(u) \/ SetEnabled(u)

Spec == Init /\ [][Next]_vars

----------------------------------------------------------------------------
TypeOK ==
  /\ enabled \in [Users -> BOOLEAN] /\ userLock \in Users \cup {None}
  /\ balance \in [Users -> Nat]
  /\ \A u \in Users : \A i \in DOMAIN ledger[u] :
       ledger[u][i] \in [kind : {"adjustment", "redemption", "reservation"},
                         key : Keys \cup Codes \cup {None}, delta : Int, after : Nat]
  /\ code \in [Codes -> {"none", "open"} \cup Users]
  /\ walletLock \in [Users -> Handlers \cup {None}] /\ codeLock \in [Codes -> Handlers \cup {None}]
  /\ handler \in [Handlers ->
       [pc : {"idle", "code", "wallet", "authorize", "replay", "refer", "confirm", "commit"},
        op : {"adjust", "mint", "redeem", None}, actor : Users \cup {None},
        user : Users \cup {None}, item : Keys \cup Codes \cup {None}, delta : Int, balance : Nat]]
  /\ answers \subseteq [user : Users, key : Keys, delta : Int, balance : Nat]
  /\ scenario \in Scenarios /\ requests \in 0..scenario.requests
  /\ spends \in 0..scenario.spends /\ changes \in 0..scenario.changes

(* A code pays exactly one wallet, once: the one its row names.            *)
CodePaysOnce ==
  \A c \in Codes : \A u \in Users :
    Cardinality(Posted(u, "redemption", c)) = IF code[c] = u THEN 1 ELSE 0

(* The ledger explains every wallet row by row, whatever adjusts, redeems  *)
(* and spends at the same time: balance_after is what the next row adds to.*)
Before(u, i) == IF i = 1 THEN scenario.opening ELSE ledger[u][i - 1].after
LedgerExplains ==
  TypeOK /\ CodePaysOnce /\ \A u \in Users :
    /\ \A i \in DOMAIN ledger[u] : ledger[u][i].after = Before(u, i) + ledger[u][i].delta
    /\ balance[u] = Before(u, Len(ledger[u]) + 1)

(* An adjustment sent again is answered with its first result, whatever    *)
(* happened to the wallet since, and is made once.                         *)
RetryAnsweredAlike ==
  /\ \A a, b \in answers : a.user = b.user /\ a.key = b.key => a = b
  /\ \A u \in Users, k \in Keys : Cardinality(Posted(u, "adjustment", k)) <= 1

(* Credits move only for an account that is enabled when they do: one that *)
(* is disabled while its request waits is found out by the last check, and *)
(* after it the rows the request refers to keep administrators out until   *)
(* it has committed.                                                       *)
MovedByEnabled ==
  [][\A h \in Handlers : rows' # rows /\ handler[h].pc = "commit" /\ handler'[h].pc = "idle"
       => enabled[handler[h].actor]]_vars
=============================================================================
