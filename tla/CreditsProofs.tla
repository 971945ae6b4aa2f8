--------------------------- MODULE CreditsProofs ---------------------------
(***************************************************************************)
(* Theorems about Credits for every value of its constants: any number of  *)
(* users, codes, keys and requests under way.  The row locks of wallets    *)
(* and codes carry the argument: what a request read of a wallet or code   *)
(* it holds is still so when it commits.                                   *)
(***************************************************************************)
EXTENDS Credits, FiniteSetTheorems, SequenceTheorems, TLAPS

-----------------------------------------------------------------------------
\* The inductive invariant

Kinds == {"adjustment", "redemption", "reservation"}
LedgerRows == [kind : Kinds, key : Keys \cup Codes \cup {None}, delta : Int, after : Nat]
HandlerRows ==
  [pc : {"idle", "code", "wallet", "authorize", "replay", "refer", "confirm", "commit"},
   op : {"adjust", "mint", "redeem", None}, actor : Users \cup {None},
   user : Users \cup {None}, item : Keys \cup Codes \cup {None}, delta : Int, balance : Nat]
AnswerRows == [user : Users, key : Keys, delta : Int, balance : Nat]

AccountType ==
  /\ enabled \in [Users -> BOOLEAN] /\ userLock \in Users \cup {None}
  /\ scenario \in Scenarios /\ requests \in 0..scenario.requests
  /\ spends \in 0..scenario.spends /\ changes \in 0..scenario.changes
  /\ userLock # None => changes < scenario.changes
RowType ==
  /\ balance \in [Users -> Nat] /\ ledger \in [Users -> Seq(LedgerRows)]
  /\ code \in [Codes -> {"none", "open"} \cup Users]
  /\ answers \subseteq AnswerRows
LockType ==
  /\ walletLock \in [Users -> Handlers \cup {None}]
  /\ codeLock \in [Codes -> Handlers \cup {None}]

(* What a request works on, and how far it may be.                         *)
Shape(h) ==
  LET r == handler[h] IN
  r.pc # "idle" =>
    /\ r.actor \in Users /\ r.user \in Users
    /\ \/ /\ r.op = "adjust" /\ r.item \in Keys
          /\ r.pc \in {"wallet", "authorize", "replay", "refer", "confirm", "commit"}
       \/ r.op = "mint" /\ r.item \in Codes /\ r.pc \in {"refer", "confirm", "commit"}
       \/ /\ r.op = "redeem" /\ r.item \in Codes /\ r.delta = Worth
          /\ r.pc \in {"code", "wallet", "authorize", "refer", "confirm", "commit"}
HandlerType ==
  /\ handler \in [Handlers -> HandlerRows]
  /\ \A h \in Handlers : Shape(h)
TypeInv == AccountType /\ RowType /\ LockType /\ HandlerType

(* A row lock is where its holder is.                                      *)
HoldsWallet(h, u) ==
  /\ handler[h].op \in {"adjust", "redeem"} /\ handler[h].user = u
  /\ handler[h].pc \in {"authorize", "replay", "refer", "confirm", "commit"}
HoldsCode(h, c) ==
  /\ handler[h].op = "redeem" /\ handler[h].item = c
  /\ handler[h].pc \in {"wallet", "authorize", "refer", "confirm", "commit"}
LocksMeant ==
  /\ \A u \in Users, h \in Handlers : walletLock[u] = h <=> HoldsWallet(h, u)
  /\ \A c \in Codes, h \in Handlers : codeLock[c] = h <=> HoldsCode(h, c)

(* What the holder of a lock knows of the row.                             *)
BalanceRead ==
  \A h \in Handlers, u \in Users : HoldsWallet(h, u) => handler[h].balance = balance[u]
StillOpen == \A h \in Handlers, c \in Codes : HoldsCode(h, c) => code[c] = "open"
KeyUnused ==
  \A h \in Handlers :
    handler[h].op = "adjust" /\ handler[h].pc \in {"refer", "confirm", "commit"} =>
      /\ Posted(handler[h].user, "adjustment", handler[h].item) = {}
      /\ handler[h].balance + handler[h].delta >= 0
(* A code is minted by one request, and nobody redeems it before.          *)
Minting(h, c) ==
  handler[h].pc # "idle" /\ handler[h].op = "mint" /\ handler[h].item = c
MintedOnce ==
  /\ \A h \in Handlers, c \in Codes : Minting(h, c) => code[c] = "none"
  /\ \A g, h \in Handlers, c \in Codes : Minting(g, c) /\ Minting(h, c) => g = h
WorkInv == LocksMeant /\ BalanceRead /\ StillOpen /\ KeyUnused /\ MintedOnce

(* What the rows say of each other.                                        *)
PaidOnce ==
  \A c \in Codes, u \in Users :
    /\ code[c] = u <=> Posted(u, "redemption", c) # {}
    /\ \A i, j \in Posted(u, "redemption", c) : i = j
AdjustedOnce ==
  \A u \in Users, k \in Keys : \A i, j \in Posted(u, "adjustment", k) : i = j
AnswersPosted ==
  \A a \in answers : \E i \in Posted(a.user, "adjustment", a.key) :
    ledger[a.user][i].delta = a.delta /\ ledger[a.user][i].after = a.balance
ChainOf(u) ==
  /\ \A i \in 1..Len(ledger[u]) : ledger[u][i].after = Before(u, i) + ledger[u][i].delta
  /\ balance[u] = Before(u, Len(ledger[u]) + 1)
RowInv == PaidOnce /\ AdjustedOnce /\ AnswersPosted /\ \A u \in Users : ChainOf(u)

IInv == TypeInv /\ WorkInv /\ RowInv

-----------------------------------------------------------------------------
\* What a request that ends or moves on does to its own state

LEMMA Constants ==
  /\ Scenarios \subseteq Scenario /\ Worth \in Nat \ {0} /\ Deltas \subseteq Int
  /\ None \notin Users /\ None \notin Codes /\ None \notin Keys /\ None \notin Handlers
  /\ "open" \notin Users /\ "none" \notin Users
  /\ TypeInv => /\ scenario.users \subseteq Users /\ scenario.admins \subseteq Users
                /\ scenario.codes \subseteq Codes /\ scenario.keys \subseteq Keys
                /\ scenario.opening \in Nat /\ scenario.requests \in Nat
                /\ scenario.spends \in Nat /\ scenario.changes \in Nat
BY CreditsAssumption DEF Scenario, TypeInv, AccountType

LEMMA FreeTyped == Free \in HandlerRows
BY DEF Free, HandlerRows

LEMMA EndKeeps ==
  ASSUME TypeInv, NEW h \in Handlers, End(h)
  PROVE  LockType' /\ HandlerType'
<1>1. handler \in [Handlers -> HandlerRows] /\ \A g \in Handlers : Shape(g)
  BY DEF TypeInv, HandlerType
<1>2. handler' = [handler EXCEPT ![h] = Free]
  BY DEF End
<1>3. handler' \in [Handlers -> HandlerRows]
  BY <1>1, <1>2, FreeTyped
<1>4. ASSUME NEW g \in Handlers PROVE Shape(g)'
  <2>1. CASE g = h
    BY <1>1, <1>2, <2>1 DEF Shape, Free
  <2>2. CASE g # h
    <3>1. handler'[g] = handler[g]
      BY <1>1, <1>2, <2>2
    <3> QED
      BY <1>1, <3>1 DEF Shape
  <2> QED
    BY <2>1, <2>2
<1>5. LockType'
  BY DEF TypeInv, LockType, End, Unlocked
<1> QED
  BY <1>3, <1>4, <1>5 DEF HandlerType

(* A row that moves on is typed as before if what it takes on is.          *)
LEMMA MoveKeeps ==
  ASSUME TypeInv, NEW h \in Handlers, NEW r \in HandlerRows,
         handler' = [handler EXCEPT ![h] = r], Shape(h)'
  PROVE  HandlerType'
<1>1. handler \in [Handlers -> HandlerRows] /\ \A g \in Handlers : Shape(g)
  BY DEF TypeInv, HandlerType
<1>2. ASSUME NEW g \in Handlers, g # h PROVE Shape(g)'
  <2>1. handler'[g] = handler[g]
    BY <1>1, <1>2
  <2> QED
    BY <1>1, <2>1 DEF Shape
<1> QED
  BY <1>1, <1>2 DEF HandlerType

-----------------------------------------------------------------------------
\* Every step does one of five things to the rows

Posts(u, kind, key, delta) ==
  /\ balance' = [balance EXCEPT ![u] = @ + delta]
  /\ ledger' = [ledger EXCEPT ![u] = Append(@, Entry(kind, key, delta, balance[u] + delta))]

(* No row changes; an adjustment sent again is answered from its row.      *)
Kept ==
  /\ UNCHANGED rows
  /\ \/ UNCHANGED answers
     \/ \E u \in Users, k \in Keys : \E i \in Posted(u, "adjustment", k) :
          answers' = answers \cup {Answer(u, k, ledger[u][i].delta, ledger[u][i].after)}
Mints(c) ==
  /\ code[c] = "none" /\ code' = [code EXCEPT ![c] = "open"]
  /\ UNCHANGED <<balance, ledger, answers>>
Redeems(c, u) ==
  /\ code[c] = "open" /\ code' = [code EXCEPT ![c] = u]
  /\ Posts(u, "redemption", c, Worth) /\ UNCHANGED answers
Adjusts(u, k, d) ==
  /\ Posted(u, "adjustment", k) = {} /\ balance[u] + d >= 0
  /\ Posts(u, "adjustment", k, d) /\ UNCHANGED code
  /\ answers' = answers \cup {Answer(u, k, d, balance[u] + d)}
Spends(u) ==
  /\ balance[u] > 0 /\ Posts(u, "reservation", None, -1) /\ UNCHANGED <<code, answers>>
RowStep ==
  \/ Kept \/ \E c \in Codes : Mints(c) \/ \E u \in Users : Redeems(c, u)
  \/ \E u \in Users : Spends(u) \/ \E k \in Keys, d \in Int : Adjusts(u, k, d)

(* A request that waits changes no row.                                    *)
LEMMA Waiting ==
  ASSUME NEW h \in Handlers, Request(h) \/ LockCode(h) \/ LockWallet(h) \/ Authorize(h)
                             \/ Refer(h) \/ Confirm(h) \/ Aborts(h)
  PROVE  UNCHANGED <<rows, answers>>
BY DEF Request, Starts, LockCode, LockWallet, Authorize, Refer, Confirm, Aborts, Rollback

LEMMA ReplayRows ==
  ASSUME TypeInv, NEW h \in Handlers, Replay(h)
  PROVE  Kept
<1>1. handler[h].op = "adjust" /\ handler[h].item \in Keys /\ handler[h].user \in Users
  BY DEF Replay, TypeInv, HandlerType, Shape
<1>2. CASE UNCHANGED <<rows, answers>>
  BY <1>2 DEF Kept
<1>3. CASE \E i \in Posted(handler[h].user, "adjustment", handler[h].item) :
             /\ UNCHANGED rows /\ ledger[handler[h].user][i].delta = handler[h].delta
             /\ answers' = answers \cup {Answer(handler[h].user, handler[h].item,
                  handler[h].delta, ledger[handler[h].user][i].after)}
  BY <1>1, <1>3 DEF Kept
<1> QED
  BY <1>2, <1>3 DEF Replay, Rollback, StoredBalance

LEMMA CommitRows ==
  ASSUME TypeInv, WorkInv, NEW h \in Handlers, Commit(h)
  PROVE  RowStep
<1> DEFINE r == handler[h]
<1>1. /\ r.pc = "commit" /\ r.user \in Users /\ r.delta \in Int /\ Shape(h)
      /\ r \in HandlerRows
  BY DEF Commit, TypeInv, HandlerType, Shape, HandlerRows
<1>3. CASE /\ r.op = "mint" /\ code' = [code EXCEPT ![r.item] = "open"]
           /\ UNCHANGED <<balance, ledger, answers>>
  <2>1. r.item \in Codes /\ code[r.item] = "none"
    BY <1>1, <1>3 DEF Shape, WorkInv, MintedOnce, Minting
  <2> QED
    BY <1>3, <2>1 DEF RowStep, Mints
<1>4. CASE /\ r.op = "redeem" /\ code' = [code EXCEPT ![r.item] = r.user] /\ Pays(h)
           /\ UNCHANGED answers
  <2>1. r.item \in Codes /\ r.delta = Worth
    BY <1>1, <1>4 DEF Shape
  <2>2. HoldsCode(h, r.item) /\ HoldsWallet(h, r.user)
    BY <1>1, <1>4 DEF HoldsCode, HoldsWallet
  <2>3. code[r.item] = "open" /\ r.balance = balance[r.user]
    BY <1>1, <2>1, <2>2 DEF WorkInv, StillOpen, BalanceRead
  <2>4. Posts(r.user, "redemption", r.item, Worth)
    BY <1>4, <2>1, <2>3 DEF Posts, Pays
  <2> QED
    BY <1>1, <1>4, <2>1, <2>3, <2>4 DEF RowStep, Redeems
<1>5. CASE /\ r.op = "adjust" /\ Pays(h) /\ UNCHANGED code
           /\ answers' = answers \cup {Answer(r.user, r.item, r.delta, r.balance + r.delta)}
  <2>1. r.item \in Keys
    BY <1>1, <1>5 DEF Shape
  <2>2. HoldsWallet(h, r.user)
    BY <1>1, <1>5 DEF HoldsWallet
  <2>3. /\ r.balance = balance[r.user] /\ r.balance + r.delta >= 0
        /\ Posted(r.user, "adjustment", r.item) = {}
    BY <1>1, <1>5, <2>2 DEF WorkInv, KeyUnused, BalanceRead
  <2>4. Posts(r.user, "adjustment", r.item, r.delta)
    BY <1>5, <2>1, <2>3 DEF Posts, Pays
  <2>5. Adjusts(r.user, r.item, r.delta)
    BY <1>5, <2>3, <2>4 DEF Adjusts
  <2> QED
    BY <1>1, <2>1, <2>5 DEF RowStep
<1> QED
  BY <1>3, <1>4, <1>5 DEF Commit

LEMMA RowSteps == TypeInv /\ WorkInv /\ [Next]_vars => RowStep
<1> SUFFICES ASSUME TypeInv, WorkInv, [Next]_vars PROVE RowStep
  OBVIOUS
<1>1. CASE UNCHANGED vars
  BY <1>1 DEF vars, RowStep, Kept, rows
<1>2. ASSUME NEW h \in Handlers, Request(h) \/ Handle(h) \/ Aborts(h) PROVE RowStep
  <2>1. CASE Replay(h)
    BY <2>1, ReplayRows DEF RowStep
  <2>2. CASE Commit(h)
    BY <2>2, CommitRows
  <2> QED
    BY <1>2, <2>1, <2>2, Waiting DEF Handle, RowStep, Kept
<1>3. ASSUME NEW u \in Users, Spend(u) PROVE RowStep
  <2>1. Spends(u)
    BY <1>3 DEF Spend, Spends, Posts, TypeInv, RowType
  <2> QED
    BY <2>1 DEF RowStep
<1>4. ASSUME NEW u \in Users, LockUser(u) \/ SetEnabled(u) PROVE RowStep
  BY <1>4 DEF LockUser, SetEnabled, RowStep, Kept
<1> QED
  BY <1>1, <1>2, <1>3, <1>4, Constants DEF Next

LEMMA EntryTyped ==
  ASSUME NEW kind \in Kinds, NEW key \in Keys \cup Codes \cup {None}, NEW delta \in Int,
         NEW after \in Nat
  PROVE  /\ Entry(kind, key, delta, after) \in LedgerRows
         /\ Entry(kind, key, delta, after).kind = kind /\ Entry(kind, key, delta, after).key = key
         /\ Entry(kind, key, delta, after).delta = delta
         /\ Entry(kind, key, delta, after).after = after
BY DEF Entry, LedgerRows

LEMMA PostKeeps ==
  ASSUME TypeInv, NEW u \in Users, NEW kind \in Kinds, NEW key \in Keys \cup Codes \cup {None},
         NEW delta \in Int, balance[u] + delta >= 0, Posts(u, kind, key, delta)
  PROVE  balance' \in [Users -> Nat] /\ ledger' \in [Users -> Seq(LedgerRows)]
<1>1. balance[u] \in Nat /\ balance[u] + delta \in Nat
  BY DEF TypeInv, RowType
<1>2. Entry(kind, key, delta, balance[u] + delta) \in LedgerRows
  BY <1>1, EntryTyped
<1> QED
  BY <1>1, <1>2, AppendProperties DEF Posts, TypeInv, RowType

LEMMA RowTypes == TypeInv /\ RowStep => RowType'
<1> SUFFICES ASSUME TypeInv, RowStep PROVE RowType'
  OBVIOUS
<1>1. RowType /\ Worth \in Nat
  BY Constants DEF TypeInv
<1>2. CASE Kept
  <2>1. ASSUME NEW u \in Users, NEW k \in Keys, NEW i \in Posted(u, "adjustment", k)
        PROVE  Answer(u, k, ledger[u][i].delta, ledger[u][i].after) \in AnswerRows
    <3>1. ledger[u][i] \in LedgerRows
      BY <1>1, <2>1, LenProperties, ElementOfSeq DEF RowType, Posted
    <3> QED
      BY <3>1 DEF LedgerRows, Answer, AnswerRows
  <2> QED
    BY <1>1, <1>2, <2>1 DEF Kept, RowType, rows
<1>3. ASSUME NEW c \in Codes, Mints(c) PROVE RowType'
  BY <1>1, <1>3 DEF Mints, RowType
<1>4. ASSUME NEW c \in Codes, NEW u \in Users, Redeems(c, u) PROVE RowType'
  <2>1. balance[u] + Worth >= 0
    BY <1>1 DEF RowType
  <2>2. balance' \in [Users -> Nat] /\ ledger' \in [Users -> Seq(LedgerRows)]
    BY <1>1, <1>4, <2>1, PostKeeps DEF Redeems, Kinds
  <2> QED
    BY <1>1, <1>4, <2>2 DEF Redeems, RowType
<1>5. ASSUME NEW u \in Users, NEW k \in Keys, NEW d \in Int, Adjusts(u, k, d) PROVE RowType'
  <2>1. balance' \in [Users -> Nat] /\ ledger' \in [Users -> Seq(LedgerRows)]
    BY <1>5, PostKeeps DEF Adjusts, Kinds
  <2>2. Answer(u, k, d, balance[u] + d) \in AnswerRows
    BY <1>1, <1>5 DEF Answer, AnswerRows, Adjusts, RowType
  <2> QED
    BY <1>1, <1>5, <2>1, <2>2 DEF Adjusts, RowType
<1>6. ASSUME NEW u \in Users, Spends(u) PROVE RowType'
  <2>1. balance[u] + (-1) >= 0
    BY <1>1, <1>6 DEF RowType, Spends
  <2>2. balance' \in [Users -> Nat] /\ ledger' \in [Users -> Seq(LedgerRows)]
    BY <1>6, <2>1, PostKeeps DEF Spends, Kinds
  <2> QED
    BY <1>1, <1>6, <2>2 DEF Spends, RowType
<1> QED
  BY <1>2, <1>3, <1>4, <1>5, <1>6 DEF RowStep

-----------------------------------------------------------------------------
\* Type correctness

LEMMA AccountTypes == TypeInv /\ [Next]_vars => AccountType'
<1> SUFFICES ASSUME TypeInv, [Next]_vars PROVE AccountType'
  OBVIOUS
<1>1. /\ AccountType /\ scenario.users \subseteq Users /\ scenario.requests \in Nat
      /\ scenario.spends \in Nat /\ scenario.changes \in Nat
  BY Constants DEF TypeInv
<1> USE DEF AccountType
<1>2. CASE UNCHANGED vars
  BY <1>1, <1>2 DEF vars
<1>3. ASSUME NEW h \in Handlers, Request(h) PROVE AccountType'
  <2>1. requests < scenario.requests /\ requests' = requests + 1 /\ UNCHANGED <<account, spends>>
    BY <1>3 DEF Request, Starts
  <2> QED
    BY <1>1, <2>1 DEF account
<1>4. ASSUME NEW h \in Handlers, Handle(h) \/ Aborts(h) PROVE AccountType'
  <2>1. Stays
    BY <1>4 DEF Handle, LockCode, LockWallet, Authorize, Replay, Refer, Confirm, Commit, Aborts
  <2> QED
    BY <1>1, <2>1 DEF Stays, account
<1>5. ASSUME NEW u \in Users, Spend(u) PROVE AccountType'
  BY <1>1, <1>5 DEF Spend, account
<1>6. ASSUME NEW u \in Users, LockUser(u) PROVE AccountType'
  BY <1>1, <1>6 DEF LockUser
<1>7. ASSUME NEW u \in Users, SetEnabled(u) PROVE AccountType'
  <2>1. enabled' = [enabled EXCEPT ![u] = ~@] /\ enabled \in [Users -> BOOLEAN]
    BY <1>1, <1>7 DEF SetEnabled
  <2>2. enabled' \in [Users -> BOOLEAN]
    BY <2>1, Zenon
  <2>3. userLock = u /\ u # None /\ userLock' = None /\ changes' = changes + 1
        /\ UNCHANGED <<scenario, requests, spends>>
    BY <1>7, Constants DEF SetEnabled
  <2> QED
    BY <1>1, <2>2, <2>3
<1> QED
  BY <1>1, <1>2, <1>3, <1>4, <1>5, <1>6, <1>7 DEF Next

LEMMA StartTypes ==
  ASSUME TypeInv, NEW h \in Handlers, Request(h)
  PROVE  LockType' /\ HandlerType'
<1>0. Worth \in Int
  BY Constants
<1>1. LockType'
  BY DEF Request, Starts, locks, TypeInv, LockType
<1>2. ASSUME NEW a \in Users, NEW u \in Users, NEW k \in Keys, NEW d \in Int,
             Starts(h, "wallet", "adjust", a, u, k, d)
      PROVE  HandlerType'
  <2> DEFINE r == [Free EXCEPT !.pc = "wallet", !.op = "adjust", !.actor = a, !.user = u,
                               !.item = k, !.delta = d]
  <2>1. r \in HandlerRows /\ handler' = [handler EXCEPT ![h] = r]
    BY <1>2 DEF Starts, HandlerRows, Free
  <2>2. Shape(h)'
    BY <2>1 DEF Shape, Free, TypeInv, HandlerType
  <2> QED
    BY <2>1, <2>2, MoveKeeps
<1>3. ASSUME NEW a \in Users, NEW c \in Codes, Starts(h, "refer", "mint", a, a, c, Worth)
      PROVE  HandlerType'
  <2> DEFINE r == [Free EXCEPT !.pc = "refer", !.op = "mint", !.actor = a, !.user = a,
                               !.item = c, !.delta = Worth]
  <2>1. r \in HandlerRows /\ handler' = [handler EXCEPT ![h] = r]
    BY <1>3, <1>0 DEF Starts, HandlerRows, Free
  <2>2. Shape(h)'
    BY <2>1 DEF Shape, Free, TypeInv, HandlerType
  <2> QED
    BY <2>1, <2>2, MoveKeeps
<1>4. ASSUME NEW u \in Users, NEW c \in Codes, Starts(h, "code", "redeem", u, u, c, Worth)
      PROVE  HandlerType'
  <2> DEFINE r == [Free EXCEPT !.pc = "code", !.op = "redeem", !.actor = u, !.user = u,
                               !.item = c, !.delta = Worth]
  <2>1. r \in HandlerRows /\ handler' = [handler EXCEPT ![h] = r]
    BY <1>4, <1>0 DEF Starts, HandlerRows, Free
  <2>2. Shape(h)'
    BY <2>1 DEF Shape, Free, TypeInv, HandlerType
  <2> QED
    BY <2>1, <2>2, MoveKeeps
<1> QED
  BY <1>1, <1>2, <1>3, <1>4, Constants DEF Request

LEMMA HandleTypes ==
  ASSUME TypeInv, NEW h \in Handlers, Handle(h) \/ Aborts(h)
  PROVE  LockType' /\ HandlerType'
<1> DEFINE r == handler[h]
<1>1. /\ LockType /\ Shape(h) /\ r \in HandlerRows /\ handler \in [Handlers -> HandlerRows]
      /\ balance \in [Users -> Nat]
  BY DEF TypeInv, HandlerType, RowType
<1>2. CASE End(h)
  BY <1>2, EndKeeps
<1>3. ASSUME NEW pc \in {"wallet", "authorize", "replay", "refer", "confirm", "commit"}, NEW n \in Nat,
             handler' = [handler EXCEPT ![h] = [r EXCEPT !.pc = pc, !.balance = n]],
             r.pc # "idle",
             r.op = "mint" => pc \in {"refer", "confirm", "commit"},
             r.op = "redeem" => pc # "replay"
      PROVE  HandlerType'
  <2>1. [r EXCEPT !.pc = pc, !.balance = n] \in HandlerRows
    BY <1>1 DEF HandlerRows
  <2>2. Shape(h)'
    BY <1>1, <1>3 DEF Shape, HandlerRows
  <2> QED
    BY <1>3, <2>1, <2>2, MoveKeeps
<1>4. ASSUME NEW pc, Goto(h, pc)
      PROVE  \E n \in Nat : handler' = [handler EXCEPT ![h] = [r EXCEPT !.pc = pc, !.balance = n]]
  <2>1. r.balance \in Nat
    BY <1>1 DEF HandlerRows
  <2>2. [r EXCEPT !.pc = pc, !.balance = r.balance] = [r EXCEPT !.pc = pc]
    BY <1>1 DEF HandlerRows
  <2> QED
    BY <1>4, <2>1, <2>2 DEF Goto
<1>5. CASE LockCode(h) /\ ~End(h)
  <2>1. /\ r.pc = "code" /\ Goto(h, "wallet") /\ UNCHANGED walletLock
        /\ codeLock' = [codeLock EXCEPT ![r.item] = h]
    BY <1>5 DEF LockCode, Rollback
  <2>2. r.op = "redeem"
    BY <1>1, <2>1 DEF Shape
  <2>3. HandlerType'
    BY <1>3, <1>4, <2>1, <2>2
  <2> QED
    BY <1>1, <2>1, <2>3 DEF LockType
<1>6. CASE LockWallet(h)
  <2>1. /\ r.pc = "wallet" /\ UNCHANGED codeLock
        /\ walletLock' = [walletLock EXCEPT ![r.user] = h]
        /\ handler' = [handler EXCEPT ![h].pc = "authorize", ![h].balance = balance[r.user]]
    BY <1>6 DEF LockWallet
  <2>2. r.user \in Users /\ r.op # "mint"
    BY <1>1, <2>1 DEF Shape
  <2>3. balance[r.user] \in Nat
    BY <1>1, <2>2
  <2>4. handler' = [handler EXCEPT ![h] = [r EXCEPT !.pc = "authorize", !.balance = balance[r.user]]]
    BY <1>1, <2>1
  <2>5. PICK n \in Nat : n = balance[r.user]
    BY <2>3
  <2>6. HandlerType'
    BY <1>3, <2>1, <2>2, <2>4, <2>5
  <2> QED
    BY <1>1, <2>1, <2>6 DEF LockType
<1>7. CASE (Authorize(h) \/ Replay(h) \/ Refer(h) \/ Confirm(h)) /\ ~End(h)
  <2>1. UNCHANGED locks
    BY <1>7 DEF Authorize, Replay, Refer, Confirm, Rollback
  <2>2. PICK pc \in {"replay", "refer", "confirm", "commit"} :
          /\ Goto(h, pc) /\ r.pc # "idle" /\ (r.op = "mint" => pc \in {"refer", "confirm", "commit"})
          /\ (r.op = "redeem" => pc # "replay")
    BY <1>1, <1>7 DEF Authorize, Replay, Refer, Confirm, Rollback, Shape
  <2>3. PICK n \in Nat : handler' = [handler EXCEPT ![h] = [r EXCEPT !.pc = pc, !.balance = n]]
    BY <1>4, <2>2
  <2>4. HandlerType'
    BY <1>3, <2>2, <2>3
  <2> QED
    BY <1>1, <2>1, <2>4 DEF LockType, locks
<1>8. Commit(h) \/ Aborts(h) => End(h)
  BY DEF Commit, Aborts, Rollback
<1> QED
  BY <1>2, <1>5, <1>6, <1>7, <1>8 DEF Handle

LEMMA TypeStep == TypeInv /\ WorkInv /\ [Next]_vars => TypeInv'
<1> SUFFICES ASSUME TypeInv, WorkInv, [Next]_vars PROVE TypeInv'
  OBVIOUS
<1>1. AccountType' /\ RowType'
  BY AccountTypes, RowSteps, RowTypes
<1>2. ASSUME UNCHANGED <<handler, locks>> PROVE LockType' /\ HandlerType'
  BY <1>2 DEF TypeInv, LockType, HandlerType, Shape, locks
<1>3. CASE UNCHANGED vars
  BY <1>1, <1>2, <1>3 DEF vars, TypeInv, locks
<1>4. ASSUME NEW u \in scenario.users, Spend(u) \/ LockUser(u) \/ SetEnabled(u) PROVE TypeInv'
  BY <1>1, <1>2, <1>4 DEF Spend, LockUser, SetEnabled, TypeInv
<1>5. ASSUME NEW h \in Handlers, Request(h) \/ Handle(h) \/ Aborts(h) PROVE TypeInv'
  BY <1>1, <1>5, StartTypes, HandleTypes DEF TypeInv
<1> QED
  BY <1>3, <1>4, <1>5 DEF Next

-----------------------------------------------------------------------------
\* A row lock is where its holder is

Others(h) == \A g \in Handlers \ {h} : handler'[g] = handler[g]

LEMMA EndFrees ==
  ASSUME TypeInv, NEW h \in Handlers, End(h)
  PROVE  handler'[h] = Free /\ Others(h)
BY DEF TypeInv, HandlerType, End, Others

LEMMA EndLocks ==
  ASSUME TypeInv, LocksMeant, NEW h \in Handlers, End(h)
  PROVE  LocksMeant'
<1>1. handler'[h] = Free /\ Others(h)
  BY EndFrees
<1>2. /\ \A u \in Users : walletLock'[u] = IF walletLock[u] = h THEN None ELSE walletLock[u]
      /\ \A c \in Codes : codeLock'[c] = IF codeLock[c] = h THEN None ELSE codeLock[c]
  BY DEF End, Unlocked, TypeInv, LockType
<1>3. \A u \in Users, g \in Handlers : walletLock'[u] = g <=> HoldsWallet(g, u)'
  BY <1>1, <1>2, Constants DEF LocksMeant, HoldsWallet, Free, Others
<1>4. \A c \in Codes, g \in Handlers : codeLock'[c] = g <=> HoldsCode(g, c)'
  BY <1>1, <1>2, Constants DEF LocksMeant, HoldsCode, Free, Others
<1> QED
  BY <1>3, <1>4 DEF LocksMeant

(* A step of a request that neither takes nor releases a lock.             *)
LEMMA SameLocks ==
  ASSUME LocksMeant, NEW h \in Handlers, Others(h), UNCHANGED locks,
         \A u \in Users : HoldsWallet(h, u)' <=> HoldsWallet(h, u),
         \A c \in Codes : HoldsCode(h, c)' <=> HoldsCode(h, c)
  PROVE  LocksMeant'
<1>1. \A u \in Users, g \in Handlers : HoldsWallet(g, u)' <=> HoldsWallet(g, u)
  BY DEF HoldsWallet, Others
<1>2. \A c \in Codes, g \in Handlers : HoldsCode(g, c)' <=> HoldsCode(g, c)
  BY DEF HoldsCode, Others
<1> QED
  BY <1>1, <1>2 DEF LocksMeant, locks

LEMMA MovesOn ==
  ASSUME TypeInv, NEW h \in Handlers, NEW pc, Goto(h, pc)
  PROVE  /\ Others(h) /\ handler'[h].pc = pc
         /\ handler'[h].op = handler[h].op /\ handler'[h].actor = handler[h].actor
         /\ handler'[h].user = handler[h].user /\ handler'[h].item = handler[h].item
         /\ handler'[h].delta = handler[h].delta /\ handler'[h].balance = handler[h].balance
BY DEF TypeInv, HandlerType, HandlerRows, Goto, Others

(* What begins is what Request lets begin.                                 *)
Begins(h, pc, op, a, u, item, delta) ==
  /\ handler[h].pc = "idle" /\ Others(h)
  /\ handler'[h] = [pc |-> pc, op |-> op, actor |-> a, user |-> u, item |-> item,
                    delta |-> delta, balance |-> 0]
LEMMA Beginnings ==
  ASSUME TypeInv, NEW h \in Handlers, Request(h)
  PROVE  /\ UNCHANGED <<rows, locks, answers>>
         /\ \/ \E a, u \in Users, k \in Keys, d \in Int :
                 Begins(h, "wallet", "adjust", a, u, k, d)
            \/ \E a \in Users, c \in Codes :
                 /\ Begins(h, "refer", "mint", a, a, c, Worth) /\ code[c] = "none"
                 /\ \A g \in Handlers : handler[g].item # c
            \/ \E u \in Users, c \in Codes : Begins(h, "code", "redeem", u, u, c, Worth)
<1>1. UNCHANGED <<rows, locks, answers>>
  BY DEF Request, Starts
<1>2. ASSUME NEW pc, NEW op, NEW a, NEW u, NEW item, NEW delta,
             Starts(h, pc, op, a, u, item, delta)
      PROVE  Begins(h, pc, op, a, u, item, delta)
  BY <1>2 DEF Starts, Begins, Others, Free, TypeInv, HandlerType
<1> QED
  BY <1>1, <1>2, Constants DEF Request

LEMMA LocksStep == TypeInv /\ LocksMeant /\ [Next]_vars => LocksMeant'
<1> SUFFICES ASSUME TypeInv, LocksMeant, [Next]_vars PROVE LocksMeant'
  OBVIOUS
<1>1. ASSUME UNCHANGED <<handler, locks>> PROVE LocksMeant'
  BY <1>1 DEF LocksMeant, HoldsWallet, HoldsCode, locks
<1>2. ASSUME NEW h \in Handlers, Request(h) PROVE LocksMeant'
  <2>1. Others(h) /\ UNCHANGED locks /\ handler[h].pc = "idle"
    BY <1>2, Beginnings DEF Begins
  <2>2. /\ \A u \in Users : ~HoldsWallet(h, u) /\ ~HoldsWallet(h, u)'
        /\ \A c \in Codes : ~HoldsCode(h, c) /\ ~HoldsCode(h, c)'
    <3>1. \/ handler'[h].op = "adjust" /\ handler'[h].pc = "wallet"
          \/ handler'[h].op = "mint"
          \/ handler'[h].op = "redeem" /\ handler'[h].pc = "code"
      <4>1. ASSUME NEW pc, NEW op, NEW a, NEW u, NEW item, NEW delta,
                   Begins(h, pc, op, a, u, item, delta)
            PROVE  handler'[h].op = op /\ handler'[h].pc = pc
        BY <4>1 DEF Begins
      <4> QED
        BY <1>2, <4>1, Beginnings
    <3> QED
      BY <2>1, <3>1 DEF HoldsWallet, HoldsCode
  <2> QED
    BY <2>1, <2>2, SameLocks
<1>3. ASSUME NEW h \in Handlers, LockCode(h), ~End(h) PROVE LocksMeant'
  <2>1. /\ handler[h].pc = "code" /\ Goto(h, "wallet") /\ UNCHANGED walletLock
        /\ codeLock' = [codeLock EXCEPT ![handler[h].item] = h]
        /\ codeLock[handler[h].item] = None
    BY <1>3 DEF LockCode, Rollback, CodeFree
  <2>2. handler[h].item \in Codes /\ handler[h].op = "redeem"
    BY <2>1 DEF TypeInv, HandlerType, Shape
  <2>3. \A u \in Users, g \in Handlers : walletLock'[u] = g <=> HoldsWallet(g, u)'
    BY <2>1, <2>2, MovesOn DEF LocksMeant, HoldsWallet, Others
  <2>4. \A c \in Codes, g \in Handlers : codeLock'[c] = g <=> HoldsCode(g, c)'
    BY <2>1, <2>2, MovesOn, Constants DEF LocksMeant, HoldsCode, Others, TypeInv, LockType
  <2> QED
    BY <2>3, <2>4 DEF LocksMeant
<1>4. ASSUME NEW h \in Handlers, LockWallet(h) PROVE LocksMeant'
  <2>1. /\ handler[h].pc = "wallet" /\ UNCHANGED codeLock /\ Others(h)
        /\ walletLock' = [walletLock EXCEPT ![handler[h].user] = h]
        /\ walletLock[handler[h].user] = None
        /\ handler'[h].pc = "authorize" /\ handler'[h].op = handler[h].op
        /\ handler'[h].user = handler[h].user /\ handler'[h].item = handler[h].item
    BY <1>4 DEF LockWallet, WalletFree, TypeInv, HandlerType, HandlerRows, Others
  <2>2. handler[h].user \in Users /\ handler[h].op \in {"adjust", "redeem"}
    BY <2>1 DEF TypeInv, HandlerType, Shape
  <2>3. \A u \in Users, g \in Handlers : walletLock'[u] = g <=> HoldsWallet(g, u)'
    BY <2>1, <2>2, Constants DEF LocksMeant, HoldsWallet, Others, TypeInv, LockType
  <2>4. \A c \in Codes, g \in Handlers : codeLock'[c] = g <=> HoldsCode(g, c)'
    BY <2>1, <2>2 DEF LocksMeant, HoldsCode, Others
  <2> QED
    BY <2>3, <2>4 DEF LocksMeant
<1>5. ASSUME NEW h \in Handlers, Authorize(h) \/ Replay(h) \/ Refer(h) \/ Confirm(h), ~End(h)
      PROVE  LocksMeant'
  <2>1. PICK pc \in {"replay", "refer", "confirm", "commit"} :
          /\ Goto(h, pc) /\ handler[h].pc \in {"authorize", "replay", "refer", "confirm"}
          /\ handler[h].op = "redeem" => pc # "replay"
    BY <1>5 DEF Authorize, Replay, Refer, Confirm, Rollback, TypeInv, HandlerType, Shape
  <2>2. handler[h].op = "redeem" => handler[h].pc # "replay"
    BY <2>1 DEF TypeInv, HandlerType, Shape
  <2>3. Others(h) /\ UNCHANGED locks
    BY <1>5, <2>1, MovesOn DEF Authorize, Replay, Refer, Confirm, Rollback
  <2>4. /\ \A u \in Users : HoldsWallet(h, u)' <=> HoldsWallet(h, u)
        /\ \A c \in Codes : HoldsCode(h, c)' <=> HoldsCode(h, c)
    BY <2>1, <2>2, MovesOn DEF HoldsWallet, HoldsCode
  <2> QED
    BY <2>3, <2>4, SameLocks
<1>6. ASSUME NEW h \in Handlers, Commit(h) \/ Aborts(h) PROVE End(h)
  BY <1>6 DEF Commit, Aborts, Rollback
<1>7. ASSUME NEW h \in Handlers, Handle(h) \/ Aborts(h) PROVE LocksMeant'
  BY <1>3, <1>4, <1>5, <1>6, <1>7, EndLocks DEF Handle
<1>8. ASSUME NEW u \in Users, Spend(u) \/ LockUser(u) \/ SetEnabled(u) PROVE LocksMeant'
  BY <1>1, <1>8 DEF Spend, LockUser, SetEnabled
<1> QED
  BY <1>1, <1>2, <1>7, <1>8, Constants DEF Next, vars, locks

-----------------------------------------------------------------------------
\* What a posting does to the rows of a wallet

LEMMA RowsAfter ==
  ASSUME TypeInv, NEW u \in Users, NEW kind \in Kinds, NEW key \in Keys \cup Codes \cup {None},
         NEW delta \in Int, balance[u] + delta >= 0, Posts(u, kind, key, delta)
  PROVE  LET n == Len(ledger[u]) + 1 IN
         /\ DOMAIN ledger[u] = 1..Len(ledger[u]) /\ DOMAIN ledger'[u] = 1..n
         /\ Len(ledger'[u]) = n /\ Len(ledger[u]) \in Nat
         /\ \A i \in 1..Len(ledger[u]) : ledger'[u][i] = ledger[u][i]
         /\ ledger'[u][n].kind = kind /\ ledger'[u][n].key = key
         /\ ledger'[u][n].delta = delta /\ ledger'[u][n].after = balance[u] + delta
         /\ \A v \in Users \ {u} : ledger'[v] = ledger[v]
<1> DEFINE s == ledger[u]
           e == Entry(kind, key, delta, balance[u] + delta)
           t == Append(s, e)
<1>1. balance[u] \in Nat /\ balance[u] + delta \in Nat /\ s \in Seq(LedgerRows)
      /\ ledger \in [Users -> Seq(LedgerRows)]
  BY DEF TypeInv, RowType
<1>2. /\ e \in LedgerRows /\ e.kind = kind /\ e.key = key /\ e.delta = delta
      /\ e.after = balance[u] + delta
  <2>1. PICK after \in Nat : after = balance[u] + delta
    BY <1>1
  <2> QED
    BY <2>1, EntryTyped
<1>3. ledger' = [ledger EXCEPT ![u] = t]
  BY DEF Posts
<1> HIDE DEF e
<1>4. /\ Len(t) = Len(s) + 1 /\ t[Len(s) + 1] = e /\ t \in Seq(LedgerRows)
      /\ \A i \in 1..Len(s) : t[i] = s[i]
  BY <1>1, <1>2, AppendProperties
<1> HIDE DEF t
<1>5. ledger'[u] = t /\ \A v \in Users \ {u} : ledger'[v] = ledger[v]
  BY <1>1, <1>3
<1>6. Len(s) \in Nat /\ DOMAIN s = 1..Len(s) /\ DOMAIN t = 1..Len(t)
  BY <1>1, <1>4, LenProperties
<1> QED
  BY <1>2, <1>4, <1>5, <1>6

LEMMA PostedAfter ==
  ASSUME TypeInv, NEW u \in Users, NEW kind \in Kinds, NEW key \in Keys \cup Codes \cup {None},
         NEW delta \in Int, balance[u] + delta >= 0, Posts(u, kind, key, delta),
         NEW v \in Users, NEW k, NEW x
  PROVE  /\ v = u /\ k = kind /\ x = key =>
              Posted(v, k, x)' = Posted(v, k, x) \cup {Len(ledger[u]) + 1}
         /\ v # u \/ k # kind \/ x # key => Posted(v, k, x)' = Posted(v, k, x)
         /\ \A i \in Posted(v, k, x) : ledger'[v][i] = ledger[v][i]
<1>1. CASE v # u
  BY <1>1, RowsAfter DEF Posted
<1>2. CASE v = u
  <2> DEFINE n == Len(ledger[u]) + 1
  <2>1. /\ DOMAIN ledger[u] = 1..Len(ledger[u]) /\ DOMAIN ledger'[u] = 1..n
        /\ \A i \in 1..Len(ledger[u]) : ledger'[u][i] = ledger[u][i]
        /\ ledger'[u][n].kind = kind /\ ledger'[u][n].key = key /\ Len(ledger[u]) \in Nat
    BY RowsAfter
  <2>2. 1..n = (1..Len(ledger[u])) \cup {n}
    BY <2>1
  <2>3. Posted(v, k, x) = {i \in 1..Len(ledger[u]) : ledger[u][i].kind = k /\ ledger[u][i].key = x}
    BY <1>2, <2>1 DEF Posted
  <2>4. Posted(v, k, x)' = {i \in 1..n : ledger'[u][i].kind = k /\ ledger'[u][i].key = x}
    BY <1>2, <2>1 DEF Posted
  <2>5. Posted(v, k, x)' = Posted(v, k, x) \cup {i \in {n} : kind = k /\ key = x}
    BY <2>1, <2>2, <2>3, <2>4
  <2> QED
    BY <1>2, <2>1, <2>3, <2>5
<1> QED
  BY <1>1, <1>2

LEMMA PostedSame ==
  ASSUME UNCHANGED ledger, NEW v, NEW k, NEW x
  PROVE  Posted(v, k, x)' = Posted(v, k, x)
BY DEF Posted

-----------------------------------------------------------------------------
\* What is known of a row under its lock stays so

Known == BalanceRead /\ StillOpen /\ KeyUnused /\ MintedOnce
KeyFresh(h) ==
  handler[h].op = "adjust" /\ handler[h].pc \in {"refer", "confirm", "commit"} =>
    /\ Posted(handler[h].user, "adjustment", handler[h].item) = {}
    /\ handler[h].balance + handler[h].delta >= 0

(* A step of one request that changes no row.                              *)
LEMMA KnownQuietly ==
  ASSUME WorkInv, NEW h \in Handlers, Others(h), UNCHANGED rows,
         \A u \in Users : HoldsWallet(h, u)' => handler'[h].balance = balance[u],
         \A c \in Codes : HoldsCode(h, c)' => code[c] = "open",
         KeyFresh(h)',
         \A c \in Codes : Minting(h, c)' =>
           code[c] = "none" /\ \A g \in Handlers \ {h} : ~Minting(g, c)
  PROVE  Known'
<1>1. BalanceRead'
  BY DEF WorkInv, BalanceRead, HoldsWallet, Others, rows
<1>2. StillOpen'
  BY DEF WorkInv, StillOpen, HoldsCode, Others, rows
<1>3. ASSUME NEW g \in Handlers, g # h PROVE KeyFresh(g)'
  <2>1. KeyFresh(g) /\ handler'[g] = handler[g]
    BY <1>3 DEF WorkInv, KeyUnused, KeyFresh, Others
  <2> QED
    BY <2>1 DEF KeyFresh, Posted, rows
<1>4. KeyUnused'
  BY <1>3 DEF KeyUnused, KeyFresh
<1>5. \A g \in Handlers \ {h}, c \in Codes : Minting(g, c)' <=> Minting(g, c)
  BY DEF Minting, Others
<1>6. MintedOnce'
  BY <1>5 DEF WorkInv, MintedOnce, rows
<1> QED
  BY <1>1, <1>2, <1>4, <1>6 DEF Known

LEMMA FreeKnowsNothing ==
  ASSUME NEW h \in Handlers, handler'[h] = Free
  PROVE  /\ \A u : ~HoldsWallet(h, u)' /\ \A c : ~HoldsCode(h, c)' /\ ~Minting(h, c)'
         /\ KeyFresh(h)'
BY DEF Free, HoldsWallet, HoldsCode, Minting, KeyFresh

LEMMA KnownByEnding ==
  ASSUME TypeInv, WorkInv, NEW h \in Handlers, End(h), UNCHANGED rows
  PROVE  Known'
BY EndFrees, FreeKnowsNothing, KnownQuietly

LEMMA KnownByStarting ==
  ASSUME TypeInv, WorkInv, NEW h \in Handlers, Request(h)
  PROVE  Known'
<1>1. UNCHANGED rows
  BY Beginnings
<1>2. ASSUME NEW a \in Users, NEW u \in Users, NEW k \in Keys, NEW d \in Int,
             Begins(h, "wallet", "adjust", a, u, k, d)
      PROVE  Known'
  <2>1. /\ Others(h) /\ \A v : ~HoldsWallet(h, v)' /\ \A c : ~HoldsCode(h, c)' /\ ~Minting(h, c)'
        /\ KeyFresh(h)'
    BY <1>2 DEF Begins, HoldsWallet, HoldsCode, Minting, KeyFresh
  <2> QED
    BY <1>1, <2>1, KnownQuietly
<1>3. ASSUME NEW a \in Users, NEW c \in Codes, Begins(h, "refer", "mint", a, a, c, Worth),
             code[c] = "none", \A g \in Handlers : handler[g].item # c
      PROVE  Known'
  <2>1. /\ Others(h) /\ \A v : ~HoldsWallet(h, v)'
        /\ \A x : ~HoldsCode(h, x)' /\ (Minting(h, x)' => x = c)
        /\ KeyFresh(h)'
    BY <1>3 DEF Begins, HoldsWallet, HoldsCode, Minting, KeyFresh
  <2>2. \A g \in Handlers : ~Minting(g, c)
    BY <1>3 DEF Minting
  <2> QED
    BY <1>1, <1>3, <2>1, <2>2, KnownQuietly
<1>4. ASSUME NEW u \in Users, NEW c \in Codes, Begins(h, "code", "redeem", u, u, c, Worth)
      PROVE  Known'
  <2>1. /\ Others(h) /\ \A v : ~HoldsWallet(h, v)' /\ \A x : ~HoldsCode(h, x)' /\ ~Minting(h, x)'
        /\ KeyFresh(h)'
    BY <1>4 DEF Begins, HoldsWallet, HoldsCode, Minting, KeyFresh
  <2> QED
    BY <1>1, <2>1, KnownQuietly
<1> QED
  BY <1>2, <1>3, <1>4, Beginnings

LEMMA KnownByWaiting ==
  ASSUME TypeInv, WorkInv, NEW h \in Handlers,
         LockCode(h) \/ LockWallet(h) \/ Authorize(h) \/ Replay(h) \/ Refer(h) \/ Confirm(h),
         ~End(h)
  PROVE  Known'
<1> DEFINE r == handler[h]
           q == handler'[h]
<1>1. UNCHANGED rows
  BY DEF LockCode, LockWallet, Authorize, Replay, Refer, Confirm, Rollback, rows
<1>2. /\ Others(h) /\ q.op = r.op /\ q.user = r.user /\ q.item = r.item /\ q.delta = r.delta
      /\ r.pc # "idle" /\ Shape(h)
  <2>1. CASE LockWallet(h)
    BY <2>1 DEF LockWallet, Others, TypeInv, HandlerType, HandlerRows
  <2>2. CASE ~LockWallet(h)
    <3>1. \E pc : Goto(h, pc) /\ r.pc # "idle"
      BY <2>2 DEF LockCode, Authorize, Replay, Refer, Confirm, Rollback
    <3> QED
      BY <3>1, MovesOn DEF TypeInv, HandlerType
  <2> QED
    BY <2>1, <2>2
<1>3. ASSUME NEW u \in Users, HoldsWallet(h, u)' PROVE q.balance = balance[u]
  <2>1. CASE LockWallet(h)
    BY <1>2, <1>3, <2>1 DEF LockWallet, HoldsWallet, TypeInv, HandlerType
  <2>2. CASE ~LockWallet(h)
    <3>1. HoldsWallet(h, u) /\ q.balance = r.balance
      BY <1>2, <1>3, <2>2, MovesOn
         DEF LockCode, Authorize, Replay, Refer, Confirm, Rollback, HoldsWallet, Shape
    <3> QED
      BY <3>1 DEF WorkInv, BalanceRead
  <2> QED
    BY <2>1, <2>2
<1>4. ASSUME NEW c \in Codes, HoldsCode(h, c)' PROVE code[c] = "open"
  <2>1. CASE LockCode(h)
    BY <1>2, <1>4, <2>1 DEF LockCode, Rollback, HoldsCode
  <2>2. CASE ~LockCode(h)
    <3>1. HoldsCode(h, c)
      BY <1>2, <1>4, <2>2 DEF LockWallet, Authorize, Replay, Refer, Confirm, Rollback, HoldsCode, Shape
    <3> QED
      BY <3>1 DEF WorkInv, StillOpen
  <2> QED
    BY <2>1, <2>2
<1>5. KeyFresh(h)'
  <2>1. SUFFICES ASSUME q.op = "adjust", q.pc \in {"refer", "confirm", "commit"}
                 PROVE  /\ Posted(r.user, "adjustment", r.item) = {} /\ q.balance + r.delta >= 0
    BY <1>1, <1>2 DEF KeyFresh, Posted, rows
  <2>2. CASE Replay(h)
    BY <2>2, MovesOn DEF Replay, Rollback
  <2>3. CASE ~Replay(h)
    <3>1. Refer(h) \/ Confirm(h)
      <4>1. ~LockWallet(h)
        BY <2>1 DEF LockWallet, TypeInv, HandlerType, HandlerRows
      <4>2. LockCode(h) \/ Authorize(h) =>
              \E pc : Goto(h, pc) /\ (pc \in {"wallet", "replay"} \/ r.op # "adjust")
        BY DEF LockCode, Authorize, Rollback
      <4> QED
        BY <1>2, <2>1, <2>3, <4>1, <4>2, MovesOn
    <3>2. r.op = "adjust" /\ r.pc \in {"refer", "confirm"} /\ q.balance = r.balance
      BY <1>2, <2>1, <3>1, MovesOn DEF Refer, Confirm, Rollback
    <3> QED
      BY <3>2 DEF WorkInv, KeyUnused
  <2> QED
    BY <2>2, <2>3
<1>6. ASSUME NEW c \in Codes, Minting(h, c)'
      PROVE  code[c] = "none" /\ \A g \in Handlers \ {h} : ~Minting(g, c)
  <2>1. Minting(h, c)
    BY <1>2, <1>6 DEF Minting
  <2> QED
    BY <2>1 DEF WorkInv, MintedOnce
<1> QED
  BY <1>1, <1>2, <1>3, <1>4, <1>5, <1>6, KnownQuietly

(* A posting by the holder of the wallet, or while nobody holds it.        *)
LEMMA KnownByPosting ==
  ASSUME TypeInv, WorkInv, NEW u \in Users, NEW kind \in Kinds,
         NEW key \in Keys \cup Codes \cup {None}, NEW delta \in Int, balance[u] + delta >= 0,
         Posts(u, kind, key, delta),
         NEW h \in Handlers, HoldsWallet(h, u)' => FALSE,
         handler[h] = handler'[h] \/ handler'[h] = Free, Others(h),
         \A g \in Handlers \ {h} : ~HoldsWallet(g, u)
  PROVE  BalanceRead' /\ KeyUnused'
<1>1. balance \in [Users -> Nat] /\ balance' = [balance EXCEPT ![u] = @ + delta]
  BY DEF TypeInv, RowType, Posts
<1>2. ASSUME NEW g \in Handlers, NEW v \in Users, HoldsWallet(g, v)'
      PROVE  handler'[g] = handler[g] /\ v # u /\ HoldsWallet(g, v)
  <2>1. handler'[g] # Free
    BY <1>2 DEF HoldsWallet, Free
  <2>2. handler'[g] = handler[g]
    BY <2>1 DEF Others
  <2> QED
    BY <1>2, <2>2 DEF HoldsWallet
<1>3. BalanceRead'
  BY <1>1, <1>2 DEF WorkInv, BalanceRead
<1>4. ASSUME NEW g \in Handlers PROVE KeyFresh(g)'
  <2>1. SUFFICES ASSUME handler'[g].op = "adjust", handler'[g].pc \in {"refer", "confirm", "commit"}
                 PROVE  KeyFresh(g)'
    BY DEF KeyFresh
  <2>2. handler'[g] = handler[g]
    BY <2>1 DEF Others, Free
  <2>3. PICK v \in Users : v = handler[g].user
    BY <2>1, <2>2 DEF TypeInv, HandlerType, Shape
  <2>4. HoldsWallet(g, v)'
    BY <2>1, <2>2, <2>3 DEF HoldsWallet
  <2>5. v # u
    BY <1>2, <2>4
  <2>6. \A x : Posted(v, "adjustment", x)' = Posted(v, "adjustment", x)
    <3>1. ledger'[v] = ledger[v]
      BY <2>5, RowsAfter
    <3> QED
      BY <3>1 DEF Posted
  <2>7. KeyFresh(g)
    BY DEF WorkInv, KeyUnused, KeyFresh
  <2>8. Posted(v, "adjustment", handler[g].item)' = {}
    BY <2>1, <2>2, <2>3, <2>6, <2>7 DEF KeyFresh
  <2> QED
    BY <2>2, <2>3, <2>7, <2>8 DEF KeyFresh, Posted
<1> QED
  BY <1>3, <1>4 DEF KeyUnused, KeyFresh

LEMMA KnownByCommitting ==
  ASSUME TypeInv, WorkInv, NEW h \in Handlers, Commit(h)
  PROVE  Known'
<1> DEFINE r == handler[h]
<1>1. /\ End(h) /\ r.pc = "commit" /\ Shape(h) /\ r.user \in Users /\ r.delta \in Int
      /\ code \in [Codes -> {"none", "open"} \cup Users]
  BY DEF Commit, TypeInv, HandlerType, HandlerRows, Shape, RowType
<1>2. handler'[h] = Free /\ Others(h)
  BY <1>1, EndFrees
<1>3. /\ \A u : ~HoldsWallet(h, u)' /\ \A c : ~HoldsCode(h, c)' /\ ~Minting(h, c)'
      /\ KeyFresh(h)'
  BY <1>2, FreeKnowsNothing
<1>4. ASSUME NEW g \in Handlers, NEW c \in Codes, HoldsCode(g, c)' \/ Minting(g, c)'
      PROVE  /\ g # h /\ (HoldsCode(g, c)' => HoldsCode(g, c))
             /\ (Minting(g, c)' => Minting(g, c))
  BY <1>2, <1>3, <1>4 DEF HoldsCode, Minting, Others
<1>6. CASE /\ r.op = "mint" /\ code' = [code EXCEPT ![r.item] = "open"]
           /\ UNCHANGED <<balance, ledger>>
  <2>1. r.item \in Codes /\ Minting(h, r.item)
    BY <1>1, <1>6 DEF Shape, Minting
  <2>2. BalanceRead'
    BY <1>2, <1>3, <1>6 DEF WorkInv, BalanceRead, Others, HoldsWallet
  <2>3. StillOpen'
    BY <1>1, <1>4, <1>6, <2>1 DEF WorkInv, StillOpen
  <2>4. MintedOnce'
    BY <1>1, <1>4, <1>6, <2>1 DEF WorkInv, MintedOnce
  <2>5. ASSUME NEW g \in Handlers PROVE KeyFresh(g)'
    <3>1. CASE g # h
      BY <1>2, <1>6, <3>1 DEF WorkInv, KeyUnused, KeyFresh, Others, Posted
    <3> QED
      BY <1>3, <3>1
  <2> QED
    BY <2>2, <2>3, <2>4, <2>5 DEF Known, KeyUnused, KeyFresh
<1>7. ASSUME r.op \in {"redeem", "adjust"} PROVE \A g \in Handlers \ {h} : ~HoldsWallet(g, r.user)
  <2>1. HoldsWallet(h, r.user)
    BY <1>1, <1>7 DEF HoldsWallet
  <2> QED
    BY <1>1, <2>1 DEF WorkInv, LocksMeant
<1>8. CASE r.op = "redeem" /\ code' = [code EXCEPT ![r.item] = r.user] /\ Pays(h)
  <2>1. r.item \in Codes /\ HoldsCode(h, r.item) /\ HoldsWallet(h, r.user) /\ r.delta = Worth
    BY <1>1, <1>8 DEF Shape, HoldsCode, HoldsWallet
  <2>2. r.balance = balance[r.user] /\ code[r.item] = "open"
    BY <1>1, <2>1 DEF WorkInv, BalanceRead, StillOpen
  <2>3. Posts(r.user, "redemption", r.item, Worth) /\ balance[r.user] + Worth >= 0
    BY <1>1, <1>8, <2>1, <2>2, Constants DEF Posts, Pays, TypeInv, RowType
  <2>4. Worth \in Int
    BY Constants
  <2>5. PICK u \in Users, c \in Codes : u = r.user /\ c = r.item
    BY <1>1, <2>1
  <2>6. BalanceRead' /\ KeyUnused'
    BY <1>2, <1>3, <1>7, <1>8, <2>3, <2>4, <2>5, KnownByPosting DEF Kinds
  <2>7. \A g \in Handlers : HoldsCode(g, c) => g = h
    BY <2>1, <2>5 DEF WorkInv, LocksMeant
  <2>8. StillOpen'
    BY <1>1, <1>4, <1>8, <2>5, <2>7 DEF WorkInv, StillOpen
  <2>9. MintedOnce'
    BY <1>1, <1>4, <1>8, <2>2, <2>5 DEF WorkInv, MintedOnce
  <2> QED
    BY <2>6, <2>8, <2>9 DEF Known
<1>9. CASE r.op = "adjust" /\ Pays(h) /\ UNCHANGED code
  <2>1. r.item \in Keys /\ HoldsWallet(h, r.user)
    BY <1>1, <1>9 DEF Shape, HoldsWallet
  <2>2. r.balance = balance[r.user] /\ r.balance + r.delta >= 0
    BY <1>1, <1>9, <2>1 DEF WorkInv, BalanceRead, KeyUnused
  <2>3. Posts(r.user, "adjustment", r.item, r.delta)
    BY <1>9, <2>2 DEF Posts, Pays
  <2>5. PICK u \in Users, k \in Keys, d \in Int : u = r.user /\ k = r.item /\ d = r.delta
    BY <1>1, <2>1
  <2>6. BalanceRead' /\ KeyUnused'
    BY <1>2, <1>3, <1>7, <1>9, <2>2, <2>3, <2>5, KnownByPosting DEF Kinds
  <2>7. StillOpen'
    BY <1>4, <1>9 DEF WorkInv, StillOpen
  <2>8. MintedOnce'
    BY <1>4, <1>9 DEF WorkInv, MintedOnce
  <2> QED
    BY <2>6, <2>7, <2>8 DEF Known
<1> QED
  BY <1>6, <1>8, <1>9 DEF Commit

LEMMA KnownBySpending ==
  ASSUME TypeInv, WorkInv, NEW u \in Users, Spend(u)
  PROVE  Known'
<1>1. /\ Posts(u, "reservation", None, -1) /\ balance[u] + (-1) >= 0
      /\ UNCHANGED <<code, handler>>
  <2>1. Posts(u, "reservation", None, -1)
    BY DEF Spend, Posts, TypeInv, RowType
  <2> QED
    BY <2>1 DEF Spend, TypeInv, RowType
<1>2. \A g \in Handlers : ~HoldsWallet(g, u) /\ ~HoldsWallet(g, u)'
  BY <1>1, Constants DEF Spend, WalletFree, WorkInv, LocksMeant, HoldsWallet
<1>3. StillOpen' /\ MintedOnce'
  BY <1>1 DEF WorkInv, StillOpen, MintedOnce, HoldsCode, Minting
<1>4. CASE Handlers = {}
  BY <1>3, <1>4 DEF Known, BalanceRead, KeyUnused
<1>5. CASE Handlers # {}
  <2>1. PICK h \in Handlers : TRUE
    BY <1>5
  <2>2. BalanceRead' /\ KeyUnused'
    BY <1>1, <1>2, <2>1, KnownByPosting DEF Kinds, Others
  <2> QED
    BY <1>3, <2>2 DEF Known
<1> QED
  BY <1>4, <1>5

LEMMA WorkStep == TypeInv /\ WorkInv /\ [Next]_vars => WorkInv'
<1> SUFFICES ASSUME TypeInv, WorkInv, [Next]_vars PROVE Known'
  BY LocksStep DEF WorkInv, Known
<1>1. ASSUME UNCHANGED <<handler, rows>> PROVE Known'
  <2>1. \A v, k, x : Posted(v, k, x)' = Posted(v, k, x)
    BY <1>1, PostedSame DEF rows
  <2> QED
    BY <1>1, <2>1 DEF WorkInv, Known, BalanceRead, StillOpen, KeyUnused, MintedOnce, HoldsWallet,
                      HoldsCode, Minting, rows
<1>2. ASSUME NEW h \in Handlers, Handle(h) \/ Aborts(h) PROVE Known'
  <2>1. CASE Commit(h)
    BY <2>1, KnownByCommitting
  <2>2. CASE End(h) /\ ~Commit(h)
    <3>1. UNCHANGED rows
      BY <1>2, <2>2 DEF Handle, LockCode, LockWallet, Authorize, Replay, Refer, Confirm, Aborts,
                        Rollback, rows
    <3> QED
      BY <2>2, <3>1, KnownByEnding
  <2>3. CASE ~End(h)
    BY <1>2, <2>3, KnownByWaiting DEF Handle, Aborts, Commit, Rollback
  <2> QED
    BY <2>1, <2>2, <2>3
<1>3. ASSUME NEW u \in Users, LockUser(u) \/ SetEnabled(u) PROVE Known'
  BY <1>1, <1>3 DEF LockUser, SetEnabled
<1> QED
  BY <1>1, <1>2, <1>3, KnownByStarting, KnownBySpending, Constants DEF Next, vars, rows

-----------------------------------------------------------------------------
\* What the rows say of each other stays so

LEMMA ScenarioFixed == [Next]_vars => UNCHANGED scenario
<1> SUFFICES ASSUME [Next]_vars PROVE UNCHANGED scenario
  OBVIOUS
<1>1. ASSUME NEW h \in Handlers, Request(h) \/ Handle(h) \/ Aborts(h) PROVE UNCHANGED scenario
  BY <1>1 DEF Request, Starts, Handle, LockCode, LockWallet, Authorize, Replay, Refer, Confirm,
              Commit, Aborts, Stays, account
<1>2. ASSUME NEW u, Spend(u) \/ LockUser(u) \/ SetEnabled(u) PROVE UNCHANGED scenario
  BY <1>2 DEF Spend, LockUser, SetEnabled, account
<1> QED
  BY <1>1, <1>2 DEF Next, vars

LEMMA ChainPost ==
  ASSUME TypeInv, UNCHANGED scenario, NEW u \in Users, NEW kind \in Kinds,
         NEW key \in Keys \cup Codes \cup {None}, NEW delta \in Int, balance[u] + delta >= 0,
         Posts(u, kind, key, delta), NEW v \in Users, ChainOf(v)
  PROVE  ChainOf(v)'
<1>1. balance' = [balance EXCEPT ![u] = @ + delta] /\ balance \in [Users -> Nat]
  BY DEF Posts, TypeInv, RowType
<1>2. CASE v # u
  <2>1. balance'[v] = balance[v] /\ ledger'[v] = ledger[v]
    BY <1>1, <1>2, RowsAfter
  <2> QED
    BY <2>1 DEF ChainOf, Before
<1>3. CASE v = u
  <2>0. /\ Len(ledger[u]) \in Nat /\ Len(ledger'[u]) = Len(ledger[u]) + 1
        /\ \A i \in 1..Len(ledger[u]) : ledger'[u][i] = ledger[u][i]
        /\ ledger'[u][Len(ledger[u]) + 1].delta = delta
        /\ ledger'[u][Len(ledger[u]) + 1].after = balance[u] + delta
    BY RowsAfter
  <2>1. PICK n : n = Len(ledger[v]) + 1
    OBVIOUS
  <2>2. /\ Len(ledger[v]) \in Nat /\ Len(ledger'[v]) = n
        /\ \A i \in 1..Len(ledger[v]) : ledger'[v][i] = ledger[v][i]
        /\ ledger'[v][n].delta = delta /\ ledger'[v][n].after = balance[v] + delta
    BY <1>3, <2>0, <2>1
  <2>3. n \in Nat /\ n >= 1 /\ 1..n = (1..Len(ledger[v])) \cup {n} /\ n + 1 # 1 /\ n + 1 - 1 = n
    BY <2>1, <2>2
  <2>4. ASSUME NEW i \in 1..n PROVE Before(v, i)' = Before(v, i)
    <3>1. CASE i = 1
      BY <3>1 DEF Before
    <3>2. CASE i # 1
      <4>1. i - 1 \in 1..Len(ledger[v])
        BY <2>1, <2>2, <2>4, <3>2
      <4> QED
        BY <2>2, <3>2, <4>1 DEF Before
    <3> QED
      BY <3>1, <3>2
  <2>5. ASSUME NEW i \in 1..n PROVE ledger'[v][i].after = Before(v, i)' + ledger'[v][i].delta
    <3>1. CASE i = n
      <4>1. Before(v, n) = balance[v]
        BY <2>1 DEF ChainOf
      <4> QED
        BY <2>2, <2>4, <3>1, <4>1
    <3>2. CASE i \in 1..Len(ledger[v])
      BY <2>2, <2>4, <3>2 DEF ChainOf
    <3> QED
      BY <2>3, <3>1, <3>2
  <2>6. balance'[v] = Before(v, n + 1)'
    <3>1. balance'[v] = balance[v] + delta
      BY <1>1, <1>3
    <3>2. Before(v, n + 1)' = ledger'[v][n].after
      BY <2>3 DEF Before
    <3> QED
      BY <2>2, <3>1, <3>2
  <2> QED
    BY <2>2, <2>5, <2>6 DEF ChainOf
<1> QED
  BY <1>2, <1>3

LEMMA OldAnswersPosted ==
  ASSUME TypeInv, AnswersPosted, NEW u \in Users, NEW kind \in Kinds,
         NEW key \in Keys \cup Codes \cup {None}, NEW delta \in Int, balance[u] + delta >= 0,
         Posts(u, kind, key, delta), NEW a \in answers
  PROVE  \E i \in Posted(a.user, "adjustment", a.key)' :
           ledger'[a.user][i].delta = a.delta /\ ledger'[a.user][i].after = a.balance
<1>1. PICK v \in Users : v = a.user
  BY DEF TypeInv, RowType, AnswerRows
<1>2. PICK i \in Posted(v, "adjustment", a.key) :
        ledger[v][i].delta = a.delta /\ ledger[v][i].after = a.balance
  BY <1>1 DEF AnswersPosted
<1>3. /\ Posted(v, "adjustment", a.key) \subseteq Posted(v, "adjustment", a.key)'
      /\ ledger'[v][i] = ledger[v][i]
  <2>1. ASSUME NEW x
        PROVE  /\ Posted(v, "adjustment", x) \subseteq Posted(v, "adjustment", x)'
               /\ \A j \in Posted(v, "adjustment", x) : ledger'[v][j] = ledger[v][j]
    <3>1. \/ v = u /\ "adjustment" = kind /\ x = key
          \/ v # u \/ "adjustment" # kind \/ x # key
      OBVIOUS
    <3> QED
      BY <3>1, PostedAfter
  <2> QED
    BY <1>2, <2>1
<1> QED
  BY <1>1, <1>2, <1>3 DEF Posted

LEMMA RowsStep == TypeInv /\ RowInv /\ RowStep /\ UNCHANGED scenario => RowInv'
<1> SUFFICES ASSUME TypeInv, RowInv, RowStep, UNCHANGED scenario PROVE RowInv'
  OBVIOUS
<1>1. /\ code \in [Codes -> {"none", "open"} \cup Users] /\ balance \in [Users -> Nat]
      /\ answers \subseteq AnswerRows /\ Worth \in Int /\ Worth > 0
      /\ "open" \notin Users /\ "none" \notin Users
  BY Constants DEF TypeInv, RowType
<1>2. ASSUME UNCHANGED <<balance, ledger>>
      PROVE  /\ \A v, k, x : Posted(v, k, x)' = Posted(v, k, x)
             /\ AdjustedOnce' /\ \A v \in Users : ChainOf(v)'
  <2>1. \A v, k, x : Posted(v, k, x)' = Posted(v, k, x)
    BY <1>2, PostedSame
  <2>2. AdjustedOnce'
    BY <2>1 DEF RowInv, AdjustedOnce
  <2> QED
    BY <1>2, <2>1, <2>2 DEF RowInv, ChainOf, Before
<1>3. CASE Kept
  <2>1. PaidOnce'
    BY <1>2, <1>3 DEF Kept, rows, RowInv, PaidOnce
  <2>2. AnswersPosted'
    BY <1>2, <1>3 DEF Kept, rows, RowInv, AnswersPosted, Answer
  <2> QED
    BY <1>2, <1>3, <2>1, <2>2 DEF Kept, rows, RowInv
<1>4. ASSUME NEW c \in Codes, Mints(c) PROVE RowInv'
  <2>1. PaidOnce'
    BY <1>1, <1>2, <1>4 DEF Mints, RowInv, PaidOnce
  <2>2. AnswersPosted'
    BY <1>2, <1>4 DEF Mints, RowInv, AnswersPosted
  <2> QED
    BY <1>2, <1>4, <2>1, <2>2 DEF Mints, RowInv
<1>5. ASSUME NEW c \in Codes, NEW u \in Users, Redeems(c, u) PROVE RowInv'
  <2>1. Posts(u, "redemption", c, Worth) /\ balance[u] + Worth >= 0 /\ "redemption" \in Kinds
    BY <1>1, <1>5 DEF Redeems, Kinds
  <2>2. \A v \in Users : ChainOf(v)'
    BY <1>1, <2>1, ChainPost DEF RowInv
  <2>3. \A v \in Users, k \in Keys : Posted(v, "adjustment", k)' = Posted(v, "adjustment", k)
    BY <1>1, <2>1, PostedAfter
  <2>4. AdjustedOnce'
    BY <2>3 DEF RowInv, AdjustedOnce
  <2>5. AnswersPosted'
    BY <1>1, <1>5, <2>1, OldAnswersPosted DEF Redeems, RowInv, AnswersPosted
  <2>6. ASSUME NEW x \in Codes, NEW v \in Users
        PROVE  /\ code'[x] = v <=> Posted(v, "redemption", x)' # {}
               /\ \A i, j \in Posted(v, "redemption", x)' : i = j
    <3>1. CASE x = c
      <4>1. Posted(v, "redemption", c) = {} /\ code'[c] = u
        BY <1>1, <1>5, <2>6 DEF Redeems, RowInv, PaidOnce
      <4>2. Posted(v, "redemption", c)' = IF v = u THEN {Len(ledger[u]) + 1} ELSE {}
        BY <1>1, <2>1, <2>6, <4>1, PostedAfter
      <4> QED
        BY <3>1, <4>1, <4>2
    <3>2. CASE x # c
      <4>1. Posted(v, "redemption", x)' = Posted(v, "redemption", x) /\ code'[x] = code[x]
        BY <1>1, <1>5, <2>1, <2>6, <3>2, PostedAfter DEF Redeems
      <4> QED
        BY <2>6, <4>1 DEF RowInv, PaidOnce
    <3> QED
      BY <3>1, <3>2
  <2> QED
    BY <2>2, <2>4, <2>5, <2>6 DEF RowInv, PaidOnce
<1>6. ASSUME NEW u \in Users, NEW k \in Keys, NEW d \in Int, Adjusts(u, k, d) PROVE RowInv'
  <2>1. Posts(u, "adjustment", k, d) /\ balance[u] + d >= 0 /\ "adjustment" \in Kinds
    BY <1>6 DEF Adjusts, Kinds
  <2>2. \A v \in Users : ChainOf(v)'
    BY <2>1, ChainPost DEF RowInv
  <2>3. ASSUME NEW v \in Users, NEW x \in Codes
        PROVE  Posted(v, "redemption", x)' = Posted(v, "redemption", x)
    BY <2>1, <2>3, PostedAfter
  <2>4. PaidOnce'
    BY <1>6, <2>3 DEF Adjusts, RowInv, PaidOnce
  <2>5. ASSUME NEW v \in Users, NEW x \in Keys
        PROVE  \A i, j \in Posted(v, "adjustment", x)' : i = j
    <3>1. CASE v = u /\ x = k
      BY <1>6, <2>1, <2>5, <3>1, PostedAfter DEF Adjusts
    <3>2. CASE v # u \/ x # k
      <4>1. Posted(v, "adjustment", x)' = Posted(v, "adjustment", x)
        BY <2>1, <2>5, <3>2, PostedAfter
      <4> QED
        BY <2>5, <4>1 DEF RowInv, AdjustedOnce
    <3> QED
      BY <3>1, <3>2
  <2>6. ASSUME NEW a \in answers'
        PROVE  \E i \in Posted(a.user, "adjustment", a.key)' :
                 ledger'[a.user][i].delta = a.delta /\ ledger'[a.user][i].after = a.balance
    <3>1. CASE a \in answers
      BY <2>1, <3>1, OldAnswersPosted DEF RowInv
    <3>2. CASE a = Answer(u, k, d, balance[u] + d)
      <4>1. /\ Posted(u, "adjustment", k)' = {Len(ledger[u]) + 1}
            /\ ledger'[u][Len(ledger[u]) + 1].delta = d
            /\ ledger'[u][Len(ledger[u]) + 1].after = balance[u] + d
        BY <1>6, <2>1, PostedAfter, RowsAfter DEF Adjusts
      <4> QED
        BY <3>2, <4>1 DEF Answer, Posted
    <3> QED
      BY <1>6, <2>6, <3>1, <3>2 DEF Adjusts
  <2> QED
    BY <2>2, <2>4, <2>5, <2>6 DEF RowInv, AdjustedOnce, AnswersPosted
<1>7. ASSUME NEW u \in Users, Spends(u) PROVE RowInv'
  <2>1. Posts(u, "reservation", None, -1) /\ balance[u] + (-1) >= 0 /\ "reservation" \in Kinds
    BY <1>1, <1>7 DEF Spends, Kinds
  <2>2. \A v \in Users : ChainOf(v)'
    BY <2>1, ChainPost DEF RowInv
  <2>3. \A v \in Users, k \in {"adjustment", "redemption"} : \A x :
          Posted(v, k, x)' = Posted(v, k, x)
    BY <2>1, PostedAfter
  <2>4. AnswersPosted'
    BY <1>7, <2>1, OldAnswersPosted DEF Spends, RowInv, AnswersPosted
  <2>5. PaidOnce' /\ AdjustedOnce'
    BY <1>7, <2>3 DEF Spends, RowInv, PaidOnce, AdjustedOnce
  <2> QED
    BY <2>2, <2>4, <2>5 DEF RowInv
<1> QED
  BY <1>3, <1>4, <1>5, <1>6, <1>7 DEF RowStep

-----------------------------------------------------------------------------
\* The theorems

LEMMA InvInit == Init => IInv
<1> SUFFICES ASSUME Init PROVE IInv
  OBVIOUS
<1>1. /\ scenario \in Scenarios /\ scenario.opening \in Nat /\ scenario.requests \in Nat
      /\ scenario.spends \in Nat /\ scenario.changes \in Nat
  BY Constants DEF Init, Scenario
<1>2. \A h \in Handlers : handler[h] = Free
  BY DEF Init
<1>3. AccountType
  BY <1>1 DEF Init, AccountType
<1>4. \A u \in Users : ledger[u] = <<>>
  BY DEF Init
<1>5. RowType
  BY <1>1 DEF Init, RowType
<1>6. LockType /\ HandlerType
  BY <1>2, FreeTyped DEF Init, LockType, HandlerType, Shape, Free
<1>7. WorkInv
  BY <1>2, Constants DEF Init, WorkInv, LocksMeant, BalanceRead, StillOpen, KeyUnused, MintedOnce,
     HoldsWallet, HoldsCode, Minting, Free
<1>8. \A u \in Users : \A k, x : Posted(u, k, x) = {}
  BY <1>4 DEF Posted
<1>9. PaidOnce /\ AdjustedOnce /\ AnswersPosted
  BY <1>8, Constants DEF Init, PaidOnce, AdjustedOnce, AnswersPosted
<1>10. ASSUME NEW u \in Users PROVE ChainOf(u)
  <2>1. Len(ledger[u]) = 0 /\ balance[u] = scenario.opening
    BY <1>4 DEF Init
  <2> QED
    BY <2>1 DEF ChainOf, Before
<1> QED
  BY <1>3, <1>5, <1>6, <1>7, <1>9, <1>10 DEF IInv, TypeInv, RowInv

LEMMA InvStep == IInv /\ [Next]_vars => IInv'
BY TypeStep, WorkStep, RowSteps, RowsStep, ScenarioFixed DEF IInv

LEMMA InvAlways == Spec => []IInv
<1>1. Init => IInv
  BY InvInit
<1>2. IInv /\ [Next]_vars => IInv'
  BY InvStep
<1> QED
  BY <1>1, <1>2, PTL DEF Spec

LEMMA OneMember ==
  ASSUME NEW S, \A i, j \in S : i = j
  PROVE  Cardinality(S) = IF S = {} THEN 0 ELSE 1
<1>1. CASE S = {}
  BY <1>1, FS_EmptySet
<1>2. CASE S # {}
  <2>1. PICK x : x \in S
    BY <1>2
  <2>2. S = {x}
    BY <2>1
  <2> QED
    BY <1>2, <2>2, FS_Singleton
<1> QED
  BY <1>1, <1>2

(* The types of the state, in the form the runs check them.                *)
LEMMA TypesHold == TypeInv => TypeOK
<1> SUFFICES ASSUME TypeInv PROVE TypeOK
  OBVIOUS
<1>1. ASSUME NEW u \in Users, NEW i \in DOMAIN ledger[u] PROVE ledger[u][i] \in LedgerRows
  <2>1. ledger[u] \in Seq(LedgerRows)
    BY DEF TypeInv, RowType
  <2> QED
    BY <1>1, <2>1, LenProperties, ElementOfSeq
<1> QED
  BY <1>1 DEF TypeInv, AccountType, RowType, LockType, HandlerType, TypeOK, LedgerRows, Kinds,
              HandlerRows, AnswerRows

(* The ledger explains every wallet row by row and a code pays exactly one *)
(* wallet, once, however adjustments, redemptions and calls interleave.    *)
THEOREM BalancesSound == Spec => []LedgerExplains
<1>1. ASSUME IInv PROVE LedgerExplains
  <2>1. TypeOK
    BY <1>1, TypesHold DEF IInv
  <2>2. CodePaysOnce
    <3> SUFFICES ASSUME NEW c \in Codes, NEW u \in Users
                 PROVE  Cardinality(Posted(u, "redemption", c)) = IF code[c] = u THEN 1 ELSE 0
      BY DEF CodePaysOnce
    <3>1. /\ code[c] = u <=> Posted(u, "redemption", c) # {}
          /\ \A i, j \in Posted(u, "redemption", c) : i = j
      BY <1>1 DEF IInv, RowInv, PaidOnce
    <3> QED
      BY <3>1, OneMember
  <2>3. ASSUME NEW u \in Users PROVE DOMAIN ledger[u] = 1..Len(ledger[u]) /\ ChainOf(u)
    BY <1>1, LenProperties DEF IInv, RowInv, TypeInv, RowType
  <2> QED
    BY <2>1, <2>2, <2>3 DEF LedgerExplains, ChainOf
<1> QED
  BY <1>1, InvAlways, PTL

(* An adjustment that is sent again, at once or after the wallet changed,  *)
(* is made once and is answered every time with its first result.          *)
THEOREM RetriesSound == Spec => []RetryAnsweredAlike
<1>1. ASSUME IInv PROVE RetryAnsweredAlike
  <2>1. ASSUME NEW a \in answers, NEW b \in answers, a.user = b.user, a.key = b.key PROVE a = b
    <3>1. a \in AnswerRows /\ b \in AnswerRows
      BY <1>1 DEF IInv, TypeInv, RowType
    <3>2. PICK i \in Posted(a.user, "adjustment", a.key) :
            ledger[a.user][i].delta = a.delta /\ ledger[a.user][i].after = a.balance
      BY <1>1 DEF IInv, RowInv, AnswersPosted
    <3>3. PICK j \in Posted(a.user, "adjustment", a.key) :
            ledger[a.user][j].delta = b.delta /\ ledger[a.user][j].after = b.balance
      BY <1>1, <2>1 DEF IInv, RowInv, AnswersPosted
    <3>4. i = j
      BY <1>1, <3>1, <3>2, <3>3 DEF IInv, RowInv, AdjustedOnce, AnswerRows
    <3> QED
      BY <2>1, <3>1, <3>2, <3>3, <3>4 DEF AnswerRows
  <2>2. ASSUME NEW u \in Users, NEW k \in Keys
        PROVE  Cardinality(Posted(u, "adjustment", k)) <= 1
    <3>1. \A i, j \in Posted(u, "adjustment", k) : i = j
      BY <1>1 DEF IInv, RowInv, AdjustedOnce
    <3> QED
      BY <3>1, OneMember
  <2> QED
    BY <2>1, <2>2 DEF RetryAnsweredAlike
<1> QED
  BY <1>1, InvAlways, PTL

-----------------------------------------------------------------------------
\* Between the last check and the commit

(* The rows a request refers to are held from then on: no administrator    *)
(* holds them, and whom the last check found enabled is so at the commit.  *)
ShutOut ==
  \A h \in Handlers :
    /\ handler[h].pc \in {"confirm", "commit"} => userLock \notin Names(h)
    /\ handler[h].pc = "commit" => enabled[handler[h].actor]

LEMMA ShutOutQuietly ==
  ASSUME ShutOut, UNCHANGED <<enabled, userLock>>, NEW h \in Handlers, Others(h),
         handler'[h].pc \in {"confirm", "commit"} => userLock \notin Names(h)',
         handler'[h].pc = "commit" => enabled[handler'[h].actor]
  PROVE  ShutOut'
<1>1. ASSUME NEW g \in Handlers, g # h PROVE Names(g)' = Names(g) /\ handler'[g] = handler[g]
  BY <1>1 DEF Others, Names
<1> QED
  BY <1>1 DEF ShutOut

LEMMA ShutOutStep == TypeInv /\ ShutOut /\ [Next]_vars => ShutOut'
<1> SUFFICES ASSUME TypeInv, ShutOut, [Next]_vars PROVE ShutOut'
  OBVIOUS
<1>1. ASSUME UNCHANGED <<enabled, userLock, handler>> PROVE ShutOut'
  BY <1>1 DEF ShutOut, Names
<1>2. ASSUME NEW h \in Handlers, Request(h) PROVE ShutOut'
  <2>1. Others(h) /\ UNCHANGED <<enabled, userLock>>
    BY <1>2, Beginnings DEF Begins, Request, Starts, account
  <2>2. handler'[h].pc \notin {"confirm", "commit"}
    <3>1. ASSUME NEW pc, NEW op, NEW a, NEW u, NEW item, NEW delta,
                 Begins(h, pc, op, a, u, item, delta)
          PROVE  handler'[h].pc = pc
      BY <3>1 DEF Begins
    <3> QED
      BY <1>2, <3>1, Beginnings
  <2> QED
    BY <2>1, <2>2, ShutOutQuietly
<1>3. ASSUME NEW h \in Handlers, Handle(h) \/ Aborts(h) PROVE ShutOut'
  <2>1. UNCHANGED <<enabled, userLock>>
    BY <1>3 DEF Handle, LockCode, LockWallet, Authorize, Replay, Refer, Confirm, Commit, Aborts,
                Stays, account
  <2>2. CASE End(h)
    BY <2>1, <2>2, EndFrees, ShutOutQuietly DEF Free
  <2>3. CASE LockWallet(h)
    <3>1. Others(h) /\ handler'[h].pc = "authorize"
      BY <2>3 DEF LockWallet, TypeInv, HandlerType, HandlerRows, Others
    <3> QED
      BY <2>1, <3>1, ShutOutQuietly
  <2>4. CASE (LockCode(h) \/ Authorize(h) \/ Replay(h)) /\ ~End(h)
    <3>1. PICK pc \in {"wallet", "replay", "refer"} : Goto(h, pc)
      BY <2>4 DEF LockCode, Authorize, Replay, Rollback
    <3> QED
      BY <2>1, <3>1, MovesOn, ShutOutQuietly
  <2>5. CASE Refer(h)
    <3>1. Goto(h, "confirm") /\ userLock \notin Names(h)
      BY <2>5 DEF Refer, MayRefer
    <3>2. Names(h)' = Names(h) /\ Others(h) /\ handler'[h].pc = "confirm"
      BY <3>1, MovesOn DEF Names
    <3> QED
      BY <2>1, <3>1, <3>2, ShutOutQuietly
  <2>6. CASE Confirm(h) /\ ~End(h)
    <3>1. Goto(h, "commit") /\ enabled[handler[h].actor] /\ handler[h].pc = "confirm"
      BY <2>6 DEF Confirm, Rollback, StillAllowed
    <3>2. /\ Names(h)' = Names(h) /\ Others(h) /\ handler'[h].pc = "commit"
          /\ handler'[h].actor = handler[h].actor
      BY <3>1, MovesOn DEF Names
    <3> QED
      BY <2>1, <3>1, <3>2, ShutOutQuietly DEF ShutOut
  <2>7. Commit(h) \/ Aborts(h) => End(h)
    BY DEF Commit, Aborts, Rollback
  <2> QED
    BY <1>3, <2>2, <2>3, <2>4, <2>5, <2>6, <2>7 DEF Handle
<1>4. ASSUME NEW u \in Users, Spend(u) PROVE ShutOut'
  BY <1>1, <1>4 DEF Spend, account
<1>5. ASSUME NEW u \in Users, LockUser(u) PROVE ShutOut'
  BY <1>5 DEF LockUser, Referred, ShutOut, Names
<1>6. ASSUME NEW u \in Users, SetEnabled(u) PROVE ShutOut'
  <2>1. /\ userLock = u /\ userLock' = None /\ enabled' = [enabled EXCEPT ![u] = ~@]
        /\ UNCHANGED handler
    BY <1>6 DEF SetEnabled
  <2> SUFFICES ASSUME NEW h \in Handlers, handler[h].pc \in {"confirm", "commit"}
               PROVE  /\ None \notin Names(h)
                      /\ handler[h].pc = "commit" => enabled'[handler[h].actor]
    BY <2>1 DEF ShutOut, Names
  <2>2. handler[h].actor \in Users /\ handler[h].user \in Users
    BY DEF TypeInv, HandlerType, Shape
  <2>3. u \notin Names(h) /\ (handler[h].pc = "commit" => enabled[handler[h].actor])
    BY <2>1 DEF ShutOut
  <2>4. enabled'[handler[h].actor] = enabled[handler[h].actor]
    BY <2>1, <2>2, <2>3 DEF Names, TypeInv, AccountType
  <2> QED
    BY <2>2, <2>3, <2>4, Constants DEF Names
<1> QED
  BY <1>1, <1>2, <1>3, <1>4, <1>5, <1>6, Constants DEF Next, vars

LEMMA ShutOutAlways == Spec => [](IInv /\ ShutOut)
<1>1. Init => ShutOut
  BY DEF Init, ShutOut, Free
<1>2. IInv /\ ShutOut /\ [Next]_vars => ShutOut'
  BY ShutOutStep DEF IInv
<1> QED
  BY <1>1, <1>2, InvAlways, PTL DEF Spec

(* A request whose account was disabled while it waited moves no credits,  *)
(* nor does one whose account is disabled between its last check and its   *)
(* commit: nobody can.                                                     *)
THEOREM OnlyEnabledMove == Spec => MovedByEnabled
<1> DEFINE Gated == \A h \in Handlers : rows' # rows /\ handler[h].pc = "commit"
                      /\ handler'[h].pc = "idle" => enabled[handler[h].actor]
<1>1. ShutOut => Gated
  BY DEF ShutOut
<1>2. [][Gated]_vars => MovedByEnabled
  BY PTL DEF MovedByEnabled
<1> QED
  BY <1>1, <1>2, ShutOutAlways, PTL DEF Spec

=============================================================================
