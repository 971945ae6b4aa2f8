---------------------------- MODULE TeamsProofs ----------------------------
(***************************************************************************)
(* Theorems about Teams for every number of users, teams, seats, invites,  *)
(* tokens and requests under way.  A request that has decided keeps the    *)
(* team's row locked until it ends, so that what it decided on still holds *)
(* when it commits: the caller's role, the successor's, the free seat, the *)
(* unused invite.  A team that is being created is nobody else's yet.      *)
(*                                                                         *)
(* A funding request besides holds both wallets from where it reads them,  *)
(* and its key stays unused: what it adds to the transfers is new and is   *)
(* what it moves.  Locks are held only by requests under way that refer to *)
(* the row, which leaves no circle of requests that wait.                  *)
(***************************************************************************)
EXTENDS Teams, FiniteSetTheorems, TLAPS

-----------------------------------------------------------------------------
\* The inductive invariant

Phases == {"idle", "lock", "check", "wallets", "balance", "insert", "confirm", "commit"}
Late == {"insert", "confirm", "commit"}
Items == Invites \cup Tokens \cup Keys \cup Seats \cup {None}
RequestRecords == [pc : Phases, op : Kinds \cup {None}, user : Users \cup {None},
             team : Teams \cup {None}, target : Users \cup {None}, item : Items,
             credits : Nat, after : [user : Int, team : Int]]

(* What a request carries, and how far it can be.                          *)
WellFormed(r) ==
  IF r.pc = "idle" THEN r = Free
  ELSE /\ r.op \in Kinds /\ r.user \in Users /\ r.team \in Teams
       /\ r.op = "create" => r.pc \in Late
       /\ r.op = "update" => r.item \in {None} \cup Seats
       /\ r.op = "remove" => r.target \in Users
       /\ r.op \in {"invite", "accept"} => r.item \in Invites
       /\ r.op = "token" => r.item \in Tokens
       /\ r.pc \in {"wallets", "balance"} => r.op = "fund"
Requests ==
  /\ scenario \in Scenarios /\ handler \in [Handlers -> RequestRecords]
  /\ \A h \in Handlers : WellFormed(handler[h])

(* Which rows a request has locked, and what it has read of two wallets.   *)
HoldsTeam(r) == r.pc \notin {"idle", "lock"} /\ r.op # "create"
HoldsWallets(r) == r.op = "fund" /\ r.pc \in {"balance"} \cup Late
Locks ==
  /\ \A h \in Handlers : HoldsTeam(handler[h]) => teamLock[handler[h].team] = h
  /\ \A h \in Handlers : HoldsWallets(handler[h]) =>
       /\ walletLock[handler[h].user] = h /\ walletLock[handler[h].team] = h
       /\ handler[h].after.user = balance[handler[h].user] - handler[h].credits
       /\ handler[h].pc \in Late => handler[h].after.user >= 0

(* What a request has decided on holds until it commits.                   *)
Decided(r) ==
  /\ r.op = "update" =>
       /\ r.item # None => Cardinality(MembersOf(r.team)) <= r.item
       /\ r.target # None => role[r.team][r.target] # "none"
  /\ r.op = "remove" => role[r.team][r.target] = "member"
  /\ r.op = "accept" =>
       invite[r.item].accepted = None /\ Caller(r) = "none" /\ ~SeatTaken(r.team)
  /\ r.op = "token" => Caller(r) # "none"
Decisions == \A h \in Handlers : handler[h].pc \in Late => Decided(handler[h])

(* A team that is being created, and an invite that is, are one request's. *)
Claims ==
  /\ \A h \in Handlers : handler[h].pc # "idle" =>
       /\ handler[h].op # "create" => Exists(handler[h].team)
       /\ handler[h].op = "create" =>
            /\ ~Exists(handler[h].team)
            /\ \A g \in Handlers : handler[g].team = handler[h].team => g = h
  /\ \A h \in Handlers : handler[h].pc # "idle" =>
       /\ handler[h].op = "accept" => invite[handler[h].item].team = handler[h].team
       /\ handler[h].op = "invite" =>
            /\ invite[handler[h].item].team = None
            /\ \A g \in Handlers :
                 handler[g].pc # "idle" /\ handler[g].op = "invite"
                   /\ handler[g].item = handler[h].item => g = h
  /\ \A i \in Invites : invite[i].team = None => invite[i].accepted = None

(* Rows inserted for a user keep the administrator from disabling it.      *)
Enabled ==
  \A h \in Handlers : Inserts(handler[h].op) /\ handler[h].pc \in {"confirm", "commit"} =>
    /\ handler[h].user \notin userLock
    /\ handler[h].pc = "commit" => enabled[handler[h].user]

(* The rows themselves.                                                    *)
Owned(t) == \E u \in Users : \A v \in Users : role[t][v] = "owner" <=> v = u
Rows ==
  /\ \A t \in Teams : Exists(t) => Owned(t)
  /\ \A t \in Teams : seats[t] >= 1
  /\ \A k \in Tokens : token[k].team # None => token[k].user \in Users
  /\ SeatsRespected /\ TokensOfMembers

IInv == TypeOK /\ Requests /\ Locks /\ Decisions /\ Claims /\ Enabled /\ Rows
-----------------------------------------------------------------------------
\* Sets of members, and what the wish of a request decides

LEMMA FiniteMembers ==
  ASSUME NEW S \in SUBSET Users
  PROVE  IsFiniteSet(S) /\ Cardinality(S) \in Nat
  BY TeamsAssumption, FS_Subset, FS_CardinalityType

LEMMA OneMember ==
  ASSUME NEW S \in SUBSET Users, NEW T \in SUBSET Users, NEW u \in Users,
         \A v \in Users : v \in T => v \in S \/ v = u
  PROVE  Cardinality(T) <= Cardinality(S) + 1
<1>1. IsFiniteSet(S) /\ IsFiniteSet(S \cup {u}) /\ T \subseteq S \cup {u}
  BY FiniteMembers
<1>2. Cardinality(T) <= Cardinality(S \cup {u})
  BY <1>1, FS_Subset
<1>3. Cardinality(S \cup {u}) <= Cardinality(S) + 1
  BY <1>1, FS_AddElement, FiniteMembers
<1> QED
  BY <1>1, <1>2, <1>3, FiniteMembers

LEMMA FewerMembers ==
  ASSUME NEW S \in SUBSET Users, NEW T \in SUBSET S
  PROVE  Cardinality(T) <= Cardinality(S)
  BY FiniteMembers, FS_Subset

(* What the statements under the team's lock have found.                   *)
LEMMA AllowedDecides ==
  ASSUME TypeOK, NEW r \in RequestRecords, r.pc = "check", WellFormed(r), Allowed(r)
  PROVE  Decided(r)
<1>1. r.op \in Kinds /\ r.op # "create" /\ r.user \in Users /\ r.team \in Teams
  BY DEF WellFormed, Late
<1>2. CASE r.op = "update"
  BY <1>2 DEF Allowed, MayUpdate, Successor, Decided
<1>3. CASE r.op = "remove"
  BY <1>3 DEF Allowed, MayRemove, Decided
<1>4. CASE r.op = "accept"
  BY <1>4 DEF Allowed, MayAccept, Open, Decided
<1>5. CASE r.op = "token"
  BY <1>5 DEF Allowed, MayHaveToken, Decided
<1> QED
  BY <1>1, <1>2, <1>3, <1>4, <1>5 DEF Decided

-----------------------------------------------------------------------------
\* Steps of a request that write no row

(* A request ends or moves; the locks that others hold they keep.          *)
OthersLocks(h) ==
  /\ \A t \in Teams : teamLock[t] \in Handlers \ {h} => teamLock'[t] = teamLock[t]
  /\ \A w \in Wallets : walletLock[w] \in Handlers \ {h} => walletLock'[w] = walletLock[w]
Moves(h, r) ==
  /\ handler' = [handler EXCEPT ![h] = r]
  /\ OthersLocks(h)
  /\ UNCHANGED <<rows, enabled, userLock, scenario>>

LEMMA EndUnlocks ==
  ASSUME TypeOK, NEW h \in Handlers, End(h)
  PROVE  /\ handler' = [handler EXCEPT ![h] = Free] /\ OthersLocks(h)
         /\ teamLock' \in [Teams -> Handlers \cup {None}]
         /\ walletLock' \in [Wallets -> Handlers \cup {None}]
  BY TeamsAssumption DEF TypeOK, End, Unlocked, OthersLocks

LEMMA FreeIsFree ==
  /\ Free \in RequestRecords /\ WellFormed(Free) /\ Free.pc = "idle"
  /\ ~HoldsTeam(Free) /\ ~HoldsWallets(Free)
  BY DEF Free, RequestRecords, WellFormed, HoldsTeam, HoldsWallets, Late, Phases, Items

(* What a move has to establish: the rest of the invariant is about others *)
(* and about rows.                                                         *)
LEMMA MoveKeeps ==
  ASSUME IInv, NEW h \in Handlers, NEW r \in RequestRecords, Moves(h, r), TypeOK',
         WellFormed(r),
         HoldsTeam(r) => teamLock'[r.team] = h,
         HoldsWallets(r) =>
           /\ walletLock'[r.user] = h /\ walletLock'[r.team] = h
           /\ r.after.user = balance[r.user] - r.credits
           /\ r.pc \in Late => r.after.user >= 0,
         r.pc \in Late => Decided(r),
         \/ Claims' \/ r.pc = "idle"
         \/ /\ handler[h].pc # "idle" /\ r.op = handler[h].op /\ r.team = handler[h].team
            /\ r.item = handler[h].item,
         Inserts(r.op) /\ r.pc \in {"confirm", "commit"} =>
           /\ r.user \notin userLock
           /\ r.pc = "commit" => enabled[r.user]
  PROVE  IInv'
<1>1. /\ handler \in [Handlers -> RequestRecords]
      /\ handler'[h] = r /\ \A g \in Handlers : g # h => handler'[g] = handler[g]
      /\ UNCHANGED <<role, seats, invite, token, balance, transfers, enabled, userLock, scenario>>
  BY DEF IInv, Requests, Moves, rows
<1>2. Requests'
  BY <1>1 DEF IInv, Requests, Moves, WellFormed, Free
<1>3. Locks'
  <2>1. ASSUME NEW g \in Handlers, g # h
        PROVE  /\ HoldsTeam(handler'[g]) => teamLock'[handler'[g].team] = g
               /\ HoldsWallets(handler'[g]) =>
                    /\ walletLock'[handler'[g].user] = g /\ walletLock'[handler'[g].team] = g
                    /\ handler'[g].after.user = balance'[handler'[g].user] - handler'[g].credits
                    /\ handler'[g].pc \in Late => handler'[g].after.user >= 0
    <3>1. handler'[g] = handler[g] /\ WellFormed(handler[g])
      BY <1>1, <2>1 DEF IInv, Requests
    <3>2. HoldsTeam(handler[g]) \/ HoldsWallets(handler[g]) =>
            handler[g].team \in Teams /\ handler[g].user \in Users
      BY <3>1 DEF WellFormed, HoldsTeam, HoldsWallets, Late
    <3> QED
      BY <1>1, <2>1, <3>1, <3>2 DEF IInv, Locks, Moves, OthersLocks, Wallets
  <2> QED
    BY <1>1, <2>1 DEF Locks, HoldsTeam, HoldsWallets
<1>4. Decisions'
  <2>1. ASSUME NEW g \in Handlers, handler'[g].pc \in Late, Decided(handler'[g])
        PROVE  Decided(handler[g])'
    BY <1>1, <2>1 DEF Decided, MembersOf, Caller, SeatTaken
  <2>2. ASSUME NEW g \in Handlers, handler'[g].pc \in Late PROVE Decided(handler'[g])
    BY <1>1, <2>2 DEF IInv, Decisions
  <2> QED
    BY <2>1, <2>2 DEF Decisions
<1>5. CASE ~Claims'
  <2>1. /\ \A t \in Teams : Exists(t)' <=> Exists(t)
        /\ \A g \in Handlers : handler[g].pc # "idle" => handler[g].team \in Teams
        /\ r.pc = "idle" => r.team = None
    BY <1>1 DEF Exists, MembersOf, IInv, Requests, WellFormed, Free
  <2>2. \A g \in Handlers : handler'[g].pc # "idle" =>
          /\ handler[g].pc # "idle" /\ handler'[g].op = handler[g].op
          /\ handler'[g].team = handler[g].team /\ handler'[g].item = handler[g].item
    BY <1>1, <1>5
  <2>3. \A g \in Handlers : handler'[g].team = handler[g].team \/ handler'[g].team = None
    BY <1>1, <1>5, <2>1
  <2>4. Claims'
    BY <1>1, <2>1, <2>2, <2>3, TeamsAssumption DEF IInv, Claims
  <2> QED
    BY <1>5, <2>4
<1>6. Enabled'
  BY <1>1 DEF IInv, Enabled, Inserts
<1>7. Rows'
  BY <1>1 DEF IInv, Rows, Owned, Exists, MembersOf, SeatsRespected, TokensOfMembers
<1> QED
  BY <1>2, <1>3, <1>4, <1>5, <1>6, <1>7 DEF IInv

LEMMA EndKeeps ==
  ASSUME IInv, NEW h \in Handlers, Rollback(h), UNCHANGED <<enabled, session, userLock, spent, scenario>>
  PROVE  IInv'
<1>1. TypeOK /\ End(h) /\ UNCHANGED rows
  BY DEF IInv, Rollback
<1>2. TypeOK'
  BY <1>1, EndUnlocks DEF TypeOK, rows
<1>3. Moves(h, Free)
  BY <1>1, EndUnlocks DEF Moves
<1>4. ~(Free.pc \in {"confirm", "commit"} \cup Late)
  BY DEF Free, Late
<1> QED
  BY <1>2, <1>3, <1>4, FreeIsFree, MoveKeeps

(* A request goes on to a later place in its handler.                      *)
LEMMA GoesOn ==
  ASSUME IInv, NEW h \in Handlers, NEW to \in Phases \ {"idle"}, Goto(h, to),
         handler[h].pc # "idle", OthersLocks(h), TypeOK',
         UNCHANGED <<rows, enabled, userLock, scenario>>,
         handler[h].op = "create" => to \in Late,
         to \in {"wallets", "balance"} => handler[h].op = "fund",
         to # "lock" /\ handler[h].op # "create" => teamLock'[handler[h].team] = h,
         handler[h].op = "fund" /\ to \in {"balance"} \cup Late =>
           /\ walletLock'[handler[h].user] = h /\ walletLock'[handler[h].team] = h
           /\ handler[h].after.user = balance[handler[h].user] - handler[h].credits
           /\ to \in Late => handler[h].after.user >= 0,
         to \in Late => Decided(handler[h]),
         Inserts(handler[h].op) /\ to \in {"confirm", "commit"} =>
           /\ handler[h].user \notin userLock
           /\ to = "commit" => enabled[handler[h].user]
  PROVE  IInv'
<1> DEFINE r == [handler[h] EXCEPT !.pc = to]
<1>1. handler \in [Handlers -> RequestRecords] /\ handler[h] \in RequestRecords
      /\ WellFormed(handler[h])
  BY DEF IInv, Requests
<1>2. /\ handler' = [handler EXCEPT ![h] = r] /\ r \in RequestRecords /\ r.pc = to
      /\ r.op = handler[h].op /\ r.user = handler[h].user /\ r.team = handler[h].team
      /\ r.target = handler[h].target /\ r.item = handler[h].item
      /\ r.credits = handler[h].credits /\ r.after = handler[h].after
  BY <1>1 DEF Goto, RequestRecords
<1> HIDE DEF r
<1>3. Moves(h, r)
  BY <1>2 DEF Moves
<1>4. WellFormed(r)
  BY <1>1, <1>2 DEF WellFormed
<1>5. to \in Late => Decided(r)
  BY <1>2 DEF Decided, Caller
<1> QED
  BY <1>2, <1>3, <1>4, <1>5, MoveKeeps DEF HoldsTeam, HoldsWallets

LEMMA RequestFields ==
  ASSUME IInv, NEW h \in Handlers, handler[h].pc # "idle"
  PROVE  /\ handler[h] \in RequestRecords /\ WellFormed(handler[h])
         /\ handler[h].op \in Kinds /\ handler[h].user \in Users /\ handler[h].team \in Teams
         /\ handler[h].credits \in Nat
  BY DEF IInv, Requests, WellFormed, RequestRecords

LEMMA LockTeamKeeps ==
  ASSUME IInv, NEW h \in Handlers, LockTeam(h)
  PROVE  IInv'
<1> USE DEF LockTeam, account
<1>1. /\ handler[h].pc = "lock" /\ handler[h].team \in Teams /\ handler[h].op # "create"
      /\ teamLock[handler[h].team] = None
  BY RequestFields DEF WellFormed, Late, TeamFree
<1>2. /\ teamLock' = [teamLock EXCEPT ![handler[h].team] = h] /\ TypeOK
      /\ teamLock \in [Teams -> Handlers \cup {None}] /\ UNCHANGED walletLock
  BY DEF IInv, TypeOK
<1>3. TypeOK'
  BY <1>1, <1>2 DEF TypeOK, rows
<1>4. OthersLocks(h) /\ teamLock'[handler[h].team] = h
  BY <1>1, <1>2, TeamsAssumption DEF OthersLocks
<1> QED
  BY <1>1, <1>3, <1>4, GoesOn DEF Phases, Late

LEMMA CheckKeeps ==
  ASSUME IInv, NEW h \in Handlers, Check(h)
  PROVE  IInv'
<1>1. /\ handler[h].pc = "check" /\ handler[h].op \in Kinds /\ handler[h].op # "create"
      /\ handler[h] \in RequestRecords /\ WellFormed(handler[h])
      /\ teamLock[handler[h].team] = h
  BY RequestFields DEF Check, WellFormed, Late, IInv, Locks, HoldsTeam
<1>2. CASE Rollback(h)
  BY <1>2, EndKeeps DEF Check, account
<1>3. CASE Allowed(handler[h]) /\ UNCHANGED <<rows, teamLock, walletLock>>
  <2> DEFINE to == IF handler[h].op = "fund" THEN "wallets"
                   ELSE IF Inserts(handler[h].op) THEN "insert" ELSE "confirm"
  <2>1. CASE ~Goto(h, to)
    BY <1>2, <2>1 DEF Check
  <2>2. CASE Goto(h, to)
    <3>1. TypeOK' /\ OthersLocks(h)
      BY <1>3, <2>2 DEF Check, account, IInv, TypeOK, rows, OthersLocks
    <3>2. Decided(handler[h])
      BY <1>1, <1>3, AllowedDecides DEF IInv
    <3>3. UNCHANGED <<rows, enabled, userLock, scenario>>
      BY <1>3 DEF Check, account
    <3>4. to \in Phases \ {"idle"} /\ (Inserts(handler[h].op) => to \notin {"confirm", "commit"})
          /\ (to \in {"wallets", "balance"} => handler[h].op = "fund")
          /\ (handler[h].op = "fund" => to = "wallets")
      BY DEF Phases, Inserts
    <3> HIDE DEF to
    <3> QED
      BY <1>1, <1>3, <2>2, <3>1, <3>2, <3>3, <3>4, GoesOn DEF Late
  <2> QED
    BY <2>1, <2>2
<1> QED
  BY <1>2, <1>3 DEF Check

LEMMA CheckBalanceKeeps ==
  ASSUME IInv, NEW h \in Handlers, CheckBalance(h)
  PROVE  IInv'
<1>1. /\ handler[h].pc = "balance" /\ handler[h].op = "fund" /\ handler[h].op # "create"
  BY RequestFields DEF CheckBalance, WellFormed
<1>2. CASE Rollback(h)
  BY <1>2, EndKeeps DEF CheckBalance, account
<1>3. CASE Covers(handler[h]) /\ Goto(h, "insert") /\ UNCHANGED <<rows, teamLock, walletLock>>
  <2>1. TypeOK' /\ OthersLocks(h)
    BY <1>3 DEF CheckBalance, account, IInv, TypeOK, rows, OthersLocks
  <2>2. /\ teamLock[handler[h].team] = h
        /\ walletLock[handler[h].user] = h /\ walletLock[handler[h].team] = h
        /\ handler[h].after.user = balance[handler[h].user] - handler[h].credits
        /\ handler[h].after.user >= 0
    BY <1>1, <1>3 DEF IInv, Locks, HoldsTeam, HoldsWallets, Covers
  <2>3. Decided(handler[h]) /\ UNCHANGED <<rows, enabled, userLock, scenario>>
    BY <1>1, <1>3 DEF CheckBalance, account, Decided
  <2> QED
    BY <1>1, <1>3, <2>1, <2>2, <2>3, GoesOn DEF Phases, Late
<1> QED
  BY <1>2, <1>3 DEF CheckBalance

LEMMA InsertConfirmKeeps ==
  ASSUME IInv, NEW h \in Handlers, Insert(h) \/ Confirm(h)
  PROVE  IInv'
<1>1. handler[h].pc \in {"insert", "confirm"} /\ handler[h].pc \in Late
  BY DEF Insert, Confirm, Late
<1>2. CASE Rollback(h) /\ Confirm(h)
  BY <1>2, EndKeeps DEF Confirm, account
<1>3. CASE UNCHANGED <<rows, teamLock, walletLock, enabled, session, userLock, spent, scenario>>
  <2>1. TypeOK' /\ OthersLocks(h)
    BY <1>3 DEF IInv, TypeOK, rows, OthersLocks
  <2>2. /\ handler[h].op # "create" => teamLock[handler[h].team] = h
        /\ handler[h].op = "fund" =>
             /\ walletLock[handler[h].user] = h /\ walletLock[handler[h].team] = h
             /\ handler[h].after.user = balance[handler[h].user] - handler[h].credits
             /\ handler[h].after.user >= 0
        /\ Decided(handler[h])
    BY <1>1 DEF IInv, Locks, HoldsTeam, HoldsWallets, Decisions, Late
  <2>3. CASE Insert(h)
    BY <1>1, <1>3, <2>1, <2>2, <2>3, GoesOn DEF Insert, UserFree, Phases, Late
  <2>4. CASE Confirm(h) /\ SignedIn(handler[h].user) /\ Goto(h, "commit")
    <3>1. Inserts(handler[h].op) => handler[h].user \notin userLock
      BY <2>4 DEF Confirm, IInv, Enabled
    <3>2. enabled[handler[h].user]
      BY <2>4 DEF SignedIn
    <3> QED
      BY <1>1, <1>3, <2>1, <2>2, <2>4, <3>1, <3>2, GoesOn DEF Phases, Late
  <2>5. CASE Rollback(h) /\ Confirm(h)
    BY <1>2, <2>5
  <2> QED
    BY <2>3, <2>4, <2>5 DEF Confirm
<1> QED
  BY <1>2, <1>3 DEF Insert, Confirm, account

(* The second wallet is locked after the first, in the order of their ids, *)
(* and both balances are read then.                                        *)
LEMMA LockWalletKeeps ==
  ASSUME IInv, NEW h \in Handlers, LockWallet(h)
  PROVE  IInv'
<1> DEFINE u == handler[h].user
           t == handler[h].team
           first == FirstWallet(handler[h])
           w == IF walletLock[first] = h THEN SecondWallet(handler[h]) ELSE first
           read == [user |-> balance[u] - handler[h].credits,
                    team |-> balance[t] + handler[h].credits]
           r == [handler[h] EXCEPT !.pc = "balance", !.after = read]
<1>1. /\ handler[h].pc = "wallets" /\ handler[h].op = "fund" /\ handler[h].op # "create"
      /\ u \in Users /\ t \in Teams /\ u # t /\ handler[h].credits \in Nat
      /\ handler[h] \in RequestRecords /\ WellFormed(handler[h]) /\ teamLock[t] = h
  BY RequestFields, TeamsAssumption DEF LockWallet, WellFormed, IInv, Locks, HoldsTeam
<1>2. /\ walletLock \in [Wallets -> Handlers \cup {None}]
      /\ handler \in [Handlers -> RequestRecords]
      /\ balance[u] \in Nat /\ balance[t] \in Nat
  BY <1>1 DEF IInv, TypeOK, Requests, Wallets
<1>3. /\ walletLock[w] = None /\ walletLock' = [walletLock EXCEPT ![w] = h]
      /\ UNCHANGED <<rows, teamLock, enabled, session, userLock, spent, scenario>>
      /\ IF w = first THEN UNCHANGED handler
         ELSE handler' = [handler EXCEPT ![h].pc = "balance", ![h].after = read]
  BY DEF LockWallet, NextWallet, WalletFree, account
<1>4. /\ {first, w} \subseteq {u, t} /\ w \in Wallets
      /\ w # first => walletLock[first] = h
  BY <1>1 DEF Wallets, FirstWallet, SecondWallet
<1> HIDE DEF first, w
<1>5. walletLock' \in [Wallets -> Handlers \cup {None}] /\ OthersLocks(h) /\ walletLock'[w] = h
  BY <1>2, <1>3, <1>4, TeamsAssumption DEF OthersLocks
<1>6. TypeOK'
  BY <1>3, <1>5 DEF IInv, TypeOK, rows
<1>7. CASE w = first
  <2>1. handler' = [handler EXCEPT ![h] = handler[h]]
    BY <1>2, <1>3, <1>7
  <2>2. Moves(h, handler[h])
    BY <1>3, <1>5, <2>1 DEF Moves
  <2> QED
    BY <1>1, <1>3, <1>6, <2>2, MoveKeeps DEF HoldsTeam, HoldsWallets, Late
<1>8. CASE w # first
  <2>1. /\ handler' = [handler EXCEPT ![h] = r] /\ read \in [user : Int, team : Int]
    <3>1. handler' = [handler EXCEPT ![h].pc = "balance", ![h].after = read]
      BY <1>3, <1>8
    <3>2. read \in [user : Int, team : Int]
      BY <1>1, <1>2
    <3> HIDE DEF read
    <3>3. handler' = [handler EXCEPT ![h] = r]
      BY <1>2, <3>1
    <3> QED
      BY <3>2, <3>3
  <2>2. /\ r \in RequestRecords /\ r.pc = "balance" /\ r.op = "fund" /\ r.user = u /\ r.team = t
        /\ r.target = handler[h].target /\ r.item = handler[h].item
        /\ r.credits = handler[h].credits /\ r.after.user = balance[u] - handler[h].credits
    BY <1>1, <2>1 DEF RequestRecords, Phases
  <2>3. Moves(h, r)
    BY <1>3, <1>5, <2>1 DEF Moves
  <2>4. walletLock'[u] = h /\ walletLock'[t] = h
    BY <1>1, <1>2, <1>3, <1>4, <1>8 DEF Wallets
  <2> HIDE DEF r
  <2>5. WellFormed(r)
    BY <1>1, <2>2 DEF WellFormed
  <2> QED
    BY <1>1, <1>3, <1>6, <2>2, <2>3, <2>4, <2>5, MoveKeeps DEF HoldsTeam, HoldsWallets, Late
<1> QED
  BY <1>7, <1>8

(* A request that arrives claims the team it creates or the row it adds.   *)
LEMMA NewRequest ==
  ASSUME IInv, NEW h \in Handlers, handler[h].pc = "idle", NEW r \in RequestRecords,
         handler' = [handler EXCEPT ![h] = r],
         UNCHANGED <<rows, account, teamLock, walletLock, spent>>,
         r.pc = IF r.op = "create" THEN "insert" ELSE "lock", WellFormed(r),
         r.op = "create" => Unclaimed(r.team),
         r.op # "create" => Exists(r.team),
         r.op = "invite" => Fresh(invite, r.item),
         r.op = "accept" => invite[r.item].team = r.team
  PROVE  IInv'
<1>1. /\ handler \in [Handlers -> RequestRecords]
      /\ handler'[h] = r /\ \A g \in Handlers : g # h => handler'[g] = handler[g]
      /\ UNCHANGED <<role, seats, invite, token, balance, spent, session, teamLock, walletLock>>
      /\ UNCHANGED <<transfers, enabled, userLock, scenario>>
  BY DEF IInv, Requests, rows, account
<1>2. TypeOK' /\ Moves(h, r)
  BY <1>1 DEF IInv, TypeOK, Moves, OthersLocks, rows
<1>3. ~HoldsTeam(r) /\ ~HoldsWallets(r) /\ (r.pc \in Late => Decided(r))
      /\ r.pc \notin {"confirm", "commit"}
  BY DEF HoldsTeam, HoldsWallets, Late, Decided
<1>4. /\ \A t \in Teams : Exists(t)' <=> Exists(t)
      /\ r.team \in Teams /\ r.pc # "idle"
      /\ \A g \in Handlers : handler[g].pc # "idle" => handler[g].team \in Teams
  BY <1>1 DEF Exists, MembersOf, IInv, Requests, WellFormed
<1>5. Claims'
  <2>1. \A g \in Handlers : handler'[g].pc # "idle" =>
          /\ handler'[g].op # "create" => Exists(handler'[g].team)
          /\ handler'[g].op = "create" =>
               /\ ~Exists(handler'[g].team)
               /\ \A k \in Handlers : handler'[k].team = handler'[g].team => k = g
    BY <1>1, <1>4 DEF IInv, Claims, Unclaimed
  <2>2. \A g \in Handlers : handler'[g].pc # "idle" =>
          /\ handler'[g].op = "accept" => invite[handler'[g].item].team = handler'[g].team
          /\ handler'[g].op = "invite" =>
               /\ invite[handler'[g].item].team = None
               /\ \A k \in Handlers : handler'[k].pc # "idle" /\ handler'[k].op = "invite"
                    /\ handler'[k].item = handler'[g].item => k = g
    BY <1>1, <1>4 DEF IInv, Claims, Fresh
  <2>3. \A i \in Invites : invite[i].team = None => invite[i].accepted = None
    BY DEF IInv, Claims
  <2>4. \A g \in Handlers : Exists(handler[g].team)' <=> Exists(handler'[g].team)
    BY <1>1 DEF Exists, MembersOf
  <2> QED
    BY <1>1, <2>1, <2>2, <2>3, <2>4 DEF Claims
<1> QED
  BY <1>2, <1>3, <1>5, MoveKeeps

LEMMA RequestKeeps ==
  ASSUME IInv, NEW h \in Handlers, Request(h)
  PROVE  IInv'
<1>1. scenario.users \subseteq Users /\ scenario.teams \subseteq Teams
  BY TeamsAssumption DEF IInv, Requests, Scenario
<1>2. ASSUME NEW op \in Kinds, NEW u \in Users, NEW t \in Teams, NEW target \in Users \cup {None},
             NEW item \in Items, NEW credits \in Nat, Wants(h, op, u, t, target, item, credits),
             op = "update" => item \in {None} \cup Seats,
             op = "remove" => target \in Users,
             op \in {"invite", "accept"} => item \in Invites,
             op = "token" => item \in Tokens,
             op = "create" => Unclaimed(t),
             op # "create" => Exists(t),
             op = "invite" => Fresh(invite, item),
             op = "accept" => invite[item].team = t
      PROVE  IInv'
  <2> DEFINE r == [Free EXCEPT !.pc = IF op = "create" THEN "insert" ELSE "lock",
                    !.op = op, !.user = u, !.team = t, !.target = target,
                    !.item = item, !.credits = credits]
  <2>1. /\ r \in RequestRecords /\ r.pc = IF op = "create" THEN "insert" ELSE "lock"
        /\ r.op = op /\ r.user = u /\ r.team = t /\ r.target = target /\ r.item = item
    BY <1>2, FreeIsFree DEF RequestRecords, Free, Phases
  <2>2. /\ handler[h].pc = "idle" /\ handler' = [handler EXCEPT ![h] = r]
        /\ UNCHANGED <<rows, account, teamLock, walletLock, spent>>
    BY <1>2 DEF Wants
  <2> HIDE DEF r
  <2>3. WellFormed(r)
    BY <1>2, <2>1 DEF WellFormed, Late
  <2> QED
    BY <1>2, <2>1, <2>2, <2>3, NewRequest
<1>3. PICK u \in scenario.users, t \in scenario.teams :
        \/ Unclaimed(t) /\ Wants(h, "create", u, t, None, None, 0)
        \/ /\ Exists(t)
           /\ \/ \E v \in {None} \cup (scenario.users \ {u}), n \in {None} \cup Seats :
                   {v, n} # {None} /\ Wants(h, "update", u, t, v, n, 0)
              \/ \E v \in scenario.users : Wants(h, "remove", u, t, v, None, 0)
              \/ \E i \in Invites : Fresh(invite, i) /\ Wants(h, "invite", u, t, None, i, 0)
              \/ \E i \in Invites : invite[i].team = t /\ Wants(h, "accept", u, t, None, i, 0)
              \/ \E k \in Tokens : Fresh(token, k) /\ Wants(h, "token", u, t, None, k, 0)
              \/ \E k \in Keys, c \in Credits : Wants(h, "fund", u, t, None, k, c)
  BY DEF Request
<1>4. u \in Users /\ t \in Teams /\ Credits \subseteq Nat /\ 0 \in Nat
  BY <1>1, TeamsAssumption
<1>5. CASE Unclaimed(t) /\ Wants(h, "create", u, t, None, None, 0)
  BY <1>2, <1>4, <1>5 DEF Kinds, Items
<1>6. ASSUME Exists(t), NEW v \in Users \cup {None}, NEW n \in {None} \cup Seats,
             Wants(h, "update", u, t, v, n, 0)
      PROVE  IInv'
  BY <1>2, <1>4, <1>6 DEF Kinds, Items
<1>7. ASSUME Exists(t), NEW v \in Users, Wants(h, "remove", u, t, v, None, 0) PROVE IInv'
  BY <1>2, <1>4, <1>7 DEF Kinds, Items
<1>8. ASSUME Exists(t), NEW i \in Invites,
             \/ Fresh(invite, i) /\ Wants(h, "invite", u, t, None, i, 0)
             \/ invite[i].team = t /\ Wants(h, "accept", u, t, None, i, 0)
      PROVE  IInv'
  BY <1>2, <1>4, <1>8 DEF Kinds, Items
<1>9. ASSUME Exists(t), NEW k \in Tokens, Wants(h, "token", u, t, None, k, 0) PROVE IInv'
  BY <1>2, <1>4, <1>9 DEF Kinds, Items
<1>10. ASSUME Exists(t), NEW k \in Keys, NEW c \in Credits, Wants(h, "fund", u, t, None, k, c)
       PROVE  IInv'
  BY <1>2, <1>4, <1>10 DEF Kinds, Items
<1> QED
  BY <1>1, <1>3, <1>5, <1>6, <1>7, <1>8, <1>9, <1>10

-----------------------------------------------------------------------------
\* What else happens to rows and accounts

LEMMA OutsideKeeps ==
  ASSUME IInv, TypeOK', Enabled',
         UNCHANGED <<handler, role, seats, teamLock, walletLock, scenario>>,
         \A i \in Invites : /\ invite'[i].team = invite[i].team
                            /\ invite'[i].accepted = invite[i].accepted,
         \A k \in Tokens : /\ token'[k].team = token[k].team /\ token'[k].user = token[k].user
                           /\ token[k].revoked => token'[k].revoked,
         \A w \in Wallets : walletLock[w] # None => balance'[w] = balance[w]
  PROVE  IInv'
<1>1. Requests'
  BY DEF IInv, Requests, WellFormed, Free
<1>2. Locks'
  <2>1. \A h \in Handlers : HoldsWallets(handler[h]) =>
          /\ handler[h].user \in Wallets /\ handler[h].team \in Wallets /\ h # None
    BY TeamsAssumption DEF IInv, Requests, WellFormed, HoldsWallets, Late, Wallets
  <2> QED
    BY <2>1 DEF IInv, Locks, HoldsTeam, HoldsWallets
<1>3. Decisions'
  <2>1. ASSUME NEW h \in Handlers, handler[h].pc \in Late PROVE Decided(handler[h])'
    <3>1. Decided(handler[h]) /\ (handler[h].op = "accept" => handler[h].item \in Invites)
      BY <2>1 DEF IInv, Decisions, Requests, WellFormed, Late
    <3> QED
      BY <3>1 DEF Decided, MembersOf, Caller, SeatTaken
  <2> QED
    BY <2>1 DEF Decisions
<1>4. Claims'
  <2>1. \A h \in Handlers : handler[h].pc # "idle" /\ handler[h].op \in {"invite", "accept"} =>
          handler[h].item \in Invites
    BY DEF IInv, Requests, WellFormed
  <2> QED
    BY <2>1 DEF IInv, Claims, Exists, MembersOf
<1>5. Rows'
  <2>1. SeatsRespected' /\ \A t \in Teams : (Exists(t) => Owned(t))' /\ seats'[t] >= 1
    BY DEF IInv, Rows, SeatsRespected, Exists, Owned, MembersOf
  <2>2. TokensOfMembers' /\ \A k \in Tokens : token'[k].team # None => token'[k].user \in Users
    BY DEF IInv, Rows, TokensOfMembers, TypeOK
  <2> QED
    BY <2>1, <2>2 DEF Rows
<1> QED
  BY <1>1, <1>2, <1>3, <1>4, <1>5 DEF IInv

LEMMA RowsExpire ==
  ASSUME IInv, (\E i \in Invites : ExpireInvite(i)) \/ (\E k \in Tokens : RevokeToken(k))
  PROVE  IInv'
<1>1. TypeOK /\ Enabled
  BY DEF IInv
<1>2. Enabled'
  BY <1>1 DEF ExpireInvite, RevokeToken, account, Enabled, Inserts
<1>3. ASSUME NEW i \in Invites, ExpireInvite(i) PROVE IInv'
  <2>1. /\ TypeOK'
        /\ \A j \in Invites : /\ invite'[j].team = invite[j].team
                              /\ invite'[j].accepted = invite[j].accepted
    <3>1. /\ invite' = [invite EXCEPT ![i] = [invite[i] EXCEPT !.expired = TRUE]]
          /\ invite \in [Invites -> [team : Teams \cup {None}, accepted : Users \cup {None},
                                    expired : BOOLEAN]]
      BY <1>1, <1>3 DEF ExpireInvite, TypeOK
    <3>2. /\ \A j \in Invites : /\ invite'[j].team = invite[j].team
                                /\ invite'[j].accepted = invite[j].accepted
          /\ invite' \in [Invites -> [team : Teams \cup {None}, accepted : Users \cup {None},
                                     expired : BOOLEAN]]
      BY <3>1
    <3> QED
      BY <1>1, <1>3, <3>2 DEF ExpireInvite, TypeOK, account
  <2> QED
    BY <1>2, <1>3, <2>1, OutsideKeeps DEF ExpireInvite, account
<1>4. ASSUME NEW k \in Tokens, RevokeToken(k) PROVE IInv'
  <2>1. /\ TypeOK'
        /\ \A j \in Tokens : /\ token'[j].team = token[j].team /\ token'[j].user = token[j].user
                             /\ token[j].revoked => token'[j].revoked
    <3>1. /\ token' = [token EXCEPT ![k] = [token[k] EXCEPT !.revoked = TRUE]]
          /\ token \in [Tokens -> [team : Teams \cup {None}, user : Users \cup {None},
                                  revoked : BOOLEAN]]
      BY <1>1, <1>4 DEF RevokeToken, TypeOK
    <3>2. [token[k] EXCEPT !.revoked = TRUE] \in [team : Teams \cup {None}, user : Users \cup {None},
                                                 revoked : BOOLEAN]
      BY <3>1
    <3>3. \A j \in Tokens : /\ token'[j].team = token[j].team /\ token'[j].user = token[j].user
                             /\ token[j].revoked => token'[j].revoked
      BY <3>1
    <3>4. token' \in [Tokens -> [team : Teams \cup {None}, user : Users \cup {None},
                                revoked : BOOLEAN]]
      BY <3>1, <3>2
    <3> QED
      BY <1>1, <1>4, <3>3, <3>4 DEF RevokeToken, TypeOK, account
  <2> QED
    BY <1>2, <1>4, <2>1, OutsideKeeps DEF RevokeToken, account
<1> QED
  BY <1>3, <1>4

LEMMA DebitKeeps ==
  ASSUME IInv, NEW w \in Wallets, Debit(w)
  PROVE  IInv'
<1>1. TypeOK /\ Enabled
  BY DEF IInv
<1>2. Enabled'
  BY <1>1 DEF Debit, account, Enabled, Inserts
<1>3. /\ TypeOK'
      /\ \A v \in Wallets : walletLock[v] # None => balance'[v] = balance[v]
  BY <1>1 DEF Debit, WalletFree, TypeOK, account
<1> QED
  BY <1>2, <1>3, OutsideKeeps DEF Debit, account

(* setUserEnabled waits for whoever has inserted a row of the user.        *)
LEMMA AccountKeeps ==
  ASSUME IInv, NEW u \in Users, LockUser(u) \/ SetUserEnabled(u) \/ SignOut(u)
  PROVE  IInv'
<1>1. TypeOK /\ Enabled
  BY DEF IInv
<1>2. TypeOK' /\ UNCHANGED <<rows, handler, teamLock, walletLock, scenario>>
  BY <1>1 DEF LockUser, SetUserEnabled, SignOut, TypeOK, rows
<1>3. Enabled'
  <2>1. CASE LockUser(u)
    BY <1>1, <2>1 DEF LockUser, Referred, Enabled, Inserts
  <2>2. CASE SetUserEnabled(u)
    <3>1. \A v \in Users : v # u => enabled'[v] = enabled[v]
      BY <1>1, <2>2 DEF SetUserEnabled, TypeOK
    <3>2. \A h \in Handlers : handler[h].pc \in {"confirm", "commit"} => handler[h].user \in Users
      BY DEF IInv, Requests, WellFormed
    <3> QED
      BY <1>1, <2>2, <3>1, <3>2 DEF SetUserEnabled, Enabled, Inserts
  <2>3. CASE SignOut(u)
    BY <1>1, <2>3 DEF SignOut, Enabled, Inserts
  <2> QED
    BY <2>1, <2>2, <2>3
<1> QED
  BY <1>2, <1>3, OutsideKeeps DEF rows

-----------------------------------------------------------------------------
\* Commits

LEMMA OtherTeam ==
  ASSUME IInv, NEW h \in Handlers, handler[h].pc = "commit",
         NEW g \in Handlers, g # h, handler[g].pc \in Late
  PROVE  handler[g].team # handler[h].team
  BY DEF IInv, Locks, HoldsTeam, Claims, Late

(* What a commit leaves alone: other teams' rows, other requests' invites, *)
(* wallets it has not locked; and no team loses its last member.           *)
Spares(h) ==
  /\ \A t \in Teams : t # handler[h].team => role'[t] = role[t] /\ seats'[t] = seats[t]
  /\ \A t \in Teams : (\E u \in Users : role[t][u] # "none") => \E u \in Users : role'[t][u] # "none"
  /\ \A i \in Invites : \/ invite'[i] = invite[i]
                        \/ handler[h].op \in {"invite", "accept"} /\ handler[h].item = i
  /\ \A i \in Invites : invite'[i].team = invite[i].team \/ handler[h].op = "invite"
  /\ \A i \in Invites : invite'[i].team = None => invite'[i].accepted = None
  /\ \A w \in Wallets : walletLock[w] = h \/ balance'[w] = balance[w]

LEMMA CommitOf ==
  ASSUME IInv, NEW h \in Handlers, Commit(h)
  PROVE  /\ TypeOK /\ Rows /\ Decided(handler[h]) /\ Written(handler[h])
         /\ handler[h] \in RequestRecords /\ WellFormed(handler[h])
         /\ handler[h].pc = "commit" /\ handler[h].op \in Kinds
         /\ handler[h].user \in Users /\ handler[h].team \in Teams /\ handler[h].credits \in Nat
         /\ \A i \in Invites : invite[i].team = None => invite[i].accepted = None
         /\ UNCHANGED <<enabled, session, userLock, spent, scenario>>
         /\ teamLock' \in [Teams -> Handlers \cup {None}]
         /\ walletLock' \in [Wallets -> Handlers \cup {None}]
<1>1. handler[h].pc = "commit"
  BY DEF Commit
<1>2. Decided(handler[h])
  BY <1>1 DEF IInv, Decisions, Late
<1> QED
  BY <1>1, <1>2, RequestFields, EndUnlocks DEF Commit, IInv, Claims, account

LEMMA CreateWrites ==
  ASSUME IInv, NEW h \in Handlers, Commit(h), handler[h].op = "create"
  PROVE  TypeOK' /\ Spares(h) /\ Rows'
<1>0. PICK t \in Teams, u \in Users : t = handler[h].team /\ u = handler[h].user
  BY CommitOf
<1>1. /\ role' = [role EXCEPT ![t][u] = "owner"] /\ UNCHANGED <<seats, invite, token, balance>>
      /\ TypeOK /\ Rows
  BY <1>0, CommitOf DEF Written, Created
<1>2. \A v \in Users : role[t][v] = "none"
  BY <1>0, CommitOf DEF IInv, Claims, Exists, MembersOf
<1>3. /\ role \in [Teams -> [Users -> {"owner", "member", "none"}]]
      /\ role' \in [Teams -> [Users -> {"owner", "member", "none"}]]
      /\ \A s \in Teams : s # t => role'[s] = role[s]
      /\ \A v \in Users : role'[t][v] = IF v = u THEN "owner" ELSE "none"
  BY <1>1, <1>2 DEF TypeOK
<1>4. TypeOK'
  BY <1>1, <1>3, CommitOf DEF TypeOK
<1>5. Spares(h)
  BY <1>0, <1>1, <1>3, CommitOf DEF Spares
<1>6. \A s \in Teams : (Exists(s) => Owned(s))'
  BY <1>1, <1>3 DEF Rows, Exists, Owned, MembersOf
<1>7. SeatsRespected'
  <2>1. MembersOf(t)' \in SUBSET Users /\ \A v \in Users : v \in MembersOf(t)' => v \in {} \/ v = u
    BY <1>3 DEF MembersOf
  <2>2. Cardinality(MembersOf(t)') <= 1
    BY <1>1, <2>1, OneMember, FS_EmptySet
  <2>3. Cardinality(MembersOf(t)') <= seats'[t]
    BY <1>1, <2>1, <2>2, FiniteMembers DEF Rows, TypeOK
  <2>4. \A s \in Teams : s # t => MembersOf(s)' = MembersOf(s)
    BY <1>3 DEF MembersOf
  <2> QED
    BY <1>1, <2>3, <2>4 DEF Rows, SeatsRespected
<1>8. TokensOfMembers'
  BY <1>1, <1>2, <1>3 DEF Rows, TokensOfMembers, TypeOK
<1> QED
  BY <1>1, <1>4, <1>5, <1>6, <1>7, <1>8 DEF Rows

LEMMA UpdateWrites ==
  ASSUME IInv, NEW h \in Handlers, Commit(h), handler[h].op = "update"
  PROVE  TypeOK' /\ Spares(h) /\ Rows'
<1> DEFINE r == handler[h]
           t == handler[h].team
<1>1. /\ seats' = IF r.item = None THEN seats ELSE [seats EXCEPT ![t] = r.item]
      /\ role' = IF r.target = None THEN role
                 ELSE [role EXCEPT ![t] = [u \in Users |->
                   IF role[t][u] = "none" THEN "none"
                   ELSE IF u = r.target THEN "owner" ELSE "member"]]
      /\ UNCHANGED <<invite, token, balance>>
      /\ t \in Teams /\ TypeOK /\ Rows /\ r.target \in Users \cup {None}
      /\ r.item \in {None} \cup Seats
      /\ r.item # None => Cardinality(MembersOf(t)) <= r.item
      /\ r.target # None => role[t][r.target] # "none"
  BY CommitOf DEF Written, Updated, Decided, WellFormed, RequestRecords
<1>2. /\ role \in [Teams -> [Users -> {"owner", "member", "none"}]]
      /\ role' \in [Teams -> [Users -> {"owner", "member", "none"}]]
      /\ \A s \in Teams : s # t => role'[s] = role[s]
      /\ \A v \in Users : role'[t][v] = "none" <=> role[t][v] = "none"
      /\ \/ role'[t] = role[t]
         \/ r.target \in Users /\ \A v \in Users : role'[t][v] = "owner" <=> v = r.target
  BY <1>1 DEF TypeOK
<1>3. /\ seats' \in [Teams -> Nat] /\ seats'[t] >= 1
      /\ \A s \in Teams : s # t => seats'[s] = seats[s]
      /\ seats'[t] = seats[t] \/ Cardinality(MembersOf(t)) <= seats'[t]
  <2>1. seats \in [Teams -> Nat] /\ seats[t] >= 1
    BY <1>1 DEF TypeOK, Rows
  <2>2. CASE r.item = None
    BY <1>1, <2>1, <2>2
  <2>3. CASE r.item # None
    <3>1. r.item \in Nat /\ r.item >= 1
      <4>1. \A n \in Seats : n \in Nat /\ n >= 1
        <5>1. Seats \subseteq Nat \ {0}
          BY TeamsAssumption
        <5> QED
          BY <5>1
      <4> QED
        BY <1>1, <2>3, <4>1
    <3>2. seats' = [seats EXCEPT ![t] = r.item]
      BY <1>1, <2>3
    <3> QED
      BY <1>1, <2>1, <2>3, <3>1, <3>2
  <2> QED
    BY <2>2, <2>3
<1>0. UNCHANGED <<invite, token, balance>> /\ TypeOK /\ Rows /\ t \in Teams
  BY <1>1
<1>4. TypeOK'
  BY <1>0, <1>2, <1>3, CommitOf DEF TypeOK
<1>5. Spares(h)
  <2>1. \A s \in Teams, v \in Users : role'[s][v] = "none" <=> role[s][v] = "none"
    BY <1>2
  <2>2. \A i \in Invites : invite[i].team = None => invite[i].accepted = None
    BY CommitOf
  <2> QED
    BY <1>0, <1>2, <1>3, <2>1, <2>2 DEF Spares
<1>6. \A s \in Teams : (Exists(s) => Owned(s))'
  <2>1. ASSUME NEW s \in Teams, Exists(s)' PROVE Owned(s)'
    <3>1. Owned(s)
      <4>1. Exists(s)
        BY <1>2, <2>1 DEF Exists, MembersOf
      <4> QED
        BY <1>0, <4>1 DEF Rows
    <3>2. CASE role'[s] = role[s]
      BY <3>1, <3>2 DEF Owned
    <3>3. CASE role'[s] # role[s]
      <4>1. s = t /\ r.target \in Users /\ \A v \in Users : role'[t][v] = "owner" <=> v = r.target
        BY <1>2, <3>3
      <4> QED
        BY <4>1 DEF Owned
    <3> QED
      BY <3>2, <3>3
  <2> QED
    BY <2>1
<1>7. SeatsRespected'
  <2>1. \A s \in Teams : MembersOf(s)' = MembersOf(s)
    BY <1>2 DEF MembersOf
  <2> QED
    BY <1>0, <1>3, <2>1 DEF Rows, SeatsRespected
<1>8. TokensOfMembers'
  BY <1>0, <1>2 DEF Rows, TokensOfMembers, TypeOK
<1> QED
  BY <1>0, <1>3, <1>4, <1>5, <1>6, <1>7, <1>8 DEF Rows

LEMMA RemoveWrites ==
  ASSUME IInv, NEW h \in Handlers, Commit(h), handler[h].op = "remove"
  PROVE  TypeOK' /\ Spares(h) /\ Rows'
<1>0. PICK t \in Teams, u \in Users : t = handler[h].team /\ u = handler[h].target
  BY CommitOf DEF WellFormed
<1>1. /\ role' = [role EXCEPT ![t][u] = "none"]
      /\ token' = [k \in Tokens |-> IF token[k].team = t /\ token[k].user = u
                                    THEN [token[k] EXCEPT !.revoked = TRUE] ELSE token[k]]
      /\ UNCHANGED <<seats, invite, balance>>
      /\ TypeOK /\ Rows /\ role[t][u] = "member"
  BY <1>0, CommitOf DEF Written, Removed, Revoked, Decided
<1>2. /\ role \in [Teams -> [Users -> {"owner", "member", "none"}]]
      /\ role' \in [Teams -> [Users -> {"owner", "member", "none"}]]
      /\ \A s \in Teams : s # t => role'[s] = role[s]
      /\ \A v \in Users : role'[t][v] = IF v = u THEN "none" ELSE role[t][v]
  BY <1>1 DEF TypeOK
<1>3. \A k \in Tokens :
        /\ token'[k] \in [team : Teams \cup {None}, user : Users \cup {None}, revoked : BOOLEAN]
        /\ token'[k].team = token[k].team /\ token'[k].user = token[k].user
        /\ IF token[k].team = t /\ token[k].user = u THEN token'[k].revoked
           ELSE token'[k].revoked <=> token[k].revoked
  <2>1. ASSUME NEW k \in Tokens
        PROVE  token[k] \in [team : Teams \cup {None}, user : Users \cup {None}, revoked : BOOLEAN]
    BY <1>1 DEF TypeOK
  <2> QED
    BY <1>1, <2>1
<1>4. TypeOK'
  <2>1. token' \in [Tokens -> [team : Teams \cup {None}, user : Users \cup {None},
                               revoked : BOOLEAN]]
    BY <1>1, <1>3
  <2> QED
    BY <1>1, <1>2, <2>1, CommitOf DEF TypeOK
<1>5. Owned(t) /\ Owned(t)'
  <2>1. Owned(t)
    BY <1>1 DEF Rows, Exists, MembersOf
  <2> QED
    BY <1>1, <1>2, <2>1 DEF Owned
<1>6. Spares(h)
  <2>1. \E v \in Users : role'[t][v] # "none"
    BY <1>5 DEF Owned
  <2> QED
    BY <1>0, <1>1, <1>2, <2>1, CommitOf DEF Spares
<1>7. \A s \in Teams : (Exists(s) => Owned(s))'
  BY <1>1, <1>2, <1>5 DEF Rows, Exists, Owned, MembersOf
<1>8. SeatsRespected'
  <2>1. \A s \in Teams : MembersOf(s) \in SUBSET Users /\ MembersOf(s)' \in SUBSET MembersOf(s)
    BY <1>2 DEF MembersOf
  <2>2. \A s \in Teams : Cardinality(MembersOf(s)') <= Cardinality(MembersOf(s))
    BY <2>1, FewerMembers
  <2> QED
    BY <1>1, <2>1, <2>2, FiniteMembers DEF Rows, SeatsRespected, TypeOK
<1>9. TokensOfMembers' /\ \A k \in Tokens : token'[k].team # None => token'[k].user \in Users
  BY <1>1, <1>2, <1>3 DEF Rows, TokensOfMembers, TypeOK
<1> QED
  BY <1>1, <1>4, <1>6, <1>7, <1>8, <1>9 DEF Rows

LEMMA AcceptWrites ==
  ASSUME IInv, NEW h \in Handlers, Commit(h), handler[h].op = "accept"
  PROVE  TypeOK' /\ Spares(h) /\ Rows'
<1>0. PICK t \in Teams, u \in Users, i \in Invites :
        t = handler[h].team /\ u = handler[h].user /\ i = handler[h].item
  BY CommitOf DEF WellFormed
<1>1. /\ role' = [role EXCEPT ![t][u] = "member"]
      /\ invite' = [invite EXCEPT ![i].accepted = u]
      /\ UNCHANGED <<seats, token, balance>>
      /\ TypeOK /\ Rows /\ role[t][u] = "none" /\ ~SeatTaken(t)
  BY <1>0, CommitOf DEF Written, Accepted, Decided, Caller
<1>2. /\ role \in [Teams -> [Users -> {"owner", "member", "none"}]]
      /\ role' \in [Teams -> [Users -> {"owner", "member", "none"}]]
      /\ \A s \in Teams : s # t => role'[s] = role[s]
      /\ \A v \in Users : role'[t][v] = IF v = u THEN "member" ELSE role[t][v]
  BY <1>1 DEF TypeOK
<1>3. Exists(t) /\ invite[i].team = t
  BY <1>0, CommitOf DEF IInv, Claims
<1>4. /\ invite[i] \in [team : Teams \cup {None}, accepted : Users \cup {None}, expired : BOOLEAN]
      /\ invite' = [invite EXCEPT ![i] = [invite[i] EXCEPT !.accepted = u]]
      /\ invite \in [Invites -> [team : Teams \cup {None}, accepted : Users \cup {None},
                                 expired : BOOLEAN]]
  BY <1>1 DEF TypeOK
<1>5. /\ invite' \in [Invites -> [team : Teams \cup {None}, accepted : Users \cup {None},
                                  expired : BOOLEAN]]
      /\ \A j \in Invites : j # i => invite'[j] = invite[j]
      /\ invite'[i].team = t
  BY <1>3, <1>4
<1>6. TypeOK'
  BY <1>1, <1>2, <1>5, CommitOf DEF TypeOK
<1>7. Spares(h)
  <2>1. /\ handler[h].op = "accept" /\ handler[h].team = t /\ handler[h].item = i /\ t # None
        /\ \A j \in Invites : invite[j].team = None => invite[j].accepted = None
    BY <1>0, CommitOf, TeamsAssumption
  <2>2. \A s \in Teams, v \in Users : role[s][v] # "none" => role'[s][v] # "none"
    BY <1>2
  <2>3. \A j \in Invites : /\ invite'[j].team = invite[j].team
                          /\ invite'[j].team = None => invite'[j].accepted = None
    BY <1>3, <1>5, <2>1
  <2> QED
    BY <1>1, <1>2, <1>5, <2>1, <2>2, <2>3 DEF Spares
<1>8. \A s \in Teams : (Exists(s) => Owned(s))'
  BY <1>1, <1>2, <1>3 DEF Rows, Exists, Owned, MembersOf
<1>9. SeatsRespected'
  <2>1. MembersOf(t) \in SUBSET Users /\ MembersOf(t)' \in SUBSET Users
        /\ \A v \in Users : v \in MembersOf(t)' => v \in MembersOf(t) \/ v = u
    BY <1>2 DEF MembersOf
  <2>2. Cardinality(MembersOf(t)') <= Cardinality(MembersOf(t)) + 1
    BY <2>1, OneMember
  <2>3. Cardinality(MembersOf(t)') <= seats'[t]
    <3>1. /\ Cardinality(MembersOf(t)) \in Nat /\ Cardinality(MembersOf(t)') \in Nat
      BY <2>1, FiniteMembers
    <3>2. seats'[t] \in Nat /\ ~(Cardinality(MembersOf(t)) >= seats'[t])
      BY <1>1 DEF SeatTaken, TypeOK
    <3> QED
      BY <2>2, <3>1, <3>2
  <2>4. \A s \in Teams : s # t => MembersOf(s)' = MembersOf(s)
    BY <1>2 DEF MembersOf
  <2> QED
    BY <1>1, <2>3, <2>4 DEF Rows, SeatsRespected
<1>10. TokensOfMembers'
  BY <1>1, <1>2 DEF Rows, TokensOfMembers, TypeOK
<1> QED
  BY <1>1, <1>6, <1>7, <1>8, <1>9, <1>10 DEF Rows

LEMMA AddWrites ==
  ASSUME IInv, NEW h \in Handlers, Commit(h), handler[h].op \in {"invite", "token"}
  PROVE  TypeOK' /\ Spares(h) /\ Rows'
<1>1. PICK t \in Teams, u \in Users : t = handler[h].team /\ u = handler[h].user
  BY CommitOf
<1>2. TypeOK /\ Rows
  BY CommitOf
<1>3. CASE handler[h].op = "invite"
  <2>1. PICK i \in Invites : i = handler[h].item
    BY <1>3, CommitOf DEF WellFormed
  <2>2. /\ invite' = [invite EXCEPT ![i] = [NoInvite EXCEPT !.team = t]]
        /\ UNCHANGED <<role, seats, token, balance>>
    BY <1>1, <1>3, <2>1, CommitOf DEF Written, Invited
  <2>3. /\ [NoInvite EXCEPT !.team = t] \in
             [team : Teams \cup {None}, accepted : Users \cup {None}, expired : BOOLEAN]
        /\ [NoInvite EXCEPT !.team = t].accepted = None
    BY DEF NoInvite
  <2>4. TypeOK'
    BY <1>2, <2>2, <2>3, CommitOf DEF TypeOK
  <2>5. Spares(h)
    BY <1>2, <1>3, <2>1, <2>2, <2>3, CommitOf DEF Spares, TypeOK
  <2> QED
    BY <1>2, <2>2, <2>4, <2>5 DEF Rows, Exists, Owned, MembersOf, SeatsRespected, TokensOfMembers
<1>4. CASE handler[h].op = "token"
  <2>1. PICK k \in Tokens : k = handler[h].item
    BY <1>4, CommitOf DEF WellFormed
  <2>2. /\ token' = [token EXCEPT ![k] = [NoToken EXCEPT !.team = t, !.user = u]]
        /\ UNCHANGED <<role, seats, invite, balance>> /\ role[t][u] # "none"
    BY <1>1, <1>4, <2>1, CommitOf DEF Written, GivenToken, Decided, Caller
  <2> DEFINE new == [NoToken EXCEPT !.team = t, !.user = u]
  <2>3. /\ new \in [team : Teams \cup {None}, user : Users \cup {None}, revoked : BOOLEAN]
        /\ new.team = t /\ new.user = u
    BY DEF NoToken
  <2> HIDE DEF new
  <2>4. token' = [token EXCEPT ![k] = new]
    BY <2>2 DEF new
  <2>5. TypeOK'
    <3>1. token' \in [Tokens -> [team : Teams \cup {None}, user : Users \cup {None},
                                revoked : BOOLEAN]]
      BY <1>2, <2>3, <2>4 DEF TypeOK
    <3> QED
      BY <1>2, <2>2, <3>1, CommitOf DEF TypeOK
  <2>6. Spares(h)
    BY <1>4, <2>2, CommitOf DEF Spares
  <2>7. /\ token'[k].team = t /\ token'[k].user = u
        /\ \A j \in Tokens : j # k => token'[j] = token[j]
    BY <1>2, <2>3, <2>4 DEF TypeOK
  <2>8. TokensOfMembers' /\ \A j \in Tokens : token'[j].team # None => token'[j].user \in Users
    BY <1>2, <2>2, <2>7 DEF Rows, TokensOfMembers
  <2> QED
    BY <1>2, <2>2, <2>5, <2>6, <2>8 DEF Rows, Exists, Owned, MembersOf, SeatsRespected
<1> QED
  BY <1>3, <1>4

LEMMA FundWrites ==
  ASSUME IInv, NEW h \in Handlers, Commit(h), handler[h].op = "fund"
  PROVE  TypeOK' /\ Spares(h) /\ Rows'
<1>1. PICK t \in Teams, u \in Users, c \in Nat :
        t = handler[h].team /\ u = handler[h].user /\ c = handler[h].credits
  BY CommitOf
<1>2. /\ balance' = [balance EXCEPT ![u] = balance[u] - c, ![t] = @ + c]
      /\ UNCHANGED <<role, seats, invite, token>> /\ TypeOK /\ Rows
  BY <1>1, CommitOf DEF Written, Funded, Moved
<1>3. walletLock[u] = h /\ walletLock[t] = h /\ balance[u] - c >= 0
  BY <1>1, CommitOf DEF IInv, Locks, HoldsWallets, Late
<1>4. /\ balance \in [Wallets -> Nat] /\ u \in Wallets /\ t \in Wallets /\ u # t
      /\ balance[u] - c \in Nat /\ balance[t] + c \in Nat
  BY <1>2, <1>3, TeamsAssumption DEF TypeOK, Wallets
<1>5. /\ balance' \in [Wallets -> Nat]
      /\ \A w \in Wallets : w \notin {u, t} => balance'[w] = balance[w]
  BY <1>2, <1>4
<1>6. TypeOK'
  BY <1>2, <1>5, CommitOf DEF TypeOK
<1>7. Spares(h)
  BY <1>2, <1>3, <1>5, CommitOf DEF Spares
<1> QED
  BY <1>2, <1>6, <1>7 DEF Rows, Exists, Owned, MembersOf, SeatsRespected, TokensOfMembers

LEMMA CommitWrites ==
  ASSUME IInv, NEW h \in Handlers, Commit(h)
  PROVE  TypeOK' /\ Spares(h) /\ Rows'
<1>1. handler[h].op \in Kinds
  BY CommitOf
<1> QED
  BY <1>1, CreateWrites, UpdateWrites, RemoveWrites, AcceptWrites, AddWrites, FundWrites DEF Kinds

(* What others have decided on is not among what a commit writes.          *)
LEMMA CommitKeeps ==
  ASSUME IInv, NEW h \in Handlers, Commit(h)
  PROVE  IInv'
<1>1. TypeOK' /\ Spares(h) /\ Rows'
  BY CommitWrites
<1>2. /\ handler' = [handler EXCEPT ![h] = Free] /\ OthersLocks(h)
      /\ handler \in [Handlers -> RequestRecords]
      /\ UNCHANGED <<enabled, session, userLock, spent, scenario>>
      /\ handler[h].team \in Teams /\ handler[h].pc = "commit"
  BY CommitOf, EndUnlocks DEF Commit, IInv, Requests
<1>3. /\ handler'[h] = Free /\ \A g \in Handlers : g # h => handler'[g] = handler[g]
  BY <1>2
<1>4. Requests'
  BY <1>2, <1>3, FreeIsFree DEF IInv, Requests, WellFormed, Free
<1>5. \A g \in Handlers : handler[g].pc # "idle" =>
        /\ handler[g].team \in Teams /\ handler[g].user \in Users
        /\ handler[g].op \in {"invite", "accept"} => handler[g].item \in Invites
  BY DEF IInv, Requests, WellFormed
<1>6. Locks'
  <2>1. ASSUME NEW g \in Handlers, g # h
        PROVE  /\ HoldsTeam(handler[g]) => teamLock'[handler[g].team] = g
               /\ HoldsWallets(handler[g]) =>
                    /\ walletLock'[handler[g].user] = g /\ walletLock'[handler[g].team] = g
                    /\ handler[g].after.user = balance'[handler[g].user] - handler[g].credits
                    /\ handler[g].pc \in Late => handler[g].after.user >= 0
    BY <1>1, <1>2, <1>5, <2>1
    DEF IInv, Locks, HoldsTeam, HoldsWallets, Late, OthersLocks, Spares, Wallets
  <2> QED
    BY <1>3, <2>1, FreeIsFree DEF Locks, HoldsTeam, HoldsWallets
<1>7. ASSUME NEW g \in Handlers, g # h, handler[g].pc \in Late PROVE Decided(handler[g])'
  <2>1. Decided(handler[g]) /\ handler[g].team # handler[h].team /\ handler[g].team \in Teams
    BY <1>2, <1>5, <1>7, OtherTeam DEF IInv, Decisions, Late
  <2>2. UNCHANGED handler[g] /\ role'[handler[g].team] = role[handler[g].team]
        /\ seats'[handler[g].team] = seats[handler[g].team]
    BY <1>1, <1>3, <1>7, <2>1 DEF Spares
  <2>3. handler[g].op = "accept" => invite'[handler[g].item] = invite[handler[g].item]
    <3>1. ASSUME handler[g].op = "accept", handler[h].op \in {"invite", "accept"},
                 handler[h].item = handler[g].item
          PROVE  FALSE
      BY <1>2, <1>7, <2>1, <3>1, TeamsAssumption DEF IInv, Claims, Late
    <3> QED
      BY <1>1, <1>5, <1>7, <3>1 DEF Spares, Late
  <2> QED
    BY <2>1, <2>2, <2>3 DEF Decided, MembersOf, Caller, SeatTaken
<1>8. Decisions'
  BY <1>3, <1>7, FreeIsFree DEF Decisions, Late
<1>9. Claims'
  <2>1. ASSUME NEW g \in Handlers, g # h, handler[g].pc # "idle"
        PROVE  /\ handler[g].op # "create" => \E u \in Users : role'[handler[g].team][u] # "none"
               /\ handler[g].op = "create" =>
                    /\ \A u \in Users : role'[handler[g].team][u] = "none"
                    /\ \A k \in Handlers : handler'[k].team = handler[g].team => k = g
    <3>1. handler[g].team \in Teams
      BY <1>5, <2>1
    <3>2. CASE handler[g].op # "create"
      BY <1>1, <2>1, <3>1, <3>2 DEF IInv, Claims, Exists, MembersOf, Spares
    <3>3. CASE handler[g].op = "create"
      <4>1. /\ \A u \in Users : role[handler[g].team][u] = "none"
            /\ \A k \in Handlers : handler[k].team = handler[g].team => k = g
        BY <2>1, <3>3 DEF IInv, Claims, Exists, MembersOf
      <4>2. handler[g].team # handler[h].team /\ handler[g].team # Free.team
        BY <2>1, <3>1, <4>1, TeamsAssumption DEF Free
      <4> QED
        BY <1>1, <1>3, <3>1, <3>3, <4>1, <4>2 DEF Spares
    <3> QED
      BY <3>2, <3>3
  <2>2. ASSUME NEW g \in Handlers, g # h, handler[g].pc # "idle"
        PROVE  /\ handler[g].op = "accept" => invite'[handler[g].item].team = handler[g].team
               /\ handler[g].op = "invite" =>
                    /\ invite'[handler[g].item].team = None
                    /\ \A k \in Handlers :
                         handler'[k].pc # "idle" /\ handler'[k].op = "invite"
                           /\ handler'[k].item = handler[g].item => k = g
    <3>1. CASE handler[g].op = "accept"
      <4>1. invite[handler[g].item].team = handler[g].team /\ handler[g].team # None
        BY <1>5, <2>2, <3>1, TeamsAssumption DEF IInv, Claims
      <4>2. handler[h].op = "invite" => handler[h].item # handler[g].item
        BY <1>2, <4>1 DEF IInv, Claims
      <4> QED
        BY <1>1, <1>5, <2>2, <3>1, <4>1, <4>2 DEF Spares
    <3>2. CASE handler[g].op = "invite"
      <4>1. /\ invite[handler[g].item].team = None
            /\ \A k \in Handlers : handler[k].pc # "idle" /\ handler[k].op = "invite"
                 /\ handler[k].item = handler[g].item => k = g
        BY <2>2, <3>2 DEF IInv, Claims
      <4>2. handler[h].op = "invite" => handler[h].item # handler[g].item
        BY <1>2, <2>2, <4>1
      <4>3. invite'[handler[g].item].team = None
        BY <1>1, <1>5, <2>2, <3>2, <4>1, <4>2 DEF Spares
      <4> QED
        BY <1>3, <3>2, <4>1, <4>3, FreeIsFree
    <3> QED
      BY <3>1, <3>2
  <2>3. \A g \in Handlers : Exists(handler[g].team)' <=>
          \E u \in Users : role'[handler'[g].team][u] # "none"
    BY DEF Exists, MembersOf
  <2> QED
    BY <1>1, <1>3, <2>1, <2>2, <2>3, FreeIsFree DEF Claims, Spares
<1>10. Enabled'
  BY <1>2, <1>3, FreeIsFree DEF IInv, Enabled, Inserts
<1> QED
  BY <1>1, <1>4, <1>6, <1>8, <1>9, <1>10 DEF IInv

-----------------------------------------------------------------------------
\* The theorems

LEMMA InitInv == Init => IInv
<1> SUFFICES ASSUME Init PROVE IInv
  OBVIOUS
<1>1. /\ scenario \in Scenarios /\ scenario.opening \in Nat
      /\ \A t \in Teams : /\ scenario.members[t] \in SUBSET Users
                          /\ Cardinality(scenario.members[t]) < DefaultSeats
                          /\ scenario.members[t] # {} =>
                               /\ t \in DOMAIN scenario.founder
                               /\ scenario.founder[t] \notin scenario.members[t]
                          /\ t \in DOMAIN scenario.founder => scenario.founder[t] \in Users
  BY TeamsAssumption DEF Init, Scenario
<1>2. DefaultSeats \in Nat /\ DefaultSeats >= 1
  <2>1. DefaultSeats \in Nat \ {0}
    BY TeamsAssumption
  <2> QED
    BY <2>1
<1>3. TypeOK
  BY <1>1, <1>2 DEF Init, TypeOK, NoInvite, NoToken
<1>4. ASSUME NEW t \in Teams, Exists(t)
      PROVE  /\ Owned(t) /\ Cardinality(MembersOf(t)) <= DefaultSeats
  <2>1. PICK m \in SUBSET Users : m = scenario.members[t] /\ Cardinality(m) < DefaultSeats
    BY <1>1
  <2>2. t \in DOMAIN scenario.founder
    BY <1>1, <1>4 DEF Init, Exists, MembersOf
  <2>3. PICK f \in Users : f = scenario.founder[t] /\ f \notin m
    BY <1>1, <2>1, <2>2
  <2>4. \A u \in Users : role[t][u] = IF u = f THEN "owner" ELSE IF u \in m THEN "member" ELSE "none"
    BY <2>1, <2>2, <2>3 DEF Init
  <2>5. Owned(t)
    BY <2>4 DEF Owned
  <2>6. MembersOf(t) \in SUBSET Users /\ \A u \in Users : u \in MembersOf(t) => u \in m \/ u = f
    BY <2>4 DEF MembersOf
  <2>7. Cardinality(MembersOf(t)) <= Cardinality(m) + 1
    BY <2>6, OneMember
  <2> QED
    BY <1>2, <2>1, <2>5, <2>6, <2>7, FiniteMembers
<1>5. SeatsRespected
  <2>1. ASSUME NEW t \in Teams, ~Exists(t) PROVE Cardinality(MembersOf(t)) = 0
    BY <2>1, FS_EmptySet DEF Exists
  <2> QED
    BY <1>2, <1>4, <2>1 DEF SeatsRespected, Init
<1>6. Rows
  BY <1>2, <1>4, <1>5 DEF Rows, Init, TokensOfMembers, NoToken
<1>7. Requests
  BY <1>1, FreeIsFree DEF Requests, Init
<1> QED
  BY <1>3, <1>6, <1>7, FreeIsFree
  DEF IInv, Locks, Decisions, Claims, Enabled, Init, Late, NoInvite

LEMMA InvStep == IInv /\ [Next]_vars => IInv'
<1>1. ASSUME IInv, UNCHANGED vars PROVE IInv'
  <2>1. TypeOK' /\ Enabled'
    BY <1>1 DEF vars, IInv, TypeOK, Enabled, Inserts
  <2> QED
    BY <1>1, <2>1, OutsideKeeps DEF vars
<1>2. ASSUME IInv, Next PROVE IInv'
  <2>1. scenario.users \subseteq Users /\ scenario.teams \subseteq Teams
    BY <1>2, TeamsAssumption DEF IInv, Requests, Scenario
  <2>2. ASSUME NEW h \in Handlers, Abort(h) PROVE IInv'
    BY <1>2, <2>2, EndKeeps DEF Abort, account
  <2> QED
    BY <1>2, <2>1, <2>2, RequestKeeps, LockTeamKeeps, CheckKeeps, LockWalletKeeps,
       CheckBalanceKeeps, InsertConfirmKeeps, CommitKeeps, RowsExpire, DebitKeeps, AccountKeeps
    DEF Next, HandlerStep, Wallets
<1> QED
  BY <1>1, <1>2

LEMMA InvAlways == Spec => []IInv
  BY InitInv, InvStep, PTL DEF Spec

(* For every number of users, teams, seats and requests at once a team has *)
(* one owner, no more members than seats, and no token that works for      *)
(* somebody who is not a member (updateTeam, removeMember, acceptInvite,   *)
(* createToken): what a handler has decided on holds until it commits.     *)
THEOREM MembershipSound == Spec => []Membership
<1>1. ASSUME IInv PROVE Membership
  <2>1. TypeOK /\ SeatsRespected /\ TokensOfMembers /\ \A t \in Teams : Exists(t) => Owned(t)
    BY <1>1 DEF IInv, Rows
  <2>2. ASSUME NEW t \in Teams, Exists(t)
        PROVE  Cardinality({u \in Users : role[t][u] = "owner"}) = 1
    <3>1. PICK u \in Users : \A v \in Users : role[t][v] = "owner" <=> v = u
      BY <2>1, <2>2 DEF Owned
    <3>2. {v \in Users : role[t][v] = "owner"} = {u}
      BY <3>1
    <3> QED
      BY <3>2, FS_Singleton
  <2> QED
    BY <2>1, <2>2 DEF Membership, OneOwner
<1> QED
  BY <1>1, InvAlways, PTL

(* What a step may do to memberships, invites, tokens and transfers.       *)
ByInvite ==
  /\ \A t \in Teams, u \in Users :
       role[t][u] = "none" /\ role'[t][u] = "member" =>
         \E i \in Invites : /\ invite[i].team = t /\ invite[i].accepted = None
                            /\ invite'[i].accepted = u
  /\ \A i \in Invites : invite[i].accepted # None => invite'[i].accepted = invite[i].accepted
WhileEnabled ==
  /\ \A t \in Teams, u \in Users :
       role[t][u] = "none" /\ role'[t][u] # "none" => enabled[u]
  /\ \A k \in Tokens : token[k].team = None /\ token'[k].team # None =>
       enabled[token'[k].user]
  /\ \A p \in transfers' \ transfers : enabled[p.user]

LEMMA QuietJoins ==
  ASSUME IInv, [Next]_vars, \A h \in Handlers : ~Commit(h)
  PROVE  ByInvite /\ WhileEnabled
<1> DEFINE Same == /\ UNCHANGED <<role, transfers>>
                   /\ \A i \in Invites : invite'[i].accepted = invite[i].accepted
                   /\ \A k \in Tokens : token'[k].team = token[k].team
<1>1. TypeOK
  BY DEF IInv
<1>2. Same => ByInvite /\ WhileEnabled
  BY DEF ByInvite, WhileEnabled
<1>3. UNCHANGED rows => Same
  BY DEF rows
<1>4. ASSUME NEW i \in Invites, ExpireInvite(i) PROVE Same
  BY <1>1, <1>4 DEF ExpireInvite, TypeOK
<1>5. ASSUME NEW k \in Tokens, RevokeToken(k) PROVE Same
  BY <1>1, <1>5 DEF RevokeToken, TypeOK
<1>6. ASSUME NEW w, Debit(w) PROVE Same
  BY <1>6 DEF Debit
<1>7. ASSUME NEW h \in Handlers, Request(h) PROVE UNCHANGED rows
  <2>1. \A op, u, t, target, item, credits :
          Wants(h, op, u, t, target, item, credits) => UNCHANGED rows
    BY DEF Wants
  <2> QED
    BY <1>7, <2>1 DEF Request
<1>8. ASSUME NEW h \in Handlers, HandlerStep(h) \/ Abort(h) PROVE UNCHANGED rows
  BY <1>8 DEF HandlerStep, Abort, LockTeam, Check, LockWallet, CheckBalance, Insert, Confirm,
     Rollback
<1>9. ASSUME NEW u, LockUser(u) \/ SetUserEnabled(u) \/ SignOut(u) PROVE UNCHANGED rows
  BY <1>9 DEF LockUser, SetUserEnabled, SignOut
<1>10. UNCHANGED vars => UNCHANGED rows
  BY DEF vars, rows
<1> HIDE DEF Same
<1> QED
  BY <1>2, <1>3, <1>4, <1>5, <1>6, <1>7, <1>8, <1>9, <1>10 DEF Next

LEMMA CommitJoins ==
  ASSUME IInv, NEW h \in Handlers, Commit(h)
  PROVE  ByInvite /\ WhileEnabled
<1>0. PICK t \in Teams, u \in Users : t = handler[h].team /\ u = handler[h].user
  BY CommitOf
<1>1. Inserts(handler[h].op) => enabled[u]
  BY <1>0, CommitOf DEF IInv, Enabled
<1>2. /\ TypeOK /\ role \in [Teams -> [Users -> {"owner", "member", "none"}]]
      /\ handler[h].op \in Kinds
  BY CommitOf DEF TypeOK
<1>3. CASE handler[h].op = "create"
  <2>1. role' = [role EXCEPT ![t][u] = "owner"] /\ UNCHANGED <<invite, token, transfers>>
    BY <1>0, <1>3, CommitOf DEF Written, Created
  <2> QED
    BY <1>1, <1>2, <1>3, <2>1 DEF ByInvite, WhileEnabled, Inserts
<1>4. CASE handler[h].op \in {"update", "remove"}
  <2>1. /\ \A s \in Teams, v \in Users : role[s][v] = "none" => role'[s][v] = "none"
        /\ UNCHANGED <<invite, transfers>>
        /\ \A k \in Tokens : token'[k].team = token[k].team
    <3>1. CASE handler[h].op = "update"
      <4>1. /\ UNCHANGED <<invite, token, transfers>>
            /\ \/ role' = role
               \/ role' = [role EXCEPT ![t] = [v \in Users |->
                    IF role[t][v] = "none" THEN "none"
                    ELSE IF v = handler[h].target THEN "owner" ELSE "member"]]
        BY <1>0, <3>1, CommitOf DEF Written, Updated
      <4> QED
        BY <1>2, <4>1
    <3>2. CASE handler[h].op = "remove"
      <4>1. PICK v \in Users : v = handler[h].target
        BY <3>2, CommitOf DEF WellFormed
      <4>2. /\ UNCHANGED <<invite, transfers>>
            /\ role' = [role EXCEPT ![t][v] = "none"]
            /\ token' = [k \in Tokens |-> IF token[k].team = t /\ token[k].user = v
                                         THEN [token[k] EXCEPT !.revoked = TRUE] ELSE token[k]]
        BY <1>0, <3>2, <4>1, CommitOf DEF Written, Removed, Revoked
      <4>3. \A s \in Teams, x \in Users : role[s][x] = "none" => role'[s][x] = "none"
        BY <1>2, <4>2
      <4>4. ASSUME NEW k \in Tokens PROVE token'[k].team = token[k].team
        <5>1. token[k] \in [team : Teams \cup {None}, user : Users \cup {None},
                            revoked : BOOLEAN]
          BY <1>2 DEF TypeOK
        <5> QED
          BY <4>2, <5>1
      <4> QED
        BY <4>2, <4>3, <4>4
    <3> QED
      BY <1>4, <3>1, <3>2
  <2> QED
    BY <2>1 DEF ByInvite, WhileEnabled
<1>5. CASE handler[h].op = "accept"
  <2>1. PICK i \in Invites : i = handler[h].item
    BY <1>5, CommitOf DEF WellFormed
  <2>2. /\ role' = [role EXCEPT ![t][u] = "member"] /\ UNCHANGED <<token, transfers>>
        /\ invite' = [invite EXCEPT ![i].accepted = u] /\ invite[i].accepted = None
    BY <1>0, <1>5, <2>1, CommitOf DEF Written, Accepted, Decided
  <2>3. invite[i].team = t
    BY <1>0, <1>5, <2>1, CommitOf DEF IInv, Claims
  <2>4. /\ invite'[i].accepted = u
        /\ \A j \in Invites : j # i => invite'[j] = invite[j]
    BY <1>2, <2>2 DEF TypeOK
  <2> QED
    BY <1>1, <1>2, <1>5, <2>2, <2>3, <2>4 DEF ByInvite, WhileEnabled, Inserts
<1>6. CASE handler[h].op = "invite"
  <2>1. PICK i \in Invites : i = handler[h].item
    BY <1>6, CommitOf DEF WellFormed
  <2>2. /\ UNCHANGED <<role, token, transfers>>
        /\ \A j \in Invites : j # i => invite'[j] = invite[j]
    BY <1>2, <1>6, <2>1, CommitOf DEF Written, Invited, TypeOK
  <2>3. invite[i].accepted = None
    BY <1>6, <2>1, CommitOf DEF IInv, Claims
  <2> QED
    BY <2>2, <2>3 DEF ByInvite, WhileEnabled
<1>7. CASE handler[h].op = "token"
  <2>1. PICK k \in Tokens : k = handler[h].item
    BY <1>7, CommitOf DEF WellFormed
  <2>2. /\ UNCHANGED <<role, invite, transfers>>
        /\ token' = [token EXCEPT ![k] = [NoToken EXCEPT !.team = t, !.user = u]]
    BY <1>0, <1>7, <2>1, CommitOf DEF Written, GivenToken
  <2>3. token'[k].user = u /\ \A j \in Tokens : j # k => token'[j] = token[j]
    BY <1>2, <2>2 DEF TypeOK, NoToken
  <2> QED
    BY <1>1, <1>7, <2>2, <2>3 DEF ByInvite, WhileEnabled, Inserts
<1>8. CASE handler[h].op = "fund"
  <2>1. /\ UNCHANGED <<role, invite, token>>
        /\ \A p \in transfers' \ transfers : p.user = u
    BY <1>0, <1>8, CommitOf DEF Written, Funded
  <2> QED
    BY <1>1, <1>8, <2>1 DEF ByInvite, WhileEnabled, Inserts
<1> QED
  BY <1>2, <1>3, <1>4, <1>5, <1>6, <1>7, <1>8 DEF Kinds

(* Nobody joins but by an invite that nobody had used, which keeps its     *)
(* user, and whoever joins, gets a token or moves credits is enabled when  *)
(* that commits: an insert for a user waits for setUserEnabled, which in   *)
(* turn waits for it.                                                      *)
THEOREM JoinsSound == Spec => JoinsAsAllowed
<1>1. IInv /\ [Next]_vars => [ByInvite /\ WhileEnabled]_vars
  BY QuietJoins, CommitJoins
<1>2. Spec => [][ByInvite /\ WhileEnabled]_vars
  BY <1>1, InvAlways, PTL DEF Spec
<1>3. JoinsAsAllowed <=> [][ByInvite]_vars /\ [][WhileEnabled]_vars
  BY DEF JoinsAsAllowed, JoinsByInvite, EnabledAtCommit, ByInvite, WhileEnabled
<1> QED
  BY <1>2, <1>3, PTL

-----------------------------------------------------------------------------
\* Transfers

TransferRecords == [team : Teams, user : Users, key : Items, credits : Nat,
                    after : [user : Int, team : Int]]
(* A locked row is a request's that refers to it and is under way.         *)
HasTeam(g, t) ==
  handler[g].team = t /\ handler[g].op # "create" /\ handler[g].pc \notin {"idle", "lock"}
HasWallet(g, w) ==
  /\ handler[g].op = "fund" /\ handler[g].pc \in {"wallets", "balance"} \cup Late
  /\ w \in {handler[g].user, handler[g].team}
  /\ handler[g].pc = "wallets" => w = FirstWallet(handler[g])
Held ==
  /\ \A t \in Teams, g \in Handlers : teamLock[t] = g => HasTeam(g, t)
  /\ \A w \in Wallets, g \in Handlers : walletLock[w] = g => HasWallet(g, w)
(* A key that a request has found unused stays so until it commits.        *)
Funds(r) == r.op = "fund" /\ r.pc \in {"wallets", "balance"} \cup Late
Unused == \A h \in Handlers : Funds(handler[h]) => Prior(handler[h]) = {}
OfTeam(moves, t) == {p \in moves : p.team = t}
OfUser(moves, u) == {p \in moves : p.user = u}
OneForKey ==
  \A p, q \in transfers : p.team = q.team /\ p.user = q.user /\ p.key = q.key => p = q
Explained ==
  /\ OneForKey
  /\ transfers \subseteq TransferRecords /\ IsFiniteSet(Coins(transfers))
  /\ \A t \in Teams : balance[t] + spent[t] = Sent(OfTeam(transfers, t))
  /\ \A u \in Users : balance[u] + spent[u] + Sent(OfUser(transfers, u)) = scenario.opening
TInv == Held /\ Unused /\ Explained

LEMMA CoinsOfSome ==
  ASSUME NEW M, IsFiniteSet(Coins(M)), NEW N \in SUBSET M
  PROVE  IsFiniteSet(Coins(N)) /\ Sent(N) \in Nat
<1>1. Coins(N) \subseteq Coins(M)
  BY DEF Coins
<1> QED
  BY <1>1, FS_Subset, FS_CardinalityType DEF Sent

LEMMA SentMore ==
  ASSUME NEW M, IsFiniteSet(Coins(M)), NEW q, q \notin M, q.credits \in Nat
  PROVE  /\ IsFiniteSet(Coins(M \cup {q}))
         /\ Sent(M \cup {q}) = Sent(M) + q.credits /\ Sent(M) \in Nat
<1> DEFINE new == {q} \X (1..q.credits)
<1>1. IsFiniteSet(1..q.credits) /\ Cardinality(1..q.credits) = q.credits
  <2>1. PICK n \in Int : n = q.credits /\ n >= 0
    OBVIOUS
  <2>2. 1 \in Int
    OBVIOUS
  <2>3. /\ IsFiniteSet(1..n)
        /\ Cardinality(1..n) = IF 1 > n THEN 0 ELSE n - 1 + 1
    BY <2>2, FS_Interval
  <2>4. (IF 1 > n THEN 0 ELSE n - 1 + 1) = n
    BY <2>1
  <2> QED
    BY <2>1, <2>3, <2>4
<1>2. IsFiniteSet({q}) /\ Cardinality({q}) = 1
  BY FS_Singleton
<1>3. IsFiniteSet(new) /\ Cardinality(new) = q.credits
  <2>1. /\ IsFiniteSet({q} \X (1..q.credits))
        /\ Cardinality({q} \X (1..q.credits)) = Cardinality({q}) * Cardinality(1..q.credits)
    BY <1>1, <1>2, FS_Product
  <2>2. Cardinality({q}) * Cardinality(1..q.credits) = 1 * q.credits
    BY <1>1, <1>2
  <2>3. 1 * q.credits = q.credits
    OBVIOUS
  <2> QED
    BY <2>1, <2>2, <2>3
<1>4. Coins(M \cup {q}) = Coins(M) \cup new
  BY DEF Coins
<1>5. Coins(M) \cap new = {}
  <2> SUFFICES ASSUME NEW c \in Coins(M), c \in new PROVE FALSE
    OBVIOUS
  <2>1. PICK p \in M : c \in {p} \X (1..p.credits)
    BY DEF Coins
  <2>2. c[1] = p /\ c[1] = q
    BY <2>1
  <2> QED
    BY <2>1, <2>2
<1> HIDE DEF new
<1>6. /\ IsFiniteSet(Coins(M) \cup new)
      /\ Cardinality(Coins(M) \cup new)
           = Cardinality(Coins(M)) + Cardinality(new) - Cardinality(Coins(M) \cap new)
  BY <1>3, FS_Union
<1>7. Cardinality(Coins(M)) \in Nat /\ Cardinality({}) = 0
  BY FS_CardinalityType, FS_EmptySet
<1> QED
  BY <1>3, <1>4, <1>5, <1>6, <1>7 DEF Sent

(* Of requests that wait, one that waits for a wallet waits for a user's:  *)
(* it has the team to itself.  Who has that wallet has it as its first and *)
(* wants the wallet of its own team.                                       *)
LEMMA NobodyWaitsForever ==
  ASSUME IInv, Held
  PROVE  NoDeadlock
<1>1. ASSUME NEW h \in Handlers, NEW g \in Handlers, WaitsFor(h, g)
      PROVE  \/ handler[h].pc = "lock" /\ handler[h].team \in Teams /\ HasTeam(g, handler[h].team)
             \/ /\ handler[h].pc = "wallets" /\ NextWallet(h) \in Wallets
                /\ walletLock[NextWallet(h)] = g /\ HasWallet(g, NextWallet(h))
  <2>1. CASE handler[h].pc = "lock" /\ teamLock[handler[h].team] = g
    BY <2>1, RequestFields DEF Held
  <2>2. CASE handler[h].pc = "wallets" /\ walletLock[NextWallet(h)] = g
    <3>1. NextWallet(h) \in Wallets
      BY <2>2, RequestFields DEF NextWallet, FirstWallet, SecondWallet, Wallets
    <3> QED
      BY <2>2, <3>1 DEF Held
  <2> QED
    BY <1>1, <2>1, <2>2 DEF WaitsFor
<1>2. ASSUME NEW h \in Handlers, handler[h].pc = "wallets"
      PROVE  /\ handler[h].user \in Users /\ handler[h].team \in Teams
             /\ handler[h].user # handler[h].team /\ teamLock[handler[h].team] = h
             /\ NextWallet(h) \in {handler[h].user, handler[h].team}
  <2>1. handler[h].user \in Users /\ handler[h].team \in Teams /\ handler[h].op = "fund"
    BY <1>2, RequestFields DEF WellFormed
  <2>2. teamLock[handler[h].team] = h
    BY <1>2, <2>1 DEF IInv, Locks, HoldsTeam
  <2> QED
    BY <2>1, <2>2, TeamsAssumption DEF NextWallet, FirstWallet, SecondWallet
<1>3. ASSUME NEW waiting \in SUBSET Handlers, waiting # {},
             \A h \in waiting : \E g \in waiting : WaitsFor(h, g)
      PROVE  FALSE
  <2>1. PICK h \in waiting : handler[h].pc = "wallets"
    <3>1. PICK f \in waiting, g \in waiting : WaitsFor(f, g)
      BY <1>3
    <3>2. handler[f].pc = "wallets" \/ handler[g].pc \notin {"idle", "lock"}
      BY <1>1, <3>1 DEF HasTeam
    <3>3. PICK e \in waiting : WaitsFor(g, e)
      BY <1>3
    <3>4. handler[g].pc \in {"lock", "wallets"}
      BY <1>1, <3>3
    <3> QED
      BY <3>2, <3>4
  <2>2. PICK g \in waiting : WaitsFor(h, g)
    BY <1>3
  <2>3. walletLock[NextWallet(h)] = g /\ HasWallet(g, NextWallet(h))
    BY <1>1, <2>1, <2>2
  <2>4. PICK e \in waiting : WaitsFor(g, e)
    BY <1>3
  <2>5. /\ handler[g].pc = "wallets" /\ NextWallet(h) = FirstWallet(handler[g])
        /\ walletLock[NextWallet(g)] = e /\ HasWallet(e, NextWallet(g))
    BY <1>1, <2>3, <2>4 DEF HasWallet, Late
  <2>6. NextWallet(g) = SecondWallet(handler[g])
    BY <2>3, <2>5 DEF NextWallet
  <2>7. NextWallet(h) # handler[h].team
    <3>1. SUFFICES ASSUME NextWallet(h) = handler[h].team PROVE FALSE
      OBVIOUS
    <3>2. handler[g].team = handler[h].team
      BY <1>2, <2>1, <2>3, <2>5, <3>1, TeamsAssumption DEF HasWallet
    <3>3. g = h
      BY <1>2, <2>1, <2>5, <3>2
    <3> QED
      BY <1>2, <2>1, <2>5, <2>6, <3>3 DEF SecondWallet
  <2>8. NextWallet(h) \in Users /\ NextWallet(h) = handler[g].user
    BY <1>2, <2>1, <2>3, <2>5, <2>7, TeamsAssumption DEF HasWallet
  <2>9. NextWallet(g) = handler[g].team
    BY <2>5, <2>6, <2>8 DEF SecondWallet
  <2>10. HasWallet(e, handler[g].team) /\ e \in Handlers
    BY <2>5, <2>9
  <2>11. handler[e].pc # "idle" /\ handler[e].op = "fund" /\ handler[e].pc # "lock"
    BY <2>10 DEF HasWallet, Late
  <2>12. handler[e].user \in Users /\ handler[e].team \in Teams
    BY <2>10, <2>11, RequestFields
  <2>13. handler[e].team = handler[g].team
    BY <1>2, <2>5, <2>10, <2>12, TeamsAssumption DEF HasWallet
  <2>14. teamLock[handler[e].team] = e
    BY <2>10, <2>11 DEF IInv, Locks, HoldsTeam
  <2>15. e = g
    BY <1>2, <2>5, <2>13, <2>14
  <2>16. handler[g].user # handler[g].team
    BY <1>2, <2>5
  <2>17. handler[g].team = FirstWallet(handler[g])
    BY <2>5, <2>10, <2>15 DEF HasWallet
  <2> QED
    BY <2>5, <2>8, <2>16, <2>17
<1>4. \A h, g \in Handlers : WaitsFor(h, g) => handler[g].pc # "idle"
  BY <1>1 DEF HasTeam, HasWallet, Late
<1> QED
  BY <1>3, <1>4 DEF NoDeadlock

(* What a step of one request has to establish, if it moves no credits.    *)
LEMMA StepKeeps ==
  ASSUME TInv, NEW h \in Handlers,
         \A g \in Handlers : g # h => handler'[g] = handler[g],
         UNCHANGED <<transfers, balance, spent, scenario>>,
         \A t \in Teams, g \in Handlers : teamLock'[t] = g =>
           \/ g # h /\ teamLock[t] = g
           \/ g = h /\ HasTeam(h, t)',
         \A w \in Wallets, g \in Handlers : walletLock'[w] = g =>
           \/ g # h /\ walletLock[w] = g
           \/ g = h /\ HasWallet(h, w)',
         Funds(handler'[h]) => Prior(handler'[h]) = {}
  PROVE  TInv'
<1>1. Held'
  BY DEF TInv, Held, HasTeam, HasWallet, FirstWallet
<1>2. Unused'
  BY DEF TInv, Unused, Funds, Prior
<1>3. Explained'
  BY DEF TInv, Explained, OneForKey
<1> QED
  BY <1>1, <1>2, <1>3 DEF TInv

LEMMA EndHolds ==
  ASSUME IInv, TInv, NEW h \in Handlers, Rollback(h), UNCHANGED <<spent, scenario>>
  PROVE  TInv'
<1>1. /\ handler' = [handler EXCEPT ![h] = Free] /\ handler \in [Handlers -> RequestRecords]
      /\ teamLock' = Unlocked(teamLock, h) /\ walletLock' = Unlocked(walletLock, h)
      /\ UNCHANGED <<transfers, balance>> /\ TypeOK
  BY DEF Rollback, End, rows, IInv, Requests
<1>2. /\ handler'[h] = Free /\ \A g \in Handlers : g # h => handler'[g] = handler[g]
  BY <1>1
<1>3. \A t \in Teams, g \in Handlers : teamLock'[t] = g => g # h /\ teamLock[t] = g
  BY <1>1, TeamsAssumption DEF TypeOK, Unlocked
<1>4. \A w \in Wallets, g \in Handlers : walletLock'[w] = g => g # h /\ walletLock[w] = g
  BY <1>1, TeamsAssumption DEF TypeOK, Unlocked
<1>5. ~Funds(Free)
  BY DEF Funds, Free, Late
<1> QED
  BY <1>1, <1>2, <1>3, <1>4, <1>5, StepKeeps

LEMMA GotoHolds ==
  ASSUME IInv, TInv, NEW h \in Handlers, NEW to \in {"wallets"} \cup Late, Goto(h, to),
         handler[h].pc \notin {"idle", "wallets"}, to = "wallets" => handler[h].pc = "check",
         UNCHANGED <<transfers, balance, spent, scenario, teamLock, walletLock>>,
         handler[h].op = "fund" /\ handler[h].pc = "check" => Prior(handler[h]) = {},
         handler[h].op = "fund" => handler[h].pc # "lock"
  PROVE  TInv'
<1>1. handler \in [Handlers -> RequestRecords] /\ handler[h] \in RequestRecords
      /\ WellFormed(handler[h])
  BY DEF IInv, Requests
<1>2. handler' = [handler EXCEPT ![h] = [handler[h] EXCEPT !.pc = to]]
  BY DEF Goto
<1>3. /\ handler'[h].pc = to /\ handler'[h].op = handler[h].op
      /\ handler'[h].team = handler[h].team /\ handler'[h].user = handler[h].user
      /\ handler'[h].item = handler[h].item
      /\ \A g \in Handlers : g # h => handler'[g] = handler[g]
  BY <1>1, <1>2 DEF RequestRecords
<1>4. Funds(handler'[h]) => Prior(handler'[h]) = {}
  <2>1. SUFFICES ASSUME handler[h].op = "fund" PROVE Prior(handler[h]) = {}
    BY <1>3 DEF Funds, Prior
  <2>2. Funds(handler[h]) \/ handler[h].pc = "check"
    BY <1>1, <2>1 DEF Funds, RequestRecords, Phases, Late
  <2> QED
    BY <2>1, <2>2 DEF TInv, Unused
<1>5. ASSUME NEW t \in Teams, teamLock[t] = h PROVE HasTeam(h, t)'
  BY <1>3, <1>5 DEF TInv, Held, HasTeam, Late
<1>6. ASSUME NEW w \in Wallets, walletLock[w] = h PROVE HasWallet(h, w)'
  BY <1>3, <1>6 DEF TInv, Held, HasWallet, Late
<1> QED
  BY <1>3, <1>4, <1>5, <1>6, StepKeeps

LEMMA RequestHolds ==
  ASSUME IInv, TInv, NEW h \in Handlers, Request(h)
  PROVE  TInv'
<1>1. PICK op, u, t, target, item, credits : Wants(h, op, u, t, target, item, credits)
  <2>1. PICK u \in scenario.users, t \in scenario.teams :
          \/ Wants(h, "create", u, t, None, None, 0)
          \/ \E v, n : Wants(h, "update", u, t, v, n, 0)
          \/ \E v : Wants(h, "remove", u, t, v, None, 0)
          \/ \E i : Wants(h, "invite", u, t, None, i, 0) \/ Wants(h, "accept", u, t, None, i, 0)
          \/ \E k : Wants(h, "token", u, t, None, k, 0)
          \/ \E k, c : Wants(h, "fund", u, t, None, k, c)
    BY Zenon DEF Request
  <2> QED
    BY <2>1
<1> DEFINE r == [Free EXCEPT !.pc = IF op = "create" THEN "insert" ELSE "lock",
                   !.op = op, !.user = u, !.team = t, !.target = target,
                   !.item = item, !.credits = credits]
<1>2. /\ handler[h].pc = "idle" /\ handler' = [handler EXCEPT ![h] = r]
      /\ handler \in [Handlers -> RequestRecords]
      /\ UNCHANGED <<transfers, balance, spent, scenario, teamLock, walletLock>>
  BY <1>1 DEF Wants, rows, account, IInv, Requests
<1>3. ~Funds(r)
  <2>1. r.op = op /\ r.pc = IF op = "create" THEN "insert" ELSE "lock"
    BY DEF Free
  <2> QED
    BY <2>1 DEF Funds, Late
<1> HIDE DEF r
<1>4. handler'[h] = r /\ \A g \in Handlers : g # h => handler'[g] = handler[g]
  BY <1>2
<1>5. /\ \A w \in Teams : teamLock[w] # h
      /\ \A w \in Wallets : walletLock[w] # h
  BY <1>2 DEF TInv, Held, HasTeam, HasWallet, Late
<1> QED
  BY <1>2, <1>3, <1>4, <1>5, StepKeeps

LEMMA LockTeamHolds ==
  ASSUME IInv, TInv, NEW h \in Handlers, LockTeam(h)
  PROVE  TInv'
<1>1. /\ handler[h].pc = "lock" /\ handler[h].team \in Teams /\ handler[h].op # "create"
      /\ handler \in [Handlers -> RequestRecords] /\ handler[h] \in RequestRecords
  BY RequestFields DEF LockTeam, WellFormed, Late, IInv, Requests
<1>2. /\ handler' = [handler EXCEPT ![h] = [handler[h] EXCEPT !.pc = "check"]]
      /\ teamLock' = [teamLock EXCEPT ![handler[h].team] = h]
      /\ teamLock \in [Teams -> Handlers \cup {None}]
      /\ UNCHANGED <<transfers, balance, spent, scenario, walletLock>>
  BY DEF LockTeam, Goto, rows, account, IInv, TypeOK
<1>3. /\ handler'[h].pc = "check" /\ handler'[h].op = handler[h].op
      /\ handler'[h].team = handler[h].team
      /\ \A g \in Handlers : g # h => handler'[g] = handler[g]
  BY <1>1, <1>2 DEF RequestRecords
<1>4. ASSUME NEW t \in Teams, NEW g \in Handlers, teamLock'[t] = g
      PROVE  (g # h /\ teamLock[t] = g) \/ (g = h /\ HasTeam(h, t)')
  <2>1. CASE t = handler[h].team
    BY <1>1, <1>2, <1>3, <1>4, <2>1 DEF HasTeam
  <2>2. CASE t # handler[h].team
    BY <1>1, <1>2, <1>4, <2>2 DEF TInv, Held, HasTeam
  <2> QED
    BY <2>1, <2>2
<1>5. \A w \in Wallets : walletLock[w] # h
  BY <1>1 DEF TInv, Held, HasWallet, Late
<1>6. ~Funds(handler'[h])
  BY <1>3 DEF Funds, Late
<1> QED
  BY <1>2, <1>3, <1>4, <1>5, <1>6, StepKeeps

LEMMA LockWalletHolds ==
  ASSUME IInv, TInv, NEW h \in Handlers, LockWallet(h)
  PROVE  TInv'
<1>1. /\ handler[h].pc = "wallets" /\ handler[h].op = "fund"
      /\ handler[h].user \in Users /\ handler[h].team \in Teams
      /\ handler \in [Handlers -> RequestRecords] /\ handler[h] \in RequestRecords
  BY RequestFields DEF LockWallet, WellFormed, IInv, Requests
<1>2. PICK w : w = NextWallet(h)
  OBVIOUS
<1>3. /\ w \in {handler[h].user, handler[h].team} /\ w \in Wallets
      /\ walletLock[w] = None /\ walletLock' = [walletLock EXCEPT ![w] = h]
      /\ walletLock \in [Wallets -> Handlers \cup {None}]
      /\ UNCHANGED <<transfers, balance, spent, scenario, teamLock>>
  BY <1>1, <1>2 DEF LockWallet, NextWallet, FirstWallet, SecondWallet, WalletFree, Wallets,
                    rows, account, IInv, TypeOK
<1>4. \/ w = FirstWallet(handler[h]) /\ handler' = handler
      \/ \E read : handler' = [handler EXCEPT ![h].pc = "balance", ![h].after = read]
  BY <1>2 DEF LockWallet
<1>5. /\ handler'[h].op = "fund" /\ handler'[h].user = handler[h].user
      /\ handler'[h].team = handler[h].team /\ handler'[h].item = handler[h].item
      /\ handler'[h].pc \in {"wallets", "balance"}
      /\ handler'[h].pc = "wallets" => w = FirstWallet(handler[h])
      /\ \A g \in Handlers : g # h => handler'[g] = handler[g]
  <2>1. CASE handler' = handler
    BY <1>1, <1>4, <2>1, RequestFields DEF RequestRecords
  <2>2. ASSUME NEW read, handler' = [handler EXCEPT ![h].pc = "balance", ![h].after = read]
        PROVE  /\ handler'[h].op = "fund" /\ handler'[h].user = handler[h].user
               /\ handler'[h].team = handler[h].team /\ handler'[h].item = handler[h].item
               /\ handler'[h].pc = "balance"
               /\ \A g \in Handlers : g # h => handler'[g] = handler[g]
    <3>1. handler' = [handler EXCEPT ![h] = [handler[h] EXCEPT !.pc = "balance", !.after = read]]
      BY <1>1, <2>2
    <3>2. /\ handler'[h] = [handler[h] EXCEPT !.pc = "balance", !.after = read]
          /\ \A g \in Handlers : g # h => handler'[g] = handler[g]
      BY <1>1, <3>1
    <3> QED
      BY <1>1, <3>2 DEF RequestRecords
  <2> QED
    BY <1>1, <1>4, <2>1, <2>2
<1>6. ASSUME NEW v \in Wallets, NEW g \in Handlers, walletLock'[v] = g
      PROVE  (g # h /\ walletLock[v] = g) \/ (g = h /\ HasWallet(h, v)')
  <2>1. CASE v = w
    BY <1>1, <1>3, <1>5, <1>6, <2>1 DEF HasWallet, FirstWallet
  <2>2. CASE v # w
    BY <1>1, <1>3, <1>5, <1>6, <2>2 DEF TInv, Held, HasWallet, FirstWallet
  <2> QED
    BY <2>1, <2>2
<1>7. ASSUME NEW t \in Teams, teamLock[t] = h PROVE HasTeam(h, t)'
  BY <1>5, <1>7 DEF TInv, Held, HasTeam
<1>8. Prior(handler'[h]) = {}
  <2>1. Prior(handler[h]) = {}
    BY <1>1 DEF TInv, Unused, Funds
  <2> QED
    BY <1>5, <2>1 DEF Prior
<1> QED
  BY <1>3, <1>5, <1>6, <1>7, <1>8, StepKeeps

LEMMA CheckHolds ==
  ASSUME IInv, TInv, NEW h \in Handlers, Check(h)
  PROVE  TInv'
<1>1. CASE Rollback(h)
  BY <1>1, EndHolds DEF Check, account
<1>2. CASE Allowed(handler[h]) /\ UNCHANGED <<rows, teamLock, walletLock>>
  <2> DEFINE to == IF handler[h].op = "fund" THEN "wallets"
                   ELSE IF Inserts(handler[h].op) THEN "insert" ELSE "confirm"
  <2>1. CASE ~Goto(h, to)
    BY <1>1, <2>1 DEF Check
  <2>2. CASE Goto(h, to)
    <3>1. handler[h].pc = "check" /\ to \in {"wallets"} \cup Late
      BY DEF Check, Late
    <3>2. UNCHANGED <<transfers, balance, spent, scenario, teamLock, walletLock>>
      BY <1>2 DEF Check, account, rows
    <3>3. handler[h].op = "fund" => Prior(handler[h]) = {}
      BY <1>2 DEF Allowed, MayFund
    <3> HIDE DEF to
    <3> QED
      BY <2>2, <3>1, <3>2, <3>3, GotoHolds
  <2> QED
    BY <2>1, <2>2
<1> QED
  BY <1>1, <1>2 DEF Check

LEMMA LateStepsHold ==
  ASSUME IInv, TInv, NEW h \in Handlers, CheckBalance(h) \/ Insert(h) \/ Confirm(h)
  PROVE  TInv'
<1>1. CASE Rollback(h)
  BY <1>1, EndHolds DEF CheckBalance, Insert, Confirm, account
<1>2. ASSUME NEW to \in Late, Goto(h, to), handler[h].pc \in {"balance", "insert", "confirm"},
             UNCHANGED <<rows, teamLock, walletLock>>
      PROVE  TInv'
  <2>1. UNCHANGED <<transfers, balance, spent, scenario, teamLock, walletLock>>
    BY <1>2 DEF CheckBalance, Insert, Confirm, account, rows
  <2>2. handler[h].pc \notin {"idle", "wallets", "check", "lock"} /\ to # "wallets"
    BY <1>2 DEF Late
  <2> QED
    BY <1>2, <2>1, <2>2, GotoHolds
<1> QED
  BY <1>1, <1>2 DEF CheckBalance, Insert, Confirm, Late

(* A step of somebody else changes no request, no team's lock, no transfer. *)
LEMMA OutsideHolds ==
  ASSUME TInv, UNCHANGED <<handler, teamLock, walletLock, transfers, balance, spent, scenario>>
  PROVE  TInv'
<1>1. Held'
  BY DEF TInv, Held, HasTeam, HasWallet, FirstWallet
<1>2. Unused'
  BY DEF TInv, Unused, Funds, Prior
<1>3. Explained'
  BY DEF TInv, Explained, OneForKey
<1> QED
  BY <1>1, <1>2, <1>3 DEF TInv

(* A metered call moves a credit from what is left to what is spent.       *)
LEMMA DebitHolds ==
  ASSUME IInv, TInv, NEW w \in Wallets, Debit(w)
  PROVE  TInv'
<1>1. /\ UNCHANGED <<handler, teamLock, walletLock, transfers, scenario>>
      /\ balance' = [balance EXCEPT ![w] = @ - 1] /\ spent' = [spent EXCEPT ![w] = @ + 1]
      /\ balance \in [Wallets -> Nat] /\ spent \in [Wallets -> Nat]
  BY DEF Debit, account, IInv, TypeOK
<1>2. ASSUME NEW v \in Wallets
      PROVE  /\ balance'[v] + spent'[v] = balance[v] + spent[v]
             /\ balance'[v] \in Int /\ spent'[v] \in Int /\ balance[v] \in Nat /\ spent[v] \in Nat
  BY <1>1
<1>3. \A t \in Teams : balance'[t] + spent'[t] = balance[t] + spent[t]
  BY <1>2 DEF Wallets
<1>4. \A u \in Users : balance'[u] + spent'[u] = balance[u] + spent[u]
  BY <1>2 DEF Wallets
<1>5. Held'
  BY <1>1 DEF TInv, Held, HasTeam, HasWallet, FirstWallet
<1>6. Unused'
  BY <1>1 DEF TInv, Unused, Funds, Prior
<1>7. Explained'
  BY <1>1, <1>3, <1>4 DEF TInv, Explained, OneForKey
<1> QED
  BY <1>5, <1>6, <1>7 DEF TInv

(* The transfer a commit adds is a new one: the key was unused.  It says   *)
(* what leaves the caller's wallet and reaches the team's.                 *)
LEMMA FundExplains ==
  ASSUME IInv, TInv, NEW h \in Handlers, Commit(h), handler[h].op = "fund"
  PROVE  Explained'
<1>1. PICK t \in Teams, u \in Users, c \in Nat :
        t = handler[h].team /\ u = handler[h].user /\ c = handler[h].credits
  BY CommitOf
<1>2. PICK p : p = [team |-> t, user |-> u, key |-> handler[h].item, credits |-> c,
                    after |-> handler[h].after]
  OBVIOUS
<1>3. /\ balance' = [balance EXCEPT ![u] = balance[u] - c, ![t] = @ + c]
      /\ transfers' = transfers \cup {p} /\ UNCHANGED <<spent, scenario>>
  BY <1>1, <1>2, CommitOf DEF Written, Funded, Moved
<1>4. p \in TransferRecords /\ p.team = t /\ p.user = u /\ p.key = handler[h].item /\ p.credits = c
  <2>1. handler[h].item \in Items /\ handler[h].after \in [user : Int, team : Int]
    BY CommitOf DEF RequestRecords
  <2> QED
    BY <1>1, <1>2, <2>1 DEF TransferRecords
<1>5. \A q \in transfers : ~(q.team = p.team /\ q.user = p.user /\ q.key = p.key)
  <2>1. Prior(handler[h]) = {}
    BY CommitOf DEF TInv, Unused, Funds, Late
  <2> QED
    BY <1>1, <1>4, <2>1 DEF Prior
<1>6. /\ balance \in [Wallets -> Nat] /\ spent \in [Wallets -> Nat]
      /\ u \in Wallets /\ t \in Wallets /\ u # t
  BY TeamsAssumption DEF IInv, TypeOK, Wallets
<1>7. /\ balance'[u] = balance[u] - c /\ balance'[t] = balance[t] + c
      /\ \A w \in Wallets : w \notin {u, t} => balance'[w] = balance[w]
  BY <1>3, <1>6
<1>8. /\ IsFiniteSet(Coins(transfers)) /\ transfers \subseteq TransferRecords
      /\ \A x \in Teams : balance[x] + spent[x] = Sent(OfTeam(transfers, x))
      /\ \A x \in Users : balance[x] + spent[x] + Sent(OfUser(transfers, x)) = scenario.opening
  BY DEF TInv, Explained
<1>9. IsFiniteSet(Coins(transfers'))
  BY <1>3, <1>4, <1>5, <1>8, SentMore
<1>10. ASSUME NEW x \in Teams
       PROVE  balance'[x] + spent'[x] = Sent(OfTeam(transfers', x))
  <2>1. CASE x = t
    <3>1. OfTeam(transfers', x) = OfTeam(transfers, x) \cup {p} /\ p \notin OfTeam(transfers, x)
      BY <1>3, <1>4, <1>5, <2>1 DEF OfTeam
    <3>2. IsFiniteSet(Coins(OfTeam(transfers, x)))
      BY <1>8, CoinsOfSome DEF OfTeam
    <3>3. Sent(OfTeam(transfers', x)) = Sent(OfTeam(transfers, x)) + c
      BY <1>4, <3>1, <3>2, SentMore
    <3>4. PICK b \in Nat, s \in Nat : b = balance[t] /\ s = spent[t]
      BY <1>6
    <3>5. Sent(OfTeam(transfers, x)) = b + s
      BY <1>8, <2>1, <3>4
    <3>6. balance'[x] = b + c /\ spent'[x] = s
      BY <1>3, <1>7, <2>1, <3>4
    <3> QED
      BY <3>3, <3>5, <3>6
  <2>2. CASE x # t
    <3>1. OfTeam(transfers', x) = OfTeam(transfers, x)
      BY <1>3, <1>4, <2>2 DEF OfTeam
    <3>2. x \in Wallets /\ x \notin {u, t}
      BY <2>2, TeamsAssumption DEF Wallets
    <3> QED
      BY <1>3, <1>7, <1>8, <3>1, <3>2
  <2> QED
    BY <2>1, <2>2
<1>11. ASSUME NEW x \in Users
       PROVE  balance'[x] + spent'[x] + Sent(OfUser(transfers', x)) = scenario'.opening
  <2>1. CASE x = u
    <3>1. OfUser(transfers', x) = OfUser(transfers, x) \cup {p} /\ p \notin OfUser(transfers, x)
      BY <1>3, <1>4, <1>5, <2>1 DEF OfUser
    <3>2. IsFiniteSet(Coins(OfUser(transfers, x)))
      BY <1>8, CoinsOfSome DEF OfUser
    <3>3. PICK n \in Nat : n = Sent(OfUser(transfers, x))
      BY <1>4, <3>1, <3>2, SentMore
    <3>4. Sent(OfUser(transfers', x)) = n + c
      BY <1>4, <3>1, <3>2, <3>3, SentMore
    <3>5. PICK b \in Nat, s \in Nat : b = balance[u] /\ s = spent[u]
      BY <1>6
    <3>6. b + s + n = scenario.opening
      BY <1>8, <2>1, <3>3, <3>5
    <3>7. balance'[x] = b - c /\ spent'[x] = s /\ scenario' = scenario
      BY <1>3, <1>7, <2>1, <3>5
    <3>8. (b - c) + s + (n + c) = b + s + n
      OBVIOUS
    <3> QED
      BY <3>4, <3>6, <3>7, <3>8
  <2>2. CASE x # u
    <3>1. OfUser(transfers', x) = OfUser(transfers, x)
      BY <1>3, <1>4, <2>2 DEF OfUser
    <3>2. x \in Wallets /\ x \notin {u, t}
      BY <2>2, TeamsAssumption DEF Wallets
    <3> QED
      BY <1>3, <1>7, <1>8, <3>1, <3>2
  <2> QED
    BY <2>1, <2>2
<1>12. transfers' \subseteq TransferRecords
  BY <1>3, <1>4, <1>8
<1>13. OneForKey'
  BY <1>3, <1>5 DEF TInv, Explained, OneForKey
<1> QED
  BY <1>9, <1>10, <1>11, <1>12, <1>13 DEF Explained

LEMMA CommitHolds ==
  ASSUME IInv, TInv, NEW h \in Handlers, Commit(h)
  PROVE  TInv'
<1>1. /\ handler' = [handler EXCEPT ![h] = Free] /\ handler \in [Handlers -> RequestRecords]
      /\ teamLock' = Unlocked(teamLock, h) /\ walletLock' = Unlocked(walletLock, h)
      /\ UNCHANGED <<spent, scenario>> /\ TypeOK
  BY DEF Commit, End, account, IInv, Requests
<1>2. /\ handler'[h] = Free /\ \A g \in Handlers : g # h => handler'[g] = handler[g]
  BY <1>1
<1>3. \A t \in Teams, g \in Handlers : teamLock'[t] = g => g # h /\ teamLock[t] = g
  BY <1>1, TeamsAssumption DEF TypeOK, Unlocked
<1>4. \A w \in Wallets, g \in Handlers : walletLock'[w] = g => g # h /\ walletLock[w] = g
  BY <1>1, TeamsAssumption DEF TypeOK, Unlocked
<1>5. ~Funds(Free)
  BY DEF Funds, Free, Late
<1>6. CASE handler[h].op # "fund"
  <2>1. UNCHANGED <<transfers, balance>>
    BY <1>6, CommitOf DEF Written, Created, Updated, Removed, Invited, Accepted, GivenToken
  <2> QED
    BY <1>1, <1>2, <1>3, <1>4, <1>5, <2>1, StepKeeps
<1>7. CASE handler[h].op = "fund"
  <2>1. Held'
    BY <1>2, <1>3, <1>4 DEF TInv, Held, HasTeam, HasWallet, FirstWallet
  <2>2. PICK p : transfers' = transfers \cup {p} /\ p.team = handler[h].team
    <3>1. PICK p : /\ transfers' = transfers \cup {p}
                   /\ p = [team |-> handler[h].team, user |-> handler[h].user,
                           key |-> handler[h].item, credits |-> handler[h].credits,
                           after |-> handler[h].after]
      BY <1>7, CommitOf DEF Written, Funded
    <3>2. p.team = handler[h].team
      BY <3>1
    <3> QED
      BY <3>1, <3>2
  <2>3. ASSUME NEW g \in Handlers, Funds(handler'[g]) PROVE Prior(handler[g])' = {}
    <3>1. g # h /\ handler'[g] = handler[g] /\ Prior(handler[g]) = {}
      BY <1>2, <1>5, <2>3 DEF TInv, Unused
    <3>2. teamLock[handler[h].team] = h
      BY <1>7, CommitOf DEF IInv, Locks, HoldsTeam
    <3>3. teamLock[handler[g].team] = g
      BY <2>3, <3>1 DEF IInv, Locks, HoldsTeam, Funds, Late
    <3> QED
      BY <2>2, <3>1, <3>2, <3>3 DEF Prior
  <2>4. Explained'
    BY <1>7, FundExplains
  <2> QED
    BY <2>1, <2>3, <2>4 DEF TInv, Unused
<1> QED
  BY <1>6, <1>7

LEMMA InitHolds == Init => TInv
<1> SUFFICES ASSUME Init PROVE TInv
  OBVIOUS
<1>1. /\ IsFiniteSet(Coins({})) /\ Sent({}) = 0
  <2>1. Coins({}) = {}
    BY DEF Coins
  <2> QED
    BY <2>1, FS_EmptySet DEF Sent
<1>2. /\ \A t \in Teams : OfTeam({}, t) = {}
      /\ \A u \in Users : OfUser({}, u) = {}
  BY DEF OfTeam, OfUser
<1>3. scenario \in Scenarios /\ scenario.opening \in Nat
  BY TeamsAssumption DEF Init, Scenario
<1>4. /\ \A t \in Teams : balance[t] = 0 /\ spent[t] = 0
      /\ \A u \in Users : balance[u] = scenario.opening /\ spent[u] = 0
      /\ transfers = {}
  BY TeamsAssumption DEF Init, Wallets
<1>5. Explained
  <2>1. \A t \in Teams : balance[t] + spent[t] = Sent(OfTeam(transfers, t))
    BY <1>1, <1>2, <1>4
  <2>2. scenario.opening + 0 + 0 = scenario.opening
    BY <1>3
  <2>3. ASSUME NEW u \in Users
        PROVE  balance[u] + spent[u] + Sent(OfUser(transfers, u)) = scenario.opening
    BY <1>1, <1>2, <1>4, <2>2
  <2>4. /\ transfers \subseteq TransferRecords /\ IsFiniteSet(Coins(transfers))
        /\ OneForKey
    BY <1>1, <1>4 DEF OneForKey
  <2> QED
    BY <2>1, <2>3, <2>4 DEF Explained
<1>6. Held /\ Unused
  BY TeamsAssumption DEF Init, Held, Unused, Funds, Free, Late
<1> QED
  BY <1>5, <1>6 DEF TInv

LEMMA TransfersStep == IInv /\ TInv /\ [Next]_vars => TInv'
<1>1. ASSUME IInv, TInv, UNCHANGED vars PROVE TInv'
  BY <1>1, OutsideHolds DEF vars
<1>2. ASSUME IInv, TInv, Next PROVE TInv'
  <2>1. scenario.users \subseteq Users /\ scenario.teams \subseteq Teams
    BY <1>2, TeamsAssumption DEF IInv, Requests, Scenario
  <2>2. ASSUME NEW h \in Handlers, Abort(h) PROVE TInv'
    BY <1>2, <2>2, EndHolds DEF Abort, account
  <2>3. ASSUME NEW i \in Invites, ExpireInvite(i) PROVE TInv'
    BY <1>2, <2>3, OutsideHolds DEF ExpireInvite, account
  <2>4. ASSUME NEW k \in Tokens, RevokeToken(k) PROVE TInv'
    BY <1>2, <2>4, OutsideHolds DEF RevokeToken, account
  <2>5. ASSUME NEW u \in Users, LockUser(u) \/ SetUserEnabled(u) \/ SignOut(u) PROVE TInv'
    BY <1>2, <2>5, OutsideHolds DEF LockUser, SetUserEnabled, SignOut, rows
  <2>6. ASSUME NEW h \in Handlers, HandlerStep(h) PROVE TInv'
    BY <1>2, <2>6, LockTeamHolds, CheckHolds, LockWalletHolds, LateStepsHold, CommitHolds
    DEF HandlerStep
  <2> QED
    BY <1>2, <2>1, <2>2, <2>3, <2>4, <2>5, <2>6, RequestHolds, DebitHolds DEF Next, Wallets
<1> QED
  BY <1>1, <1>2

(* For every number of users, teams and requests under way, and whatever   *)
(* is spent meanwhile, the transfers explain what every wallet holds, none *)
(* is overdrawn, and the requests never wait for each other in a circle    *)
(* (fundTeam): a key found unused stays so under the team's lock, and both *)
(* wallets are read and written under theirs.                              *)
THEOREM TransfersAreSound == Spec => []TransfersSound
<1>1. Init => IInv /\ TInv
  BY InitInv, InitHolds
<1>2. IInv /\ TInv /\ [Next]_vars => (IInv /\ TInv)'
  BY InvStep, TransfersStep
<1>3. ASSUME IInv, TInv PROVE TransfersSound
  <2>1. /\ \A t \in Teams : balance[t] + spent[t] = Sent({p \in transfers : p.team = t})
        /\ \A u \in Users : balance[u] + spent[u] + Sent({p \in transfers : p.user = u})
             = scenario.opening
    BY <1>3 DEF TInv, Explained, OfTeam, OfUser
  <2>2. \A w \in Wallets : balance[w] >= 0
    BY <1>3 DEF IInv, TypeOK
  <2>3. FundsExplained
    BY <1>3, <2>1, <2>2 DEF TInv, Explained, OneForKey, FundsExplained
  <2> QED
    BY <1>3, <2>3, NobodyWaitsForever DEF TInv, TransfersSound
<1> QED
  BY <1>1, <1>2, <1>3, PTL DEF Spec
=============================================================================
