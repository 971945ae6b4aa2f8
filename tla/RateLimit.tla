----------------------------- MODULE RateLimit -----------------------------
(***************************************************************************)
(* The fixed-window request budgets that all replicas share in PostgreSQL: *)
(* AllowRequest of internal/store/rate.go and its callers, which consume   *)
(* one budget after another: a token's and its user's (Gateway.admit), a   *)
(* peer's and the deployment's (auth.AllowPublicRequest).                  *)
(*                                                                         *)
(* A statement's clock is read when the statement reaches the database; it *)
(* runs later, when the row it wants is free.  Statements that were sent   *)
(* in one order may therefore run in another, across window boundaries.    *)
(***************************************************************************)
EXTENDS Integers, Sequences, FiniteSets, FiniteSetsExt

CONSTANTS
  Budgets,           \* the (scope, subject) rows
  Expiring,          \* the ones with a public: scope, reclaimed when their window is over
  Limit, Length,     \* per budget: requests in a window, ticks of a window
  Paths,             \* the sequences of budgets that requests consume
  Callers,
  MaxTime, MaxRequests   \* bounds: ticks of the database clock, requests

ASSUME RateLimitAssumption ==
  /\ IsFiniteSet(Budgets) /\ Expiring \subseteq Budgets
  /\ Limit \in [Budgets -> Nat \ {0}] /\ Length \in [Budgets -> Nat \ {0}]
  /\ Paths \subseteq Seq(Budgets) \ {<<>>}
  /\ MaxTime \in Nat /\ MaxRequests \in Nat

VARIABLES
  now,               \* the database clock
  row,               \* rate_limits: the window and what is used of it
  caller,            \* the budgets a request has left to consume, the statement it is at
  charged,           \* history: requests let through, by budget and window
  refused,           \* history: budgets and windows that requests were refused in
  requests

vars == <<now, row, caller, charged, refused, requests>>

Windows == 0..MaxTime
Unsent == -1
NoRow == [window |-> -1, used |-> 0]
Idle == [pc |-> "idle", path |-> <<>>, sent |-> Unsent]

Init ==
  /\ now = 0
  /\ row = [b \in Budgets |-> NoRow]
  /\ caller = [c \in Callers |-> Idle]
  /\ charged = [b \in Budgets |-> [w \in Windows |-> 0]]
  /\ refused = {}
  /\ requests = 0

WindowOf(b, t) == t \div Length[b]

(* The first statement of AllowRequest reclaims rows for a public: scope.  *)
Begin(path) ==
  IF path = <<>> THEN Idle
  ELSE [pc |-> IF Head(path) \in Expiring THEN "reclaim" ELSE "count", path |-> path,
        sent |-> Unsent]

----------------------------------------------------------------------------
Arrive(c) ==
  /\ caller[c].pc = "idle" /\ requests < MaxRequests
  /\ \E path \in Paths : caller' = [caller EXCEPT ![c] = Begin(path)]
  /\ requests' = requests + 1
  /\ UNCHANGED <<now, row, charged, refused>>

(* The statement reaches the database: statement_timestamp().              *)
Send(c) ==
  /\ caller[c].pc # "idle" /\ caller[c].sent = Unsent
  /\ caller' = [caller EXCEPT ![c].sent = now]
  /\ UNCHANGED <<now, row, charged, refused, requests>>

(* DELETE ... LIMIT 100 FOR UPDATE SKIP LOCKED: some of the rows whose     *)
(* window was over when the statement was sent.                            *)
OverOrCurrent(b, t) == row[b].window <= WindowOf(b, t)         \* mutant
Over(b, t) == row[b].window < WindowOf(b, t)

Reclaim(c) ==
  /\ caller[c].pc = "reclaim" /\ caller[c].sent # Unsent
  /\ \E rows \in SUBSET {b \in Expiring : Over(b, caller[c].sent)} :
       row' = [b \in Budgets |-> IF b \in rows THEN NoRow ELSE row[b]]
  /\ caller' = [caller EXCEPT ![c].pc = "count", ![c].sent = Unsent]
  /\ UNCHANGED <<now, charged, refused, requests>>

(* INSERT ... ON CONFLICT DO UPDATE WHERE ... RETURNING used: the newest   *)
(* version of the row decides, under its lock.                             *)
Newer(b, w) == w > row[b].window
Allowed(b, w) == Newer(b, w) \/ row[b].used < Limit[b]

Later(v, w) == IF v > w THEN v ELSE w
NotReset(b, w) == [window |-> Later(row[b].window, w), used |-> row[b].used + 1]  \* mutant
OwnWindow(b, w) == [window |-> w, used |-> IF w # row[b].window THEN 1 ELSE row[b].used + 1]  \* mutant
Counted(b, w) ==
  [window |-> Later(row[b].window, w), used |-> IF Newer(b, w) THEN 1 ELSE row[b].used + 1]

Allow(c) ==
  LET b == Head(caller[c].path)  w == WindowOf(b, caller[c].sent) IN
  /\ caller[c].pc = "count" /\ caller[c].sent # Unsent /\ Allowed(b, w)
  /\ row' = [row EXCEPT ![b] = Counted(b, w)]
  /\ charged' = [charged EXCEPT ![b][Counted(b, w).window] = @ + 1]
  /\ caller' = [caller EXCEPT ![c] = Begin(Tail(@.path))]
  /\ UNCHANGED <<now, refused, requests>>

(* A refused request consumes none of the budgets that were to follow.     *)
AfterRefusal(c) == Idle

Refuse(c) ==
  LET b == Head(caller[c].path)  w == WindowOf(b, caller[c].sent) IN
  /\ caller[c].pc = "count" /\ caller[c].sent # Unsent /\ ~Allowed(b, w)
  /\ refused' = refused \cup {[budget |-> b, window |-> w]}
  /\ caller' = [caller EXCEPT ![c] = AfterRefusal(c)]
  /\ UNCHANGED <<now, row, charged, requests>>

(* The client goes away or the database fails: what was consumed stays.    *)
Abort(c) ==
  /\ caller[c].pc # "idle"
  /\ caller' = [caller EXCEPT ![c] = Idle]
  /\ UNCHANGED <<now, row, charged, refused, requests>>

Tick ==
  /\ now < MaxTime /\ now' = now + 1
  /\ UNCHANGED <<row, caller, charged, refused, requests>>

Next ==
  \/ \E c \in Callers : Arrive(c) \/ Send(c) \/ Reclaim(c) \/ Allow(c) \/ Refuse(c) \/ Abort(c)
  \/ Tick

Spec == Init /\ [][Next]_vars

----------------------------------------------------------------------------
TypeOK ==
  /\ now \in 0..MaxTime
  /\ row \in [Budgets -> [window : Windows \cup {-1}, used : Nat]]
  /\ caller \in [Callers -> [pc : {"idle", "reclaim", "count"}, path : Seq(Budgets),
                             sent : Windows \cup {Unsent}]]
  /\ \A c \in Callers : caller[c].pc # "idle" => caller[c].path # <<>>
  /\ charged \in [Budgets -> [Windows -> Nat]]
  /\ refused \subseteq [budget : Budgets, window : Windows]
  /\ requests \in Nat

Within(b) == \A w \in Windows : charged[b][w] <= Limit[b]

(* AllowRequest: however late the requests of a window run, no more of     *)
(* them than the limit are let through in it.                              *)
WithinBudget == \A b \in Budgets \ Expiring : Within(b)

(* What is used of a budget is forgotten only when its window is over, by  *)
(* reclaiming its row or by the first request of a later window.           *)
ForgottenWhenOver ==
  [][\A b \in Budgets :
       row'[b].used < row[b].used => row[b].window < WindowOf(b, now)]_vars

(* A request is refused only for want of budget: its own window, or a      *)
(* later one that newer requests have opened meanwhile, is spent.          *)
RefusedWhenSpent ==
  \A r \in refused : \E w \in Windows :
    w >= r.window /\ charged[r.budget][w] >= Limit[r.budget]
=============================================================================
