-------------------------- MODULE RateLimitProofs --------------------------
(***************************************************************************)
(* What holds of the request budgets for every number of budgets, callers, *)
(* limits and windows: the types, and that a window lets through no more   *)
(* than its limit.                                                         *)
(***************************************************************************)
EXTENDS RateLimit, TLAPS

(* A moment of the clock lies in a window that is not later than it.       *)
LEMMA WindowType ==
  ASSUME NEW b \in Budgets, NEW t \in Windows
  PROVE  WindowOf(b, t) \in Windows
<1> DEFINE n == Length[b]
<1>1. n \in Nat /\ n >= 1 /\ MaxTime \in Nat  BY RateLimitAssumption
<1>2. t \in Nat /\ t <= MaxTime  BY <1>1 DEF Windows
<1>3. t \div n \in Nat /\ t \div n <= t
  <2> HIDE DEF n
  <2> QED  BY <1>1, <1>2, SMTT(30)
<1> QED  BY <1>1, <1>2, <1>3 DEF WindowOf, Windows

LEMMA BeginType ==
  ASSUME NEW path \in Seq(Budgets)
  PROVE  /\ Begin(path) \in [pc : {"idle", "reclaim", "count"}, path : Seq(Budgets),
                             sent : Windows \cup {Unsent}]
         /\ Begin(path).pc # "idle" => Begin(path).path # <<>>
BY DEF Begin, Idle, Unsent

(* The types of the state are kept by every step.                          *)
Requesting == [pc : {"idle", "reclaim", "count"}, path : Seq(Budgets),
               sent : Windows \cup {Unsent}]
LEMMA InitTypes == Init => TypeOK
<1> SUFFICES ASSUME Init PROVE TypeOK  OBVIOUS
<1>1. MaxTime \in Nat  BY RateLimitAssumption
<1> QED  BY <1>1 DEF Init, TypeOK, NoRow, Idle, Unsent, Windows

LEMMA NextTypes == TypeOK /\ [Next]_vars => TypeOK'
<1> SUFFICES ASSUME TypeOK, [Next]_vars PROVE TypeOK'  OBVIOUS
<1> USE DEF TypeOK
<1>1. ASSUME NEW c \in Callers, Arrive(c) PROVE TypeOK'
  <2>1. PICK path \in Paths : caller' = [caller EXCEPT ![c] = Begin(path)]  BY <1>1 DEF Arrive
  <2>2. path \in Seq(Budgets)  BY RateLimitAssumption
  <2> QED  BY <1>1, <2>1, <2>2, BeginType DEF Arrive
<1>2. ASSUME NEW c \in Callers, Send(c) PROVE TypeOK'
  <2>1. caller' = [caller EXCEPT ![c] = [caller[c] EXCEPT !.sent = now]] /\ now \in Windows
    BY <1>2 DEF Send, Windows
  <2>2. [caller[c] EXCEPT !.sent = now] \in Requesting
    BY <2>1 DEF Requesting
  <2>3. caller' \in [Callers -> Requesting]
    BY <2>1, <2>2 DEF Requesting
  <2> QED  BY <1>2, <2>1, <2>3 DEF Send, Requesting
<1>3. ASSUME NEW c \in Callers, Reclaim(c) PROVE TypeOK'
  BY <1>3 DEF Reclaim, NoRow
<1>4. ASSUME NEW c \in Callers, Allow(c) PROVE TypeOK'
  <2> DEFINE b == Head(caller[c].path)  w == WindowOf(b, caller[c].sent)
  <2>1. b \in Budgets /\ Tail(caller[c].path) \in Seq(Budgets)  BY <1>4 DEF Allow
  <2>2. w \in Windows  BY <1>4, <2>1, WindowType DEF Allow
  <2>3. Counted(b, w) \in [window : Windows, used : Nat]
    BY <2>1, <2>2 DEF Counted, Later, Newer, Windows
  <2>4. row' \in [Budgets -> [window : Windows \cup {-1}, used : Nat]]
    BY <1>4, <2>1, <2>3 DEF Allow
  <2>5. charged' \in [Budgets -> [Windows -> Nat]]
    <3>1. [charged[b] EXCEPT ![Counted(b, w).window] = @ + 1] \in [Windows -> Nat]
      BY <2>1, <2>3
    <3>2. charged' = [charged EXCEPT ![b] = [charged[b] EXCEPT ![Counted(b, w).window] = @ + 1]]
      BY <1>4 DEF Allow
    <3> QED  BY <3>1, <3>2
  <2>6. caller' = [caller EXCEPT ![c] = Begin(Tail(caller[c].path))]  BY <1>4 DEF Allow
  <2>7. /\ caller' \in [Callers -> Requesting]
        /\ \A d \in Callers : caller'[d].pc # "idle" => caller'[d].path # <<>>
    BY <2>1, <2>6, BeginType DEF Requesting
  <2> QED  BY <1>4, <2>4, <2>5, <2>7 DEF Allow, Requesting
<1>5. ASSUME NEW c \in Callers, Refuse(c) PROVE TypeOK'
  <2> DEFINE b == Head(caller[c].path)
  <2>1. b \in Budgets  BY <1>5 DEF Refuse
  <2>2. WindowOf(b, caller[c].sent) \in Windows  BY <1>5, <2>1, WindowType DEF Refuse
  <2>3. caller' = [caller EXCEPT ![c] = Idle]  BY <1>5 DEF Refuse, AfterRefusal
  <2>4. /\ caller' \in [Callers -> Requesting]
        /\ \A d \in Callers : caller'[d].pc # "idle" => caller'[d].path # <<>>
    BY <2>3 DEF Requesting, Idle, Unsent
  <2>5. refused' \subseteq [budget : Budgets, window : Windows]  BY <1>5, <2>1, <2>2 DEF Refuse
  <2> QED  BY <1>5, <2>4, <2>5 DEF Refuse, Requesting
<1>6. ASSUME NEW c \in Callers, Abort(c) PROVE TypeOK'
  BY <1>6 DEF Abort, Idle, Unsent
<1>7. CASE Tick
  BY <1>7, RateLimitAssumption DEF Tick
<1>8. CASE UNCHANGED vars
  BY <1>8 DEF vars
<1> QED  BY <1>1, <1>2, <1>3, <1>4, <1>5, <1>6, <1>7, <1>8 DEF Next

(* The shared rows and the requests always have their types.               *)
THEOREM RateTypes == Spec => []TypeOK
BY InitTypes, NextTypes, PTL DEF Spec

----------------------------------------------------------------------------
(* A row that is never reclaimed is the count of its own window, and no    *)
(* later window has been used.                                             *)
RowCounts(b) ==
  /\ row[b].used <= Limit[b]
  /\ row[b].window # -1 => charged[b][row[b].window] = row[b].used
  /\ \A w \in Windows : w > row[b].window => charged[b][w] = 0
  /\ Within(b)
BudgetInv == \A b \in Budgets \ Expiring : RowCounts(b)

LEMMA CountKept ==
  ASSUME TypeOK, NEW b \in Budgets, NEW w \in Windows, RowCounts(b), Allowed(b, w),
         row'[b] = Counted(b, w),
         charged'[b] = [charged[b] EXCEPT ![Counted(b, w).window] = @ + 1]
  PROVE  RowCounts(b)'
<1>1. /\ Limit[b] \in Nat /\ Limit[b] >= 1 /\ row[b].used \in Nat
      /\ row[b].window \in Windows \cup {-1} /\ charged[b] \in [Windows -> Nat]
  BY RateLimitAssumption DEF TypeOK
<1>2. \A v \in Windows : v \in Int /\ v >= 0  BY DEF Windows
<1>3. CASE Newer(b, w)
  <2>1. row'[b].window = w /\ row'[b].used = 1
    BY <1>1, <1>2, <1>3 DEF Counted, Newer, Later
  <2>2. charged'[b][w] = 1 /\ \A v \in Windows \ {w} : charged'[b][v] = charged[b][v]
    BY <1>1, <1>2, <1>3, <2>1 DEF Newer, RowCounts, Counted
  <2>3. \A v \in Windows : v > w => charged'[b][v] = 0
    BY <1>1, <1>2, <1>3, <2>2 DEF Newer, RowCounts
  <2> QED  BY <1>1, <2>1, <2>2, <2>3 DEF RowCounts, Within
<1>4. CASE ~Newer(b, w)
  <2>1. /\ row[b].window \in Windows /\ row'[b].window = row[b].window
        /\ row'[b].used = row[b].used + 1 /\ row[b].used < Limit[b]
    BY <1>1, <1>2, <1>4 DEF Counted, Newer, Later, Allowed
  <2>2. /\ charged'[b][row[b].window] = row[b].used + 1
        /\ \A v \in Windows \ {row[b].window} : charged'[b][v] = charged[b][v]
    BY <1>1, <1>2, <2>1 DEF RowCounts, Counted
  <2> QED  BY <1>1, <1>2, <2>1, <2>2 DEF RowCounts, Within
<1> QED  BY <1>3, <1>4

LEMMA InitBudgets == Init => BudgetInv
BY RateLimitAssumption DEF Init, BudgetInv, RowCounts, Within, NoRow, Windows

LEMMA NextBudgets == TypeOK /\ BudgetInv /\ [Next]_vars => BudgetInv'
<1> SUFFICES ASSUME TypeOK, BudgetInv, [Next]_vars, NEW b \in Budgets \ Expiring
             PROVE  RowCounts(b)'
  BY DEF BudgetInv
<1>1. RowCounts(b)  BY DEF BudgetInv
<1>2. ASSUME row'[b] = row[b], charged'[b] = charged[b] PROVE RowCounts(b)'
  BY <1>1, <1>2 DEF RowCounts, Within
<1>3. ASSUME NEW c \in Callers, Reclaim(c) PROVE RowCounts(b)'
  <2>1. row'[b] = row[b] /\ charged'[b] = charged[b]  BY <1>3 DEF Reclaim
  <2> QED  BY <2>1, <1>2
<1>4. ASSUME NEW c \in Callers, Allow(c) PROVE RowCounts(b)'
  <2> DEFINE h == Head(caller[c].path)  w == WindowOf(h, caller[c].sent)
  <2>1. h \in Budgets  BY <1>4 DEF Allow, TypeOK
  <2>2. w \in Windows  BY <1>4, <2>1, WindowType DEF Allow, TypeOK
  <2>3. CASE h = b
    <3>1. /\ Allowed(b, w) /\ row'[b] = Counted(b, w)
          /\ charged'[b] = [charged[b] EXCEPT ![Counted(b, w).window] = @ + 1]
      BY <1>4, <2>3 DEF Allow, TypeOK
    <3> QED  BY <1>1, <2>2, <3>1, CountKept
  <2>4. CASE h # b
    <3>1. row'[b] = row[b] /\ charged'[b] = charged[b]  BY <1>4, <2>1, <2>4 DEF Allow, TypeOK
    <3> QED  BY <3>1, <1>2
  <2> QED  BY <2>3, <2>4
<1>5. CASE \/ Tick \/ UNCHANGED vars
           \/ \E c \in Callers : Arrive(c) \/ Send(c) \/ Refuse(c) \/ Abort(c)
  <2>1. row' = row /\ charged' = charged
    BY <1>5 DEF Tick, vars, Arrive, Send, Refuse, Abort
  <2> QED  BY <2>1, <1>2
<1> QED  BY <1>3, <1>4, <1>5 DEF Next

(* However late and in whatever order statements run, a window of a budget *)
(* whose row is not reclaimed lets through no more than its limit.         *)
THEOREM BudgetsHold == Spec => []WithinBudget
<1>1. BudgetInv => WithinBudget  BY DEF BudgetInv, RowCounts, WithinBudget
<1> QED  BY InitTypes, NextTypes, InitBudgets, NextBudgets, <1>1, PTL DEF Spec

----------------------------------------------------------------------------
(* What a row says is used was let through, also when it was reclaimed and *)
(* opened again; what was refused was refused by a spent row.              *)
Backed(b) ==
  IF row[b].window = -1 THEN row[b].used = 0 ELSE charged[b][row[b].window] >= row[b].used
SpentInv == (\A b \in Budgets : Backed(b)) /\ RefusedWhenSpent

LEMMA CountBacked ==
  ASSUME TypeOK, NEW b \in Budgets, NEW w \in Windows, Backed(b), row'[b] = Counted(b, w),
         charged'[b] = [charged[b] EXCEPT ![Counted(b, w).window] = @ + 1]
  PROVE  Backed(b)' /\ \A v \in Windows : charged'[b][v] >= charged[b][v]
<1>1. /\ row[b].used \in Nat /\ row[b].window \in Windows \cup {-1}
      /\ charged[b] \in [Windows -> Nat]
  BY DEF TypeOK
<1>2. \A v \in Windows : v \in Int /\ v >= 0  BY DEF Windows
<1>3. row'[b].window = Later(row[b].window, w) /\ Later(row[b].window, w) \in Windows
  BY <1>1, <1>2 DEF Counted, Later
<1>4. /\ charged'[b][row'[b].window] = charged[b][row'[b].window] + 1
      /\ \A v \in Windows : charged'[b][v] >= charged[b][v]
  BY <1>1, <1>3 DEF Counted
<1>5. CASE Newer(b, w)
  <2>1. row'[b].used = 1  BY <1>5 DEF Counted
  <2> QED  BY <1>1, <1>2, <1>3, <1>4, <2>1 DEF Backed
<1>6. CASE ~Newer(b, w)
  <2>1. row'[b].used = row[b].used + 1 /\ row'[b].window = row[b].window
    BY <1>1, <1>2, <1>3, <1>6 DEF Counted, Newer, Later
  <2> QED  BY <1>1, <1>2, <1>3, <1>4, <2>1 DEF Backed
<1> QED  BY <1>5, <1>6

LEMMA StillSpent ==
  ASSUME TypeOK, RefusedWhenSpent, charged' \in [Budgets -> [Windows -> Nat]],
         refused' = refused,
         \A b \in Budgets : \A w \in Windows : charged'[b][w] >= charged[b][w]
  PROVE  RefusedWhenSpent'
<1> SUFFICES ASSUME NEW r \in refused
             PROVE  \E w \in Windows : w >= r.window /\ charged'[r.budget][w] >= Limit[r.budget]
  BY DEF RefusedWhenSpent
<1>1. PICK w \in Windows : w >= r.window /\ charged[r.budget][w] >= Limit[r.budget]
  BY DEF RefusedWhenSpent
<1>2. r.budget \in Budgets  BY DEF TypeOK
<1>3. /\ charged[r.budget][w] \in Nat /\ charged'[r.budget][w] \in Nat
      /\ Limit[r.budget] \in Nat
  BY <1>2, RateLimitAssumption DEF TypeOK
<1> QED  BY <1>1, <1>2, <1>3

LEMMA NextSpent == TypeOK /\ SpentInv /\ [Next]_vars => SpentInv'
<1> SUFFICES ASSUME TypeOK, SpentInv, [Next]_vars PROVE SpentInv'  OBVIOUS
<1>1. \A b \in Budgets : Backed(b)  BY DEF SpentInv
<1>2. /\ row \in [Budgets -> [window : Windows \cup {-1}, used : Nat]]
      /\ charged \in [Budgets -> [Windows -> Nat]]
      /\ refused \subseteq [budget : Budgets, window : Windows]
      /\ Limit \in [Budgets -> Nat \ {0}]
      /\ \A w \in Windows : w \in Int /\ w >= 0
  BY RateLimitAssumption DEF TypeOK, Windows
<1>3. ASSUME NEW c \in Callers, Reclaim(c) PROVE SpentInv'
  <2>1. charged' = charged /\ refused' = refused
        /\ \A b \in Budgets : row'[b] \in {row[b], NoRow}
    BY <1>3 DEF Reclaim
  <2> QED  BY <1>1, <2>1 DEF NoRow, SpentInv, RefusedWhenSpent, Backed
<1>4. ASSUME NEW c \in Callers, Allow(c) PROVE SpentInv'
  <2>1. PICK h \in Budgets : h = Head(caller[c].path)  BY <1>4 DEF Allow, TypeOK
  <2>2. PICK w \in Windows : w = WindowOf(h, caller[c].sent)
    BY <1>4, <2>1, WindowType DEF Allow, TypeOK
  <2>3. /\ row'[h] = Counted(h, w) /\ refused' = refused
        /\ charged'[h] = [charged[h] EXCEPT ![Counted(h, w).window] = @ + 1]
        /\ \A b \in Budgets \ {h} : row'[b] = row[b] /\ charged'[b] = charged[b]
    BY <1>2, <1>4, <2>1, <2>2 DEF Allow
  <2>4. Backed(h)' /\ \A v \in Windows : charged'[h][v] >= charged[h][v]
    BY <1>1, <2>3, CountBacked
  <2>5. \A b \in Budgets \ {h} : Backed(b)'  BY <1>1, <2>3 DEF Backed
  <2>6. \A b \in Budgets : \A v \in Windows : charged'[b][v] >= charged[b][v]
    BY <1>2, <2>3, <2>4
  <2>7. RefusedWhenSpent'
    BY <2>3, <2>6, NextTypes, StillSpent DEF SpentInv, TypeOK
  <2> QED  BY <2>4, <2>5, <2>7 DEF SpentInv
<1>5. ASSUME NEW c \in Callers, Refuse(c) PROVE SpentInv'
  <2> DEFINE h == Head(caller[c].path)  w == WindowOf(h, caller[c].sent)
  <2>1. h \in Budgets  BY <1>5 DEF Refuse, TypeOK
  <2>2. w \in Windows  BY <1>5, <2>1, WindowType DEF Refuse, TypeOK
  <2>3. row[h].window \in Windows /\ row[h].window >= w /\ row[h].used >= Limit[h]
    BY <1>2, <1>5, <2>1, <2>2 DEF Refuse, Allowed, Newer
  <2>4. charged[h][row[h].window] >= Limit[h]
    <3>1. Backed(h)  BY <1>1, <2>1
    <3>2. row[h].window # -1  BY <2>3 DEF Windows
    <3>3. row[h].used \in Nat /\ charged[h] \in [Windows -> Nat]  BY <1>2, <2>1
    <3>4. Limit[h] \in Nat  BY <2>1, RateLimitAssumption
    <3>5. charged[h][row[h].window] >= row[h].used  BY <3>1, <3>2 DEF Backed
    <3>6. charged[h][row[h].window] \in Nat  BY <2>3, <3>3
    <3> HIDE DEF h, w
    <3> QED  BY <2>3, <3>3, <3>4, <3>5, <3>6
  <2>5. /\ row' = row /\ charged' = charged
        /\ refused' = refused \cup {[budget |-> h, window |-> w]}
    BY <1>5 DEF Refuse
  <2>6. \A b \in Budgets : Backed(b)'  BY <1>1, <2>5 DEF Backed
  <2>7. ASSUME NEW r \in refused'
        PROVE  \E v \in Windows : v >= r.window /\ charged'[r.budget][v] >= Limit[r.budget]
    <3>1. CASE r \in refused  BY <2>5, <3>1 DEF SpentInv, RefusedWhenSpent
    <3>2. CASE r = [budget |-> h, window |-> w]  BY <2>3, <2>4, <2>5, <3>2
    <3> QED  BY <2>5, <2>7, <3>1, <3>2
  <2> QED  BY <2>6, <2>7 DEF SpentInv, RefusedWhenSpent
<1>6. CASE \/ Tick \/ UNCHANGED vars
           \/ \E c \in Callers : Arrive(c) \/ Send(c) \/ Abort(c)
  <2>1. row' = row /\ charged' = charged /\ refused' = refused
    BY <1>6 DEF Tick, vars, Arrive, Send, Abort
  <2> QED  BY <2>1 DEF SpentInv, RefusedWhenSpent, Backed
<1> QED  BY <1>3, <1>4, <1>5, <1>6 DEF Next

(* No request is refused while its window and the later ones have budget.  *)
THEOREM RefusalsJust == Spec => []RefusedWhenSpent
<1>1. Init => SpentInv  BY DEF Init, SpentInv, RefusedWhenSpent, Backed, NoRow
<1>2. SpentInv => RefusedWhenSpent  BY DEF SpentInv
<1> QED  BY InitTypes, NextTypes, NextSpent, <1>1, <1>2, PTL DEF Spec

----------------------------------------------------------------------------
(* A statement was sent before it runs, so its window has begun.           *)
SentBefore == \A c \in Callers : caller[c].sent <= now

LEMMA WindowsAdvance ==
  ASSUME NEW b \in Budgets, NEW s \in Nat, NEW t \in Nat, s <= t
  PROVE  WindowOf(b, s) <= WindowOf(b, t)
<1> DEFINE n == Length[b]  x == s \div n  y == t \div n
<1>1. n \in Nat /\ n >= 1  BY RateLimitAssumption
<1>2. x \in Nat /\ y \in Nat /\ n * x <= s /\ t < n * y + n
  <2> HIDE DEF n
  <2> QED  BY <1>1, SMTT(30)
<1>3. n * x < n * (y + 1)
  <2> HIDE DEF x, y, n
  <2>1. n * (y + 1) = n * y + n  BY <1>1, <1>2
  <2> QED  BY <1>1, <1>2, <2>1
<1>4. x < y + 1
  <2> HIDE DEF x, y, n
  <2> QED  BY <1>1, <1>2, <1>3, SMTT(30)
<1> QED  BY <1>2, <1>4 DEF WindowOf

LEMMA NextSent == TypeOK /\ SentBefore /\ [Next]_vars => SentBefore'
<1> SUFFICES ASSUME TypeOK, SentBefore, [Next]_vars PROVE SentBefore'  OBVIOUS
<1> USE DEF TypeOK, SentBefore, Windows, Unsent
<1>1. ASSUME NEW path \in Seq(Budgets) PROVE Begin(path).sent = -1  BY DEF Begin, Idle
<1>2. ASSUME NEW c \in Callers, Arrive(c) PROVE SentBefore'
  <2>1. PICK path \in Paths : caller' = [caller EXCEPT ![c] = Begin(path)]  BY <1>2 DEF Arrive
  <2>2. path \in Seq(Budgets)  BY RateLimitAssumption
  <2> QED  BY <1>1, <1>2, <2>1, <2>2 DEF Arrive
<1>3. ASSUME NEW c \in Callers, Send(c) PROVE SentBefore'  BY <1>3 DEF Send
<1>4. ASSUME NEW c \in Callers, Reclaim(c) PROVE SentBefore'  BY <1>4 DEF Reclaim
<1>5. ASSUME NEW c \in Callers, Allow(c) PROVE SentBefore'
  <2>1. caller[c].pc = "count"  BY <1>5 DEF Allow
  <2>2. caller[c].path \in Seq(Budgets) /\ caller[c].path # <<>>  BY <2>1
  <2>3. Tail(caller[c].path) \in Seq(Budgets)  BY <2>2
  <2>4. Begin(Tail(caller[c].path)).sent = -1  BY <1>1, <2>3
  <2> QED  BY <1>5, <2>4 DEF Allow
<1>6. ASSUME NEW c \in Callers, Refuse(c) PROVE SentBefore'
  BY <1>6 DEF Refuse, AfterRefusal, Idle
<1>7. ASSUME NEW c \in Callers, Abort(c) PROVE SentBefore'  BY <1>7 DEF Abort, Idle
<1>8. CASE Tick
  <2>1. now' = now + 1 /\ caller' = caller /\ now \in Int  BY <1>8 DEF Tick
  <2>2. ASSUME NEW c \in Callers PROVE caller[c].sent <= now + 1
    <3>1. caller[c].sent \in Int /\ caller[c].sent <= now  OBVIOUS
    <3> QED  BY <2>1, <3>1
  <2> QED  BY <2>1, <2>2
<1>9. CASE UNCHANGED vars  BY <1>9 DEF vars
<1> QED  BY <1>2, <1>3, <1>4, <1>5, <1>6, <1>7, <1>8, <1>9 DEF Next

(* Neither reclaiming nor counting forgets what is used of a window that   *)
(* is not over.                                                            *)
THEOREM WindowsKept == Spec => ForgottenWhenOver
<1>1. ASSUME TypeOK, SentBefore, [Next]_vars, NEW b \in Budgets, row'[b].used < row[b].used
      PROVE  row[b].window < WindowOf(b, now)
  <2>1. /\ row[b].used \in Nat /\ row[b].window \in Windows \cup {-1} /\ now \in Nat
        /\ \A w \in Windows : w \in Nat
    BY <1>1 DEF TypeOK, Windows
  <2>2. ASSUME NEW c \in Callers, caller[c].sent # Unsent,
               row[b].window < WindowOf(b, caller[c].sent)
        PROVE  row[b].window < WindowOf(b, now)
    <3>1. caller[c].sent \in Windows /\ caller[c].sent <= now
      BY <1>1, <2>2 DEF TypeOK, SentBefore
    <3>2. WindowOf(b, caller[c].sent) <= WindowOf(b, now)  BY <2>1, <3>1, WindowsAdvance
    <3>3. WindowOf(b, caller[c].sent) \in Windows /\ WindowOf(b, now) \in Windows
      BY <1>1, <3>1, WindowType DEF TypeOK, Windows
    <3> QED  BY <2>1, <2>2, <3>2, <3>3
  <2>3. ASSUME NEW c \in Callers, Reclaim(c) PROVE row[b].window < WindowOf(b, now)
    <3>1. Over(b, caller[c].sent) /\ caller[c].sent # Unsent
      BY <1>1, <2>1, <2>3 DEF Reclaim
    <3> QED  BY <2>2, <3>1 DEF Over
  <2>4. ASSUME NEW c \in Callers, Allow(c) PROVE row[b].window < WindowOf(b, now)
    <3>1. Head(caller[c].path) = b
      BY <1>1, <2>1, <2>4 DEF Allow, TypeOK
    <3>2. row'[b] = Counted(b, WindowOf(b, caller[c].sent)) /\ caller[c].sent # Unsent
      BY <1>1, <2>4, <3>1 DEF Allow, TypeOK
    <3>3. Newer(b, WindowOf(b, caller[c].sent))
      BY <1>1, <2>1, <3>2 DEF Counted
    <3>4. WindowOf(b, caller[c].sent) \in Windows
      BY <1>1, <3>2, WindowType DEF TypeOK
    <3> QED  BY <2>1, <2>2, <3>2, <3>3, <3>4 DEF Newer
  <2>5. ASSUME row' = row PROVE FALSE  BY <1>1, <2>1, <2>5
  <2> QED  BY <1>1, <2>3, <2>4, <2>5 DEF Next, Tick, vars, Arrive, Send, Refuse, Abort
<1>2. TypeOK /\ SentBefore /\ [Next]_vars =>
        [\A b \in Budgets : row'[b].used < row[b].used => row[b].window < WindowOf(b, now)]_vars
  BY <1>1
<1>3. Init => SentBefore  BY DEF Init, SentBefore, Idle, Unsent
<1> QED  BY InitTypes, NextTypes, NextSent, <1>2, <1>3, PTL DEF Spec, ForgottenWhenOver
=============================================================================
