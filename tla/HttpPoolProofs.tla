--------------------------- MODULE HttpPoolProofs ---------------------------
(***************************************************************************)
(* Theorems about HttpPool for every number of requests, configurations,   *)
(* slots, catalogs and shutdowns.  The argument has two halves.  Counters  *)
(* count: the leases of a pool, the slots in use, the pools of a provider  *)
(* and the wait group are each the size of a set of requests or pools, so  *)
(* that all live pools share one provider and its slots bound the calls.   *)
(* Sessions have one place: an open one is held by a request, idle in a    *)
(* pool or in the hands of a retirement, never in two of these.            *)
(***************************************************************************)
EXTENDS HttpPool, FiniteSetTheorems, TLAPS

-----------------------------------------------------------------------------
\* The inductive invariant

HoldsLease == {"slot", "unlease"} \cup HoldsSlot
AtPool == {"join", "forget", "unlink", "retire", "closeidle"} \cup HoldsLease
Created(p) == pools[p].config # None
Unlinking(p) == \E a \in Actors : pc[a] = "unlink" /\ pool[a] = p
Live(p) == Created(p) /\ (pools[p].forgotten => Unlinking(p))

(* Where actors and pools may stand.  A pool that is live has the tool's   *)
(* provider, and one that is forgotten is retired and has no lease.        *)
Standing ==
    /\ \A a \in Actors : pc[a] \in AtPool => pool[a] # None
    /\ \A a \in Actors : pool[a] # None => Created(pool[a])
    /\ \A a \in Retirers : pc[a] \notin HoldsLease
    /\ \A r \in Requests : pc[r] \notin {"next", "retire", "closeidle"}
    /\ \A r \in Requests : pc[r] = "idle" => pools[r] = NewPool(None, None) /\ conn[r] = "none"
    /\ \A a \in Retirers : \A p \in work[a] : Created(p)
    /\ \A c \in Configs : current[c] # None => pools[current[c]].config = c
    /\ \A p \in Requests : ~Created(p) => pools[p].idle = {}
PoolRules ==
    /\ \A p \in Requests : pools[p].forgotten => pools[p].retired /\ pools[p].leases = 0
    /\ \A p \in Requests : Created(p) => pools[p].provider # None
    /\ \A p \in Requests : Live(p) => pools[p].provider = provider
    /\ \A a \in Actors : pc[a] = "unlink" => pools[pool[a]].forgotten
    /\ \A a, b \in Actors : pc[a] = "unlink" /\ pc[b] = "unlink" /\ pool[a] = pool[b] => a = b

(* What the counters count.                                                *)
LeasesOf(p) == {r \in Requests : pool[r] = p /\ pc[r] \in HoldsLease}
UsersOf(v) == {r \in Requests : pc[r] \in HoldsSlot /\ Slot(r) = v}
PoolsOf(v) == {p \in Requests : Live(p) /\ pools[p].provider = v}
Counts ==
    /\ httpLeases = Cardinality(counted)
    /\ \A p \in Requests : pools[p].leases = Cardinality(LeasesOf(p))
    /\ \A v \in Requests : used[v] = Cardinality(UsersOf(v))
    /\ \A v \in Requests : owners[v] = Cardinality(PoolsOf(v))

(* A session that is open has one place, and one that has a place is open. *)
Working == {"publish", "handover", "use", "discard"}
Before == {"idle", "join", "slot", "register", "pop", "connect"}
Held ==
    /\ \A r \in Requests : session[r] # None => pc[r] \in Working
    /\ \A r \in Requests : pc[r] \in Leased => session[r] # None
    /\ \A r, q \in Requests : session[r] # None /\ session[r] = session[q] => r = q
    /\ \A r, p \in Requests : session[r] \notin pools[p].idle
    /\ \A r \in Requests, a \in Retirers : session[r] \notin closing[a]
Idle ==
    /\ \A p, q, s \in Requests : s \in pools[p].idle /\ s \in pools[q].idle => p = q
    /\ \A p, s \in Requests, a \in Retirers : s \in pools[p].idle => s \notin closing[a]
    /\ \A p \in Requests : pools[p].retired => pools[p].idle = {}
Closing ==
    /\ \A a, b \in Retirers, s \in Requests : s \in closing[a] /\ s \in closing[b] => a = b
    /\ \A a \in Retirers : closing[a] # {} => pc[a] = "closeidle"
OpenPlaces ==
    /\ \A r \in Requests : session[r] # None => conn[session[r]] = "open"
    /\ \A p, s \in Requests : s \in pools[p].idle => conn[s] = "open"
    /\ \A a \in Retirers, s \in Requests : s \in closing[a] => conn[s] = "open"
    /\ \A r \in Requests : conn[r] # "none" =>
         pc[r] \notin Before
Sessions == Held /\ Idle /\ Closing /\ OpenPlaces

(* How far a shutdown is: which pools it has still to retire, and that no  *)
(* lease enters the wait group any more.                                   *)
ToRetire(p) ==
    \/ \E c \in Configs : current[c] = p
    \/ p \in work[Closer]
    \/ pc[Closer] = "retire" /\ pool[Closer] = p
Shutdown ==
    /\ pc[Closer] # "idle" => closed
    /\ pc[Closer] \notin {"idle", "collect"} => \A c \in Configs : current[c] = None
    /\ pc[Closer] \in {"idle", "collect", "wait", "done"} => work[Closer] = {}
    /\ pc[Closer] = "done" => counted = {}
    /\ \A r \in Requests : pc[r] \in Connecting \cup Working \cup {"uncount"} => r \in counted
    /\ \A r \in counted : pc[r] \notin {"idle", "join", "slot", "register", "done"}
    /\ \A p \in Requests : Created(p) /\ ~pools[p].retired => ToRetire(p)

IInv == TypeOK /\ Standing /\ PoolRules /\ Counts /\ Sessions /\ NoSessionLost /\ Shutdown
-----------------------------------------------------------------------------
\* Counting

LEMMA SomeRequests ==
    ASSUME NEW S \in SUBSET Requests
    PROVE  IsFiniteSet(S) /\ Cardinality(S) \in Nat /\ (Cardinality(S) = 0 <=> S = {})
<1>1. IsFiniteSet(S)
  BY HttpPoolAssumption, FS_Subset
<1> QED
  BY <1>1, FS_CardinalityType, FS_EmptySet

LEMMA OneMore ==
    ASSUME NEW S \in SUBSET Requests, NEW T \in SUBSET Requests, NEW x \in Requests, x \notin S,
           \A r \in Requests : r \in T <=> r \in S \/ r = x
    PROVE  Cardinality(T) = Cardinality(S) + 1
<1>1. T = S \cup {x}
  OBVIOUS
<1> QED
  BY <1>1, SomeRequests, FS_AddElement

LEMMA OneLess ==
    ASSUME NEW S \in SUBSET Requests, NEW T \in SUBSET Requests, NEW x \in Requests, x \in S,
           \A r \in Requests : r \in T <=> r \in S /\ r # x
    PROVE  Cardinality(T) = Cardinality(S) - 1
<1>1. T = S \ {x}
  OBVIOUS
<1> QED
  BY <1>1, SomeRequests, FS_RemoveElement

(* An actor that works on a pool has one; what is written to it.           *)
LEMMA PoolOfActor ==
    ASSUME TypeOK, Standing, PoolRules, NEW a \in Actors, pc[a] \in AtPool
    PROVE  /\ pool[a] \in Requests /\ Created(pool[a])
           /\ P(a) \in PoolRecords /\ P(a).provider \in Requests
  BY HttpPoolAssumption DEF Standing, PoolRules, TypeOK, PoolRecords, P

LEMMA PoolFields ==
    ASSUME TypeOK, NEW p \in Requests
    PROVE  /\ pools \in [Requests -> PoolRecords] /\ pools[p] \in PoolRecords
           /\ pools[p].leases \in Nat /\ pools[p].idle \in SUBSET Requests
           /\ pools[p].sessions \in SUBSET Requests
<1>1. pools[p] \in PoolRecords /\ pools \in [Requests -> PoolRecords]
  BY DEF TypeOK
<1> QED
  BY <1>1 DEF PoolRecords

(* Who holds something is counted, so that a counter that is to be lowered *)
(* is not zero.                                                            *)
LEMMA HeldIsCounted ==
    ASSUME TypeOK, Standing, PoolRules, Counts
    PROVE  /\ \A r \in Requests : pc[r] \in HoldsLease =>
                pool[r] \in Requests /\ pools[pool[r]].leases >= 1
           /\ \A r \in Requests : pc[r] \in HoldsSlot => Slot(r) \in Requests /\ used[Slot(r)] >= 1
           /\ \A a \in Actors : pc[a] = "unlink" =>
                /\ pool[a] \in Requests /\ P(a).provider \in Requests
                /\ owners[P(a).provider] >= 1
           /\ \A r \in counted : httpLeases >= 1
<1>1. ASSUME NEW S \in SUBSET Requests, NEW x \in S PROVE Cardinality(S) >= 1
  BY <1>1, SomeRequests
<1>3. ASSUME NEW r \in Requests, pc[r] \in HoldsLease
      PROVE  pool[r] \in Requests /\ pools[pool[r]].leases >= 1
  <2>1. r \in LeasesOf(pool[r]) /\ LeasesOf(pool[r]) \in SUBSET Requests
    BY <1>3 DEF LeasesOf
  <2> QED
    BY <2>1, <1>1, <1>3, PoolOfActor DEF Counts, AtPool, Actors
<1>4. ASSUME NEW r \in Requests, pc[r] \in HoldsSlot
      PROVE  Slot(r) \in Requests /\ used[Slot(r)] >= 1
  <2>1. r \in UsersOf(Slot(r)) /\ UsersOf(Slot(r)) \in SUBSET Requests
    BY <1>4 DEF UsersOf
  <2>2. Slot(r) \in Requests
    BY <1>4, PoolOfActor DEF AtPool, HoldsLease, Actors, Slot
  <2> QED
    BY <2>1, <2>2, <1>1 DEF Counts
<1>5. ASSUME NEW a \in Actors, pc[a] = "unlink"
      PROVE  /\ pool[a] \in Requests /\ P(a).provider \in Requests
             /\ owners[P(a).provider] >= 1
  <2>1. pool[a] \in Requests /\ Created(pool[a]) /\ P(a).provider \in Requests
    BY <1>5, PoolOfActor DEF AtPool
  <2>2. pool[a] \in PoolsOf(P(a).provider) /\ PoolsOf(P(a).provider) \in SUBSET Requests
    BY <1>5, <2>1 DEF PoolsOf, Live, Unlinking, P
  <2> QED
    BY <2>1, <2>2, <1>1 DEF Counts
<1> QED
  BY <1>1, <1>3, <1>4, <1>5 DEF Counts, TypeOK

-----------------------------------------------------------------------------
\* Types

(* What a step writes to a pool's record.                                  *)
LEMMA PoolRecordStep ==
    ASSUME TypeOK, Standing, PoolRules, Counts, Sessions, Next
    PROVE  pools' \in [Requests -> PoolRecords]
<1>1. \A p \in Requests :
        /\ pools \in [Requests -> PoolRecords] /\ pools[p] \in PoolRecords
        /\ pools[p].leases \in Nat /\ pools[p].idle \in SUBSET Requests
        /\ pools[p].sessions \in SUBSET Requests
  BY PoolFields
<1>2. pools \in [Requests -> PoolRecords]
  BY DEF TypeOK
<1>3. \A a \in Actors : pc[a] \in AtPool => pool[a] \in Requests
  BY PoolOfActor
<1>4. ASSUME NEW r \in Requests, NEW c \in Configs, GetPool(r, c)
      PROVE  pools' \in [Requests -> PoolRecords]
  <2>1. NewPool(c, r) \in PoolRecords /\ (provider # None => NewPool(c, provider) \in PoolRecords)
    BY DEF NewPool, PoolRecords, TypeOK
  <2> QED
    BY <1>2, <1>4, <2>1 DEF GetPool, Find, Create
<1>5. ASSUME NEW r \in Requests, Join(r) PROVE pools' \in [Requests -> PoolRecords]
  BY <1>1, <1>2, <1>3, <1>5 DEF Join, AtPool, Actors, PoolRecords
<1>6. ASSUME NEW r \in Requests, Pop(r) PROVE pools' \in [Requests -> PoolRecords]
  <2>1. pool[r] \in Requests
    BY <1>3, <1>6 DEF Pop, AtPool, HoldsLease, HoldsSlot, Actors
  <2> QED
    <3>1. pools[pool[r]] \in PoolRecords /\ P(r).idle \in SUBSET Requests
      BY <1>1, <2>1 DEF P
    <3>2. CASE UNCHANGED pools
      BY <1>2, <3>2
    <3>3. ASSUME NEW s \in P(r).idle,
                 pools' = [pools EXCEPT ![pool[r]].idle = pools[pool[r]].idle \ {s}]
          PROVE  pools' \in [Requests -> PoolRecords]
      BY <1>2, <2>1, <3>1, <3>3 DEF PoolRecords
    <3> QED
      BY <1>6, <3>2, <3>3 DEF Pop, Without
<1>7. ASSUME NEW r \in Requests, Publish(r) PROVE pools' \in [Requests -> PoolRecords]
  <2>1. pool[r] \in Requests /\ (session[r] # None => session[r] \in Requests)
    BY <1>3, <1>7 DEF Publish, AtPool, HoldsLease, HoldsSlot, Actors, TypeOK
  <2> QED
    BY <1>1, <1>2, <1>7, <2>1 DEF Publish, Accepts, PoolRecords
<1>8. ASSUME NEW r \in Requests, Release(r) PROVE pools' \in [Requests -> PoolRecords]
  <2>1. pool[r] \in Requests /\ session[r] \in Requests
    BY <1>3, <1>8 DEF Release, AtPool, HoldsLease, HoldsSlot, Actors, Sessions, Held, Leased, TypeOK
  <2> QED
    BY <1>1, <1>2, <1>8, <2>1 DEF Release, PoolRecords
<1>9. ASSUME NEW r \in Requests, FinishLease(r) PROVE pools' \in [Requests -> PoolRecords]
  <2>1. pool[r] \in Requests /\ pools[pool[r]].leases - 1 \in Nat
    BY <1>1, <1>9, HeldIsCounted DEF FinishLease, HoldsLease
  <2> QED
    BY <1>1, <1>2, <1>9, <2>1 DEF FinishLease, PoolRecords
<1>10. ASSUME NEW a \in Actors, Forget(a) PROVE pools' \in [Requests -> PoolRecords]
  <2>1. pool[a] \in Requests
    BY <1>3, <1>10 DEF Forget, AtPool
  <2>2. pools[pool[a]] \in PoolRecords
    BY <1>1, <2>1
  <2>3. CASE pools' = [pools EXCEPT ![pool[a]].forgotten = TRUE]
    BY <1>2, <2>1, <2>2, <2>3 DEF PoolRecords
  <2> QED
    BY <1>2, <1>10, <2>3 DEF Forget
<1>11. ASSUME NEW a \in Retirers, CancelPool(a) PROVE pools' \in [Requests -> PoolRecords]
  <2>1. work[a] \subseteq Requests
    BY DEF TypeOK
  <2> QED
    <3>1. PICK p \in work[a] : pools' = [pools EXCEPT ![p].cancelled = TRUE]
      BY <1>11 DEF CancelPool
    <3>2. p \in Requests /\ pools[p] \in PoolRecords
      BY <1>1, <2>1
    <3> QED
      BY <1>2, <3>1, <3>2 DEF PoolRecords
<1>12. ASSUME NEW a \in Retirers, Retire(a) PROVE pools' \in [Requests -> PoolRecords]
  <2>1. pool[a] \in Requests
    BY <1>3, <1>12 DEF Retire, AtPool, Actors
  <2> QED
    <3>1. pools[pool[a]] \in PoolRecords
      BY <1>1, <2>1
    <3>2. pools' = [pools EXCEPT ![pool[a]] = [pools[pool[a]] EXCEPT
                      !.retired = TRUE, !.idle = {}, !.sessions = @ \ pools[pool[a]].idle]]
      BY <1>2, <1>12, <2>1, <3>1 DEF Retire, Closable, P, PoolRecords
    <3>3. [pools[pool[a]] EXCEPT !.retired = TRUE, !.idle = {},
                                 !.sessions = @ \ pools[pool[a]].idle] \in PoolRecords
      BY <3>1 DEF PoolRecords
    <3> QED
      BY <1>2, <2>1, <3>2, <3>3
<1> QED
  <2>1. UNCHANGED pools => pools' \in [Requests -> PoolRecords]
    BY <1>2
  <2> QED
    BY <1>4, <1>5, <1>6, <1>7, <1>8, <1>9, <1>10, <1>11, <1>12, <2>1
    DEF Next, RequestStep, RetireStep, CloseStep, Stopped, Actors, Retirers, vars, TakeSlot,
        GiveUpSlot, Register, Connect, Handover, Discard, FreeSlot, Unlink, Uncount, Leave,
        AfterFunc, PublishCatalog, Expire, BeginClose, CollectPools, CloseIdle, NoMorePools, Close

LEMMA TypeStep ==
    ASSUME TypeOK, Standing, PoolRules, Counts, Sessions, Shutdown, [Next]_vars
    PROVE  TypeOK'
<1>0. CASE UNCHANGED vars
  BY <1>0 DEF TypeOK, vars
<1> SUFFICES ASSUME Next PROVE TypeOK'
  BY <1>0
<1>1. pools' \in [Requests -> PoolRecords]
  BY PoolRecordStep
<1>2. \A p \in Requests : pools[p].idle \in SUBSET Requests
  BY PoolFields
<1>3. \A a \in Actors : pc[a] \in AtPool => pool[a] \in Requests
  BY PoolOfActor
<1> USE HttpPoolAssumption DEF TypeOK, gateway, leases, retirement, Goto
<1>4. ASSUME NEW r \in Requests, NEW c \in Configs, GetPool(r, c) PROVE TypeOK'
  BY <1>1, <1>4 DEF GetPool, Find, Create, Actors, Phases
<1>5. ASSUME NEW r \in Requests, Join(r) \/ FinishLease(r) PROVE TypeOK'
  BY <1>1, <1>5 DEF Join, FinishLease, Phases, Actors
<1>6. ASSUME NEW r \in Requests, TakeSlot(r) PROVE TypeOK'
  <2>1. Slot(r) \in Requests
    BY <1>6, PoolOfActor DEF TakeSlot, AtPool, HoldsLease, Actors, Slot
  <2>2. used' = [used EXCEPT ![Slot(r)] = used[Slot(r)] + 1] /\ used[Slot(r)] + 1 \in 0..Slots
    BY <1>6, <2>1 DEF TakeSlot, HasSlot
  <2>3. used' \in [Requests -> 0..Slots]
    BY <2>1, <2>2
  <2> QED
    BY <1>6, <2>3 DEF TakeSlot, Phases, Actors
<1>7. ASSUME NEW r \in Requests, GiveUpSlot(r) \/ Register(r) PROVE TypeOK'
  BY <1>7 DEF GiveUpSlot, Register, EndContext, Phases, Actors
<1>8. ASSUME NEW r \in Requests, Pop(r) PROVE TypeOK'
  <2>1. pool[r] \in Requests /\ P(r).idle \in SUBSET Requests
    BY <1>2, <1>3, <1>8 DEF Pop, AtPool, HoldsLease, HoldsSlot, Actors, P
  <2> QED
    BY <1>1, <1>8, <2>1 DEF Pop, Phases, Actors
<1>9. ASSUME NEW r \in Requests, Connect(r) PROVE TypeOK'
  BY <1>9 DEF Connect, Phases, Actors
<1>10. ASSUME NEW r \in Requests, Publish(r) \/ Handover(r) PROVE TypeOK'
  BY <1>1, <1>10 DEF Publish, Handover, EndContext, Phases, Actors
<1>11. ASSUME NEW r \in Requests, Release(r) PROVE TypeOK'
  BY <1>1, <1>11 DEF Release, EndContext, Phases, Actors
<1>12. ASSUME NEW r \in Requests, Discard(r) PROVE TypeOK'
  BY <1>12 DEF Discard, Phases, Actors
<1>13. ASSUME NEW r \in Requests, FreeSlot(r) PROVE TypeOK'
  BY <1>13, HeldIsCounted DEF FreeSlot, Freed, HoldsSlot, Phases, Actors
<1>14. ASSUME NEW a \in Actors, Forget(a) PROVE TypeOK'
  BY <1>1, <1>14 DEF Forget, Return, Phases
<1>15. ASSUME NEW a \in Actors, Unlink(a) PROVE TypeOK'
  <2>1. P(a).provider \in Requests /\ owners[P(a).provider] - 1 \in Nat
    BY <1>15, HeldIsCounted DEF Unlink
  <2>2. owners' \in [Requests -> Nat]
    BY <1>15, <2>1 DEF Unlink
  <2> QED
    BY <1>15, <2>2 DEF Unlink, Return, Phases
<1>16. ASSUME NEW r \in Requests, Uncount(r) PROVE TypeOK'
  BY <1>16, HeldIsCounted DEF Uncount, Shutdown, Phases, Actors
<1>17. ASSUME NEW r \in Requests, Leave(r) \/ AfterFunc(r) PROVE TypeOK'
  BY <1>17 DEF Leave, AfterFunc
<1>18. CASE PublishCatalog
  <2>1. Flight \in Retirers /\ {current[c] : c \in Configs \ active'} \ {None} \in SUBSET Requests
    BY DEF Retirers
  <2> QED
    BY <1>18, <2>1 DEF PublishCatalog, Phases, Actors
<1>19. CASE CollectPools
  <2>1. Closer \in Retirers /\ {current[c] : c \in Configs} \ {None} \in SUBSET Requests
    BY DEF Retirers
  <2> QED
    BY <1>19, <2>1 DEF CollectPools, Phases, Actors
<1>20. CASE Expire
  BY <1>20 DEF Expire
<1>25. CASE Close
  BY <1>25 DEF Close, Phases, Actors, Retirers
<1>24. CASE BeginClose
  BY <1>24 DEF BeginClose, Phases, Actors, Retirers
<1>21. ASSUME NEW a \in Retirers, CancelPool(a) PROVE TypeOK'
  BY <1>1, <1>21 DEF CancelPool, Phases, Actors
<1>22. ASSUME NEW a \in Retirers, Retire(a) PROVE TypeOK'
  <2>1. P(a).idle \in SUBSET Requests
    BY <1>2, <1>3, <1>22 DEF Retire, AtPool, Actors, P
  <2> QED
    BY <1>1, <1>22, <2>1 DEF Retire, Closable, Phases, Actors
<1>23. ASSUME NEW a \in Retirers, CloseIdle(a) \/ NoMorePools(a) PROVE TypeOK'
  BY <1>23 DEF CloseIdle, NoMorePools, Phases, Actors
<1> QED
  BY <1>0, <1>4, <1>5, <1>6, <1>7, <1>8, <1>9, <1>10, <1>11, <1>12, <1>13, <1>14, <1>15, <1>16,
     <1>17, <1>18, <1>19, <1>20, <1>21, <1>22, <1>23, <1>24,
     <1>25
  DEF Next, RequestStep, RetireStep, CloseStep, Stopped, Actors, Retirers
-----------------------------------------------------------------------------
\* Pools and actors

(* What a step does to the record of a pool: its configuration and its     *)
(* provider are given once, it is retired and forgotten once, and only a   *)
(* request that starts creates the pool named after it.                    *)
Kept(p) ==
    /\ pools'[p].config = pools[p].config /\ pools'[p].provider = pools[p].provider
    /\ pools[p].retired => pools'[p].retired
    /\ pools[p].forgotten => pools'[p].forgotten
Opens(p) ==
    \E c \in Configs :
      /\ GetPool(p, c) /\ Create(p, c)
      /\ pools'[p] = NewPool(c, IF provider = None THEN p ELSE provider)
LEMMA PoolStep ==
    ASSUME TypeOK, Standing, PoolRules, Next
    PROVE  \A p \in Requests : \/ UNCHANGED pools[p]
                               \/ Created(p) /\ Kept(p)
                               \/ Opens(p)
<1> DEFINE Goal == \A p \in Requests : \/ UNCHANGED pools[p]
                                       \/ Created(p) /\ Kept(p)
                                       \/ Opens(p)
<1> SUFFICES Goal
  OBVIOUS
<1>1. pools \in [Requests -> PoolRecords]
  BY DEF TypeOK
<1>2. \A a \in Actors : pc[a] \in AtPool =>
        pool[a] \in Requests /\ Created(pool[a]) /\ pools[pool[a]] \in PoolRecords
  BY PoolOfActor DEF P
<1>3. UNCHANGED pools => Goal
  OBVIOUS
<1>4. ASSUME NEW r \in Requests, NEW c \in Configs, GetPool(r, c) PROVE Goal
  <2>1. CASE UNCHANGED pools
    BY <2>1
  <2>2. CASE Create(r, c)
    BY <1>1, <1>4, <2>2 DEF Create, Opens
  <2> QED
    BY <1>4, <2>1, <2>2 DEF GetPool, Find
<1>5. ASSUME NEW a \in Actors, pc[a] \in AtPool,
             \A q \in Requests : q # pool[a] => UNCHANGED pools[q],
             Kept(pool[a])
      PROVE  Goal
  BY <1>2, <1>5
<1> HIDE DEF Goal
<1>6. ASSUME NEW r \in Requests, Join(r) \/ FinishLease(r) PROVE Goal
  <2>1. r \in Actors /\ pc[r] \in AtPool
    BY <1>6 DEF Join, FinishLease, AtPool, HoldsLease, Actors
  <2> QED
    BY <1>1, <1>2, <1>3, <1>5, <1>6, <2>1 DEF Join, FinishLease, Kept, PoolRecords
<1>7. ASSUME NEW r \in Requests, Pop(r) \/ Publish(r) \/ Release(r) PROVE Goal
  <2>1. r \in Actors /\ pc[r] \in AtPool
    BY <1>7 DEF Pop, Publish, Release, AtPool, HoldsLease, HoldsSlot, Actors
  <2>2. pool[r] \in Requests /\ pools[pool[r]] \in PoolRecords
    BY <1>2, <2>1
  <2>3. \/ UNCHANGED pools
        \/ \E S : pools' = [pools EXCEPT ![pool[r]].idle = S]
        \/ \E S : pools' = [pools EXCEPT ![pool[r]].sessions = S]
    BY <1>7 DEF Pop, Publish, Release
  <2>4. ASSUME NEW S, \/ pools' = [pools EXCEPT ![pool[r]].idle = S]
                      \/ pools' = [pools EXCEPT ![pool[r]].sessions = S]
        PROVE  Goal
    <3>1. Kept(pool[r])
      BY <1>1, <2>2, <2>4 DEF Kept, PoolRecords
    <3> QED
      BY <1>1, <1>5, <2>1, <2>2, <2>4, <3>1
  <2> QED
    BY <1>3, <2>3, <2>4
<1>8. ASSUME NEW a \in Actors, Forget(a) PROVE Goal
  <2>1. pc[a] \in AtPool
    BY <1>8 DEF Forget, AtPool
  <2> QED
    BY <1>1, <1>2, <1>3, <1>5, <1>8, <2>1 DEF Forget, Kept, PoolRecords
<1>9. ASSUME NEW a \in Retirers, CancelPool(a) PROVE Goal
  <2>1. PICK p \in work[a] : pools' = [pools EXCEPT ![p].cancelled = TRUE]
    BY <1>9 DEF CancelPool
  <2>2. p \in Requests /\ Created(p)
    BY DEF Standing, TypeOK
  <2>3. pools[p] \in PoolRecords
    BY <1>1, <2>2
  <2>4. Kept(p)
    BY <1>1, <2>1, <2>2, <2>3 DEF Kept, PoolRecords
  <2> QED
    BY <1>1, <2>1, <2>2, <2>4 DEF Goal
<1>10. ASSUME NEW a \in Retirers, Retire(a) PROVE Goal
  <2>1. a \in Actors /\ pc[a] \in AtPool
    BY <1>10 DEF Retire, AtPool, Actors
  <2>2. pool[a] \in Requests /\ pools[pool[a]] \in PoolRecords
    BY <1>2, <2>1
  <2>3. Kept(pool[a])
    BY <1>1, <1>10, <2>2 DEF Retire, Kept, PoolRecords
  <2> QED
    BY <1>1, <1>5, <1>10, <2>1, <2>2, <2>3 DEF Retire
<1> QED
  BY <1>3, <1>4, <1>6, <1>7, <1>8, <1>9, <1>10
  DEF Next, RequestStep, RetireStep, CloseStep, Stopped, Actors, Retirers, vars, TakeSlot,
      GiveUpSlot, Register, Connect, Handover, Discard, FreeSlot, Unlink, Uncount, Leave,
      AfterFunc, PublishCatalog, Expire, BeginClose, CollectPools, CloseIdle, NoMorePools, Close
(* Each actor works on a pool that was created, and no request that has    *)
(* not started has left a trace.                                           *)
LEMMA StandingStep ==
    ASSUME TypeOK, Standing, PoolRules, Sessions, Next
    PROVE  Standing'
<1> USE HttpPoolAssumption
<1>1. \A p \in Requests : Created(p) => Created(p)' /\ pools'[p].config = pools[p].config
  <2>1. ASSUME NEW p \in Requests, Opens(p) PROVE ~Created(p)
    BY <2>1 DEF Opens, GetPool, Created, NewPool, Standing
  <2> QED
    BY <2>1, PoolStep DEF Kept, Created
<1>2. \A p \in Requests : ~Created(p) => UNCHANGED pools[p] \/ Opens(p)
  BY PoolStep
<1>3. \A p \in Requests : Opens(p) => pc'[p] # "idle" /\ Created(p)'
  BY DEF Opens, Create, Goto, Created, NewPool, TypeOK, Actors
<1>4. pc \in [Actors -> Phases] /\ pool \in [Actors -> Requests \cup {None}]
      /\ conn \in [Requests -> {"none", "open", "closed"}]
      /\ current \in [Configs -> Requests \cup {None}] /\ work \in [Retirers -> SUBSET Requests]
  BY DEF TypeOK
<1> DEFINE Started == \A r \in Requests :
             (pc[r] = "idle" => pools[r] = NewPool(None, None) /\ conn[r] = "none")'
           Linked == \A c \in Configs : (current[c] # None => pools[current[c]].config = c)'
           Listed == \A a \in Retirers : \A p \in work'[a] : Created(p)'
           Placed == /\ \A a \in Actors : (pc[a] \in AtPool => pool[a] # None)'
                     /\ \A a \in Actors : (pool[a] # None => Created(pool[a]))'
                     /\ \A a \in Retirers : (pc[a] \notin HoldsLease)'
                     /\ \A r \in Requests : (pc[r] \notin {"next", "retire", "closeidle"})'
<1>5. Started
  <2> DEFINE Begun == \A r \in Requests : pc'[r] = "idle" => pc[r] = "idle"
             Silent == \A r \in Requests : pc[r] = "idle" /\ pc'[r] = "idle" => conn'[r] = conn[r]
  <2>1. Begun
    <3>1. ASSUME NEW r \in Requests,
                 \/ \E c \in Configs : GetPool(r, c)
                 \/ Join(r) \/ TakeSlot(r) \/ GiveUpSlot(r) \/ Register(r) \/ Pop(r) \/ Connect(r)
                 \/ Publish(r) \/ Handover(r) \/ Release(r) \/ Discard(r) \/ FreeSlot(r)
                 \/ FinishLease(r) \/ Uncount(r)
          PROVE  Begun
      BY <1>4, <3>1 DEF Actors, GetPool, Find, Create, Join, TakeSlot, GiveUpSlot, Register, Pop,
         Connect, Publish, Handover, Release, Discard, FreeSlot, FinishLease, Uncount, Goto
    <3>2. ASSUME NEW a \in Actors, Forget(a) \/ Unlink(a) PROVE Begun
      BY <1>4, <3>2 DEF Actors, Forget, Unlink, Return, Goto
    <3>3. ASSUME NEW a \in Retirers, NEW to, Goto(a, to) PROVE Begun
      BY <1>4, <3>3 DEF Actors, Goto
    <3>4. UNCHANGED pc => Begun
      OBVIOUS
    <3> HIDE DEF Begun
    <3> QED
      BY <3>1, <3>2, <3>3, <3>4 DEF Next, RequestStep, RetireStep, CloseStep, Stopped, Actors,
         Retirers, vars, Leave, AfterFunc, PublishCatalog, Expire, BeginClose, CollectPools,
         CancelPool, Retire, CloseIdle, NoMorePools, Close
  <2>2. Silent
    <3>1. ASSUME NEW r \in Requests, pc[r] = "idle"
          PROVE  /\ \A q \in Requests : session[q] # r
                 /\ \A a \in Retirers : r \notin closing[a]
      BY <3>1 DEF Standing, Sessions, OpenPlaces
    <3>2. ASSUME NEW r \in Requests, Connect(r) \/ Discard(r) PROVE Silent
      BY <1>4, <3>1, <3>2 DEF Connect, Discard
    <3>3. ASSUME NEW a \in Retirers, CloseIdle(a) PROVE Silent
      BY <1>4, <3>1, <3>3 DEF CloseIdle
    <3>4. UNCHANGED conn => Silent
      OBVIOUS
    <3> HIDE DEF Silent
    <3>5. ASSUME NEW a, Forget(a) \/ Unlink(a) PROVE Silent
      BY <3>4, <3>5 DEF Forget, Unlink, leases
    <3>6. ASSUME NEW r \in Requests, RequestStep(r) PROVE Silent
      BY <3>2, <3>4, <3>5, <3>6 DEF RequestStep, Join, TakeSlot, GiveUpSlot, Register, Pop, Publish,
         Handover, Release, FreeSlot, FinishLease, Uncount, leases
    <3>7. ASSUME NEW a \in Retirers, RetireStep(a) PROVE Silent
      BY <3>3, <3>4, <3>5, <3>7 DEF RetireStep, CancelPool, Retire, NoMorePools, leases
    <3>8. CASE \/ (\E r \in Requests : Leave(r) \/ AfterFunc(r) \/ \E c \in Configs : GetPool(r, c))
               \/ PublishCatalog \/ Expire \/ BeginClose \/ CollectPools \/ Close \/ UNCHANGED vars
      BY <3>4, <3>8 DEF Leave, AfterFunc, GetPool, PublishCatalog, Expire, BeginClose, CollectPools,
         Close, vars, leases
    <3> QED
      BY <3>6, <3>7, <3>8 DEF Next, CloseStep, Stopped, Retirers
  <2> QED
    <3>1. ASSUME NEW r \in Requests, pc'[r] = "idle"
          PROVE  pools'[r] = NewPool(None, None) /\ conn'[r] = "none"
      <4>1. pc[r] = "idle" /\ pools[r] = NewPool(None, None) /\ conn[r] = "none"
        BY <2>1, <3>1 DEF Standing
      <4>2. ~Created(r)
        BY <4>1 DEF Created, NewPool
      <4> QED
        BY <1>2, <1>3, <2>2, <3>1, <4>1, <4>2
    <3>2. NewPool(None, None)' = NewPool(None, None)
      BY DEF NewPool
    <3> QED
      BY <3>1, <3>2
<1>6. Placed
  <2>1. ASSUME NEW r \in Requests, NEW c \in Configs, GetPool(r, c) PROVE Placed
    <3>1. current[c] # None => Created(current[c])
      BY DEF Standing, Created
    <3>2. CASE Find(r, c) /\ current[c] # None
      BY <1>1, <1>4, <3>1, <3>2 DEF Find, Goto, Standing, Actors, AtPool, HoldsLease, HoldsSlot
    <3>3. CASE Create(r, c)
      <4>1. Created(r)'
        BY <3>3 DEF Create, Created, NewPool, TypeOK
      <4> QED
        BY <1>1, <1>4, <4>1, <3>3 DEF Create, Goto, Standing, Actors, AtPool, HoldsLease, HoldsSlot
    <3>4. CASE Goto(r, "done") /\ UNCHANGED pool
      BY <1>1, <1>4, <3>4 DEF Goto, Standing, Actors, AtPool, HoldsLease, HoldsSlot
    <3> QED
      BY <2>1, <3>2, <3>3, <3>4 DEF GetPool
  <2>2. ASSUME NEW a \in Actors, Forget(a) \/ Unlink(a) PROVE Placed
    BY <1>1, <1>4, <2>2
    DEF Forget, Unlink, Return, Goto, Standing, Actors, AtPool, HoldsLease, HoldsSlot
  <2>3. ASSUME NEW a \in Retirers, CancelPool(a) PROVE Placed
    <3>1. PICK p \in work[a] : pool' = [pool EXCEPT ![a] = p]
      BY <2>3 DEF CancelPool
    <3>2. p \in Requests /\ Created(p)
      BY <1>4 DEF Standing
    <3> QED
      BY <1>1, <1>4, <2>3, <3>1, <3>2
      DEF CancelPool, Goto, Standing, Actors, AtPool, HoldsLease, HoldsSlot
  <2>4. ASSUME NEW a \in Actors, NEW to \in Phases, pc' = [pc EXCEPT ![a] = to], UNCHANGED pool,
               pc[a] \in AtPool \/ to \notin AtPool,
               IF a \in Requests THEN to \notin {"next", "retire", "closeidle"}
               ELSE to \notin HoldsLease
        PROVE  Placed
    BY <1>1, <1>4, <2>4 DEF Standing, Actors
  <2>5. CASE UNCHANGED <<pc, pool>>
    BY <1>1, <1>4, <2>5 DEF Standing
  <2> HIDE DEF Placed
  <2>6. ASSUME NEW r \in Requests, \/ Join(r) \/ TakeSlot(r) \/ GiveUpSlot(r) \/ Register(r)
                                   \/ Pop(r) \/ Connect(r) \/ Publish(r) \/ Handover(r)
        PROVE  Placed
    BY <2>4, <2>6 DEF Join, TakeSlot, GiveUpSlot, Register, Pop, Connect, Publish, Handover, Goto,
       Actors, Phases, AtPool, HoldsLease, HoldsSlot
  <2>7. ASSUME NEW r \in Requests, \/ Release(r) \/ Discard(r) \/ FreeSlot(r) \/ FinishLease(r)
                                   \/ Uncount(r)
        PROVE  Placed
    BY <2>4, <2>7 DEF Release, Discard, FreeSlot, FinishLease, Uncount, Goto, leases,
       Actors, Phases, AtPool, HoldsLease, HoldsSlot
  <2>8. ASSUME NEW a \in Retirers, Retire(a) \/ CloseIdle(a) \/ NoMorePools(a) PROVE Placed
    BY <2>4, <2>8 DEF Retire, CloseIdle, NoMorePools, Goto, Actors, Phases, AtPool, HoldsLease,
       HoldsSlot
  <2>9. CASE PublishCatalog \/ BeginClose \/ CollectPools \/ Close
    BY <2>4, <2>9 DEF PublishCatalog, BeginClose, CollectPools, Close, Goto, Actors, Retirers,
       Phases, AtPool, HoldsLease, HoldsSlot
  <2> QED
    BY <2>1, <2>2, <2>3, <2>5, <2>6, <2>7, <2>8, <2>9
    DEF Next, RequestStep, RetireStep, CloseStep, Stopped, vars, Leave, AfterFunc, Expire, Actors,
        Retirers
<1>7. Linked
  <2>1. UNCHANGED current => Linked
    BY <1>1, <1>4 DEF Standing, Created
  <2>2. ASSUME NEW r \in Requests, NEW c \in Configs, Create(r, c) PROVE Linked
    BY <1>1, <1>4, <2>2 DEF Standing, Created, Create, NewPool, TypeOK
  <2>3. ASSUME NEW a \in Actors, Unlink(a) PROVE Linked
    BY <1>1, <1>4, <2>3 DEF Standing, Created, Unlink
  <2>4. CollectPools => Linked
    BY DEF CollectPools
  <2> HIDE DEF Linked
  <2>5. ASSUME NEW a \in Actors, Forget(a) \/ Unlink(a) PROVE Linked
    BY <2>1, <2>3, <2>5 DEF Forget, gateway
  <2>6. ASSUME NEW r \in Requests, NEW c \in Configs, GetPool(r, c) PROVE Linked
    BY <2>1, <2>2, <2>6 DEF GetPool, Find
  <2>7. ASSUME NEW r \in Requests, \/ RequestStep(r) \/ Leave(r) \/ AfterFunc(r) PROVE Linked
    BY <2>1, <2>5, <2>7 DEF RequestStep, Join, TakeSlot, GiveUpSlot, Register, Pop, Connect,
       Publish, Handover, Release, Discard, FreeSlot, FinishLease, Uncount, Leave, AfterFunc, Actors,
       gateway
  <2>8. ASSUME NEW a \in Retirers, RetireStep(a) PROVE Linked
    BY <2>1, <2>5, <2>8 DEF RetireStep, CancelPool, Retire, CloseIdle, NoMorePools, Actors, gateway
  <2>9. CASE PublishCatalog \/ Expire \/ BeginClose \/ Close \/ UNCHANGED vars
    BY <2>1, <2>9 DEF PublishCatalog, Expire, BeginClose, Close, vars, gateway
  <2> QED
    BY <2>4, <2>6, <2>7, <2>8, <2>9 DEF Next, CloseStep, Stopped, Retirers
<1>8. Listed
  <2>1. \A c \in Configs : current[c] # None => Created(current[c])
    BY DEF Standing, Created
  <2>2. UNCHANGED work => Listed
    BY <1>1, <1>4 DEF Standing
  <2>3. CASE PublishCatalog \/ CollectPools
    BY <1>1, <1>4, <2>1, <2>3 DEF Standing, PublishCatalog, CollectPools
  <2>4. ASSUME NEW a \in Retirers, CancelPool(a) PROVE Listed
    BY <1>1, <1>4, <2>4 DEF Standing, CancelPool
  <2> HIDE DEF Listed
  <2>5. ASSUME NEW a, Forget(a) \/ Unlink(a) PROVE Listed
    BY <2>2, <2>5 DEF Forget, Unlink, retirement
  <2>6. ASSUME NEW r \in Requests, NEW c, GetPool(r, c) PROVE Listed
    BY <2>2, <2>6 DEF GetPool, Find, retirement
  <2>7. ASSUME NEW r \in Requests, \/ RequestStep(r) \/ Leave(r) \/ AfterFunc(r)
        PROVE  Listed
    BY <2>2, <2>5, <2>7 DEF RequestStep, Join, TakeSlot, GiveUpSlot, Register, Pop,
       Connect, Publish, Handover, Release, Discard, FreeSlot, FinishLease, Uncount,
       Leave, AfterFunc, retirement
  <2>8. ASSUME NEW a \in Retirers, RetireStep(a) PROVE Listed
    BY <2>2, <2>4, <2>5, <2>8 DEF RetireStep, Retire, CloseIdle, NoMorePools, retirement
  <2>9. CASE BeginClose \/ Close \/ Expire \/ UNCHANGED vars
    BY <2>2, <2>9 DEF BeginClose, Close, Expire, vars, retirement
  <2> QED
    BY <2>3, <2>6, <2>7, <2>8, <2>9 DEF Next, CloseStep, Stopped, Retirers
<1>9. \A p \in Requests : (~Created(p) => pools[p].idle = {})'
  BY <1>1, <1>2, <1>3 DEF Standing, Created
<1> QED
  BY <1>5, <1>6, <1>7, <1>8, <1>9 DEF Standing

(* Steps but a creation and the two of forgetIfUnused leave it open which  *)
(* pools are live.                                                         *)
SameUnlinking ==
    \A a \in Actors : /\ pc'[a] = "unlink" <=> pc[a] = "unlink"
                      /\ pc[a] = "unlink" => pool'[a] = pool[a]
SameRecord(p) ==
    /\ pools'[p].config = pools[p].config /\ pools'[p].provider = pools[p].provider
    /\ pools'[p].forgotten <=> pools[p].forgotten
    /\ pools[p].retired => pools'[p].retired
    /\ pools[p].forgotten => pools'[p].leases = pools[p].leases
SamePools == SameUnlinking /\ \A p \in Requests : SameRecord(p)

LEMMA QuietStep ==
    ASSUME TypeOK, Standing, PoolRules, Counts, Next
    PROVE  \/ \E r \in Requests, c \in Configs : GetPool(r, c) /\ Create(r, c)
           \/ \E a \in Actors : Forget(a) \/ Unlink(a)
           \/ SamePools /\ UNCHANGED <<provider, owners>>
<1> DEFINE Quiet == SamePools /\ UNCHANGED <<provider, owners>>
<1>1. /\ pc \in [Actors -> Phases] /\ pool \in [Actors -> Requests \cup {None}]
      /\ pools \in [Requests -> PoolRecords]
  BY DEF TypeOK
<1>2. \A a \in Actors : pc[a] \in AtPool =>
        pool[a] \in Requests /\ pools[pool[a]] \in PoolRecords /\ Created(pool[a])
  BY PoolOfActor DEF P
<1>3. ASSUME UNCHANGED <<pools, provider, owners>>, SameUnlinking PROVE Quiet
  BY <1>3 DEF SamePools, SameRecord
<1>4. ASSUME UNCHANGED <<provider, owners>>, SameUnlinking, NEW q \in Requests, SameRecord(q),
             \A p \in Requests : p # q => UNCHANGED pools[p]
      PROVE  Quiet
  BY <1>4 DEF SamePools, SameRecord
<1>5. ASSUME NEW a \in Actors, NEW to, pc' = [pc EXCEPT ![a] = to], pc[a] # "unlink", to # "unlink",
             \A b \in Actors : b # a => pool'[b] = pool[b]
      PROVE  SameUnlinking
  BY <1>1, <1>5 DEF SameUnlinking
<1>6. UNCHANGED <<pc, pool>> => SameUnlinking
  BY DEF SameUnlinking
<1> HIDE DEF Quiet
<1>7. ASSUME NEW r \in Requests, NEW c \in Configs, GetPool(r, c) PROVE Create(r, c) \/ Quiet
  BY <1>1, <1>3, <1>5, <1>7 DEF GetPool, Find, Goto, Actors
<1>8. ASSUME NEW r \in Requests, Join(r) \/ FinishLease(r) PROVE Quiet
  <2>1. r \in Actors /\ pool[r] \in Requests /\ pools[pool[r]] \in PoolRecords
    BY <1>2, <1>8 DEF Join, FinishLease, AtPool, HoldsLease, Actors
  <2>2. SameUnlinking /\ UNCHANGED <<provider, owners>>
    BY <1>5, <1>8, <2>1 DEF Join, FinishLease, Goto, gateway
  <2>3. pools[pool[r]].forgotten => pools[pool[r]].retired /\ pc[r] # "unlease"
    BY <2>1, HeldIsCounted DEF PoolRules, HoldsLease
  <2>4. SameRecord(pool[r])
    BY <1>1, <1>8, <2>1, <2>3 DEF Join, FinishLease, SameRecord, PoolRecords, P
  <2> QED
    BY <1>1, <1>3, <1>4, <1>8, <2>1, <2>2, <2>4 DEF Join, FinishLease
<1>9. ASSUME NEW r \in Requests, Pop(r) \/ Publish(r) \/ Release(r) PROVE Quiet
  <2>1. r \in Actors /\ pool[r] \in Requests /\ pools[pool[r]] \in PoolRecords
    BY <1>2, <1>9 DEF Pop, Publish, Release, AtPool, HoldsLease, HoldsSlot, Actors
  <2>2. SameUnlinking /\ UNCHANGED <<provider, owners>>
    BY <1>5, <1>9, <2>1 DEF Pop, Publish, Release, Goto, gateway
  <2>3. \/ UNCHANGED pools
        \/ \E S : pools' = [pools EXCEPT ![pool[r]].idle = S]
        \/ \E S : pools' = [pools EXCEPT ![pool[r]].sessions = S]
    BY <1>9 DEF Pop, Publish, Release
  <2>4. ASSUME NEW S, \/ pools' = [pools EXCEPT ![pool[r]].idle = S]
                      \/ pools' = [pools EXCEPT ![pool[r]].sessions = S]
        PROVE  Quiet
    <3>1. SameRecord(pool[r])
      BY <1>1, <2>1, <2>4 DEF SameRecord, PoolRecords
    <3> QED
      BY <1>1, <1>4, <2>1, <2>2, <2>4, <3>1
  <2> QED
    BY <1>3, <2>2, <2>3, <2>4
<1>10. ASSUME NEW r \in Requests, \/ TakeSlot(r) \/ GiveUpSlot(r) \/ Register(r) \/ Connect(r)
                                  \/ Handover(r) \/ Discard(r) \/ FreeSlot(r) \/ Uncount(r)
                                  \/ Leave(r) \/ AfterFunc(r)
       PROVE  Quiet
  BY <1>3, <1>5, <1>6, <1>10 DEF TakeSlot, GiveUpSlot, Register, Connect, Handover, Discard, FreeSlot,
     Uncount, Leave, AfterFunc, Goto, gateway, Actors
<1>11. ASSUME NEW a \in Retirers, CancelPool(a) PROVE Quiet
  <2>1. PICK p \in work[a] : /\ pools' = [pools EXCEPT ![p].cancelled = TRUE]
                             /\ pool' = [pool EXCEPT ![a] = p]
    BY <1>11 DEF CancelPool
  <2>2. p \in Requests /\ a \in Actors
    BY DEF TypeOK, Actors
  <2>3. pools[p] \in PoolRecords
    BY <1>1, <2>2
  <2>4. SameRecord(p)
    BY <1>1, <2>1, <2>2, <2>3 DEF SameRecord, PoolRecords
  <2>5. SameUnlinking /\ UNCHANGED <<provider, owners>>
    BY <1>1, <1>5, <1>11, <2>1, <2>2 DEF CancelPool, Goto, gateway
  <2> QED
    BY <1>1, <1>4, <2>1, <2>2, <2>4, <2>5
<1>12. ASSUME NEW a \in Retirers, Retire(a) PROVE Quiet
  <2>1. a \in Actors /\ pool[a] \in Requests /\ pools[pool[a]] \in PoolRecords
    BY <1>2, <1>12 DEF Retire, AtPool, Actors
  <2>2. SameRecord(pool[a])
    BY <1>1, <1>12, <2>1 DEF Retire, SameRecord, PoolRecords
  <2>3. SameUnlinking /\ UNCHANGED <<provider, owners>>
    BY <1>5, <1>12, <2>1 DEF Retire, Goto, gateway
  <2> QED
    BY <1>1, <1>4, <1>12, <2>1, <2>2, <2>3 DEF Retire
<1>13. ASSUME NEW a \in Retirers, CloseIdle(a) \/ NoMorePools(a) PROVE Quiet
  BY <1>3, <1>5, <1>13 DEF CloseIdle, NoMorePools, Goto, gateway, Actors
<1>14. ASSUME PublishCatalog \/ BeginClose \/ CollectPools \/ Close PROVE Quiet
  <2>1. Flight \in Actors /\ Closer \in Actors
    BY DEF Actors, Retirers
  <2>2. UNCHANGED <<pools, provider, owners, pool>>
    BY <1>14 DEF PublishCatalog, BeginClose, CollectPools, Close, gateway
  <2>3. SameUnlinking
    BY <1>5, <1>14, <2>1, <2>2 DEF PublishCatalog, BeginClose, CollectPools, Close, Goto
  <2> QED
    BY <1>3, <2>2, <2>3
<1>16. ASSUME Expire PROVE Quiet
  BY <1>3, <1>6, <1>16 DEF Expire
<1>15. UNCHANGED vars => Quiet
  BY <1>3, <1>6 DEF vars
<1> QED
  BY <1>7, <1>8, <1>9, <1>10, <1>11, <1>12, <1>13, <1>14, <1>15, <1>16
  DEF Next, RequestStep, RetireStep, CloseStep, Stopped, Actors, Retirers, Quiet
(* A pool that is live keeps the provider of the tool, which changes only  *)
(* when its last pool goes.                                                *)
LEMMA PoolRulesStep ==
    ASSUME TypeOK, Standing, PoolRules, Counts, Next
    PROVE  PoolRules'
<1> USE HttpPoolAssumption
<1>1. /\ pc \in [Actors -> Phases] /\ pool \in [Actors -> Requests \cup {None}]
      /\ pools \in [Requests -> PoolRecords] /\ provider \in Requests \cup {None}
  BY DEF TypeOK
<1>2. \A a \in Actors : pc[a] \in AtPool =>
        pool[a] \in Requests /\ pools[pool[a]] \in PoolRecords /\ Created(pool[a])
  BY PoolOfActor DEF P
<1>3. CASE SamePools /\ UNCHANGED <<provider, owners>>
  <2>1. \A p \in Requests : SameRecord(p)
    BY <1>3 DEF SamePools
  <2>2. \A a \in Actors : /\ pc'[a] = "unlink" <=> pc[a] = "unlink"
                          /\ pc[a] = "unlink" => pool'[a] = pool[a] /\ pool[a] \in Requests
    BY <1>2, <1>3 DEF SamePools, SameUnlinking, AtPool
  <2>3. \A p \in Requests : Live(p)' => Live(p)
    BY <2>1, <2>2 DEF Live, Unlinking, Created, SameRecord
  <2> QED
    BY <1>3, <2>1, <2>2, <2>3 DEF PoolRules, SameRecord, Created
<1>4. ASSUME NEW r \in Requests, NEW c \in Configs, GetPool(r, c), Create(r, c) PROVE PoolRules'
  <2> DEFINE v == IF provider = None THEN r ELSE provider
  <2>1. pools[r] = NewPool(None, None) /\ pc[r] = "idle"
    BY <1>4 DEF GetPool, Standing
  <2>2. /\ pools' = [pools EXCEPT ![r] = NewPool(c, v)] /\ provider' = v /\ v \in Requests
        /\ pc' = [pc EXCEPT ![r] = "join"] /\ pool' = [pool EXCEPT ![r] = r]
    BY <1>1, <1>4 DEF Create, Goto
  <2>3. \A a \in Actors : /\ pc'[a] = "unlink" <=> pc[a] = "unlink"
                          /\ pc[a] = "unlink" => /\ pool'[a] = pool[a] /\ pool[a] \in Requests
                                                 /\ pool[a] # r
    BY <1>1, <1>2, <2>1, <2>2 DEF AtPool, Created, NewPool, Actors
  <2>4. \A p \in Requests : p # r => UNCHANGED pools[p]
    BY <1>1, <2>2
  <2>5. /\ pools'[r].config = c /\ pools'[r].provider = v /\ ~pools'[r].forgotten
    BY <1>1, <2>2 DEF NewPool
  <2>6. \A p \in Requests : p # r /\ Live(p)' => Live(p)
    BY <2>3, <2>4 DEF Live, Unlinking, Created
  <2>7. \A p \in Requests : Live(p) => pools[p].provider = v
    BY DEF PoolRules, Live
  <2> QED
    BY <2>2, <2>3, <2>4, <2>5, <2>6, <2>7 DEF PoolRules, Created
<1>5. ASSUME NEW a \in Actors, Forget(a) PROVE PoolRules'
  <2> DEFINE p == pool[a]
  <2>1. /\ p \in Requests /\ pools[p] \in PoolRecords /\ Created(p) /\ pc[a] = "forget"
        /\ provider' = provider
    BY <1>2, <1>5 DEF Forget, AtPool, gateway
  <2>2. CASE /\ Unused(P(a)) /\ ~P(a).forgotten /\ pools' = [pools EXCEPT ![p].forgotten = TRUE]
             /\ pc' = [pc EXCEPT ![a] = "unlink"] /\ pool' = pool
    <3>1. /\ pools'[p].config = pools[p].config /\ pools'[p].provider = pools[p].provider
          /\ pools'[p].retired /\ pools'[p].leases = 0 /\ pools'[p].forgotten
      BY <1>1, <2>1, <2>2 DEF Unused, P, PoolRecords
    <3>2. \A q \in Requests : q # p => UNCHANGED pools[q]
      BY <1>1, <2>1, <2>2
    <3>3. \A b \in Actors : pc'[b] = "unlink" <=> pc[b] = "unlink" \/ b = a
      BY <1>1, <2>2
    <3>4. \A b \in Actors : pc[b] = "unlink" => pool[b] \in Requests /\ pool[b] # p
      BY <1>2, <2>2 DEF PoolRules, AtPool, P
    <3>5. \A q \in Requests : Live(q)' => Live(q)
      BY <2>1, <2>2, <3>1, <3>2, <3>3 DEF Live, Unlinking, Created, P
    <3> QED
      BY <2>1, <2>2, <3>1, <3>2, <3>3, <3>4, <3>5 DEF PoolRules, Created
  <2>3. CASE /\ UNCHANGED pools /\ pc' = [pc EXCEPT ![a] = Return(a)]
             /\ pool' = [pool EXCEPT ![a] = None]
    <3>1. \A b \in Actors : /\ pc'[b] = "unlink" <=> pc[b] = "unlink"
                            /\ pc[b] = "unlink" => pool'[b] = pool[b]
      BY <1>1, <2>1, <2>3 DEF Return
    <3>2. \A q \in Requests : Live(q)' => Live(q)
      BY <2>3, <3>1 DEF Live, Unlinking, Created
    <3> QED
      BY <2>1, <2>3, <3>1, <3>2 DEF PoolRules, Created
  <2> QED
    BY <1>5, <2>2, <2>3 DEF Forget, Goto
<1>6. ASSUME NEW a \in Actors, Unlink(a) PROVE PoolRules'
  <2> DEFINE p == pool[a]
             v == pools[p].provider
  <2>1. p \in Requests /\ Created(p) /\ pc[a] = "unlink" /\ v \in Requests
    BY <1>6, PoolOfActor DEF Unlink, AtPool, P
  <2>2. /\ UNCHANGED pools /\ pc' = [pc EXCEPT ![a] = Return(a)]
        /\ pool' = [pool EXCEPT ![a] = None]
        /\ provider' = IF owners[v] = 1 /\ provider = v THEN None ELSE provider
    BY <1>6 DEF Unlink, Goto, P
  <2>3. \A b \in Actors : /\ pc'[b] = "unlink" <=> pc[b] = "unlink" /\ b # a
                          /\ b # a => pool'[b] = pool[b]
    BY <1>1, <2>2 DEF Return
  <2>4. \A q \in Requests : Live(q)' => Live(q) /\ q # p
    BY <2>1, <2>2, <2>3 DEF Live, Unlinking, Created, PoolRules
  <2>5. ASSUME NEW q \in Requests, Live(q)' PROVE pools'[q].provider = provider'
    <3>1. Live(q) /\ q # p /\ pools[q].provider = provider
      BY <2>4, <2>5 DEF PoolRules
    <3>2. Live(p)
      BY <2>1 DEF Live, Unlinking
    <3>3. CASE owners[v] = 1 /\ provider = v
      <4>1. p \in PoolsOf(v) /\ q \in PoolsOf(v) /\ PoolsOf(v) \in SUBSET Requests
        BY <2>1, <3>1, <3>2, <3>3 DEF PoolsOf
      <4>2. Cardinality(PoolsOf(v)) = 1 /\ IsFiniteSet(PoolsOf(v))
        BY <2>1, <3>3, <4>1, SomeRequests DEF Counts
      <4>3. \E x : PoolsOf(v) = {x}
        BY <4>2, FS_Singleton
      <4> QED
        BY <3>1, <4>1, <4>3
    <3> QED
      BY <2>2, <3>1, <3>3
  <2> QED
    BY <2>2, <2>3, <2>5 DEF PoolRules, Created
<1> QED
  BY <1>3, <1>4, <1>5, <1>6, QuietStep
-----------------------------------------------------------------------------
\* Counters count

(* Steps but four leave it as it is who has a lease and who a slot.        *)
SameHolders ==
    \A r \in Requests : /\ pc'[r] \in HoldsLease <=> pc[r] \in HoldsLease
                        /\ pc'[r] \in HoldsSlot <=> pc[r] \in HoldsSlot
                        /\ pc[r] \in HoldsLease => pool'[r] = pool[r]
SameLeases == \A p \in Requests : pools'[p].leases = pools[p].leases

LEMMA HoldersStep ==
    ASSUME TypeOK, Standing, PoolRules, Next
    PROVE  \/ \E r \in Requests, c \in Configs : GetPool(r, c) /\ Create(r, c)
           \/ \E r \in Requests : Join(r) \/ FinishLease(r) \/ TakeSlot(r) \/ FreeSlot(r)
           \/ SameHolders /\ SameLeases /\ UNCHANGED used
<1> DEFINE Quiet == SameHolders /\ SameLeases /\ UNCHANGED used
<1>1. /\ pc \in [Actors -> Phases] /\ pool \in [Actors -> Requests \cup {None}]
      /\ pools \in [Requests -> PoolRecords]
  BY DEF TypeOK
<1>2. \A a \in Actors : pc[a] \in AtPool => pool[a] \in Requests /\ pools[pool[a]] \in PoolRecords
  BY PoolOfActor DEF P
<1>3. ASSUME SameLeases, UNCHANGED used, NEW a \in Actors, NEW to, pc' = [pc EXCEPT ![a] = to],
             \A b \in Actors : b # a \/ pc[a] \in HoldsLease => pool'[b] = pool[b],
             a \notin Retirers => (pc[a] \in HoldsLease <=> to \in HoldsLease),
             a \notin Retirers => (pc[a] \in HoldsSlot <=> to \in HoldsSlot)
      PROVE  Quiet
  BY <1>1, <1>3, HttpPoolAssumption DEF SameHolders, Actors
<1>4. UNCHANGED pools => SameLeases
  BY DEF SameLeases
<1>5. UNCHANGED <<pc, pool, used, pools>> => Quiet
  BY DEF SameHolders, SameLeases
<1>6. ASSUME NEW q \in Requests, pools'[q].leases = pools[q].leases,
             \A p \in Requests : p # q => UNCHANGED pools[p]
      PROVE  SameLeases
  BY <1>6 DEF SameLeases
<1> HIDE DEF Quiet
<1>7. ASSUME NEW r \in Requests, NEW c \in Configs, GetPool(r, c) PROVE Create(r, c) \/ Quiet
  <2>1. r \in Actors /\ pc[r] = "idle"
    BY <1>7 DEF Actors, GetPool
  <2>2. CASE Find(r, c)
    BY <1>1, <1>3, <1>4, <2>1, <2>2 DEF Find, Goto, HoldsLease, HoldsSlot
  <2>3. CASE Goto(r, "done") /\ UNCHANGED <<pools, used, pool>>
    BY <1>3, <1>4, <2>1, <2>3 DEF Goto, HoldsLease, HoldsSlot
  <2> QED
    BY <1>7, <2>2, <2>3 DEF GetPool
<1>8. ASSUME NEW r \in Requests, Pop(r) \/ Publish(r) \/ Release(r) PROVE Quiet
  <2>1. r \in Actors /\ pool[r] \in Requests /\ pools[pool[r]] \in PoolRecords
    BY <1>2, <1>8 DEF Pop, Publish, Release, AtPool, HoldsLease, HoldsSlot, Actors
  <2>2. \/ UNCHANGED pools
        \/ \E S : pools' = [pools EXCEPT ![pool[r]].idle = S]
        \/ \E S : pools' = [pools EXCEPT ![pool[r]].sessions = S]
    BY <1>8 DEF Pop, Publish, Release
  <2>3. ASSUME NEW S, \/ pools' = [pools EXCEPT ![pool[r]].idle = S]
                      \/ pools' = [pools EXCEPT ![pool[r]].sessions = S]
        PROVE  SameLeases
    BY <1>1, <1>6, <2>1, <2>3 DEF PoolRecords
  <2>4. SameLeases
    BY <1>4, <2>2, <2>3
  <2> QED
    BY <1>3, <1>8, <2>1, <2>4 DEF Pop, Publish, Release, Goto, HoldsLease, HoldsSlot
<1>9. ASSUME NEW r \in Requests, \/ GiveUpSlot(r) \/ Register(r) \/ Connect(r) \/ Handover(r)
                                 \/ Discard(r) \/ Uncount(r)
      PROVE  Quiet
  BY <1>3, <1>4, <1>9 DEF GiveUpSlot, Register, Connect, Handover, Discard, Uncount, Goto, Actors,
     HoldsLease, HoldsSlot
<1>10. ASSUME NEW r \in Requests, Leave(r) \/ AfterFunc(r) PROVE Quiet
  BY <1>5, <1>10 DEF Leave, AfterFunc
<1>11. ASSUME NEW a \in Actors, Forget(a) PROVE Quiet
  <2>1. pool[a] \in Requests /\ pools[pool[a]] \in PoolRecords /\ pc[a] = "forget"
    BY <1>2, <1>11 DEF Forget, AtPool
  <2>2. SameLeases
    BY <1>1, <1>4, <1>6, <1>11, <2>1 DEF Forget, PoolRecords
  <2> QED
    BY <1>1, <1>3, <1>11, <2>1, <2>2 DEF Forget, Return, Goto, HoldsLease, HoldsSlot
<1>12. ASSUME NEW a \in Actors, Unlink(a) PROVE Quiet
  BY <1>1, <1>3, <1>4, <1>12 DEF Unlink, Return, Goto, HoldsLease, HoldsSlot
<1>13. ASSUME NEW a \in Retirers, CancelPool(a) PROVE Quiet
  <2>1. PICK p \in work[a] : /\ pools' = [pools EXCEPT ![p].cancelled = TRUE]
                             /\ pool' = [pool EXCEPT ![a] = p]
    BY <1>13 DEF CancelPool
  <2>2. p \in Requests /\ a \in Actors
    BY DEF TypeOK, Actors
  <2>3. pools[p] \in PoolRecords
    BY <1>1, <2>2
  <2>4. SameLeases
    BY <1>1, <1>6, <2>1, <2>2, <2>3 DEF PoolRecords
  <2>5. pc[a] \notin HoldsLease
    BY DEF Standing
  <2> QED
    BY <1>1, <1>3, <1>13, <2>1, <2>2, <2>4, <2>5 DEF CancelPool, Goto
<1>14. ASSUME NEW a \in Retirers, Retire(a) PROVE Quiet
  <2>1. a \in Actors /\ pool[a] \in Requests /\ pools[pool[a]] \in PoolRecords
    BY <1>2, <1>14 DEF Retire, AtPool, Actors
  <2>2. pools'[pool[a]].leases = pools[pool[a]].leases
    BY <1>1, <1>14, <2>1 DEF Retire, PoolRecords
  <2>3. SameLeases
    BY <1>1, <1>6, <1>14, <2>1, <2>2 DEF Retire
  <2> QED
    BY <1>3, <1>14, <2>1, <2>3 DEF Retire, Goto
<1>15. ASSUME NEW a \in Retirers, CloseIdle(a) \/ NoMorePools(a) PROVE Quiet
  BY <1>3, <1>4, <1>15 DEF CloseIdle, NoMorePools, Goto, Actors
<1>16. ASSUME PublishCatalog \/ BeginClose \/ CollectPools \/ Close PROVE Quiet
  <2>1. Flight \in Retirers /\ Closer \in Retirers /\ Retirers \subseteq Actors
    BY DEF Actors, Retirers
  <2>2. UNCHANGED <<pools, used, pool>>
    BY <1>16 DEF PublishCatalog, BeginClose, CollectPools, Close
  <2> QED
    BY <1>3, <1>4, <1>16, <2>1, <2>2 DEF PublishCatalog, BeginClose, CollectPools, Close, Goto
<1>17. ASSUME Expire \/ UNCHANGED vars PROVE Quiet
  BY <1>5, <1>17 DEF Expire, vars
<1> QED
  BY <1>7, <1>8, <1>9, <1>10, <1>11, <1>12, <1>13, <1>14, <1>15, <1>16, <1>17
  DEF Next, RequestStep, RetireStep, CloseStep, Stopped, Actors, Retirers, Quiet
(* No lease enters the wait group twice, and none leaves it that is not in *)
(* it.                                                                     *)
LEMMA WaitGroupStep ==
    ASSUME TypeOK, Counts, Shutdown, Next
    PROVE  httpLeases' = Cardinality(counted')
<1>1. counted \in SUBSET Requests /\ httpLeases = Cardinality(counted)
  BY DEF TypeOK, Counts
<1>2. ASSUME NEW r \in Requests, Register(r) PROVE httpLeases' = Cardinality(counted')
  <2>1. r \notin counted
    BY <1>2 DEF Register, Shutdown
  <2> QED
    BY <1>1, <1>2, <2>1, OneMore DEF Register
<1>3. ASSUME NEW r \in Requests, Uncount(r) PROVE httpLeases' = Cardinality(counted')
  <2>1. r \in counted
    BY <1>3 DEF Uncount, Shutdown
  <2> QED
    BY <1>1, <1>3, <2>1, OneLess DEF Uncount
<1>4. UNCHANGED <<httpLeases, counted>> => httpLeases' = Cardinality(counted')
  BY <1>1
<1> DEFINE Goal == httpLeases' = Cardinality(counted')
<1> SUFFICES Goal
  OBVIOUS
<1> HIDE DEF Goal
<1>5. ASSUME NEW a, Forget(a) \/ Unlink(a) PROVE Goal
  BY <1>4, <1>5 DEF Forget, Unlink, gateway, leases, Goal
<1>6. ASSUME NEW r \in Requests, RequestStep(r) PROVE Goal
  <2>1. CASE Register(r) \/ Uncount(r)
    BY <1>2, <1>3, <2>1 DEF Goal
  <2>2. CASE Forget(r) \/ Unlink(r)
    BY <1>5, <2>2
  <2>3. CASE \/ Join(r) \/ TakeSlot(r) \/ GiveUpSlot(r) \/ Pop(r) \/ Connect(r) \/ Publish(r)
             \/ Handover(r) \/ Release(r) \/ Discard(r) \/ FreeSlot(r) \/ FinishLease(r)
    BY <1>4, <2>3 DEF Join, TakeSlot, GiveUpSlot, Pop, Connect, Publish, Handover, Release, Discard,
       FreeSlot, FinishLease, gateway, leases, Goal
  <2> QED
    BY <1>6, <2>1, <2>2, <2>3 DEF RequestStep
<1>7. ASSUME NEW a, RetireStep(a) PROVE Goal
  BY <1>4, <1>5, <1>7 DEF RetireStep, CancelPool, Retire, CloseIdle, NoMorePools, gateway, leases,
     Goal
<1>8. CASE \/ \E r \in Requests : Leave(r) \/ AfterFunc(r) \/ \E c \in Configs : GetPool(r, c)
           \/ PublishCatalog \/ Expire \/ BeginClose \/ CollectPools \/ Close \/ UNCHANGED vars
  BY <1>4, <1>8 DEF Leave, AfterFunc, GetPool, PublishCatalog, Expire, BeginClose, CollectPools,
     Close, vars, gateway, leases, Goal
<1> QED
  BY <1>6, <1>7, <1>8 DEF Next, CloseStep, Stopped
LEMMA LeasesStep ==
    ASSUME TypeOK, Standing, PoolRules, Counts, Next, NEW p \in Requests
    PROVE  pools'[p].leases = Cardinality(LeasesOf(p)')
<1>1. /\ pc \in [Actors -> Phases] /\ pool \in [Actors -> Requests \cup {None}]
      /\ pools \in [Requests -> PoolRecords]
  BY DEF TypeOK
<1>2. /\ pools[p].leases = Cardinality(LeasesOf(p)) /\ LeasesOf(p) \in SUBSET Requests
      /\ LeasesOf(p)' \in SUBSET Requests
  BY DEF Counts, LeasesOf
<1>3. CASE SameHolders /\ SameLeases
  <2>1. pools'[p].leases = pools[p].leases
    BY <1>3 DEF SameLeases
  <2>2. LeasesOf(p)' \subseteq LeasesOf(p) /\ LeasesOf(p) \subseteq LeasesOf(p)'
    BY <1>3 DEF SameHolders, LeasesOf
  <2> QED
    BY <1>2, <2>1, <2>2
<1>4. ASSUME NEW r \in Requests, NEW c \in Configs, GetPool(r, c), Create(r, c)
      PROVE  pools'[p].leases = Cardinality(LeasesOf(p)')
  <2>1. pools[r] = NewPool(None, None) /\ pc[r] = "idle" /\ r \in Actors
    BY <1>4 DEF GetPool, Standing, Actors
  <2>2. pc' = [pc EXCEPT ![r] = "join"] /\ pool' = [pool EXCEPT ![r] = r]
    BY <1>4 DEF Create, Goto
  <2>3. LeasesOf(p)' \subseteq LeasesOf(p) /\ LeasesOf(p) \subseteq LeasesOf(p)'
    BY <1>1, <2>1, <2>2 DEF LeasesOf, HoldsLease, HoldsSlot, Actors
  <2>4. pools'[p].leases = pools[p].leases
    BY <1>1, <1>4, <2>1 DEF Create, NewPool
  <2> QED
    BY <1>2, <2>3, <2>4
<1>5. ASSUME NEW r \in Requests, pool[r] \in Requests, pools[pool[r]] \in PoolRecords,
             UNCHANGED pool, NEW to, pc' = [pc EXCEPT ![r] = to],
             \/ /\ pc[r] \notin HoldsLease /\ to \in HoldsLease
                /\ pools' = [pools EXCEPT ![pool[r]].leases = @ + 1]
             \/ /\ pc[r] \in HoldsLease /\ to \notin HoldsLease
                /\ pools' = [pools EXCEPT ![pool[r]].leases = @ - 1]
      PROVE  pools'[p].leases = Cardinality(LeasesOf(p)')
  <2>1. \A q \in Requests : q # r => pc'[q] = pc[q]
    BY <1>1, <1>5 DEF Actors
  <2>2. pc'[r] = to
    BY <1>1, <1>5 DEF Actors
  <2>3. CASE pool[r] # p
    <3>1. pools'[p].leases = pools[p].leases
      BY <1>1, <1>5, <2>3
    <3>2. LeasesOf(p)' \subseteq LeasesOf(p) /\ LeasesOf(p) \subseteq LeasesOf(p)'
      BY <1>5, <2>1, <2>3 DEF LeasesOf
    <3> QED
      BY <1>2, <3>1, <3>2
  <2>4. CASE pool[r] = p /\ pc[r] \notin HoldsLease
    <3>1. pools'[p].leases = pools[p].leases + 1
      BY <1>1, <1>5, <2>4 DEF PoolRecords
    <3>2. r \notin LeasesOf(p) /\ \A q \in Requests : q \in LeasesOf(p)' <=> q \in LeasesOf(p) \/ q = r
      BY <1>5, <2>1, <2>2, <2>4 DEF LeasesOf
    <3>3. Cardinality(LeasesOf(p)') = Cardinality(LeasesOf(p)) + 1
      BY <1>2, <3>2, OneMore
    <3> QED
      BY <1>2, <3>1, <3>3
  <2>5. CASE pool[r] = p /\ pc[r] \in HoldsLease
    <3>1. pools'[p].leases = pools[p].leases - 1
      BY <1>1, <1>5, <2>5 DEF PoolRecords
    <3>2. r \in LeasesOf(p) /\ \A q \in Requests : q \in LeasesOf(p)' <=> q \in LeasesOf(p) /\ q # r
      BY <1>5, <2>1, <2>2, <2>5 DEF LeasesOf
    <3>3. Cardinality(LeasesOf(p)') = Cardinality(LeasesOf(p)) - 1
      BY <1>2, <3>2, OneLess
    <3> QED
      BY <1>2, <3>1, <3>3
  <2> QED
    BY <2>3, <2>4, <2>5
<1>6. ASSUME NEW r \in Requests, Join(r) \/ FinishLease(r) \/ TakeSlot(r) \/ FreeSlot(r)
      PROVE  pools'[p].leases = Cardinality(LeasesOf(p)')
  <2>1. r \in Actors /\ pool[r] \in Requests /\ pools[pool[r]] \in PoolRecords
    BY <1>6, PoolOfActor
    DEF Join, FinishLease, TakeSlot, FreeSlot, AtPool, HoldsLease, HoldsSlot, Actors, P
  <2>2. CASE Join(r) /\ P(r).retired
    BY <1>1, <1>2, <1>3, <2>1, <2>2
    DEF Join, Goto, SameHolders, SameLeases, HoldsLease, HoldsSlot, Actors
  <2>3. CASE Join(r) /\ ~P(r).retired
    BY <1>5, <2>1, <2>3 DEF Join, Goto, HoldsLease, HoldsSlot
  <2>4. CASE FinishLease(r)
    BY <1>5, <2>1, <2>4 DEF FinishLease, Goto, HoldsLease, HoldsSlot
  <2>5. CASE TakeSlot(r) \/ FreeSlot(r)
    <3>1. LeasesOf(p)' \subseteq LeasesOf(p) /\ LeasesOf(p) \subseteq LeasesOf(p)'
      BY <1>1, <2>1, <2>5 DEF TakeSlot, FreeSlot, Goto, LeasesOf, HoldsLease, HoldsSlot, Actors
    <3>2. UNCHANGED pools
      BY <2>5 DEF TakeSlot, FreeSlot
    <3> QED
      BY <1>2, <3>1, <3>2
  <2> QED
    BY <1>6, <2>2, <2>3, <2>4, <2>5
<1> QED
  BY <1>3, <1>4, <1>6, HoldersStep

LEMMA SlotsStep ==
    ASSUME TypeOK, Standing, PoolRules, Counts, Next, NEW v \in Requests
    PROVE  used'[v] = Cardinality(UsersOf(v)')
<1>1. /\ pc \in [Actors -> Phases] /\ pool \in [Actors -> Requests \cup {None}]
      /\ pools \in [Requests -> PoolRecords] /\ used \in [Requests -> 0..Slots]
  BY DEF TypeOK
<1>2. /\ used[v] = Cardinality(UsersOf(v)) /\ UsersOf(v) \in SUBSET Requests
      /\ UsersOf(v)' \in SUBSET Requests
  BY DEF Counts, UsersOf
<1>3. \A r \in Requests : pc[r] \in HoldsLease =>
        /\ pool[r] \in Requests /\ Slot(r) \in Requests
        /\ pools'[pool[r]].provider = pools[pool[r]].provider
  <2>1. ASSUME NEW r \in Requests, pc[r] \in HoldsLease
        PROVE  pool[r] \in Requests /\ Created(pool[r]) /\ Slot(r) \in Requests
    BY <2>1, PoolOfActor DEF AtPool, Actors, Slot
  <2>2. ASSUME NEW p \in Requests, Opens(p) PROVE ~Created(p)
    BY <2>2 DEF Opens, GetPool, Created, NewPool, Standing
  <2> QED
    BY <2>1, <2>2, PoolStep DEF Kept
<1>4. ASSUME NEW r \in Requests, pc'[r] \in HoldsSlot, pc[r] \in HoldsLease, pool'[r] = pool[r]
      PROVE  Slot(r)' = Slot(r)
  BY <1>3, <1>4 DEF Slot, P
<1>5. CASE SameHolders /\ UNCHANGED used
  <2>1. UsersOf(v)' \subseteq UsersOf(v) /\ UsersOf(v) \subseteq UsersOf(v)'
    BY <1>3, <1>5 DEF SameHolders, UsersOf, HoldsLease, Slot, P
  <2> QED
    BY <1>2, <1>5, <2>1
<1>6. ASSUME NEW r \in Requests, NEW c \in Configs, GetPool(r, c), Create(r, c)
      PROVE  used'[v] = Cardinality(UsersOf(v)')
  <2>1. /\ pc[r] = "idle" /\ r \in Actors /\ UNCHANGED used
        /\ pc' = [pc EXCEPT ![r] = "join"] /\ pool' = [pool EXCEPT ![r] = r]
    BY <1>6 DEF GetPool, Actors, Create, Goto
  <2>2. UsersOf(v)' \subseteq UsersOf(v) /\ UsersOf(v) \subseteq UsersOf(v)'
    BY <1>1, <1>3, <2>1 DEF UsersOf, HoldsLease, HoldsSlot, Slot, P, Actors
  <2> QED
    BY <1>2, <2>1, <2>2
<1>7. ASSUME NEW r \in Requests, Join(r) \/ FinishLease(r) PROVE used'[v] = Cardinality(UsersOf(v)')
  <2>1. /\ r \in Actors /\ UNCHANGED <<used, pool>> /\ pc[r] \in {"join", "unlease"}
        /\ \E to \in {"done", "slot", "forget"} : pc' = [pc EXCEPT ![r] = to]
    BY <1>7 DEF Join, FinishLease, Actors, Goto
  <2>2. UsersOf(v)' \subseteq UsersOf(v) /\ UsersOf(v) \subseteq UsersOf(v)'
    BY <1>1, <1>3, <2>1 DEF UsersOf, HoldsLease, HoldsSlot, Slot, P, Actors
  <2> QED
    BY <1>2, <2>1, <2>2
<1>8. ASSUME NEW r \in Requests, TakeSlot(r) PROVE used'[v] = Cardinality(UsersOf(v)')
  <2>1. /\ r \in Actors /\ UNCHANGED pool /\ pc[r] = "slot" /\ pc' = [pc EXCEPT ![r] = "register"]
        /\ used' = [used EXCEPT ![Slot(r)] = @ + 1] /\ Slot(r) \in Requests
    BY <1>3, <1>8 DEF TakeSlot, Actors, Goto, HoldsLease
  <2>2. \A q \in Requests : q \in UsersOf(v)' <=> q \in UsersOf(v) \/ (q = r /\ Slot(r) = v)
    BY <1>1, <1>3, <2>1 DEF UsersOf, HoldsLease, HoldsSlot, Slot, P, Actors
  <2>3. CASE Slot(r) = v
    <3>1. r \notin UsersOf(v)
      BY <2>1 DEF UsersOf, HoldsSlot
    <3>2. Cardinality(UsersOf(v)') = Cardinality(UsersOf(v)) + 1
      BY <1>2, <2>2, <2>3, <3>1, OneMore
    <3> QED
      BY <1>1, <1>2, <2>1, <2>3, <3>2
  <2>4. CASE Slot(r) # v
    <3>1. UsersOf(v)' = UsersOf(v)
      BY <1>2, <2>2, <2>4
    <3> QED
      BY <1>1, <1>2, <2>1, <2>4, <3>1
  <2> QED
    BY <2>3, <2>4
<1>9. ASSUME NEW r \in Requests, FreeSlot(r) PROVE used'[v] = Cardinality(UsersOf(v)')
  <2>1. /\ r \in Actors /\ UNCHANGED pool /\ pc[r] = "unslot" /\ pc' = [pc EXCEPT ![r] = "unlease"]
        /\ used' = [used EXCEPT ![Slot(r)] = @ - 1] /\ Slot(r) \in Requests
    BY <1>3, <1>9 DEF FreeSlot, Freed, Actors, Goto, HoldsLease, HoldsSlot
  <2>2. \A q \in Requests : q \in UsersOf(v)' <=> q \in UsersOf(v) /\ q # r
    BY <1>1, <1>3, <2>1 DEF UsersOf, HoldsLease, HoldsSlot, Slot, P, Actors
  <2>3. CASE Slot(r) = v
    <3>1. r \in UsersOf(v)
      BY <2>1, <2>3 DEF UsersOf, HoldsSlot
    <3>2. Cardinality(UsersOf(v)') = Cardinality(UsersOf(v)) - 1
      BY <1>2, <2>2, <3>1, OneLess
    <3> QED
      BY <1>1, <1>2, <2>1, <2>3, <3>2
  <2>4. CASE Slot(r) # v
    <3>1. UsersOf(v)' = UsersOf(v)
      BY <1>2, <2>2, <2>4 DEF UsersOf
    <3> QED
      BY <1>1, <1>2, <2>1, <2>4, <3>1
  <2> QED
    BY <2>3, <2>4
<1> QED
  BY <1>5, <1>6, <1>7, <1>8, <1>9, HoldersStep
LEMMA OwnersStep ==
    ASSUME TypeOK, Standing, PoolRules, Counts, Next, NEW v \in Requests
    PROVE  owners'[v] = Cardinality(PoolsOf(v)')
<1> USE HttpPoolAssumption
<1>1. /\ pc \in [Actors -> Phases] /\ pool \in [Actors -> Requests \cup {None}]
      /\ pools \in [Requests -> PoolRecords] /\ owners \in [Requests -> Nat]
      /\ provider \in Requests \cup {None}
  BY DEF TypeOK
<1>2. /\ owners[v] = Cardinality(PoolsOf(v)) /\ PoolsOf(v) \in SUBSET Requests
      /\ PoolsOf(v)' \in SUBSET Requests
  BY DEF Counts, PoolsOf
<1>3. \A a \in Actors : pc[a] \in AtPool =>
        pool[a] \in Requests /\ pools[pool[a]] \in PoolRecords /\ Created(pool[a])
  BY PoolOfActor DEF P
<1>4. ASSUME \A p \in Requests : /\ Live(p)' <=> Live(p)
                                 /\ pools'[p].provider = pools[p].provider,
             owners' = owners
      PROVE  owners'[v] = Cardinality(PoolsOf(v)')
  <2>1. PoolsOf(v)' \subseteq PoolsOf(v) /\ PoolsOf(v) \subseteq PoolsOf(v)'
    BY <1>4 DEF PoolsOf
  <2>2. PoolsOf(v)' = PoolsOf(v)
    BY <2>1
  <2> QED
    BY <1>2, <1>4, <2>2
<1>5. CASE SamePools /\ UNCHANGED <<provider, owners>>
  <2>1. \A p \in Requests : SameRecord(p)
    BY <1>5 DEF SamePools
  <2>2. \A a \in Actors : /\ pc'[a] = "unlink" <=> pc[a] = "unlink"
                          /\ pc[a] = "unlink" => pool'[a] = pool[a]
    BY <1>5 DEF SamePools, SameUnlinking
  <2>3. \A p \in Requests : Unlinking(p)' <=> Unlinking(p)
    BY <2>2 DEF Unlinking
  <2>4. \A p \in Requests : Live(p)' <=> Live(p)
    BY <2>1, <2>3 DEF Live, Created, SameRecord
  <2> QED
    BY <1>4, <1>5, <2>1, <2>4 DEF SameRecord
<1>6. ASSUME NEW r \in Requests, NEW c \in Configs, GetPool(r, c), Create(r, c)
      PROVE  owners'[v] = Cardinality(PoolsOf(v)')
  <2> DEFINE w == IF provider = None THEN r ELSE provider
  <2>1. pools[r] = NewPool(None, None) /\ pc[r] = "idle"
    BY <1>6 DEF GetPool, Standing
  <2>2. /\ pools' = [pools EXCEPT ![r] = NewPool(c, w)] /\ w \in Requests
        /\ pc' = [pc EXCEPT ![r] = "join"] /\ pool' = [pool EXCEPT ![r] = r]
        /\ owners' = [owners EXCEPT ![w] = @ + 1]
    BY <1>1, <1>6 DEF Create, Goto
  <2>3. \A a \in Actors : /\ pc'[a] = "unlink" <=> pc[a] = "unlink"
                          /\ pc[a] = "unlink" => pool'[a] = pool[a]
    BY <1>1, <2>1, <2>2 DEF Actors
  <2>4. \A p \in Requests : p # r => (Live(p)' <=> Live(p)) /\ pools'[p] = pools[p]
    BY <1>1, <2>2, <2>3 DEF Live, Unlinking, Created
  <2>5. ~Live(r) /\ Live(r)' /\ pools'[r].provider = w
    BY <1>1, <2>1, <2>2 DEF Live, Created, NewPool
  <2>6. \A q \in Requests : q \in PoolsOf(v)' <=> q \in PoolsOf(v) \/ (q = r /\ w = v)
    BY <2>4, <2>5 DEF PoolsOf
  <2>7. CASE w = v
    <3>1. Cardinality(PoolsOf(v)') = Cardinality(PoolsOf(v)) + 1
      <4>1. r \notin PoolsOf(v)
        BY <2>5 DEF PoolsOf
      <4> QED
        BY <1>2, <2>6, <2>7, <4>1, OneMore
    <3> QED
      BY <1>1, <1>2, <2>2, <2>7, <3>1
  <2>8. CASE w # v
    <3>1. PoolsOf(v)' = PoolsOf(v)
      BY <1>2, <2>6, <2>8
    <3> QED
      BY <1>1, <1>2, <2>2, <2>8, <3>1
  <2> QED
    BY <2>7, <2>8
<1>7. ASSUME NEW a \in Actors, Forget(a) PROVE owners'[v] = Cardinality(PoolsOf(v)')
  <2>1. PICK p \in Requests : /\ p = pool[a] /\ pools[p] \in PoolRecords /\ Created(p)
                              /\ pc[a] = "forget" /\ owners' = owners
    BY <1>3, <1>7 DEF Forget, AtPool
  <2>2. CASE /\ Unused(P(a)) /\ ~P(a).forgotten /\ pools' = [pools EXCEPT ![p].forgotten = TRUE]
             /\ pc' = [pc EXCEPT ![a] = "unlink"] /\ pool' = pool
    <3>1. /\ pools'[p].config = pools[p].config /\ pools'[p].provider = pools[p].provider
          /\ pools'[p].forgotten
      BY <1>1, <2>1, <2>2 DEF PoolRecords
    <3>2. \A q \in Requests : q # p => UNCHANGED pools[q]
      BY <1>1, <2>1, <2>2
    <3>3. \A b \in Actors : pc'[b] = "unlink" <=> pc[b] = "unlink" \/ b = a
      BY <1>1, <2>2
    <3>4. \A q \in Requests : q # p => (Unlinking(q)' <=> Unlinking(q))
      BY <2>1, <2>2, <3>3 DEF Unlinking
    <3>5. \A q \in Requests : q # p => (Live(q)' <=> Live(q))
      BY <3>2, <3>4 DEF Live, Created
    <3>6. Live(p) /\ Live(p)'
      BY <2>1, <2>2, <3>1, <3>3 DEF Live, Unlinking, Created, P
    <3> QED
      <4>1. \A q \in Requests : Live(q)' <=> Live(q)
        BY <3>5, <3>6
      <4>2. \A q \in Requests : pools'[q].provider = pools[q].provider
        BY <3>1, <3>2
      <4> QED
        BY <1>4, <2>1, <4>1, <4>2
  <2>3. CASE /\ UNCHANGED pools /\ pc' = [pc EXCEPT ![a] = Return(a)]
             /\ pool' = [pool EXCEPT ![a] = None]
    <3>1. \A b \in Actors : /\ pc'[b] = "unlink" <=> pc[b] = "unlink"
                            /\ pc[b] = "unlink" => pool'[b] = pool[b]
      BY <1>1, <2>1, <2>3 DEF Return
    <3>2. \A q \in Requests : Live(q)' <=> Live(q)
      BY <2>3, <3>1 DEF Live, Unlinking, Created
    <3> QED
      BY <1>4, <2>1, <2>3, <3>2
  <2> QED
    BY <1>7, <2>1, <2>2, <2>3 DEF Forget, Goto
<1>8. ASSUME NEW a \in Actors, Unlink(a) PROVE owners'[v] = Cardinality(PoolsOf(v)')
  <2>1. PICK p \in Requests, w \in Requests :
          p = pool[a] /\ w = pools[p].provider /\ Created(p) /\ pc[a] = "unlink"
    BY <1>8, PoolOfActor DEF Unlink, AtPool, P
  <2>2. /\ UNCHANGED pools /\ pc' = [pc EXCEPT ![a] = Return(a)]
        /\ pool' = [pool EXCEPT ![a] = None] /\ owners' = [owners EXCEPT ![w] = @ - 1]
    BY <1>8, <2>1 DEF Unlink, Goto, P
  <2>3. \A b \in Actors : /\ pc'[b] = "unlink" <=> pc[b] = "unlink" /\ b # a
                          /\ b # a => pool'[b] = pool[b]
    BY <1>1, <2>2 DEF Return
  <2>4. \A q \in Requests : q # p => (Unlinking(q)' <=> Unlinking(q))
    BY <2>1, <2>3 DEF Unlinking
  <2>5. \A q \in Requests : q # p => (Live(q)' <=> Live(q))
    BY <2>2, <2>4 DEF Live, Created
  <2>6. Live(p) /\ ~Live(p)'
    <3>1. Live(p)
      BY <2>1 DEF Live, Unlinking
    <3>2. pools'[p].forgotten
      BY <2>1, <2>2 DEF PoolRules
    <3>3. ~Unlinking(p)'
      BY <2>1, <2>3 DEF Unlinking, PoolRules
    <3> QED
      BY <3>1, <3>2, <3>3 DEF Live
  <2>7. \A q \in Requests : q \in PoolsOf(v)' <=> q \in PoolsOf(v) /\ q # p
    <3>1. p \notin PoolsOf(v)'
      BY <2>6 DEF PoolsOf
    <3>2. \A q \in Requests : q # p => (q \in PoolsOf(v)' <=> q \in PoolsOf(v))
      BY <2>2, <2>5 DEF PoolsOf
    <3> QED
      BY <3>1, <3>2
  <2>8. CASE w = v
    <3>1. Cardinality(PoolsOf(v)') = Cardinality(PoolsOf(v)) - 1
      <4>1. p \in PoolsOf(v)
        BY <2>1, <2>6, <2>8 DEF PoolsOf
      <4> QED
        BY <1>2, <2>1, <2>7, <4>1, OneLess
    <3> QED
      BY <1>1, <1>2, <2>2, <2>8, <3>1
  <2>9. CASE w # v
    <3>1. PoolsOf(v)' = PoolsOf(v)
      BY <1>2, <2>1, <2>7, <2>9 DEF PoolsOf
    <3> QED
      BY <1>1, <1>2, <2>1, <2>2, <2>9, <3>1
  <2> QED
    BY <2>8, <2>9
<1> QED
  BY <1>5, <1>6, <1>7, <1>8, QuietStep

LEMMA CountsStep ==
    ASSUME TypeOK, Standing, PoolRules, Counts, Shutdown, Next
    PROVE  Counts'
  BY WaitGroupStep, LeasesStep, SlotsStep, OwnersStep DEF Counts
-----------------------------------------------------------------------------
\* Sessions have one place

(* Steps that open, close or hand over no session leave each where it is.  *)
SamePlaces ==
    /\ UNCHANGED <<session, conn, closing>>
    /\ \A p \in Requests : /\ pools'[p].idle = pools[p].idle
                           /\ pools'[p].retired => pools[p].retired
    /\ \A r \in Requests : /\ session[r] # None => pc'[r] \in Working
                           /\ pc'[r] \in Leased => session[r] # None
                           /\ conn[r] # "none" => pc'[r] \notin Before
    /\ \A a \in Retirers : closing[a] # {} => pc'[a] = "closeidle"

LEMMA PlacesKept ==
    ASSUME Sessions, NoSessionLost, SamePlaces
    PROVE  Sessions' /\ NoSessionLost'
<1>1. Held' /\ Idle'
  BY DEF Sessions, SamePlaces, Held, Idle
<1>2. Closing' /\ OpenPlaces'
  BY DEF Sessions, SamePlaces, Closing, OpenPlaces
<1>3. NoSessionLost'
  BY DEF SamePlaces, NoSessionLost
<1> QED
  BY <1>1, <1>2, <1>3 DEF Sessions

(* An actor moves, and no session does.                                    *)
LEMMA PlacesOfMove ==
    ASSUME TypeOK, Sessions, UNCHANGED <<session, conn, closing>>,
           \A p \in Requests : /\ pools'[p].idle = pools[p].idle
                               /\ pools'[p].retired => pools[p].retired,
           NEW a \in Actors, NEW to, pc' = [pc EXCEPT ![a] = to],
           a \in Requests => /\ pc[a] \in Working => to \in Working
                             /\ to \in Leased => session[a] # None
                             /\ to \in Before => pc[a] \in Before,
           a \in Retirers => pc[a] # "closeidle"
    PROVE  SamePlaces
<1>1. pc \in [Actors -> Phases] /\ \A b \in Actors : b # a => pc'[b] = pc[b]
  BY DEF TypeOK
<1>2. pc'[a] = to
  BY <1>1
<1>3. \A r \in Requests : /\ session[r] # None => pc'[r] \in Working
                          /\ pc'[r] \in Leased => session[r] # None
                          /\ conn[r] # "none" => pc'[r] \notin Before
  BY <1>1, <1>2 DEF Sessions, Held, OpenPlaces, Actors
<1>4. \A b \in Retirers : closing[b] # {} => pc'[b] = "closeidle"
  BY <1>1, <1>2 DEF Sessions, Closing, Actors
<1> QED
  BY <1>3, <1>4 DEF SamePlaces

(* Most steps move no session.                                             *)
MovesSession ==
    \/ \E r \in Requests : Pop(r) \/ Connect(r) \/ Release(r) \/ Discard(r)
    \/ \E a \in Retirers : Retire(a) \/ CloseIdle(a)
LEMMA PlacesStep ==
    ASSUME TypeOK, Standing, PoolRules, Sessions, Next
    PROVE  MovesSession \/ SamePlaces
<1>1. /\ pc \in [Actors -> Phases] /\ pool \in [Actors -> Requests \cup {None}]
      /\ pools \in [Requests -> PoolRecords]
  BY DEF TypeOK
<1>2. \A a \in Actors : pc[a] \in AtPool => pool[a] \in Requests /\ pools[pool[a]] \in PoolRecords
  BY PoolOfActor DEF P
<1> DEFINE SameIdle == \A p \in Requests : /\ pools'[p].idle = pools[p].idle
                                           /\ pools'[p].retired => pools[p].retired
<1>3. ASSUME SameIdle, UNCHANGED <<session, conn, closing>>, NEW a \in Actors, NEW to,
             pc' = [pc EXCEPT ![a] = to],
             a \in Requests => /\ pc[a] \in Working => to \in Working
                               /\ to \in Leased => session[a] # None
                               /\ to \in Before => pc[a] \in Before,
             a \in Retirers => pc[a] # "closeidle"
      PROVE  SamePlaces
  BY <1>3, PlacesOfMove
<1>4. UNCHANGED pools => SameIdle
  OBVIOUS
<1>5. UNCHANGED <<pools, session, conn, closing, pc>> => SamePlaces
  BY DEF SamePlaces, Sessions, Held, Closing, OpenPlaces
<1>6. ASSUME NEW q \in Requests, pools'[q].idle = pools[q].idle,
             pools'[q].retired => pools[q].retired,
             \A p \in Requests : p # q => UNCHANGED pools[p]
      PROVE  SameIdle
  BY <1>6
<1> HIDE DEF SameIdle
<1>7. ASSUME NEW r \in Requests, NEW c \in Configs, GetPool(r, c) PROVE SamePlaces
  <2>1. /\ r \in Actors /\ pc[r] = "idle" /\ pools[r] = NewPool(None, None)
        /\ UNCHANGED <<session, conn, closing>>
    BY <1>7 DEF Actors, GetPool, Standing, leases, retirement
  <2>2. r \notin Retirers
    BY HttpPoolAssumption
  <2>3. CASE Find(r, c)
    BY <1>3, <1>4, <2>1, <2>2, <2>3 DEF Find, Goto, Working, Before, Leased
  <2>4. CASE Goto(r, "done") /\ UNCHANGED pools
    BY <1>3, <1>4, <2>1, <2>2, <2>4 DEF Goto, Working, Before, Leased
  <2>5. CASE Create(r, c)
    <3>1. SameIdle
      <4>1. \E w : pools' = [pools EXCEPT ![r] = NewPool(c, w)]
        BY <2>5 DEF Create
      <4>2. pools'[r].idle = pools[r].idle /\ ~pools'[r].retired
        BY <1>1, <2>1, <4>1 DEF NewPool
      <4> QED
        BY <1>1, <1>6, <4>1, <4>2
    <3> QED
      BY <1>3, <2>1, <2>2, <2>5, <3>1 DEF Create, Goto, Working, Before, Leased
  <2> QED
    BY <1>7, <2>3, <2>4, <2>5 DEF GetPool
<1>8. ASSUME NEW r \in Requests, Join(r) \/ FinishLease(r) PROVE SamePlaces
  <2>1. /\ r \in Actors /\ pool[r] \in Requests /\ pools[pool[r]] \in PoolRecords
        /\ r \notin Retirers
    BY <1>2, <1>8, HttpPoolAssumption DEF Join, FinishLease, AtPool, HoldsLease, Actors
  <2>2. SameIdle
    BY <1>1, <1>4, <1>6, <1>8, <2>1 DEF Join, FinishLease, PoolRecords
  <2> QED
    BY <1>3, <1>8, <2>1, <2>2
    DEF Join, FinishLease, Goto, leases, retirement, Working, Before, Leased
<1>9. ASSUME NEW r \in Requests, Publish(r) PROVE SamePlaces
  <2>1. /\ r \in Actors /\ pool[r] \in Requests /\ pools[pool[r]] \in PoolRecords
        /\ r \notin Retirers
    BY <1>2, <1>9, HttpPoolAssumption DEF Publish, AtPool, HoldsLease, HoldsSlot, Actors
  <2>2. \E S : pools' = [pools EXCEPT ![pool[r]].sessions = S]
    BY <1>9 DEF Publish
  <2>3. SameIdle
    BY <1>1, <1>6, <2>1, <2>2 DEF PoolRecords
  <2> QED
    BY <1>3, <1>9, <2>1, <2>3
    DEF Publish, Accepts, Goto, retirement, Working, Before, Leased
<1>10. ASSUME NEW r \in Requests, \/ TakeSlot(r) \/ GiveUpSlot(r) \/ Register(r) \/ Handover(r)
                                  \/ FreeSlot(r) \/ Uncount(r)
       PROVE  SamePlaces
  <2>1. r \in Actors /\ r \notin Retirers
    BY HttpPoolAssumption DEF Actors
  <2>2. pc[r] = "handover" => session[r] # None
    BY DEF Sessions, Held, Leased
  <2> QED
    BY <1>3, <1>4, <1>10, <2>1, <2>2 DEF TakeSlot, GiveUpSlot, Register, Handover, FreeSlot, Uncount,
       Goto, leases, retirement, Working, Before, Leased
<1>11. ASSUME NEW r \in Requests, Leave(r) \/ AfterFunc(r) PROVE SamePlaces
  BY <1>5, <1>11 DEF Leave, AfterFunc, retirement
<1>12. ASSUME NEW a \in Actors, Forget(a) PROVE SamePlaces
  <2>1. pool[a] \in Requests /\ pools[pool[a]] \in PoolRecords /\ pc[a] = "forget"
    BY <1>2, <1>12 DEF Forget, AtPool
  <2>2. SameIdle
    BY <1>1, <1>4, <1>6, <1>12, <2>1 DEF Forget, PoolRecords
  <2> QED
    BY <1>3, <1>12, <2>1, <2>2, HttpPoolAssumption
    DEF Forget, Return, Goto, leases, retirement, Working, Before, Leased
<1>13. ASSUME NEW a \in Actors, Unlink(a) PROVE SamePlaces
  BY <1>3, <1>4, <1>13, HttpPoolAssumption
  DEF Unlink, Return, Goto, leases, retirement, Working, Before, Leased
<1>14. ASSUME NEW a \in Retirers, CancelPool(a) PROVE SamePlaces
  <2>1. PICK p \in work[a] : pools' = [pools EXCEPT ![p].cancelled = TRUE]
    BY <1>14 DEF CancelPool
  <2>2. p \in Requests /\ a \in Actors /\ a \notin Requests
    BY HttpPoolAssumption DEF TypeOK, Actors
  <2>3. pools[p] \in PoolRecords
    BY <1>1, <2>2
  <2>4. SameIdle
    BY <1>1, <1>6, <2>1, <2>2, <2>3 DEF PoolRecords
  <2> QED
    BY <1>3, <1>14, <2>2, <2>4 DEF CancelPool, Goto, leases
<1>15. ASSUME NEW a \in Retirers, NoMorePools(a) PROVE SamePlaces
  BY <1>3, <1>4, <1>15, HttpPoolAssumption DEF NoMorePools, Goto, leases, retirement, Actors
<1>16. ASSUME PublishCatalog \/ BeginClose \/ CollectPools \/ Close PROVE SamePlaces
  <2>1. /\ Flight \in Actors /\ Closer \in Actors
        /\ Flight \notin Requests /\ Closer \notin Requests
    BY HttpPoolAssumption DEF Actors, Retirers
  <2>2. UNCHANGED <<pools, session, conn, closing>>
    BY <1>16 DEF PublishCatalog, BeginClose, CollectPools, Close, leases, retirement
  <2> QED
    BY <1>3, <1>4, <1>16, <2>1, <2>2 DEF PublishCatalog, BeginClose, CollectPools, Close, Goto
<1>17. ASSUME Expire \/ UNCHANGED vars PROVE SamePlaces
  BY <1>5, <1>17 DEF Expire, vars, leases, retirement
<1> QED
  BY <1>7, <1>8, <1>9, <1>10, <1>11, <1>12, <1>13, <1>14, <1>15, <1>16, <1>17
  DEF Next, RequestStep, RetireStep, CloseStep, Stopped, Actors, Retirers, MovesSession

LEMMA PopKeeps ==
    ASSUME TypeOK, Standing, PoolRules, Sessions, NoSessionLost, NEW r \in Requests, Pop(r)
    PROVE  Sessions' /\ NoSessionLost'
<1> USE HttpPoolAssumption
<1>1. /\ pc \in [Actors -> Phases] /\ pools \in [Requests -> PoolRecords]
      /\ session \in [Requests -> Requests \cup {None}]
      /\ r \in Actors /\ r \notin Retirers
  BY DEF TypeOK, Actors
<1>2. PICK p \in Requests : p = pool[r] /\ pools[p] \in PoolRecords
  BY PoolOfActor DEF Pop, AtPool, HoldsLease, HoldsSlot, Actors, P
<1>3. UNCHANGED <<conn, closing>> /\ pc[r] = "pop"
  BY DEF Pop, retirement
<1>4. CASE /\ UNCHANGED <<session, pools>>
           /\ \E to \in {"publish", "connect"} : pc' = [pc EXCEPT ![r] = to]
  <2>1. SamePlaces
    BY <1>1, <1>3, <1>4, PlacesOfMove DEF Working, Leased, Before
  <2> QED
    BY <2>1, PlacesKept
<1>5. ASSUME NEW s \in pools[p].idle, session' = [session EXCEPT ![r] = s],
             pools' = [pools EXCEPT ![p].idle = pools[p].idle \ {s}],
             pc' = [pc EXCEPT ![r] = "publish"]
      PROVE  Sessions' /\ NoSessionLost'
  <2>1. s \in Requests /\ conn[s] = "open"
    BY <1>1, <1>2, <1>5 DEF PoolRecords, Sessions, OpenPlaces
  <2>2. /\ \A q \in Requests : pools'[q].retired <=> pools[q].retired
        /\ \A q, t \in Requests : t \in pools'[q].idle <=> t \in pools[q].idle /\ (q = p => t # s)
    BY <1>1, <1>2, <1>5 DEF PoolRecords
  <2>3. /\ \A q \in Requests : session[q] # s
        /\ \A a \in Retirers : s \notin closing[a]
        /\ \A q \in Requests : q # p => s \notin pools[q].idle
        /\ session[r] = None /\ ~pools[p].retired
    BY <1>2, <1>3, <1>5, <2>1 DEF Sessions, Held, Idle, Working
  <2>4. /\ \A q \in Requests : session'[q] = IF q = r THEN s ELSE session[q]
        /\ \A a \in Actors : pc'[a] = IF a = r THEN "publish" ELSE pc[a]
    BY <1>1, <1>5
  <2>5. Held'
    <3>1. \A q, t \in Requests : session'[q] \notin pools'[t].idle
      <4>1. \A t \in Requests : s \notin pools'[t].idle /\ pools'[t].idle \subseteq pools[t].idle
        BY <1>1, <1>2, <1>5, <2>3 DEF PoolRecords
      <4> QED
        BY <2>4, <4>1 DEF Sessions, Held
    <3>2. \A q \in Requests, a \in Retirers : session'[q] \notin closing'[a]
      BY <1>3, <2>3, <2>4 DEF Sessions, Held
    <3>3. \A q \in Requests : /\ session'[q] # None => pc'[q] \in Working
                              /\ pc'[q] \in Leased => session'[q] # None
      BY <2>1, <2>4 DEF Sessions, Held, Working, Leased, Actors
    <3> QED
      BY <2>3, <2>4, <3>1, <3>2, <3>3 DEF Sessions, Held
  <2>6. Idle'
    <3>1. \A q \in Requests : pools'[q].retired => pools'[q].idle = {}
      BY <1>1, <1>2, <1>5, <2>3 DEF Sessions, Idle
    <3> QED
      BY <1>3, <2>2, <3>1 DEF Sessions, Idle
  <2>7. Closing'
    BY <1>1, <1>3, <2>4 DEF Sessions, Closing, Actors
  <2>8. OpenPlaces'
    BY <1>3, <2>1, <2>2, <2>4 DEF Sessions, OpenPlaces, Before, Actors
  <2>9. NoSessionLost'
    BY <1>3, <2>2, <2>3, <2>4 DEF NoSessionLost
  <2> QED
    BY <2>5, <2>6, <2>7, <2>8, <2>9 DEF Sessions
<1> QED
  BY <1>2, <1>4, <1>5 DEF Pop, Without, Goto, P

LEMMA ConnectKeeps ==
    ASSUME TypeOK, Standing, PoolRules, Sessions, NoSessionLost, NEW r \in Requests, Connect(r)
    PROVE  Sessions' /\ NoSessionLost'
<1> USE HttpPoolAssumption
<1>1. /\ pc \in [Actors -> Phases] /\ session \in [Requests -> Requests \cup {None}]
      /\ conn \in [Requests -> {"none", "open", "closed"}]
      /\ r \in Actors /\ r \notin Retirers
  BY DEF TypeOK, Actors
<1>2. /\ UNCHANGED <<pools, closing>> /\ pc[r] = "connect" /\ pc' = [pc EXCEPT ![r] = "publish"]
  BY DEF Connect, retirement, Goto
<1>3. CASE UNCHANGED <<session, conn>>
  <2>1. SamePlaces
    BY <1>1, <1>2, <1>3, PlacesOfMove DEF Working, Leased, Before
  <2> QED
    BY <2>1, PlacesKept
<1>4. CASE session' = [session EXCEPT ![r] = r] /\ conn' = [conn EXCEPT ![r] = "open"]
  <2>1. conn[r] = "none" /\ session[r] = None
    BY <1>2 DEF Sessions, OpenPlaces, Held, Before, Working
  <2>2. /\ \A q \in Requests : session[q] # r
        /\ \A a \in Retirers : r \notin closing[a]
        /\ \A q \in Requests : r \notin pools[q].idle
    BY <2>1 DEF Sessions, OpenPlaces
  <2>3. /\ \A q \in Requests : session'[q] = IF q = r THEN r ELSE session[q]
        /\ \A q \in Requests : conn'[q] = IF q = r THEN "open" ELSE conn[q]
        /\ \A a \in Actors : pc'[a] = IF a = r THEN "publish" ELSE pc[a]
    BY <1>1, <1>2, <1>4
  <2>4. Held'
    BY <1>2, <2>1, <2>2, <2>3 DEF Sessions, Held, Working, Leased, Actors
  <2>5. Idle'
    BY <1>2 DEF Sessions, Idle
  <2>6. Closing'
    BY <1>1, <1>2, <2>3 DEF Sessions, Closing, Actors
  <2>7. OpenPlaces'
    BY <1>1, <1>2, <2>3 DEF Sessions, OpenPlaces, Before, Actors
  <2>8. NoSessionLost'
    BY <1>2, <2>1, <2>3 DEF NoSessionLost
  <2> QED
    BY <2>4, <2>5, <2>6, <2>7, <2>8 DEF Sessions
<1> QED
  BY <1>3, <1>4 DEF Connect

LEMMA ReleaseKeeps ==
    ASSUME TypeOK, Standing, PoolRules, Sessions, NoSessionLost, NEW r \in Requests, Release(r)
    PROVE  Sessions' /\ NoSessionLost'
<1> USE HttpPoolAssumption
<1>1. /\ pc \in [Actors -> Phases] /\ pools \in [Requests -> PoolRecords]
      /\ session \in [Requests -> Requests \cup {None}]
      /\ r \in Actors /\ r \notin Retirers
  BY DEF TypeOK, Actors
<1>2. PICK p \in Requests : p = pool[r] /\ pools[p] \in PoolRecords
  BY PoolOfActor DEF Release, AtPool, HoldsLease, HoldsSlot, Actors, P
<1>3. UNCHANGED <<conn, closing>> /\ pc[r] = "use"
  BY DEF Release, retirement
<1>4. PICK s \in Requests : session[r] = s
  BY <1>1, <1>3 DEF Sessions, Held, Leased
<1>5. CASE /\ pools' = [pools EXCEPT ![p].sessions = @ \ {s}]
           /\ pc' = [pc EXCEPT ![r] = "discard"] /\ UNCHANGED session
  <2>1. \A q \in Requests : /\ pools'[q].idle = pools[q].idle
                            /\ pools'[q].retired => pools[q].retired
    BY <1>1, <1>2, <1>5 DEF PoolRecords
  <2>2. SamePlaces
    BY <1>1, <1>3, <1>5, <2>1, PlacesOfMove DEF Working, Leased, Before
  <2> QED
    BY <2>2, PlacesKept
<1>6. CASE /\ pools' = [pools EXCEPT ![p].idle = @ \cup {s}] /\ ~pools[p].retired
           /\ pc' = [pc EXCEPT ![r] = "unslot"] /\ session' = [session EXCEPT ![r] = None]
  <2>1. /\ \A q \in Requests : pools'[q].retired <=> pools[q].retired
        /\ \A q, t \in Requests : t \in pools'[q].idle <=> t \in pools[q].idle \/ (q = p /\ t = s)
    BY <1>1, <1>2, <1>6 DEF PoolRecords
  <2>2. /\ \A q \in Requests : q # r => session[q] # s
        /\ \A a \in Retirers : s \notin closing[a]
        /\ \A q \in Requests : s \notin pools[q].idle
        /\ conn[s] = "open"
    BY <1>4 DEF Sessions, Held, OpenPlaces
  <2>3. /\ \A q \in Requests : session'[q] = IF q = r THEN None ELSE session[q]
        /\ \A a \in Actors : pc'[a] = IF a = r THEN "unslot" ELSE pc[a]
    BY <1>1, <1>6
  <2>4. Held'
    <3>1. \A q, t \in Requests : session'[q] \notin pools'[t].idle
      <4>1. None \notin pools'[p].idle /\ \A t \in Requests : t # p => pools'[t] = pools[t]
        BY <1>1, <1>2, <1>6 DEF PoolRecords
      <4>2. \A t \in Requests : None \notin pools[t].idle
        BY <1>1 DEF PoolRecords
      <4> QED
        BY <1>1, <2>1, <2>2, <2>3, <4>1, <4>2 DEF Sessions, Held
    <3>2. \A q \in Requests, a \in Retirers : session'[q] \notin closing'[a]
      BY <1>3, <2>3 DEF Sessions, Held, TypeOK
    <3> QED
      BY <1>3, <2>3, <3>1, <3>2 DEF Sessions, Held, Working, Leased, Actors
  <2>5. Idle'
    <3>1. \A q \in Requests : pools'[q].retired => pools'[q].idle = {}
      BY <1>1, <1>2, <1>6 DEF Sessions, Idle, PoolRecords
    <3> QED
      BY <1>3, <2>1, <2>2, <3>1 DEF Sessions, Idle
  <2>6. Closing'
    BY <1>1, <1>3, <2>3 DEF Sessions, Closing, Actors
  <2>7. OpenPlaces'
    BY <1>3, <2>1, <2>2, <2>3 DEF Sessions, OpenPlaces, Before, Actors
  <2>8. NoSessionLost'
    BY <1>3, <1>4, <1>6, <2>1, <2>3 DEF NoSessionLost
  <2> QED
    BY <2>4, <2>5, <2>6, <2>7, <2>8 DEF Sessions
<1> QED
  BY <1>2, <1>4, <1>5, <1>6 DEF Release, Discards, Goto, P

LEMMA DiscardKeeps ==
    ASSUME TypeOK, Standing, PoolRules, Sessions, NoSessionLost, NEW r \in Requests, Discard(r)
    PROVE  Sessions' /\ NoSessionLost'
<1> USE HttpPoolAssumption
<1>1. /\ pc \in [Actors -> Phases] /\ pools \in [Requests -> PoolRecords]
      /\ session \in [Requests -> Requests \cup {None}]
      /\ conn \in [Requests -> {"none", "open", "closed"}]
      /\ r \in Actors /\ r \notin Retirers
  BY DEF TypeOK, Actors
<1>2. UNCHANGED <<pools, closing>> /\ pc[r] = "discard"
  BY DEF Discard, retirement
<1>3. /\ \A q \in Requests : session'[q] = IF q = r THEN None ELSE session[q]
      /\ \A a \in Actors : pc'[a] = IF a = r THEN "unslot" ELSE pc[a]
      /\ \A s \in Requests : conn'[s] = IF s = session[r] THEN "closed" ELSE conn[s]
  BY <1>1 DEF Discard, Goto
<1>4. \A q \in Requests : None \notin pools[q].idle
  BY <1>1 DEF PoolRecords
<1>5. Held'
  <2>1. /\ \A q \in Requests : session'[q] # None => q # r /\ session'[q] = session[q]
        /\ \A q \in Requests : q # r => pc'[q] = pc[q]
        /\ pc'[r] \notin Leased
    BY <1>3 DEF Leased, Actors
  <2>2. \A q, p \in Requests : session'[q] \notin pools'[p].idle
    BY <1>2, <1>4, <2>1 DEF Sessions, Held
  <2>3. \A q \in Requests, a \in Retirers : session'[q] \notin closing'[a]
    <3>1. \A a \in Retirers : None \notin closing[a]
      BY DEF TypeOK
    <3> QED
      BY <1>2, <2>1, <3>1 DEF Sessions, Held
  <2>4. \A q \in Requests : pc'[q] \in Leased => session'[q] # None
    BY <1>3, <2>1 DEF Sessions, Held
  <2> QED
    BY <2>1, <2>2, <2>3, <2>4 DEF Sessions, Held
<1>6. Idle'
  BY <1>2 DEF Sessions, Idle
<1>7. Closing'
  BY <1>1, <1>2, <1>3 DEF Sessions, Closing, Actors
<1>8. OpenPlaces'
  <2>1. \A q \in Requests : session'[q] # None => conn'[session'[q]] = "open"
    BY <1>1, <1>3 DEF Sessions, Held, OpenPlaces
  <2>2. \A p, s \in Requests : s \in pools'[p].idle => conn'[s] = "open"
    BY <1>2, <1>3 DEF Sessions, Held, OpenPlaces
  <2>3. \A a \in Retirers, s \in Requests : s \in closing'[a] => conn'[s] = "open"
    BY <1>2, <1>3 DEF Sessions, Held, OpenPlaces
  <2>4. \A q \in Requests : conn'[q] # "none" => pc'[q] \notin Before
    <3>1. \A q \in Requests : session[r] = q => conn[q] = "open"
      BY DEF Sessions, OpenPlaces
    <3> QED
      BY <1>3, <3>1 DEF Sessions, OpenPlaces, Before, Actors
  <2> QED
    BY <2>1, <2>2, <2>3, <2>4 DEF OpenPlaces
<1>9. NoSessionLost'
  BY <1>2, <1>3 DEF NoSessionLost
<1> QED
  BY <1>5, <1>6, <1>7, <1>8, <1>9 DEF Sessions

LEMMA RetireKeeps ==
    ASSUME TypeOK, Standing, PoolRules, Sessions, NoSessionLost, NEW a \in Retirers, Retire(a)
    PROVE  Sessions' /\ NoSessionLost'
<1> USE HttpPoolAssumption
<1>1. /\ pc \in [Actors -> Phases] /\ pools \in [Requests -> PoolRecords]
      /\ closing \in [Retirers -> SUBSET Requests]
      /\ a \in Actors /\ a \notin Requests
  BY DEF TypeOK, Actors
<1>2. PICK p \in Requests : p = pool[a] /\ pools[p] \in PoolRecords
  BY PoolOfActor DEF Retire, AtPool, Actors, P
<1>3. UNCHANGED <<session, conn>> /\ pc[a] = "retire" /\ closing[a] = {}
  BY DEF Retire, Sessions, Closing
<1>4. /\ \A b \in Retirers : closing'[b] = IF b = a THEN pools[p].idle ELSE closing[b]
      /\ \A b \in Actors : pc'[b] = IF b = a THEN "closeidle" ELSE pc[b]
  BY <1>1, <1>2 DEF Retire, Closable, P, Goto
<1>5. /\ \A q \in Requests : q # p => UNCHANGED pools[q]
      /\ pools'[p].idle = {} /\ pools'[p].retired
  BY <1>1, <1>2 DEF Retire, PoolRecords
<1>6. \A r \in Requests : pc'[r] = pc[r]
  BY <1>1, <1>4 DEF Actors
<1>7. \A q, s \in Requests : s \in pools'[q].idle => s \in pools[q].idle /\ q # p
  BY <1>5
<1>8. Held'
  <2>1. \A r, q \in Requests : session'[r] \notin pools'[q].idle
    BY <1>3, <1>5 DEF Sessions, Held
  <2>2. \A r \in Requests, b \in Retirers : session'[r] \notin closing'[b]
    BY <1>3, <1>4 DEF Sessions, Held
  <2> QED
    BY <1>3, <1>6, <2>1, <2>2 DEF Sessions, Held
<1>9. Idle'
  <2>1. \A q \in Requests : pools'[q].retired => pools'[q].idle = {}
    BY <1>5 DEF Sessions, Idle
  <2>2. \A q, s \in Requests, b \in Retirers : s \in pools'[q].idle => s \notin closing'[b]
    BY <1>4, <1>7 DEF Sessions, Idle
  <2> QED
    BY <1>7, <2>1, <2>2 DEF Sessions, Idle
<1>10. Closing'
  <2>1. \A b, d \in Retirers, s \in Requests : s \in closing'[b] /\ s \in closing'[d] => b = d
    BY <1>4 DEF Sessions, Closing, Idle
  <2>2. \A b \in Retirers : closing'[b] # {} => pc'[b] = "closeidle"
    BY <1>4 DEF Sessions, Closing, Actors
  <2> QED
    BY <2>1, <2>2 DEF Closing
<1>11. OpenPlaces'
  BY <1>3, <1>4, <1>6, <1>7 DEF Sessions, OpenPlaces
<1>12. NoSessionLost'
  <2> SUFFICES ASSUME NEW s \in Requests, conn'[s] = "open"
               PROVE  \/ \E r \in Requests : session'[r] = s
                      \/ \E q \in Requests : s \in pools'[q].idle /\ ~pools'[q].retired
                      \/ \E b \in Retirers : s \in closing'[b]
    BY DEF NoSessionLost
  <2>1. CASE \E r \in Requests : session[r] = s
    BY <1>3, <2>1
  <2>2. CASE s \in pools[p].idle
    BY <1>4, <2>2
  <2>3. ASSUME NEW q \in Requests, s \in pools[q].idle, ~pools[q].retired, q # p
        PROVE  s \in pools'[q].idle /\ ~pools'[q].retired
    BY <1>5, <2>3
  <2>4. ASSUME NEW b \in Retirers, s \in closing[b] PROVE s \in closing'[b]
    BY <1>3, <1>4, <2>4
  <2> QED
    BY <1>3, <2>1, <2>2, <2>3, <2>4 DEF NoSessionLost
<1> QED
  BY <1>8, <1>9, <1>10, <1>11, <1>12 DEF Sessions

LEMMA CloseIdleKeeps ==
    ASSUME TypeOK, Standing, PoolRules, Sessions, NoSessionLost, NEW a \in Retirers, CloseIdle(a)
    PROVE  Sessions' /\ NoSessionLost'
<1> USE HttpPoolAssumption
<1>1. /\ pc \in [Actors -> Phases] /\ closing \in [Retirers -> SUBSET Requests]
      /\ a \in Actors /\ a \notin Requests /\ session \in [Requests -> Requests \cup {None}]
  BY DEF TypeOK, Actors
<1>2. UNCHANGED <<session, pools>>
  BY DEF CloseIdle
<1>3. /\ \A b \in Retirers : closing'[b] = IF b = a THEN {} ELSE closing[b]
      /\ \A b \in Actors : pc'[b] = IF b = a THEN "forget" ELSE pc[b]
      /\ \A s \in Requests : conn'[s] = IF s \in closing[a] THEN "closed" ELSE conn[s]
  BY <1>1 DEF CloseIdle, Goto
<1>4. \A r \in Requests : pc'[r] = pc[r]
  BY <1>1, <1>3 DEF Actors
<1>5. Held'
  BY <1>2, <1>3, <1>4 DEF Sessions, Held
<1>6. Idle'
  BY <1>2, <1>3 DEF Sessions, Idle
<1>7. Closing'
  BY <1>3 DEF Sessions, Closing, Actors
<1>8. OpenPlaces'
  <2>1. \A r \in Requests : session'[r] # None => conn'[session'[r]] = "open"
    BY <1>1, <1>2, <1>3 DEF Sessions, Held, OpenPlaces
  <2>2. \A p, s \in Requests : s \in pools'[p].idle => conn'[s] = "open"
    BY <1>2, <1>3 DEF Sessions, Idle, OpenPlaces
  <2>3. \A b \in Retirers, s \in Requests : s \in closing'[b] => conn'[s] = "open"
    BY <1>3 DEF Sessions, Closing, OpenPlaces
  <2>4. \A r \in Requests : conn'[r] # "none" => pc'[r] \notin Before
    BY <1>3, <1>4 DEF Sessions, OpenPlaces
  <2> QED
    BY <2>1, <2>2, <2>3, <2>4 DEF OpenPlaces
<1>9. NoSessionLost'
  BY <1>2, <1>3 DEF NoSessionLost
<1> QED
  BY <1>5, <1>6, <1>7, <1>8, <1>9 DEF Sessions

LEMMA SessionsStep ==
    ASSUME TypeOK, Standing, PoolRules, Sessions, NoSessionLost, Next
    PROVE  Sessions' /\ NoSessionLost'
  BY PlacesStep, PlacesKept, PopKeeps, ConnectKeeps, ReleaseKeeps, DiscardKeeps, RetireKeeps,
     CloseIdleKeeps
  DEF MovesSession

-----------------------------------------------------------------------------
\* The shutdown

LEMMA CloserStep ==
    ASSUME TypeOK, Standing, Counts, Shutdown, Next
    PROVE  /\ pc'[Closer] # "idle" => closed'
           /\ pc'[Closer] \notin {"idle", "collect"} => \A c \in Configs : current'[c] = None
           /\ pc'[Closer] \in {"idle", "collect", "wait", "done"} => work'[Closer] = {}
           /\ pc'[Closer] = "done" => counted' = {}
<1> DEFINE Goal == /\ pc'[Closer] # "idle" => closed'
                   /\ pc'[Closer] \notin {"idle", "collect"} => \A c \in Configs : current'[c] = None
                   /\ pc'[Closer] \in {"idle", "collect", "wait", "done"} => work'[Closer] = {}
                   /\ pc'[Closer] = "done" => counted' = {}
<1> SUFFICES Goal
  OBVIOUS
<1>1. /\ pc \in [Actors -> Phases] /\ current \in [Configs -> Requests \cup {None}]
      /\ work \in [Retirers -> SUBSET Requests]
      /\ Closer \in Actors /\ Closer \in Retirers /\ Flight \in Actors
      /\ Flight \in Retirers /\ Flight # Closer /\ Closer \notin Requests
  BY HttpPoolAssumption DEF TypeOK, Actors, Retirers, Flight, Closer
<1>2. ASSUME pc'[Closer] = pc[Closer], closed' = closed, work'[Closer] = work[Closer],
             \A c \in Configs : current'[c] \in {current[c], None},
             counted' \subseteq counted
      PROVE  Goal
  BY <1>2 DEF Shutdown
<1>3. ASSUME NEW a \in Actors, a # Closer, NEW to, pc' = [pc EXCEPT ![a] = to]
      PROVE  pc'[Closer] = pc[Closer]
  BY <1>1, <1>3
<1> HIDE DEF Goal
<1>4. ASSUME NEW r \in Requests, NEW c \in Configs, GetPool(r, c) PROVE Goal
  <2>1. r \in Actors /\ r # Closer /\ UNCHANGED <<closed, work, counted>>
    BY <1>1, <1>4 DEF GetPool, Actors, leases, retirement
  <2>2. pc'[Closer] = pc[Closer]
    BY <1>3, <1>4, <2>1 DEF GetPool, Find, Create, Goto
  <2>3. CASE UNCHANGED current
    BY <1>2, <2>1, <2>2, <2>3
  <2>4. CASE ~closed
    BY <2>1, <2>2, <2>4 DEF Shutdown, Goal
  <2> QED
    BY <1>4, <2>3, <2>4 DEF GetPool
<1>5. ASSUME NEW r \in Requests, Register(r) PROVE Goal
  <2>1. r \in Actors /\ r # Closer /\ UNCHANGED <<closed, work, current>>
    BY <1>1, <1>5 DEF Register, Actors, leases, retirement
  <2>2. pc'[Closer] = pc[Closer]
    BY <1>3, <1>5, <2>1 DEF Register, Goto
  <2>3. CASE UNCHANGED counted
    BY <1>2, <2>1, <2>2, <2>3
  <2>4. CASE ~closed
    BY <2>1, <2>2, <2>4 DEF Shutdown, Goal
  <2> QED
    BY <1>5, <2>3, <2>4 DEF Register, MayRegister
<1>6. ASSUME NEW r \in Requests, \/ Join(r) \/ TakeSlot(r) \/ GiveUpSlot(r) \/ Pop(r) \/ Connect(r)
                                 \/ Publish(r) \/ Handover(r) \/ Release(r) \/ Discard(r)
                                 \/ FreeSlot(r) \/ FinishLease(r) \/ Uncount(r)
      PROVE  Goal
  <2>1. /\ r \in Actors /\ r # Closer /\ UNCHANGED <<closed, work, current>>
        /\ counted' \subseteq counted
    BY <1>1, <1>6 DEF Actors, Join, TakeSlot, GiveUpSlot, Pop, Connect, Publish, Handover, Release,
       Discard, FreeSlot, FinishLease, Uncount, gateway, leases, retirement
  <2>2. \E to : pc' = [pc EXCEPT ![r] = to]
    BY <1>6 DEF Join, TakeSlot, GiveUpSlot, Pop, Connect, Publish, Handover, Release,
       Discard, FreeSlot, FinishLease, Uncount, Goto
  <2> QED
    BY <1>2, <1>3, <2>1, <2>2
<1>7. ASSUME NEW a \in Actors, Forget(a) \/ Unlink(a) PROVE Goal
  <2>1. /\ UNCHANGED <<closed, work, counted>>
        /\ \A c \in Configs : current'[c] \in {current[c], None}
    BY <1>1, <1>7 DEF Forget, Unlink, gateway, leases, retirement
  <2>2. CASE a # Closer
    BY <1>2, <1>3, <1>7, <2>1, <2>2 DEF Forget, Unlink, Goto
  <2>3. CASE a = Closer
    <3>1. pc[Closer] \in {"forget", "unlink"} /\ pc'[Closer] \in {"unlink", "next"}
      BY <1>1, <1>7, <2>3 DEF Forget, Unlink, Goto, Return
    <3> QED
      BY <2>1, <3>1 DEF Shutdown, Goal
  <2> QED
    BY <2>2, <2>3
<1>8. ASSUME NEW a \in Retirers, \/ CancelPool(a) \/ Retire(a) \/ CloseIdle(a) \/ NoMorePools(a)
      PROVE  Goal
  <2>1. UNCHANGED <<closed, current, counted>> /\ a \in Actors
    BY <1>8 DEF CancelPool, Retire, CloseIdle, NoMorePools, gateway, leases, Actors
  <2>2. CASE a # Closer
    <3>1. work'[Closer] = work[Closer]
      BY <1>1, <1>8, <2>2 DEF CancelPool, Retire, CloseIdle, NoMorePools, retirement
    <3>2. pc'[Closer] = pc[Closer]
      BY <1>3, <1>8, <2>1, <2>2 DEF CancelPool, Retire, CloseIdle, NoMorePools, Goto
    <3> QED
      BY <1>2, <2>1, <3>1, <3>2
  <2>3. CASE a = Closer
    <3>1. /\ pc[Closer] \notin {"idle", "collect"}
          /\ \/ pc'[Closer] \in {"retire", "closeidle", "forget"}
             \/ pc'[Closer] = "wait" /\ work'[Closer] = {}
      BY <1>1, <1>8, <2>3 DEF CancelPool, Retire, CloseIdle, NoMorePools, Goto, retirement
    <3> QED
      BY <2>1, <3>1 DEF Shutdown, Goal
  <2> QED
    BY <2>2, <2>3
<1>9. ASSUME NEW r \in Requests, Leave(r) \/ AfterFunc(r) PROVE Goal
  BY <1>2, <1>9 DEF Leave, AfterFunc, gateway, retirement
<1>10. ASSUME PublishCatalog PROVE Goal
  <2>1. pc'[Closer] = pc[Closer] /\ work'[Closer] = work[Closer]
    BY <1>1, <1>3, <1>10 DEF PublishCatalog, Goto
  <2> QED
    BY <1>2, <1>10, <2>1 DEF PublishCatalog, leases
<1>11. ASSUME Expire \/ UNCHANGED vars PROVE Goal
  BY <1>2, <1>11 DEF Expire, vars, leases, retirement
<1>12. ASSUME BeginClose \/ CollectPools PROVE Goal
  <2>1. CASE BeginClose
    BY <1>1, <2>1 DEF BeginClose, Goto, Shutdown, Goal
  <2>2. CASE CollectPools
    BY <1>1, <2>2 DEF CollectPools, Goto, Shutdown, Goal
  <2> QED
    BY <1>12, <2>1, <2>2
<1>13. ASSUME Close PROVE Goal
  <2>1. /\ pc[Closer] = "wait" /\ pc'[Closer] = "done"
        /\ UNCHANGED <<closed, current, work, counted>>
    BY <1>1, <1>13 DEF Close, Goto, gateway, leases, retirement
  <2>2. counted = {}
    BY <1>13, SomeRequests DEF Close, Counts, TypeOK
  <2> QED
    BY <2>1, <2>2 DEF Shutdown, Goal
<1> QED
  BY <1>4, <1>5, <1>6, <1>7, <1>8, <1>9, <1>10, <1>11, <1>12, <1>13
  DEF Next, RequestStep, RetireStep, CloseStep, Stopped, Actors, Retirers

LEMMA CountedStep ==
    ASSUME TypeOK, Shutdown, Next, NEW q \in Requests
    PROVE  /\ pc'[q] \in Connecting \cup Working \cup {"uncount"} => q \in counted'
           /\ q \in counted' => pc'[q] \notin {"idle", "join", "slot", "register", "done"}
<1> DEFINE Goal == /\ pc'[q] \in Connecting \cup Working \cup {"uncount"} => q \in counted'
                   /\ q \in counted' => pc'[q] \notin {"idle", "join", "slot", "register", "done"}
<1> SUFFICES Goal
  OBVIOUS
<1>1. /\ pc \in [Actors -> Phases] /\ counted \subseteq Requests
      /\ q \in Actors /\ q \notin Retirers
      /\ pc[q] \in Connecting \cup Working \cup {"uncount"} => q \in counted
      /\ q \in counted => pc[q] \notin {"idle", "join", "slot", "register", "done"}
  BY HttpPoolAssumption DEF TypeOK, Actors, Shutdown
<1>2. ASSUME UNCHANGED pc[q], q \in counted' <=> q \in counted PROVE Goal
  BY <1>1, <1>2
<1>3. ASSUME NEW a \in Actors, a # q, NEW to, Goto(a, to), q \in counted' <=> q \in counted PROVE Goal
  BY <1>1, <1>2, <1>3 DEF Goto
<1>4. ASSUME NEW to, Goto(q, to), UNCHANGED counted,
             to \in Connecting \cup Working \cup {"uncount"} => q \in counted,
             q \in counted => to \notin {"idle", "join", "slot", "register", "done"}
      PROVE  Goal
  BY <1>1, <1>4 DEF Goto
<1> HIDE DEF Goal
<1>5. ASSUME NEW r \in Requests, NEW c \in Configs, GetPool(r, c) PROVE Goal
  <2>1. UNCHANGED counted /\ r \in Actors /\ pc[r] = "idle"
        /\ (Goto(r, "join") \/ Goto(r, "done"))
    BY <1>5 DEF GetPool, Find, Create, leases, Actors
  <2>2. CASE r = q
    BY <1>1, <1>4, <2>1, <2>2 DEF Connecting, Working
  <2> QED
    BY <1>3, <2>1, <2>2
<1>6. ASSUME NEW r \in Requests, Register(r) PROVE Goal
  <2>1. r \in Actors /\ pc[r] = "register"
    BY <1>6 DEF Register, Actors
  <2>2. CASE r = q
    BY <1>1, <1>6, <2>1, <2>2 DEF Register, Goto, Connecting, Working, Goal
  <2>3. CASE r # q
    BY <1>1, <1>3, <1>6, <2>1, <2>3 DEF Register
  <2> QED
    BY <2>2, <2>3
<1>7. ASSUME NEW r \in Requests, Uncount(r) PROVE Goal
  <2>1. r \in Actors
    BY DEF Actors
  <2>2. CASE r = q
    BY <1>1, <1>7, <2>1, <2>2 DEF Uncount, Goto, Connecting, Working, Goal
  <2>3. CASE r # q
    BY <1>1, <1>3, <1>7, <2>1, <2>3 DEF Uncount
  <2> QED
    BY <2>2, <2>3
<1>8. ASSUME NEW r \in Requests, \/ Join(r) \/ TakeSlot(r) \/ GiveUpSlot(r)
                                 \/ FreeSlot(r) \/ FinishLease(r)
      PROVE  Goal
  <2>1. UNCHANGED counted /\ r \in Actors
    BY <1>8 DEF Join, TakeSlot, GiveUpSlot, FreeSlot, FinishLease, leases, Actors
  <2>2. \/ pc[r] \in {"join", "slot"} /\ (\E to \in {"done", "slot", "register", "unlease"} : Goto(r, to))
        \/ pc[r] = "unslot" /\ Goto(r, "unlease")
        \/ pc[r] = "unlease" /\ Goto(r, "forget")
    BY <1>8 DEF Join, TakeSlot, GiveUpSlot, FreeSlot, FinishLease
  <2>3. CASE r = q
    BY <1>1, <1>4, <2>1, <2>2, <2>3 DEF Connecting, Working
  <2> QED
    BY <1>3, <2>1, <2>2, <2>3
<1>9. ASSUME NEW r \in Requests, \/ Pop(r) \/ Connect(r) \/ Publish(r) \/ Handover(r)
                                 \/ Release(r) \/ Discard(r)
      PROVE  Goal
  <2>1. UNCHANGED counted /\ r \in Actors
    BY <1>9 DEF Pop, Connect, Publish, Handover, Release, Discard, leases, Actors
  <2>2. /\ pc[r] \in Connecting \cup Working
        /\ \E to \in {"publish", "connect", "handover", "discard", "use", "unslot"} : Goto(r, to)
    BY <1>9 DEF Pop, Connect, Publish, Handover, Release, Discard, Connecting, Working
  <2>3. CASE r = q
    BY <1>1, <1>4, <2>1, <2>2, <2>3
  <2> QED
    BY <1>3, <2>1, <2>2, <2>3
<1>10. ASSUME NEW a \in Actors, Forget(a) \/ Unlink(a) PROVE Goal
  <2>1. UNCHANGED counted
    BY <1>10 DEF Forget, Unlink, leases
  <2>2. Goto(a, "unlink") \/ Goto(a, Return(a))
    BY <1>10 DEF Forget, Unlink
  <2>3. CASE a = q
    BY <1>1, <1>4, <2>1, <2>2, <2>3 DEF Return, Connecting, Working
  <2> QED
    BY <1>3, <2>1, <2>2, <2>3
<1>11. ASSUME NEW a \in Retirers, \/ CancelPool(a) \/ Retire(a) \/ CloseIdle(a) \/ NoMorePools(a)
      PROVE  Goal
  <2>1. UNCHANGED counted /\ a \in Actors /\ a # q /\ \E to : Goto(a, to)
    BY <1>1, <1>11 DEF CancelPool, Retire, CloseIdle, NoMorePools, leases, Actors
  <2> QED
    BY <1>3, <2>1
<1>12. ASSUME \/ PublishCatalog \/ BeginClose \/ CollectPools \/ Close PROVE Goal
  <2>1. UNCHANGED counted /\ \E a \in Retirers : \E to : Goto(a, to)
    BY <1>12 DEF PublishCatalog, BeginClose, CollectPools, Close, leases, Retirers
  <2> QED
    BY <1>1, <1>3, <2>1 DEF Actors
<1>13. ASSUME NEW r \in Requests, Leave(r) \/ AfterFunc(r) PROVE Goal
  BY <1>2, <1>13 DEF Leave, AfterFunc
<1>14. ASSUME Expire \/ Stopped PROVE Goal
  BY <1>2, <1>14 DEF Expire, Stopped, leases, vars
<1> QED
  BY <1>5, <1>6, <1>7, <1>8, <1>9, <1>10, <1>11, <1>12, <1>13, <1>14
  DEF Next, RequestStep, RetireStep, CloseStep, Actors, Retirers

(* A pool that is not retired yet is one that the shutdown will come to:   *)
(* what replaces or unlinks a pool does so when it is retired.             *)
LEMMA ToRetireStep ==
    ASSUME TypeOK, Standing, PoolRules, Shutdown, Next,
           NEW p \in Requests, Created(p)', ~pools'[p].retired
    PROVE  ToRetire(p)'
<1> DEFINE Goal == \/ \E c \in Configs : current'[c] = p
                   \/ p \in work'[Closer]
                   \/ pc'[Closer] = "retire" /\ pool'[Closer] = p
<1> SUFFICES Goal
  BY DEF ToRetire
<1>1. /\ pc \in [Actors -> Phases] /\ current \in [Configs -> Requests \cup {None}]
      /\ work \in [Retirers -> SUBSET Requests] /\ pools \in [Requests -> PoolRecords]
      /\ pool \in [Actors -> Requests \cup {None}]
      /\ Closer \in Actors /\ Closer \in Retirers /\ Closer \notin Requests
      /\ Flight \in Actors /\ Flight \in Retirers /\ Flight # Closer
      /\ None \notin Requests
  BY HttpPoolAssumption DEF TypeOK, Actors, Retirers, Flight, Closer
<1>2. CASE Opens(p)
  <2>1. PICK c \in Configs : Create(p, c)
    BY <1>2 DEF Opens
  <2> QED
    BY <1>1, <2>1 DEF Create
<1>3. CASE ~Opens(p)
  <2>1. Created(p) /\ ~pools[p].retired
    BY <1>3, PoolStep DEF Kept, Created
  <2>2. ToRetire(p)
    BY <2>1 DEF Shutdown
  <2>3. ASSUME \A c \in Configs : current[c] = p => current'[c] = p,
               work'[Closer] = work[Closer],
               pc[Closer] = "retire" => pc'[Closer] = "retire" /\ pool'[Closer] = pool[Closer]
        PROVE  Goal
    BY <2>2, <2>3 DEF ToRetire
  <2>4. ASSUME NEW a \in Actors, a # Closer, NEW to, Goto(a, to),
               pool' = pool \/ \E x : pool' = [pool EXCEPT ![a] = x],
               \A c \in Configs : current[c] = p => current'[c] = p,
               work'[Closer] = work[Closer]
        PROVE  Goal
    BY <1>1, <2>3, <2>4 DEF Goto
  <2> HIDE DEF Goal
  <2>5. ASSUME NEW r \in Requests, NEW c \in Configs, GetPool(r, c) PROVE Goal
    <3>1. /\ r \in Actors /\ r # Closer /\ UNCHANGED work
          /\ Goto(r, "join") \/ Goto(r, "done")
          /\ pool' = pool \/ \E x : pool' = [pool EXCEPT ![r] = x]
      BY <1>1, <2>5 DEF GetPool, Find, Create, retirement, Actors
    <3>2. CASE UNCHANGED current
      BY <2>4, <3>1, <3>2
    <3>3. CASE Create(r, c) /\ ~(current[c] # None /\ ~pools[current[c]].retired)
      <4>1. current[c] # p
        BY <1>1, <2>1, <3>3
      <4>2. \A k \in Configs : current[k] = p => current'[k] = p
        BY <1>1, <3>3, <4>1 DEF Create
      <4> QED
        BY <2>4, <3>1, <4>2
    <3> QED
      BY <2>5, <3>2, <3>3 DEF GetPool, Find
  <2>6. ASSUME NEW r \in Requests, \/ Join(r) \/ TakeSlot(r) \/ GiveUpSlot(r) \/ Register(r)
                                   \/ Pop(r) \/ Connect(r) \/ Publish(r) \/ Handover(r)
                                   \/ Release(r) \/ Discard(r) \/ FreeSlot(r) \/ FinishLease(r)
                                   \/ Uncount(r)
        PROVE  Goal
    <3>1. /\ r \in Actors /\ r # Closer /\ UNCHANGED <<work, current, pool>>
          /\ \E to : Goto(r, to)
      BY <1>1, <2>6 DEF Join, TakeSlot, GiveUpSlot, Register, Pop, Connect, Publish, Handover,
         Release, Discard, FreeSlot, FinishLease, Uncount, gateway, retirement, Actors
    <3> QED
      BY <2>4, <3>1
  <2>7. ASSUME NEW a \in Actors, Forget(a) \/ Unlink(a) PROVE Goal
    <3>1. /\ UNCHANGED work /\ pc[a] # "retire" /\ \E to : Goto(a, to)
          /\ pool' = pool \/ \E x : pool' = [pool EXCEPT ![a] = x]
      BY <2>7 DEF Forget, Unlink, retirement
    <3>2. \A c \in Configs : current[c] = p => current'[c] = p
      <4>1. CASE Forget(a)
        BY <4>1 DEF Forget, gateway
      <4>2. CASE Unlink(a)
        <5>1. pool[a] # p
          BY <2>1, <4>2 DEF Unlink, PoolRules
        <5> QED
          BY <1>1, <4>2, <5>1 DEF Unlink
      <4> QED
        BY <2>7, <4>1, <4>2
    <3>3. CASE a = Closer
      BY <2>3, <3>1, <3>2, <3>3
    <3> QED
      BY <2>4, <3>1, <3>2, <3>3
  <2>8. ASSUME NEW a \in Retirers, a # Closer,
               CancelPool(a) \/ Retire(a) \/ CloseIdle(a) \/ NoMorePools(a)
        PROVE  Goal
    <3>1. /\ a \in Actors /\ UNCHANGED current /\ \E to : Goto(a, to)
          /\ pool' = pool \/ \E x : pool' = [pool EXCEPT ![a] = x]
      BY <2>8 DEF CancelPool, Retire, CloseIdle, NoMorePools, gateway, Actors
    <3>2. work'[Closer] = work[Closer]
      BY <1>1, <2>8 DEF CancelPool, Retire, CloseIdle, NoMorePools, retirement
    <3> QED
      BY <2>4, <2>8, <3>1, <3>2
  <2>9. ASSUME CancelPool(Closer) PROVE Goal
    BY <1>1, <2>2, <2>9 DEF CancelPool, Goto, gateway, ToRetire, Goal
  <2>10. ASSUME Retire(Closer) PROVE Goal
    <3>1. pc[Closer] = "retire" /\ UNCHANGED <<current, work>>
      BY <2>10 DEF Retire, gateway
    <3>2. pool[Closer] \in Requests /\ pools[pool[Closer]] \in PoolRecords
      BY <1>1, <3>1, PoolOfActor DEF AtPool, P
    <3>3. pools'[pool[Closer]].retired
      BY <1>1, <2>10, <3>2 DEF Retire, PoolRecords
    <3> QED
      BY <2>2, <3>1, <3>3 DEF ToRetire, Goal
  <2>11. ASSUME \/ CloseIdle(Closer) \/ NoMorePools(Closer) \/ BeginClose \/ Close PROVE Goal
    <3>1. pc[Closer] # "retire" /\ UNCHANGED <<current, work>>
      BY <2>11 DEF CloseIdle, NoMorePools, BeginClose, Close, gateway, retirement
    <3> QED
      BY <2>3, <3>1
  <2>12. ASSUME CollectPools PROVE Goal
    <3>1. work[Closer] = {} /\ pc[Closer] # "retire"
      BY <2>12 DEF CollectPools, Shutdown
    <3> QED
      BY <1>1, <2>2, <2>12, <3>1 DEF CollectPools, ToRetire, Goal
  <2>13. ASSUME PublishCatalog PROVE Goal
    <3>1. work'[Closer] = work[Closer] /\ UNCHANGED <<current, pool>> /\ Goto(Flight, "next")
      BY <1>1, <2>13 DEF PublishCatalog
    <3> QED
      BY <1>1, <2>4, <3>1
  <2>14. ASSUME \/ Expire \/ Stopped \/ \E r \in Requests : Leave(r) \/ AfterFunc(r) PROVE Goal
    <3>1. UNCHANGED <<current, work, pc, pool>>
      BY <2>14 DEF Expire, Stopped, Leave, AfterFunc, gateway, retirement, vars
    <3> QED
      BY <2>3, <3>1
  <2> QED
    BY <2>5, <2>6, <2>7, <2>8, <2>9, <2>10, <2>11, <2>12, <2>13, <2>14
    DEF Next, RequestStep, RetireStep, CloseStep, Actors, Retirers
<1> QED
  BY <1>2, <1>3

LEMMA ShutdownStep ==
    ASSUME TypeOK, Standing, PoolRules, Counts, Shutdown, Next, TypeOK'
    PROVE  Shutdown'
<1>1. \A r \in counted' : r \in Requests
  BY DEF TypeOK
<1> QED
  BY <1>1, CloserStep, CountedStep, ToRetireStep DEF Shutdown

-----------------------------------------------------------------------------
\* The theorems

LEMMA InitInv == Init => IInv
<1> SUFFICES ASSUME Init PROVE IInv
  OBVIOUS
<1> USE HttpPoolAssumption DEF Init, Actors, Retirers, Flight, Closer
<1>1. NewPool(None, None) \in PoolRecords
  BY DEF NewPool, PoolRecords
<1>2. TypeOK
  <2>1. used \in [Requests -> 0..Slots] /\ turns \in 0..MaxTurns
    OBVIOUS
  <2>2. pools \in [Requests -> PoolRecords] /\ pc \in [Actors -> Phases]
    BY <1>1 DEF Phases
  <2> QED
    BY <2>1, <2>2 DEF TypeOK
<1>3. Standing
  BY DEF Standing, AtPool, HoldsLease, HoldsSlot, Created, NewPool
<1>4. PoolRules
  BY DEF PoolRules, Created, Live, NewPool
<1>5. Counts
  <2>1. counted = {} /\ httpLeases = 0
    OBVIOUS
  <2>2. \A p \in Requests : LeasesOf(p) = {} /\ UsersOf(p) = {} /\ PoolsOf(p) = {}
    BY DEF LeasesOf, UsersOf, PoolsOf, HoldsLease, HoldsSlot, Live, Created, NewPool
  <2>3. \A p \in Requests : pools[p].leases = 0 /\ used[p] = 0 /\ owners[p] = 0
    BY DEF NewPool
  <2>4. Cardinality({}) = 0
    BY FS_EmptySet
  <2> QED
    BY <2>1, <2>2, <2>3, <2>4 DEF Counts
<1>6. Sessions /\ NoSessionLost
  BY DEF Sessions, Held, Idle, Closing, OpenPlaces, NoSessionLost, Leased, NewPool
<1>7. Shutdown
  BY DEF Shutdown, Connecting, Working, Created, NewPool
<1> QED
  BY <1>2, <1>3, <1>4, <1>5, <1>6, <1>7 DEF IInv

LEMMA InvStep == IInv /\ [Next]_vars => IInv'
<1>1. ASSUME IInv, UNCHANGED vars PROVE IInv'
  <2>1. /\ UNCHANGED <<closed, current, provider, httpLeases, pools, used, owners>>
        /\ UNCHANGED <<conn, pc, pool, session, counted, gone, cut, work, closing>>
    BY <1>1 DEF vars
  <2>2. TypeOK'
    BY <1>1 DEF TypeOK, vars, IInv
  <2>3. Standing' /\ PoolRules'
    BY <1>1, <2>1 DEF IInv, Standing, PoolRules, Created, Live, Unlinking
  <2>4. Counts'
    BY <1>1, <2>1
    DEF IInv, Counts, LeasesOf, UsersOf, PoolsOf, Live, Created, Unlinking, Slot, P
  <2>5. Sessions' /\ NoSessionLost'
    <3>1. SamePlaces
      BY <1>1, <2>1 DEF IInv, SamePlaces, Sessions, Held, Closing, OpenPlaces
    <3> QED
      BY <1>1, <3>1, PlacesKept DEF IInv
  <2>6. Shutdown'
    BY <1>1, <2>1 DEF IInv, Shutdown, ToRetire, Created
  <2> QED
    BY <2>2, <2>3, <2>4, <2>5, <2>6 DEF IInv
<1>2. ASSUME IInv, Next PROVE IInv'
  BY <1>2, TypeStep, StandingStep, PoolRulesStep, CountsStep, SessionsStep, ShutdownStep DEF IInv
<1> QED
  BY <1>1, <1>2

LEMMA InvAlways == Spec => []IInv
  BY InitInv, InvStep, PTL DEF Spec

(* However often a configuration is retired, replaced and enabled again,   *)
(* the calls in flight to a tool never exceed its slots: a pool that has a *)
(* lease is not forgotten, so that all of them share one provider          *)
(* (Gateway.httpProviders), whose channel of slots counts them all.        *)
THEOREM SlotsBound == Spec => []SlotsRespected
<1>1. ASSUME IInv PROVE SlotsRespected
  <2> DEFINE S == {r \in Requests : pc[r] \in HoldsSlot}
  <2>1. TypeOK /\ Standing /\ PoolRules /\ Counts
    BY <1>1 DEF IInv
  <2>2. ASSUME NEW r \in S PROVE Slot(r) = provider /\ provider \in Requests
    <3>1. r \in Requests /\ r \in Actors /\ pc[r] \in HoldsLease
      BY DEF HoldsLease, Actors
    <3>2. /\ pool[r] \in Requests /\ Created(pool[r]) /\ P(r).provider \in Requests
          /\ pools[pool[r]].leases >= 1
      BY <2>1, <3>1, PoolOfActor, HeldIsCounted DEF AtPool
    <3>3. Live(pool[r])
      BY <2>1, <3>2 DEF PoolRules, Live
    <3> QED
      BY <2>1, <3>2, <3>3 DEF PoolRules, Slot, P
  <2>3. Cardinality(S) <= Slots
    <3>1. CASE S = {}
      BY <3>1, FS_EmptySet, HttpPoolAssumption
    <3>2. CASE S # {}
      <4>1. provider \in Requests
        BY <2>2, <3>2
      <4>2. S = UsersOf(provider)
        BY <2>2 DEF UsersOf
      <4>3. used[provider] = Cardinality(S) /\ used[provider] \in 0..Slots
        BY <2>1, <4>1, <4>2 DEF Counts, TypeOK
      <4> QED
        BY <4>3, HttpPoolAssumption
    <3> QED
      BY <3>1, <3>2
  <2> QED
    BY <2>1, <2>3 DEF SlotsRespected
<1> QED
  BY <1>1, InvAlways, PTL

(* A session serves one request at a time and is not closed under it; no   *)
(* open one is lost; and when Gateway.Close returns, no handshake or call  *)
(* is under way and what is still open is about to be closed by a catalog. *)
(* The last follows from the wait group and from the pools that Close has  *)
(* collected: none is created after it, and none it collected stays.       *)
THEOREM SessionsSound == Spec => []SessionsKept
<1>1. ASSUME IInv PROVE SessionsKept
  <2>1. /\ TypeOK /\ Standing /\ Held /\ Idle /\ Closing /\ OpenPlaces
        /\ NoSessionLost /\ Shutdown
    BY <1>1 DEF IInv, Sessions
  <2>2. SessionExclusive
    BY <2>1 DEF SessionExclusive, Held, OpenPlaces
  <2>3. ASSUME pc[Closer] = "done" PROVE CloseIsFinal
    <3>1. /\ counted = {} /\ work[Closer] = {} /\ \A c \in Configs : current[c] = None
      BY <2>1, <2>3 DEF Shutdown
    <3>2. \A r \in Requests : pc[r] \notin Connecting \cup Working
      BY <2>1, <3>1 DEF Shutdown
    <3>3. \A p \in Requests : ~ToRetire(p)
      BY <2>3, <3>1, HttpPoolAssumption DEF ToRetire
    <3>4. \A p \in Requests : ~pools[p].retired => ~Created(p)
      BY <2>1, <3>3 DEF Shutdown
    <3>5. ASSUME NEW s \in Requests, conn[s] = "open" PROVE s \in closing[Flight]
      <4>1. \A r \in Requests : session[r] # s
        BY <2>1, <3>2, HttpPoolAssumption DEF Held
      <4>2. \A p \in Requests : pools[p].idle = {}
        BY <2>1, <3>4 DEF Idle, Standing
      <4>3. closing[Closer] = {}
        BY <2>1, <2>3 DEF Closing, Retirers
      <4> QED
        BY <2>1, <3>5, <4>1, <4>2, <4>3 DEF NoSessionLost, Retirers
    <3> QED
      BY <2>1, <3>2, <3>5 DEF CloseIsFinal, Working, Leased
  <2> QED
    BY <2>1, <2>2, <2>3 DEF SessionsKept, CloseIsFinal
<1> QED
  BY <1>1, InvAlways, PTL
=============================================================================
