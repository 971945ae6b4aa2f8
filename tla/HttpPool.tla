------------------------------ MODULE HttpPool ------------------------------
(***************************************************************************)
(* The HTTP sessions a gateway keeps to one upstream tool: pools of idle   *)
(* sessions by configuration, the slots that all configurations of the     *)
(* tool share, leases that a request takes and gives back, the retirement  *)
(* of a configuration by the catalog, and the shutdown of the gateway.     *)
(*                                                                         *)
(* One action is one critical section of Gateway.mu or of a pool's mu, or  *)
(* one channel, wait-group or network operation between two of them.       *)
(* Contexts are the sets of who has been cancelled; a context.AfterFunc    *)
(* runs in a goroutine of its own, hence later than what triggers it.      *)
(***************************************************************************)
EXTENDS Integers, FiniteSets

CONSTANTS
    Requests,    \* the requests; each one's pool and session are named after it
    Configs,     \* session keys of the tool: its id and the hash of its config
    Slots,       \* sessions in use per tool (32 in the code)
    None,
    MaxTurns,    \* bound: catalogs published and shutdowns
    MayLeave     \* requests whose client may leave or whose deadline may pass

Flight == "flight"    \* the catalog's singleflight, which retires pools
Closer == "closer"    \* Gateway.Close
Retirers == {Flight, Closer}
Actors == Requests \cup Retirers

NewPool(c, v) == [config |-> c, provider |-> v, cancelled |-> FALSE, retired |-> FALSE,
                  forgotten |-> FALSE, leases |-> 0, idle |-> {}, sessions |-> {}]

ASSUME HttpPoolAssumption ==
    /\ IsFiniteSet(Requests) /\ Requests \cap Retirers = {}
    /\ None \notin Requests \cup Configs
    /\ Slots \in Nat \ {0} /\ MaxTurns \in Nat
    /\ MayLeave \subseteq Requests

VARIABLES
    closed,      \* Gateway.ctx is cancelled
    current,     \* Gateway.httpPools
    provider,    \* Gateway.httpProviders of the tool
    active,      \* configurations in Gateway.catalog
    fresh,       \* now is before Gateway.catalogUntil
    httpLeases,  \* the wait group
    pools,       \* httpSessionPool, by the request that created it
    used, owners,\* len(slots) and pools of an httpProvider, by its creator
    conn,        \* the MCP session that a request opened
    pc,          \* where an actor stands
    pool,        \* the pool it works on
    session,     \* the session a request holds
    counted,     \* requests that are in the wait group
    gone,        \* requests whose own context is done
    cut,         \* leases whose context was cancelled by an AfterFunc or close
    work,        \* pools that a retirer has still to close
    closing,     \* idle sessions that a retirer took to close
    turns        \* the bounded counter

gateway == <<closed, current, provider, active, fresh, httpLeases>>
leases == <<conn, session, counted, gone, cut>>
retirement == <<work, closing, turns>>
vars == <<closed, current, provider, active, fresh, httpLeases, pools, used, owners,
          conn, pc, pool, session, counted, gone, cut, work, closing, turns>>

Goto(a, phase) == pc' = [pc EXCEPT ![a] = phase]
P(a) == pools[pool[a]]
Slot(r) == P(r).provider

(* Contexts: a pool's is a child of the gateway's, a lease's of its        *)
(* request's, and AfterFuncs cancel it for the gateway and, until          *)
(* stopConnect, for the pool.                                              *)
PoolDone(p) == pools[p].cancelled \/ closed
LeaseDone(r) == r \in gone \/ r \in cut
(* The cleanup of a lease; nobody looks at its contexts after it.          *)
EndContext(r) == cut' = cut \ {r} /\ gone' = gone \ {r}
Connecting == {"pop", "connect", "publish", "handover"}
Leased == {"handover", "use"}

Init ==
    /\ closed = FALSE
    /\ current = [c \in Configs |-> None]
    /\ provider = None
    /\ active = {}
    /\ fresh = FALSE
    /\ httpLeases = 0
    /\ pools = [r \in Requests |-> NewPool(None, None)]
    /\ used = [r \in Requests |-> 0]
    /\ owners = [r \in Requests |-> 0]
    /\ conn = [r \in Requests |-> "none"]
    /\ pc = [a \in Actors |-> "idle"]
    /\ pool = [a \in Actors |-> None]
    /\ session = [r \in Requests |-> None]
    /\ counted = {}
    /\ gone = {}
    /\ cut = {}
    /\ work = [a \in Retirers |-> {}]
    /\ closing = [a \in Retirers |-> {}]
    /\ turns = 0

-----------------------------------------------------------------------------
\* Gateway.httpPool and httpSessionPool.acquire

(* Find the pool of a configuration or create it, under Gateway.mu.  A     *)
(* retired one is replaced, but not for a configuration that the published *)
(* catalog does not have.                                                  *)
InCatalog(c) == ~fresh \/ c \in active
Find(r, c) ==
    /\ pool' = [pool EXCEPT ![r] = current[c]]
    /\ Goto(r, "join")
    /\ UNCHANGED <<current, provider, pools, used, owners>>
Create(r, c) ==
    LET v == IF provider = None THEN r ELSE provider
    IN  /\ pools' = [pools EXCEPT ![r] = NewPool(c, v)]
        /\ provider' = v
        /\ owners' = [owners EXCEPT ![v] = @ + 1]
        /\ current' = [current EXCEPT ![c] = r]
        /\ pool' = [pool EXCEPT ![r] = r]
        /\ Goto(r, "join")
        /\ UNCHANGED used
GetPool(r, c) ==
    /\ pc[r] = "idle"
    /\ LET usable == current[c] # None /\ ~pools[current[c]].retired
       IN  \/ ~closed /\ usable /\ Find(r, c)
           \/ ~closed /\ ~usable /\ InCatalog(c) /\ Create(r, c)
           \/ /\ closed \/ ~usable   \* or its configuration cannot be opened
              /\ Goto(r, "done")
              /\ UNCHANGED <<current, provider, pools, used, owners, pool>>
    /\ UNCHANGED <<closed, active, fresh, httpLeases, leases, retirement>>

Join(r) ==
    /\ pc[r] = "join"
    /\ IF P(r).retired
       THEN Goto(r, "done") /\ UNCHANGED pools
       ELSE /\ pools' = [pools EXCEPT ![pool[r]].leases = @ + 1]
            /\ Goto(r, "slot")
    /\ UNCHANGED <<gateway, used, owners, pool, leases, retirement>>

HasSlot(n) == n < Slots
TakeSlot(r) ==
    /\ pc[r] = "slot"
    /\ HasSlot(used[Slot(r)])
    /\ used' = [used EXCEPT ![Slot(r)] = @ + 1]
    /\ Goto(r, "register")
    /\ UNCHANGED <<gateway, pools, owners, pool, leases, retirement>>

GiveUpSlot(r) ==
    /\ pc[r] = "slot"
    /\ r \in gone \/ PoolDone(pool[r])
    /\ Goto(r, "unlease")
    /\ EndContext(r)
    /\ UNCHANGED <<gateway, pools, used, owners, pool, conn, session, counted, retirement>>

(* Under Gateway.mu: no lease enters the wait group of a closed gateway.   *)
MayRegister(r) == ~closed
Register(r) ==
    /\ pc[r] = "register"
    /\ IF MayRegister(r)
       THEN /\ httpLeases' = httpLeases + 1
            /\ counted' = counted \cup {r}
            /\ Goto(r, "pop")
            /\ UNCHANGED <<gone, cut>>
       ELSE /\ Goto(r, "unslot")
            /\ EndContext(r)
            /\ UNCHANGED <<httpLeases, counted>>
    /\ UNCHANGED <<closed, current, provider, active, fresh, pools, used, owners, pool,
                   conn, session, retirement>>

WithoutNone(idle, s) == idle
Without(idle, s) == idle \ {s}
Pop(r) ==
    /\ pc[r] = "pop"
    /\ \/ \E s \in P(r).idle :
           /\ session' = [session EXCEPT ![r] = s]
           /\ pools' = [pools EXCEPT ![pool[r]].idle = Without(@, s)]
           /\ Goto(r, "publish")
       \/ /\ P(r).idle = {}
          /\ Goto(r, IF P(r).retired THEN "publish" ELSE "connect")
          /\ UNCHANGED <<session, pools>>
    /\ UNCHANGED <<gateway, used, owners, pool, conn, counted, gone, cut, retirement>>

(* The handshake succeeds or fails, also after its context is cancelled.   *)
Connect(r) ==
    /\ pc[r] = "connect"
    /\ \/ /\ session' = [session EXCEPT ![r] = r]
          /\ conn' = [conn EXCEPT ![r] = "open"]
       \/ UNCHANGED <<session, conn>>
    /\ Goto(r, "publish")
    /\ UNCHANGED <<gateway, pools, used, owners, pool, counted, gone, cut, retirement>>

(* The check after the handshake, under the pool's mu.                     *)
Accepts(r) == session[r] # None /\ ~P(r).retired /\ ~LeaseDone(r)
Publish(r) ==
    /\ pc[r] = "publish"
    /\ IF Accepts(r)
       THEN /\ pools' = [pools EXCEPT ![pool[r]].sessions = @ \cup {session[r]}]
            /\ Goto(r, "handover")
            /\ UNCHANGED <<gone, cut>>
       ELSE /\ pools' = [pools EXCEPT ![pool[r]].sessions = @ \ {session[r]}]
            /\ Goto(r, "discard")
            /\ EndContext(r)
    /\ UNCHANGED <<gateway, used, owners, pool, conn, session, counted, retirement>>

(* The deferred stopConnect, and the answer to the waiting request.        *)
Handover(r) ==
    /\ pc[r] = "handover"
    /\ Goto(r, "use")
    /\ UNCHANGED <<gateway, pools, used, owners, pool, leases, retirement>>

-----------------------------------------------------------------------------
\* Giving a lease back

(* release, under the pool's mu: a failed call or a retired pool discards  *)
(* the session, which else becomes idle.                                   *)
Discards(r, failed) == failed \/ P(r).retired
Release(r) ==
    /\ pc[r] = "use"
    /\ \E failed \in BOOLEAN :
        LET s == session[r]
        IN  /\ IF Discards(r, failed)
               THEN /\ pools' = [pools EXCEPT ![pool[r]].sessions = @ \ {s}]
                    /\ Goto(r, "discard")
                    /\ UNCHANGED session
               ELSE /\ pools' = [pools EXCEPT ![pool[r]].idle = @ \cup {s}]
                    /\ Goto(r, "unslot")
                    /\ session' = [session EXCEPT ![r] = None]
    /\ EndContext(r)
    /\ UNCHANGED <<gateway, used, owners, pool, conn, counted, retirement>>

Discard(r) ==
    /\ pc[r] = "discard"
    /\ conn' = IF session[r] = None THEN conn ELSE [conn EXCEPT ![session[r]] = "closed"]
    /\ session' = [session EXCEPT ![r] = None]
    /\ Goto(r, "unslot")
    /\ UNCHANGED <<gateway, pools, used, owners, pool, counted, gone, cut, retirement>>

NotFreed(n) == n
Freed(n) == n - 1
FreeSlot(r) ==
    /\ pc[r] = "unslot"
    /\ used' = [used EXCEPT ![Slot(r)] = Freed(@)]
    /\ Goto(r, "unlease")
    /\ UNCHANGED <<gateway, pools, owners, pool, leases, retirement>>

FinishLease(r) ==
    /\ pc[r] = "unlease"
    /\ pools' = [pools EXCEPT ![pool[r]].leases = @ - 1]
    /\ Goto(r, "forget")
    /\ UNCHANGED <<gateway, used, owners, pool, leases, retirement>>

(* Where forgetIfUnused returns to.                                        *)
Return(a) == IF a \in Retirers THEN "next" ELSE IF a \in counted THEN "uncount" ELSE "done"

(* forgetIfUnused in its two critical sections.                            *)
UnusedWhenUnleased(p) == p.retired
Unused(p) == p.retired /\ p.leases = 0 /\ p.sessions = {}
Forget(a) ==
    /\ pc[a] = "forget"
    /\ IF Unused(P(a)) /\ ~P(a).forgotten
       THEN /\ pools' = [pools EXCEPT ![pool[a]].forgotten = TRUE]
            /\ Goto(a, "unlink")
            /\ UNCHANGED pool
       ELSE /\ Goto(a, Return(a))
            /\ pool' = [pool EXCEPT ![a] = None]
            /\ UNCHANGED pools
    /\ UNCHANGED <<gateway, used, owners, leases, retirement>>

Unlink(a) ==
    LET c == P(a).config  v == P(a).provider
    IN  /\ pc[a] = "unlink"
        /\ current' = IF current[c] = pool[a] THEN [current EXCEPT ![c] = None] ELSE current
        /\ owners' = [owners EXCEPT ![v] = @ - 1]
        /\ provider' = IF owners[v] = 1 /\ provider = v THEN None ELSE provider
        /\ Goto(a, Return(a))
        /\ pool' = [pool EXCEPT ![a] = None]
        /\ UNCHANGED <<closed, active, fresh, httpLeases, pools, used, leases, retirement>>

Uncount(r) ==
    /\ pc[r] = "uncount"
    /\ httpLeases' = httpLeases - 1
    /\ counted' = counted \ {r}
    /\ Goto(r, "done")
    /\ UNCHANGED <<closed, current, provider, active, fresh, pools, used, owners, pool,
                   conn, session, gone, cut, retirement>>

-----------------------------------------------------------------------------
\* Cancellation

(* A client leaves or a deadline passes; elsewhere nobody looks at it.     *)
Leave(r) ==
    /\ pc[r] \in {"slot", "register"} \cup Connecting \cup {"use"} /\ r \notin gone
    /\ r \in MayLeave
    /\ gone' = gone \cup {r}
    /\ UNCHANGED <<gateway, pools, used, owners, pc, pool, conn, session, counted, cut, retirement>>

(* The AfterFuncs on the contexts of the gateway and of the pool.          *)
AfterFunc(r) ==
    /\ r \notin cut
    /\ \/ closed /\ pc[r] \in Connecting \cup Leased
       \/ pc[r] \in Connecting /\ PoolDone(pool[r])
    /\ cut' = cut \cup {r}
    /\ UNCHANGED <<gateway, pools, used, owners, pc, pool, conn, session, counted, gone, retirement>>

-----------------------------------------------------------------------------
\* Retirement: the end of a catalog flight, and Gateway.Close

(* Pools of configurations that the new catalog does not have.             *)
PublishCatalog ==
    /\ pc[Flight] = "idle" /\ ~closed /\ turns < MaxTurns
    /\ turns' = turns + 1
    /\ active' \in SUBSET Configs
    /\ fresh' = TRUE
    /\ work' = [work EXCEPT ![Flight] = {current[c] : c \in Configs \ active'} \ {None}]
    /\ Goto(Flight, "next")
    /\ UNCHANGED <<closed, current, provider, httpLeases, pools, used, owners, pool, leases, closing>>

(* The catalog expires or is invalidated.                                  *)
Expire ==
    /\ fresh
    /\ fresh' = FALSE
    /\ UNCHANGED <<closed, current, provider, active, httpLeases, pools, used, owners, pc,
                   pool, leases, retirement>>

BeginClose ==
    /\ pc[Closer] = "idle" /\ turns < MaxTurns
    /\ turns' = turns + 1
    /\ closed' = TRUE
    /\ Goto(Closer, "collect")
    /\ UNCHANGED <<current, provider, active, fresh, httpLeases, pools, used, owners, pool,
                   leases, work, closing>>

CollectPools ==
    /\ pc[Closer] = "collect"
    /\ work' = [work EXCEPT ![Closer] = {current[c] : c \in Configs} \ {None}]
    /\ current' = [c \in Configs |-> None]
    /\ Goto(Closer, "next")
    /\ UNCHANGED <<closed, provider, active, fresh, httpLeases, pools, used, owners, pool,
                   leases, closing, turns>>

(* httpSessionPool.close: cancel the context, then retire under mu, then   *)
(* close what was idle, then forgetIfUnused.                               *)
CancelPool(a) ==
    /\ pc[a] = "next"
    /\ \E p \in work[a] :
        /\ pool' = [pool EXCEPT ![a] = p]
        /\ work' = [work EXCEPT ![a] = @ \ {p}]
        /\ pools' = [pools EXCEPT ![p].cancelled = TRUE]
    /\ Goto(a, "retire")
    /\ UNCHANGED <<gateway, used, owners, leases, closing, turns>>

Closable(p) == p.idle
Interrupts(a) == a = Closer
Retire(a) ==
    /\ pc[a] = "retire"
    /\ closing' = [closing EXCEPT ![a] = Closable(P(a))]
    /\ pools' = [pools EXCEPT ![pool[a]].retired = TRUE, ![pool[a]].idle = {},
                              ![pool[a]].sessions = @ \ Closable(P(a))]
    /\ cut' = IF Interrupts(a)
              THEN cut \cup {r \in Requests : pool[r] = pool[a] /\ pc[r] \in Leased}
              ELSE cut
    /\ Goto(a, "closeidle")
    /\ UNCHANGED <<gateway, used, owners, pool, conn, session, counted, gone, work, turns>>

CloseIdle(a) ==
    /\ pc[a] = "closeidle"
    /\ conn' = [s \in Requests |-> IF s \in closing[a] THEN "closed" ELSE conn[s]]
    /\ closing' = [closing EXCEPT ![a] = {}]
    /\ Goto(a, "forget")
    /\ UNCHANGED <<gateway, pools, used, owners, pool, session, counted, gone, cut, work, turns>>

NoMorePools(a) ==
    /\ pc[a] = "next" /\ work[a] = {}
    /\ Goto(a, IF a = Closer THEN "wait" ELSE "idle")
    /\ UNCHANGED <<gateway, pools, used, owners, pool, leases, retirement>>

Close ==
    /\ pc[Closer] = "wait" /\ httpLeases = 0
    /\ Goto(Closer, "done")
    /\ UNCHANGED <<gateway, pools, used, owners, pool, leases, retirement>>

-----------------------------------------------------------------------------
RequestStep(r) ==
    \/ Join(r) \/ TakeSlot(r) \/ GiveUpSlot(r) \/ Register(r) \/ Pop(r) \/ Connect(r)
    \/ Publish(r) \/ Handover(r) \/ Release(r) \/ Discard(r) \/ FreeSlot(r)
    \/ FinishLease(r) \/ Forget(r) \/ Unlink(r) \/ Uncount(r)

RetireStep(a) ==
    CancelPool(a) \/ Retire(a) \/ CloseIdle(a) \/ Forget(a) \/ Unlink(a) \/ NoMorePools(a)

CloseStep == CollectPools \/ RetireStep(Closer) \/ Close

Stopped ==
    /\ pc[Closer] \in {"idle", "done"} /\ pc[Flight] = "idle"
    /\ \A r \in Requests : pc[r] \in {"idle", "done"}
    /\ UNCHANGED vars

Next ==
    \/ \E r \in Requests, c \in Configs : GetPool(r, c)
    \/ \E r \in Requests : RequestStep(r) \/ Leave(r) \/ AfterFunc(r)
    \/ PublishCatalog \/ Expire \/ RetireStep(Flight)
    \/ BeginClose \/ CloseStep
    \/ Stopped

Spec == Init /\ [][Next]_vars

(* Goroutines run; an upstream answers or its request's deadline passes, so *)
(* a handshake and a call end.  Nothing makes a client or an administrator *)
(* act: GetPool, Leave, PublishCatalog, Expire and BeginClose have no fairness.     *)
Fairness ==
    /\ \A r \in Requests : WF_vars(RequestStep(r))
    /\ WF_vars(RetireStep(Flight)) /\ WF_vars(CloseStep)
FairSpec == Spec /\ Fairness

-----------------------------------------------------------------------------
\* Properties

Phases == {"idle", "join", "slot", "register", "pop", "connect", "publish", "handover",
           "use", "discard", "unslot", "unlease", "forget", "unlink", "uncount", "done",
           "next", "retire", "closeidle", "collect", "wait"}
PoolRecords == [config : Configs \cup {None}, provider : Requests \cup {None},
                cancelled : BOOLEAN, retired : BOOLEAN, forgotten : BOOLEAN,
                leases : Nat, idle : SUBSET Requests, sessions : SUBSET Requests]
TypeOK ==
    /\ closed \in BOOLEAN /\ fresh \in BOOLEAN
    /\ current \in [Configs -> Requests \cup {None}]
    /\ provider \in Requests \cup {None}
    /\ active \subseteq Configs
    /\ httpLeases \in Nat
    /\ pools \in [Requests -> PoolRecords]
    /\ used \in [Requests -> 0..Slots]
    /\ owners \in [Requests -> Nat]
    /\ conn \in [Requests -> {"none", "open", "closed"}]
    /\ pc \in [Actors -> Phases]
    /\ pool \in [Actors -> Requests \cup {None}]
    /\ session \in [Requests -> Requests \cup {None}]
    /\ counted \subseteq Requests /\ gone \subseteq Requests /\ cut \subseteq Requests
    /\ work \in [Retirers -> SUBSET Requests]
    /\ closing \in [Retirers -> SUBSET Requests]
    /\ turns \in 0..MaxTurns

HoldsSlot == {"register", "pop", "connect", "publish", "handover", "use", "discard", "unslot"}

(* A tool never has more requests in flight than it has slots, however     *)
(* often its configuration is retired, replaced and enabled again while    *)
(* calls of the old one still run: the slots outlive their pools.          *)
SlotsRespected ==
    /\ TypeOK
    /\ Cardinality({r \in Requests : pc[r] \in HoldsSlot}) <= Slots

(* A session serves one request at a time, is not idle meanwhile, and no   *)
(* other request, retirement or shutdown closes it under the request.      *)
SessionExclusive ==
    \A r \in Requests : pc[r] \in Leased =>
        /\ conn[session[r]] = "open"
        /\ \A q \in Requests : q # r => session[q] # session[r]
        /\ \A q \in Requests : session[r] \notin pools[q].idle
        /\ \A a \in Retirers : session[r] \notin closing[a]

(* No session is lost: an open one is held by a request, idle in a pool    *)
(* that is not retired, or in the hands of a retirement that closes it.    *)
NoSessionLost ==
    \A s \in Requests : conn[s] = "open" =>
        \/ \E r \in Requests : session[r] = s
        \/ \E p \in Requests : s \in pools[p].idle /\ ~pools[p].retired
        \/ \E a \in Retirers : s \in closing[a]

(* When Close returns no handshake or call is under way and no session is  *)
(* open, but for idle ones that a catalog flight is about to close.        *)
CloseIsFinal ==
    pc[Closer] = "done" =>
        /\ \A r \in Requests : pc[r] \notin Connecting \cup Leased \cup {"discard"}
        /\ \A s \in Requests : conn[s] = "open" => s \in closing[Flight]

(* What sessions go through: each is somebody's, and one user's at a time, *)
(* until it is closed, the shutdown included.                              *)
SessionsKept == SessionExclusive /\ NoSessionLost /\ CloseIsFinal

(* Retirement does not interrupt an established call: "established leases  *)
(* keep their request deadline and are canceled only by Gateway.Close".    *)
EstablishedUninterrupted == \A r \in Requests : pc[r] = "use" /\ r \in cut => closed

(* A retired pool is forgotten once its calls are done, so that neither it *)
(* nor the provider's slots stay for ever.                                 *)
RetiredIsForgotten ==
    \A p \in Requests : pools[p].retired ~> pools[p].forgotten /\ pools[p].sessions = {}

(* Every request that starts ends, and a shutdown that begins ends, also   *)
(* with requests queued for slots and handshakes under way.                *)
RequestsEnd == \A r \in Requests : pc[r] # "idle" ~> pc[r] = "done"
CloseEnds == closed ~> pc[Closer] = "done"

(* What waits in the pool comes to an end.                                 *)
PoolEnds == RetiredIsForgotten /\ RequestsEnd /\ CloseEnds
=============================================================================
