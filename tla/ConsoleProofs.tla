---------------------------- MODULE ConsoleProofs ----------------------------
(***************************************************************************)
(* Theorems about what is shown and changed through the console, for every *)
(* value of the constants: the catalog of tools, which administrators edit *)
(* and each replica caches, and the windows in front of the server.        *)
(*                                                                         *)
(* Catalog: the version of a replica decides which flights may publish.    *)
(* One that does was not overtaken by an invalidation, so that it read     *)
(* every row up to the revision the replica has observed, and every        *)
(* override that the replica has answered for.  Windows: each has an       *)
(* invariant of its own, and the steps of the others leave it alone.       *)
(***************************************************************************)
EXTENDS Catalog, Fronts, FiniteSetTheorems, TLAPS

-----------------------------------------------------------------------------
\* The catalog: its inductive invariant

(* A catalog that was read since revision v was: rows up to v are in it,   *)
(* and rows up to v that a request found when it began.                    *)
UpTo(c, v, t) ==
  /\ row[t] <= v => c[t].row = row[t]
  /\ \A q \in Requests : request[q].rows[t] <= v => c[t].row >= request[q].rows[t]
Matched(b) == b.defs \in {Absent, b.row}
(* Edits that replica r has answered for, or is about to.                  *)
Edited(r, b, t) == b.override # Unread =>
  /\ b.override >= acknowledged[r][t]
  /\ admin[r].pc = "publish" /\ admin[r].tool # "none" /\ admin[r].tool = t =>
       b.override >= admin[r].override

MemoryOK(r) ==
  /\ memory[r].revision <= revision
  /\ \A t \in Tools : Matched(memory[r].catalog[t])
  /\ memory[r].fresh => \A t \in Tools :
       UpTo(memory[r].catalog, memory[r].revision, t) /\ Edited(r, memory[r].catalog[t], t)

Fine(r, f) ==
  /\ f.version <= memory[r].version /\ f.revision <= revision
  /\ f.version = memory[r].version =>
       f.revision = memory[r].revision /\ \A t \in Tools : Edited(r, f.catalog[t], t)
  /\ \A i \in 1..f.page : \A t \in Pages[i] : f.stage[t] # "unread"
  /\ \A t \in Tools : /\ Matched(f.catalog[t])
                      /\ f.stage[t] # "unread" => UpTo(f.catalog, f.revision, t)
FlightOK(r) ==
  /\ flight[r].pc = "discover" => Fine(r, flight[r])
  /\ flight[r].pc # "discover" => \A t \in Tools : flight[r].stage[t] = "unread"

RequestOK(q) ==
  /\ \A t \in Tools : /\ request[q].rows[t] <= row[t]
                      /\ request[q].edits[Home[q]][t] <= acknowledged[Home[q]][t]
  /\ request[q].pc = "observe" =>
       request[q].seen <= revision /\ \A t \in Tools : request[q].rows[t] <= request[q].seen
  /\ request[q].pc \in {"look", "join", "wait"} =>
       \A t \in Tools : request[q].rows[t] <= memory[Home[q]].revision
  /\ request[q].pc = "answered" => \A t \in Tools :
       LET b == request[q].catalog[t] IN
       /\ b.row >= request[q].rows[t] /\ Matched(b)
       /\ b.override # Unread => b.override >= request[q].edits[Home[q]][t]

AdminOK(r) ==
  /\ \A t \in Tools : acknowledged[r][t] <= override[t]
  /\ admin[r].pc # "idle" /\ admin[r].tool # "none" =>
       /\ acknowledged[r][admin[r].tool] <= admin[r].override
       /\ admin[r].override <= override[admin[r].tool]

SharedOK == \A e \in redis : e.defs \in {Absent, e.key.config}

IInv ==
  /\ TypeOK /\ SharedOK
  /\ \A r \in Replicas : MemoryOK(r) /\ FlightOK(r) /\ AdminOK(r)
  /\ \A q \in Requests : RequestOK(q)
-----------------------------------------------------------------------------
\* Types

MemoryType == [catalog : [Tools -> Binding], fresh : BOOLEAN, version : Nat, revision : Nat]
FlightType == [pc : {"idle", "start", "discover", "retire"}, page : 0..Len(Pages),
               version : Nat, revision : Nat, catalog : [Tools -> Binding],
               stage : [Tools -> Stages]]
RequestType == [pc : {"new", "read", "observe", "look", "join", "wait", "answered", "failed"},
                seen : Nat, catalog : [Tools -> Binding], rows : [Tools -> Nat],
                edits : [Replicas -> [Tools -> Nat]]]
AdminType == [pc : {"idle", "committed", "publish"}, tool : Tools \cup {"none"}, override : Nat]

LEMMA Typed ==
  ASSUME IInv
  PROVE  /\ revision \in Nat /\ row \in [Tools -> Nat] /\ override \in [Tools -> Nat]
         /\ \A t \in Tools : row[t] \in 1..revision
         /\ memory \in [Replicas -> MemoryType] /\ flight \in [Replicas -> FlightType]
         /\ request \in [Requests -> RequestType] /\ admin \in [Replicas -> AdminType]
         /\ inbox \in [Replicas -> Nat] /\ expiries \in Nat
         /\ acknowledged \in [Replicas -> [Tools -> Nat]]
         /\ \A e \in redis : e.defs \in Nat /\ e.defs \in {Absent, e.key.config}
         /\ \A q \in Requests : Home[q] \in Replicas
         /\ \A r \in Replicas : MemoryOK(r) /\ FlightOK(r) /\ AdminOK(r)
         /\ \A q \in Requests : RequestOK(q)
<1>1. /\ revision \in Nat /\ row \in [Tools -> 1..revision] /\ override \in [Tools -> Nat]
      /\ inbox \in [Replicas -> Nat] /\ expiries \in Nat
      /\ acknowledged \in [Replicas -> [Tools -> Nat]]
      /\ \A e \in redis : e.defs \in Nat
  BY DEF IInv, TypeOK
<1>2. row \in [Tools -> Nat] /\ \A t \in Tools : row[t] \in 1..revision
  BY <1>1
<1>3. memory \in [Replicas -> MemoryType] /\ flight \in [Replicas -> FlightType]
  BY DEF IInv, TypeOK, MemoryType, FlightType
<1>4. request \in [Requests -> RequestType] /\ admin \in [Replicas -> AdminType]
  BY DEF IInv, TypeOK, RequestType, AdminType
<1>5. /\ \A e \in redis : e.defs \in {Absent, e.key.config}
      /\ \A r \in Replicas : MemoryOK(r) /\ FlightOK(r) /\ AdminOK(r)
      /\ \A q \in Requests : RequestOK(q)
  BY DEF IInv, SharedOK
<1>6. \A q \in Requests : Home[q] \in Replicas
  BY CatalogAssumption
<1> QED
  BY <1>1, <1>2, <1>3, <1>4, <1>5, <1>6

LEMMA NothingTypes ==
  /\ NoCatalog \in [Tools -> Binding] /\ Idle \in FlightType /\ Idle.pc = "idle"
  /\ Idle.catalog = NoCatalog /\ Idle.page = 0 /\ \A t \in Tools : Idle.stage[t] = "unread"
  /\ \A t \in Tools : NoCatalog[t].override = Unread /\ Matched(NoCatalog[t])
<1>1. NoCatalog \in [Tools -> Binding]
  BY DEF NoCatalog, Binding, Absent, Unread
<1>2. Len(Pages) \in Nat
  BY CatalogAssumption
<1> QED
  BY <1>1, <1>2 DEF Idle, FlightType, Stages, NoCatalog, Matched, Absent

-----------------------------------------------------------------------------
\* Steps of a request

(* A request that moves disturbs only what is said of it.                  *)
LEMMA RequestMoves ==
  ASSUME IInv, NEW q \in Requests, NEW x \in RequestType,
         request' = [request EXCEPT ![q] = x],
         UNCHANGED <<database, redis, memory, flight, admin, inbox, expiries, acknowledged>>,
         x.rows = request[q].rows \/ x.rows = row,
         RequestOK(q)'
  PROVE  IInv'
<1>1. /\ request' \in [Requests -> RequestType] /\ request'[q] = x
      /\ \A p \in Requests \ {q} : request'[p] = request[p]
  BY Typed
<1>2. /\ revision' = revision /\ row' = row /\ override' = override /\ redis' = redis
      /\ memory' = memory /\ flight' = flight /\ admin' = admin /\ inbox' = inbox
      /\ expiries' = expiries /\ acknowledged' = acknowledged
  BY DEF database
<1>3. TypeOK' /\ SharedOK'
  BY <1>1, <1>2 DEF IInv, TypeOK, SharedOK, RequestType
<1>4. ASSUME NEW c \in [Tools -> Binding], NEW v \in Nat, NEW t \in Tools, UpTo(c, v, t)
      PROVE  /\ row'[t] <= v => c[t].row = row'[t]
             /\ \A p \in Requests : request'[p].rows[t] <= v => c[t].row >= request'[p].rows[t]
  <2>1. \A p \in Requests : request'[p].rows = request[p].rows \/ request'[p].rows = row
    BY <1>1
  <2>2. row[t] \in Nat /\ c[t].row \in Nat
    BY Typed DEF Binding
  <2>3. row'[t] <= v => c[t].row = row'[t]
    BY <1>2, <1>4 DEF UpTo
  <2>4. ASSUME NEW p \in Requests, request'[p].rows[t] <= v
        PROVE  c[t].row >= request'[p].rows[t]
    <3>1. CASE request'[p].rows = request[p].rows
      BY <1>4, <2>4, <3>1 DEF UpTo
    <3>2. CASE request'[p].rows = row
      BY <1>4, <2>2, <2>4, <3>2 DEF UpTo
    <3> QED
      BY <2>1, <3>1, <3>2
  <2> QED
    BY <2>3, <2>4
<1>5. ASSUME NEW r \in Replicas
      PROVE  MemoryOK(r)' /\ FlightOK(r)' /\ AdminOK(r)'
  <2>1. memory[r].catalog \in [Tools -> Binding] /\ memory[r].revision \in Nat
        /\ flight[r].catalog \in [Tools -> Binding] /\ flight[r].revision \in Nat
    BY Typed DEF MemoryType, FlightType
  <2>2. ASSUME NEW t \in Tools
        PROVE  /\ UpTo(memory[r].catalog, memory[r].revision, t) =>
                    UpTo(memory[r].catalog, memory[r].revision, t)'
               /\ UpTo(flight[r].catalog, flight[r].revision, t) =>
                    UpTo(flight[r].catalog, flight[r].revision, t)'
    BY <1>2, <1>4, <2>1 DEF UpTo
  <2>3. MemoryOK(r) /\ FlightOK(r) /\ AdminOK(r)
    BY Typed
  <2>4. MemoryOK(r)'
    BY <1>2, <2>2, <2>3 DEF MemoryOK, Edited, Matched
  <2>5. FlightOK(r)'
    BY <1>2, <2>2, <2>3 DEF FlightOK, Fine, Edited, Matched
  <2>6. AdminOK(r)'
    BY <1>2, <2>3 DEF AdminOK
  <2> QED
    BY <2>4, <2>5, <2>6
<1>6. ASSUME NEW p \in Requests, p # q
      PROVE  RequestOK(p)'
  BY <1>1, <1>2, <1>6, Typed DEF RequestOK, Matched
<1> QED
  BY <1>3, <1>5, <1>6 DEF IInv

LEMMA BeginKeeps ==
  ASSUME IInv, NEW q \in Requests, Begin(q)
  PROVE  IInv'
<1> DEFINE x == [request[q] EXCEPT !.pc = "read", !.rows = row, !.edits = acknowledged]
<1>1. /\ request' = [request EXCEPT ![q] = x] /\ x \in RequestType
      /\ x.pc = "read" /\ x.rows = row /\ x.edits = acknowledged
  BY Typed DEF Begin, RequestType
<1> HIDE DEF x
<1>2. /\ revision' = revision /\ row' = row /\ memory' = memory /\ acknowledged' = acknowledged
      /\ request'[q] = x
  BY <1>1, Typed DEF Begin, database
<1>3. RequestOK(q)'
  BY <1>1, <1>2, Typed DEF RequestOK
<1> QED
  BY <1>1, <1>3, RequestMoves DEF Begin

LEMMA ReadRevisionKeeps ==
  ASSUME IInv, NEW q \in Requests, ReadRevision(q)
  PROVE  IInv'
<1> DEFINE x == [request[q] EXCEPT !.pc = "observe", !.seen = revision]
<1>1. /\ request' = [request EXCEPT ![q] = x] /\ x \in RequestType
      /\ x.pc = "observe" /\ x.seen = revision /\ x.rows = request[q].rows
      /\ x.edits = request[q].edits
  BY Typed DEF ReadRevision, RequestType
<1> HIDE DEF x
<1>2. /\ revision' = revision /\ row' = row /\ memory' = memory /\ acknowledged' = acknowledged
      /\ request'[q] = x
  BY <1>1, Typed DEF ReadRevision, database
<1>3. ASSUME NEW t \in Tools
      PROVE  request[q].rows[t] <= revision
  BY Typed DEF RequestOK, RequestType
<1>4. RequestOK(q)'
  BY <1>1, <1>2, <1>3, Typed DEF RequestOK
<1> QED
  BY <1>1, <1>4, RequestMoves DEF ReadRevision

LEMMA LookKeeps ==
  ASSUME IInv, NEW q \in Requests, Look(q)
  PROVE  IInv'
<1> DEFINE m == memory[Home[q]]
<1>1. /\ request[q].pc = "look" /\ revision' = revision /\ row' = row /\ memory' = memory
      /\ acknowledged' = acknowledged /\ request \in [Requests -> RequestType]
      /\ m \in MemoryType
  BY Typed DEF Look, database
<1>2. CASE m.fresh /\ request' = [request EXCEPT ![q].pc = "answered", ![q].catalog = m.catalog]
  <2> DEFINE x == [request[q] EXCEPT !.pc = "answered", !.catalog = m.catalog]
  <2>1. /\ request' = [request EXCEPT ![q] = x] /\ x \in RequestType
        /\ x.pc = "answered" /\ x.catalog = m.catalog /\ x.rows = request[q].rows
        /\ x.edits = request[q].edits
    BY <1>1, <1>2 DEF RequestType, MemoryType
  <2> HIDE DEF x
  <2>2. request'[q] = x
    BY <2>1, Typed
  <2>3. ASSUME NEW t \in Tools
        PROVE  /\ m.catalog[t].row >= request[q].rows[t] /\ Matched(m.catalog[t])
               /\ m.catalog[t].override # Unread =>
                    m.catalog[t].override >= request[q].edits[Home[q]][t]
    <3>1. request[q].rows[t] <= m.revision /\ request[q].edits[Home[q]][t] <= acknowledged[Home[q]][t]
      BY <1>1, Typed DEF RequestOK
    <3>2. MemoryOK(Home[q]) /\ m \in MemoryType
      BY Typed
    <3>3. UpTo(m.catalog, m.revision, t) /\ Edited(Home[q], m.catalog[t], t) /\ Matched(m.catalog[t])
      BY <1>2, <3>2 DEF MemoryOK
    <3>4. m.catalog[t].override \in Int /\ acknowledged[Home[q]][t] \in Nat
          /\ request[q].edits[Home[q]][t] \in Nat
      BY <3>2, Typed DEF MemoryType, RequestType, Binding, Unread
    <3> QED
      BY <3>1, <3>3, <3>4 DEF UpTo, Edited
  <2>4. RequestOK(q)'
    BY <1>1, <2>1, <2>2, <2>3, Typed DEF RequestOK, Matched
  <2> QED
    BY <2>1, <2>4, RequestMoves DEF Look
<1>3. CASE ~m.fresh /\ request' = [request EXCEPT ![q].pc = "join"]
  <2> DEFINE x == [request[q] EXCEPT !.pc = "join"]
  <2>1. /\ request' = [request EXCEPT ![q] = x] /\ x \in RequestType
        /\ x.pc = "join" /\ x.rows = request[q].rows /\ x.edits = request[q].edits
    BY <1>1, <1>3 DEF RequestType
  <2> HIDE DEF x
  <2>2. request'[q] = x
    BY <2>1, Typed
  <2>3. RequestOK(q)'
    BY <1>1, <2>1, <2>2, Typed DEF RequestOK
  <2> QED
    BY <2>1, <2>3, RequestMoves DEF Look
<1> QED
  BY <1>2, <1>3 DEF Look

LEMMA LeaveKeeps ==
  ASSUME IInv, NEW q \in Requests, Leave(q)
  PROVE  IInv'
<1> DEFINE x == [request[q] EXCEPT !.pc = "failed"]
<1>1. /\ request' = [request EXCEPT ![q] = x] /\ x \in RequestType
      /\ x.pc = "failed" /\ x.rows = request[q].rows /\ x.edits = request[q].edits
  BY Typed DEF Leave, RequestType
<1> HIDE DEF x
<1>2. /\ revision' = revision /\ row' = row /\ memory' = memory /\ acknowledged' = acknowledged
      /\ request'[q] = x
  BY <1>1, Typed DEF Leave, database
<1>3. RequestOK(q)'
  BY <1>1, <1>2, Typed DEF RequestOK
<1> QED
  BY <1>1, <1>3, RequestMoves DEF Leave

LEMMA JoinKeeps ==
  ASSUME IInv, NEW q \in Requests, Join(q)
  PROVE  IInv'
<1> DEFINE r == Home[q]
           x == [request[q] EXCEPT !.pc = "wait"]
<1>1. /\ request[q].pc = "join" /\ request' = [request EXCEPT ![q].pc = "wait"]
      /\ UNCHANGED <<database, redis, memory, admin, inbox, expiries, acknowledged>>
  BY DEF Join
<1>2. /\ request \in [Requests -> RequestType] /\ flight \in [Replicas -> FlightType]
      /\ r \in Replicas /\ RequestOK(q)
  BY Typed
<1>3. /\ request' = [request EXCEPT ![q] = x] /\ x \in RequestType
      /\ x.pc = "wait" /\ x.rows = request[q].rows /\ x.edits = request[q].edits
  BY <1>1, <1>2 DEF RequestType
<1> HIDE DEF x, r
<1>4. RequestOK(q)'
  BY <1>1, <1>2, <1>3 DEF RequestOK, database
<1>5. CASE flight[r].pc # "idle"
  <2>1. flight' = flight
    BY <1>5 DEF Join, r
  <2> QED
    BY <1>1, <1>3, <1>4, <2>1, RequestMoves
<1>6. CASE flight[r].pc = "idle"
  <2> DEFINE f == [flight[r] EXCEPT !.pc = "start"]
  <2>1. flight' = [flight EXCEPT ![r] = f] /\ f \in FlightType /\ f.pc = "start"
        /\ f.stage = flight[r].stage
    <3>1. flight' = [flight EXCEPT ![r].pc = "start"]
      BY <1>6 DEF Join, r
    <3> QED
      BY <1>2, <3>1 DEF FlightType
  <2> HIDE DEF f
  <2>2. /\ revision' = revision /\ row' = row /\ override' = override /\ redis' = redis
        /\ memory' = memory /\ admin' = admin /\ inbox' = inbox
        /\ expiries' = expiries /\ acknowledged' = acknowledged
    BY <1>1 DEF database
  <2>3. /\ request' \in [Requests -> RequestType] /\ flight' \in [Replicas -> FlightType]
        /\ flight'[r] = f /\ \A p \in Replicas \ {r} : flight'[p] = flight[p]
        /\ \A p \in Requests : request'[p].rows = request[p].rows
        /\ \A p \in Requests \ {q} : request'[p] = request[p]
    BY <1>2, <1>3, <2>1
  <2>4. TypeOK' /\ SharedOK'
    BY <2>2, <2>3 DEF IInv, TypeOK, SharedOK, RequestType, FlightType
  <2>5. ASSUME NEW p \in Replicas
        PROVE  MemoryOK(p)' /\ FlightOK(p)' /\ AdminOK(p)'
    <3>1. MemoryOK(p) /\ FlightOK(p) /\ AdminOK(p)
      BY Typed
    <3>2. ASSUME NEW t \in Tools
          PROVE  /\ UpTo(memory[p].catalog, memory[p].revision, t) =>
                      UpTo(memory[p].catalog, memory[p].revision, t)'
                 /\ p # r /\ UpTo(flight[p].catalog, flight[p].revision, t) =>
                      UpTo(flight[p].catalog, flight[p].revision, t)'
      BY <2>2, <2>3 DEF UpTo
    <3>3. MemoryOK(p)' /\ AdminOK(p)'
      BY <2>2, <3>1, <3>2 DEF MemoryOK, AdminOK, Edited, Matched
    <3>4. FlightOK(p)'
      <4>1. CASE p = r
        BY <1>6, <2>1, <2>3, <3>1, <4>1 DEF FlightOK
      <4>2. CASE p # r
        <5>1. flight'[p] = flight[p]
          BY <2>3, <4>2
        <5>2. ASSUME Fine(p, flight[p])
              PROVE  Fine(p, flight[p])'
          BY <2>2, <3>2, <4>2, <5>1, <5>2 DEF Fine, Edited, Matched
        <5> QED
          BY <3>1, <5>1, <5>2 DEF FlightOK
      <4> QED
        BY <4>1, <4>2
    <3> QED
      BY <3>3, <3>4
  <2>6. ASSUME NEW p \in Requests, p # q
        PROVE  RequestOK(p)'
    BY <2>2, <2>3, <2>6, Typed DEF RequestOK, Matched
  <2> QED
    BY <1>4, <2>4, <2>5, <2>6 DEF IInv
<1> QED
  BY <1>5, <1>6

-----------------------------------------------------------------------------
\* Steps that give up the catalog of a replica

LEMMA RequestsStay ==
  ASSUME IInv, UNCHANGED <<database, request, acknowledged>>,
         \A r \in Replicas : memory'[r].revision \in Nat /\ memory'[r].revision >= memory[r].revision
  PROVE  \A q \in Requests : RequestOK(q)'
<1> SUFFICES ASSUME NEW q \in Requests PROVE RequestOK(q)'
  OBVIOUS
<1>1. /\ revision' = revision /\ row' = row /\ request' = request /\ acknowledged' = acknowledged
      /\ Home[q] \in Replicas /\ RequestOK(q) /\ request[q] \in RequestType
      /\ memory[Home[q]].revision \in Nat
  BY Typed DEF database, MemoryType
<1>2. ASSUME NEW t \in Tools, request[q].rows[t] <= memory[Home[q]].revision
      PROVE  request[q].rows[t] <= memory'[Home[q]].revision
  <2>1. request[q].rows[t] \in Nat
    BY <1>1 DEF RequestType
  <2> QED
    BY <1>1, <1>2, <2>1
<1> QED
  BY <1>1, <1>2 DEF RequestOK, Matched

(* What the replica had is not used any more, and with a new version no    *)
(* flight that is under way publishes.                                     *)
LEMMA MemoryMoves ==
  ASSUME IInv, NEW r \in Replicas, NEW m \in MemoryType,
         memory' = [memory EXCEPT ![r] = m], m.catalog = memory[r].catalog,
         memory[r].revision <= m.revision, m.revision <= revision, ~m.fresh,
         \/ m.version > memory[r].version
         \/ /\ m.version = memory[r].version /\ m.revision = memory[r].revision
            /\ admin' = admin,
         UNCHANGED <<database, redis, flight, acknowledged>>,
         request' \in [Requests -> RequestType],
         \A q \in Requests : request'[q].rows = request[q].rows /\ RequestOK(q)',
         admin' \in [Replicas -> AdminType], \A p \in Replicas \ {r} : admin'[p] = admin[p],
         AdminOK(r)', inbox' \in [Replicas -> Nat], expiries' \in Nat
  PROVE  IInv'
<1>1. /\ revision' = revision /\ row' = row /\ override' = override /\ redis' = redis
      /\ flight' = flight /\ acknowledged' = acknowledged
  BY DEF database
<1>2. /\ memory' \in [Replicas -> MemoryType] /\ memory'[r] = m
      /\ \A p \in Replicas \ {r} : memory'[p] = memory[p]
  BY Typed
<1>3. TypeOK' /\ SharedOK'
  <2>1. TypeOK /\ SharedOK
    BY DEF IInv
  <2>2. SharedOK'
    BY <1>1, <2>1 DEF SharedOK
  <2>3. /\ memory' \in [Replicas -> [catalog : [Tools -> Binding], fresh : BOOLEAN,
                                      version : Nat, revision : Nat]]
        /\ request' \in [Requests ->
             [pc : {"new", "read", "observe", "look", "join", "wait", "answered", "failed"},
              seen : Nat, catalog : [Tools -> Binding], rows : [Tools -> Nat],
              edits : [Replicas -> [Tools -> Nat]]]]
        /\ admin' \in [Replicas -> [pc : {"idle", "committed", "publish"},
                                     tool : Tools \cup {"none"}, override : Nat]]
    BY <1>2 DEF RequestType, MemoryType, AdminType
  <2>4. TypeOK'
    <3>1. /\ revision' \in Nat /\ row' \in [Tools -> 1..revision'] /\ override' \in [Tools -> Nat]
          /\ \A e \in redis' : e.defs \in Nat
          /\ acknowledged' \in [Replicas -> [Tools -> Nat]]
      BY <1>1, <2>1 DEF TypeOK
    <3>2. flight' \in [Replicas -> [pc : {"idle", "start", "discover", "retire"},
                              page : 0..Len(Pages), version : Nat, revision : Nat,
                              catalog : [Tools -> Binding], stage : [Tools -> Stages]]]
      BY <1>1, <2>1 DEF TypeOK
    <3> QED
      BY <2>3, <3>1, <3>2 DEF TypeOK
  <2> QED
    BY <2>2, <2>4
<1>4. ASSUME NEW p \in Replicas
      PROVE  MemoryOK(p)' /\ FlightOK(p)' /\ AdminOK(p)'
  <2>1. MemoryOK(p) /\ FlightOK(p) /\ AdminOK(p)
    BY Typed
  <2>2. ASSUME NEW t \in Tools
        PROVE  /\ p # r /\ UpTo(memory[p].catalog, memory[p].revision, t) =>
                    UpTo(memory[p].catalog, memory[p].revision, t)'
               /\ UpTo(flight[p].catalog, flight[p].revision, t) =>
                    UpTo(flight[p].catalog, flight[p].revision, t)'
    BY <1>1, <1>2 DEF UpTo
  <2>3. MemoryOK(p)'
    BY <1>1, <1>2, <2>1, <2>2 DEF MemoryOK, Edited, Matched
  <2>4. AdminOK(p)'
    BY <1>1, <2>1 DEF AdminOK
  <2>5. SUFFICES ASSUME flight[p].pc = "discover"
                 PROVE  Fine(p, flight[p])'
    BY <1>1, <2>1, <2>3, <2>4 DEF FlightOK
  <2>6. Fine(p, flight[p])
    BY <2>1, <2>5 DEF FlightOK
  <2>7. /\ flight[p].version \in Nat /\ memory[p].version \in Nat /\ m.version \in Nat
        /\ memory'[p].version \in Nat
    BY <1>2, Typed DEF FlightType, MemoryType
  <2>8. flight[p].version <= memory'[p].version
    BY <1>2, <2>6, <2>7 DEF Fine
  <2>9. ASSUME flight[p].version = memory'[p].version
        PROVE  flight[p].revision = memory'[p].revision
               /\ \A t \in Tools : Edited(p, flight[p].catalog[t], t)'
    <3>1. /\ flight[p].version = memory[p].version /\ memory'[p].revision = memory[p].revision
          /\ admin'[p] = admin[p]
      BY <1>2, <2>6, <2>7, <2>9 DEF Fine
    <3>2. ASSUME NEW t \in Tools
          PROVE  Edited(p, flight[p].catalog[t], t)'
      BY <1>1, <2>6, <3>1 DEF Fine, Edited
    <3> QED
      BY <2>6, <3>1, <3>2 DEF Fine
  <2>10. ASSUME NEW t \in Tools
         PROVE  /\ Matched(flight[p].catalog[t])'
                /\ flight[p].stage[t] # "unread" => UpTo(flight[p].catalog, flight[p].revision, t)'
    BY <1>1, <2>2, <2>6 DEF Fine, Matched
  <2> QED
    BY <1>1, <2>6, <2>8, <2>9, <2>10 DEF Fine
<1> QED
  BY <1>3, <1>4 DEF IInv

LEMMA DroppedType ==
  ASSUME NEW m \in MemoryType
  PROVE  /\ Dropped(m) \in MemoryType /\ ~Dropped(m).fresh /\ Dropped(m).catalog = m.catalog
         /\ Dropped(m).revision = m.revision /\ Dropped(m).version > m.version
<1> DEFINE a == [m EXCEPT !.fresh = FALSE]
<1>1. a \in MemoryType /\ a.version = m.version /\ a.catalog = m.catalog /\ ~a.fresh
      /\ a.revision = m.revision
  BY DEF MemoryType
<1>2. Dropped(m) = [a EXCEPT !.version = @ + 1]
  BY DEF Dropped, MemoryType
<1> HIDE DEF a
<1>3. a.version \in Nat /\ a.version + 1 > a.version
  BY <1>1 DEF MemoryType
<1>4. /\ [a EXCEPT !.version = @ + 1] \in MemoryType
      /\ [a EXCEPT !.version = @ + 1].catalog = a.catalog
      /\ [a EXCEPT !.version = @ + 1].fresh = a.fresh
      /\ [a EXCEPT !.version = @ + 1].revision = a.revision
      /\ [a EXCEPT !.version = @ + 1].version = a.version + 1
  BY <1>1, <1>3 DEF MemoryType
<1> QED
  BY <1>1, <1>2, <1>3, <1>4

LEMMA InvalidateLocalKeeps ==
  ASSUME IInv, NEW r \in Replicas, InvalidateLocal(r)
  PROVE  IInv'
<1> DEFINE m == Dropped(memory[r])
           x == [admin[r] EXCEPT !.pc = "publish"]
<1>1. /\ admin[r].pc = "committed" /\ admin' = [admin EXCEPT ![r].pc = "publish"]
      /\ memory' = [memory EXCEPT ![r] = m]
      /\ UNCHANGED <<database, redis, flight, request, inbox, expiries, acknowledged>>
  BY DEF InvalidateLocal
<1>2. /\ admin \in [Replicas -> AdminType] /\ memory \in [Replicas -> MemoryType]
      /\ AdminOK(r) /\ MemoryOK(r) /\ request \in [Requests -> RequestType]
      /\ inbox \in [Replicas -> Nat] /\ expiries \in Nat
  BY Typed
<1>3. /\ admin' \in [Replicas -> AdminType] /\ \A p \in Replicas \ {r} : admin'[p] = admin[p]
      /\ admin'[r] = x /\ x.tool = admin[r].tool /\ x.override = admin[r].override
  BY <1>1, <1>2 DEF AdminType
<1>4. /\ m \in MemoryType /\ ~m.fresh /\ m.catalog = memory[r].catalog
      /\ m.revision = memory[r].revision /\ m.version > memory[r].version
  BY <1>2, DroppedType
<1> HIDE DEF m, x
<1>5. AdminOK(r)'
  BY <1>1, <1>2, <1>3 DEF AdminOK, database
<1>6. memory[r].revision \in Nat /\ memory[r].revision <= revision
  BY <1>2 DEF MemoryOK, MemoryType
<1>7. \A p \in Replicas : memory'[p].revision \in Nat /\ memory'[p].revision >= memory[p].revision
  BY <1>1, <1>2, <1>4 DEF MemoryType
<1>8. \A q \in Requests : RequestOK(q)'
  BY <1>1, <1>7, RequestsStay
<1>9. /\ memory[r].revision <= m.revision /\ m.revision <= revision
      /\ request' \in [Requests -> RequestType] /\ inbox' \in [Replicas -> Nat]
      /\ expiries' \in Nat /\ admin' \in [Replicas -> AdminType]
      /\ \A p \in Replicas \ {r} : admin'[p] = admin[p]
      /\ \A q \in Requests : request'[q].rows = request[q].rows /\ RequestOK(q)'
      /\ UNCHANGED <<database, redis, flight, acknowledged>>
  BY <1>1, <1>2, <1>3, <1>4, <1>6, <1>8
<1> QED
  BY <1>1, <1>4, <1>5, <1>9, MemoryMoves

LEMMA WatchKeeps ==
  ASSUME IInv, NEW r \in Replicas, Watch(r)
  PROVE  IInv'
<1> DEFINE m == Dropped(memory[r])
<1>1. /\ inbox[r] > 0 /\ inbox' = [inbox EXCEPT ![r] = @ - 1]
      /\ memory' = [memory EXCEPT ![r] = m]
      /\ UNCHANGED <<database, redis, flight, request, admin, expiries, acknowledged>>
  BY DEF Watch
<1>2. /\ admin \in [Replicas -> AdminType] /\ memory \in [Replicas -> MemoryType]
      /\ AdminOK(r) /\ MemoryOK(r) /\ request \in [Requests -> RequestType]
      /\ inbox \in [Replicas -> Nat] /\ expiries \in Nat
  BY Typed
<1>3. inbox' \in [Replicas -> Nat]
  BY <1>1, <1>2
<1>4. /\ m \in MemoryType /\ ~m.fresh /\ m.catalog = memory[r].catalog
      /\ m.revision = memory[r].revision /\ m.version > memory[r].version
  BY <1>2, DroppedType
<1> HIDE DEF m
<1>5. AdminOK(r)'
  BY <1>1, <1>2 DEF AdminOK, database
<1>6. memory[r].revision \in Nat /\ memory[r].revision <= revision
  BY <1>2 DEF MemoryOK, MemoryType
<1>7. \A p \in Replicas : memory'[p].revision \in Nat /\ memory'[p].revision >= memory[p].revision
  BY <1>1, <1>2, <1>4 DEF MemoryType
<1>8. \A q \in Requests : RequestOK(q)'
  BY <1>1, <1>7, RequestsStay
<1>9. /\ memory[r].revision <= m.revision /\ m.revision <= revision
      /\ request' \in [Requests -> RequestType] /\ inbox' \in [Replicas -> Nat]
      /\ expiries' \in Nat /\ admin' \in [Replicas -> AdminType]
      /\ \A p \in Replicas \ {r} : admin'[p] = admin[p]
      /\ \A q \in Requests : request'[q].rows = request[q].rows /\ RequestOK(q)'
      /\ UNCHANGED <<database, redis, flight, acknowledged>>
  BY <1>1, <1>2, <1>3, <1>4, <1>6, <1>8
<1> QED
  BY <1>1, <1>4, <1>5, <1>9, MemoryMoves

LEMMA ExpireKeeps ==
  ASSUME IInv, NEW r \in Replicas, Expire(r)
  PROVE  IInv'
<1> DEFINE m == [memory[r] EXCEPT !.fresh = FALSE]
<1>1. /\ expiries' = expiries + 1 /\ memory' = [memory EXCEPT ![r].fresh = FALSE]
      /\ UNCHANGED <<database, redis, flight, request, admin, inbox, acknowledged>>
  BY DEF Expire
<1>2. /\ admin \in [Replicas -> AdminType] /\ memory \in [Replicas -> MemoryType]
      /\ AdminOK(r) /\ MemoryOK(r) /\ request \in [Requests -> RequestType]
      /\ inbox \in [Replicas -> Nat] /\ expiries \in Nat
  BY Typed
<1>3. expiries' \in Nat
  BY <1>1, <1>2
<1>4. /\ m \in MemoryType /\ ~m.fresh /\ m.catalog = memory[r].catalog
      /\ m.revision = memory[r].revision /\ m.version = memory[r].version
      /\ memory' = [memory EXCEPT ![r] = m]
  BY <1>1, <1>2 DEF MemoryType
<1> HIDE DEF m
<1>5. AdminOK(r)'
  BY <1>1, <1>2 DEF AdminOK, database
<1>6. memory[r].revision \in Nat /\ memory[r].revision <= revision
  BY <1>2 DEF MemoryOK, MemoryType
<1>7. \A p \in Replicas : memory'[p].revision \in Nat /\ memory'[p].revision >= memory[p].revision
  BY <1>2, <1>4 DEF MemoryType
<1>8. \A q \in Requests : RequestOK(q)'
  BY <1>1, <1>7, RequestsStay
<1>9. /\ memory[r].revision <= m.revision /\ m.revision <= revision
      /\ request' \in [Requests -> RequestType] /\ inbox' \in [Replicas -> Nat]
      /\ expiries' \in Nat /\ admin' \in [Replicas -> AdminType]
      /\ \A p \in Replicas \ {r} : admin'[p] = admin[p]
      /\ \A q \in Requests : request'[q].rows = request[q].rows /\ RequestOK(q)'
      /\ UNCHANGED <<database, redis, flight, acknowledged>>
  BY <1>1, <1>2, <1>3, <1>4, <1>6, <1>8
<1> QED
  BY <1>1, <1>4, <1>5, <1>9, MemoryMoves

LEMMA ObserveKeeps ==
  ASSUME IInv, NEW q \in Requests, Observe(q)
  PROVE  IInv'
<1> DEFINE r == Home[q]
           seen == request[q].seen
           x == [request[q] EXCEPT !.pc = "look", !.seen = 0]
           m == [Dropped(memory[r]) EXCEPT !.revision = seen]
<1>1. /\ request[q].pc = "observe"
      /\ request' = [request EXCEPT ![q].pc = "look", ![q].seen = 0]
      /\ memory' = [memory EXCEPT ![r] = Observed(memory[r], seen)]
      /\ UNCHANGED <<database, redis, flight, admin, inbox, expiries, acknowledged>>
  BY DEF Observe
<1>2. /\ admin \in [Replicas -> AdminType] /\ memory \in [Replicas -> MemoryType]
      /\ r \in Replicas /\ AdminOK(r) /\ MemoryOK(r) /\ RequestOK(q)
      /\ request \in [Requests -> RequestType]
      /\ inbox \in [Replicas -> Nat] /\ expiries \in Nat
  BY Typed
<1>3. /\ request' = [request EXCEPT ![q] = x] /\ x \in RequestType
      /\ x.pc = "look" /\ x.rows = request[q].rows /\ x.edits = request[q].edits
      /\ request' \in [Requests -> RequestType] /\ request'[q] = x
      /\ \A p \in Requests \ {q} : request'[p] = request[p]
  <2>1. request' = [request EXCEPT ![q] = x]
    BY <1>1, <1>2 DEF RequestType
  <2>2. /\ x \in RequestType /\ x.pc = "look" /\ x.rows = request[q].rows
        /\ x.edits = request[q].edits
    BY <1>2 DEF RequestType
  <2> HIDE DEF x
  <2> QED
    BY <1>2, <2>1, <2>2
<1>4. seen \in Nat /\ seen <= revision /\ memory[r].revision \in Nat
      /\ \A t \in Tools : request[q].rows[t] \in Nat /\ request[q].rows[t] <= seen
  BY <1>1, <1>2 DEF RequestOK, RequestType, MemoryType
<1> HIDE DEF x, seen, r
<1>5. CASE ~(seen > memory[r].revision)
  <2>1. memory' = memory
    BY <1>1, <1>2, <1>5 DEF Observed
  <2>2. \A t \in Tools : request[q].rows[t] <= memory[r].revision
    BY <1>4, <1>5
  <2>3. RequestOK(q)'
    BY <1>1, <1>2, <1>3, <2>1, <2>2 DEF RequestOK, database, r
  <2> QED
    BY <1>1, <1>3, <2>1, <2>3, RequestMoves
<1>6. CASE seen > memory[r].revision
  <2>1. /\ m \in MemoryType /\ ~m.fresh /\ m.catalog = memory[r].catalog
        /\ m.revision = seen /\ m.version > memory[r].version
    <3> DEFINE d == Dropped(memory[r])
    <3>1. /\ d \in MemoryType /\ ~d.fresh /\ d.catalog = memory[r].catalog
          /\ d.version > memory[r].version
      BY <1>2, DroppedType
    <3> HIDE DEF d
    <3>2. /\ [d EXCEPT !.revision = seen] \in MemoryType
          /\ ~[d EXCEPT !.revision = seen].fresh
          /\ [d EXCEPT !.revision = seen].catalog = d.catalog
          /\ [d EXCEPT !.revision = seen].revision = seen
          /\ [d EXCEPT !.revision = seen].version = d.version
      BY <1>4, <3>1 DEF MemoryType
    <3> QED
      BY <3>1, <3>2 DEF d
  <2>2. memory' = [memory EXCEPT ![r] = m]
    BY <1>1, <1>6 DEF Observed
  <2> HIDE DEF m
  <2>3. AdminOK(r)'
    BY <1>1, <1>2 DEF AdminOK, database
  <2>4. memory'[r].revision = seen /\ \A p \in Replicas \ {r} : memory'[p] = memory[p]
    BY <1>2, <2>1, <2>2
  <2>5. RequestOK(q)'
    BY <1>1, <1>2, <1>3, <1>4, <2>4 DEF RequestOK, database, r
  <2>6. ASSUME NEW p \in Requests, p # q
        PROVE  RequestOK(p)'
    <3>1. RequestOK(p) /\ Home[p] \in Replicas /\ request[p] \in RequestType
          /\ request'[p] = request[p]
          /\ revision' = revision /\ row' = row /\ acknowledged' = acknowledged
      BY <1>1, <1>3, <2>6, Typed DEF database
    <3>2. ASSUME NEW t \in Tools, request[p].rows[t] <= memory[Home[p]].revision
          PROVE  request[p].rows[t] <= memory'[Home[p]].revision
      <4>1. request[p].rows[t] \in Nat
        BY <3>1 DEF RequestType
      <4> QED
        BY <1>4, <1>6, <2>4, <3>1, <3>2, <4>1
    <3> QED
      BY <3>1, <3>2 DEF RequestOK, Matched
  <2>7. \A p \in Requests : request'[p].rows = request[p].rows /\ RequestOK(p)'
    BY <1>3, <2>5, <2>6
  <2>8. memory[r].revision <= m.revision /\ m.revision <= revision
    BY <1>4, <1>6, <2>1
  <2> QED
    BY <1>1, <1>2, <1>3, <2>1, <2>2, <2>3, <2>7, <2>8, MemoryMoves
<1> QED
  BY <1>5, <1>6
-----------------------------------------------------------------------------
\* Steps of a flight

LEMMA TypesStay ==
  ASSUME IInv, UNCHANGED <<database, acknowledged>>,
         memory' \in [Replicas -> MemoryType], flight' \in [Replicas -> FlightType],
         request' \in [Requests -> RequestType], admin' \in [Replicas -> AdminType],
         inbox' \in [Replicas -> Nat], expiries' \in Nat, \A e \in redis' : e.defs \in Nat
  PROVE  TypeOK'
<1>1. /\ revision' = revision /\ row' = row /\ override' = override
      /\ acknowledged' = acknowledged /\ TypeOK
  BY DEF database, IInv
<1>2. /\ revision' \in Nat /\ row' \in [Tools -> 1..revision'] /\ override' \in [Tools -> Nat]
      /\ acknowledged' \in [Replicas -> [Tools -> Nat]]
  BY <1>1 DEF TypeOK
<1>3. /\ memory' \in [Replicas -> [catalog : [Tools -> Binding], fresh : BOOLEAN,
                                    version : Nat, revision : Nat]]
      /\ flight' \in [Replicas -> [pc : {"idle", "start", "discover", "retire"},
                              page : 0..Len(Pages), version : Nat, revision : Nat,
                              catalog : [Tools -> Binding], stage : [Tools -> Stages]]]
  BY DEF MemoryType, FlightType
<1>4. /\ request' \in [Requests ->
           [pc : {"new", "read", "observe", "look", "join", "wait", "answered", "failed"},
            seen : Nat, catalog : [Tools -> Binding], rows : [Tools -> Nat],
            edits : [Replicas -> [Tools -> Nat]]]]
      /\ admin' \in [Replicas -> [pc : {"idle", "committed", "publish"},
                                   tool : Tools \cup {"none"}, override : Nat]]
  BY DEF RequestType, AdminType
<1> QED
  BY <1>2, <1>3, <1>4 DEF TypeOK

(* A flight that moves disturbs only what is said of it.                   *)
LEMMA FlightMoves ==
  ASSUME IInv, NEW r \in Replicas, NEW f \in FlightType,
         flight' = [flight EXCEPT ![r] = f],
         f.pc = "discover" => Fine(r, f),
         f.pc # "discover" => \A t \in Tools : f.stage[t] = "unread",
         UNCHANGED <<database, memory, request, admin, inbox, expiries, acknowledged>>,
         \A e \in redis' : e.defs \in Nat, SharedOK'
  PROVE  IInv'
<1>1. /\ revision' = revision /\ row' = row /\ override' = override
      /\ memory' = memory /\ request' = request /\ admin' = admin /\ inbox' = inbox
      /\ expiries' = expiries /\ acknowledged' = acknowledged
  BY DEF database
<1>2. /\ flight' \in [Replicas -> FlightType] /\ flight'[r] = f
      /\ \A p \in Replicas \ {r} : flight'[p] = flight[p]
  BY Typed
<1>3. TypeOK'
  BY <1>1, <1>2, Typed, TypesStay DEF database
<1>4. ASSUME NEW p \in Replicas
      PROVE  MemoryOK(p)' /\ FlightOK(p)' /\ AdminOK(p)'
  <2>1. MemoryOK(p) /\ FlightOK(p) /\ AdminOK(p)
    BY Typed
  <2>2. ASSUME NEW t \in Tools
        PROVE  /\ UpTo(memory[p].catalog, memory[p].revision, t) =>
                    UpTo(memory[p].catalog, memory[p].revision, t)'
               /\ p # r /\ UpTo(flight[p].catalog, flight[p].revision, t) =>
                    UpTo(flight[p].catalog, flight[p].revision, t)'
               /\ UpTo(f.catalog, f.revision, t) => UpTo(f.catalog, f.revision, t)'
    BY <1>1, <1>2 DEF UpTo
  <2>3. MemoryOK(p)' /\ AdminOK(p)'
    BY <1>1, <2>1, <2>2 DEF MemoryOK, AdminOK, Edited, Matched
  <2>4. CASE p # r
    <3>1. flight'[p] = flight[p]
      BY <1>2, <2>4
    <3>2. ASSUME Fine(p, flight[p])
          PROVE  Fine(p, flight[p])'
      BY <1>1, <2>2, <2>4, <3>1, <3>2 DEF Fine, Edited, Matched
    <3> QED
      BY <2>1, <2>3, <3>1, <3>2 DEF FlightOK
  <2>5. CASE p = r
    <3>1. Fine(r, f) => Fine(r, f)'
      BY <1>1, <2>2, <2>5 DEF Fine, Edited, Matched
    <3>2. f.pc = "discover" => Fine(r, flight[r])'
      BY <1>1, <1>2, <3>1 DEF Fine, Edited, Matched, UpTo
    <3> QED
      BY <1>2, <2>3, <2>5, <3>2 DEF FlightOK
  <2> QED
    BY <2>3, <2>4, <2>5
<1>5. ASSUME NEW q \in Requests
      PROVE  RequestOK(q)'
  BY <1>1, Typed DEF RequestOK, Matched
<1> QED
  BY <1>3, <1>4, <1>5 DEF IInv

(* A worker may only replace the definitions and the overrides of a tool.  *)
LEMMA WorkerKeeps ==
  ASSUME IInv, NEW r \in Replicas, NEW t \in Tools, NEW b \in Binding,
         NEW s \in Stages, s # "unread", flight[r].stage[t] # "unread",
         flight' = [flight EXCEPT ![r].stage[t] = s, ![r].catalog[t] = b],
         b.row = flight[r].catalog[t].row,
         Matched(flight[r].catalog[t]) => Matched(b),
         Edited(r, flight[r].catalog[t], t) => Edited(r, b, t),
         UNCHANGED <<database, memory, request, admin, inbox, expiries, acknowledged>>,
         \A e \in redis' : e.defs \in Nat, SharedOK'
  PROVE  IInv'
<1> DEFINE g == flight[r]
           h == [g EXCEPT !.stage[t] = s]
           f == [g EXCEPT !.stage[t] = s, !.catalog[t] = b]
<1>1. g \in FlightType /\ flight[r] = g /\ flight \in [Replicas -> FlightType]
  BY Typed
<1>2. flight' = [flight EXCEPT ![r] = f]
  BY <1>1 DEF FlightType
<1> HIDE DEF g
<1>3. /\ h \in FlightType /\ h.pc = g.pc /\ h.page = g.page /\ h.version = g.version
      /\ h.revision = g.revision /\ h.catalog = g.catalog
      /\ h.stage = [g.stage EXCEPT ![t] = s]
  BY <1>1 DEF FlightType
<1>4. f = [h EXCEPT !.catalog[t] = b]
  BY <1>1 DEF FlightType
<1> HIDE DEF h
<1>5. /\ [h EXCEPT !.catalog[t] = b] \in FlightType
      /\ [h EXCEPT !.catalog[t] = b].pc = h.pc /\ [h EXCEPT !.catalog[t] = b].page = h.page
      /\ [h EXCEPT !.catalog[t] = b].version = h.version
      /\ [h EXCEPT !.catalog[t] = b].revision = h.revision
      /\ [h EXCEPT !.catalog[t] = b].catalog = [h.catalog EXCEPT ![t] = b]
      /\ [h EXCEPT !.catalog[t] = b].stage = h.stage
  BY <1>3 DEF FlightType
<1>6. /\ f \in FlightType /\ f.pc = flight[r].pc /\ f.page = flight[r].page
      /\ f.version = flight[r].version /\ f.revision = flight[r].revision
      /\ f.catalog = [flight[r].catalog EXCEPT ![t] = b]
      /\ f.stage = [flight[r].stage EXCEPT ![t] = s]
  BY <1>1, <1>3, <1>4, <1>5
<1>7. /\ f.catalog[t] = b /\ f.stage[t] = s
      /\ \A u \in Tools \ {t} : f.stage[u] = flight[r].stage[u]
                              /\ f.catalog[u] = flight[r].catalog[u]
  BY <1>1, <1>6 DEF FlightType
<1> HIDE DEF f
<1>8. f.pc = "discover"
  BY <1>1, <1>6, Typed DEF FlightOK
<1>9. Fine(r, f)
  <2>1. Fine(r, g)
    BY <1>1, <1>6, <1>8, Typed DEF FlightOK
  <2>2. f.version <= memory[r].version /\ f.revision <= revision
    BY <1>1, <1>6, <2>1 DEF Fine
  <2>3. ASSUME f.version = memory[r].version, NEW u \in Tools
        PROVE  f.revision = memory[r].revision /\ Edited(r, f.catalog[u], u)
    BY <1>1, <1>6, <1>7, <2>1, <2>3 DEF Fine
  <2>4. ASSUME NEW i \in 1..f.page, NEW u \in Pages[i]
        PROVE  f.stage[u] # "unread"
    <3>1. u \in Tools /\ g.stage[u] # "unread"
      <4>1. i \in 1..Len(Pages)
        BY <1>1, <1>6, <2>4, CatalogAssumption DEF FlightType
      <4> QED
        BY <1>1, <1>6, <2>1, <2>4, <4>1, CatalogAssumption DEF Fine
    <3> QED
      BY <1>1, <1>6, <1>7, <3>1
  <2>5. ASSUME NEW u \in Tools
        PROVE  /\ Matched(f.catalog[u])
               /\ f.stage[u] # "unread" => UpTo(f.catalog, f.revision, u)
    <3>1. /\ Matched(g.catalog[u])
          /\ g.stage[u] # "unread" => UpTo(g.catalog, g.revision, u)
      BY <2>1 DEF Fine
    <3>2. f.catalog[u].row = g.catalog[u].row /\ Matched(f.catalog[u])
      BY <1>6, <1>7, <3>1 DEF g
    <3>3. f.stage[u] # "unread" => g.stage[u] # "unread"
      BY <1>1, <1>6, <1>7 DEF g
    <3> QED
      BY <1>1, <1>6, <3>1, <3>2, <3>3 DEF UpTo
  <2> QED
    BY <2>2, <2>3, <2>4, <2>5 DEF Fine
<1> QED
  BY <1>2, <1>6, <1>8, <1>9, FlightMoves

LEMMA GetSharedKeeps ==
  ASSUME IInv, NEW r \in Replicas, NEW t \in Tools, GetShared(r, t)
  PROVE  IInv'
<1> DEFINE g == flight[r].catalog[t]
<1>1. /\ flight[r].stage[t] = "get" /\ g \in Binding
      /\ flight \in [Replicas -> FlightType]
      /\ UNCHANGED <<database, redis, memory, request, admin, inbox, expiries, acknowledged>>
  BY Typed DEF GetShared, FlightType
<1>2. (\A e \in redis' : e.defs \in Nat) /\ SharedOK'
  BY <1>1, Typed DEF SharedOK
<1>3. CASE \E e \in redis : /\ e.key = KeyOf(r, t)
             /\ flight' = [flight EXCEPT ![r].stage[t] = "override", ![r].catalog[t].defs = e.defs]
  <2>1. PICK e \in redis : /\ e.key = KeyOf(r, t)
             /\ flight' = [flight EXCEPT ![r].stage[t] = "override", ![r].catalog[t].defs = e.defs]
    BY <1>3
  <2> DEFINE b == [g EXCEPT !.defs = e.defs]
  <2>2. e.defs \in Nat /\ e.defs \in {Absent, g.row}
    BY <2>1, Typed DEF KeyOf, Key
  <2>3. b \in Binding /\ b.row = g.row /\ b.defs = e.defs /\ b.override = g.override
    BY <1>1, <2>2 DEF Binding
  <2>4. flight' = [flight EXCEPT ![r].stage[t] = "override", ![r].catalog[t] = b]
    BY <1>1, <2>1 DEF FlightType
  <2>5. Matched(b) /\ (Edited(r, g, t) => Edited(r, b, t))
    BY <2>2, <2>3 DEF Matched, Edited
  <2>6. "override" \in Stages /\ "override" # "unread" /\ flight[r].stage[t] # "unread"
    BY <1>1 DEF Stages
  <2> HIDE DEF b
  <2> QED
    BY <1>1, <1>2, <2>3, <2>4, <2>5, <2>6, WorkerKeeps
<1>4. CASE flight' = [flight EXCEPT ![r].stage[t] = "list"]
  <2>1. flight' = [flight EXCEPT ![r].stage[t] = "list", ![r].catalog[t] = g]
    BY <1>1, <1>4 DEF FlightType
  <2>2. "list" \in Stages /\ "list" # "unread" /\ flight[r].stage[t] # "unread"
    BY <1>1 DEF Stages
  <2> QED
    BY <1>1, <1>2, <2>1, <2>2, WorkerKeeps
<1> QED
  BY <1>3, <1>4 DEF GetShared

LEMMA ListUpstreamKeeps ==
  ASSUME IInv, NEW r \in Replicas, NEW t \in Tools, ListUpstream(r, t)
  PROVE  IInv'
<1> DEFINE g == flight[r].catalog[t]
<1>1. /\ flight[r].stage[t] = "list" /\ g \in Binding
      /\ flight \in [Replicas -> FlightType]
      /\ UNCHANGED <<database, redis, memory, request, admin, inbox, expiries, acknowledged>>
  BY Typed DEF ListUpstream, FlightType
<1>2. (\A e \in redis' : e.defs \in Nat) /\ SharedOK'
  BY <1>1, Typed DEF SharedOK
<1>3. CASE flight' = [flight EXCEPT ![r].catalog[t].defs = flight[r].catalog[t].row,
                                   ![r].stage[t] = IF Redis THEN "set" ELSE "override"]
  <2> DEFINE b == [g EXCEPT !.defs = g.row]
             s == IF Redis THEN "set" ELSE "override"
  <2>1. b \in Binding /\ b.row = g.row /\ b.defs = g.row /\ b.override = g.override
    BY <1>1 DEF Binding
  <2>2. flight' = [flight EXCEPT ![r].stage[t] = s, ![r].catalog[t] = b]
    BY <1>1, <1>3 DEF FlightType
  <2>3. Matched(b) /\ (Edited(r, g, t) => Edited(r, b, t))
    BY <2>1 DEF Matched, Edited
  <2>4. s \in Stages /\ s # "unread" /\ flight[r].stage[t] # "unread"
    BY <1>1 DEF Stages
  <2> HIDE DEF b, s
  <2> QED
    BY <1>1, <1>2, <2>1, <2>2, <2>3, <2>4, WorkerKeeps
<1>4. CASE flight' = [flight EXCEPT ![r].stage[t] = "done"]
  <2>1. flight' = [flight EXCEPT ![r].stage[t] = "done", ![r].catalog[t] = g]
    BY <1>1, <1>4 DEF FlightType
  <2>2. "done" \in Stages /\ "done" # "unread" /\ flight[r].stage[t] # "unread"
    BY <1>1 DEF Stages
  <2> QED
    BY <1>1, <1>2, <2>1, <2>2, WorkerKeeps
<1> QED
  BY <1>3, <1>4 DEF ListUpstream

LEMMA SetSharedKeeps ==
  ASSUME IInv, NEW r \in Replicas, NEW t \in Tools, SetShared(r, t)
  PROVE  IInv'
<1> DEFINE g == flight[r].catalog[t]
<1>1. /\ flight[r].stage[t] = "set" /\ g \in Binding
      /\ flight \in [Replicas -> FlightType]
      /\ UNCHANGED <<database, memory, request, admin, inbox, expiries, acknowledged>>
      /\ flight' = [flight EXCEPT ![r].stage[t] = "override"]
  BY Typed DEF SetShared, FlightType
<1>2. Matched(g)
  BY <1>1, Typed DEF FlightOK, Fine
<1>3. (\A e \in redis' : e.defs \in Nat) /\ SharedOK'
  <2> DEFINE n == [key |-> KeyOf(r, t), defs |-> g.defs]
  <2>1. n.defs \in Nat /\ n.defs \in {Absent, n.key.config}
    BY <1>1, <1>2 DEF KeyOf, Key, Binding, Matched
  <2>2. redis' \subseteq redis \cup {n}
    BY DEF SetShared
  <2> HIDE DEF n
  <2> QED
    BY <2>1, <2>2, Typed DEF SharedOK
<1>4. flight' = [flight EXCEPT ![r].stage[t] = "override", ![r].catalog[t] = g]
  BY <1>1 DEF FlightType
<1>5. "override" \in Stages /\ "override" # "unread" /\ flight[r].stage[t] # "unread"
  BY <1>1 DEF Stages
<1> QED
  BY <1>1, <1>3, <1>4, <1>5, WorkerKeeps

LEMMA ApplyOverridesKeeps ==
  ASSUME IInv, NEW r \in Replicas, NEW t \in Tools, ApplyOverrides(r, t)
  PROVE  IInv'
<1> DEFINE g == flight[r].catalog[t]
<1>1. /\ flight[r].stage[t] = "override" /\ g \in Binding
      /\ flight \in [Replicas -> FlightType]
      /\ UNCHANGED <<database, redis, memory, request, admin, inbox, expiries, acknowledged>>
  BY Typed DEF ApplyOverrides, FlightType
<1>2. (\A e \in redis' : e.defs \in Nat) /\ SharedOK'
  BY <1>1, Typed DEF SharedOK
<1>3. PICK read \in {override[t], Unread} :
        flight' = [flight EXCEPT ![r].stage[t] = "done", ![r].catalog[t].override = read]
  BY DEF ApplyOverrides
<1> DEFINE b == [g EXCEPT !.override = read]
<1>4. override[t] \in Nat /\ AdminOK(r)
  BY Typed
<1>5. b \in Binding /\ b.row = g.row /\ b.defs = g.defs /\ b.override = read
  BY <1>1, <1>3, <1>4 DEF Binding
<1>6. flight' = [flight EXCEPT ![r].stage[t] = "done", ![r].catalog[t] = b]
  BY <1>1, <1>3 DEF FlightType
<1>7. Edited(r, b, t)
  BY <1>3, <1>4, <1>5 DEF Edited, AdminOK
<1>8. Matched(g) => Matched(b)
  BY <1>5 DEF Matched
<1>9. "done" \in Stages /\ "done" # "unread" /\ flight[r].stage[t] # "unread"
  BY <1>1 DEF Stages
<1> HIDE DEF b
<1> QED
  BY <1>1, <1>2, <1>5, <1>6, <1>7, <1>8, <1>9, WorkerKeeps
(* The flight returns, and the requests that wait for it resume.           *)
LEMMA FinishKeeps ==
  ASSUME IInv, NEW r \in Replicas, NEW pc \in {"look", "failed"}, Finish(r, pc),
         UNCHANGED <<database, redis, memory, admin, inbox, expiries, acknowledged>>
  PROVE  IInv'
<1>1. /\ revision' = revision /\ row' = row /\ override' = override /\ redis' = redis
      /\ memory' = memory /\ admin' = admin /\ inbox' = inbox
      /\ expiries' = expiries /\ acknowledged' = acknowledged
  BY DEF database
<1>2. /\ request \in [Requests -> RequestType] /\ flight \in [Replicas -> FlightType]
  BY Typed
<1>3. /\ flight' \in [Replicas -> FlightType] /\ flight'[r] = Idle
      /\ \A p \in Replicas \ {r} : flight'[p] = flight[p]
  BY <1>2, NothingTypes DEF Finish
<1>4. ASSUME NEW q \in Requests
      PROVE  /\ request'[q] \in RequestType /\ request'[q].rows = request[q].rows
             /\ request'[q].edits = request[q].edits
             /\ \/ request'[q] = request[q]
                \/ request[q].pc = "wait" /\ request'[q].pc = pc
  <2>1. request[q] \in RequestType
    BY <1>2
  <2>2. CASE q \in Waiting(r)
    <3>1. request'[q] = [request[q] EXCEPT !.pc = pc] /\ request[q].pc = "wait"
      BY <2>2 DEF Finish, Waiting
    <3>2. pc \in {"new", "read", "observe", "look", "join", "wait", "answered", "failed"}
      OBVIOUS
    <3> QED
      BY <2>1, <3>1, <3>2 DEF RequestType
  <2>3. CASE q \notin Waiting(r)
    BY <2>1, <2>3 DEF Finish
  <2> QED
    BY <2>2, <2>3
<1>5. request' \in [Requests -> RequestType]
  <2>1. request' = [q \in Requests |-> request'[q]]
    BY DEF Finish
  <2> QED
    BY <1>4, <2>1
<1>6. TypeOK' /\ SharedOK'
  <2>1. TypeOK'
    BY <1>1, <1>3, <1>5, Typed, TypesStay DEF database
  <2> QED
    BY <1>1, <2>1, Typed DEF SharedOK
<1>7. ASSUME NEW p \in Replicas
      PROVE  MemoryOK(p)' /\ FlightOK(p)' /\ AdminOK(p)'
  <2>1. MemoryOK(p) /\ FlightOK(p) /\ AdminOK(p)
    BY Typed
  <2>2. ASSUME NEW t \in Tools
        PROVE  /\ UpTo(memory[p].catalog, memory[p].revision, t) =>
                    UpTo(memory[p].catalog, memory[p].revision, t)'
               /\ p # r /\ UpTo(flight[p].catalog, flight[p].revision, t) =>
                    UpTo(flight[p].catalog, flight[p].revision, t)'
    BY <1>1, <1>3, <1>4 DEF UpTo
  <2>3. MemoryOK(p)' /\ AdminOK(p)'
    BY <1>1, <2>1, <2>2 DEF MemoryOK, AdminOK, Edited, Matched
  <2>4. CASE p # r
    <3>1. flight'[p] = flight[p]
      BY <1>3, <2>4
    <3>2. ASSUME Fine(p, flight[p])
          PROVE  Fine(p, flight[p])'
      BY <1>1, <2>2, <2>4, <3>1, <3>2 DEF Fine, Edited, Matched
    <3> QED
      BY <2>1, <2>3, <3>1, <3>2 DEF FlightOK
  <2>5. CASE p = r
    BY <1>3, <2>3, <2>5, NothingTypes DEF FlightOK
  <2> QED
    BY <2>3, <2>4, <2>5
<1>8. ASSUME NEW q \in Requests
      PROVE  RequestOK(q)'
  BY <1>1, <1>4, Typed DEF RequestOK, Matched
<1> QED
  BY <1>6, <1>7, <1>8 DEF IInv

LEMMA StartKeeps ==
  ASSUME IInv, NEW r \in Replicas, Start(r)
  PROVE  IInv'
<1>1. UNCHANGED <<database, redis, memory, admin, inbox, expiries, acknowledged>>
  BY DEF Start
<1>2. CASE Finish(r, "look")
  BY <1>1, <1>2, FinishKeeps
<1>3. CASE /\ flight' = [flight EXCEPT ![r] =
                [Idle EXCEPT !.pc = "discover", !.version = memory[r].version,
                             !.revision = memory[r].revision]]
           /\ UNCHANGED request
  <2> DEFINE m == memory[r]
             f == [Idle EXCEPT !.pc = "discover", !.version = m.version,
                               !.revision = m.revision]
  <2>1. m.version \in Nat /\ m.revision \in Nat /\ m.revision <= revision
    BY Typed DEF MemoryType, MemoryOK
  <2>2. f = [pc |-> "discover", page |-> 0, version |-> m.version, revision |-> m.revision,
             catalog |-> NoCatalog, stage |-> [t \in Tools |-> "unread"]]
    <3> DEFINE a == [Idle EXCEPT !.pc = "discover"]
               b == [a EXCEPT !.version = m.version]
    <3>1. a = [pc |-> "discover", page |-> 0, version |-> 0, revision |-> 0,
               catalog |-> NoCatalog, stage |-> [t \in Tools |-> "unread"]]
      BY DEF Idle
    <3>2. f = [b EXCEPT !.revision = m.revision]
      BY DEF Idle
    <3> HIDE DEF a, m
    <3>3. b = [pc |-> "discover", page |-> 0, version |-> m.version, revision |-> 0,
               catalog |-> NoCatalog, stage |-> [t \in Tools |-> "unread"]]
      BY <3>1
    <3> HIDE DEF b
    <3>4. [b EXCEPT !.revision = m.revision] =
            [pc |-> "discover", page |-> 0, version |-> m.version, revision |-> m.revision,
             catalog |-> NoCatalog, stage |-> [t \in Tools |-> "unread"]]
      BY <3>3
    <3> QED
      BY <3>2, <3>4
  <2> HIDE DEF f
  <2>3. /\ f.pc = "discover" /\ f.page = 0 /\ f.version = m.version /\ f.revision = m.revision
        /\ f.catalog = NoCatalog /\ \A t \in Tools : f.stage[t] = "unread"
    BY <2>2
  <2>4. f \in FlightType
    <3>1. Len(Pages) \in Nat /\ [t \in Tools |-> "unread"] \in [Tools -> Stages]
      BY CatalogAssumption DEF Stages
    <3> QED
      BY <2>1, <2>2, <3>1, NothingTypes DEF FlightType
  <2>5. \A t \in Tools : Matched(f.catalog[t]) /\ Edited(r, f.catalog[t], t)
    BY <2>3, NothingTypes DEF Edited
  <2>6. Fine(r, f)
    BY <2>1, <2>3, <2>5 DEF Fine
  <2>7. flight' = [flight EXCEPT ![r] = f]
    BY <1>3 DEF f
  <2>8. (\A e \in redis' : e.defs \in Nat) /\ SharedOK'
    BY <1>1, Typed DEF SharedOK
  <2> QED
    BY <1>1, <1>3, <2>3, <2>4, <2>6, <2>7, <2>8, FlightMoves
<1> QED
  BY <1>2, <1>3 DEF Start, SnapshotVersion

LEMMA ReadPageKeeps ==
  ASSUME IInv, NEW r \in Replicas, ReadPage(r)
  PROVE  IInv'
<1> DEFINE g == flight[r]
           rowsRead == Pages[g.page + 1]
           stage == [t \in Tools |-> IF t \in rowsRead THEN FirstStage(t) ELSE g.stage[t]]
           catalog == [t \in Tools |->
             IF t \in rowsRead
             THEN [row |-> row[t], defs |-> IF t \in Remote THEN Absent ELSE row[t],
                   override |-> Unread]
             ELSE g.catalog[t]]
           f == [pc |-> "discover", page |-> g.page + 1, version |-> g.version,
                 revision |-> g.revision, catalog |-> catalog, stage |-> stage]
<1>1. /\ g.pc = "discover" /\ PageDone(g) /\ g.page < Len(Pages)
      /\ flight' = [flight EXCEPT ![r].page = @ + 1, ![r].stage = stage, ![r].catalog = catalog]
      /\ UNCHANGED <<database, redis, memory, request, admin, inbox, expiries, acknowledged>>
  BY DEF ReadPage
<1>2. /\ flight \in [Replicas -> FlightType] /\ g \in FlightType /\ Fine(r, g)
      /\ (\A t \in Tools : row[t] \in Nat) /\ MemoryOK(r) /\ AdminOK(r)
      /\ \A q \in Requests, t \in Tools : request[q].rows[t] \in Nat /\ request[q].rows[t] <= row[t]
  <2>1. FlightOK(r)
    BY Typed
  <2> QED
    <3>1. Fine(r, g)
      BY <1>1, <2>1 DEF FlightOK
    <3>2. ASSUME NEW q \in Requests, NEW t \in Tools
          PROVE  request[q].rows[t] \in Nat /\ request[q].rows[t] <= row[t]
      BY Typed DEF RequestOK, RequestType
    <3> QED
      BY <3>1, <3>2, Typed
<1>3. flight' = [flight EXCEPT ![r] = f]
  <2> HIDE DEF stage, catalog
  <2> QED
    <3> DEFINE a == [g EXCEPT !.page = @ + 1]
               b == [a EXCEPT !.stage = stage]
    <3>1. flight' = [flight EXCEPT ![r] = [b EXCEPT !.catalog = catalog]]
      BY <1>1, <1>2 DEF FlightType
    <3>2. a = [pc |-> g.pc, page |-> g.page + 1, version |-> g.version, revision |-> g.revision,
               catalog |-> g.catalog, stage |-> g.stage]
      <4>1. g \in FlightType
        BY <1>2
      <4> HIDE DEF g
      <4> QED
        BY <4>1 DEF FlightType
    <3> HIDE DEF a, g
    <3>3. b = [pc |-> g.pc, page |-> g.page + 1, version |-> g.version, revision |-> g.revision,
               catalog |-> g.catalog, stage |-> stage]
      BY <3>2
    <3> HIDE DEF b
    <3>4. [b EXCEPT !.catalog = catalog] = f
      BY <1>1, <3>3
    <3> QED
      BY <3>1, <3>4
<1>4. \A t \in Tools : FirstStage(t) \in Stages /\ FirstStage(t) # "unread"
  BY DEF FirstStage, Stages
<1>5. ASSUME NEW t \in Tools
      PROVE  /\ t \in rowsRead => /\ stage[t] # "unread" /\ catalog[t].row = row[t]
                              /\ catalog[t].override = Unread /\ Matched(catalog[t])
             /\ t \notin rowsRead => stage[t] = g.stage[t] /\ catalog[t] = g.catalog[t]
             /\ stage[t] \in Stages /\ catalog[t] \in Binding
  BY <1>2, <1>4 DEF Matched, Binding, FlightType, Absent, Unread
<1>6. /\ f.pc = "discover" /\ f.page = g.page + 1 /\ f.version = g.version
      /\ f.revision = g.revision /\ f.catalog = catalog /\ f.stage = stage
  OBVIOUS
<1>7. f \in FlightType
  <2>1. stage \in [Tools -> Stages] /\ catalog \in [Tools -> Binding]
    BY <1>5
  <2>2. /\ g.page + 1 \in 0..Len(Pages) /\ g.version \in Nat /\ g.revision \in Nat
    <3>1. Len(Pages) \in Nat /\ g.page \in 0..Len(Pages)
      BY <1>2, CatalogAssumption DEF FlightType
    <3>2. g.page + 1 \in 0..Len(Pages)
      <4>1. g.page < Len(Pages)
        BY <1>1
      <4> HIDE DEF g
      <4> QED
        BY <3>1, <4>1
    <3>3. g.version \in Nat /\ g.revision \in Nat
      BY <1>2 DEF FlightType
    <3> QED
      BY <3>2, <3>3
  <2> HIDE DEF stage, catalog
  <2> QED
    BY <2>1, <2>2 DEF FlightType
<1> HIDE DEF f, stage, catalog
<1>8. Fine(r, f)
  <2>1. f.version <= memory[r].version /\ f.revision <= revision
    BY <1>2, <1>6 DEF Fine
  <2>2. ASSUME f.version = memory[r].version
        PROVE  f.revision = memory[r].revision
               /\ \A t \in Tools : Edited(r, f.catalog[t], t)
    BY <1>2, <1>5, <1>6, <2>2 DEF Fine, Edited
  <2>3. ASSUME NEW i \in 1..f.page, NEW t \in Pages[i]
        PROVE  f.stage[t] # "unread"
    <3>1. g.page \in Nat /\ i \in 1..Len(Pages)
      BY <1>1, <1>2, <1>6, CatalogAssumption DEF FlightType
    <3>2. t \in Tools
      BY <3>1, CatalogAssumption
    <3>3. CASE i = g.page + 1
      BY <1>5, <1>6, <3>2, <3>3
    <3>4. CASE i \in 1..g.page
      BY <1>2, <1>5, <1>6, <3>2, <3>4 DEF Fine
    <3> QED
      BY <1>6, <3>1, <3>3, <3>4
  <2>4. ASSUME NEW t \in Tools
        PROVE  /\ Matched(f.catalog[t])
               /\ f.stage[t] # "unread" => UpTo(f.catalog, f.revision, t)
    <3>1. CASE t \in rowsRead
      BY <1>2, <1>5, <1>6, <3>1 DEF UpTo
    <3>2. CASE t \notin rowsRead
      BY <1>2, <1>5, <1>6, <3>2 DEF UpTo, Fine
    <3> QED
      BY <3>1, <3>2
  <2> QED
    BY <2>1, <2>2, <2>3, <2>4 DEF Fine
<1>9. (\A e \in redis' : e.defs \in Nat) /\ SharedOK'
  BY <1>1, Typed DEF SharedOK
<1> QED
  BY <1>1, <1>3, <1>6, <1>7, <1>8, <1>9, FlightMoves
LEMMA FailFlightKeeps ==
  ASSUME IInv, NEW r \in Replicas, FailFlight(r)
  PROVE  IInv'
BY FinishKeeps DEF FailFlight

LEMMA EndFlightKeeps ==
  ASSUME IInv, NEW r \in Replicas, EndFlight(r)
  PROVE  IInv'
BY FinishKeeps DEF EndFlight

(* A flight of the current version has read every page, and nothing that   *)
(* the replica has observed since it began: its catalog may be used.       *)
LEMMA PublishCatalogKeeps ==
  ASSUME IInv, NEW r \in Replicas, PublishCatalog(r)
  PROVE  IInv'
<1> DEFINE g == flight[r]
           f == [Idle EXCEPT !.pc = "retire"]
<1>1. /\ g.pc = "discover" /\ PageDone(g) /\ g.page = Len(Pages)
      /\ flight' = [flight EXCEPT ![r] = f]
      /\ UNCHANGED <<database, redis, request, admin, inbox, expiries, acknowledged>>
  BY DEF PublishCatalog
<1>2. /\ revision' = revision /\ row' = row /\ override' = override /\ redis' = redis
      /\ request' = request /\ admin' = admin /\ inbox' = inbox
      /\ expiries' = expiries /\ acknowledged' = acknowledged
  BY <1>1 DEF database
<1>3. /\ memory \in [Replicas -> MemoryType] /\ flight \in [Replicas -> FlightType]
      /\ g \in FlightType /\ Fine(r, g) /\ MemoryOK(r)
  <2>1. FlightOK(r)
    BY Typed
  <2> QED
    BY <1>1, <2>1, Typed DEF FlightOK
<1>4. f \in FlightType /\ f.pc = "retire" /\ \A t \in Tools : f.stage[t] = "unread"
  BY NothingTypes DEF FlightType
<1> HIDE DEF f
<1>5. /\ flight' \in [Replicas -> FlightType] /\ flight'[r] = f
      /\ \A p \in Replicas \ {r} : flight'[p] = flight[p]
  BY <1>1, <1>3, <1>4
<1>6. CASE ~Current(r)
  <2>1. memory' = memory
    BY <1>6 DEF PublishCatalog
  <2>2. (\A e \in redis' : e.defs \in Nat) /\ SharedOK'
    BY <1>2, Typed DEF SharedOK
  <2> QED
    BY <1>1, <1>4, <2>1, <2>2, FlightMoves
<1>7. CASE Current(r)
  <2> DEFINE m == [memory[r] EXCEPT !.catalog = g.catalog, !.fresh = TRUE]
  <2>1. memory' = [memory EXCEPT ![r] = m]
    BY <1>3, <1>7 DEF PublishCatalog, MemoryType
  <2>2. /\ m \in MemoryType /\ m.fresh /\ m.catalog = g.catalog
        /\ m.revision = memory[r].revision /\ m.version = memory[r].version
    <3> DEFINE a == [memory[r] EXCEPT !.catalog = g.catalog]
    <3>1. /\ a \in MemoryType /\ a.catalog = g.catalog
          /\ a.revision = memory[r].revision /\ a.version = memory[r].version
      <4>1. g.catalog \in [Tools -> Binding] /\ memory[r] \in MemoryType
        BY <1>3 DEF FlightType
      <4> HIDE DEF g
      <4> QED
        BY <4>1 DEF MemoryType
    <3>2. m = [a EXCEPT !.fresh = TRUE]
      BY <1>3 DEF MemoryType
    <3> HIDE DEF a, g
    <3>3. /\ [a EXCEPT !.fresh = TRUE] \in MemoryType /\ [a EXCEPT !.fresh = TRUE].fresh
          /\ [a EXCEPT !.fresh = TRUE].catalog = a.catalog
          /\ [a EXCEPT !.fresh = TRUE].revision = a.revision
          /\ [a EXCEPT !.fresh = TRUE].version = a.version
      BY <3>1 DEF MemoryType
    <3> HIDE DEF m
    <3> QED
      BY <3>1, <3>2, <3>3
  <2> HIDE DEF m
  <2>3. /\ memory' \in [Replicas -> MemoryType] /\ memory'[r] = m
        /\ \A p \in Replicas \ {r} : memory'[p] = memory[p]
    BY <1>3, <2>1, <2>2
  <2>4. TypeOK'
    BY <1>2, <1>5, <2>3, Typed, TypesStay DEF database
  <2>5. SharedOK'
    BY <1>2, Typed DEF SharedOK
  <2>6. ASSUME NEW t \in Tools
        PROVE  /\ UpTo(g.catalog, memory[r].revision, t) /\ Edited(r, g.catalog[t], t)
               /\ Matched(g.catalog[t])
    <3>1. g.revision = memory[r].revision /\ Edited(r, g.catalog[t], t)
      BY <1>3, <1>7 DEF Fine, Current
    <3>2. PICK i \in 1..Len(Pages) : t \in Pages[i]
      BY CatalogAssumption
    <3>3. g.stage[t] # "unread"
      BY <1>1, <1>3, <3>2 DEF Fine
    <3> QED
      BY <1>3, <3>1, <3>3 DEF Fine
  <2>7. ASSUME NEW p \in Replicas
        PROVE  MemoryOK(p)' /\ FlightOK(p)' /\ AdminOK(p)'
    <3>1. MemoryOK(p) /\ FlightOK(p) /\ AdminOK(p)
      BY Typed
    <3>2. ASSUME NEW t \in Tools
          PROVE  /\ p # r /\ UpTo(memory[p].catalog, memory[p].revision, t) =>
                      UpTo(memory[p].catalog, memory[p].revision, t)'
                 /\ p # r /\ UpTo(flight[p].catalog, flight[p].revision, t) =>
                      UpTo(flight[p].catalog, flight[p].revision, t)'
                 /\ p = r => UpTo(memory[p].catalog, memory[p].revision, t)'
      BY <1>2, <1>5, <2>2, <2>3, <2>6 DEF UpTo
    <3>3. AdminOK(p)'
      BY <1>2, <3>1 DEF AdminOK
    <3>4. CASE p # r
      <4>1. flight'[p] = flight[p] /\ memory'[p] = memory[p]
        BY <1>5, <2>3, <3>4
      <4>2. ASSUME Fine(p, flight[p])
            PROVE  Fine(p, flight[p])'
        BY <1>2, <3>2, <3>4, <4>1, <4>2 DEF Fine, Edited, Matched
      <4>3. MemoryOK(p)'
        BY <1>2, <3>1, <3>2, <3>4, <4>1 DEF MemoryOK, Edited, Matched
      <4> QED
        BY <3>1, <3>3, <4>1, <4>2, <4>3 DEF FlightOK
    <3>5. CASE p = r
      <4>1. FlightOK(p)'
        BY <1>4, <1>5, <3>5 DEF FlightOK
      <4>2. MemoryOK(p)'
        BY <1>2, <1>3, <2>2, <2>3, <2>6, <3>2, <3>5 DEF MemoryOK, Edited, Matched
      <4> QED
        BY <3>3, <4>1, <4>2
    <3> QED
      BY <3>4, <3>5
  <2>8. \A q \in Requests : RequestOK(q)'
    <3>1. \A p \in Replicas : memory'[p].revision \in Nat
                              /\ memory'[p].revision >= memory[p].revision
      BY <1>3, <2>2, <2>3 DEF MemoryType
    <3> QED
      BY <1>1, <3>1, RequestsStay
  <2> QED
    BY <2>4, <2>5, <2>7, <2>8 DEF IInv
<1> QED
  BY <1>6, <1>7

-----------------------------------------------------------------------------
\* Steps of the database and of the administrators

(* A commit writes a revision that no replica has observed.                *)
LEMMA SaveToolKeeps ==
  ASSUME IInv, NEW r \in Replicas, NEW t \in Tools, SaveTool(r, t)
  PROVE  IInv'
<1> DEFINE x == [pc |-> "committed", tool |-> "none", override |-> 0]
<1>1. /\ revision' = revision + 1 /\ row' = [row EXCEPT ![t] = revision + 1]
      /\ admin' = [admin EXCEPT ![r] = x]
      /\ override' = override /\ redis' = redis /\ memory' = memory /\ flight' = flight
      /\ request' = request /\ inbox' = inbox /\ expiries' = expiries
      /\ acknowledged' = acknowledged
  BY DEF SaveTool, Advanced
<1>2. /\ revision \in Nat /\ row \in [Tools -> 1..revision] /\ admin \in [Replicas -> AdminType]
      /\ memory \in [Replicas -> MemoryType] /\ flight \in [Replicas -> FlightType]
      /\ request \in [Requests -> RequestType]
  BY Typed DEF IInv, TypeOK
<1>3. /\ row'[t] = revision + 1 /\ \A u \in Tools \ {t} : row'[u] = row[u]
      /\ \A u \in Tools : row'[u] >= row[u] /\ row'[u] \in 1..revision' /\ row[u] \in 1..revision
  BY <1>1, <1>2
<1>4. x \in AdminType
  BY DEF AdminType
<1>5. /\ admin' \in [Replicas -> AdminType] /\ admin'[r] = x
      /\ \A p \in Replicas \ {r} : admin'[p] = admin[p]
  BY <1>1, <1>2, <1>4
<1>6. TypeOK' /\ SharedOK'
  <2>1. TypeOK /\ SharedOK
    BY DEF IInv
  <2>2. revision' \in Nat /\ row' \in [Tools -> 1..revision']
    <3>1. row' = [u \in Tools |-> row'[u]]
      BY <1>1, <1>2
    <3> QED
      BY <1>1, <1>2, <1>3, <3>1
  <2>3. admin' \in [Replicas -> [pc : {"idle", "committed", "publish"},
                                 tool : Tools \cup {"none"}, override : Nat]]
    BY <1>5 DEF AdminType
  <2> QED
    BY <1>1, <2>1, <2>2, <2>3 DEF TypeOK, SharedOK
<1>7. ASSUME NEW c \in [Tools -> Binding], NEW v \in Nat, v <= revision, NEW u \in Tools,
             UpTo(c, v, u)
      PROVE  /\ row'[u] <= v => c[u].row = row'[u]
             /\ \A q \in Requests : request'[q].rows[u] <= v => c[u].row >= request'[q].rows[u]
  BY <1>1, <1>2, <1>3, <1>7 DEF UpTo
<1>8. ASSUME NEW p \in Replicas
      PROVE  MemoryOK(p)' /\ FlightOK(p)' /\ AdminOK(p)'
  <2>1. MemoryOK(p) /\ FlightOK(p) /\ AdminOK(p)
    BY Typed
  <2>2. /\ memory[p].catalog \in [Tools -> Binding] /\ memory[p].revision \in Nat
        /\ flight[p].catalog \in [Tools -> Binding] /\ flight[p].revision \in Nat
    BY <1>2 DEF MemoryType, FlightType
  <2>3. ASSUME NEW u \in Tools, memory[p].revision <= revision,
               UpTo(memory[p].catalog, memory[p].revision, u)
        PROVE  UpTo(memory[p].catalog, memory[p].revision, u)'
    <3> DEFINE c == memory[p].catalog
               v == memory[p].revision
    <3>1. c \in [Tools -> Binding] /\ v \in Nat /\ v <= revision /\ UpTo(c, v, u)
      BY <2>2, <2>3
    <3> HIDE DEF c, v
    <3>2. /\ row'[u] <= v => c[u].row = row'[u]
          /\ \A q \in Requests : request'[q].rows[u] <= v => c[u].row >= request'[q].rows[u]
      BY <1>7, <3>1
    <3> QED
      BY <1>1, <3>2 DEF UpTo, c, v
  <2>4. ASSUME NEW u \in Tools, flight[p].revision <= revision,
               UpTo(flight[p].catalog, flight[p].revision, u)
        PROVE  UpTo(flight[p].catalog, flight[p].revision, u)'
    <3> DEFINE c == flight[p].catalog
               v == flight[p].revision
    <3>1. c \in [Tools -> Binding] /\ v \in Nat /\ v <= revision /\ UpTo(c, v, u)
      BY <2>2, <2>4
    <3> HIDE DEF c, v
    <3>2. /\ row'[u] <= v => c[u].row = row'[u]
          /\ \A q \in Requests : request'[q].rows[u] <= v => c[u].row >= request'[q].rows[u]
      BY <1>7, <3>1
    <3> QED
      BY <1>1, <3>2 DEF UpTo, c, v
  <2>5. admin'[p] = admin[p] \/ (admin'[p].pc = "committed" /\ admin'[p].tool = "none")
    BY <1>5
  <2>6. \A b \in Binding, u \in Tools : Edited(p, b, u) =>
          (b.override # Unread =>
             /\ b.override >= acknowledged'[p][u]
             /\ admin'[p].pc = "publish" /\ admin'[p].tool # "none" /\ admin'[p].tool = u =>
                  b.override >= admin'[p].override)
    BY <1>1, <2>5 DEF Edited
  <2>7. MemoryOK(p)'
    <3>1. memory[p].revision <= revision'
      BY <1>1, <1>2, <2>1, <2>2 DEF MemoryOK
    <3> QED
      BY <1>1, <2>1, <2>2, <2>3, <2>6, <3>1 DEF MemoryOK, Edited, Matched
  <2>8. ASSUME Fine(p, flight[p])
        PROVE  Fine(p, flight[p])'
    <3>1. flight[p].revision <= revision'
      BY <1>1, <1>2, <2>2, <2>8 DEF Fine
    <3> QED
      BY <1>1, <2>2, <2>4, <2>6, <2>8, <3>1 DEF Fine, Edited, Matched
  <2>9. FlightOK(p)'
    BY <1>1, <2>1, <2>8 DEF FlightOK
  <2>10. AdminOK(p)'
    BY <1>1, <2>1, <2>5 DEF AdminOK
  <2> QED
    BY <2>7, <2>9, <2>10
<1>9. ASSUME NEW q \in Requests
      PROVE  RequestOK(q)'
  <2>1. RequestOK(q) /\ request[q] \in RequestType
    BY Typed
  <2>2. \A u \in Tools : request[q].rows[u] <= row'[u]
    BY <1>2, <1>3, <2>1 DEF RequestOK, RequestType
  <2>3. request[q].seen <= revision => request[q].seen <= revision'
    BY <1>1, <1>2, <2>1 DEF RequestType
  <2> QED
    BY <1>1, <2>1, <2>2, <2>3 DEF RequestOK, Matched
<1> QED
  BY <1>6, <1>8, <1>9 DEF IInv
(* Steps that leave the rows, the replicas and the requests as they are.   *)
LEMMA StoreMoves ==
  ASSUME IInv, UNCHANGED <<revision, row, memory, flight, request, expiries>>,
         override' \in [Tools -> Nat], admin' \in [Replicas -> AdminType],
         inbox' \in [Replicas -> Nat], acknowledged' \in [Replicas -> [Tools -> Nat]],
         \A e \in redis' : e.defs \in Nat, SharedOK',
         \A p \in Replicas : AdminOK(p)',
         \A p \in Replicas, b \in Binding, u \in Tools : Edited(p, b, u) => Edited(p, b, u)',
         \A q \in Requests, u \in Tools :
           request[q].edits[Home[q]][u] <= acknowledged'[Home[q]][u]
  PROVE  IInv'
<1>1. TypeOK'
  <2>1. TypeOK
    BY DEF IInv
  <2>2. admin' \in [Replicas -> [pc : {"idle", "committed", "publish"},
                                 tool : Tools \cup {"none"}, override : Nat]]
    BY DEF AdminType
  <2> QED
    BY <2>1, <2>2 DEF TypeOK
<1>2. ASSUME NEW p \in Replicas
      PROVE  MemoryOK(p)' /\ FlightOK(p)'
  <2>1. MemoryOK(p) /\ FlightOK(p)
    BY Typed
  <2>2. ASSUME NEW u \in Tools
        PROVE  /\ memory[p].catalog[u] \in Binding /\ flight[p].catalog[u] \in Binding
               /\ UpTo(memory[p].catalog, memory[p].revision, u) =>
                    UpTo(memory[p].catalog, memory[p].revision, u)'
               /\ UpTo(flight[p].catalog, flight[p].revision, u) =>
                    UpTo(flight[p].catalog, flight[p].revision, u)'
    BY Typed DEF UpTo, MemoryType, FlightType
  <2>3. ASSUME NEW u \in Tools
        PROVE  /\ Edited(p, memory[p].catalog[u], u) => Edited(p, memory[p].catalog[u], u)'
               /\ Edited(p, flight[p].catalog[u], u) => Edited(p, flight[p].catalog[u], u)'
    <3> DEFINE a == memory[p].catalog[u]
               b == flight[p].catalog[u]
    <3>1. a \in Binding /\ b \in Binding
      BY <2>2
    <3> HIDE DEF a, b
    <3>2. /\ Edited(p, a, u) /\ a.override # Unread =>
               (/\ a.override >= acknowledged'[p][u]
                /\ admin'[p].pc = "publish" /\ admin'[p].tool # "none" /\ admin'[p].tool = u =>
                     a.override >= admin'[p].override)
          /\ Edited(p, b, u) /\ b.override # Unread =>
               (/\ b.override >= acknowledged'[p][u]
                /\ admin'[p].pc = "publish" /\ admin'[p].tool # "none" /\ admin'[p].tool = u =>
                     b.override >= admin'[p].override)
      BY <3>1 DEF Edited
    <3> QED
      BY <3>2 DEF Edited, a, b
  <2>4. MemoryOK(p)'
    BY <2>1, <2>2, <2>3 DEF MemoryOK, Matched
  <2>5. Fine(p, flight[p]) => Fine(p, flight[p])'
    BY <2>2, <2>3 DEF Fine, Matched
  <2> QED
    BY <2>1, <2>4, <2>5 DEF FlightOK
<1>3. ASSUME NEW q \in Requests
      PROVE  RequestOK(q)'
  BY Typed DEF RequestOK, Matched
<1> QED
  BY <1>1, <1>2, <1>3 DEF IInv

LEMMA ExpireSharedKeeps ==
  ASSUME IInv, NEW e \in redis, ExpireShared(e)
  PROVE  IInv'
<1>1. /\ redis' \subseteq redis
      /\ UNCHANGED <<database, memory, flight, request, admin, inbox, expiries, acknowledged>>
  BY DEF ExpireShared
<1>2. /\ \A p \in Replicas, b \in Binding, u \in Tools : Edited(p, b, u) => Edited(p, b, u)'
      /\ \A p \in Replicas : AdminOK(p)'
  BY <1>1, Typed DEF Edited, AdminOK, database
<1>3. (\A x \in redis' : x.defs \in Nat) /\ SharedOK'
  BY <1>1, Typed DEF SharedOK
<1>4. \A q \in Requests, u \in Tools :
        request[q].edits[Home[q]][u] <= acknowledged'[Home[q]][u]
  BY <1>1, Typed DEF RequestOK
<1> QED
  BY <1>1, <1>2, <1>3, <1>4, StoreMoves, Typed DEF database

LEMMA SaveMetadataKeeps ==
  ASSUME IInv, NEW r \in Replicas, NEW t \in Tools, SaveMetadata(r, t)
  PROVE  IInv'
<1> DEFINE x == [pc |-> "committed", tool |-> t, override |-> override'[t]]
<1>1. /\ override' = [override EXCEPT ![t] = @ + 1] /\ admin' = [admin EXCEPT ![r] = x]
      /\ UNCHANGED <<revision, row, redis, memory, flight, request, inbox, expiries, acknowledged>>
  BY DEF SaveMetadata
<1>2. /\ override \in [Tools -> Nat] /\ admin \in [Replicas -> AdminType]
      /\ acknowledged \in [Replicas -> [Tools -> Nat]] /\ inbox \in [Replicas -> Nat]
  BY Typed
<1>3. /\ override' \in [Tools -> Nat] /\ override'[t] = override[t] + 1
      /\ \A u \in Tools : override[u] \in Nat /\ override'[u] \in Nat /\ override'[u] >= override[u]
  BY <1>1, <1>2
<1>4. x \in AdminType /\ x.pc = "committed" /\ x.tool = t /\ x.override = override'[t]
  BY <1>3 DEF AdminType
<1> HIDE DEF x
<1>5. /\ admin' \in [Replicas -> AdminType] /\ admin'[r] = x
      /\ \A p \in Replicas \ {r} : admin'[p] = admin[p]
  BY <1>1, <1>2, <1>4
<1>6. ASSUME NEW p \in Replicas
      PROVE  AdminOK(p)'
  <2>1. AdminOK(p) /\ admin[p] \in AdminType /\ acknowledged[p] \in [Tools -> Nat]
    BY <1>2, Typed
  <2>2. \A u \in Tools : acknowledged[p][u] <= override'[u]
    BY <1>3, <2>1 DEF AdminOK
  <2>3. CASE p = r
    BY <1>1, <1>3, <1>4, <1>5, <2>2, <2>3 DEF AdminOK
  <2>4. CASE p # r
    <3>1. admin'[p] = admin[p]
      BY <1>5, <2>4
    <3>2. admin[p].pc # "idle" /\ admin[p].tool # "none" =>
            admin[p].tool \in Tools /\ admin[p].override <= override'[admin[p].tool]
      BY <1>3, <2>1 DEF AdminOK, AdminType
    <3> QED
      BY <1>1, <2>1, <2>2, <3>1, <3>2 DEF AdminOK
  <2> QED
    BY <2>3, <2>4
<1>7. \A p \in Replicas, b \in Binding, u \in Tools : Edited(p, b, u) => Edited(p, b, u)'
  <2>1. \A p \in Replicas : admin'[p] = admin[p] \/ admin'[p].pc = "committed"
    BY <1>4, <1>5
  <2> QED
    BY <1>1, <2>1 DEF Edited
<1>8. (\A e \in redis' : e.defs \in Nat) /\ SharedOK'
  BY <1>1, Typed DEF SharedOK
<1>9. \A q \in Requests, u \in Tools :
        request[q].edits[Home[q]][u] <= acknowledged'[Home[q]][u]
  BY <1>1, Typed DEF RequestOK
<1> QED
  BY <1>1, <1>2, <1>3, <1>5, <1>6, <1>7, <1>8, <1>9, StoreMoves

(* What the catalogs in use hold was read after the edit that is answered. *)
LEMMA PublishKeeps ==
  ASSUME IInv, NEW r \in Replicas, Publish(r)
  PROVE  IInv'
<1> DEFINE t == admin[r].tool
           n == admin[r].override
<1>1. /\ admin[r].pc = "publish" /\ admin' = [admin EXCEPT ![r] = NoEdit]
      /\ acknowledged' = IF t = "none" THEN acknowledged
                         ELSE [acknowledged EXCEPT ![r][t] = n]
      /\ UNCHANGED <<revision, row, override, redis, memory, flight, request, expiries>>
  BY DEF Publish, database
<1>2. /\ override \in [Tools -> Nat] /\ admin \in [Replicas -> AdminType]
      /\ acknowledged \in [Replicas -> [Tools -> Nat]] /\ inbox \in [Replicas -> Nat]
      /\ t \in Tools \cup {"none"} /\ n \in Nat /\ AdminOK(r)
  BY Typed DEF AdminType
<1>3. inbox' \in [Replicas -> Nat]
  <2>1. PICK reached \in SUBSET (Replicas \ {r}) :
          inbox' = [p \in Replicas |-> inbox[p] + (IF p \in reached THEN 1 ELSE 0)]
    BY DEF Publish
  <2> QED
    BY <1>2, <2>1
<1>4. NoEdit \in AdminType /\ NoEdit.pc = "idle"
  BY DEF NoEdit, AdminType
<1>5. /\ admin' \in [Replicas -> AdminType] /\ admin'[r].pc = "idle"
      /\ \A p \in Replicas \ {r} : admin'[p] = admin[p]
  BY <1>1, <1>2, <1>4
<1>6. t # "none" => acknowledged[r][t] <= n /\ n <= override[t]
  BY <1>1, <1>2 DEF AdminOK
<1> HIDE DEF t, n
<1>7. /\ acknowledged' \in [Replicas -> [Tools -> Nat]]
      /\ \A p \in Replicas, u \in Tools :
           /\ acknowledged[p][u] \in Nat /\ acknowledged'[p][u] \in Nat
           /\ \/ acknowledged'[p][u] = acknowledged[p][u]
              \/ p = r /\ u = t /\ t # "none" /\ acknowledged'[p][u] = n
  <2>1. CASE t = "none"
    BY <1>1, <1>2, <2>1
  <2>2. CASE t # "none"
    <3>1. acknowledged' = [acknowledged EXCEPT ![r] = [acknowledged[r] EXCEPT ![t] = n]]
      BY <1>1, <2>2
    <3>2. [acknowledged[r] EXCEPT ![t] = n] \in [Tools -> Nat]
      BY <1>2
    <3>3. /\ acknowledged' \in [Replicas -> [Tools -> Nat]]
          /\ acknowledged'[r] = [acknowledged[r] EXCEPT ![t] = n]
          /\ \A p \in Replicas \ {r} : acknowledged'[p] = acknowledged[p]
      BY <1>2, <3>1, <3>2
    <3>4. \A u \in Tools : acknowledged'[r][u] = IF u = t THEN n ELSE acknowledged[r][u]
      BY <1>2, <3>3
    <3> QED
      BY <1>2, <2>2, <3>3, <3>4
  <2> QED
    BY <2>1, <2>2
<1>8. \A p \in Replicas, u \in Tools : acknowledged[p][u] <= acknowledged'[p][u]
  BY <1>2, <1>6, <1>7
<1>9. ASSUME NEW p \in Replicas
      PROVE  AdminOK(p)'
  <2>1. AdminOK(p)
    BY Typed
  <2>2. \A u \in Tools : acknowledged'[p][u] <= override'[u]
    BY <1>1, <1>6, <1>7, <2>1 DEF AdminOK
  <2>3. CASE p = r
    BY <1>5, <2>2, <2>3 DEF AdminOK
  <2>4. CASE p # r
    <3>1. admin'[p] = admin[p] /\ acknowledged'[p] = acknowledged[p]
      BY <1>1, <1>2, <1>5, <2>4
    <3> QED
      BY <1>1, <2>1, <2>2, <3>1 DEF AdminOK
  <2> QED
    BY <2>3, <2>4
<1>10. ASSUME NEW p \in Replicas, NEW b \in Binding, NEW u \in Tools, Edited(p, b, u)
       PROVE  Edited(p, b, u)'
  <2>1. ASSUME b.override # Unread
        PROVE  b.override >= acknowledged'[p][u]
    BY <1>1, <1>7, <1>10, <2>1 DEF Edited, t, n
  <2>2. admin'[p].pc = "publish" => admin'[p] = admin[p]
    BY <1>5
  <2> QED
    BY <1>10, <2>1, <2>2 DEF Edited
<1>11. (\A e \in redis' : e.defs \in Nat) /\ SharedOK'
  BY <1>1, Typed DEF SharedOK
<1>12. ASSUME NEW q \in Requests, NEW u \in Tools
       PROVE  request[q].edits[Home[q]][u] <= acknowledged'[Home[q]][u]
  <2>1. /\ request[q].edits[Home[q]][u] <= acknowledged[Home[q]][u] /\ Home[q] \in Replicas
        /\ request[q].edits[Home[q]][u] \in Nat
    BY Typed DEF RequestOK, RequestType
  <2> QED
    BY <1>7, <1>8, <2>1
<1> QED
  BY <1>1, <1>2, <1>3, <1>5, <1>7, <1>9, <1>10, <1>11, <1>12, StoreMoves

-----------------------------------------------------------------------------
\* The invariant and the theorems

LEMMA InitInv == Init => IInv
<1> SUFFICES ASSUME Init PROVE IInv
  OBVIOUS
<1>1. NoCatalog \in [Tools -> Binding] /\ Idle \in FlightType
  BY NothingTypes
<1>2. /\ revision = 1 /\ row \in [Tools -> 1..revision] /\ row \in [Tools -> Nat]
      /\ override \in [Tools -> Nat] /\ redis = {} /\ inbox \in [Replicas -> Nat]
      /\ expiries \in Nat /\ acknowledged = [r \in Replicas |-> override]
      /\ acknowledged \in [Replicas -> [Tools -> Nat]]
      /\ \A t \in Tools : row[t] = 1 /\ override[t] = 0
  BY DEF Init
<1>3. /\ memory \in [Replicas -> MemoryType]
      /\ \A r \in Replicas : ~memory[r].fresh /\ memory[r].revision = 0
                             /\ memory[r].catalog = NoCatalog
  BY <1>1 DEF Init, MemoryType
<1>4. flight \in [Replicas -> FlightType] /\ \A r \in Replicas : flight[r] = Idle
  BY <1>1 DEF Init
<1>5. /\ request \in [Requests -> RequestType]
      /\ \A q \in Requests : /\ request[q].pc = "new" /\ request[q].rows = row
                             /\ request[q].edits = acknowledged
  BY <1>1, <1>2 DEF Init, RequestType
<1>6. admin \in [Replicas -> AdminType] /\ \A r \in Replicas : admin[r].pc = "idle"
  BY DEF Init, AdminType, NoEdit
<1>7. TypeOK /\ SharedOK
  BY <1>2, <1>3, <1>4, <1>5, <1>6
     DEF TypeOK, SharedOK, MemoryType, FlightType, RequestType, AdminType
<1>8. ASSUME NEW r \in Replicas
      PROVE  MemoryOK(r) /\ FlightOK(r) /\ AdminOK(r)
  BY <1>2, <1>3, <1>4, <1>6, NothingTypes DEF MemoryOK, FlightOK, AdminOK
<1>9. ASSUME NEW q \in Requests
      PROVE  RequestOK(q)
  BY <1>2, <1>5, CatalogAssumption DEF RequestOK
<1> QED
  BY <1>7, <1>8, <1>9 DEF IInv

LEMMA NextKeeps == IInv /\ [Next]_vars => IInv'
<1> SUFFICES ASSUME IInv, [Next]_vars PROVE IInv'
  OBVIOUS
<1>1. ASSUME NEW q \in Requests, RequestStep(q) \/ Leave(q)
      PROVE  IInv'
  BY <1>1, BeginKeeps, ReadRevisionKeeps, ObserveKeeps, LookKeeps, JoinKeeps, LeaveKeeps
     DEF RequestStep
<1>2. ASSUME NEW r \in Replicas, NEW t \in Tools, Worker(r, t)
      PROVE  IInv'
  BY <1>2, GetSharedKeeps, ListUpstreamKeeps, SetSharedKeeps, ApplyOverridesKeeps DEF Worker
<1>3. ASSUME NEW r \in Replicas, FlightStep(r) \/ FailFlight(r)
      PROVE  IInv'
  BY <1>2, <1>3, StartKeeps, ReadPageKeeps, PublishCatalogKeeps, EndFlightKeeps, FailFlightKeeps
     DEF FlightStep
<1>4. ASSUME NEW r \in Replicas, AdminStep(r) \/ Watch(r) \/ Expire(r)
      PROVE  IInv'
  BY <1>4, InvalidateLocalKeeps, PublishKeeps, WatchKeeps, ExpireKeeps DEF AdminStep
<1>5. ASSUME NEW r \in Admins, NEW t \in Tools, SaveTool(r, t) \/ SaveMetadata(r, t)
      PROVE  IInv'
  <2>1. r \in Replicas
    BY CatalogAssumption
  <2> QED
    BY <1>5, <2>1, SaveToolKeeps, SaveMetadataKeeps
<1>6. ASSUME NEW e \in redis, ExpireShared(e)
      PROVE  IInv'
  BY <1>6, ExpireSharedKeeps
<1>7. CASE UNCHANGED vars
  <2>1. /\ revision' = revision /\ row' = row /\ override' = override /\ redis' = redis
        /\ memory' = memory /\ flight' = flight /\ request' = request /\ admin' = admin
        /\ inbox' = inbox /\ expiries' = expiries /\ acknowledged' = acknowledged
    BY <1>7 DEF vars
  <2>2. /\ \A p \in Replicas, b \in Binding, u \in Tools : Edited(p, b, u) => Edited(p, b, u)'
        /\ \A p \in Replicas : AdminOK(p)'
    BY <2>1, Typed DEF Edited, AdminOK
  <2>3. (\A e \in redis' : e.defs \in Nat) /\ SharedOK'
    BY <2>1, Typed DEF SharedOK
  <2>4. \A q \in Requests, u \in Tools :
          request[q].edits[Home[q]][u] <= acknowledged'[Home[q]][u]
    BY <2>1, Typed DEF RequestOK
  <2> QED
    BY <2>1, <2>2, <2>3, <2>4, StoreMoves, Typed
<1>8. CASE Next
  BY <1>1, <1>3, <1>4, <1>5, <1>6, <1>8 DEF Next
<1> QED
  BY <1>7, <1>8

(* In every reachable state the catalogs that replicas use and the flights *)
(* that may still publish hold what their version vouches for: the rows up *)
(* to the observed revision, with definitions of those rows, and the edits *)
(* that the replica has answered (gateway.go, tools).                      *)
THEOREM Invariant == Spec => []IInv
BY InitInv, NextKeeps, PTL DEF Spec

(* A catalog in use holds every row up to the revision that its replica    *)
(* has observed, and no request gets a row older than the one committed    *)
(* when it began (gateway.go, tools, observeCatalogRevision).              *)
THEOREM CatalogSound == Spec => []CatalogCurrent
<1>1. IInv => CatalogCurrent
  <2> SUFFICES ASSUME IInv PROVE CatalogCurrent
    OBVIOUS
  <2>1. TypeOK
    BY DEF IInv
  <2>2. FreshRows
    BY Typed DEF FreshRows, RequestOK
  <2>3. ASSUME NEW r \in Replicas, NEW t \in Tools,
               memory[r].fresh, row[t] <= memory[r].revision
        PROVE  memory[r].catalog[t].row = row[t]
    BY <2>3, Typed DEF MemoryOK, UpTo
  <2> QED
    BY <2>1, <2>2, <2>3 DEF CatalogCurrent
<1> QED
  BY <1>1, Invariant, PTL

(* The definitions offered with a row were listed with the configuration   *)
(* of that row, whichever replica cached them (metadata_cache.go).         *)
THEOREM DefinitionsSound == Spec => []DefinitionsMatchRow
<1>1. IInv => DefinitionsMatchRow
  BY Typed DEF DefinitionsMatchRow, RequestOK, Matched
<1> QED
  BY <1>1, Invariant, PTL

(* A request that begins on a replica after it answered an edit of a       *)
(* tool's metadata sees that edit, whatever flight it joins and whenever   *)
(* the invalidation reaches the other replicas (marketplace.go,            *)
(* saveMetadata; gateway.go, Invalidate).                                  *)
THEOREM EditsSound == Spec => []OwnEditsSeen
<1>1. IInv => OwnEditsSeen
  BY Typed DEF OwnEditsSeen, RequestOK
<1> QED
  BY <1>1, Invariant, PTL

-----------------------------------------------------------------------------
\* The settings form


SettingNames == Fields \cup {"secret"}
SettingsRow == [revision : Nat, values : [Fields -> Int], secret : Nat]
DraftType == [open : BOOLEAN, revision : Nat, values : [Fields -> Int],
              touched : SUBSET SettingNames]
SaveCallType == [pc : {"idle", "sent", "saved", "refused"}, body : SettingsRow,
                 touched : SUBSET SettingNames, row : SettingsRow]
SettingsTypes ==
  /\ settings \in SettingsRow
  /\ item \in [Tabs -> SettingsRow \cup {Nothing}]
  /\ reading \in [Tabs -> SettingsRow \cup {Nothing}]
  /\ draft \in [Tabs -> DraftType]
  /\ saveCall \in [Tabs -> SaveCallType]

(* A copy of the row; a form or a body, in which some fields were changed. *)
SettingsCopy(copied) ==
  /\ copied.revision <= settings.revision
  /\ copied.revision = settings.revision => copied = settings
Redone(copy, touched) ==
  /\ copy.revision <= settings.revision
  /\ copy.revision = settings.revision =>
       \A f \in Fields \ touched : copy.values[f] = settings.values[f]

SettingsCopies ==
  \A t \in Tabs : /\ item[t] # Nothing => SettingsCopy(item[t])
                  /\ reading[t] # Nothing => SettingsCopy(reading[t])
                  /\ saveCall[t].pc = "saved" => SettingsCopy(saveCall[t].row)
SettingsDrafts == \A t \in Tabs : draft[t].open =>
  /\ item[t] \in SettingsRow /\ draft[t].revision = item[t].revision
  /\ Redone(draft[t], draft[t].touched)
SettingsBodies == \A t \in Tabs : saveCall[t].pc = "sent" =>
  Redone(saveCall[t].body, saveCall[t].touched)

SettingsInv == SettingsTypes /\ SettingsCopies /\ SettingsDrafts /\ SettingsBodies

-----------------------------------------------------------------------------
LEMMA SettingsBlank ==
  /\ Settings!First \in SettingsRow /\ Settings!NoDraft \in DraftType
  /\ Settings!NoCall \in SaveCallType
BY DEF Settings!First, Settings!NoDraft, Settings!NoCall, SettingsRow, DraftType,
       SaveCallType, SettingNames

LEMMA SettingsInit == Settings!Init => SettingsInv
<1> SUFFICES ASSUME Settings!Init PROVE SettingsInv  OBVIOUS
<1>1. SettingsTypes  BY SettingsBlank DEF Settings!Init, SettingsTypes
<1>2. SettingsCopies  BY DEF Settings!Init, SettingsCopies, Settings!NoCall
<1>3. SettingsDrafts  BY DEF Settings!Init, SettingsDrafts, Settings!NoDraft
<1>4. SettingsBodies  BY DEF Settings!Init, SettingsBodies, Settings!NoCall
<1> QED  BY <1>1, <1>2, <1>3, <1>4 DEF SettingsInv

(* Showing a copy of the row keeps the form in agreement with it.          *)
LEMMA SettingsShow ==
  ASSUME SettingsInv, NEW t \in Tabs, NEW copied \in SettingsRow, SettingsCopy(copied),
         Settings!Show(t, copied), settings' = settings
  PROVE  /\ item' \in [Tabs -> SettingsRow \cup {Nothing}] /\ draft' \in [Tabs -> DraftType]
         /\ \A u \in Tabs : item'[u] # Nothing => SettingsCopy(item'[u])
         /\ SettingsDrafts'
<1>1. /\ item' \in [Tabs -> SettingsRow \cup {Nothing}]
      /\ \A u \in Tabs : item'[u] = IF u = t THEN copied ELSE item[u]
  BY DEF SettingsInv, SettingsTypes, Settings!Show
<1>2. Settings!Mounted(t, copied) \in DraftType
  BY DEF SettingsInv, SettingsTypes, Settings!Mounted, DraftType, SettingsRow,
         SettingNames
<1>3. /\ draft' \in [Tabs -> DraftType]
      /\ \A u \in Tabs : draft'[u] = IF u = t THEN Settings!Mounted(t, copied) ELSE draft[u]
  BY <1>2 DEF SettingsInv, SettingsTypes, Settings!Show
<1>4. \A u \in Tabs : item'[u] # Nothing => SettingsCopy(item'[u])
  BY <1>1 DEF SettingsInv, SettingsCopies
<1>5. ASSUME NEW u \in Tabs, draft'[u].open
      PROVE  /\ item'[u] \in SettingsRow /\ draft'[u].revision = item'[u].revision
             /\ Redone(draft'[u], draft'[u].touched)
  <2>1. CASE u # t  BY <1>1, <1>3, <1>5, <2>1 DEF SettingsInv, SettingsDrafts
  <2>2. CASE u = t /\ draft[t].open /\ draft[t].revision # copied.revision
    BY <1>1, <1>3, <2>2 DEF Settings!Mounted, SettingsCopy, Redone
  <2>3. CASE u = t /\ ~(draft[t].open /\ draft[t].revision # copied.revision)
    BY <1>1, <1>3, <1>5, <2>3 DEF Settings!Mounted, SettingsInv, SettingsDrafts
  <2> QED  BY <2>1, <2>2, <2>3
<1>6. SettingsDrafts'
  BY <1>5 DEF SettingsDrafts, Redone
<1> QED  BY <1>1, <1>3, <1>4, <1>6

-----------------------------------------------------------------------------
(* The steps of one tab that leave the row alone.                          *)
LEMMA SettingsRead ==
  ASSUME SettingsInv, NEW t \in Tabs, Settings!Read(t)
  PROVE  SettingsInv'
<1>1. SettingsTypes'  BY DEF SettingsInv, SettingsTypes, Settings!Read
<1>2. SettingsCopies'
  <2> SUFFICES ASSUME NEW u \in Tabs, reading'[u] # Nothing PROVE SettingsCopy(reading'[u])
    BY DEF SettingsInv, SettingsCopies, SettingsCopy, Settings!Read
  <2>1. settings.revision \in Nat  BY DEF SettingsInv, SettingsTypes, SettingsRow
  <2>2. SettingsCopy(settings)  BY <2>1 DEF SettingsCopy
  <2>3. reading'[u] = settings \/ reading'[u] = reading[u]
    BY DEF SettingsInv, SettingsTypes, Settings!Read
  <2> QED  BY <2>2, <2>3 DEF SettingsInv, SettingsCopies
<1>3. SettingsDrafts' /\ SettingsBodies'
  BY DEF SettingsInv, SettingsDrafts, SettingsBodies, Redone, Settings!Read
<1> QED  BY <1>1, <1>2, <1>3 DEF SettingsInv

LEMMA SettingsStore ==
  ASSUME SettingsInv, NEW t \in Tabs, Settings!Store(t)
  PROVE  SettingsInv'
<1>1. reading[t] \in SettingsRow /\ reading[t] # Nothing /\ SettingsCopy(reading[t])
  BY DEF SettingsInv, SettingsTypes, SettingsCopies, Settings!Store
<1>2. /\ item' \in [Tabs -> SettingsRow \cup {Nothing}] /\ draft' \in [Tabs -> DraftType]
      /\ \A u \in Tabs : item'[u] # Nothing => SettingsCopy(item'[u])
      /\ SettingsDrafts'
  BY <1>1, SettingsShow DEF Settings!Store
<1>3. SettingsTypes'  BY <1>2 DEF SettingsInv, SettingsTypes, Settings!Store
<1>4. \A u \in Tabs : reading'[u] = Nothing \/ reading'[u] = reading[u]
  BY DEF SettingsInv, SettingsTypes, Settings!Store
<1>5. SettingsCopies' /\ SettingsBodies'
  BY <1>2, <1>4
     DEF SettingsInv, SettingsCopies, SettingsBodies, SettingsCopy, Redone,
         Settings!Store
<1> QED  BY <1>2, <1>3, <1>5 DEF SettingsInv

LEMMA SettingsOpen ==
  ASSUME SettingsInv, NEW t \in Tabs, Settings!OpenSettings(t)
  PROVE  SettingsInv'
<1> DEFINE filledForm == [open |-> TRUE, revision |-> item[t].revision,
                          values |-> item[t].values, touched |-> {}]
<1>1. item[t] \in SettingsRow /\ SettingsCopy(item[t])
  BY DEF SettingsInv, SettingsTypes, SettingsCopies, Settings!OpenSettings
<1>2. filledForm \in DraftType /\ Redone(filledForm, filledForm.touched)
  BY <1>1 DEF DraftType, SettingsRow, SettingNames, SettingsCopy, Redone
<1>3. \A u \in Tabs : draft'[u] = IF u = t THEN filledForm ELSE draft[u]
  BY DEF SettingsInv, SettingsTypes, Settings!OpenSettings
<1>4. SettingsTypes'  BY <1>2 DEF SettingsInv, SettingsTypes, Settings!OpenSettings
<1>5. SettingsCopies' /\ SettingsBodies'
  BY DEF SettingsInv, SettingsCopies, SettingsBodies, SettingsCopy, Redone,
         Settings!OpenSettings
<1>6. SettingsDrafts'
  <2> SUFFICES ASSUME NEW u \in Tabs, draft'[u].open
               PROVE  /\ item[u] \in SettingsRow /\ draft'[u].revision = item[u].revision
                      /\ Redone(draft'[u], draft'[u].touched)
    BY DEF SettingsDrafts, Redone, Settings!OpenSettings
  <2> HIDE DEF filledForm
  <2>1. CASE u = t
    <3>1. draft'[u].revision = item[t].revision  BY <1>3, <2>1 DEF filledForm
    <3>2. Redone(draft'[u], draft'[u].touched)  BY <1>2, <1>3, <2>1
    <3> QED  BY <1>1, <2>1, <3>1, <3>2
  <2>2. CASE u # t  BY <1>3, <2>2 DEF SettingsInv, SettingsDrafts
  <2> QED  BY <2>1, <2>2
<1> QED  BY <1>4, <1>5, <1>6 DEF SettingsInv

LEMMA SettingsClose ==
  ASSUME SettingsInv, NEW t \in Tabs, Settings!CloseSettings(t)
  PROVE  SettingsInv'
<1>1. \A u \in Tabs : draft'[u] = IF u = t THEN Settings!NoDraft ELSE draft[u]
  BY DEF SettingsInv, SettingsTypes, Settings!CloseSettings
<1>2. SettingsTypes'
  BY SettingsBlank DEF SettingsInv, SettingsTypes, Settings!CloseSettings
<1>3. SettingsCopies' /\ SettingsBodies'
  BY DEF SettingsInv, SettingsCopies, SettingsBodies, SettingsCopy, Redone,
         Settings!CloseSettings
<1>4. SettingsDrafts'
  BY <1>1
     DEF SettingsInv, SettingsDrafts, Redone, Settings!NoDraft, Settings!CloseSettings
<1> QED  BY <1>2, <1>3, <1>4 DEF SettingsInv

(* A change touches its own field, and the others stay what they were.     *)
LEMMA SettingsChange ==
  ASSUME SettingsInv, NEW t \in Tabs, NEW n \in SettingNames, Settings!Change(t, n)
  PROVE  SettingsInv'
<1> DEFINE values == Settings!Toggled(draft[t].values, n)
           filledForm == [draft[t] EXCEPT !.touched = @ \cup {n}, !.values = values]
<1>1. draft[t] \in DraftType  BY DEF SettingsInv, SettingsTypes
<1>2. values \in [Fields -> Int] /\ \A f \in Fields \ {n} : values[f] = draft[t].values[f]
  BY <1>1 DEF DraftType, Settings!Toggled
<1>3. \A u \in Tabs : draft'[u] = IF u = t THEN filledForm ELSE draft[u]
  BY DEF SettingsInv, SettingsTypes, Settings!Change
<1> HIDE DEF values
<1>4. filledForm \in DraftType  BY <1>1, <1>2 DEF DraftType, SettingNames
<1>5. /\ filledForm.open = draft[t].open /\ filledForm.revision = draft[t].revision
      /\ filledForm.touched = draft[t].touched \cup {n} /\ filledForm.values = values
  BY <1>1 DEF DraftType
<1>6. SettingsTypes'
  <2>1. draft' \in [Tabs -> DraftType]
    BY <1>3, <1>4 DEF SettingsInv, SettingsTypes, Settings!Change
  <2> QED  BY <2>1 DEF SettingsInv, SettingsTypes, Settings!Change
<1>7. SettingsCopies' /\ SettingsBodies'
  BY DEF SettingsInv, SettingsCopies, SettingsBodies, SettingsCopy, Redone,
         Settings!Change
<1> HIDE DEF filledForm
<1>8. SettingsDrafts'
  <2> SUFFICES ASSUME NEW u \in Tabs, draft'[u].open
               PROVE  /\ item[u] \in SettingsRow /\ draft'[u].revision = item[u].revision
                      /\ Redone(draft'[u], draft'[u].touched)
    <3>1. item' = item /\ settings' = settings  BY DEF Settings!Change
    <3> QED  BY <3>1 DEF SettingsDrafts, Redone
  <2>1. CASE u # t  BY <1>3, <2>1 DEF SettingsInv, SettingsDrafts
  <2>2. CASE u = t
    <3>1. draft[t].open /\ draft'[t] = filledForm  BY <1>3, <1>5, <2>2
    <3>2. /\ item[t] \in SettingsRow /\ draft[t].revision = item[t].revision
          /\ Redone(draft[t], draft[t].touched)
      BY <3>1 DEF SettingsInv, SettingsDrafts
    <3>3. Redone(filledForm, filledForm.touched)  BY <1>2, <1>5, <3>2 DEF Redone
    <3> QED  BY <1>5, <2>2, <3>1, <3>2, <3>3
  <2> QED  BY <2>1, <2>2
<1> QED  BY <1>6, <1>7, <1>8 DEF SettingsInv

(* The body takes the form's values and the item's revision: the same.     *)
LEMMA SettingsSubmit ==
  ASSUME SettingsInv, NEW t \in Tabs, Settings!SubmitSettings(t)
  PROVE  SettingsInv'
<1> DEFINE call == [pc |-> "sent", body |-> Settings!Body(t), touched |-> draft[t].touched,
                    row |-> Settings!First]
<1>1. /\ item[t] \in SettingsRow /\ draft[t] \in DraftType
      /\ draft[t].revision = item[t].revision /\ Redone(draft[t], draft[t].touched)
  BY DEF SettingsInv, SettingsTypes, SettingsDrafts, Settings!SubmitSettings
<1>2. Settings!Body(t) \in SettingsRow /\ Redone(Settings!Body(t), draft[t].touched)
  BY <1>1 DEF Settings!Body, Settings!Revision, SettingsRow, DraftType, Redone
<1>3. call \in SaveCallType  BY <1>1, <1>2, SettingsBlank DEF SaveCallType, DraftType
<1>4. \A u \in Tabs : saveCall'[u] = IF u = t THEN call ELSE saveCall[u]
  BY DEF SettingsInv, SettingsTypes, Settings!SubmitSettings
<1>5. SettingsTypes'
  <2> HIDE DEF call
  <2>1. saveCall' \in [Tabs -> SaveCallType]
    BY <1>3, <1>4 DEF SettingsInv, SettingsTypes, Settings!SubmitSettings
  <2> QED  BY <2>1 DEF SettingsInv, SettingsTypes, Settings!SubmitSettings
<1>6. SettingsCopies' /\ SettingsDrafts'
  BY <1>4
     DEF SettingsInv, SettingsCopies, SettingsDrafts, SettingsCopy, Redone,
         Settings!SubmitSettings
<1>7. SettingsBodies'
  <2> SUFFICES ASSUME NEW u \in Tabs, saveCall'[u].pc = "sent"
               PROVE  Redone(saveCall'[u].body, saveCall'[u].touched)
    BY DEF SettingsBodies, Redone, Settings!SubmitSettings
  <2>1. CASE u = t  BY <1>2, <1>4, <2>1
  <2>2. CASE u # t  BY <1>4, <2>2 DEF SettingsInv, SettingsBodies
  <2> QED  BY <2>1, <2>2
<1> QED  BY <1>5, <1>6, <1>7 DEF SettingsInv

-----------------------------------------------------------------------------
(* The save: the next revision outdates every copy, form and body; only    *)
(* the caller's own answer is a copy of the new row.                       *)
LEMMA SettingsServe ==
  ASSUME SettingsInv, NEW t \in Tabs, Settings!ServeSettings(t)
  PROVE  SettingsInv'
<1> DEFINE call == saveCall[t]  new == Settings!Written(call.body, call.touched)
<1>1. call \in SaveCallType /\ settings \in SettingsRow  BY DEF SettingsInv, SettingsTypes
<1>2. CASE settings' = new /\ saveCall' = [saveCall EXCEPT ![t].pc = "saved", ![t].row = settings']
  <2>1. new \in SettingsRow /\ new.revision = settings.revision + 1
    BY <1>1 DEF Settings!Written, SaveCallType, SettingsRow
  <2>2. \A u \in Tabs : saveCall'[u] = IF u = t THEN [call EXCEPT !.pc = "saved", !.row = new]
                                       ELSE saveCall[u]
    BY <1>2 DEF SettingsInv, SettingsTypes
  <2> HIDE DEF new
  <2>3. [call EXCEPT !.pc = "saved", !.row = new] \in SaveCallType
    BY <1>1, <2>1 DEF SaveCallType
  <2>4. SettingsTypes'
    <3>1. saveCall' \in [Tabs -> SaveCallType]
      BY <1>2, <2>2, <2>3 DEF SettingsInv, SettingsTypes
    <3> QED  BY <1>2, <2>1, <3>1 DEF SettingsInv, SettingsTypes, Settings!ServeSettings
  <2>5. ASSUME NEW copied \in SettingsRow, SettingsCopy(copied)
        PROVE  copied.revision < settings'.revision
    BY <1>1, <1>2, <2>1, <2>5 DEF SettingsCopy, SettingsRow
  <2>6. ASSUME NEW copied \in SettingsRow, SettingsCopy(copied) PROVE SettingsCopy(copied)'
    BY <1>1, <1>2, <2>1, <2>5, <2>6 DEF SettingsCopy, SettingsRow
  <2>7. SettingsCopies'
    <3> SUFFICES ASSUME NEW u \in Tabs
                 PROVE  /\ item[u] # Nothing => SettingsCopy(item[u])'
                        /\ reading[u] # Nothing => SettingsCopy(reading[u])'
                        /\ saveCall'[u].pc = "saved" => SettingsCopy(saveCall[u].row)'
      BY DEF SettingsCopies, Settings!ServeSettings
    <3>1. /\ item[u] # Nothing => SettingsCopy(item[u])'
          /\ (reading[u] # Nothing => SettingsCopy(reading[u])')
      BY <1>1, <1>2, <2>1
         DEF SettingsInv, SettingsTypes, SettingsCopies, SettingsCopy, SettingsRow,
             Settings!ServeSettings
    <3>2. saveCall'[u].pc = "saved" => SettingsCopy(saveCall[u].row)'
      <4>1. CASE u = t
        <5>1. saveCall'[u].row = new  BY <1>1, <2>2, <4>1 DEF SaveCallType
        <5>2. new = settings' /\ new.revision \in Nat  BY <1>2, <2>1 DEF SettingsRow
        <5> QED  BY <5>1, <5>2 DEF SettingsCopy
      <4>2. CASE u # t
        <5>1. saveCall'[u] = saveCall[u] /\ saveCall[u] \in SaveCallType
          BY <2>2, <4>2 DEF SettingsInv, SettingsTypes
        <5> QED
          BY <1>1, <1>2, <2>1, <5>1
             DEF SettingsInv, SettingsCopies, SettingsCopy, SettingsRow, SaveCallType
      <4> QED  BY <4>1, <4>2
    <3> QED  BY <3>1, <3>2
  <2>8. SettingsDrafts'
    <3> SUFFICES ASSUME NEW u \in Tabs, draft[u].open
                 PROVE  /\ item[u] \in SettingsRow /\ draft[u].revision = item[u].revision
                        /\ Redone(draft[u], draft[u].touched)'
      BY DEF SettingsDrafts, Redone, Settings!ServeSettings
    <3>1. /\ item[u] \in SettingsRow /\ draft[u].revision = item[u].revision
          /\ draft[u] \in DraftType /\ draft[u].revision <= settings.revision
      BY DEF SettingsInv, SettingsTypes, SettingsDrafts, Redone
    <3> QED
      BY <1>1, <1>2, <2>1, <3>1 DEF Redone, SettingsRow, DraftType, Settings!ServeSettings
  <2>9. SettingsBodies'
    <3> SUFFICES ASSUME NEW u \in Tabs, saveCall'[u].pc = "sent"
                 PROVE  Redone(saveCall[u].body, saveCall[u].touched)'
      BY DEF SettingsBodies
    <3>1. u # t /\ saveCall'[u] = saveCall[u]  BY <1>1, <2>2 DEF SaveCallType
    <3>2. saveCall[u].body \in SettingsRow /\ saveCall[u].body.revision <= settings.revision
      BY <3>1 DEF SettingsInv, SettingsTypes, SettingsBodies, Redone, SaveCallType
    <3> QED  BY <1>1, <1>2, <2>1, <3>1, <3>2 DEF Redone, SettingsRow
  <2> QED  BY <2>4, <2>7, <2>8, <2>9 DEF SettingsInv
<1>3. CASE settings' = settings /\ saveCall' = [saveCall EXCEPT ![t].pc = "refused"]
  <2>1. \A u \in Tabs : saveCall'[u] = IF u = t THEN [call EXCEPT !.pc = "refused"]
                                       ELSE saveCall[u]
    BY <1>3 DEF SettingsInv, SettingsTypes
  <2>2. [call EXCEPT !.pc = "refused"] \in SaveCallType  BY <1>1 DEF SaveCallType
  <2>3. saveCall' \in [Tabs -> SaveCallType]
    BY <1>3, <2>1, <2>2 DEF SettingsInv, SettingsTypes
  <2>4. SettingsTypes'
    BY <1>3, <2>3 DEF SettingsInv, SettingsTypes, Settings!ServeSettings
  <2>5. \A u \in Tabs : saveCall'[u] = saveCall[u] \/ saveCall'[u].pc = "refused"
    BY <1>1, <2>1 DEF SaveCallType
  <2>6. SettingsCopies' /\ SettingsDrafts' /\ SettingsBodies'
    BY <1>3, <2>5
       DEF SettingsInv, SettingsCopies, SettingsDrafts, SettingsBodies, SettingsCopy,
           Redone, Settings!ServeSettings
  <2> QED  BY <2>4, <2>6 DEF SettingsInv
<1> QED  BY <1>2, <1>3 DEF Settings!ServeSettings

LEMMA SettingsSaved ==
  ASSUME SettingsInv, NEW t \in Tabs, Settings!SettingsSaved(t)
  PROVE  SettingsInv'
<1>1. saveCall[t].row \in SettingsRow /\ SettingsCopy(saveCall[t].row)
  BY DEF SettingsInv, SettingsTypes, SettingsCopies, SaveCallType, Settings!SettingsSaved
<1>2. /\ item' \in [Tabs -> SettingsRow \cup {Nothing}] /\ draft' \in [Tabs -> DraftType]
      /\ \A u \in Tabs : item'[u] # Nothing => SettingsCopy(item'[u])
      /\ SettingsDrafts'
  BY <1>1, SettingsShow DEF Settings!SettingsSaved
<1>3. \A u \in Tabs : saveCall'[u] = IF u = t THEN Settings!NoCall ELSE saveCall[u]
  BY DEF SettingsInv, SettingsTypes, Settings!SettingsSaved
<1>4. SettingsTypes'
  BY <1>2, SettingsBlank DEF SettingsInv, SettingsTypes, Settings!SettingsSaved
<1>5. SettingsCopies' /\ SettingsBodies'
  BY <1>2, <1>3
     DEF SettingsInv, SettingsCopies, SettingsBodies, SettingsCopy, Redone,
         Settings!NoCall, Settings!SettingsSaved
<1> QED  BY <1>2, <1>4, <1>5 DEF SettingsInv

LEMMA SettingsFail ==
  ASSUME SettingsInv, NEW t \in Tabs, Settings!SettingsFail(t)
  PROVE  SettingsInv'
<1>1. \A u \in Tabs : saveCall'[u] = IF u = t THEN Settings!NoCall ELSE saveCall[u]
  BY DEF SettingsInv, SettingsTypes, Settings!SettingsFail
<1>2. SettingsTypes'
  BY SettingsBlank DEF SettingsInv, SettingsTypes, Settings!SettingsFail
<1>3. SettingsCopies' /\ SettingsDrafts' /\ SettingsBodies'
  BY <1>1
     DEF SettingsInv, SettingsCopies, SettingsDrafts, SettingsBodies, SettingsCopy,
         Redone, Settings!NoCall, Settings!SettingsFail
<1> QED  BY <1>2, <1>3 DEF SettingsInv

LEMMA SettingsNext == SettingsInv /\ [Settings!Next]_(Settings!settingsVars) => SettingsInv'
<1> SUFFICES ASSUME SettingsInv, [Settings!Next]_(Settings!settingsVars)
             PROVE  SettingsInv'
  OBVIOUS
<1>1. CASE UNCHANGED Settings!settingsVars
  BY <1>1
     DEF SettingsInv, SettingsTypes, SettingsCopies, SettingsDrafts, SettingsBodies,
         SettingsCopy, Redone, Settings!settingsVars
<1>2. CASE Settings!Next
  <2>1. PICK t \in Tabs :
          \/ Settings!Read(t) \/ Settings!Store(t)
          \/ Settings!OpenSettings(t) \/ Settings!CloseSettings(t)
          \/ \E n \in SettingNames : Settings!Change(t, n)
          \/ Settings!SubmitSettings(t) \/ Settings!ServeSettings(t)
          \/ Settings!SettingsSaved(t) \/ Settings!SettingsFail(t)
    BY <1>2 DEF Settings!Next, SettingNames
  <2>2. CASE Settings!Read(t)  BY <2>2, SettingsRead
  <2>3. CASE Settings!Store(t)  BY <2>3, SettingsStore
  <2>4. CASE Settings!OpenSettings(t)  BY <2>4, SettingsOpen
  <2>5. CASE Settings!CloseSettings(t)  BY <2>5, SettingsClose
  <2>6. CASE \E n \in SettingNames : Settings!Change(t, n)  BY <2>6, SettingsChange
  <2>7. CASE Settings!SubmitSettings(t)  BY <2>7, SettingsSubmit
  <2>8. CASE Settings!ServeSettings(t)  BY <2>8, SettingsServe
  <2>9. CASE Settings!SettingsSaved(t)  BY <2>9, SettingsSaved
  <2>10. CASE Settings!SettingsFail(t)  BY <2>10, SettingsFail
  <2> QED  BY <2>1, <2>2, <2>3, <2>4, <2>5, <2>6, <2>7, <2>8, <2>9, <2>10
<1> QED  BY <1>1, <1>2

(* The settings of a behaviour of the windows go by their own module: the  *)
(* steps of the other surfaces leave them alone.                           *)
LEMMA SettingsAlone == FrontsSpec => Settings!Spec
<1>1. FrontsInit => Settings!Init
  BY DEF FrontsInit
<1>2. [FrontsNext]_frontVars => [Settings!Next]_(Settings!settingsVars)
  BY DEF FrontsNext, frontVars, OnSession, OnPaged, OnSkill, OnTool, OnCredit, OnSecret,
         OnSettings, OnDesk, OnUpdate, OnDev, ofSettings, Settings!settingsVars
<1> QED
  BY <1>1, <1>2, PTL DEF FrontsSpec, Settings!Spec

(* A copy of the row that bears its revision is the row, and a form or a   *)
(* body that bears it differs in the fields its reader changed only.       *)
THEOREM RevisionNamesRow == FrontsSpec => []SettingsInv
BY SettingsAlone, SettingsInit, SettingsNext, PTL DEF Settings!Spec

(* No save writes over a setting that its administrator did not change:    *)
(* saveSettings compares the revision of the body with that of the row.    *)
THEOREM UpdatesKept == FrontsSpec => NoLostUpdate
<1>1. ASSUME SettingsInv, NEW t \in Tabs, Settings!ServeSettings(t)
      PROVE  /\ \A f \in Fields : settings'.values[f] # settings.values[f] =>
                    f \in saveCall[t].touched
             /\ settings'.secret # settings.secret => "secret" \in saveCall[t].touched
  <2> DEFINE call == saveCall[t]
  <2>1. CASE /\ Settings!Current(call.body)
             /\ settings' = Settings!Written(call.body, call.touched)
    <3>1. Redone(call.body, call.touched)
      BY <1>1 DEF SettingsInv, SettingsBodies, Settings!ServeSettings
    <3>2. \A f \in Fields \ call.touched : call.body.values[f] = settings.values[f]
      BY <2>1, <3>1 DEF Settings!Current, Redone
    <3> QED  BY <2>1, <3>2 DEF Settings!Written
  <2>2. CASE settings' = settings  BY <2>2
  <2> QED  BY <1>1, <2>1, <2>2 DEF Settings!ServeSettings
<1>2. SettingsInv /\ [Settings!Next]_(Settings!settingsVars) =>
        [\A t \in Tabs : Settings!ServeSettings(t) =>
           /\ \A f \in Fields : settings'.values[f] # settings.values[f] =>
                f \in saveCall[t].touched
           /\ settings'.secret # settings.secret => "secret" \in saveCall[t].touched]_(Settings!settingsVars)
  BY <1>1
<1> QED
  BY RevisionNamesRow, SettingsAlone, <1>2, PTL
     DEF Settings!Spec, NoLostUpdate, Settings!NoLostUpdate

-----------------------------------------------------------------------------
\* The workspace of a skill

(* The steps of the other surfaces leave the skill alone.                  *)
LEMMA SkillAlone == FrontsSpec => Skill!Spec
<1>1. FrontsInit => Skill!Init
  BY DEF FrontsInit
<1>2. [FrontsNext]_frontVars => [Skill!Next]_(Skill!skillVars)
  BY DEF FrontsNext, frontVars, OnSession, OnPaged, OnSkill, OnTool, OnCredit, OnSecret,
         OnSettings, OnDesk, OnUpdate, OnDev, ofSkill, Skill!skillVars, Skill!workspace,
         Skill!around, Skill!published
<1> QED
  BY <1>1, <1>2, PTL DEF FrontsSpec, Skill!Spec

(* What is released of a kind is no newer than its row, the row is what its*)
(* version was released with, and no version was released with another     *)
(* content; of the skill as long as nobody has named an old version.       *)
UpToDate(R, kind, version, content) ==
  \A r \in R : r[1] = kind => r[2] \in Nat /\ r[2] <= version /\ (r[2] = version => r[3] = content)
OneContent(R, kind) ==
  \A r, s \in R : r[1] = kind /\ s[1] = kind /\ r[2] = s[2] => r[3] = s[3]
Released(R, kind, version, content) ==
  UpToDate(R, kind, version, content) /\ OneContent(R, kind)
SkillReleased ==
  Released(released, "skill", skill.version, Skill!Content(skill.origin, skill.files))
PackReleased == Released(released, "pack", pack.version, <<pack.name, skill.files>>)
VersionInv ==
  /\ DOMAIN skill = {"version", "origin", "legacy", "files"} /\ skill.version \in Nat
  /\ pack \in [version : Nat, name : 0..1] /\ lowered \in BOOLEAN
  /\ \A r \in released : r[1] \in {"skill", "pack"}
  /\ PackReleased
  /\ ~lowered => SkillReleased

LEMMA VersionInit == Skill!Init => VersionInv
<1> SUFFICES ASSUME Skill!Init PROVE VersionInv
  OBVIOUS
<1>1. /\ DOMAIN skill = {"version", "origin", "legacy", "files"}
      /\ skill.version = 1 /\ skill.origin = "github" /\ skill.files = Skill!Original
  BY DEF Skill!Init
<1>2. pack = [version |-> 1, name |-> 0] /\ lowered = FALSE
  BY DEF Skill!Init
<1>3. released = {<<"skill", 1, Skill!Content("github", Skill!Original)>>,
                  <<"pack", 1, <<0, Skill!Original>>>>}
  BY DEF Skill!Init
<1>4. PICK c, d : c = Skill!Content("github", Skill!Original) /\ d = <<0, Skill!Original>>
  OBVIOUS
<1>5. SkillReleased
  BY <1>1, <1>3, <1>4 DEF SkillReleased, Released, UpToDate, OneContent
<1>6. PackReleased
  <2>1. <<pack.name, skill.files>> = d /\ pack.version = 1
    BY <1>1, <1>2, <1>4
  <2> QED
    BY <1>3, <1>4, <2>1 DEF PackReleased, Released, UpToDate, OneContent
<1>7. \A r \in released : r[1] \in {"skill", "pack"}
  BY <1>3
<1>8. skill.version \in Nat /\ pack \in [version : Nat, name : 0..1]
  <2>1. 1 \in Nat /\ 0 \in 0..1
    OBVIOUS
  <2> QED
    BY <1>1, <1>2, <2>1
<1>9. lowered \in BOOLEAN
  BY <1>2, Zenon
<1> QED
  BY <1>1, <1>5, <1>6, <1>7, <1>8, <1>9 DEF VersionInv

(* A release under the version of the row, of what it was, or of something *)
(* under a later one.                                                      *)
LEMMA NewRelease ==
  ASSUME NEW R, NEW kind, NEW v \in Nat, NEW c, NEW w \in Nat, NEW d,
         Released(R, kind, v, c), (w = v /\ d = c) \/ w > v
  PROVE  Released(R \cup {<<kind, w, d>>}, kind, w, d)
<1>1. /\ <<kind, w, d>>[1] = kind /\ <<kind, w, d>>[2] = w /\ <<kind, w, d>>[3] = d
  OBVIOUS
<1>2. \A r \in R : r[1] = kind => r[2] \in Nat /\ r[2] <= w /\ (r[2] = w => r[3] = d)
  BY DEF Released, UpToDate
<1>3. UpToDate(R \cup {<<kind, w, d>>}, kind, w, d)
  BY <1>1, <1>2 DEF UpToDate
<1>4. OneContent(R \cup {<<kind, w, d>>}, kind)
  BY <1>1, <1>2 DEF Released, OneContent
<1> QED
  BY <1>3, <1>4 DEF Released

(* What is released of one kind says nothing of the other.                 *)
LEMMA OtherRelease ==
  ASSUME NEW R, NEW kind, NEW v, NEW c, NEW other, other # kind, NEW w, NEW d,
         Released(R, kind, v, c)
  PROVE  Released(R \cup {<<other, w, d>>}, kind, v, c)
<1>1. <<other, w, d>>[1] = other
  OBVIOUS
<1> QED
  BY <1>1 DEF Released, UpToDate, OneContent

LEMMA PublishReleases ==
  ASSUME VersionInv, NEW origin, NEW files, NEW named \in Nat,
         Skill!Publish(origin, files, named)
  PROVE  VersionInv'
<1> DEFINE same == Skill!Same(origin, files)
<1>1. /\ skill'.version = (IF same THEN skill.version
                           ELSE IF named # 0 THEN named ELSE skill.version + 1)
      /\ skill'.origin = origin /\ skill'.files = files
      /\ lowered' = (lowered \/ (named # 0 /\ ~same /\ named <= skill.version))
      /\ DOMAIN skill' = {"version", "origin", "legacy", "files"}
  BY DEF Skill!Publish, Skill!Release, Skill!Unnamed
<1>2. same => origin = skill.origin /\ files = skill.files
  BY DEF Skill!Same, VersionInv
<1>3. /\ pack'.version = (IF same THEN pack.version ELSE pack.version + 1)
      /\ pack' \in [version : Nat, name : 0..1] /\ pack'.name = pack.name
  BY DEF Skill!Publish, VersionInv
<1> HIDE DEF same
<1>4. PICK c, d, v, w : /\ c = Skill!Content(skill.origin, skill.files)
                        /\ d = Skill!Content(origin, files)
                        /\ v = skill.version /\ w = skill'.version
  OBVIOUS
<1>5. PICK a, b, m, n : /\ a = <<pack.name, skill.files>> /\ b = <<pack'.name, files>>
                        /\ m = pack.version /\ n = pack'.version
  OBVIOUS
<1>6. released' = released \cup {<<"skill", w, d>>, <<"pack", n, b>>}
  BY <1>4, <1>5 DEF Skill!Publish, Skill!Released
<1>7. v \in Nat /\ w \in Nat /\ m \in Nat /\ n \in Nat
  BY <1>1, <1>3, <1>4, <1>5 DEF VersionInv
<1>8. (n = m /\ b = a) \/ n > m
  BY <1>2, <1>3, <1>5, <1>7
<1>9. ~lowered' => ~lowered /\ ((w = v /\ d = c) \/ w > v)
  <2>1. (w = v /\ d = c) \/ w > v \/ (named # 0 /\ ~same /\ named <= skill.version)
    <3>1. CASE same
      BY <1>1, <1>2, <1>4, <3>1
    <3>2. CASE ~same
      BY <1>1, <1>4, <1>7, <3>2
    <3> QED
      BY <3>1, <3>2
  <2>2. lowered' = (lowered \/ (named # 0 /\ ~same /\ named <= skill.version))
    BY <1>1
  <2> QED
    BY <2>1, <2>2, Zenon
<1>10. Released(released \cup {<<"skill", w, d>>}, "pack", m, a)
  BY <1>5, OtherRelease DEF VersionInv, PackReleased
<1>11. Released((released \cup {<<"skill", w, d>>}) \cup {<<"pack", n, b>>}, "pack", n, b)
  BY <1>7, <1>8, <1>10, NewRelease
<1>12. ASSUME ~lowered'
       PROVE  Released((released \cup {<<"skill", w, d>>}) \cup {<<"pack", n, b>>}, "skill", w, d)
  <2>1. Released(released, "skill", v, c)
    BY <1>4, <1>9, <1>12 DEF VersionInv, SkillReleased
  <2>2. Released(released \cup {<<"skill", w, d>>}, "skill", w, d)
    BY <1>7, <1>9, <1>12, <2>1, NewRelease
  <2> QED
    BY <2>2, OtherRelease
<1>13. released' = (released \cup {<<"skill", w, d>>}) \cup {<<"pack", n, b>>}
  BY <1>6
<1>14. PackReleased' /\ (~lowered' => SkillReleased')
  BY <1>1, <1>4, <1>5, <1>11, <1>12, <1>13 DEF PackReleased, SkillReleased
<1>15. \A r \in released' : r[1] \in {"skill", "pack"}
  BY <1>6 DEF VersionInv
<1>16. lowered' \in BOOLEAN
  BY <1>1
<1> QED
  BY <1>1, <1>3, <1>4, <1>7, <1>14, <1>15, <1>16 DEF VersionInv

LEMMA BundleReleases ==
  ASSUME VersionInv, Skill!SaveBundle
  PROVE  VersionInv'
<1>1. PICK name \in {pack.name, 1} :
        pack' = [version |-> IF name = pack.name THEN pack.version ELSE pack.version + 1,
                 name |-> name]
  BY DEF Skill!SaveBundle
<1>2. /\ pack' \in [version : Nat, name : 0..1] /\ pack.version \in Nat
      /\ \/ pack'.version = pack.version /\ pack'.name = pack.name
         \/ pack'.version > pack.version
  BY <1>1 DEF VersionInv
<1>3. PICK a, b, m, n : /\ a = <<pack.name, skill.files>> /\ b = <<pack'.name, skill.files>>
                        /\ m = pack.version /\ n = pack'.version
  OBVIOUS
<1>4. /\ UNCHANGED <<skill, lowered>> /\ released' = released \cup {<<"pack", n, b>>}
  BY <1>3 DEF Skill!SaveBundle
<1>5. m \in Nat /\ n \in Nat /\ ((n = m /\ b = a) \/ n > m)
  BY <1>2, <1>3
<1>6. Released(released, "pack", m, a)
  BY <1>3 DEF VersionInv, PackReleased
<1>7. PackReleased'
  BY <1>3, <1>4, <1>5, <1>6, NewRelease DEF PackReleased
<1>8. SkillReleased => SkillReleased'
  BY <1>4, OtherRelease DEF SkillReleased
<1>9. \A r \in released' : r[1] \in {"skill", "pack"}
  BY <1>4 DEF VersionInv
<1> QED
  BY <1>2, <1>4, <1>7, <1>8, <1>9 DEF VersionInv

LEMMA VersionNext ==
  VersionInv /\ [Skill!Next]_(Skill!skillVars) => VersionInv'
<1> SUFFICES ASSUME VersionInv, [Skill!Next]_(Skill!skillVars) PROVE VersionInv'
  OBVIOUS
<1>1. CASE UNCHANGED <<skill, pack, released, lowered>>
  BY <1>1 DEF VersionInv, SkillReleased, PackReleased
<1>2. CASE Skill!SaveBundle
  BY <1>2, BundleReleases
<1>3. CASE \E origin, files : \E named \in Nat : Skill!Publish(origin, files, named)
  BY <1>3, PublishReleases
<1>4. \/ UNCHANGED <<skill, pack, released, lowered>> \/ Skill!SaveBundle
      \/ \E origin, files : \E named \in Nat : Skill!Publish(origin, files, named)
  <2>1. CASE UNCHANGED Skill!skillVars
    BY <2>1 DEF Skill!skillVars, Skill!around, Skill!published
  <2>2. CASE Skill!OtherAdmin
    BY <2>2, FrontsAssumption DEF Skill!OtherAdmin, Skill!Unnamed
  <2>3. CASE Skill!SyncSkill
    BY <2>3 DEF Skill!SyncSkill, Skill!published, Skill!Unnamed
  <2>4. CASE Skill!ServeSave
    BY <2>4 DEF Skill!ServeSave, Skill!Unnamed
  <2>5. CASE Skill!Relist \/ Skill!OpenEditor \/ Skill!CloseEditor \/ Skill!StartSync
             \/ Skill!FetchFiles
    BY <2>5 DEF Skill!Relist, Skill!OpenEditor, Skill!CloseEditor, Skill!StartSync,
                Skill!FetchFiles, Skill!around, Skill!published
  <2>6. CASE \E p \in Skill!Paths : \/ Skill!ShowFile(p)
                                    \/ \E text \in {"empty", "unix"} : Skill!EditFile(p, text)
    BY <2>6 DEF Skill!ShowFile, Skill!EditFile, Skill!around, Skill!published
  <2>7. CASE \E p \in Attachments : Skill!CreateFile(p) \/ Skill!RemoveFile(p)
    BY <2>7 DEF Skill!CreateFile, Skill!RemoveFile, Skill!around, Skill!published
  <2>8. CASE Skill!Attach \/ Skill!AttachmentsRead \/ Skill!AttachmentsFail \/ Skill!ClearError
    BY <2>8 DEF Skill!Attach, Skill!AttachmentsRead, Skill!AttachmentsFail,
                Skill!ClearError, Skill!around, Skill!published
  <2>9. CASE Skill!Save("inline") \/ Skill!Save("github") \/ Skill!Saved \/ Skill!SaveFails
    BY <2>9 DEF Skill!Save, Skill!Saved, Skill!SaveFails, Skill!published
  <2> QED
    BY <1>2, <2>1, <2>2, <2>3, <2>4, <2>5, <2>6, <2>7, <2>8, <2>9 DEF Skill!Next
<1> QED
  BY <1>1, <1>2, <1>3, <1>4

(* No two contents of the bundle that embeds a skill are released under    *)
(* one version, whoever publishes in between: createSkill and createBundle *)
(* compare with what is published, and the bundle follows each version of  *)
(* its skill.  Nor are two of the skill itself, unless somebody named an   *)
(* old version of it over the API.                                         *)
THEOREM VersionsNameContents == FrontsSpec => []VersionNamesContent
<1>1. ASSUME VersionInv PROVE VersionNamesContent
  BY <1>1 DEF VersionInv, SkillReleased, PackReleased, Released, OneContent,
              VersionNamesContent, Skill!VersionNamesContent
<1> QED
  BY <1>1, SkillAlone, VersionInit, VersionNext, PTL DEF Skill!Spec

-----------------------------------------------------------------------------
\* The update panel

LEMMA UpdateAlone == FrontsSpec => Update!Spec
<1>1. FrontsInit => Update!Init
  BY DEF FrontsInit
<1>2. [FrontsNext]_frontVars => [Update!Next]_(Update!updateVars)
  BY DEF FrontsNext, frontVars, OnSession, OnPaged, OnSkill, OnTool, OnCredit, OnSecret,
         OnSettings, OnDesk, OnUpdate, OnDev, ofUpdate, Update!updateVars
<1> QED
  BY <1>1, <1>2, PTL DEF FrontsSpec, Update!Spec

Phases ==
  {"idle", "checking", "uptodate", "available", "downloading", "ready", "error"}
UpdateCall == [kind : {"silent", "check", "install"}, by : 1..MaxMounts,
               pc : {"out", "ok", "failed"}]
UpdateInv ==
  /\ phase \in Phases /\ offer \in BOOLEAN /\ mounts \in 1..MaxMounts
  /\ updates \in Seq(UpdateCall)
  /\ Update!PanelHonest

LEMMA UpdateInit == Update!Init => UpdateInv
<1> SUFFICES ASSUME Update!Init PROVE UpdateInv
  OBVIOUS
<1>1. 1 \in 1..MaxMounts
  BY BoundsAssumption
<1>2. /\ updates = <<Update!Call("silent", 1)>>
      /\ phase = "idle" /\ offer = FALSE /\ mounts = 1
  BY DEF Update!Init
<1>3. updates \in Seq(UpdateCall)
  <2>1. Update!Call("silent", 1) \in UpdateCall
    BY <1>1 DEF Update!Call, UpdateCall
  <2> QED
    BY <1>2, <2>1
<1> QED
  BY <1>1, <1>2, <1>3 DEF Phases, UpdateInv, Update!PanelHonest

(* A call is appended, and the panel that makes it says so.                *)
LEMMA CallAppended ==
  ASSUME UpdateInv, NEW kind \in {"silent", "check", "install"}, NEW n \in 1..MaxMounts,
         updates' = Append(updates, Update!Call(kind, n))
  PROVE  /\ updates' \in Seq(UpdateCall)
         /\ \E c \in DOMAIN updates' : updates'[c] = Update!Call(kind, n)
<1> DEFINE new == Update!Call(kind, n)
<1>1. new \in UpdateCall
  BY DEF Update!Call, UpdateCall
<1>2. updates \in Seq(UpdateCall)
  BY DEF UpdateInv
<1> HIDE DEF new
<1>3. /\ Len(updates) \in Nat /\ updates' \in Seq(UpdateCall)
      /\ Len(updates') = Len(updates) + 1 /\ updates'[Len(updates) + 1] = new
  BY <1>1, <1>2 DEF new
<1>4. Len(updates) + 1 \in DOMAIN updates'
  BY <1>3
<1> QED
  BY <1>3, <1>4 DEF new

(* A call of this panel that ends is past; the others stay what they are.  *)
LEMMA CallEnded ==
  ASSUME UpdateInv, NEW c \in DOMAIN updates, NEW pc \in {"ok", "failed"},
         updates[c].pc = "out", updates' = [updates EXCEPT ![c].pc = pc]
  PROVE  /\ updates' \in Seq(UpdateCall) /\ DOMAIN updates' = DOMAIN updates
         /\ updates'[c] = [Update!Call(updates[c].kind, updates[c].by) EXCEPT !.pc = pc]
         /\ \A d \in DOMAIN updates : d # c => updates'[d] = updates[d]
<1>1. updates \in Seq(UpdateCall) /\ updates[c] \in UpdateCall
  BY DEF UpdateInv
<1>2. PICK r : r = [updates[c] EXCEPT !.pc = pc]
  OBVIOUS
<1>3. r \in UpdateCall /\ r = [Update!Call(updates[c].kind, updates[c].by) EXCEPT !.pc = pc]
  BY <1>1, <1>2 DEF UpdateCall, Update!Call
<1>4. updates' = [updates EXCEPT ![c] = r]
  BY <1>2
<1>5. updates' \in Seq(UpdateCall) /\ DOMAIN updates' = DOMAIN updates
  <2>1. updates \in [1..Len(updates) -> UpdateCall] /\ Len(updates) \in Nat
    BY <1>1
  <2>2. updates' \in [1..Len(updates) -> UpdateCall]
    BY <1>3, <1>4, <2>1
  <2> QED
    BY <2>1, <2>2
<1> QED
  BY <1>3, <1>4, <1>5

LEMMA UpdateNext == UpdateInv /\ [Update!Next]_(Update!updateVars) => UpdateInv'
<1> SUFFICES ASSUME UpdateInv, [Update!Next]_(Update!updateVars) PROVE UpdateInv'
  OBVIOUS
<1>1. CASE UNCHANGED Update!updateVars
  BY <1>1 DEF UpdateInv, Update!updateVars, Update!PanelHonest, Update!Out, Update!Past,
              Update!Updates, Update!Call
<1>2. CASE Update!Remount
  <2>1. mounts + 1 \in 1..MaxMounts /\ phase' = "idle" /\ offer' = FALSE /\ mounts' = mounts + 1
    BY <1>2, BoundsAssumption DEF Update!Remount, UpdateInv
  <2>2. updates' \in Seq(UpdateCall)
    BY <1>2, <2>1, CallAppended DEF Update!Remount
  <2> QED
    BY <2>1, <2>2 DEF Phases, UpdateInv, Update!PanelHonest
<1>3. CASE Update!Check
  <2>1. /\ updates' = Append(updates, Update!Call("check", mounts))
        /\ phase' = "checking" /\ offer' = offer /\ mounts' = mounts /\ mounts \in 1..MaxMounts
    BY <1>3 DEF Update!Check, Update!Make, UpdateInv
  <2>2. /\ updates' \in Seq(UpdateCall)
        /\ \E c \in DOMAIN updates' : updates'[c] = Update!Call("check", mounts)
    BY <2>1, CallAppended
  <2>3. Update!Out("check")'
    BY <2>1, <2>2 DEF Update!Out, Update!Updates, Update!Call
  <2> QED
    BY <2>1, <2>2, <2>3 DEF Phases, UpdateInv, Update!PanelHonest
<1>4. CASE Update!Install
  <2>1. /\ updates' = Append(updates, Update!Call("install", mounts))
        /\ phase' = "downloading" /\ offer' = offer /\ mounts' = mounts /\ mounts \in 1..MaxMounts
    BY <1>4 DEF Update!Install, Update!Make, UpdateInv
  <2>2. /\ updates' \in Seq(UpdateCall)
        /\ \E c \in DOMAIN updates' : updates'[c] = Update!Call("install", mounts)
    BY <2>1, CallAppended
  <2>3. Update!Out("install")'
    BY <2>1, <2>2 DEF Update!Out, Update!Updates, Update!Call
  <2> QED
    BY <2>1, <2>2, <2>3 DEF Phases, UpdateInv, Update!PanelHonest
<1>5. CASE Update!Dismiss
  BY <1>5 DEF Phases, UpdateInv, Update!Dismiss, Update!PanelHonest
<1>6. ASSUME NEW c \in Update!Updates, Update!CallEnds(c) PROVE UpdateInv'
  <2>1. PICK found \in BOOLEAN, ok \in BOOLEAN :
          /\ updates' = [updates EXCEPT ![c].pc = IF ok THEN "ok" ELSE "failed"]
          /\ IF updates[c].by = mounts
             THEN /\ phase' = Update!Shows(updates[c].kind, found, ok)
                  /\ offer' = Update!Offers(updates[c].kind, found, ok)
             ELSE UNCHANGED <<phase, offer>>
    BY <1>6 DEF Update!CallEnds
  <2>2. PICK pc \in {"ok", "failed"} : pc = IF ok THEN "ok" ELSE "failed"
    OBVIOUS
  <2>3. /\ updates[c].pc = "out" /\ mounts' = mounts /\ c \in DOMAIN updates
        /\ updates' = [updates EXCEPT ![c].pc = pc] /\ updates[c] \in UpdateCall
    <3>1. updates[c].pc = "out" /\ mounts' = mounts /\ c \in DOMAIN updates
      BY <1>6 DEF Update!CallEnds, Update!Updates
    <3>2. updates' = [updates EXCEPT ![c].pc = pc]
      BY <2>1, <2>2
    <3>3. updates[c] \in UpdateCall
      BY <3>1 DEF UpdateInv
    <3> QED
      BY <3>1, <3>2, <3>3
  <2>4. /\ updates' \in Seq(UpdateCall) /\ DOMAIN updates' = DOMAIN updates
        /\ updates'[c] = [Update!Call(updates[c].kind, updates[c].by) EXCEPT !.pc = pc]
        /\ \A d \in DOMAIN updates : d # c => updates'[d] = updates[d]
    BY <2>3, CallEnded
  <2>5. ASSUME NEW kind, Update!Out(kind), ~(updates[c].kind = kind /\ updates[c].by = mounts)
        PROVE  Update!Out(kind)'
    BY <2>3, <2>4, <2>5 DEF Update!Out, Update!Updates, Update!Call
  <2>6. ASSUME NEW kind, NEW p \in {"ok", "failed"}, Update!Past(kind, p)
        PROVE  Update!Past(kind, p)'
    BY <2>3, <2>4, <2>6 DEF Update!Past, Update!Updates, Update!Call
  <2>7. ASSUME updates[c].by = mounts, NEW kind, updates[c].kind = kind
        PROVE  Update!Past(kind, pc)'
    BY <2>3, <2>4, <2>7 DEF Update!Past, Update!Updates, Update!Call
  <2>8. offer' \in BOOLEAN /\ phase' \in Phases
    <3>1. offer \in BOOLEAN /\ phase \in Phases /\ updates[c].kind \in {"silent", "check", "install"}
      BY <2>3 DEF UpdateInv, UpdateCall
    <3>2. Update!Shows(updates[c].kind, found, ok) \in Phases
      BY <3>1 DEF Update!Shows, Phases
    <3>3. Update!Offers(updates[c].kind, found, ok) \in BOOLEAN
      BY <3>1 DEF Update!Offers
    <3> QED
      BY <2>1, <3>1, <3>2, <3>3
  <2>9. Update!PanelHonest'
    <3>1. CASE updates[c].by # mounts
      BY <2>1, <2>5, <2>6, <3>1 DEF UpdateInv, Update!PanelHonest
    <3>2. CASE updates[c].by = mounts /\ updates[c].kind = "silent"
      <4>1. /\ phase' = IF ok /\ found THEN "available" ELSE phase
            /\ offer' = IF ~ok THEN offer ELSE found \/ offer
        BY <2>1, <3>2 DEF Update!Shows, Update!Offers
      <4>2. \/ phase' = "available" /\ offer'
            \/ phase' = phase /\ (phase = "available" => offer')
        BY <4>1 DEF UpdateInv, Update!PanelHonest
      <4> QED
        BY <2>5, <2>6, <3>2, <4>2 DEF UpdateInv, Update!PanelHonest
    <3>3. CASE updates[c].by = mounts /\ updates[c].kind = "check"
      <4>1. /\ phase' = IF ~ok THEN "error" ELSE IF found THEN "available" ELSE "uptodate"
            /\ offer' = IF ~ok THEN offer ELSE found
        BY <2>1, <3>3 DEF Update!Shows, Update!Offers
      <4>2. ~ok => Update!Past("check", "failed")'
        BY <2>2, <2>7, <3>3
      <4> QED
        BY <4>1, <4>2 DEF Update!PanelHonest
    <3>4. CASE updates[c].by = mounts /\ updates[c].kind = "install"
      <4>1. phase' = IF ok THEN "ready" ELSE "error"
        BY <2>1, <3>4 DEF Update!Shows
      <4>2. /\ ~ok => Update!Past("install", "failed")'
            /\ ok => Update!Past("install", "ok")'
        BY <2>2, <2>7, <3>4
      <4> QED
        BY <4>1, <4>2 DEF Update!PanelHonest
    <3> QED
      BY <2>3, <3>1, <3>2, <3>3, <3>4 DEF UpdateCall
  <2> QED
    BY <2>3, <2>4, <2>8, <2>9 DEF UpdateInv
<1> QED
  BY <1>1, <1>2, <1>3, <1>4, <1>5, <1>6 DEF Update!Next

(* The update panel tells what happened to its own calls: a spinner has a  *)
(* call behind it, "installed" an installation, an error a failure of what *)
(* its user asked for, in whatever order the answers come.                 *)
THEOREM PanelTellsTruth == FrontsSpec => []PanelHonest
<1>1. UpdateInv => PanelHonest
  BY DEF UpdateInv, PanelHonest
<1> QED
  BY <1>1, UpdateAlone, UpdateInit, UpdateNext, PTL DEF Update!Spec

-----------------------------------------------------------------------------
\* The session of a tab

Whose == People \cup {Nothing}
FetchType == [pc : {"idle", "sent", "served", "refresh", "done"}, kind : Session!Kinds,
              client : Nat, generation : Nat, epoch : Nat, as : Whose, answer : Whose,
              aborted : BOOLEAN, sent : 0..2, executed : 0..1]
SessionTypes ==
  /\ cookie \in Whose /\ accepted \in BOOLEAN
  /\ fetches \in [Session!Fetches -> FetchType]
  /\ refreshing \in {"none", "sent", "granted", "refused"} /\ refreshed \in Nat
  /\ client \in Nat /\ identity \in Whose /\ account \in Whose \cup {NotRead}
  /\ epoch \in Nat /\ rows \subseteq [kind : Session!Kinds, owner : People, epoch : 0..epoch]
  /\ route \in {"login", "app"} /\ handled \in BOOLEAN
  /\ lapses \in Nat /\ switches \in Nat

(* A request by itself: it has had an effect only once it is answered.     *)
SentOnce(q) ==
  /\ q.pc \in {"idle", "sent", "refresh"} => q.executed = 0 /\ q.answer = Nothing
  /\ q.pc = "served" /\ q.answer = Nothing => q.executed = 0
  /\ q.aborted => q.pc \in {"refresh", "done"}
  /\ q.pc = "refresh" => q.kind \notin {"login", "logout"}
  /\ q.pc = "sent" /\ q.kind = "login" => q.as \in People

(* A request and the refreshes: who was refused since the last one has a   *)
(* lapse to show that was not refreshed.                                   *)
RefreshKnown(q) ==
  /\ q.pc = "refresh" => refreshing # "none"
  /\ q.generation <= refreshed
  /\ q.pc = "served" /\ q.answer = Nothing /\ q.kind \notin {"login", "logout"}
       /\ q.generation = refreshed => refreshed < lapses
Refreshes == refreshed + (IF refreshing = "granted" THEN 1 ELSE 0)
LapsesPaid ==
  /\ Refreshes <= lapses
  /\ ~Session!Granted => Refreshes < lapses
  /\ refreshing = "sent" => refreshed < lapses

(* A query that was not given up is the current client's, a page is asked  *)
(* for the account on screen, and an answer on its way is the cookies' or  *)
(* the account's.                                                          *)
Awaited(q) == q.kind \in {"account", "page"} /\ q.pc \notin {"idle", "done"} /\ ~q.aborted
QueryCurrent(q) == Awaited(q) =>
  /\ q.client = client /\ q.epoch = epoch
  /\ q.kind = "page" => account \in People
  /\ switches = 0 /\ q.answer # Nothing =>
       IF q.kind = "page" THEN q.answer = account ELSE cookie \in {Nothing, q.answer}
AccountCurrent ==
  /\ account \in People => identity = account /\ route = "app"
  /\ account \in People /\ switches = 0 => cookie \in {Nothing, account}
RowsCurrent == \A r \in rows : r.epoch = epoch /\ (switches = 0 => r.owner = identity)

SessionInv ==
  /\ SessionTypes
  /\ \A f \in Session!Fetches :
       SentOnce(fetches[f]) /\ RefreshKnown(fetches[f]) /\ QueryCurrent(fetches[f])
  /\ LapsesPaid /\ AccountCurrent /\ RowsCurrent

(* The steps of the other surfaces leave the session alone.                *)
LEMMA SessionAlone == FrontsSpec => Session!Spec
<1>1. FrontsInit => Session!Init
  BY DEF FrontsInit
<1>2. [FrontsNext]_frontVars => [Session!Next]_(Session!vars)
  BY DEF FrontsNext, frontVars, OnSession, OnPaged, OnSkill, OnTool, OnCredit, OnSecret,
         OnSettings, OnDesk, OnUpdate, OnDev, ofSession, Session!vars, Session!browser,
         Session!refresh, Session!cache
<1> QED
  BY <1>1, <1>2, PTL DEF FrontsSpec, Session!Spec

LEMMA UnsentTyped ==
  /\ Session!Unsent \in FetchType /\ Nothing \in Whose
  /\ Session!Unsent =
       [pc |-> "idle", kind |-> "account", client |-> 0, generation |-> 0, epoch |-> 0,
        as |-> Nothing, answer |-> Nothing, aborted |-> FALSE, sent |-> 0, executed |-> 0]
BY DEF Session!Unsent, FetchType, Session!Kinds, Whose

LEMMA SessionInit == Session!Init => SessionInv
<1> SUFFICES ASSUME Session!Init PROVE SessionInv
  OBVIOUS
<1>1. \A f \in Session!Fetches : fetches[f] = Session!Unsent
  BY DEF Session!Init
<1>2. SessionTypes
  BY UnsentTyped DEF Session!Init, SessionTypes, Whose
<1>3. LapsesPaid
  BY DEF Session!Init, LapsesPaid, Refreshes, Session!Granted
<1>4. AccountCurrent /\ RowsCurrent
  BY FrontsAssumption DEF Session!Init, AccountCurrent, RowsCurrent
<1>5. \A f \in Session!Fetches :
        SentOnce(fetches[f]) /\ RefreshKnown(fetches[f]) /\ QueryCurrent(fetches[f])
  BY <1>1, UnsentTyped DEF Session!Init, SentOnce, RefreshKnown, QueryCurrent, Awaited
<1> QED
  BY <1>2, <1>3, <1>4, <1>5 DEF SessionInv

-----------------------------------------------------------------------------
(* One request changes.                                                    *)
LEMMA OneFetch ==
  ASSUME SessionInv, NEW f \in Session!Fetches, NEW q \in FetchType,
         fetches' = [fetches EXCEPT ![f] = q]
  PROVE  /\ fetches' \in [Session!Fetches -> FetchType] /\ fetches'[f] = q
         /\ \A g \in Session!Fetches : g # f => fetches'[g] = fetches[g]
BY DEF SessionInv, SessionTypes

LEMMA FetchFields ==
  ASSUME SessionInv, NEW f \in Session!Fetches
  PROVE  /\ fetches[f] \in FetchType /\ SentOnce(fetches[f])
         /\ RefreshKnown(fetches[f]) /\ QueryCurrent(fetches[f])
BY DEF SessionInv, SessionTypes

(* What is over waits for nothing.                                         *)
LEMMA OverTyped ==
  ASSUME NEW q \in FetchType
  PROVE  /\ Session!Over(q) \in FetchType
         /\ Session!Over(q).pc = "done" /\ Session!Over(q).generation = 0
         /\ Session!Over(q).kind = "account" /\ Session!Over(q).answer = Nothing
<1> DEFINE a == [Session!Unsent EXCEPT !.pc = "done"]
           b == [a EXCEPT !.sent = q.sent]
           c == [b EXCEPT !.executed = q.executed]
           d == [c EXCEPT !.aborted = q.aborted]
<1>1. Session!Over(q) = d
  BY DEF Session!Over
<1>2. q.sent \in 0..2 /\ q.executed \in 0..1 /\ q.aborted \in BOOLEAN
  BY DEF FetchType
<1>3. /\ a \in FetchType /\ a.pc = "done" /\ a.generation = 0
      /\ a.kind = "account" /\ a.answer = Nothing
  BY UnsentTyped DEF FetchType
<1> HIDE DEF a
<1>4. /\ b \in FetchType /\ b.pc = "done" /\ b.generation = 0
      /\ b.kind = "account" /\ b.answer = Nothing
  BY <1>2, <1>3 DEF FetchType
<1> HIDE DEF b
<1>5. /\ c \in FetchType /\ c.pc = "done" /\ c.generation = 0
      /\ c.kind = "account" /\ c.answer = Nothing
  BY <1>2, <1>4 DEF FetchType
<1> HIDE DEF c
<1>6. /\ d \in FetchType /\ d.pc = "done" /\ d.generation = 0
      /\ d.kind = "account" /\ d.answer = Nothing
  BY <1>2, <1>5 DEF FetchType
<1> QED
  BY <1>1, <1>6

(* A request may be over, or a query that waits for a refresh given up.    *)
Ceased(q, p) ==
  \/ p = q \/ p = Session!Over(q)
  \/ q.pc = "refresh" /\ p = [q EXCEPT !.aborted = TRUE]

LEMMA CeasedFields ==
  ASSUME NEW q \in FetchType, NEW p, Ceased(q, p), SentOnce(q), RefreshKnown(q),
         refreshed \in Nat
  PROVE  /\ p \in FetchType /\ SentOnce(p) /\ RefreshKnown(p)
         /\ p.pc = "refresh" => q.pc = "refresh"
<1>1. CASE p = q
  BY <1>1
<1>2. CASE p = Session!Over(q)
  BY <1>2, OverTyped DEF SentOnce, RefreshKnown
<1>3. CASE q.pc = "refresh" /\ p = [q EXCEPT !.aborted = TRUE]
  <2>1. /\ p \in FetchType /\ p.pc = "refresh" /\ p.aborted = TRUE /\ p.answer = q.answer
        /\ p.executed = q.executed /\ p.generation = q.generation
    BY <1>3 DEF FetchType
  <2> QED
    BY <1>3, <2>1 DEF SentOnce, RefreshKnown
<1> QED
  BY <1>1, <1>2, <1>3 DEF Ceased

-----------------------------------------------------------------------------
(* Requests that leave the cache alone.                                    *)
CacheKept ==
  UNCHANGED <<client, identity, account, rows, route, handled, epoch>>

LEMMA AskHolds ==
  ASSUME SessionInv, NEW f \in Session!Fetches, NEW kind \in Session!Kinds, NEW as \in Whose,
         Session!Ask(f, kind, as),
         kind = "page" => account \in People, kind = "login" => as \in People
  PROVE  SessionInv'
<1> DEFINE q == [Session!Unsent EXCEPT !.pc = "sent", !.kind = kind, !.client = client,
                   !.epoch = epoch, !.generation = refreshed, !.as = as, !.sent = 1]
<1>1. fetches' = [fetches EXCEPT ![f] = q]
  BY DEF Session!Ask
<1>2. /\ q \in FetchType /\ q.pc = "sent" /\ q.kind = kind /\ q.client = client
      /\ q.epoch = epoch /\ q.generation = refreshed /\ q.as = as /\ q.answer = Nothing
      /\ q.aborted = FALSE /\ q.executed = 0
  <2>1. 1 \in 0..2 /\ client \in Nat /\ refreshed \in Nat /\ epoch \in Nat
    BY DEF SessionInv, SessionTypes
  <2>2. /\ Session!Unsent \in FetchType /\ Session!Unsent.answer = Nothing
        /\ Session!Unsent.aborted = FALSE /\ Session!Unsent.executed = 0
    BY UnsentTyped
  <2> QED
    BY <2>1, <2>2 DEF FetchType
<1>3. SentOnce(q) /\ RefreshKnown(q) /\ QueryCurrent(q)
  <2>1. refreshed <= refreshed
    BY DEF SessionInv, SessionTypes
  <2> QED
    BY <1>2, <2>1 DEF SentOnce, RefreshKnown, QueryCurrent
<1> HIDE DEF q
<1>4. /\ fetches' \in [Session!Fetches -> FetchType] /\ fetches'[f] = q
      /\ \A g \in Session!Fetches : g # f => fetches'[g] = fetches[g]
  BY <1>1, <1>2, OneFetch
<1>5. /\ UNCHANGED <<cookie, accepted, lapses, switches, refreshing, refreshed>>
      /\ CacheKept
  BY DEF Session!Ask, Session!browser, Session!refresh, Session!cache, CacheKept
<1>6. SessionTypes'
  BY <1>4, <1>5 DEF SessionInv, SessionTypes, CacheKept
<1>7. \A g \in Session!Fetches :
        (SentOnce(fetches[g]) /\ RefreshKnown(fetches[g]) /\ QueryCurrent(fetches[g]))'
  BY <1>3, <1>4, <1>5 DEF SessionInv, SentOnce, RefreshKnown, QueryCurrent, Awaited, CacheKept
<1>8. LapsesPaid' /\ AccountCurrent' /\ RowsCurrent'
  BY <1>5 DEF SessionInv, LapsesPaid, Refreshes, Session!Granted, AccountCurrent, RowsCurrent,
              CacheKept
<1> QED
  BY <1>6, <1>7, <1>8 DEF SessionInv

LEMMA LoseHolds ==
  ASSUME SessionInv, NEW f \in Session!Fetches, Session!Lose(f)
  PROVE  SessionInv'
<1>1. PICK q : q = Session!Over(fetches[f])
  OBVIOUS
<1>2. q \in FetchType /\ SentOnce(q) /\ RefreshKnown(q) /\ q.pc = "done"
  BY <1>1, FetchFields, CeasedFields, OverTyped DEF Ceased, SessionInv, SessionTypes
<1>3. fetches' = [fetches EXCEPT ![f] = q]
  BY <1>1 DEF Session!Lose, Session!Done
<1>4. /\ fetches' \in [Session!Fetches -> FetchType] /\ fetches'[f] = q
      /\ \A g \in Session!Fetches : g # f => fetches'[g] = fetches[g]
  BY <1>2, <1>3, OneFetch
<1>5. /\ UNCHANGED <<cookie, accepted, lapses, switches, refreshing, refreshed>>
      /\ CacheKept
  BY DEF Session!Lose, Session!browser, Session!refresh, Session!cache, CacheKept
<1>6. SessionTypes'
  BY <1>4, <1>5 DEF SessionInv, SessionTypes, CacheKept
<1>7. \A g \in Session!Fetches :
        (SentOnce(fetches[g]) /\ RefreshKnown(fetches[g]) /\ QueryCurrent(fetches[g]))'
  BY <1>2, <1>4, <1>5 DEF SessionInv, SentOnce, RefreshKnown, QueryCurrent, Awaited, CacheKept
<1>8. LapsesPaid' /\ AccountCurrent' /\ RowsCurrent'
  BY <1>5 DEF SessionInv, LapsesPaid, Refreshes, Session!Granted, AccountCurrent, RowsCurrent,
              CacheKept
<1> QED
  BY <1>6, <1>7, <1>8 DEF SessionInv

(* The access cookie lapses, or another tab changes the session: one more  *)
(* refresh may follow.                                                     *)
LEMMA BrowserHolds ==
  ASSUME SessionInv, Session!ExpireAccess \/ Session!OtherTab
  PROVE  SessionInv'
<1>1. /\ UNCHANGED <<fetches, refreshing, refreshed>> /\ CacheKept
      /\ lapses' = lapses + 1
  BY DEF Session!ExpireAccess, Session!OtherTab, Session!refresh, Session!cache, CacheKept
<1>2. /\ cookie' \in Whose /\ accepted' \in BOOLEAN
      /\ \/ switches' = switches /\ cookie' = cookie
         \/ switches' = switches + 1
  BY DEF Session!ExpireAccess, Session!OtherTab, SessionInv, SessionTypes, Whose
<1>3. SessionTypes'
  BY <1>1, <1>2 DEF SessionInv, SessionTypes, CacheKept
<1>4. switches' = 0 => switches = 0 /\ cookie' = cookie
  BY <1>2 DEF SessionInv, SessionTypes
<1>5. \A g \in Session!Fetches :
        (SentOnce(fetches[g]) /\ RefreshKnown(fetches[g]) /\ QueryCurrent(fetches[g]))'
  <2> SUFFICES ASSUME NEW g \in Session!Fetches
               PROVE  (SentOnce(fetches[g]) /\ RefreshKnown(fetches[g])
                       /\ QueryCurrent(fetches[g]))'
    OBVIOUS
  <2>1. SentOnce(fetches[g]) /\ RefreshKnown(fetches[g]) /\ QueryCurrent(fetches[g])
    BY FetchFields
  <2>2. (SentOnce(fetches[g]) /\ QueryCurrent(fetches[g]))'
    BY <1>1, <1>4, <2>1 DEF SentOnce, QueryCurrent, Awaited, CacheKept
  <2>3. lapses \in Nat /\ refreshed \in Nat
    BY DEF SessionInv, SessionTypes
  <2>4. RefreshKnown(fetches[g])'
    BY <1>1, <2>1, <2>3 DEF RefreshKnown
  <2> QED
    BY <2>2, <2>4
<1>6. LapsesPaid'
  <2>1. lapses \in Nat /\ refreshed \in Nat /\ LapsesPaid
    BY DEF SessionInv, SessionTypes
  <2> QED
    BY <1>1, <2>1 DEF LapsesPaid, Refreshes
<1>7. AccountCurrent' /\ RowsCurrent'
  BY <1>1, <1>4 DEF SessionInv, AccountCurrent, RowsCurrent, CacheKept
<1> QED
  BY <1>3, <1>5, <1>6, <1>7 DEF SessionInv

LEMMA ServeRefreshHolds ==
  ASSUME SessionInv, Session!ServeRefresh
  PROVE  SessionInv'
<1>1. /\ UNCHANGED <<fetches, cookie, lapses, switches, refreshed>> /\ CacheKept
      /\ refreshing = "sent"
      /\ refreshing' = (IF cookie = Nothing THEN "refused" ELSE "granted")
      /\ accepted' = (accepted \/ cookie # Nothing)
  BY DEF Session!ServeRefresh, Session!cache, CacheKept
<1>2. accepted' \in BOOLEAN
  BY <1>1 DEF SessionInv, SessionTypes
<1>3. SessionTypes'
  BY <1>1, <1>2 DEF SessionInv, SessionTypes, CacheKept
<1>4. \A g \in Session!Fetches :
        (SentOnce(fetches[g]) /\ RefreshKnown(fetches[g]) /\ QueryCurrent(fetches[g]))'
  BY <1>1 DEF SessionInv, SentOnce, RefreshKnown, QueryCurrent, Awaited, CacheKept
<1>5. LapsesPaid'
  <2>1. lapses \in Nat /\ refreshed \in Nat /\ LapsesPaid
    BY DEF SessionInv, SessionTypes
  <2>2. CASE cookie = Nothing
    BY <1>1, <2>1, <2>2 DEF LapsesPaid, Refreshes, Session!Granted
  <2>3. CASE cookie # Nothing
    <3>1. refreshing' = "granted" /\ refreshed + 1 <= lapses
      BY <1>1, <2>1, <2>3 DEF LapsesPaid
    <3>2. Session!Granted'
      BY <1>1, <2>3 DEF Session!Granted
    <3> QED
      BY <1>1, <2>1, <3>1, <3>2 DEF LapsesPaid, Refreshes
  <2> QED
    BY <2>2, <2>3
<1>6. AccountCurrent' /\ RowsCurrent'
  BY <1>1 DEF SessionInv, AccountCurrent, RowsCurrent, CacheKept
<1> QED
  BY <1>3, <1>4, <1>5, <1>6 DEF SessionInv

(* The end of a refresh, for those who waited.                             *)
LEMMA ResumedTyped ==
  ASSUME NEW q \in FetchType, SentOnce(q), RefreshKnown(q), QueryCurrent(q), q.pc = "refresh"
  PROVE  LET p == [[q EXCEPT !.pc = "sent"] EXCEPT !.sent = 2]
         IN  /\ p \in FetchType
             /\ q.aborted = FALSE =>
                  SentOnce(p) /\ RefreshKnown(p) /\ QueryCurrent(p) /\ p.pc = "sent"
                  /\ p.generation = q.generation
<1> DEFINE a == [q EXCEPT !.pc = "sent"]
           p == [a EXCEPT !.sent = 2]
<1>1. /\ a \in FetchType /\ a.pc = "sent" /\ a.aborted = q.aborted /\ a.answer = q.answer
      /\ a.executed = q.executed /\ a.generation = q.generation /\ a.kind = q.kind
      /\ a.client = q.client /\ a.epoch = q.epoch
  BY DEF FetchType
<1> HIDE DEF a
<1>2. /\ p \in FetchType /\ p.pc = "sent" /\ p.aborted = q.aborted /\ p.answer = q.answer
      /\ p.executed = q.executed /\ p.generation = q.generation /\ p.kind = q.kind
      /\ p.client = q.client /\ p.epoch = q.epoch
  BY <1>1 DEF FetchType
<1> HIDE DEF p
<1>3. q.aborted = FALSE =>
        SentOnce(p) /\ RefreshKnown(p) /\ QueryCurrent(p) /\ p.pc = "sent"
        /\ p.generation = q.generation
  BY <1>2 DEF SentOnce, RefreshKnown, QueryCurrent, Awaited
<1> QED
  BY <1>2, <1>3 DEF p, a

LEMMA ServeHolds ==
  ASSUME SessionInv, NEW f \in Session!Fetches, Session!Serve(f)
  PROVE  SessionInv'
<1> DEFINE r == fetches[f]
           kind == r.kind
           answer == IF kind \in {"login", "logout"} THEN r.as
                     ELSE IF Session!Granted THEN cookie ELSE Nothing
           executed == IF kind = "mutation" /\ answer # Nothing THEN r.executed + 1
                       ELSE r.executed
           q == [r EXCEPT !.pc = "served", !.answer = answer, !.executed = executed]
<1>1. /\ r.pc = "sent" /\ fetches' = [fetches EXCEPT ![f] = q]
      /\ cookie' = (CASE kind = "login" -> r.as
                      [] kind = "logout" -> Nothing
                      [] OTHER -> cookie)
      /\ accepted' = (accepted \/ kind = "login")
      /\ lapses' = (IF kind = "logout" THEN lapses + 1 ELSE lapses)
      /\ switches' = (IF kind = "login" /\ Session!Elsewhere(r.as) THEN switches + 1
                      ELSE switches)
  BY DEF Session!Serve
<1>2. UNCHANGED <<refreshing, refreshed>> /\ CacheKept
  BY DEF Session!Serve, Session!refresh, Session!cache, CacheKept
<1>3. /\ r \in FetchType /\ SentOnce(r) /\ RefreshKnown(r) /\ QueryCurrent(r)
      /\ r.executed = 0 /\ kind \in Session!Kinds /\ r.as \in Whose
      /\ kind = "login" => r.as \in People
  BY <1>1, FetchFields DEF SentOnce, FetchType
<1>4. /\ cookie \in Whose /\ Nothing \in Whose /\ accepted \in BOOLEAN
      /\ lapses \in Nat /\ switches \in Nat /\ refreshed \in Nat
  BY DEF SessionInv, SessionTypes, Whose
<1>5. answer \in Whose /\ executed \in 0..1 /\ (answer = Nothing => executed = 0)
  BY <1>3, <1>4
<1> HIDE DEF answer, executed
<1>6. /\ q \in FetchType /\ q.pc = "served" /\ q.answer = answer /\ q.executed = executed
      /\ q.kind = kind /\ q.client = r.client /\ q.epoch = r.epoch
      /\ q.generation = r.generation /\ q.aborted = r.aborted
  BY <1>3, <1>5 DEF FetchType
<1>7. ~r.aborted
  BY <1>1, <1>3 DEF SentOnce
<1> HIDE DEF q
<1>8. /\ fetches' \in [Session!Fetches -> FetchType] /\ fetches'[f] = q
      /\ \A g \in Session!Fetches : g # f => fetches'[g] = fetches[g]
  BY <1>1, <1>6, OneFetch
<1>9. SessionTypes'
  <2>1. cookie' \in Whose /\ lapses' \in Nat /\ switches' \in Nat
    BY <1>1, <1>3, <1>4
  <2>2. accepted' \in BOOLEAN
    BY <1>1
  <2> QED
    BY <1>2, <1>8, <2>1, <2>2 DEF SessionInv, SessionTypes, CacheKept
<1>10. switches' = 0 => switches = 0 /\ (kind = "login" => ~Session!Elsewhere(r.as))
  BY <1>1, <1>4
<1>11. LapsesPaid'
  <2>1. LapsesPaid
    BY DEF SessionInv
  <2>2. CASE kind = "login"
    <3>1. cookie' \in People /\ accepted' = TRUE /\ lapses' = lapses
      BY <1>1, <1>3, <2>2
    <3>2. Session!Granted'
      BY <3>1, FrontsAssumption DEF Session!Granted
    <3> QED
      BY <1>2, <2>1, <3>1, <3>2 DEF LapsesPaid, Refreshes
  <2>3. CASE kind = "logout"
    <3>1. lapses' = lapses + 1
      BY <1>1, <2>3
    <3> QED
      BY <1>2, <1>4, <2>1, <3>1 DEF LapsesPaid, Refreshes
  <2>4. CASE kind \notin {"login", "logout"}
    <3>1. lapses' = lapses /\ cookie' = cookie
      BY <1>1, <2>4
    <3>2. Session!Granted' = Session!Granted
      BY <1>1, <2>4, <3>1 DEF Session!Granted
    <3> QED
      BY <1>2, <2>1, <3>1, <3>2 DEF LapsesPaid, Refreshes
  <2> QED
    BY <2>2, <2>3, <2>4
<1>12. (SentOnce(fetches[f]) /\ RefreshKnown(fetches[f]))'
  <2>1. SentOnce(q)
    BY <1>5, <1>6, <1>7 DEF SentOnce
  <2>2. ASSUME q.answer = Nothing, q.kind \notin {"login", "logout"}
        PROVE  refreshed' < lapses'
    <3>1. ~Session!Granted
      BY <1>6, <2>2 DEF answer, Session!Granted
    <3>2. LapsesPaid
      BY DEF SessionInv
    <3> QED
      BY <1>1, <1>2, <1>4, <1>6, <2>2, <3>1, <3>2 DEF LapsesPaid, Refreshes
  <2>3. q.generation <= refreshed'
    BY <1>2, <1>3, <1>6 DEF RefreshKnown
  <2>4. (fetches[f])' = q
    BY <1>8
  <2> QED
    BY <1>6, <2>1, <2>2, <2>3, <2>4 DEF SentOnce, RefreshKnown
<1>13. QueryCurrent(fetches[f])'
  <2> SUFFICES ASSUME Awaited(q)
               PROVE  /\ q.client = client /\ q.epoch = epoch
                      /\ q.kind = "page" => account \in People
                      /\ switches' = 0 /\ q.answer # Nothing =>
                           IF q.kind = "page" THEN q.answer = account
                           ELSE cookie' \in {Nothing, q.answer}
    BY <1>2, <1>8 DEF QueryCurrent, CacheKept
  <2>1. Awaited(r)
    BY <1>1, <1>6 DEF Awaited
  <2>2. /\ q.client = client /\ q.epoch = epoch
        /\ q.kind = "page" => account \in People
    BY <1>3, <1>6, <2>1 DEF QueryCurrent
  <2>3. kind \in {"account", "page"}
    BY <2>1 DEF Awaited
  <2>4. cookie' = cookie /\ (answer # Nothing => answer = cookie)
    BY <1>1, <2>3 DEF answer
  <2>5. account \in People /\ switches = 0 => cookie \in {Nothing, account}
    BY DEF SessionInv, AccountCurrent
  <2> QED
    BY <1>6, <1>10, <2>2, <2>4, <2>5
<1>14. ASSUME NEW g \in Session!Fetches, g # f
       PROVE  (SentOnce(fetches[g]) /\ RefreshKnown(fetches[g]) /\ QueryCurrent(fetches[g]))'
  <2>1. /\ fetches'[g] = fetches[g] /\ SentOnce(fetches[g]) /\ RefreshKnown(fetches[g])
        /\ QueryCurrent(fetches[g]) /\ fetches[g] \in FetchType
    BY <1>8, <1>14, FetchFields
  <2>2. (SentOnce(fetches[g]) /\ RefreshKnown(fetches[g]))'
    BY <1>1, <1>2, <1>4, <2>1 DEF SentOnce, RefreshKnown
  <2>3. ASSUME switches' = 0, Awaited(fetches[g]), fetches[g].kind # "page",
               fetches[g].answer # Nothing
        PROVE  cookie' \in {Nothing, fetches[g].answer}
    <3>1. switches = 0 /\ fetches[g].kind = "account"
          /\ cookie \in {Nothing, fetches[g].answer}
      BY <1>10, <2>1, <2>3 DEF QueryCurrent, Awaited
    <3>2. CASE kind = "login"
      BY <1>1, <1>10, <2>3, <3>1, <3>2 DEF Session!Elsewhere
    <3>3. CASE kind # "login"
      BY <1>1, <3>1, <3>3
    <3> QED
      BY <3>2, <3>3
  <2>4. QueryCurrent(fetches[g])'
    BY <1>2, <1>10, <2>1, <2>3 DEF QueryCurrent, Awaited, CacheKept
  <2> QED
    BY <2>2, <2>4
<1>15. AccountCurrent' /\ RowsCurrent'
  <2>1. ASSUME account \in People, switches' = 0 PROVE cookie' \in {Nothing, account}
    <3>1. cookie \in {Nothing, account}
      BY <1>10, <2>1 DEF SessionInv, AccountCurrent
    <3>2. CASE kind = "login"
      BY <1>1, <1>10, <2>1, <3>2 DEF Session!Elsewhere
    <3>3. CASE kind # "login"
      BY <1>1, <3>1, <3>3
    <3> QED
      BY <3>2, <3>3
  <2> QED
    BY <1>2, <1>10, <2>1 DEF SessionInv, AccountCurrent, RowsCurrent, CacheKept
<1> QED
  BY <1>9, <1>11, <1>12, <1>13, <1>14, <1>15 DEF SessionInv

(* A first refusal waits for a refresh, or is sent again at once.          *)
LEMMA RefusedHolds ==
  ASSUME SessionInv, NEW f \in Session!Fetches, Session!Answer(f),
         Session!Refused(f) /\ fetches[f].sent = 1
  PROVE  SessionInv'
<1> DEFINE r == fetches[f]
<1>1. /\ r \in FetchType /\ SentOnce(r) /\ RefreshKnown(r) /\ QueryCurrent(r)
      /\ r.pc = "served" /\ r.answer = Nothing /\ r.kind \notin {"login", "logout"}
      /\ r.executed = 0 /\ r.aborted = FALSE
  BY FetchFields DEF Session!Answer, Session!Refused, SentOnce, FetchType
<1>2. /\ UNCHANGED <<cookie, accepted, lapses, switches, refreshed>> /\ CacheKept
  BY DEF Session!Answer, Session!browser, Session!cache, CacheKept
<1>3. PICK q \in FetchType :
        /\ fetches' = [fetches EXCEPT ![f] = q]
        /\ q.kind = r.kind /\ q.client = r.client /\ q.epoch = r.epoch
        /\ q.answer = r.answer /\ q.aborted = FALSE /\ q.executed = 0
        /\ q.generation = r.generation
        /\ \/ /\ q.pc = "refresh" /\ r.generation = refreshed
              /\ refreshing' = IF refreshing = "none" THEN "sent" ELSE refreshing
           \/ q.pc = "sent" /\ refreshing' = refreshing
  <2>1. CASE Session!Unrefreshed(f)
    <3> DEFINE q == [r EXCEPT !.pc = "refresh"]
    <3>1. fetches' = [fetches EXCEPT ![f] = q]
      BY <2>1 DEF Session!Answer
    <3>2. /\ q \in FetchType /\ q.pc = "refresh" /\ q.kind = r.kind /\ q.client = r.client
          /\ q.epoch = r.epoch /\ q.answer = r.answer /\ q.aborted = FALSE
          /\ q.executed = 0 /\ q.generation = r.generation
      BY <1>1 DEF FetchType
    <3>3. /\ refreshing' = IF refreshing = "none" THEN "sent" ELSE refreshing
          /\ r.generation = refreshed
      BY <2>1 DEF Session!Answer, Session!Unrefreshed
    <3> HIDE DEF q
    <3> QED
      BY <3>1, <3>2, <3>3
  <2>2. CASE ~Session!Unrefreshed(f)
    <3> DEFINE q == [r EXCEPT !.pc = "sent", !.sent = 2]
    <3>1. fetches' = [fetches EXCEPT ![f] = q] /\ refreshing' = refreshing
      BY <2>2 DEF Session!Answer
    <3>2. 2 \in 0..2
      OBVIOUS
    <3>3. /\ q \in FetchType /\ q.pc = "sent" /\ q.kind = r.kind /\ q.client = r.client
          /\ q.epoch = r.epoch /\ q.answer = r.answer /\ q.aborted = FALSE
          /\ q.executed = 0 /\ q.generation = r.generation
      BY <1>1, <3>2 DEF FetchType
    <3> HIDE DEF q
    <3> QED
      BY <3>1, <3>3
  <2> QED
    BY <2>1, <2>2
<1>4. /\ fetches' \in [Session!Fetches -> FetchType] /\ fetches'[f] = q
      /\ \A g \in Session!Fetches : g # f => fetches'[g] = fetches[g]
  BY <1>3, OneFetch
<1>5. /\ \/ refreshing' = refreshing
         \/ refreshing' = "sent" /\ refreshed < lapses
      /\ refreshing # "none" => refreshing' # "none"
      /\ q.pc = "refresh" => refreshing' # "none"
  BY <1>1, <1>3 DEF RefreshKnown
<1>6. SessionTypes'
  BY <1>2, <1>4, <1>5 DEF SessionInv, SessionTypes, CacheKept
<1>7. SentOnce(q) /\ QueryCurrent(q) /\ q.generation <= refreshed
  BY <1>1, <1>3 DEF SentOnce, QueryCurrent, Awaited, RefreshKnown
<1>8. (SentOnce(fetches[f]) /\ RefreshKnown(fetches[f]) /\ QueryCurrent(fetches[f]))'
  BY <1>2, <1>3, <1>4, <1>5, <1>7 DEF SentOnce, QueryCurrent, Awaited, RefreshKnown, CacheKept
<1>9. ASSUME NEW g \in Session!Fetches, g # f
      PROVE  (SentOnce(fetches[g]) /\ RefreshKnown(fetches[g]) /\ QueryCurrent(fetches[g]))'
  <2>1. /\ fetches'[g] = fetches[g] /\ SentOnce(fetches[g]) /\ RefreshKnown(fetches[g])
        /\ QueryCurrent(fetches[g])
    BY <1>4, <1>9, FetchFields
  <2> QED
    BY <1>2, <1>5, <2>1 DEF SentOnce, QueryCurrent, Awaited, RefreshKnown, CacheKept
<1>10. LapsesPaid'
  <2>1. LapsesPaid /\ refreshed \in Nat /\ lapses \in Nat
    BY DEF SessionInv, SessionTypes
  <2>2. Session!Granted' = Session!Granted
    BY <1>2 DEF Session!Granted
  <2> QED
    BY <1>2, <1>5, <2>1, <2>2 DEF LapsesPaid, Refreshes
<1>11. AccountCurrent' /\ RowsCurrent'
  BY <1>2 DEF SessionInv, AccountCurrent, RowsCurrent, CacheKept
<1> QED
  BY <1>6, <1>8, <1>9, <1>10, <1>11 DEF SessionInv

-----------------------------------------------------------------------------
(* A request is over, and others may be given up with it.                  *)
CacheTyped ==
  /\ client \in Nat /\ identity \in Whose /\ account \in Whose \cup {NotRead}
  /\ epoch \in Nat /\ rows \subseteq [kind : Session!Kinds, owner : People, epoch : 0..epoch]
  /\ route \in {"login", "app"} /\ handled \in BOOLEAN
AllCeased == \A g \in Session!Fetches : Ceased(fetches[g], fetches'[g])
QueriesCurrent == \A g \in Session!Fetches : QueryCurrent(fetches[g])
SettledWell(f) ==
  /\ fetches' \in [Session!Fetches -> FetchType] /\ AllCeased
  /\ fetches'[f] = Session!Over(fetches[f])
  /\ CacheTyped' /\ QueriesCurrent' /\ AccountCurrent' /\ RowsCurrent'
BrowserKept == UNCHANGED <<cookie, accepted, lapses, switches>>

(* The invariant, once every request kept its state or ceased.             *)
LEMMA CeasedHolds ==
  ASSUME SessionInv, BrowserKept, refreshed' = refreshed, AllCeased,
         fetches' \in [Session!Fetches -> FetchType],
         refreshing' = "none" \/ refreshing' = refreshing,
         refreshing' = "none" =>
           \/ refreshing = "none"
           \/ \A g \in Session!Fetches : fetches'[g].pc # "refresh",
         CacheTyped', QueriesCurrent', AccountCurrent', RowsCurrent'
  PROVE  SessionInv'
<1>1. SessionTypes'
  BY DEF SessionInv, SessionTypes, CacheTyped, BrowserKept
<1>2. ASSUME NEW g \in Session!Fetches
      PROVE  (SentOnce(fetches[g]) /\ RefreshKnown(fetches[g]))'
  <2>1. /\ fetches[g] \in FetchType /\ SentOnce(fetches[g]) /\ RefreshKnown(fetches[g])
        /\ refreshed \in Nat /\ Ceased(fetches[g], fetches'[g])
    BY <1>2, FetchFields DEF SessionInv, SessionTypes, AllCeased
  <2>2. PICK p : p = fetches'[g]
    OBVIOUS
  <2>3. SentOnce(p) /\ RefreshKnown(p) /\ (p.pc = "refresh" => fetches[g].pc = "refresh")
    BY <2>1, <2>2, CeasedFields
  <2>4. p.pc = "refresh" => refreshing' # "none"
    BY <2>2, <2>3 DEF RefreshKnown
  <2> QED
    BY <2>2, <2>3, <2>4 DEF SentOnce, RefreshKnown, BrowserKept
<1>3. LapsesPaid'
  <2>1. LapsesPaid /\ refreshed \in Nat /\ lapses \in Nat
    BY DEF SessionInv, SessionTypes
  <2>2. Session!Granted' = Session!Granted
    BY DEF Session!Granted, BrowserKept
  <2> QED
    BY <2>1, <2>2 DEF LapsesPaid, Refreshes, BrowserKept
<1> QED
  BY <1>1, <1>2, <1>3 DEF SessionInv, QueriesCurrent

(* Only one request ends.                                                  *)
LEMMA DoneAlone ==
  ASSUME SessionInv, NEW f \in Session!Fetches, fetches' = Session!Done(f)
  PROVE  /\ fetches' \in [Session!Fetches -> FetchType] /\ AllCeased
         /\ fetches'[f] = Session!Over(fetches[f]) /\ ~Awaited(fetches'[f])
         /\ \A g \in Session!Fetches : g # f => fetches'[g] = fetches[g]
<1>1. PICK q : q = Session!Over(fetches[f])
  OBVIOUS
<1>2. q \in FetchType /\ q.pc = "done"
  BY <1>1, FetchFields, OverTyped
<1>3. fetches' = [fetches EXCEPT ![f] = q]
  BY <1>1 DEF Session!Done
<1>4. /\ fetches' \in [Session!Fetches -> FetchType] /\ fetches'[f] = q
      /\ \A g \in Session!Fetches : g # f => fetches'[g] = fetches[g]
  BY <1>2, <1>3, OneFetch
<1> QED
  BY <1>1, <1>2, <1>4 DEF AllCeased, Ceased, Awaited

(* The cache is given up: nobody's answer is awaited any more.             *)
LEMMA GivenUpCeases ==
  ASSUME SessionInv, NEW f \in Session!Fetches, fetches' = Session!GivenUp(Session!Done(f))
  PROVE  /\ fetches' \in [Session!Fetches -> FetchType] /\ AllCeased
         /\ fetches'[f] = Session!Over(fetches[f])
         /\ \A g \in Session!Fetches : ~Awaited(fetches'[g])
<1>1. PICK fs : fs = Session!Done(f)
  OBVIOUS
<1>2. /\ fs[f] = Session!Over(fetches[f]) /\ fs[f].pc = "done" /\ fs[f] \in FetchType
      /\ \A g \in Session!Fetches : g # f => fs[g] = fetches[g]
  BY <1>1, FetchFields, OverTyped DEF Session!Done, SessionInv, SessionTypes
<1>3. fetches' = [g \in Session!Fetches |->
        IF Session!Query(g) /\ Session!Under(g) /\ fs[g].client = client /\ fs[g].pc # "done"
        THEN IF fs[g].pc = "refresh" THEN [fs[g] EXCEPT !.aborted = TRUE]
             ELSE Session!Over(fs[g])
        ELSE fs[g]]
  BY <1>1 DEF Session!GivenUp
<1>4. fetches'[f] = Session!Over(fetches[f]) /\ ~Awaited(fetches'[f])
      /\ fetches'[f] \in FetchType /\ Ceased(fetches[f], fetches'[f])
  BY <1>2, <1>3 DEF Awaited, Ceased
<1>5. ASSUME NEW g \in Session!Fetches, g # f
      PROVE  /\ fetches'[g] \in FetchType /\ Ceased(fetches[g], fetches'[g])
             /\ ~Awaited(fetches'[g])
  <2> DEFINE r == fetches[g]
  <2>1. r \in FetchType /\ SentOnce(r) /\ RefreshKnown(r) /\ QueryCurrent(r)
    BY <1>5, FetchFields
  <2>2. fs[g] = r
    BY <1>2, <1>5
  <2>3. CASE Session!Query(g) /\ Session!Under(g) /\ r.client = client /\ r.pc # "done"
    <3>1. CASE r.pc = "refresh"
      <4>1. fetches'[g] = [r EXCEPT !.aborted = TRUE]
        BY <1>3, <2>2, <2>3, <3>1
      <4>2. fetches'[g] \in FetchType /\ fetches'[g].aborted = TRUE
        BY <2>1, <4>1 DEF FetchType
      <4> QED
        BY <3>1, <4>1, <4>2 DEF Ceased, Awaited
    <3>2. CASE r.pc # "refresh"
      <4>1. fetches'[g] = Session!Over(r)
        BY <1>3, <2>2, <2>3, <3>2
      <4> QED
        BY <2>1, <4>1, OverTyped DEF Ceased, Awaited
    <3> QED
      BY <3>1, <3>2
  <2>4. CASE ~(Session!Query(g) /\ Session!Under(g) /\ r.client = client /\ r.pc # "done")
    <3>1. fetches'[g] = r
      BY <1>3, <2>2, <2>4
    <3>2. ~Awaited(r)
      BY <2>1, <2>4 DEF Awaited, QueryCurrent, Session!Query, Session!Under
    <3> QED
      BY <2>1, <3>1, <3>2 DEF Ceased
  <2> QED
    BY <2>3, <2>4
<1>6. fetches' \in [Session!Fetches -> FetchType]
  BY <1>3, <1>4, <1>5
<1> QED
  BY <1>4, <1>5, <1>6 DEF AllCeased

-----------------------------------------------------------------------------
(* What an answer does to the cache.                                       *)
LEMMA NothingRead ==
  ASSUME SessionInv, BrowserKept, NEW f \in Session!Fetches,
         fetches' = Session!Done(f), CacheKept
  PROVE  SettledWell(f)
<1>1. CacheTyped'
  BY DEF SessionInv, SessionTypes, CacheTyped, CacheKept
<1>2. QueriesCurrent'
  BY DoneAlone DEF SessionInv, QueriesCurrent, QueryCurrent, Awaited, CacheKept, BrowserKept
<1>3. AccountCurrent' /\ RowsCurrent'
  BY DEF SessionInv, AccountCurrent, RowsCurrent, CacheKept, BrowserKept
<1> QED
  BY <1>1, <1>2, <1>3, DoneAlone DEF SettledWell

LEMMA ClearedWell ==
  ASSUME SessionInv, BrowserKept, NEW f \in Session!Fetches, NEW to \in {"login", "app"},
         Session!Cleared(Session!Done(f), to)
  PROVE  SettledWell(f)
<1>1. /\ fetches' = Session!GivenUp(Session!Done(f))
      /\ account' = NotRead /\ rows' = {} /\ epoch' = epoch + 1 /\ route' = to
      /\ handled' \in BOOLEAN /\ client' = client /\ identity' = identity
  BY DEF Session!Cleared
<1>2. /\ fetches' \in [Session!Fetches -> FetchType] /\ AllCeased
      /\ fetches'[f] = Session!Over(fetches[f])
      /\ \A g \in Session!Fetches : ~Awaited(fetches'[g])
  BY <1>1, GivenUpCeases
<1>3. CacheTyped'
  BY <1>1 DEF SessionInv, SessionTypes, CacheTyped
<1>4. QueriesCurrent'
  BY <1>2 DEF QueriesCurrent, QueryCurrent, Awaited
<1>5. AccountCurrent' /\ RowsCurrent'
  BY <1>1, FrontsAssumption DEF AccountCurrent, RowsCurrent, Whose
<1> QED
  BY <1>2, <1>3, <1>4, <1>5 DEF SettledWell

(* The page's row was asked for by the account on screen.                  *)
LEMMA PageReadWell ==
  ASSUME SessionInv, BrowserKept, NEW f \in Session!Fetches,
         Awaited(fetches[f]), fetches[f].kind = "page", fetches[f].answer # Nothing,
         rows' = rows \cup {[kind |-> "page", owner |-> fetches[f].answer,
                             epoch |-> fetches[f].epoch]},
         fetches' = Session!Done(f),
         UNCHANGED <<client, identity, account, route, handled, epoch>>
  PROVE  SettledWell(f)
<1>1. /\ fetches[f] \in FetchType /\ QueryCurrent(fetches[f]) /\ fetches[f].answer \in People
      /\ fetches[f].epoch = epoch /\ epoch \in Nat
  BY FetchFields DEF FetchType, Whose, QueryCurrent, SessionInv, SessionTypes
<1>2. PICK r : r = [kind |-> "page", owner |-> fetches[f].answer, epoch |-> fetches[f].epoch]
  OBVIOUS
<1>3. /\ r \in [kind : Session!Kinds, owner : People, epoch : 0..epoch]
      /\ r.epoch = epoch /\ r.owner = fetches[f].answer
  BY <1>1, <1>2 DEF Session!Kinds
<1>4. rows' = rows \cup {r}
  BY <1>2
<1>5. CacheTyped'
  BY <1>3, <1>4 DEF SessionInv, SessionTypes, CacheTyped
<1>6. QueriesCurrent'
  BY DoneAlone DEF SessionInv, QueriesCurrent, QueryCurrent, Awaited, BrowserKept
<1>7. AccountCurrent'
  BY DEF SessionInv, AccountCurrent, BrowserKept
<1>8. switches = 0 => r.owner = identity
  BY <1>1, <1>3 DEF QueryCurrent, SessionInv, AccountCurrent
<1>9. RowsCurrent'
  BY <1>3, <1>4, <1>8 DEF SessionInv, RowsCurrent, BrowserKept
<1> QED
  BY <1>5, <1>6, <1>7, <1>9, DoneAlone DEF SettledWell

(* The account is another one: a client of its own, with nothing else in.  *)
LEMMA OtherIdentityWell ==
  ASSUME SessionInv, BrowserKept, NEW f \in Session!Fetches, Awaited(fetches[f]),
         fetches[f].kind = "account",
         Session!ReadAccount(f, fetches[f].answer), Session!Distinct(fetches[f].answer)
  PROVE  SettledWell(f)
<1> DEFINE u == fetches[f].answer
<1>1. /\ account' = u /\ identity' = u /\ route' = (IF u # Nothing THEN "app" ELSE route)
      /\ fetches' = Session!GivenUp(Session!Done(f))
      /\ client' = client + 1 /\ epoch' = epoch + 1 /\ handled' \in BOOLEAN
      /\ rows' = IF u = Nothing THEN {} ELSE Session!Seed(u, epoch + 1)
  BY DEF Session!ReadAccount, Session!Swapped
<1>2. /\ u \in Whose /\ (switches = 0 /\ u # Nothing => cookie \in {Nothing, u})
      /\ epoch \in Nat /\ client \in Nat /\ route \in {"login", "app"}
  BY FetchFields DEF FetchType, QueryCurrent, SessionInv, SessionTypes
<1>3. /\ fetches' \in [Session!Fetches -> FetchType] /\ AllCeased
      /\ fetches'[f] = Session!Over(fetches[f])
      /\ \A g \in Session!Fetches : ~Awaited(fetches'[g])
  BY <1>1, GivenUpCeases
<1> HIDE DEF u
<1>4. PICK as : as = epoch + 1
  OBVIOUS
<1>5. \A r \in rows' : /\ r \in [kind : Session!Kinds, owner : People, epoch : 0..as]
                       /\ r.epoch = as /\ r.owner = u
  <2> SUFFICES ASSUME NEW r \in rows'
               PROVE  /\ r \in [kind : Session!Kinds, owner : People, epoch : 0..as]
                      /\ r.epoch = as /\ r.owner = u
    OBVIOUS
  <2>1. u \in People /\ r = [kind |-> "account", owner |-> u, epoch |-> as]
    BY <1>1, <1>2, <1>4 DEF Session!Seed, Whose
  <2>2. as \in 0..as /\ "account" \in Session!Kinds
    BY <1>2, <1>4 DEF Session!Kinds
  <2> QED
    BY <2>1, <2>2
<1>6. CacheTyped'
  BY <1>1, <1>2, <1>4, <1>5 DEF CacheTyped
<1>7. QueriesCurrent'
  BY <1>3 DEF QueriesCurrent, QueryCurrent, Awaited
<1>8. AccountCurrent'
  BY <1>1, <1>2, FrontsAssumption DEF AccountCurrent, BrowserKept
<1>9. RowsCurrent'
  BY <1>1, <1>4, <1>5 DEF RowsCurrent
<1> QED
  BY <1>3, <1>6, <1>7, <1>8, <1>9 DEF SettledWell

(* The account is the one on screen, or the first that is read.            *)
LEMMA SameIdentityWell ==
  ASSUME SessionInv, BrowserKept, NEW f \in Session!Fetches, Awaited(fetches[f]),
         fetches[f].kind = "account",
         Session!ReadAccount(f, fetches[f].answer), ~Session!Distinct(fetches[f].answer)
  PROVE  SettledWell(f)
<1> DEFINE u == fetches[f].answer
<1>1. /\ account' = u /\ identity' = u /\ route' = (IF u # Nothing THEN "app" ELSE route)
      /\ fetches' = Session!Done(f) /\ handled' \in BOOLEAN
      /\ rows' = {r \in rows : r.kind # "account"}
                 \cup (IF u = Nothing THEN {} ELSE Session!Seed(u, fetches[f].epoch))
      /\ UNCHANGED <<client, epoch>>
  BY DEF Session!ReadAccount
<1>2. /\ u \in Whose /\ (switches = 0 /\ u # Nothing => cookie \in {Nothing, u})
      /\ fetches[f].epoch = epoch /\ epoch \in Nat /\ client \in Nat
      /\ route \in {"login", "app"} /\ identity \in Whose
  BY FetchFields DEF FetchType, QueryCurrent, SessionInv, SessionTypes
<1>3. identity = Nothing \/ identity = u
  BY DEF Session!Distinct
<1> HIDE DEF u
<1>4. \A r \in rows' :
        \/ r \in rows
        \/ u \in People /\ r = [kind |-> "account", owner |-> u, epoch |-> epoch]
  BY <1>1, <1>2 DEF Session!Seed, Whose
<1>5. \A r \in rows' : /\ r \in [kind : Session!Kinds, owner : People, epoch : 0..epoch]
                       /\ r.epoch = epoch /\ (switches = 0 => r.owner = u)
  <2> SUFFICES ASSUME NEW r \in rows'
               PROVE  /\ r \in [kind : Session!Kinds, owner : People, epoch : 0..epoch]
                      /\ r.epoch = epoch /\ (switches = 0 => r.owner = u)
    OBVIOUS
  <2>1. CASE r \in rows
    <3>1. /\ r \in [kind : Session!Kinds, owner : People, epoch : 0..epoch]
          /\ r.epoch = epoch /\ (switches = 0 => r.owner = identity)
      BY <2>1 DEF SessionInv, SessionTypes, RowsCurrent
    <3>2. r.owner \in People
      BY <3>1
    <3> QED
      BY <1>3, <3>1, <3>2, FrontsAssumption
  <2>2. CASE u \in People /\ r = [kind |-> "account", owner |-> u, epoch |-> epoch]
    <3>1. epoch \in 0..epoch /\ "account" \in Session!Kinds
      BY <1>2 DEF Session!Kinds
    <3> QED
      BY <2>2, <3>1
  <2> QED
    BY <1>4, <2>1, <2>2
<1>6. CacheTyped'
  BY <1>1, <1>2, <1>5 DEF CacheTyped
<1>7. account \in People => account' = account
  BY <1>1, <1>3, FrontsAssumption DEF SessionInv, AccountCurrent
<1>8. QueriesCurrent'
  <2> SUFFICES ASSUME NEW g \in Session!Fetches, Awaited(fetches[g])'
               PROVE  QueryCurrent(fetches[g])'
    BY DEF QueriesCurrent, QueryCurrent, Awaited
  <2>1. fetches'[g] = fetches[g]
    BY <1>1, DoneAlone DEF Awaited
  <2>2. QueryCurrent(fetches[g]) /\ Awaited(fetches[g])
    BY <2>1, FetchFields DEF Awaited
  <2> QED
    BY <1>1, <1>7, <2>1, <2>2 DEF QueryCurrent, BrowserKept
<1>9. AccountCurrent'
  BY <1>1, <1>2, FrontsAssumption DEF AccountCurrent, BrowserKept
<1>10. RowsCurrent'
  BY <1>1, <1>5 DEF RowsCurrent, BrowserKept
<1> QED
  BY <1>1, <1>6, <1>8, <1>9, <1>10, DoneAlone DEF SettledWell

(* An answer, whatever it is.                                              *)
LEMMA Settles ==
  ASSUME SessionInv, BrowserKept, NEW f \in Session!Fetches,
         fetches[f].pc \in {"served", "refresh"}, ~fetches[f].aborted, Session!Settle(f)
  PROVE  SettledWell(f)
<1>1. CASE fetches' = Session!Done(f) /\ UNCHANGED Session!cache
  BY <1>1, NothingRead DEF Session!cache, CacheKept
<1>2. ASSUME Session!Expired(f) PROVE SettledWell(f)
  BY <1>1, <1>2, ClearedWell DEF Session!Expired
<1>3. CASE fetches[f].kind = "account"
  <2>1. CASE fetches[f].answer = Nothing /\ route = "app"
    BY <1>2, <1>3, <2>1 DEF Session!Settle
  <2>2. CASE ~(fetches[f].answer = Nothing /\ route = "app")
    <3>1. Session!ReadAccount(f, fetches[f].answer)
      BY <1>3, <2>2 DEF Session!Settle
    <3>2. Awaited(fetches[f])
      BY <1>3 DEF Awaited
    <3> QED
      BY <1>3, <3>1, <3>2, OtherIdentityWell, SameIdentityWell
  <2> QED
    BY <2>1, <2>2
<1>4. CASE fetches[f].kind = "page"
  <2>1. CASE fetches[f].answer = Nothing
    BY <1>2, <1>4, <2>1 DEF Session!Settle
  <2>2. CASE fetches[f].answer # Nothing
    <3>1. Awaited(fetches[f])
      BY <1>4 DEF Awaited
    <3>2. /\ rows' = rows \cup {[kind |-> "page", owner |-> fetches[f].answer,
                                epoch |-> fetches[f].epoch]}
          /\ fetches' = Session!Done(f)
          /\ UNCHANGED <<client, identity, account, route, handled, epoch>>
      BY <1>4, <2>2 DEF Session!Settle
    <3> QED
      BY <1>4, <2>2, <3>1, <3>2, PageReadWell
  <2> QED
    BY <2>1, <2>2
<1>5. CASE fetches[f].kind = "mutation"
  BY <1>1, <1>2, <1>5 DEF Session!Settle
<1>6. CASE fetches[f].kind \notin {"account", "page", "mutation"}
  <2>1. CASE fetches[f].client = client
    <3>1. PICK to \in {"login", "app"} : Session!Cleared(Session!Done(f), to)
      BY <1>6, <2>1 DEF Session!Settle
    <3> QED
      BY <3>1, ClearedWell
  <2>2. CASE fetches[f].client # client
    BY <1>1, <1>6, <2>2 DEF Session!Settle
  <2> QED
    BY <2>1, <2>2
<1> QED
  BY <1>3, <1>4, <1>5, <1>6

-----------------------------------------------------------------------------
(* The ends of a refresh.                                                  *)
LEMMA AnswerHolds ==
  ASSUME SessionInv, NEW f \in Session!Fetches, Session!Answer(f)
  PROVE  SessionInv'
<1>1. CASE Session!Refused(f) /\ fetches[f].sent = 1
  BY <1>1, RefusedHolds
<1>2. CASE ~(Session!Refused(f) /\ fetches[f].sent = 1)
  <2>1. /\ fetches[f].pc = "served" /\ Session!Settle(f) /\ refreshing' = refreshing
        /\ BrowserKept /\ refreshed' = refreshed
    BY <1>2 DEF Session!Answer, Session!browser, BrowserKept
  <2>2. ~fetches[f].aborted
    BY <2>1, FetchFields DEF SentOnce
  <2>3. SettledWell(f)
    BY <2>1, <2>2, Settles
  <2> QED
    BY <2>1, <2>3, CeasedHolds DEF SettledWell
<1> QED
  BY <1>1, <1>2

LEMMA RefreshRefusedHolds ==
  ASSUME SessionInv, Session!RefreshRefused
  PROVE  SessionInv'
<1>1. PICK f \in Session!Waiting :
        /\ IF fetches[f].aborted
           THEN fetches' = Session!Done(f) /\ UNCHANGED Session!cache
           ELSE Session!Settle(f)
        /\ refreshing' = IF Session!Waiting = {f} THEN "none" ELSE "refused"
  BY DEF Session!RefreshRefused
<1>2. /\ f \in Session!Fetches /\ fetches[f].pc = "refresh" /\ BrowserKept
      /\ refreshed' = refreshed /\ refreshing = "refused"
  BY <1>1 DEF Session!RefreshRefused, Session!Waiting, Session!browser, BrowserKept
<1>3. SettledWell(f)
  <2>1. CASE fetches[f].aborted
    <3>1. fetches' = Session!Done(f) /\ CacheKept
      BY <1>1, <2>1 DEF Session!cache, CacheKept
    <3> QED
      BY <1>2, <3>1, NothingRead
  <2>2. CASE ~fetches[f].aborted
    BY <1>1, <1>2, <2>2, Settles
  <2> QED
    BY <2>1, <2>2
<1>4. ASSUME refreshing' = "none", NEW g \in Session!Fetches
      PROVE  fetches'[g].pc # "refresh"
  <2>1. Session!Waiting = {f}
    BY <1>1, <1>4
  <2>2. /\ fetches[g] \in FetchType /\ SentOnce(fetches[g]) /\ RefreshKnown(fetches[g])
        /\ Ceased(fetches[g], fetches'[g]) /\ refreshed \in Nat
    BY <1>3, <1>4, FetchFields DEF SettledWell, AllCeased, SessionInv, SessionTypes
  <2>3. fetches'[g].pc = "refresh" => fetches[g].pc = "refresh"
    BY <2>2, CeasedFields
  <2>4. fetches'[f].pc = "done"
    BY <1>2, <1>3, FetchFields, OverTyped DEF SettledWell
  <2> QED
    BY <1>4, <2>1, <2>3, <2>4 DEF Session!Waiting
<1>5. refreshing' = "none" \/ refreshing' = refreshing
  BY <1>1, <1>2
<1> QED
  BY <1>2, <1>3, <1>4, <1>5, CeasedHolds DEF SettledWell

LEMMA RefreshLostHolds ==
  ASSUME SessionInv, Session!RefreshLost
  PROVE  SessionInv'
<1>1. /\ fetches' = [f \in Session!Fetches |->
           IF f \in Session!Waiting THEN Session!Over(fetches[f]) ELSE fetches[f]]
      /\ refreshing' = "none" /\ refreshed' = refreshed /\ BrowserKept /\ CacheKept
  BY DEF Session!RefreshLost, Session!browser, Session!cache, BrowserKept, CacheKept
<1>2. ASSUME NEW g \in Session!Fetches
      PROVE  /\ fetches'[g] \in FetchType /\ Ceased(fetches[g], fetches'[g])
             /\ fetches'[g].pc # "refresh"
             /\ Awaited(fetches'[g]) => fetches'[g] = fetches[g]
  <2>1. fetches[g] \in FetchType
    BY <1>2, FetchFields
  <2>2. CASE g \in Session!Waiting
    <3>1. fetches'[g] = Session!Over(fetches[g])
      BY <1>1, <1>2, <2>2
    <3>2. fetches'[g] \in FetchType /\ fetches'[g].pc = "done"
      BY <2>1, <3>1, OverTyped
    <3> QED
      BY <3>1, <3>2 DEF Ceased, Awaited
  <2>3. CASE g \notin Session!Waiting
    <3>1. fetches'[g] = fetches[g]
      BY <1>1, <1>2, <2>3
    <3> QED
      BY <1>2, <2>1, <2>3, <3>1 DEF Ceased, Session!Waiting
  <2> QED
    BY <2>2, <2>3
<1>3. fetches' \in [Session!Fetches -> FetchType] /\ AllCeased
  BY <1>1, <1>2 DEF AllCeased
<1>4. CacheTyped' /\ AccountCurrent' /\ RowsCurrent'
  BY <1>1 DEF SessionInv, SessionTypes, CacheTyped, AccountCurrent, RowsCurrent, CacheKept,
              BrowserKept
<1>5. QueriesCurrent'
  <2> SUFFICES ASSUME NEW g \in Session!Fetches, Awaited(fetches'[g])
               PROVE  QueryCurrent(fetches[g])'
    BY DEF QueriesCurrent, QueryCurrent, Awaited
  <2>1. fetches'[g] = fetches[g] /\ QueryCurrent(fetches[g])
    BY <1>2, FetchFields
  <2> QED
    BY <1>1, <2>1 DEF QueryCurrent, Awaited, CacheKept, BrowserKept
<1> QED
  BY <1>1, <1>2, <1>3, <1>4, <1>5, CeasedHolds

(* Everyone who waited sends again, and the lapse is paid for.             *)
LEMMA RefreshGrantedHolds ==
  ASSUME SessionInv, Session!RefreshGranted
  PROVE  SessionInv'
<1>1. /\ fetches' = [f \in Session!Fetches |->
           IF f \in Session!Waiting THEN Session!Resumed(f) ELSE fetches[f]]
      /\ refreshing = "granted" /\ refreshing' = "none" /\ refreshed' = refreshed + 1
      /\ BrowserKept /\ CacheKept
  BY DEF Session!RefreshGranted, Session!browser, Session!cache, BrowserKept, CacheKept
<1>2. refreshed \in Nat
  BY DEF SessionInv, SessionTypes
<1>3. ASSUME NEW g \in Session!Fetches
      PROVE  /\ fetches'[g] \in FetchType /\ SentOnce(fetches'[g])
             /\ RefreshKnown(fetches'[g]) /\ QueryCurrent(fetches'[g])
             /\ fetches'[g].pc # "refresh"
  <2> DEFINE r == fetches[g]
  <2>1. r \in FetchType /\ SentOnce(r) /\ RefreshKnown(r) /\ QueryCurrent(r)
    BY <1>3, FetchFields
  <2>2. CASE g \in Session!Waiting /\ r.aborted
    <3>1. fetches'[g] = Session!Over(r)
      BY <1>1, <1>3, <2>2 DEF Session!Resumed
    <3>2. PICK p : p = fetches'[g]
      OBVIOUS
    <3>3. p \in FetchType /\ SentOnce(p) /\ RefreshKnown(p) /\ p.pc = "done"
      BY <1>2, <2>1, <3>1, <3>2, CeasedFields, OverTyped DEF Ceased
    <3> QED
      BY <3>2, <3>3 DEF QueryCurrent, Awaited
  <2>3. CASE g \in Session!Waiting /\ ~r.aborted
    <3>1. r.pc = "refresh" /\ r.aborted = FALSE
      BY <2>1, <2>3 DEF Session!Waiting, FetchType
    <3>2. fetches'[g] = [[r EXCEPT !.pc = "sent"] EXCEPT !.sent = 2]
      BY <1>1, <1>3, <2>1, <2>3 DEF Session!Resumed
    <3>3. PICK p : p = [[r EXCEPT !.pc = "sent"] EXCEPT !.sent = 2]
      OBVIOUS
    <3>4. p \in FetchType /\ SentOnce(p) /\ RefreshKnown(p) /\ QueryCurrent(p) /\ p.pc = "sent"
      BY <2>1, <3>1, <3>3, ResumedTyped
    <3> QED
      BY <3>2, <3>3, <3>4
  <2>4. CASE g \notin Session!Waiting
    BY <1>1, <1>3, <2>1, <2>4 DEF Session!Waiting
  <2> QED
    BY <2>2, <2>3, <2>4
<1>4. fetches' \in [Session!Fetches -> FetchType]
  BY <1>1, <1>3
<1>5. SessionTypes'
  BY <1>1, <1>2, <1>4 DEF SessionInv, SessionTypes, BrowserKept, CacheKept
<1>6. ASSUME NEW g \in Session!Fetches
      PROVE  (SentOnce(fetches[g]) /\ RefreshKnown(fetches[g]) /\ QueryCurrent(fetches[g]))'
  <2>1. fetches'[g].generation \in Nat /\ fetches'[g].generation <= refreshed
    BY <1>3, <1>6 DEF RefreshKnown, FetchType
  <2>2. RefreshKnown(fetches[g])'
    BY <1>1, <1>2, <1>3, <1>6, <2>1 DEF RefreshKnown
  <2> QED
    BY <1>1, <1>3, <1>6, <2>2 DEF SentOnce, QueryCurrent, Awaited, BrowserKept, CacheKept
<1>7. LapsesPaid'
  <2>1. LapsesPaid /\ lapses \in Nat
    BY DEF SessionInv, SessionTypes
  <2>2. Session!Granted' = Session!Granted
    BY <1>1 DEF Session!Granted, BrowserKept
  <2> QED
    BY <1>1, <1>2, <2>1, <2>2 DEF LapsesPaid, Refreshes, BrowserKept
<1>8. AccountCurrent' /\ RowsCurrent'
  BY <1>1 DEF SessionInv, AccountCurrent, RowsCurrent, BrowserKept, CacheKept
<1> QED
  BY <1>5, <1>6, <1>7, <1>8 DEF SessionInv

-----------------------------------------------------------------------------
LEMMA AsksHold ==
  ASSUME SessionInv, NEW f \in Session!Fetches,
         \/ Session!AskAccount(f) \/ Session!AskPage(f) \/ Session!Mutate(f)
         \/ Session!Login(f) \/ Session!Logout(f)
  PROVE  SessionInv'
<1>1. /\ "account" \in Session!Kinds /\ "page" \in Session!Kinds /\ "mutation" \in Session!Kinds
      /\ "login" \in Session!Kinds /\ "logout" \in Session!Kinds
      /\ Nothing \in Whose /\ identity \in Whose /\ People \subseteq Whose
  BY DEF Session!Kinds, Whose, SessionInv, SessionTypes
<1>2. CASE Session!AskAccount(f)
  BY <1>1, <1>2, AskHolds DEF Session!AskAccount
<1>3. CASE Session!AskPage(f)
  BY <1>1, <1>3, AskHolds DEF Session!AskPage, Session!Shown
<1>4. CASE Session!Mutate(f)
  BY <1>1, <1>4, AskHolds DEF Session!Mutate
<1>5. CASE Session!Login(f)
  <2>1. PICK u \in People : Session!Ask(f, "login", u)
    BY <1>5 DEF Session!Login
  <2> QED
    BY <1>1, <2>1, AskHolds
<1>6. CASE Session!Logout(f)
  BY <1>1, <1>6, AskHolds DEF Session!Logout
<1> QED
  BY <1>2, <1>3, <1>4, <1>5, <1>6

LEMMA SessionNext == SessionInv /\ [Session!Next]_(Session!vars) => SessionInv'
<1> SUFFICES ASSUME SessionInv, [Session!Next]_(Session!vars) PROVE SessionInv'
  OBVIOUS
<1>1. CASE UNCHANGED Session!vars
  <2>1. /\ UNCHANGED <<fetches, refreshing, refreshed>> /\ BrowserKept /\ CacheKept
    BY <1>1 DEF Session!vars, Session!browser, Session!refresh, Session!cache, BrowserKept,
                CacheKept
  <2>2. SessionTypes' /\ LapsesPaid' /\ AccountCurrent' /\ RowsCurrent'
    BY <2>1 DEF SessionInv, SessionTypes, LapsesPaid, Refreshes, Session!Granted,
                AccountCurrent, RowsCurrent, BrowserKept, CacheKept
  <2>3. \A f \in Session!Fetches :
          (SentOnce(fetches[f]) /\ RefreshKnown(fetches[f]) /\ QueryCurrent(fetches[f]))'
    BY <2>1 DEF SessionInv, SentOnce, RefreshKnown, QueryCurrent, Awaited, BrowserKept,
                CacheKept
  <2> QED
    BY <2>2, <2>3 DEF SessionInv
<1>2. ASSUME NEW f \in Session!Fetches,
             \/ Session!AskAccount(f) \/ Session!AskPage(f) \/ Session!Mutate(f)
             \/ Session!Login(f) \/ Session!Logout(f)
      PROVE  SessionInv'
  BY <1>2, AsksHold
<1>3. ASSUME NEW f \in Session!Fetches, Session!Serve(f) \/ Session!Network(f)
      PROVE  SessionInv'
  BY <1>3, ServeHolds, AnswerHolds, LoseHolds DEF Session!Network
<1>4. CASE Session!ServeRefresh
  BY <1>4, ServeRefreshHolds
<1>5. CASE Session!RefreshEnds
  BY <1>5, RefreshGrantedHolds, RefreshRefusedHolds, RefreshLostHolds DEF Session!RefreshEnds
<1>6. CASE Session!ExpireAccess \/ Session!OtherTab
  BY <1>6, BrowserHolds
<1> QED
  BY <1>1, <1>2, <1>3, <1>4, <1>5, <1>6 DEF Session!Next

LEMMA SessionKept == FrontsSpec => []SessionInv
<1>1. Session!Spec => []SessionInv
  BY SessionInit, SessionNext, PTL DEF Session!Spec
<1> QED
  BY <1>1, SessionAlone, PTL

-----------------------------------------------------------------------------
\* However requests, refusals and other tabs interleave

(* A request goes out twice at most and takes effect once; what was given  *)
(* up is not sent again; nobody waits for a refresh that is not under way; *)
(* a lapse of the cookies costs one refresh at most.                       *)
THEOREM RequestsReplayedOnce == FrontsSpec => []ReplayedOnce
<1>1. SessionInv => ReplayedOnce
  <2> SUFFICES ASSUME SessionInv PROVE ReplayedOnce
    OBVIOUS
  <2>1. ASSUME NEW f \in Session!Fetches
        PROVE  /\ fetches[f].sent <= 2 /\ fetches[f].executed <= 1
               /\ fetches[f].aborted => fetches[f].pc \in {"refresh", "done"}
               /\ fetches[f].pc = "refresh" => refreshing # "none"
    BY FetchFields DEF FetchType, SentOnce, RefreshKnown
  <2>2. refreshed <= lapses
    BY DEF SessionInv, SessionTypes, LapsesPaid, Refreshes
  <2> QED
    BY <2>1, <2>2 DEF ReplayedOnce, Session!ReplayedOnce
<1> QED
  BY <1>1, SessionKept, PTL

(* What this tab has cached was asked since the cache was last given up,   *)
(* and is its user's.                                                      *)
LEMMA OwnCache == FrontsSpec => []Session!OwnData
<1>1. SessionInv => Session!OwnData
  <2> SUFFICES ASSUME SessionInv PROVE Session!OwnData
    OBVIOUS
  <2>1. \A f \in Session!Fetches : fetches[f] \in FetchType
    BY FetchFields
  <2>2. Session!TypeOK
    BY <2>1 DEF SessionInv, SessionTypes, Session!TypeOK, FetchType, Whose
  <2> QED
    BY <2>2 DEF SessionInv, AccountCurrent, RowsCurrent, Session!OwnData
<1> QED
  BY <1>1, SessionKept, PTL

-----------------------------------------------------------------------------
\* The supervisors of the development services

DevSteps == {"none", "listen", "ports", "spawn", "wait", "asked", "runs",
             "failed", "exited", "killed"}
DevTypes ==
  /\ socket \in Supervisors \cup {Nothing}
  /\ steps \in [Supervisors -> DevSteps]
  /\ state \in [Supervisors -> {"starting", "running", "stopping", "stopped"}]
  /\ stopping \in [Supervisors -> BOOLEAN]
  /\ child \in [Supervisors -> {"none", "up", "dying", "closed"}]
  /\ failure \in [Supervisors -> BOOLEAN]
  /\ told \in [Supervisors -> SUBSET {"running", "stopped"}]

(* Who is about to start its services holds the socket, unless it was told *)
(* to stop; services that are closed are known to have failed.             *)
Starts(s) == steps[s] \in {"ports", "spawn"} /\ ~stopping[s]
Supervises(s) ==
  /\ steps[s] \in {"none", "listen"} => ~stopping[s] /\ state[s] = "starting"
  /\ steps[s] \in {"none", "listen", "ports", "spawn"} => child[s] = "none"
  /\ steps[s] \in {"wait", "asked"} => child[s] # "none"
  /\ child[s] = "closed" => failure[s]
  /\ state[s] = "stopped" => stopping[s] /\ ~Dev!Alive(s) /\ socket # s
  /\ "stopped" \in told[s] => state[s] = "stopped"
  /\ Starts(s) => socket = s
PortsFree == \A s \in Supervisors : Starts(s) /\ steps[s] = "spawn" => Dev!PortFree
OneGroup == \A s, t \in Supervisors : Dev!Alive(s) /\ Dev!Alive(t) => s = t
DevInv ==
  /\ DevTypes /\ (\A s \in Supervisors : Supervises(s)) /\ PortsFree /\ OneGroup

LEMMA DevAlone == FrontsSpec => Dev!Spec
<1>1. FrontsInit => Dev!Init
  BY DEF FrontsInit
<1>2. [FrontsNext]_frontVars => [Dev!Next]_(Dev!devVars)
  BY DEF FrontsNext, frontVars, OnSession, OnPaged, OnSkill, OnTool, OnCredit, OnSecret,
         OnSettings, OnDesk, OnUpdate, OnDev, ofDev, Dev!devVars
<1> QED
  BY <1>1, <1>2, PTL DEF FrontsSpec, Dev!Spec

LEMMA DevStart == Dev!Init => DevInv
<1> SUFFICES ASSUME Dev!Init PROVE DevInv
  OBVIOUS
<1>1. DevTypes
  BY DEF Dev!Init, DevTypes, DevSteps
<1>2. \A s \in Supervisors : Supervises(s)
  BY DEF Dev!Init, Supervises, Starts, Dev!Alive
<1>3. PortsFree /\ OneGroup
  BY DEF Dev!Init, PortsFree, OneGroup, Starts, Dev!Alive
<1> QED
  BY <1>1, <1>2, <1>3 DEF DevInv

(* One supervisor takes a step: the others keep what they have.            *)
KeptBy(t) ==
  /\ steps'[t] = steps[t] /\ state'[t] = state[t] /\ stopping'[t] = stopping[t]
  /\ child'[t] = child[t] /\ failure'[t] = failure[t] /\ told'[t] = told[t]
SocketOf(s) ==
  \/ socket' = socket
  \/ socket = s /\ socket' = Nothing
  \/ socket = Nothing /\ socket' = s

LEMMA OneSupervisor ==
  ASSUME DevInv, NEW s \in Supervisors, DevTypes', SocketOf(s),
         \A t \in Supervisors : t # s => KeptBy(t),
         Supervises(s)',
         Dev!Alive(s)' => \/ Dev!Alive(s)
                          \/ Starts(s) /\ steps[s] = "spawn" /\ steps'[s] = "wait",
         (Starts(s) /\ steps[s] = "spawn")' =>
           (Starts(s) /\ steps[s] = "spawn") \/ Dev!PortFree
  PROVE  DevInv'
<1>1. ASSUME NEW t \in Supervisors, t # s
      PROVE  /\ Supervises(t)' /\ Dev!Alive(t)' = Dev!Alive(t) /\ Starts(t)' = Starts(t)
  <2>1. KeptBy(t) /\ Supervises(t)
    BY <1>1 DEF DevInv
  <2>2. Dev!Alive(t)' = Dev!Alive(t) /\ Starts(t)' = Starts(t)
    BY <2>1 DEF KeptBy, Dev!Alive, Starts
  <2>3. (socket' = t) = (socket = t)
    BY <1>1, FrontsAssumption DEF SocketOf
  <2> QED
    BY <2>1, <2>2, <2>3 DEF Supervises, KeptBy
<1>2. PortsFree'
  <2> SUFFICES ASSUME NEW t \in Supervisors, (Starts(t) /\ steps[t] = "spawn")'
               PROVE  \A u \in Supervisors : ~Dev!Alive(u)'
    BY DEF PortsFree, Dev!PortFree
  <2>1. Dev!PortFree
    BY <1>1 DEF KeptBy, DevInv, PortsFree
  <2>2. \A u \in Supervisors : ~Dev!Alive(u)
    BY <2>1 DEF Dev!PortFree
  <2>3. ~Dev!Alive(s)'
    <3>1. CASE t = s
      BY <2>2, <3>1
    <3>2. CASE t # s
      <4>1. Starts(t)
        BY <1>1, <3>2
      <4>2. ~Starts(s)
        BY <3>2, <4>1 DEF DevInv, Supervises
      <4> QED
        BY <2>2, <4>2
    <3> QED
      BY <3>1, <3>2
  <2> QED
    BY <1>1, <2>2, <2>3
<1>3. OneGroup'
  <2> SUFFICES ASSUME NEW t \in Supervisors, NEW u \in Supervisors, t # u
               PROVE  ~(Dev!Alive(t)' /\ Dev!Alive(u)')
    BY DEF OneGroup
  <2>1. ~(Dev!Alive(t) /\ Dev!Alive(u))
    BY DEF DevInv, OneGroup
  <2>2. Starts(s) /\ steps[s] = "spawn" => ~Dev!Alive(t) /\ ~Dev!Alive(u)
    BY DEF DevInv, PortsFree, Dev!PortFree
  <2>3. CASE t = s
    BY <1>1, <2>1, <2>2, <2>3
  <2>4. CASE u = s
    BY <1>1, <2>1, <2>2, <2>4
  <2>5. CASE t # s /\ u # s
    BY <1>1, <2>1, <2>5
  <2> QED
    BY <2>3, <2>4, <2>5
<1> QED
  BY <1>1, <1>2, <1>3 DEF DevInv

(* stop(), in whatever step it comes.                                      *)
StopDone(s) ==
  /\ stopping'[s] = TRUE
  /\ \A t \in Supervisors : t # s =>
       state'[t] = state[t] /\ stopping'[t] = stopping[t] /\ child'[t] = child[t]
  /\ \/ /\ stopping[s] /\ state'[s] = state[s] /\ child'[s] = child[s] /\ socket' = socket
     \/ /\ ~stopping[s] /\ child[s] = "none" /\ child'[s] = "none" /\ state'[s] = "stopped"
        /\ socket' = IF socket = s THEN Nothing ELSE socket
     \/ /\ ~stopping[s] /\ child[s] # "none" /\ state'[s] = "stopping" /\ socket' = socket
        /\ child'[s] = IF child[s] = "up" THEN "dying" ELSE child[s]
  /\ socket' \in Supervisors \cup {Nothing}
  /\ state' \in [Supervisors -> {"starting", "running", "stopping", "stopped"}]
  /\ stopping' \in [Supervisors -> BOOLEAN]
  /\ child' \in [Supervisors -> {"none", "up", "dying", "closed"}]

LEMMA Stops ==
  ASSUME DevInv, NEW s \in Supervisors, Dev!Stop(s)
  PROVE  StopDone(s)
<1>1. DevTypes
  BY DEF DevInv
<1>2. CASE stopping[s]
  BY <1>1, <1>2 DEF Dev!Stop, StopDone, DevTypes
<1>3. CASE ~stopping[s] /\ child[s] = "none"
  BY <1>1, <1>3 DEF Dev!Stop, StopDone, DevTypes
<1>4. CASE ~stopping[s] /\ child[s] # "none"
  BY <1>1, <1>4 DEF Dev!Stop, StopDone, DevTypes
<1> QED
  BY <1>2, <1>3, <1>4

(* The invariant after a stop(), wherever supervise() goes.                *)
LEMMA StopHolds ==
  ASSUME DevInv, NEW s \in Supervisors, Dev!Stop(s), told' = told,
         steps' \in [Supervisors -> DevSteps], failure' \in [Supervisors -> BOOLEAN],
         \A t \in Supervisors : t # s => steps'[t] = steps[t] /\ failure'[t] = failure[t],
         failure[s] => failure'[s],
         steps'[s] \notin {"none", "listen"},
         steps'[s] = "failed" \/ steps'[s] = steps[s]
  PROVE  DevInv'
<1>1. StopDone(s) /\ Supervises(s) /\ DevTypes
  BY Stops DEF DevInv
<1>2. DevTypes'
  BY <1>1 DEF StopDone, DevTypes
<1>3. SocketOf(s)
  BY <1>1 DEF StopDone, SocketOf
<1>4. \A t \in Supervisors : t # s => KeptBy(t)
  BY <1>1 DEF StopDone, KeptBy
<1>5. Supervises(s)'
  BY <1>1, FrontsAssumption DEF StopDone, Supervises, Starts, Dev!Alive, DevTypes
<1>6. Dev!Alive(s)' => Dev!Alive(s)
  BY <1>1 DEF StopDone, Dev!Alive
<1>7. ~Starts(s)'
  BY <1>1 DEF StopDone, Starts
<1> QED
  BY <1>2, <1>3, <1>4, <1>5, <1>6, <1>7, OneSupervisor

-----------------------------------------------------------------------------
(* A step that stops nobody.                                               *)
LEMMA StartHolds ==
  ASSUME DevInv, NEW s \in Supervisors,
         Dev!Up(s) \/ (Dev!Listen(s) /\ socket = Nothing)
         \/ (Dev!CheckPorts(s) /\ Dev!PortFree) \/ (Dev!Spawn(s) /\ ~stopping[s])
  PROVE  DevInv'
<1>1. DevTypes /\ Supervises(s)
  BY DEF DevInv
<1>2. CASE Dev!Up(s)
  <2>1. DevTypes' /\ SocketOf(s) /\ \A t \in Supervisors : t # s => KeptBy(t)
    BY <1>1, <1>2 DEF Dev!Up, DevTypes, DevSteps, SocketOf, KeptBy
  <2>2. Supervises(s)' /\ Dev!Alive(s)' = Dev!Alive(s) /\ steps'[s] = "listen"
    BY <1>1, <1>2 DEF Dev!Up, DevTypes, Supervises, Starts, Dev!Alive
  <2> QED
    BY <2>1, <2>2, OneSupervisor
<1>3. CASE Dev!Listen(s) /\ socket = Nothing
  <2>1. DevTypes' /\ SocketOf(s) /\ \A t \in Supervisors : t # s => KeptBy(t)
    BY <1>1, <1>3 DEF Dev!Listen, DevTypes, DevSteps, SocketOf, KeptBy
  <2>2. Supervises(s)' /\ Dev!Alive(s)' = Dev!Alive(s) /\ steps'[s] = "ports"
    BY <1>1, <1>3 DEF Dev!Listen, DevTypes, Supervises, Starts, Dev!Alive
  <2> QED
    BY <2>1, <2>2, OneSupervisor
<1>4. CASE Dev!CheckPorts(s) /\ Dev!PortFree
  <2>1. DevTypes' /\ SocketOf(s) /\ \A t \in Supervisors : t # s => KeptBy(t)
    BY <1>1, <1>4 DEF Dev!CheckPorts, DevTypes, DevSteps, SocketOf, KeptBy
  <2>2. Supervises(s)' /\ Dev!Alive(s)' = Dev!Alive(s)
    BY <1>1, <1>4 DEF Dev!CheckPorts, DevTypes, Supervises, Starts, Dev!Alive
  <2> QED
    BY <1>4, <2>1, <2>2, OneSupervisor
<1>5. CASE Dev!Spawn(s) /\ ~stopping[s]
  <2>1. DevTypes' /\ SocketOf(s) /\ \A t \in Supervisors : t # s => KeptBy(t)
    BY <1>1, <1>5 DEF Dev!Spawn, Dev!Cancelled, DevTypes, DevSteps, SocketOf, KeptBy
  <2>2. /\ steps[s] = "spawn" /\ steps'[s] = "wait" /\ child'[s] = "up"
        /\ state'[s] = state[s] /\ told'[s] = told[s] /\ failure'[s] = failure[s]
    BY <1>1, <1>5 DEF Dev!Spawn, Dev!Cancelled, DevTypes
  <2>3. Starts(s) /\ Supervises(s)'
    BY <1>1, <1>5, <2>2 DEF Supervises, Starts, Dev!Alive
  <2> QED
    BY <2>1, <2>2, <2>3, OneSupervisor
<1> QED
  BY <1>2, <1>3, <1>4, <1>5

LEMMA StartStops ==
  ASSUME DevInv, NEW s \in Supervisors,
         \/ Dev!Listen(s) /\ socket # Nothing
         \/ Dev!CheckPorts(s) /\ ~Dev!PortFree
         \/ Dev!Spawn(s) /\ stopping[s]
         \/ Dev!AskHealth(s) /\ (failure[s] \/ stopping[s])
  PROVE  DevInv'
<1>1. DevTypes
  BY DEF DevInv
<1>2. /\ Dev!Stop(s) /\ steps' = [steps EXCEPT ![s] = "failed"]
      /\ UNCHANGED <<failure, told, kills>>
  BY DEF Dev!Listen, Dev!CheckPorts, Dev!Spawn, Dev!Cancelled, Dev!AskHealth
<1>3. /\ steps' \in [Supervisors -> DevSteps] /\ steps'[s] = "failed"
      /\ \A t \in Supervisors : t # s => steps'[t] = steps[t]
  BY <1>1, <1>2 DEF DevTypes, DevSteps
<1>4. failure' \in [Supervisors -> BOOLEAN]
  BY <1>1, <1>2 DEF DevTypes
<1> QED
  BY <1>2, <1>3, <1>4, StopHolds

LEMMA HealthHolds ==
  ASSUME DevInv, NEW s \in Supervisors,
         Dev!HealthAnswered(s) \/ (Dev!AskHealth(s) /\ ~(failure[s] \/ stopping[s]))
  PROVE  DevInv'
<1>1. DevTypes /\ Supervises(s)
  BY DEF DevInv
<1>2. ASSUME NEW to \in {"asked", "wait"}, steps[s] \in {"asked", "wait"},
             steps' = [steps EXCEPT ![s] = to],
             UNCHANGED <<socket, state, stopping, child, failure, told>>
      PROVE  DevInv'
  <2>1. DevTypes' /\ SocketOf(s) /\ \A t \in Supervisors : t # s => KeptBy(t)
    BY <1>1, <1>2 DEF DevTypes, DevSteps, SocketOf, KeptBy
  <2>2. Supervises(s)' /\ Dev!Alive(s)' = Dev!Alive(s) /\ ~Starts(s)'
    BY <1>1, <1>2 DEF DevTypes, Supervises, Starts, Dev!Alive
  <2> QED
    BY <2>1, <2>2, OneSupervisor
<1>3. CASE Dev!AskHealth(s) /\ ~(failure[s] \/ stopping[s])
  BY <1>2, <1>3 DEF Dev!AskHealth
<1>4. CASE /\ Dev!HealthAnswered(s) /\ Dev!Healthy(s)
           /\ steps' = [steps EXCEPT ![s] = "runs"]
           /\ state' = [state EXCEPT ![s] = "running"] /\ told' = Dev!Told(s, "running")
           /\ UNCHANGED <<socket, stopping, child>>
  <2>1. DevTypes' /\ SocketOf(s) /\ \A t \in Supervisors : t # s => KeptBy(t)
    BY <1>1, <1>4 DEF Dev!HealthAnswered, Dev!Told, DevTypes, DevSteps, SocketOf, KeptBy
  <2>2. state[s] # "stopped"
    BY <1>1, <1>4 DEF Dev!HealthAnswered, Dev!Healthy, Supervises, Dev!Alive, DevTypes
  <2>3. "stopped" \notin told'[s]
    BY <1>1, <1>4, <2>2 DEF Dev!Told, DevTypes, Supervises
  <2>4. Supervises(s)' /\ Dev!Alive(s)' = Dev!Alive(s) /\ ~Starts(s)'
    BY <1>1, <1>4, <2>3 DEF Dev!HealthAnswered, DevTypes, Supervises, Starts, Dev!Alive
  <2> QED
    BY <2>1, <2>4, OneSupervisor
<1>5. CASE /\ Dev!HealthAnswered(s) /\ steps' = [steps EXCEPT ![s] = "wait"]
           /\ UNCHANGED <<socket, state, stopping, child, told>>
  BY <1>2, <1>5 DEF Dev!HealthAnswered
<1>6. CASE /\ Dev!HealthAnswered(s) /\ Dev!Stop(s)
           /\ steps' = [steps EXCEPT ![s] = "failed"] /\ UNCHANGED told
  <2>1. /\ steps' \in [Supervisors -> DevSteps] /\ steps'[s] = "failed"
        /\ \A t \in Supervisors : t # s => steps'[t] = steps[t]
        /\ failure' = failure /\ failure' \in [Supervisors -> BOOLEAN]
    BY <1>1, <1>6 DEF Dev!HealthAnswered, DevTypes, DevSteps
  <2> QED
    BY <1>6, <2>1, StopHolds
<1> QED
  BY <1>3, <1>4, <1>5, <1>6 DEF Dev!HealthAnswered

LEMMA EndHolds ==
  ASSUME DevInv, NEW s \in Supervisors,
         Dev!Fails(s) \/ Dev!Exits(s) \/ Dev!Kill(s) \/ Dev!DownAnswered(s) \/ Dev!Stopped(s)
  PROVE  DevInv'
<1>1. DevTypes /\ Supervises(s)
  BY DEF DevInv
<1>2. ASSUME NEW to \in {"exited", "killed"}, steps' = [steps EXCEPT ![s] = to],
             UNCHANGED <<socket, state, stopping, child, failure, told>>
      PROVE  DevInv'
  <2>1. DevTypes' /\ SocketOf(s) /\ \A t \in Supervisors : t # s => KeptBy(t)
    BY <1>1, <1>2 DEF DevTypes, DevSteps, SocketOf, KeptBy
  <2>2. Supervises(s)' /\ Dev!Alive(s)' = Dev!Alive(s) /\ ~Starts(s)'
    BY <1>1, <1>2 DEF DevTypes, Supervises, Starts, Dev!Alive
  <2> QED
    BY <2>1, <2>2, OneSupervisor
<1>3. CASE Dev!Fails(s) \/ Dev!Exits(s) \/ Dev!Kill(s)
  BY <1>2, <1>3 DEF Dev!Fails, Dev!Exits, Dev!Kill
<1>4. CASE Dev!DownAnswered(s)
  <2>1. DevTypes' /\ SocketOf(s) /\ \A t \in Supervisors : t # s => KeptBy(t)
    BY <1>1, <1>4 DEF Dev!DownAnswered, Dev!Told, DevTypes, SocketOf, KeptBy
  <2>2. Supervises(s)' /\ Dev!Alive(s)' = Dev!Alive(s) /\ Starts(s)' = Starts(s)
        /\ steps'[s] = steps[s]
    BY <1>1, <1>4 DEF Dev!DownAnswered, DevTypes, Supervises, Starts, Dev!Alive
  <2> QED
    BY <2>1, <2>2, OneSupervisor
<1>5. CASE Dev!Stopped(s)
  <2>1. DevTypes' /\ SocketOf(s) /\ \A t \in Supervisors : t # s => KeptBy(t)
    BY <1>1, <1>5 DEF Dev!Stopped, DevTypes, SocketOf, KeptBy
  <2>2. socket' # s
    BY <1>1, <1>5, FrontsAssumption DEF Dev!Stopped
  <2>3. Supervises(s)' /\ Dev!Alive(s)' = Dev!Alive(s) /\ ~Starts(s)'
    BY <1>1, <1>5, <2>2 DEF Dev!Stopped, DevTypes, Supervises, Starts, Dev!Alive
  <2> QED
    BY <2>1, <2>3, OneSupervisor
<1> QED
  BY <1>3, <1>4, <1>5

(* The services end, or somebody asks for their end.                       *)
LEMMA ServicesHold ==
  ASSUME DevInv, NEW s \in Supervisors,
         Dev!AskStop(s) \/ Dev!ChildExits(s) \/ Dev!ChildClosed(s)
  PROVE  DevInv'
<1>1. DevTypes /\ Supervises(s)
  BY DEF DevInv
<1>2. CASE Dev!AskStop(s)
  <2>1. /\ Dev!Stop(s) /\ UNCHANGED <<steps, failure, told>>
        /\ steps[s] \notin {"none", "listen"}
    BY <1>2 DEF Dev!AskStop, Dev!Lives
  <2>2. steps' \in [Supervisors -> DevSteps] /\ failure' \in [Supervisors -> BOOLEAN]
    BY <1>1, <2>1 DEF DevTypes
  <2> QED
    BY <2>1, <2>2, StopHolds
<1>3. CASE Dev!ChildExits(s)
  <2>1. /\ UNCHANGED <<steps, told>> /\ Dev!Alive(s)
        /\ failure' = [failure EXCEPT ![s] = TRUE]
    BY <1>3 DEF Dev!ChildExits
  <2>2. /\ failure' \in [Supervisors -> BOOLEAN] /\ failure'[s] = TRUE
        /\ \A t \in Supervisors : t # s => failure'[t] = failure[t]
    BY <1>1, <2>1 DEF DevTypes
  <2>3. steps[s] \notin {"none", "listen", "ports", "spawn"}
    BY <1>1, <2>1 DEF Supervises, Dev!Alive
  <2>4. CASE Dev!Lives(s) /\ state[s] = "running"
    <3>1. Dev!Stop(s)
      BY <1>3, <2>4 DEF Dev!ChildExits
    <3>2. steps' \in [Supervisors -> DevSteps]
      BY <1>1, <2>1 DEF DevTypes
    <3> QED
      BY <2>1, <2>2, <2>3, <3>1, <3>2, StopHolds
  <2>5. CASE ~(Dev!Lives(s) /\ state[s] = "running")
    <3>1. UNCHANGED <<socket, state, stopping, child>>
      BY <1>3, <2>5 DEF Dev!ChildExits
    <3>2. DevTypes' /\ SocketOf(s) /\ \A t \in Supervisors : t # s => KeptBy(t)
      BY <1>1, <2>1, <2>2, <3>1 DEF DevTypes, SocketOf, KeptBy
    <3>3. Supervises(s)' /\ Dev!Alive(s)' = Dev!Alive(s) /\ ~Starts(s)'
      BY <1>1, <2>1, <2>2, <2>3, <3>1 DEF Supervises, Starts, Dev!Alive
    <3> QED
      BY <3>2, <3>3, OneSupervisor
  <2> QED
    BY <2>4, <2>5
<1>4. CASE Dev!ChildClosed(s)
  <2>1. DevTypes' /\ SocketOf(s) /\ \A t \in Supervisors : t # s => KeptBy(t)
    BY <1>1, <1>4 DEF Dev!ChildClosed, DevTypes, SocketOf, KeptBy
  <2>2. Supervises(s)' /\ ~Dev!Alive(s)' /\ Starts(s)' = Starts(s) /\ steps'[s] = steps[s]
    BY <1>1, <1>4 DEF Dev!ChildClosed, DevTypes, Supervises, Starts, Dev!Alive
  <2> QED
    BY <2>1, <2>2, OneSupervisor
<1> QED
  BY <1>2, <1>3, <1>4

LEMMA RemoveHolds ==
  ASSUME DevInv, Dev!RemoveSocket
  PROVE  DevInv'
<1>1. /\ DevTypes /\ socket \in Supervisors /\ steps[socket] = "killed" /\ socket' = Nothing
      /\ UNCHANGED <<steps, state, stopping, child, failure, told>>
  BY DEF DevInv, DevTypes, Dev!RemoveSocket
<1>2. PICK s \in Supervisors : s = socket
  BY <1>1
<1>3. DevTypes' /\ SocketOf(s) /\ \A t \in Supervisors : t # s => KeptBy(t)
  BY <1>1, <1>2 DEF DevTypes, SocketOf, KeptBy
<1>4. Supervises(s)' /\ Dev!Alive(s)' = Dev!Alive(s) /\ ~Starts(s)'
  BY <1>1, <1>2, FrontsAssumption DEF DevInv, Supervises, Starts, Dev!Alive
<1> QED
  BY <1>3, <1>4, OneSupervisor

LEMMA DevNext == DevInv /\ [Dev!Next]_(Dev!devVars) => DevInv'
<1> SUFFICES ASSUME DevInv, [Dev!Next]_(Dev!devVars) PROVE DevInv'
  OBVIOUS
<1>1. CASE UNCHANGED Dev!devVars
  BY <1>1 DEF Dev!devVars, DevInv, DevTypes, Supervises, Starts, PortsFree, OneGroup,
              Dev!PortFree, Dev!Alive
<1>2. ASSUME NEW s \in Supervisors,
             \/ Dev!Up(s) \/ Dev!Listen(s) \/ Dev!CheckPorts(s) \/ Dev!Spawn(s)
             \/ Dev!AskHealth(s) \/ Dev!HealthAnswered(s)
      PROVE  DevInv'
  BY <1>2, StartHolds, StartStops, HealthHolds
<1>3. ASSUME NEW s \in Supervisors,
             \/ Dev!Fails(s) \/ Dev!Exits(s) \/ Dev!Stopped(s) \/ Dev!AskStop(s)
             \/ Dev!DownAnswered(s) \/ Dev!ChildExits(s) \/ Dev!ChildClosed(s)
             \/ Dev!Kill(s)
      PROVE  DevInv'
  BY <1>3, EndHolds, ServicesHold
<1>4. CASE Dev!RemoveSocket
  BY <1>4, RemoveHolds
<1> QED
  BY <1>1, <1>2, <1>3, <1>4 DEF Dev!Next

LEMMA DevKept == FrontsSpec => []DevInv
<1>1. Dev!Spec => []DevInv
  BY DevStart, DevNext, PTL DEF Dev!Spec
<1> QED
  BY <1>1, DevAlone, PTL

(* Who reports "stopped" has no services left and keeps nobody else from   *)
(* starting, and does not turn back to "running" once `down` was told so;  *)
(* no two supervisors have services at a time, however many are started,   *)
(* stopped and killed.                                                     *)
THEOREM StoppedServicesAreDown == FrontsSpec => []StoppedIsDown
<1>1. DevInv => StoppedIsDown
  <2> SUFFICES ASSUME DevInv PROVE StoppedIsDown
    OBVIOUS
  <2> QED
    BY DEF DevInv, OneGroup, Supervises, StoppedIsDown, Dev!StoppedIsDown
<1> QED
  BY <1>1, DevKept, PTL

-----------------------------------------------------------------------------
\* The editor of a tool

FormKept == form.open =>
  /\ form.connect => "connection" \in filled \/ form.item = Tool!Missing
  /\ "rule" \notin filled => Tool!Settlement(rule) = form.item.rule
  /\ "details" \notin filled => form.details = form.item.details
  /\ "roles" \notin filled => form.roles = form.item.roles
IconChosen == ~picture.reading /\ ~picture.error => form.icon = picked
ReadsChosen == \A read \in reads :
  read.revision <= picture.revision /\ (read.revision = picture.revision => read.icon = picked)
Verdict == <<Tool!Settlement(rule), rule.sample>>
TrialOfRule ==
  /\ trial.pc = "sent" => trial.of = Verdict
  /\ trial.shown # <<>> => trial.shown = Verdict
(* What is always sent of a tool, and the part of it a save leaves alone.  *)
Always == {"details", "roles", "rule", "enabled"}
AsOpened(opened, body) ==
  /\ "rule" \notin filled => body.rule = opened.rule
  /\ "details" \notin filled => body.details = opened.details
  /\ "roles" \notin filled => body.roles = opened.roles
  /\ opened # Tool!Missing => body.enabled = opened.enabled
SavesWhatIsShown == saving.pc # "idle" =>
  /\ form.open /\ saving.body.icon = picked /\ Always \subseteq saving.sends
  /\ "connection" \in saving.sends => "connection" \in filled \/ form.item = Tool!Missing
  /\ AsOpened(form.item, saving.body)
TogglesOnly == toggling.pc # "idle" => toggling.sends = {"details", "enabled"}

ToolInv ==
  /\ Tool!TypeOK /\ FormKept /\ IconChosen /\ ReadsChosen /\ TrialOfRule
  /\ SavesWhatIsShown /\ TogglesOnly

LEMMA ToolAlone == FrontsSpec => Tool!Spec
<1>1. FrontsInit => Tool!Init
  BY DEF FrontsInit
<1>2. [FrontsNext]_frontVars => [Tool!Next]_(Tool!formVars)
  BY DEF FrontsNext, frontVars, OnSession, OnPaged, OnSkill, OnTool, OnCredit, OnSecret,
         OnSettings, OnDesk, OnUpdate, OnDev, ofTool, Tool!formVars, Tool!editor, Tool!bounds
<1> QED
  BY <1>1, <1>2, PTL DEF FrontsSpec, Tool!Spec

(* Records with known fields.                                              *)
LEMMA ToolRecords ==
  /\ Tool!Missing \in Tool!Body /\ Tool!Missing.icon = Nothing
  /\ Tool!NoPicture \in [revision : Nat, reading : BOOLEAN, error : BOOLEAN]
  /\ Tool!NoPicture.revision = 0 /\ Tool!NoPicture.reading = FALSE
  /\ Tool!NoPicture.error = FALSE
  /\ Tool!Idle \in Tool!Mutation /\ Tool!Idle.pc = "idle"
  /\ Tool!Untried \in [pc : {"idle", "sent"}, of : Tool!Judged, shown : Tool!Judged]
  /\ Tool!Untried.pc = "idle" /\ Tool!Untried.shown = <<>>
BY DEF Tool!Missing, Tool!Body, Tool!Rules, Tool!Answers, Tool!NoPicture, Tool!Idle, Tool!Mutation,
       Tool!Untried, Tool!Judged

LEMMA ShutTyped ==
  /\ Tool!Shut \in [open : BOOLEAN, item : Tool!Body, icon : Icons \cup {Nothing},
                    details : Tool!Answers, roles : Tool!Answers, connect : BOOLEAN]
  /\ Tool!Shut.open = FALSE /\ Tool!Shut.icon = Nothing
BY ToolRecords DEF Tool!Shut, Tool!Answers

RuleType == [mode : {"default", "path", "json"}, path : Tool!Rules,
              json : Tool!Rules \cup {"theirs"}, sample : 0..1]
LEMMA DraftTyped ==
  /\ Tool!NoDraft \in RuleType
  /\ \A r \in (Tool!Rules \ {"bad"}) \cup {"theirs"} :
       Tool!Draft(r) \in RuleType /\ Tool!Settlement(Tool!Draft(r)) = r
<1>1. Tool!NoDraft \in RuleType
  BY DEF Tool!NoDraft, Tool!ByDefault, RuleType, Tool!Rules
<1>2. ASSUME NEW r \in (Tool!Rules \ {"bad"}) \cup {"theirs"}
      PROVE  Tool!Draft(r) \in RuleType /\ Tool!Settlement(Tool!Draft(r)) = r
  <2>1. PICK mode \in {"default", "path", "json"} :
          /\ r = "default" => mode = "default"
          /\ r = "code" => mode = "path"
          /\ r \notin {"default", "code"} => mode = "json"
          /\ mode = CASE r = "default" -> "default" [] r = "code" -> "path" [] OTHER -> "json"
    BY DEF Tool!ByDefault
  <2>2. PICK path \in Tool!Rules : path = IF r = "theirs" THEN "code" ELSE r
    BY DEF Tool!Rules
  <2>3. Tool!Draft(r) = [Tool!NoDraft EXCEPT !.mode = mode, !.path = path, !.json = r]
    BY <2>1, <2>2 DEF Tool!Draft, Tool!ByDefault
  <2>4. /\ Tool!Draft(r) \in RuleType /\ Tool!Draft(r).mode = mode
        /\ Tool!Draft(r).path = path /\ Tool!Draft(r).json = r
    BY <1>1, <1>2, <2>3 DEF RuleType
  <2> QED
    BY <2>1, <2>2, <2>4 DEF Tool!Settlement, Tool!ByDefault
<1> QED
  BY <1>1, <1>2

LEMMA ToolStart == Tool!Init => ToolInv
<1> SUFFICES ASSUME Tool!Init PROVE ToolInv
  OBVIOUS
<1>1. tool \in Tool!Body
  BY DEF Tool!Init, Tool!Body, Tool!Rules, Tool!Answers
<1>2. 0 \in 0..MaxToolEdits /\ 0 \in 0..MaxRivals
  BY BoundsAssumption
<1>3. Tool!TypeOK
  BY <1>1, <1>2, ToolRecords, ShutTyped, DraftTyped DEF Tool!Init, Tool!TypeOK, RuleType
<1>4. FormKept /\ IconChosen /\ ReadsChosen /\ TrialOfRule /\ SavesWhatIsShown /\ TogglesOnly
  BY ToolRecords, ShutTyped DEF Tool!Init, FormKept, IconChosen, ReadsChosen, TrialOfRule,
     SavesWhatIsShown, TogglesOnly
<1> QED
  BY <1>3, <1>4 DEF ToolInv

(* What the server stores: a field of the body, or the one it had.         *)
LEMMA StoredTyped ==
  ASSUME NEW old \in Tool!Body, NEW body \in Tool!Body, NEW sent \in SUBSET DOMAIN Tool!Missing
  PROVE  /\ Tool!Stored(old, body, sent) \in Tool!Body
         /\ Tool!Stored(old, body, sent).rule = IF "rule" \in sent THEN body.rule ELSE old.rule
         /\ Tool!Stored(old, body, sent).connection =
              IF "connection" \in sent THEN body.connection ELSE old.connection
         /\ Tool!Stored(old, body, sent).icon = IF "icon" \in sent THEN body.icon ELSE old.icon
         /\ Tool!Stored(old, body, sent).roles = IF "roles" \in sent THEN body.roles ELSE old.roles
         /\ "details" \in sent => Tool!Stored(old, body, sent).details = body.details
         /\ "enabled" \in sent => Tool!Stored(old, body, sent).enabled = body.enabled
<1>1. /\ "icon" \in DOMAIN body /\ "rule" \in DOMAIN body /\ "connection" \in DOMAIN body
      /\ "details" \in DOMAIN body /\ "enabled" \in DOMAIN body /\ "roles" \in DOMAIN body
      /\ DOMAIN body = {"icon", "rule", "connection", "details", "roles", "enabled"}
  BY DEF Tool!Body
<1>2. Tool!Stored(old, body, sent) =
        [icon |-> IF "icon" \in sent THEN body.icon ELSE old.icon,
         rule |-> IF "rule" \in sent THEN body.rule ELSE old.rule,
         connection |-> IF "connection" \in sent THEN body.connection ELSE old.connection,
         details |-> IF "details" \in sent THEN body.details ELSE old.details,
         roles |-> IF "roles" \in sent THEN body.roles ELSE old.roles,
         enabled |-> IF "enabled" \in sent THEN body.enabled ELSE old.enabled]
  BY <1>1 DEF Tool!Stored
<1> QED
  BY <1>2 DEF Tool!Body

(* Steps that leave the form alone.                                        *)
LEMMA AroundForm ==
  ASSUME ToolInv, UNCHANGED <<form, reads, picture, rule, trial, saving, picked, filled>>,
         tool' \in Tool!Body, toolRow' \in Tool!Body, toggling' \in Tool!Mutation, TogglesOnly',
         formEdits' \in 0..MaxToolEdits, formRivals' \in 0..MaxRivals
  PROVE  ToolInv'
BY DEF ToolInv, Tool!TypeOK, FormKept, IconChosen, ReadsChosen, TrialOfRule, SavesWhatIsShown,
       AsOpened, Verdict, Tool!Settlement

LEMMA OtherAdminHolds ==
  ASSUME ToolInv, Tool!OtherAdministrator \/ Tool!RelistTools
  PROVE  ToolInv'
<1>1. CASE Tool!OtherAdministrator
  <2>1. tool' \in Tool!Body
    <3>1. tool \in Tool!Body
      BY DEF ToolInv, Tool!TypeOK
    <3>2. CASE tool' = Tool!Missing
      BY <3>2, ToolRecords
    <3>3. CASE tool' = [tool EXCEPT !.enabled = ~@, !.details = "theirs"]
      BY <3>1, <3>3 DEF Tool!Body, Tool!Answers
    <3>4. ASSUME NEW icon \in Icons,
                 tool' = [icon |-> icon, rule |-> "theirs", enabled |-> TRUE,
                          connection |-> "theirs", details |-> "theirs", roles |-> "theirs"]
          PROVE  tool' \in Tool!Body
      BY <3>4 DEF Tool!Body, Tool!Answers
    <3> QED
      BY <1>1, <3>2, <3>3, <3>4 DEF Tool!OtherAdministrator
  <2>2. formRivals' \in 0..MaxRivals
    BY <1>1, BoundsAssumption DEF Tool!OtherAdministrator, ToolInv, Tool!TypeOK
  <2> QED
    BY <1>1, <2>1, <2>2, AroundForm DEF Tool!OtherAdministrator, Tool!editor, ToolInv,
       Tool!TypeOK, TogglesOnly
<1>2. CASE Tool!RelistTools
  BY <1>2, AroundForm DEF Tool!RelistTools, Tool!editor, Tool!bounds, ToolInv, Tool!TypeOK,
     TogglesOnly
<1> QED
  BY <1>1, <1>2

LEMMA ToggleHolds ==
  ASSUME ToolInv, Tool!Toggle \/ Tool!ServeToggle \/ Tool!Toggled
  PROVE  ToolInv'
<1>1. /\ tool \in Tool!Body /\ toolRow \in Tool!Body /\ toggling \in Tool!Mutation
      /\ formEdits \in 0..MaxToolEdits /\ formRivals \in 0..MaxRivals /\ MaxToolEdits \in Nat
  BY BoundsAssumption DEF ToolInv, Tool!TypeOK
<1>2. CASE Tool!Toggle
  <2>1. formEdits' \in 0..MaxToolEdits
    BY <1>1, <1>2 DEF Tool!Toggle
  <2>2. toggling' \in Tool!Mutation /\ TogglesOnly'
    <3> DEFINE body == [toolRow EXCEPT !.enabled = ~@]
    <3>1. body \in Tool!Body
      BY <1>1 DEF Tool!Body
    <3> HIDE DEF body
    <3>2. toggling' = [pc |-> "sent", body |-> body, sends |-> {"details", "enabled"}]
      BY <1>2 DEF Tool!Toggle, body
    <3>3. {"details", "enabled"} \in SUBSET DOMAIN Tool!Missing
      BY DEF Tool!Missing
    <3> QED
      BY <3>1, <3>2, <3>3 DEF Tool!Mutation, TogglesOnly
  <2> QED
    BY <1>1, <1>2, <2>1, <2>2, AroundForm DEF Tool!Toggle, Tool!editor
<1>3. CASE Tool!ServeToggle
  <2>1. tool' \in Tool!Body
    BY <1>1, <1>3, StoredTyped DEF Tool!ServeToggle, Tool!Write, Tool!Mutation
  <2>2. toggling' \in Tool!Mutation /\ TogglesOnly'
    BY <1>1, <1>3 DEF Tool!ServeToggle, Tool!Mutation, TogglesOnly, ToolInv
  <2> QED
    BY <1>1, <1>3, <2>1, <2>2, AroundForm DEF Tool!ServeToggle, Tool!editor, Tool!bounds
<1>4. CASE Tool!Toggled
  BY <1>1, <1>4, AroundForm, ToolRecords DEF Tool!Toggled, Tool!editor, Tool!bounds, TogglesOnly
<1> QED
  BY <1>2, <1>3, <1>4

-----------------------------------------------------------------------------
(* The form changes; the mutations and the rows do not.                    *)
FormType == [open : BOOLEAN, item : Tool!Body, icon : Icons \cup {Nothing},
             details : Tool!Answers, roles : Tool!Answers, connect : BOOLEAN]
PictureType == [revision : Nat, reading : BOOLEAN, error : BOOLEAN]
TrialType == [pc : {"idle", "sent"}, of : Tool!Judged, shown : Tool!Judged]

LEMMA ToolFields ==
  ASSUME ToolInv
  PROVE  /\ tool \in Tool!Body /\ toolRow \in Tool!Body
         /\ form \in FormType /\ reads \subseteq [revision : Nat, icon : Icons]
         /\ picture \in PictureType /\ rule \in RuleType /\ trial \in TrialType
         /\ saving \in Tool!Mutation /\ toggling \in Tool!Mutation
         /\ picked \in Icons \cup {Nothing}
         /\ filled \subseteq {"details", "roles", "connection", "rule"}
         /\ formEdits \in 0..MaxToolEdits /\ formRivals \in 0..MaxRivals
BY DEF ToolInv, Tool!TypeOK, FormType, PictureType, RuleType, TrialType

LEMMA FormHolds ==
  ASSUME ToolInv, UNCHANGED <<tool, toolRow, toggling, formRivals>>,
         form' \in FormType, reads' \subseteq [revision : Nat, icon : Icons],
         picture' \in PictureType, rule' \in RuleType, trial' \in TrialType,
         saving' \in Tool!Mutation, picked' \in Icons \cup {Nothing},
         filled' \subseteq {"details", "roles", "connection", "rule"}, formEdits' \in 0..MaxToolEdits,
         FormKept', IconChosen', ReadsChosen', TrialOfRule', SavesWhatIsShown'
  PROVE  ToolInv'
BY DEF ToolInv, Tool!TypeOK, TogglesOnly, FormType, PictureType, RuleType, TrialType

LEMMA EditCounted ==
  ASSUME ToolInv, formEdits < MaxToolEdits, formEdits' = formEdits + 1
  PROVE  formEdits' \in 0..MaxToolEdits
BY BoundsAssumption, ToolFields

LEMMA OpenHolds ==
  ASSUME ToolInv, Tool!EditTool \/ Tool!AddTool
  PROVE  ToolInv'
<1>1. PICK chosen \in Tool!Body : Tool!OpenForm(chosen)
  BY ToolFields, ToolRecords DEF Tool!EditTool, Tool!AddTool
<1>2. /\ UNCHANGED <<tool, toolRow, saving, toggling, formRivals>>
      /\ formEdits' \in 0..MaxToolEdits /\ saving' \in Tool!Mutation
  BY <1>1, EditCounted, ToolFields DEF Tool!OpenForm, Tool!outside
<1>3. /\ form' \in FormType /\ form'.open = TRUE /\ form'.item = chosen
      /\ form'.icon = chosen.icon /\ form'.connect = (chosen = Tool!Missing)
      /\ form'.details = chosen.details /\ form'.roles = chosen.roles
  <2> DEFINE new == (chosen = Tool!Missing)
  <2>1. form' = [Tool!Shut EXCEPT !.open = TRUE, !.item = chosen, !.icon = chosen.icon,
                                  !.details = chosen.details, !.roles = chosen.roles,
                                  !.connect = new]
    BY <1>1 DEF Tool!OpenForm
  <2>2. /\ new \in BOOLEAN /\ chosen.icon \in Icons \cup {Nothing}
        /\ chosen.details \in Tool!Answers /\ chosen.roles \in Tool!Answers
    BY <1>1 DEF Tool!Body
  <2>3. Tool!Shut \in FormType
    BY ShutTyped DEF FormType
  <2> HIDE DEF new
  <2>4. /\ form' \in FormType /\ form'.open = TRUE /\ form'.item = chosen
        /\ form'.icon = chosen.icon /\ form'.connect = new
        /\ form'.details = chosen.details /\ form'.roles = chosen.roles
    BY <2>1, <2>2, <2>3 DEF FormType
  <2> QED
    BY <2>4 DEF new
<1>4. /\ picture' = Tool!NoPicture /\ picture' \in PictureType /\ reads' = {}
      /\ trial' = Tool!Untried /\ trial' \in TrialType
      /\ picked' = chosen.icon /\ picked' \in Icons \cup {Nothing} /\ filled' = {}
  BY <1>1, ToolRecords DEF Tool!OpenForm, Tool!Body, PictureType, TrialType
<1>5. rule' \in RuleType /\ Tool!Settlement(rule') = chosen.rule
  BY <1>1, DraftTyped DEF Tool!OpenForm, Tool!Body
<1>6. FormKept'
  BY <1>3, <1>4, <1>5 DEF FormKept, Tool!Settlement
<1>7. IconChosen' /\ ReadsChosen' /\ TrialOfRule'
  BY <1>3, <1>4, ToolRecords DEF IconChosen, ReadsChosen, TrialOfRule
<1>8. SavesWhatIsShown'
  BY <1>1, <1>2 DEF Tool!OpenForm, ToolInv, SavesWhatIsShown
<1> QED
  BY <1>2, <1>3, <1>4, <1>5, <1>6, <1>7, <1>8, FormHolds

LEMMA CloseHolds ==
  ASSUME ToolInv, Tool!CloseForm \/ Tool!Saved
  PROVE  ToolInv'
<1>1. /\ Tool!Close /\ UNCHANGED <<tool, toolRow, toggling, formRivals, formEdits>>
      /\ saving' \in Tool!Mutation /\ saving'.pc = "idle"
  BY ToolFields, ToolRecords DEF Tool!CloseForm, Tool!Saved, Tool!Editing, Tool!outside,
     Tool!bounds
<1>2. /\ form' = Tool!Shut /\ form' \in FormType /\ reads' = {}
      /\ trial' = Tool!Untried /\ trial' \in TrialType /\ rule' \in RuleType
      /\ picture' = Tool!NoPicture /\ picture' \in PictureType
      /\ picked' = Nothing /\ filled' = {}
  BY <1>1, ToolRecords, ShutTyped, DraftTyped DEF Tool!Close, FormType, TrialType, PictureType
<1>3. FormKept' /\ IconChosen' /\ ReadsChosen' /\ TrialOfRule'
  BY <1>2, ToolRecords, ShutTyped DEF FormKept, IconChosen, ReadsChosen, TrialOfRule
<1>4. SavesWhatIsShown'
  BY <1>1 DEF SavesWhatIsShown
<1> QED
  BY <1>1, <1>2, <1>3, <1>4, ToolFields, FormHolds

LEMMA FillsHold ==
  ASSUME ToolInv, Tool!Describe \/ Tool!TickConnection
  PROVE  ToolInv'
<1>1. /\ UNCHANGED <<tool, toolRow, saving, toggling, formRivals>> /\ saving.pc = "idle"
      /\ UNCHANGED <<reads, picture, rule, trial, picked>>
      /\ formEdits' \in 0..MaxToolEdits
  BY EditCounted DEF Tool!Describe, Tool!TickConnection, Tool!Edited, Tool!Editing, Tool!outside
<1>2. /\ form' \in FormType /\ filled' \subseteq {"details", "roles", "connection", "rule"}
      /\ form'.icon = form.icon /\ FormKept'
  <2>1. form \in FormType /\ filled \subseteq {"details", "roles", "connection", "rule"} /\ FormKept
        /\ "mine" \in Tool!Answers
    BY ToolFields DEF ToolInv, Tool!Answers
  <2>2. CASE Tool!Describe
    <3>1. /\ form' \in FormType /\ form'.icon = form.icon /\ form'.open = form.open
          /\ form'.item = form.item /\ form'.connect = form.connect
          /\ \/ form'.roles = form.roles /\ filled' = filled \cup {"details"}
             \/ form'.details = form.details /\ filled' = filled \cup {"roles"}
      BY <2>1, <2>2 DEF Tool!Describe, FormType
    <3> QED
      BY <1>1, <2>1, <3>1 DEF FormKept, Tool!Settlement
  <2>3. CASE Tool!TickConnection
    <3>1. /\ form' \in FormType /\ form'.icon = form.icon /\ form'.open = form.open
          /\ form'.item = form.item /\ form'.connect = ~form.connect
          /\ form'.details = form.details /\ form'.roles = form.roles
          /\ filled' = IF form.connect THEN filled \ {"connection"}
                       ELSE filled \cup {"connection"}
      BY <2>1, <2>3 DEF Tool!TickConnection, FormType
    <3> QED
      BY <1>1, <2>1, <3>1 DEF FormKept, Tool!Settlement
  <2> QED
    BY <2>2, <2>3
<1>3. /\ IconChosen' /\ ReadsChosen' /\ TrialOfRule' /\ SavesWhatIsShown'
  BY <1>1, <1>2 DEF ToolInv, IconChosen, ReadsChosen, TrialOfRule, Verdict, Tool!Settlement,
     SavesWhatIsShown
<1> QED
  BY <1>1, <1>2, <1>3, ToolFields, FormHolds

(* The icon: what is chosen now outdates the files that are still read.    *)
IconAround ==
  UNCHANGED <<tool, toolRow, saving, toggling, formRivals, rule, trial, filled>>
LEMMA IconHolds ==
  ASSUME ToolInv, IconAround, formEdits' \in 0..MaxToolEdits,
         form' \in FormType, form'.open = form.open, form'.item = form.item,
         form'.connect = form.connect, form'.details = form.details, form'.roles = form.roles,
         reads' \subseteq [revision : Nat, icon : Icons],
         picture' \in PictureType, picked' \in Icons \cup {Nothing},
         picked' = picked \/ saving.pc = "idle", IconChosen', ReadsChosen'
  PROVE  ToolInv'
<1>1. FormKept' /\ TrialOfRule' /\ SavesWhatIsShown'
  BY DEF ToolInv, IconAround, FormKept, TrialOfRule, Verdict, Tool!Settlement, SavesWhatIsShown,
     AsOpened
<1> QED
  BY <1>1, ToolFields, FormHolds DEF IconAround

LEMMA ReportTyped ==
  ASSUME ToolInv, NEW now \in BOOLEAN, NEW error \in BOOLEAN, Tool!Report(now, error)
  PROVE  /\ picture' \in PictureType /\ picture'.revision = picture.revision + 1
         /\ picture'.reading = now /\ picture'.error = error
BY ToolFields DEF Tool!Report, PictureType

LEMMA ReadsBefore ==
  ASSUME ToolInv
  PROVE  /\ picture.revision \in Nat
         /\ \A read \in reads : read.revision \in Nat /\ read.revision < picture.revision + 1
BY ToolFields DEF ToolInv, ReadsChosen, PictureType

LEMMA PicksHold ==
  ASSUME ToolInv, NEW icon \in Icons \cup {Nothing},
         Tool!TypeIcon(icon) \/ Tool!PickUnusable \/ (icon \in Icons /\ Tool!PickFile(icon))
  PROVE  ToolInv'
<1>1. /\ IconAround /\ formEdits' \in 0..MaxToolEdits /\ saving.pc = "idle"
  BY EditCounted DEF Tool!TypeIcon, Tool!PickUnusable, Tool!PickFile, Tool!Edited, Tool!Editing,
     Tool!icons, Tool!outside, IconAround
<1>2. CASE Tool!TypeIcon(icon)
  <2>1. /\ form' \in FormType /\ form'.open = form.open /\ form'.item = form.item
        /\ form'.connect = form.connect /\ form'.details = form.details
        /\ form'.roles = form.roles /\ form'.icon = icon /\ picked' = icon /\ reads' = reads
    BY <1>2, ToolFields DEF Tool!TypeIcon, FormType
  <2>2. picture' \in PictureType /\ picture'.revision = picture.revision + 1
    BY <1>2, ReportTyped DEF Tool!TypeIcon
  <2>3. IconChosen' /\ ReadsChosen'
    BY <2>1, <2>2, ReadsBefore DEF IconChosen, ReadsChosen
  <2> QED
    BY <1>1, <2>1, <2>2, <2>3, ToolFields, IconHolds
<1>3. CASE Tool!PickUnusable
  <2>1. form' = form /\ reads' = reads /\ picked' = picked
    BY <1>3 DEF Tool!PickUnusable
  <2>2. /\ picture' \in PictureType /\ picture'.revision = picture.revision + 1
        /\ picture'.error = TRUE
    BY <1>3, ReportTyped DEF Tool!PickUnusable
  <2>3. IconChosen' /\ ReadsChosen'
    BY <2>1, <2>2, ReadsBefore DEF IconChosen, ReadsChosen
  <2> QED
    BY <1>1, <2>1, <2>2, <2>3, ToolFields, IconHolds
<1>4. CASE icon \in Icons /\ Tool!PickFile(icon)
  <2>1. /\ form' = form /\ picked' = icon
        /\ reads' = reads \cup {[revision |-> picture.revision + 1, icon |-> icon]}
    BY <1>4 DEF Tool!PickFile
  <2>2. /\ picture' \in PictureType /\ picture'.revision = picture.revision + 1
        /\ picture'.reading = TRUE
    BY <1>4, ReportTyped DEF Tool!PickFile
  <2>3. reads' \subseteq [revision : Nat, icon : Icons]
    BY <1>4, <2>1, ToolFields, ReadsBefore
  <2>4. IconChosen' /\ ReadsChosen'
    BY <2>1, <2>2, ReadsBefore DEF IconChosen, ReadsChosen
  <2> QED
    BY <1>1, <1>4, <2>1, <2>2, <2>3, <2>4, ToolFields, IconHolds
<1> QED
  BY <1>2, <1>3, <1>4

LEMMA FilesHold ==
  ASSUME ToolInv, NEW read \in reads, Tool!FileRead(read) \/ Tool!FileFails(read)
  PROVE  ToolInv'
<1>1. /\ IconAround /\ picked' = picked /\ formEdits' \in 0..MaxToolEdits
      /\ reads' = reads \ {read} /\ reads' \subseteq [revision : Nat, icon : Icons]
  BY ToolFields DEF Tool!FileRead, Tool!FileFails, Tool!icons, Tool!outside, IconAround
<1>2. CASE ~Tool!Latest(read)
  <2>1. form' = form /\ picture' = picture
    BY <1>2 DEF Tool!FileRead, Tool!FileFails
  <2>2. IconChosen' /\ ReadsChosen'
    BY <1>1, <2>1 DEF ToolInv, IconChosen, ReadsChosen
  <2> QED
    BY <1>1, <2>1, <2>2, ToolFields, IconHolds
<1>3. CASE Tool!Latest(read) /\ Tool!FileRead(read)
  <2>1. read.icon = picked /\ read.icon \in Icons
    BY <1>3, ToolFields DEF Tool!Latest, ToolInv, ReadsChosen
  <2>2. /\ picture' \in PictureType /\ picture'.revision = picture.revision
        /\ form' \in FormType /\ form'.open = form.open /\ form'.item = form.item
        /\ form'.connect = form.connect /\ form'.details = form.details
        /\ form'.roles = form.roles /\ form'.icon = read.icon
    BY <1>3, <2>1, ToolFields DEF Tool!FileRead, PictureType, FormType
  <2>3. IconChosen' /\ ReadsChosen'
    BY <1>1, <2>1, <2>2 DEF ToolInv, IconChosen, ReadsChosen
  <2> QED
    BY <1>1, <2>2, <2>3, ToolFields, IconHolds
<1>4. CASE Tool!Latest(read) /\ Tool!FileFails(read)
  <2>1. /\ form' = form /\ picture' \in PictureType
        /\ picture'.revision = picture.revision /\ picture'.error = TRUE
    BY <1>4, ToolFields DEF Tool!FileFails, PictureType
  <2>2. IconChosen' /\ ReadsChosen'
    BY <1>1, <2>1 DEF ToolInv, IconChosen, ReadsChosen
  <2> QED
    BY <1>1, <2>1, <2>2, ToolFields, IconHolds
<1> QED
  BY <1>2, <1>3, <1>4

(* The rule: whatever changes it takes the verdict from the screen.        *)
RuleAround ==
  UNCHANGED <<tool, toolRow, saving, toggling, formRivals, form, reads, picture, picked>>
LEMMA RuleHolds ==
  ASSUME ToolInv, RuleAround, formEdits' \in 0..MaxToolEdits, rule' \in RuleType,
         trial' \in TrialType, filled' = filled \/ filled' = filled \cup {"rule"},
         (rule' = rule /\ filled' = filled) \/ saving.pc = "idle",
         "rule" \in filled' \/ Tool!Settlement(rule)' = Tool!Settlement(rule), TrialOfRule'
  PROVE  ToolInv'
<1>1. filled' \subseteq {"details", "roles", "connection", "rule"}
  BY ToolFields
<1>2. FormKept' /\ IconChosen' /\ ReadsChosen'
  BY DEF ToolInv, RuleAround, FormKept, IconChosen, ReadsChosen
<1>3. SavesWhatIsShown'
  BY DEF ToolInv, RuleAround, SavesWhatIsShown, AsOpened
<1> QED
  BY <1>1, <1>2, <1>3, ToolFields, FormHolds DEF RuleAround

LEMMA UntriedHolds ==
  ASSUME ToolInv, RuleAround, formEdits' \in 0..MaxToolEdits, rule' \in RuleType,
         trial' = Tool!Untried, filled' = filled \/ filled' = filled \cup {"rule"},
         saving.pc = "idle",
         "rule" \in filled' \/ Tool!Settlement(rule)' = Tool!Settlement(rule)
  PROVE  ToolInv'
<1>1. trial' \in TrialType /\ TrialOfRule'
  BY ToolRecords DEF TrialType, TrialOfRule
<1> QED
  BY <1>1, RuleHolds

LEMMA RulesHold ==
  ASSUME ToolInv,
         \/ \E text \in {"code", "other", "bad"} : Tool!ChangeRule(text)
         \/ \E mode \in {"default", "path", "json"} : Tool!ChangeMode(mode)
         \/ Tool!ChangeSample
  PROVE  ToolInv'
<1>1. /\ RuleAround /\ saving.pc = "idle" /\ formEdits' \in 0..MaxToolEdits
  BY EditCounted DEF Tool!ChangeRule, Tool!ChangeMode, Tool!ChangeSample, Tool!Edited,
     Tool!Editing, Tool!rules, Tool!outside, RuleAround
<1>2. rule \in RuleType
  BY ToolFields
<1>3. ASSUME NEW text \in {"code", "other", "bad"}, Tool!ChangeRule(text) PROVE ToolInv'
  <2>1. rule' \in RuleType
    BY <1>2, <1>3 DEF Tool!ChangeRule, RuleType, Tool!Rules
  <2> QED
    BY <1>1, <1>3, <2>1, UntriedHolds DEF Tool!ChangeRule, Tool!Reset
<1>4. ASSUME NEW mode \in {"default", "path", "json"}, Tool!ChangeMode(mode) PROVE ToolInv'
  <2>1. filled' = filled \cup {"rule"}
    BY <1>4 DEF Tool!ChangeMode
  <2>2. CASE "json" \in {mode, rule.mode} /\ Tool!Settlement(rule) = "bad"
    <3>1. UNCHANGED <<rule, trial>>
      BY <1>4, <2>2 DEF Tool!ChangeMode
    <3>2. TrialOfRule'
      BY <3>1 DEF ToolInv, TrialOfRule, Verdict, Tool!Settlement
    <3> QED
      BY <1>1, <1>2, <2>1, <3>1, <3>2, ToolFields, RuleHolds
  <2>3. CASE ~("json" \in {mode, rule.mode} /\ Tool!Settlement(rule) = "bad")
    <3>1. trial' = Tool!Untried
      BY <1>4, <2>3 DEF Tool!ChangeMode, Tool!Reset
    <3>2. Tool!Settlement(rule) \in Tool!Rules \cup {"theirs"}
      BY <1>2 DEF Tool!Settlement, Tool!ByDefault, RuleType, Tool!Rules
    <3>3. CASE mode = "json"
      <4>1. rule' = [rule EXCEPT !.mode = mode, !.json = Tool!Settlement(rule)]
        BY <1>4, <2>3, <3>3 DEF Tool!ChangeMode
      <4>2. rule' \in RuleType
        BY <1>2, <3>2, <4>1 DEF RuleType
      <4> QED
        BY <1>1, <2>1, <3>1, <4>2, UntriedHolds
    <3>4. CASE mode # "json" /\ rule.mode = "json"
      <4>1. rule' = [Tool!Draft(Tool!Settlement(rule)) EXCEPT !.mode = mode,
                                                              !.sample = rule.sample]
        BY <1>4, <2>3, <3>4 DEF Tool!ChangeMode
      <4>2. Tool!Draft(Tool!Settlement(rule)) \in RuleType
        BY <2>3, <3>2, <3>4, DraftTyped
      <4>3. rule' \in RuleType
        BY <1>2, <4>1, <4>2 DEF RuleType
      <4> QED
        BY <1>1, <2>1, <3>1, <4>3, UntriedHolds
    <3>5. CASE mode # "json" /\ rule.mode # "json"
      <4>1. rule' = [rule EXCEPT !.mode = mode]
        BY <1>4, <2>3, <3>5 DEF Tool!ChangeMode
      <4>2. rule' \in RuleType
        BY <1>2, <4>1 DEF RuleType
      <4> QED
        BY <1>1, <2>1, <3>1, <4>2, UntriedHolds
    <3> QED
      BY <3>3, <3>4, <3>5
  <2> QED
    BY <2>2, <2>3
<1>5. CASE Tool!ChangeSample
  <2>1. /\ rule' \in RuleType /\ rule'.mode = rule.mode /\ rule'.path = rule.path
        /\ rule'.json = rule.json
    BY <1>2, <1>5 DEF Tool!ChangeSample, RuleType
  <2>2. Tool!Settlement(rule)' = Tool!Settlement(rule)
    BY <2>1 DEF Tool!Settlement
  <2> QED
    BY <1>1, <1>5, <2>1, <2>2, UntriedHolds DEF Tool!ChangeSample, Tool!Reset
<1> QED
  BY <1>3, <1>4, <1>5

LEMMA TrialsHold ==
  ASSUME ToolInv, Tool!TryRule \/ Tool!ShowTrial
  PROVE  ToolInv'
<1>1. /\ RuleAround /\ rule' = rule /\ filled' = filled /\ formEdits' \in 0..MaxToolEdits
      /\ rule \in RuleType /\ trial \in TrialType
  BY ToolFields DEF Tool!TryRule, Tool!ShowTrial, Tool!rules, Tool!outside, RuleAround
<1>2. Verdict \in (Tool!Rules \cup {"theirs"}) \X (0..1) /\ Verdict' = Verdict
  BY <1>1 DEF Verdict, Tool!Settlement, Tool!ByDefault, RuleType, Tool!Rules
<1>3. Verdict # <<>>
  BY DEF Verdict
<1>4. Tool!Settlement(rule)' = Tool!Settlement(rule)
  BY <1>1 DEF Tool!Settlement
<1>5. ASSUME trial' = Tool!Untried PROVE ToolInv'
  <2>1. trial' \in TrialType /\ TrialOfRule'
    BY <1>5, ToolRecords DEF TrialType, TrialOfRule
  <2> QED
    BY <1>1, <1>4, <2>1, RuleHolds
<1>6. CASE Tool!TryRule
  <2>1. CASE trial' = Tool!Untried
    BY <1>5, <2>1
  <2>2. CASE trial' # Tool!Untried
    <3>1. trial' = [pc |-> "sent", of |-> Verdict, shown |-> <<>>]
      BY <1>6, <2>2 DEF Tool!TryRule, Verdict
    <3>2. trial' \in TrialType /\ TrialOfRule'
      BY <1>2, <3>1 DEF TrialType, Tool!Judged, TrialOfRule
    <3> QED
      BY <1>1, <1>4, <3>2, RuleHolds
  <2> QED
    BY <2>1, <2>2
<1>7. CASE Tool!ShowTrial
  <2>1. CASE trial' = Tool!Untried
    BY <1>5, <2>1
  <2>2. CASE trial' = [Tool!Untried EXCEPT !.shown = trial.of]
    <3>1. trial.of = Verdict /\ trial.of \in Tool!Judged
      BY <1>1, <1>7 DEF Tool!ShowTrial, ToolInv, TrialOfRule, TrialType
    <3>2. Tool!Untried \in TrialType /\ Tool!Untried.pc = "idle"
      BY ToolRecords DEF TrialType
    <3>3. trial' \in TrialType /\ trial'.pc = "idle" /\ trial'.shown = trial.of
      BY <2>2, <3>1, <3>2 DEF TrialType
    <3>4. TrialOfRule'
      BY <1>2, <3>1, <3>3 DEF TrialOfRule
    <3> QED
      BY <1>1, <1>4, <3>3, <3>4, RuleHolds
  <2> QED
    BY <1>7, <2>1, <2>2 DEF Tool!ShowTrial
<1> QED
  BY <1>6, <1>7

-----------------------------------------------------------------------------
(* A save: what it sends is what the form shows.                           *)
LEMMA SavingHolds ==
  ASSUME ToolInv, UNCHANGED <<toolRow, toggling, formRivals, formEdits, form, reads, picture,
                              rule, trial, picked, filled>>,
         tool' \in Tool!Body, saving' \in Tool!Mutation, SavesWhatIsShown'
  PROVE  ToolInv'
BY DEF ToolInv, Tool!TypeOK, TogglesOnly, FormKept, IconChosen, ReadsChosen, TrialOfRule, Verdict,
       Tool!Settlement

LEMMA SubmitHolds ==
  ASSUME ToolInv, Tool!Submit
  PROVE  ToolInv'
<1>1. /\ UNCHANGED <<tool, toolRow, toggling, formRivals, formEdits, form, reads, picture,
                     rule, trial, picked, filled>>
      /\ form.open /\ ~picture.reading /\ ~picture.error /\ Tool!Settlement(rule) # "bad"
      /\ saving' = [pc |-> "sent", body |-> Tool!Entered, sends |-> Tool!Sent]
  BY DEF Tool!Submit, Tool!editor, Tool!bounds, Tool!Editing
<1>2. /\ form \in FormType /\ rule \in RuleType
  BY ToolFields
<1>3. Tool!Settlement(rule) \in (Tool!Rules \ {"bad"}) \cup {"theirs"}
  BY <1>1, <1>2 DEF Tool!Settlement, Tool!ByDefault, RuleType, Tool!Rules
<1>4. PICK rl : rl = Tool!Settlement(rule)
  OBVIOUS
<1>5. PICK enabled \in BOOLEAN : enabled = (form.item = Tool!Missing \/ form.item.enabled)
  OBVIOUS
<1>6. Tool!Entered = [icon |-> form.icon, rule |-> rl, details |-> form.details,
                      roles |-> form.roles, connection |-> "mine", enabled |-> enabled]
  BY <1>4, <1>5 DEF Tool!Entered
<1>7. /\ Tool!Entered \in Tool!Body /\ Tool!Entered.icon = form.icon
      /\ Tool!Entered.rule = rl /\ Tool!Entered.details = form.details
      /\ Tool!Entered.roles = form.roles /\ Tool!Entered.enabled = enabled
  BY <1>2, <1>3, <1>4, <1>5, <1>6 DEF FormType, Tool!Body, Tool!Answers
<1>8. /\ Tool!Sent \in SUBSET DOMAIN Tool!Missing /\ Always \subseteq Tool!Sent
      /\ "connection" \in Tool!Sent => form.connect
  BY DEF Tool!Sent, Tool!Missing, Always
<1>9. saving' \in Tool!Mutation
  BY <1>1, <1>7, <1>8 DEF Tool!Mutation
<1>10. SavesWhatIsShown'
  <2>1. enabled = form.item.enabled \/ form.item = Tool!Missing
    BY <1>2, <1>5 DEF FormType, Tool!Body
  <2>2. FormKept /\ form.icon = picked
    BY <1>1 DEF ToolInv, IconChosen
  <2>3. AsOpened(form.item, Tool!Entered)
    BY <1>1, <1>4, <1>7, <2>1, <2>2 DEF FormKept, AsOpened
  <2> QED
    BY <1>1, <1>7, <1>8, <2>2, <2>3 DEF FormKept, SavesWhatIsShown, AsOpened
<1> QED
  BY <1>1, <1>9, <1>10, ToolFields, SavingHolds

LEMMA ServeSaveHolds ==
  ASSUME ToolInv, Tool!ServeSave \/ Tool!SaveFails
  PROVE  ToolInv'
<1>1. UNCHANGED <<toolRow, toggling, formRivals, formEdits, form, reads, picture,
                  rule, trial, picked, filled>>
  BY DEF Tool!ServeSave, Tool!SaveFails, Tool!editor, Tool!bounds
<1>2. CASE Tool!ServeSave
  <2>1. tool' \in Tool!Body
    BY <1>2, ToolFields, StoredTyped DEF Tool!ServeSave, Tool!Write, Tool!Mutation
  <2>2. /\ saving' \in Tool!Mutation /\ saving.pc # "idle"
        /\ saving'.body = saving.body /\ saving'.sends = saving.sends
    BY <1>2, ToolFields DEF Tool!ServeSave, Tool!Mutation
  <2>3. SavesWhatIsShown'
    BY <1>1, <2>2 DEF ToolInv, SavesWhatIsShown, AsOpened
  <2> QED
    BY <1>1, <2>1, <2>2, <2>3, SavingHolds
<1>3. CASE Tool!SaveFails
  <2>1. tool' \in Tool!Body /\ saving' \in Tool!Mutation /\ SavesWhatIsShown'
    BY <1>3, ToolFields, ToolRecords DEF Tool!SaveFails, SavesWhatIsShown
  <2> QED
    BY <1>1, <2>1, SavingHolds
<1> QED
  BY <1>2, <1>3

LEMMA ToolNext == ToolInv /\ [Tool!Next]_(Tool!formVars) => ToolInv'
<1> SUFFICES ASSUME ToolInv, [Tool!Next]_(Tool!formVars) PROVE ToolInv'
  OBVIOUS
<1>1. CASE UNCHANGED Tool!formVars
  BY <1>1, AroundForm, ToolFields DEF Tool!formVars, Tool!editor, Tool!bounds, ToolInv,
     TogglesOnly
<1>2. CASE Tool!IconStep
  BY <1>2, PicksHold, FilesHold DEF Tool!IconStep, Tool!RemoveIcon
<1>3. CASE Tool!RuleStep
  BY <1>3, RulesHold, TrialsHold DEF Tool!RuleStep
<1> QED
  BY <1>1, <1>2, <1>3, OtherAdminHolds, ToggleHolds, OpenHolds, CloseHolds, FillsHold,
     SubmitHolds, ServeSaveHolds DEF Tool!Next

LEMMA ToolKept == FrontsSpec => []ToolInv
<1>1. Tool!Spec => []ToolInv
  BY ToolStart, ToolNext, PTL DEF Tool!Spec
<1> QED
  BY <1>1, ToolAlone, PTL

(* A save sends the icon the admin chose last, though files he picked      *)
(* before it may be read after it, and a verdict on the screen is of the   *)
(* rule and the sample on the screen.                                      *)
THEOREM EditorShowsWhatCounts == FrontsSpec => []ShowsWhatCounts
<1>1. ToolInv => ShowsWhatCounts
  BY DEF ToolInv, SavesWhatIsShown, TrialOfRule, Verdict, ShowsWhatCounts, Tool!ShowsWhatCounts
<1> QED
  BY <1>1, ToolKept, PTL

(* What the admin left alone is written as he was shown it when he opened  *)
(* the form: details, roles, rule and switch are those of the row he       *)
(* opened, the icon is that one or the stored one, and the connection is   *)
(* not written.  A switch changes no icon, rule, role or connection.       *)
THEOREM UntouchedFieldsAsOpened == FrontsSpec => UntouchedAsOpened
<1> DEFINE Step ==
      /\ Tool!ServeSave /\ tool' # tool /\ form.item # Tool!Missing =>
           /\ \A field \in Always \ filled : tool'[field] = form.item[field]
           /\ picked = form.item.icon => tool'.icon \in {form.item.icon, tool.icon}
           /\ "connection" \notin filled => tool'.connection = tool.connection
      /\ Tool!ServeToggle =>
           \A field \in {"icon", "rule", "roles", "connection"} : tool'[field] = tool[field]
<1>1. ToolInv => Step
  <2> SUFFICES ASSUME ToolInv PROVE Step
    OBVIOUS
  <2>1. /\ tool \in Tool!Body /\ saving \in Tool!Mutation /\ toggling \in Tool!Mutation
        /\ filled \subseteq {"details", "roles", "connection", "rule"}
    BY ToolFields
  <2>2. ASSUME Tool!ServeSave, tool' # tool, form.item # Tool!Missing
        PROVE  /\ \A field \in Always \ filled : tool'[field] = form.item[field]
               /\ picked = form.item.icon => tool'.icon \in {form.item.icon, tool.icon}
               /\ "connection" \notin filled => tool'.connection = tool.connection
    <3>1. saving.pc = "sent" /\ SavesWhatIsShown
      BY <2>2 DEF Tool!ServeSave, ToolInv
    <3>2. tool' = Tool!Stored(tool, saving.body, saving.sends)
      BY <2>2 DEF Tool!ServeSave, Tool!Write
    <3>3. /\ Always \subseteq saving.sends /\ saving.body.icon = picked
          /\ "connection" \in saving.sends => "connection" \in filled
          /\ AsOpened(form.item, saving.body)
      BY <2>2, <3>1 DEF SavesWhatIsShown
    <3>4. /\ tool'.rule = saving.body.rule /\ tool'.details = saving.body.details
          /\ tool'.roles = saving.body.roles /\ tool'.enabled = saving.body.enabled
          /\ tool'.icon \in {saving.body.icon, tool.icon}
          /\ "connection" \notin saving.sends => tool'.connection = tool.connection
      BY <2>1, <3>2, <3>3, StoredTyped DEF Tool!Mutation, Always
    <3>5. ASSUME NEW field \in Always \ filled PROVE tool'[field] = form.item[field]
      BY <2>2, <3>3, <3>4, <3>5 DEF AsOpened, Always
    <3> QED
      BY <3>3, <3>4, <3>5
  <2>3. ASSUME Tool!ServeToggle
        PROVE  \A field \in {"icon", "rule", "roles", "connection"} :
                 tool'[field] = tool[field]
    <3>1. toggling.sends = {"details", "enabled"}
      BY <2>3 DEF Tool!ServeToggle, ToolInv, TogglesOnly
    <3>2. tool' = tool \/ tool' = Tool!Stored(tool, toggling.body, toggling.sends)
      BY <2>3 DEF Tool!ServeToggle, Tool!Write
    <3>3. /\ tool'.icon = tool.icon /\ tool'.rule = tool.rule
          /\ tool'.roles = tool.roles /\ tool'.connection = tool.connection
      BY <2>1, <3>1, <3>2, StoredTyped DEF Tool!Mutation
    <3> QED
      BY <3>3
  <2> QED
    BY <2>2, <2>3
<1>2. [][Tool!Next]_(Tool!formVars) /\ []ToolInv => [][Step]_(Tool!formVars)
  BY <1>1, PTL
<1> HIDE DEF Step
<1>3. FrontsSpec => [][Step]_(Tool!formVars)
  BY <1>2, ToolAlone, ToolKept, PTL DEF Tool!Spec
<1> QED
  BY <1>3 DEF Step, Always, UntouchedAsOpened, Tool!UntouchedAsOpened

-----------------------------------------------------------------------------
\* The forms that move credits

(* A key and the wish it stands for: on its way to the ledger, in it, or   *)
(* about to be sent again.                                                 *)
Drawn(f) == forms[f].operation # Nothing
Claim(key, wish) ==
  \/ \E r \in requests : r.operation.key = key /\ r.wish = wish
  \/ \E p \in postings : p.key = key /\ p.wish = wish
  \/ \E f \in Credit!Forms : Drawn(f) /\ forms[f].operation.key = key /\ forms[f].wish = wish
(* A code is its own key; the others are drawn.                            *)
KeyFits(key, wish) ==
  /\ wish \in 1..Len(wishes)
  /\ IF wishes[wish].form = "redeem" THEN key = -wish ELSE key \in 1..keysDrawn
ClaimsFit == \A key, wish : Claim(key, wish) => KeyFits(key, wish)
OneKeyEach ==
  \A k, l, w, v : Claim(k, w) /\ Claim(l, v) => (k = l <=> w = v)
Unclaimed(f) ==
  f # "redeem" /\ ~Drawn(f) /\ forms[f].wish # 0 => \A key : ~Claim(key, forms[f].wish)

FormFits(f) ==
  /\ forms[f].wish <= Len(wishes)
  /\ forms[f].wish # 0 => wishes[forms[f].wish].form = f
  /\ Drawn(f) => /\ f # "redeem" /\ forms[f].wish # 0
                 /\ forms[f].operation.amount = wishes[forms[f].wish].amount
  /\ forms[f].waits # 0 => forms[f].pc = "pending"
  /\ forms[f].pc = "success" /\ forms[f].wish # 0 =>
       \E p \in postings : p.wish = forms[f].wish
RequestFits(r) ==
  /\ r.wish <= Len(wishes) /\ wishes[r.wish].form = r.form
  /\ r.operation.amount = wishes[r.wish].amount
  /\ r.n <= sends
  /\ forms[r.form].waits = r.n => forms[r.form].wish = r.wish
  /\ r.answer = "success" => \E p \in postings : p.wish = r.wish
PostingFits(p) ==
  /\ p.wish <= Len(wishes) /\ p.amount = wishes[p.wish].amount
  /\ \A q \in postings : p.key = q.key => p = q

FormRecord == [shown : BOOLEAN, wish : 0..MaxWishes, operation : Credit!Keyed \cup {Nothing},
               pc : {"idle", "pending", "success", "error"}, waits : 0..MaxSends]
RequestRecord == [form : Credit!Forms, operation : Credit!Keyed, wish : 1..MaxWishes,
                  n : 1..MaxSends, answer : {"none", "success", "error"}]
PostingRecord == [key : Int, amount : Amounts, n : 1..MaxSends, wish : 1..MaxWishes]
WishRecord == [form : Credit!Forms, amount : Amounts]
CreditTypes ==
  /\ forms \in [Credit!Forms -> FormRecord]
  /\ requests \subseteq RequestRecord /\ postings \subseteq PostingRecord
  /\ wishes \in Seq(WishRecord) /\ Len(wishes) <= MaxWishes
  /\ keysDrawn \in Nat /\ sends \in 0..MaxSends
FormsFit == \A f \in Credit!Forms : FormFits(f) /\ Unclaimed(f)
RequestsFit == \A r \in requests : RequestFits(r)
PostingsFit == \A p \in postings : PostingFits(p)

CreditInv ==
  /\ CreditTypes /\ ClaimsFit /\ OneKeyEach /\ FormsFit /\ RequestsFit /\ PostingsFit

LEMMA CreditAlone == FrontsSpec => Credit!Spec
<1>1. FrontsInit => Credit!Init
  BY DEF FrontsInit
<1>2. [FrontsNext]_frontVars => [Credit!Next]_(Credit!creditVars)
  BY DEF FrontsNext, frontVars, OnSession, OnPaged, OnSkill, OnTool, OnCredit, OnSecret,
         OnSettings, OnDesk, OnUpdate, OnDev, ofCredit, Credit!creditVars
<1> QED
  BY <1>1, <1>2, PTL DEF FrontsSpec, Credit!Spec

LEMMA BlankTyped ==
  /\ Credit!Blank \in FormRecord /\ Credit!Blank.wish = 0 /\ Credit!Blank.operation = Nothing
  /\ Credit!Blank.pc = "idle" /\ Credit!Blank.waits = 0
<1>1. 0 \in 0..MaxWishes /\ 0 \in 0..MaxSends
  BY BoundsAssumption
<1> QED
  BY <1>1 DEF Credit!Blank, FormRecord

LEMMA CreditStart == Credit!Init => CreditInv
<1> SUFFICES ASSUME Credit!Init PROVE CreditInv
  OBVIOUS
<1>1. \A f \in Credit!Forms : forms[f] = Credit!Blank
  BY DEF Credit!Init
<1>2. CreditTypes
  BY BlankTyped, BoundsAssumption DEF Credit!Init, CreditTypes
<1>3. \A f \in Credit!Forms : ~Drawn(f) /\ FormFits(f) /\ Unclaimed(f)
  BY <1>1, BlankTyped DEF Drawn, FormFits, Unclaimed, Credit!Init
<1>4. \A key, wish : ~Claim(key, wish)
  BY <1>3 DEF Credit!Init, Claim
<1> QED
  BY <1>2, <1>3, <1>4 DEF Credit!Init, CreditInv, ClaimsFit, OneKeyEach, FormsFit, RequestsFit,
     PostingsFit

-----------------------------------------------------------------------------
(* A form changes; nothing is sent or posted.                              *)
LEMMA OneForm ==
  ASSUME CreditInv, NEW f \in Credit!Forms, NEW q \in FormRecord, Credit!Set(f, q)
  PROVE  /\ forms' \in [Credit!Forms -> FormRecord] /\ forms'[f] = q
         /\ \A g \in Credit!Forms : g # f => forms'[g] = forms[g]
BY DEF CreditInv, CreditTypes, Credit!Set

(* No key is claimed that was not.                                         *)
LEMMA FewerClaims ==
  ASSUME CreditInv, \A key, wish : Claim(key, wish)' => Claim(key, wish),
         wishes' = wishes, keysDrawn' = keysDrawn
  PROVE  ClaimsFit' /\ OneKeyEach'
BY DEF CreditInv, ClaimsFit, OneKeyEach, KeyFits

(* A form is emptied, or only hidden or shown.                             *)
LEMMA PanelHolds ==
  ASSUME CreditInv, NEW f \in Credit!Forms, NEW q \in FormRecord, Credit!Set(f, q),
         UNCHANGED <<requests, postings, wishes, keysDrawn, sends>>,
         \/ /\ q.wish = 0 /\ q.operation = Nothing /\ q.waits = 0
         \/ /\ q.wish = forms[f].wish /\ q.operation = forms[f].operation
            /\ q.waits = forms[f].waits /\ q.pc = forms[f].pc
  PROVE  CreditInv'
<1>1. /\ forms' \in [Credit!Forms -> FormRecord] /\ forms'[f] = q
      /\ \A g \in Credit!Forms : g # f => forms'[g] = forms[g]
  BY OneForm
<1>2. CreditTypes'
  BY <1>1 DEF CreditInv, CreditTypes
<1>3. \A g \in Credit!Forms : Drawn(g)' =>
        /\ Drawn(g) /\ forms'[g].operation = forms[g].operation
        /\ forms'[g].wish = forms[g].wish
  BY <1>1 DEF Drawn
<1>4. \A key, wish : Claim(key, wish)' => Claim(key, wish)
  BY <1>3 DEF Claim
<1>5. ClaimsFit' /\ OneKeyEach'
  BY <1>4, FewerClaims
<1>6. ASSUME NEW g \in Credit!Forms PROVE (FormFits(g) /\ Unclaimed(g))'
  <2>1. FormFits(g) /\ Unclaimed(g) /\ Len(wishes) \in Nat
    BY DEF CreditInv, FormsFit, CreditTypes
  <2>2. CASE g # f
    BY <1>1, <1>4, <2>1, <2>2 DEF FormFits, Unclaimed, Drawn
  <2>3. CASE g = f
    BY <1>1, <1>4, <2>1, <2>3 DEF FormFits, Unclaimed, Drawn
  <2> QED
    BY <2>2, <2>3
<1>7. ASSUME NEW r \in requests PROVE RequestFits(r)'
  <2>1. RequestFits(r) /\ r \in RequestRecord
    BY DEF CreditInv, RequestsFit, CreditTypes
  <2>2. r.form \in Credit!Forms /\ r.n # 0
    BY <2>1 DEF RequestRecord
  <2> QED
    BY <1>1, <2>1, <2>2 DEF RequestFits
<1>8. FormsFit' /\ RequestsFit' /\ PostingsFit'
  BY <1>6, <1>7 DEF CreditInv, FormsFit, RequestsFit, PostingsFit, PostingFits
<1> QED
  BY <1>2, <1>5, <1>8 DEF CreditInv

LEMMA PanelsHold ==
  ASSUME CreditInv, NEW f \in Credit!Forms,
         Credit!Show(f) \/ Credit!ClosePanel(f) \/ Credit!LeavePage(f) \/ Credit!OnceMore(f)
  PROVE  CreditInv'
<1>1. PICK q : Credit!Set(f, q) /\
        \/ q = Credit!Blank
        \/ q = [Credit!Blank EXCEPT !.shown = TRUE]
        \/ q = [forms[f] EXCEPT !.shown = TRUE]
        \/ q = [forms[f] EXCEPT !.shown = FALSE]
  BY DEF Credit!Show, Credit!ClosePanel, Credit!LeavePage, Credit!OnceMore
<1>2. UNCHANGED <<requests, postings, wishes, keysDrawn, sends>>
  BY DEF Credit!Show, Credit!ClosePanel, Credit!LeavePage, Credit!OnceMore
<1>3. forms[f] \in FormRecord
  BY DEF CreditInv, CreditTypes
<1>4. CASE q = Credit!Blank
  BY <1>1, <1>2, <1>4, BlankTyped, PanelHolds
<1>5. ASSUME NEW base \in FormRecord, NEW b \in BOOLEAN, q = [base EXCEPT !.shown = b]
      PROVE  /\ q \in FormRecord /\ q.wish = base.wish /\ q.operation = base.operation
             /\ q.waits = base.waits /\ q.pc = base.pc
  BY <1>5 DEF FormRecord
<1>6. CASE q = [Credit!Blank EXCEPT !.shown = TRUE]
  BY <1>1, <1>2, <1>5, <1>6, BlankTyped, PanelHolds
<1>7. CASE q = [forms[f] EXCEPT !.shown = TRUE] \/ q = [forms[f] EXCEPT !.shown = FALSE]
  BY <1>1, <1>2, <1>3, <1>5, <1>7, PanelHolds
<1> QED
  BY <1>1, <1>4, <1>6, <1>7

(* Somebody wants something else.                                          *)
LEMMA FillInHolds ==
  ASSUME CreditInv, NEW f \in Credit!Forms, NEW amount \in Amounts, Credit!FillIn(f, amount)
  PROVE  CreditInv'
<1> DEFINE q == [forms[f] EXCEPT !.wish = Len(wishes) + 1, !.pc = "idle"]
<1>1. /\ Credit!Set(f, q) /\ UNCHANGED <<requests, postings, keysDrawn, sends>>
      /\ wishes' = Append(wishes, [form |-> f, amount |-> amount])
      /\ Len(wishes) < MaxWishes /\ forms[f].pc # "pending"
      /\ f = "redeem" \/ forms[f].operation = Nothing
  BY DEF Credit!FillIn, Credit!Waiting
<1>2. /\ forms[f] \in FormRecord /\ FormFits(f) /\ wishes \in Seq(WishRecord)
      /\ Len(wishes) \in Nat
  BY DEF CreditInv, CreditTypes, FormsFit
<1>3. Len(wishes) + 1 \in 0..MaxWishes
  BY <1>1, <1>2, BoundsAssumption
<1>4. /\ q \in FormRecord /\ q.wish = Len(wishes) + 1 /\ q.pc = "idle"
      /\ q.operation = forms[f].operation /\ q.waits = forms[f].waits
  BY <1>2, <1>3 DEF FormRecord
<1>5. ~Drawn(f) /\ forms[f].waits = 0
  BY <1>1, <1>2 DEF FormFits, Drawn
<1> HIDE DEF q
<1>6. /\ forms' \in [Credit!Forms -> FormRecord] /\ forms'[f] = q
      /\ \A g \in Credit!Forms : g # f => forms'[g] = forms[g]
  BY <1>1, <1>4, OneForm
<1>7. [form |-> f, amount |-> amount] \in WishRecord
  BY DEF WishRecord
<1>8. /\ wishes' \in Seq(WishRecord) /\ Len(wishes') = Len(wishes) + 1
      /\ wishes'[Len(wishes) + 1].form = f
      /\ \A i \in 1..Len(wishes) : wishes'[i] = wishes[i]
  BY <1>1, <1>2, <1>7
<1>9. CreditTypes'
  BY <1>1, <1>2, <1>3, <1>6, <1>8 DEF CreditInv, CreditTypes
<1>10. ~Drawn(f)' /\ \A g \in Credit!Forms : g # f => Drawn(g)' = Drawn(g)
  BY <1>4, <1>5, <1>6 DEF Drawn
<1>11. \A key, wish : Claim(key, wish)' => Claim(key, wish)
  BY <1>1, <1>6, <1>10 DEF Claim
<1>12. \A key, wish : KeyFits(key, wish) => KeyFits(key, wish)'
  BY <1>1, <1>2, <1>8 DEF KeyFits
<1>13. ClaimsFit' /\ OneKeyEach'
  BY <1>11, <1>12 DEF CreditInv, ClaimsFit, OneKeyEach
<1>14. \A key : ~Claim(key, Len(wishes) + 1)
  BY <1>2 DEF CreditInv, ClaimsFit, KeyFits
<1>15. ASSUME NEW g \in Credit!Forms PROVE (FormFits(g) /\ Unclaimed(g))'
  <2>1. CASE g = f
    BY <1>4, <1>5, <1>6, <1>8, <1>10, <1>11, <1>14, <2>1 DEF FormFits, Unclaimed
  <2>2. CASE g # f
    <3>1. FormFits(g) /\ Unclaimed(g) /\ forms[g] \in FormRecord
      BY DEF CreditInv, FormsFit, CreditTypes
    <3>2. forms[g].wish # 0 => forms[g].wish \in 1..Len(wishes)
      BY <1>2, <3>1 DEF FormFits, FormRecord
    <3>3. FormFits(g)'
      BY <1>1, <1>2, <1>6, <1>8, <1>10, <2>2, <3>1, <3>2 DEF FormFits
    <3>4. Unclaimed(g)'
      BY <1>6, <1>10, <1>11, <2>2, <3>1 DEF Unclaimed
    <3> QED
      BY <3>3, <3>4
  <2> QED
    BY <2>1, <2>2
<1>16. ASSUME NEW r \in requests PROVE RequestFits(r)'
  <2>1. RequestFits(r) /\ r \in RequestRecord
    BY DEF CreditInv, RequestsFit, CreditTypes
  <2>2. r.form \in Credit!Forms /\ r.n # 0 /\ r.wish \in 1..Len(wishes)
    BY <1>2, <2>1 DEF RequestRecord, RequestFits
  <2> QED
    BY <1>1, <1>2, <1>4, <1>5, <1>6, <1>8, <2>1, <2>2 DEF RequestFits
<1>17. ASSUME NEW p \in postings PROVE PostingFits(p)'
  <2>1. PostingFits(p) /\ p \in PostingRecord
    BY DEF CreditInv, PostingsFit, CreditTypes
  <2>2. p.wish \in 1..Len(wishes)
    BY <1>2, <2>1 DEF PostingRecord, PostingFits
  <2> QED
    BY <1>1, <1>2, <1>8, <2>1, <2>2 DEF PostingFits
<1> QED
  BY <1>1, <1>9, <1>13, <1>15, <1>16, <1>17 DEF CreditInv, FormsFit, RequestsFit, PostingsFit

(* The operation of a form: what was drawn before, or the next key.        *)
OperationFits(f, op, drawn) ==
  /\ op \in Credit!Keyed /\ op # Nothing
  /\ op.amount = wishes[forms[f].wish].amount
  /\ forms[f].wish \in 1..Len(wishes) /\ wishes[forms[f].wish].form = f
  /\ drawn \in Nat /\ keysDrawn <= drawn
  /\ IF f = "redeem" THEN op.key = -forms[f].wish ELSE op.key \in 1..drawn
  /\ \A key, wish : Claim(key, wish) => (key = op.key <=> wish = forms[f].wish)

LEMMA OperationDrawn ==
  ASSUME CreditInv, NEW f \in Credit!Forms, forms[f].wish # 0,
         NEW drawn, drawn = IF Credit!Operation(f).key > keysDrawn
                            THEN Credit!Operation(f).key ELSE keysDrawn
  PROVE  OperationFits(f, Credit!Operation(f), drawn)
<1> DEFINE op == Credit!Operation(f)
           wish == forms[f].wish
<1>1. /\ forms[f] \in FormRecord /\ FormFits(f) /\ Unclaimed(f) /\ keysDrawn \in Nat
      /\ wishes \in Seq(WishRecord) /\ Len(wishes) \in Nat
  BY DEF CreditInv, CreditTypes, FormsFit
<1>2. wish \in 1..Len(wishes) /\ wishes[wish].form = f /\ wishes[wish] \in WishRecord
  BY <1>1 DEF FormRecord, FormFits
<1>3. Nothing \notin Credit!Keyed
  BY FrontsAssumption DEF Credit!Keyed
<1>4. CASE Drawn(f)
  <2>1. op = forms[f].operation
    BY <1>4 DEF Drawn, Credit!Operation
  <2>2. op \in Credit!Keyed /\ f # "redeem" /\ op.amount = wishes[wish].amount
    BY <1>1, <1>4, <2>1 DEF Drawn, FormRecord, FormFits
  <2>3. Claim(op.key, wish)
    BY <1>4, <2>1 DEF Claim
  <2>4. op.key \in 1..keysDrawn
    BY <1>2, <2>2, <2>3 DEF CreditInv, ClaimsFit, KeyFits
  <2>5. drawn = keysDrawn
    BY <1>1, <2>4
  <2>6. \A k, w : Claim(k, w) => (k = op.key <=> w = wish)
    BY <2>3 DEF CreditInv, OneKeyEach
  <2> QED
    BY <1>1, <1>2, <1>3, <2>2, <2>4, <2>5, <2>6 DEF OperationFits
<1>5. CASE ~Drawn(f)
  <2>1. PICK key \in Int : key = IF f = "redeem" THEN -wish ELSE keysDrawn + 1
    BY <1>1, <1>2
  <2>2. op = [amount |-> wishes[wish].amount, key |-> key]
    BY <1>5, <2>1 DEF Drawn, Credit!Operation
  <2>3. op \in Credit!Keyed /\ op.key = key /\ op.amount = wishes[wish].amount
    BY <1>2, <2>1, <2>2 DEF Credit!Keyed, WishRecord
  <2>4. /\ drawn \in Nat /\ keysDrawn <= drawn
        /\ IF f = "redeem" THEN key = -wish ELSE key \in 1..drawn
    BY <1>1, <1>2, <2>1, <2>3
  <2>5. ASSUME NEW k, NEW w, Claim(k, w) PROVE k = key <=> w = wish
    <3>1. KeyFits(k, w)
      BY <2>5 DEF CreditInv, ClaimsFit
    <3>2. CASE f = "redeem"
      <4>1. key = -wish
        BY <2>1, <3>2
      <4>2. w = wish => k = key
        BY <1>2, <3>1, <3>2, <4>1 DEF KeyFits
      <4>3. CASE wishes[w].form = "redeem"
        BY <1>1, <1>2, <3>1, <4>1, <4>2, <4>3 DEF KeyFits
      <4>4. CASE wishes[w].form # "redeem"
        BY <1>1, <1>2, <3>1, <4>1, <4>2, <4>4 DEF KeyFits
      <4> QED
        BY <4>3, <4>4
    <3>3. CASE f # "redeem"
      <4>1. w # wish
        BY <1>1, <1>5, <2>5, <3>3 DEF Unclaimed
      <4>2. key = keysDrawn + 1
        BY <2>1, <3>3
      <4>3. k # key
        BY <1>1, <3>1, <4>2 DEF KeyFits
      <4> QED
        BY <4>1, <4>3
    <3> QED
      BY <3>2, <3>3
  <2> QED
    BY <1>2, <1>3, <2>3, <2>4, <2>5 DEF OperationFits
<1> QED
  BY <1>4, <1>5

LEMMA ConfirmHolds ==
  ASSUME CreditInv, NEW f \in Credit!Forms, Credit!Confirm(f)
  PROVE  CreditInv'
<1>1. PICK op : op = Credit!Operation(f)
  OBVIOUS
<1>2. PICK wish : wish = forms[f].wish
  OBVIOUS
<1>3. PICK new : new = [form |-> f, operation |-> op, wish |-> wish, n |-> sends + 1,
                         answer |-> "none"]
  OBVIOUS
<1>4. PICK holds : holds = IF f = "redeem" THEN Nothing ELSE op
  OBVIOUS
<1> DEFINE q == [forms[f] EXCEPT !.pc = "pending", !.waits = sends + 1, !.operation = holds]
<1>5. /\ Credit!Set(f, q) /\ requests' = requests \cup {new}
      /\ wish # 0 /\ sends < MaxSends /\ sends' = sends + 1
      /\ keysDrawn' = (IF op.key > keysDrawn THEN op.key ELSE keysDrawn)
      /\ UNCHANGED <<postings, wishes>>
  BY <1>1, <1>2, <1>3, <1>4 DEF Credit!Confirm, Credit!Filled
<1>6. OperationFits(f, op, keysDrawn')
  BY <1>1, <1>2, <1>5, OperationDrawn
<1>7. /\ forms[f] \in FormRecord /\ sends \in Nat /\ sends + 1 \in 1..MaxSends
      /\ sends + 1 \in 0..MaxSends /\ keysDrawn \in Nat /\ Len(wishes) \in Nat
      /\ Len(wishes) <= MaxWishes /\ wishes \in Seq(WishRecord)
  BY <1>5, BoundsAssumption DEF CreditInv, CreditTypes
<1>8. holds \in Credit!Keyed \cup {Nothing}
  BY <1>4, <1>6 DEF OperationFits
<1>9. /\ q \in FormRecord /\ q.pc = "pending" /\ q.waits = sends + 1
      /\ q.operation = holds /\ q.wish = wish
  BY <1>2, <1>7, <1>8 DEF FormRecord
<1> HIDE DEF q
<1>10. /\ forms' \in [Credit!Forms -> FormRecord] /\ forms'[f] = q
      /\ \A g \in Credit!Forms : g # f => forms'[g] = forms[g]
  BY <1>5, <1>9, OneForm
<1>11. wish \in 1..MaxWishes /\ op \in Credit!Keyed
  BY <1>2, <1>6, <1>7, BoundsAssumption DEF OperationFits
<1>12. /\ new \in RequestRecord /\ new.form = f /\ new.operation = op /\ new.wish = wish
      /\ new.n = sends + 1 /\ new.answer = "none"
  BY <1>3, <1>7, <1>11 DEF RequestRecord
<1>13. CreditTypes'
  BY <1>5, <1>6, <1>7, <1>10, <1>12 DEF CreditInv, CreditTypes, OperationFits
<1>14. /\ Drawn(f)' => f # "redeem" /\ forms'[f].operation = op
       /\ f # "redeem" => Drawn(f)'
       /\ \A g \in Credit!Forms : g # f => Drawn(g)' = Drawn(g)
  BY <1>4, <1>6, <1>9, <1>10 DEF Drawn, OperationFits
<1>15. ASSUME NEW k, NEW w, Claim(k, w)' PROVE Claim(k, w) \/ (k = op.key /\ w = wish)
  <2>1. CASE \E r \in requests' : r.operation.key = k /\ r.wish = w
    BY <1>5, <1>12, <2>1 DEF Claim
  <2>2. CASE \E p \in postings' : p.key = k /\ p.wish = w
    BY <1>5, <2>2 DEF Claim
  <2>3. ASSUME NEW g \in Credit!Forms, Drawn(g)', forms'[g].operation.key = k,
               forms'[g].wish = w
        PROVE  Claim(k, w) \/ (k = op.key /\ w = wish)
    BY <1>9, <1>10, <1>14, <2>3 DEF Claim
  <2> QED
    BY <1>15, <2>1, <2>2, <2>3 DEF Claim
<1>16. ASSUME NEW k, NEW w, KeyFits(k, w) PROVE KeyFits(k, w)'
  BY <1>5, <1>6, <1>7, <1>16 DEF KeyFits, OperationFits
<1>17. KeyFits(op.key, wish)'
  BY <1>2, <1>5, <1>6 DEF KeyFits, OperationFits
<1>18. ClaimsFit'
  BY <1>15, <1>16, <1>17 DEF CreditInv, ClaimsFit
<1>19. OneKeyEach'
  <2> SUFFICES ASSUME NEW k, NEW l, NEW w, NEW v, Claim(k, w)', Claim(l, v)'
               PROVE  k = l <=> w = v
    BY DEF OneKeyEach
  <2>1. Claim(k, w) \/ (k = op.key /\ w = wish)
    BY <1>15
  <2>2. Claim(l, v) \/ (l = op.key /\ v = wish)
    BY <1>15
  <2>3. \A key, other : Claim(key, other) => (key = op.key <=> other = wish)
    BY <1>2, <1>6 DEF OperationFits
  <2>4. Claim(k, w) /\ Claim(l, v) => (k = l <=> w = v)
    BY DEF CreditInv, OneKeyEach
  <2> QED
    BY <2>1, <2>2, <2>3, <2>4
<1>20. ASSUME NEW g \in Credit!Forms PROVE (FormFits(g) /\ Unclaimed(g))'
  <2>1. FormFits(g) /\ Unclaimed(g) /\ forms[g] \in FormRecord
    BY DEF CreditInv, FormsFit, CreditTypes
  <2>2. CASE g = f
    <3>1. FormFits(f)'
      BY <1>2, <1>5, <1>6, <1>7, <1>9, <1>10, <1>14 DEF FormFits, OperationFits
    <3>2. Unclaimed(f)'
      BY <1>14 DEF Unclaimed
    <3> QED
      BY <2>2, <3>1, <3>2
  <2>3. CASE g # f
    <3>1. FormFits(g)'
      BY <1>5, <1>10, <1>14, <2>1, <2>3 DEF FormFits
    <3>2. forms[g].wish # 0 => forms[g].wish # wish
      BY <1>2, <1>6, <2>1, <2>3 DEF FormFits, OperationFits
    <3>3. Unclaimed(g)'
      BY <1>10, <1>14, <1>15, <2>1, <2>3, <3>2 DEF Unclaimed
    <3> QED
      BY <3>1, <3>3
  <2> QED
    BY <2>2, <2>3
<1>21. ASSUME NEW r \in requests PROVE RequestFits(r)'
  <2>1. RequestFits(r) /\ r \in RequestRecord
    BY DEF CreditInv, RequestsFit, CreditTypes
  <2>2. r.form \in Credit!Forms /\ r.n \in Nat
    BY <2>1 DEF RequestRecord
  <2>3. forms'[r.form].waits = r.n => forms'[r.form].wish = r.wish
    BY <1>7, <1>9, <1>10, <2>1, <2>2 DEF RequestFits
  <2>4. r.n <= sends + 1
    BY <1>7, <2>1, <2>2 DEF RequestFits
  <2> QED
    BY <1>5, <2>1, <2>3, <2>4 DEF RequestFits
<1>22. RequestFits(new)'
  BY <1>2, <1>5, <1>6, <1>7, <1>9, <1>10, <1>12 DEF RequestFits, OperationFits
<1>23. FormsFit' /\ RequestsFit' /\ PostingsFit'
  BY <1>5, <1>20, <1>21, <1>22 DEF CreditInv, FormsFit, RequestsFit, PostingsFit, PostingFits
<1> QED
  BY <1>13, <1>18, <1>19, <1>23 DEF CreditInv

-----------------------------------------------------------------------------
(* What the server did, and what the form learns of it.                    *)
LEMMA RequestFacts ==
  ASSUME CreditInv, NEW r \in requests
  PROVE  /\ r \in RequestRecord /\ RequestFits(r) /\ Claim(r.operation.key, r.wish)
         /\ r.form \in Credit!Forms /\ r.wish # 0 /\ r.n # 0
BY DEF CreditInv, CreditTypes, RequestsFit, Claim, RequestRecord

LEMMA ServedHolds ==
  ASSUME CreditInv, NEW r \in requests, NEW answer \in {"success", "error"},
         Credit!Answered(r, answer), UNCHANGED <<forms, wishes, keysDrawn, sends>>,
         postings \subseteq postings', postings' \subseteq PostingRecord,
         \A p \in postings' : p \in postings \/ (p.key = r.operation.key /\ p.wish = r.wish),
         PostingsFit',
         answer = "success" => \E p \in postings' : p.wish = r.wish
  PROVE  CreditInv'
<1> DEFINE done == [r EXCEPT !.answer = answer]
<1>1. requests' = (requests \ {r}) \cup {done}
  BY DEF Credit!Answered
<1>2. r \in RequestRecord /\ RequestFits(r) /\ Claim(r.operation.key, r.wish)
  BY RequestFacts
<1>3. /\ done \in RequestRecord /\ done.form = r.form /\ done.operation = r.operation
      /\ done.wish = r.wish /\ done.n = r.n /\ done.answer = answer
  BY <1>2 DEF RequestRecord
<1> HIDE DEF done
<1>4. CreditTypes'
  BY <1>1, <1>3 DEF CreditInv, CreditTypes
<1>5. \A f \in Credit!Forms : Drawn(f)' = Drawn(f)
  BY DEF Drawn
<1>6. \A key, wish : Claim(key, wish)' => Claim(key, wish)
  BY <1>1, <1>2, <1>3, <1>5 DEF Claim
<1>7. ClaimsFit' /\ OneKeyEach'
  BY <1>6, FewerClaims
<1>8. FormsFit'
  BY <1>5, <1>6 DEF CreditInv, FormsFit, FormFits, Unclaimed
<1>9. RequestsFit'
  BY <1>1, <1>2, <1>3 DEF CreditInv, RequestsFit, RequestFits
<1> QED
  BY <1>4, <1>7, <1>8, <1>9 DEF CreditInv

LEMMA ServeOperationHolds ==
  ASSUME CreditInv, NEW r \in requests, Credit!ServeOperation(r)
  PROVE  CreditInv'
<1>1. /\ r \in RequestRecord /\ RequestFits(r) /\ Claim(r.operation.key, r.wish)
      /\ UNCHANGED <<forms, wishes, keysDrawn, sends>>
  BY RequestFacts DEF Credit!ServeOperation, Credit!formState
<1>2. postings \subseteq PostingRecord /\ PostingsFit
  BY DEF CreditInv, CreditTypes
<1>3. CASE /\ ~Credit!Posted(r.operation) /\ Credit!Answered(r, "success")
           /\ postings' = postings \cup {[key |-> r.operation.key,
                amount |-> r.operation.amount, n |-> r.n, wish |-> r.wish]}
  <2>1. PICK new : new = [key |-> r.operation.key, amount |-> r.operation.amount,
                          n |-> r.n, wish |-> r.wish]
    OBVIOUS
  <2>2. /\ new \in PostingRecord /\ new.key = r.operation.key /\ new.wish = r.wish
        /\ new.amount = r.operation.amount /\ postings' = postings \cup {new}
    BY <1>1, <1>3, <2>1 DEF RequestRecord, PostingRecord, Credit!Keyed
  <2>3. \A p \in postings : p.key # new.key
    BY <1>3, <2>2 DEF Credit!Posted
  <2>4. PostingsFit'
    BY <1>1, <1>2, <2>2, <2>3 DEF PostingsFit, PostingFits, RequestFits
  <2> QED
    BY <1>1, <1>2, <1>3, <2>2, <2>4, ServedHolds
<1>4. ASSUME UNCHANGED postings PROVE PostingsFit'
  BY <1>1, <1>2, <1>4 DEF PostingsFit, PostingFits
<1>5. CASE /\ Credit!Posted(r.operation) /\ UNCHANGED postings
           /\ Credit!Answered(r, IF r.form = "redeem" THEN "error" ELSE "success")
  <2>1. PICK p \in postings : p.key = r.operation.key
    BY <1>5 DEF Credit!Posted
  <2>2. Claim(p.key, p.wish)
    BY DEF Claim
  <2>3. p.wish = r.wish
    BY <1>1, <2>1, <2>2 DEF CreditInv, OneKeyEach
  <2>4. PICK answer \in {"success", "error"} : Credit!Answered(r, answer)
    BY <1>5
  <2> QED
    BY <1>1, <1>2, <1>4, <1>5, <2>3, <2>4, ServedHolds
<1>6. CASE Credit!Answered(r, "error") /\ UNCHANGED postings
  BY <1>1, <1>2, <1>4, <1>6, ServedHolds
<1> QED
  BY <1>3, <1>5, <1>6 DEF Credit!ServeOperation

LEMMA ShownHolds ==
  ASSUME CreditInv, NEW r \in requests, NEW answer \in {"success", "error"},
         Credit!Shows(r, answer), requests' \subseteq requests,
         UNCHANGED <<postings, wishes, keysDrawn, sends>>,
         answer = "success" => \E p \in postings : p.wish = r.wish
  PROVE  CreditInv'
<1>1. r \in RequestRecord /\ RequestFits(r) /\ r.form \in Credit!Forms
  BY RequestFacts
<1>2. PICK f \in Credit!Forms : f = r.form
  BY <1>1
<1>3. forms[f] \in FormRecord /\ FormFits(f) /\ Unclaimed(f) /\ forms \in [Credit!Forms -> FormRecord]
  BY DEF CreditInv, CreditTypes, FormsFit
<1>4. PICK q \in FormRecord :
        /\ forms' \in [Credit!Forms -> FormRecord] /\ forms'[f] = q
        /\ \A g \in Credit!Forms : g # f => forms'[g] = forms[g]
        /\ q.operation = forms[f].operation
        /\ \/ q = forms[f]
           \/ /\ q.waits = 0 /\ q.pc = answer /\ forms[f].waits = r.n
              /\ q.wish = IF f = "redeem" /\ answer = "success" THEN 0 ELSE forms[f].wish
  <2>1. CASE forms[f].waits # r.n
    <3>1. forms' = forms
      BY <1>2, <2>1 DEF Credit!Shows
    <3> QED
      BY <1>3, <3>1
  <2>2. CASE forms[f].waits = r.n
    <3> DEFINE left == IF f = "redeem" /\ answer = "success" THEN 0 ELSE forms[f].wish
               q == [forms[f] EXCEPT !.pc = answer, !.waits = 0, !.wish = left]
    <3>1. forms' = [forms EXCEPT ![f] = q]
      BY <1>2, <2>2 DEF Credit!Shows
    <3>2. 0 \in 0..MaxWishes /\ 0 \in 0..MaxSends
      BY BoundsAssumption
    <3>3. left \in 0..MaxWishes
      BY <1>3, <3>2 DEF FormRecord
    <3> HIDE DEF left
    <3>4. /\ q \in FormRecord /\ q.operation = forms[f].operation /\ q.waits = 0
          /\ q.pc = answer /\ q.wish = left
      BY <1>3, <3>2, <3>3 DEF FormRecord
    <3> HIDE DEF q
    <3>5. /\ forms' \in [Credit!Forms -> FormRecord] /\ forms'[f] = q
          /\ \A g \in Credit!Forms : g # f => forms'[g] = forms[g]
      BY <1>3, <3>1, <3>4
    <3> QED
      BY <2>2, <3>4, <3>5 DEF left
  <2> QED
    BY <2>1, <2>2
<1>5. CreditTypes'
  BY <1>4 DEF CreditInv, CreditTypes
<1>6. \A g \in Credit!Forms :
        /\ forms'[g].operation = forms[g].operation /\ Drawn(g)' = Drawn(g)
        /\ forms'[g].wish # 0 => forms'[g].wish = forms[g].wish
        /\ Drawn(g) => forms'[g].wish = forms[g].wish
  <2>1. \A g \in Credit!Forms : forms'[g].operation = forms[g].operation
    BY <1>4
  <2>2. Drawn(f) => f # "redeem"
    BY <1>3 DEF FormFits
  <2> QED
    BY <1>4, <2>1, <2>2 DEF Drawn
<1>7. \A key, wish : Claim(key, wish)' => Claim(key, wish)
  BY <1>6 DEF Claim
<1>8. ClaimsFit' /\ OneKeyEach'
  BY <1>7, FewerClaims
<1>9. ASSUME NEW g \in Credit!Forms PROVE (FormFits(g) /\ Unclaimed(g))'
  <2>1. FormFits(g) /\ Unclaimed(g) /\ Len(wishes) \in Nat
    BY DEF CreditInv, FormsFit, CreditTypes
  <2>2. Unclaimed(g)'
    BY <1>6, <1>7, <2>1 DEF Unclaimed
  <2>3. ASSUME g = f, q # forms[f] PROVE FormFits(f)'
    <3>1. q.waits = 0 /\ q.pc = answer /\ forms[f].waits = r.n
      BY <1>4, <2>3
    <3>2. answer = "success" /\ q.wish # 0 => \E p \in postings : p.wish = q.wish
      BY <1>1, <1>2, <1>4, <1>6, <3>1 DEF RequestFits
    <3>3. q.wish = forms[f].wish \/ (q.wish = 0 /\ ~Drawn(f))
      BY <1>3, <1>4 DEF FormFits
    <3> QED
      BY <1>3, <1>4, <1>6, <2>1, <2>3, <3>1, <3>2, <3>3 DEF FormFits
  <2>4. FormFits(g)'
    BY <1>4, <1>6, <2>1, <2>3 DEF FormFits
  <2> QED
    BY <2>2, <2>4
<1>10. ASSUME NEW s \in requests' PROVE RequestFits(s)'
  <2>1. RequestFits(s) /\ s.form \in Credit!Forms /\ s.n # 0
    BY <1>10, RequestFacts
  <2>2. forms'[s.form].waits = s.n => forms'[s.form].wish = s.wish
    BY <1>4, <2>1 DEF RequestFits
  <2> QED
    BY <2>1, <2>2 DEF RequestFits
<1>11. FormsFit' /\ RequestsFit' /\ PostingsFit'
  BY <1>9, <1>10 DEF CreditInv, FormsFit, RequestsFit, PostingsFit, PostingFits
<1> QED
  BY <1>5, <1>8, <1>11 DEF CreditInv

LEMMA CreditNext == CreditInv /\ [Credit!Next]_(Credit!creditVars) => CreditInv'
<1> SUFFICES ASSUME CreditInv, [Credit!Next]_(Credit!creditVars) PROVE CreditInv'
  OBVIOUS
<1>1. CASE UNCHANGED Credit!creditVars
  <2>1. UNCHANGED <<forms, requests, postings, wishes, keysDrawn, sends>>
    BY <1>1 DEF Credit!creditVars
  <2> QED
    BY <2>1 DEF CreditInv, CreditTypes, ClaimsFit, OneKeyEach, Claim, KeyFits, FormsFit, FormFits,
       Unclaimed, Drawn, RequestsFit, RequestFits, PostingsFit, PostingFits
<1>2. ASSUME NEW r \in requests, Credit!Receive(r) PROVE CreditInv'
  <2>1. r.answer \in {"success", "error"} /\ RequestFits(r)
    BY <1>2, RequestFacts DEF Credit!Receive, RequestRecord
  <2> QED
    BY <1>2, <2>1, ShownHolds DEF Credit!Receive, RequestFits
<1>3. ASSUME NEW r \in requests, Credit!GiveUp(r) PROVE CreditInv'
  BY <1>3, ShownHolds DEF Credit!GiveUp
<1> QED
  BY <1>1, <1>2, <1>3, PanelsHold, FillInHolds, ConfirmHolds, ServeOperationHolds
     DEF Credit!Next

LEMMA CreditKept == FrontsSpec => []CreditInv
<1>1. Credit!Spec => []CreditInv
  BY CreditStart, CreditNext, PTL DEF Credit!Spec
<1> QED
  BY <1>1, CreditAlone, PTL

(* Whatever is refused, lost, retried, closed or left: a wish moves        *)
(* credits at most once, by the amount that was filled in, and a form that *)
(* reports success reports a movement of its own wish.                     *)
THEOREM WishesCreditedOnce == FrontsSpec => []CreditedOnce
<1>1. CreditInv => CreditedOnce
  <2> SUFFICES ASSUME CreditInv PROVE CreditedOnce
    OBVIOUS
  <2>1. ASSUME NEW p \in postings, NEW q \in postings, p.wish = q.wish PROVE p = q
    <3>1. Claim(p.key, p.wish) /\ Claim(q.key, q.wish)
      BY DEF Claim
    <3>2. p.key = q.key
      BY <2>1, <3>1 DEF CreditInv, OneKeyEach
    <3> QED
      BY <3>2 DEF CreditInv, PostingsFit, PostingFits
  <2>2. /\ \A p \in postings : p.amount = wishes[p.wish].amount
        /\ \A f \in Credit!Forms : forms[f].pc = "success" /\ forms[f].wish # 0 =>
             \E p \in postings : p.wish = forms[f].wish
    BY DEF CreditInv, PostingsFit, PostingFits, FormsFit, FormFits
  <2> QED
    BY <2>1, <2>2 DEF CreditedOnce, Credit!CreditedOnce, Credit!Filled
<1> QED
  BY <1>1, CreditKept, PTL

-----------------------------------------------------------------------------
\* The pages that show a secret once

(* The answer a page waits for is that of its last creation; the request   *)
(* its mutation shows is about the row whose confirmation is open, where   *)
(* another row's confirmation resets the mutation.                         *)
CreationOK ==
  /\ unserved \cup returned \subseteq 1..creations /\ returned \subseteq created
  /\ making # 0 => making = creations /\ secret = 0
  /\ secret # 0 => secret = creations /\ secret \in created
ConfirmationOK ==
  /\ \A r \in asked : r.n <= acts
  /\ Secret!Resets /\ confirm # Nothing /\ act # 0 =>
       \A r \in asked : r.n = act => r.row = confirm
AwayOK == page = "away" =>
  ~panel /\ making = 0 /\ secret = 0 /\ confirm = Nothing /\ act = 0 /\ notice = Nothing
SecretTypes ==
  /\ page \in Secret!Pages \cup {"away"} /\ panel \in BOOLEAN
  /\ making \in 0..MaxCreations /\ secret \in 0..MaxCreations /\ creations \in 0..MaxCreations
  /\ created \subseteq 1..MaxCreations /\ returned \subseteq 1..MaxCreations
  /\ kept \subseteq 1..MaxCreations /\ unserved \subseteq 1..MaxCreations
  /\ confirm \in Secrets \cup {Nothing} /\ notice \in Secrets \cup {Nothing}
  /\ act \in 0..MaxActs /\ acts \in 0..MaxActs
  /\ asked \subseteq [n : 1..MaxActs, row : Secrets, live : BOOLEAN]
SecretInv ==
  SecretTypes /\ CreationOK /\ ConfirmationOK /\ AwayOK /\ Secret!NoticeOfItsRow

(* The steps of the other surfaces leave these pages alone.                *)
LEMMA SecretAlone == FrontsSpec => Secret!Spec
<1>1. FrontsInit => Secret!Init
  BY DEF FrontsInit
<1>2. [FrontsNext]_frontVars => [Secret!Next]_(Secret!secretVars)
  BY DEF FrontsNext, frontVars, OnSession, OnPaged, OnSkill, OnTool, OnCredit, OnSecret,
         OnSettings, OnDesk, OnUpdate, OnDev, ofSecret, Secret!secretVars, Secret!creation,
         Secret!list
<1> QED
  BY <1>1, <1>2, PTL DEF FrontsSpec, Secret!Spec

LEMMA SecretTyped == Secret!TypeOK <=> SecretTypes
BY DEF Secret!TypeOK, SecretTypes

LEMMA SecretStart == Secret!Init => SecretInv
<1>1. 0 \in 0..MaxCreations /\ 0 \in 0..MaxActs
  BY BoundsAssumption
<1> QED
  BY <1>1 DEF Secret!Init, SecretInv, SecretTypes, CreationOK, ConfirmationOK, AwayOK,
     Secret!NoticeOfItsRow, Secret!Pages

LEMMA PagesHold ==
  ASSUME SecretInv, Secret!Leave \/ \E p \in Secret!Pages : Secret!Visit(p)
  PROVE  SecretInv'
<1>1. CASE Secret!Leave
  <2>1. \A r \in asked' : \E q \in asked : r.n = q.n /\ r.row = q.row
    BY <1>1 DEF Secret!Leave, SecretInv, SecretTypes
  <2>2. asked' \subseteq [n : 1..MaxActs, row : Secrets, live : BOOLEAN]
    BY <1>1 DEF Secret!Leave, SecretInv, SecretTypes
  <2>3. SecretTypes'
    <3>1. 0 \in 0..MaxCreations /\ 0 \in 0..MaxActs
      BY BoundsAssumption
    <3> QED
      BY <1>1, <2>2, <3>1 DEF Secret!Leave, SecretInv, SecretTypes
  <2> QED
    BY <1>1, <2>1, <2>3 DEF Secret!Leave, SecretInv, CreationOK, ConfirmationOK, AwayOK,
       Secret!NoticeOfItsRow, SecretTypes
<1>2. ASSUME NEW p \in Secret!Pages, Secret!Visit(p) PROVE SecretInv'
  BY <1>2 DEF Secret!Visit, Secret!creation, Secret!list, SecretInv, CreationOK, ConfirmationOK,
     AwayOK, Secret!NoticeOfItsRow, SecretTypes, Secret!Pages
<1> QED
  BY <1>1, <1>2

(* The steps of the panel and of the secret.                               *)
SecretStep(n) == Secret!ServeCreate(n) \/ Secret!ShowSecret(n) \/ Secret!CreateFails(n)
LEMMA SecretPanelHolds ==
  ASSUME SecretInv,
         Secret!OpenPanel \/ Secret!ClosePanel \/ Secret!Create \/ Secret!Hide
         \/ \E n \in 1..MaxCreations : SecretStep(n)
  PROVE  SecretInv'
<1>1. UNCHANGED <<page, confirm, act, asked, notice, acts>>
  BY DEF Secret!OpenPanel, Secret!ClosePanel, Secret!Create, Secret!Hide, SecretStep,
     Secret!ServeCreate, Secret!ShowSecret, Secret!CreateFails, Secret!list
<1>2. ConfirmationOK' /\ (Secret!NoticeOfItsRow)'
  BY <1>1 DEF SecretInv, ConfirmationOK, Secret!NoticeOfItsRow, Secret!Resets
<1>3. SecretTypes' /\ CreationOK' /\ AwayOK'
  <2>1. CASE Secret!OpenPanel \/ Secret!ClosePanel
    BY <1>1, <2>1 DEF Secret!OpenPanel, Secret!ClosePanel, Secret!creation, Secret!Makes, SecretInv,
       SecretTypes, CreationOK, AwayOK
  <2>2. CASE Secret!Create
    <3>1. creations + 1 \in 1..MaxCreations /\ creations \in Nat
      BY <2>2, BoundsAssumption DEF Secret!Create, SecretInv, SecretTypes
    <3>2. SecretTypes'
      BY <1>1, <2>2, <3>1 DEF Secret!Create, SecretInv, SecretTypes
    <3>3. CreationOK' /\ AwayOK'
      BY <1>1, <2>2, <3>1 DEF Secret!Create, SecretInv, CreationOK, AwayOK
    <3> QED
      BY <3>2, <3>3
  <2>3. CASE Secret!Hide
    BY <1>1, <2>3 DEF Secret!Hide, SecretInv, SecretTypes, CreationOK, AwayOK
  <2>4. ASSUME NEW n \in 1..MaxCreations, SecretStep(n)
        PROVE  SecretTypes' /\ CreationOK' /\ AwayOK'
    <3>1. CASE Secret!ServeCreate(n)
      BY <1>1, <3>1 DEF Secret!ServeCreate, SecretInv, SecretTypes, CreationOK, AwayOK
    <3>2. CASE Secret!ShowSecret(n)
      BY <1>1, <3>2 DEF Secret!ShowSecret, Secret!Awaited, SecretInv, SecretTypes, CreationOK, AwayOK
    <3>3. CASE Secret!CreateFails(n)
      BY <1>1, <3>3 DEF Secret!CreateFails, SecretInv, SecretTypes, CreationOK, AwayOK
    <3> QED
      BY <2>4, <3>1, <3>2, <3>3 DEF SecretStep
  <2> QED
    BY <2>1, <2>2, <2>3, <2>4
<1> QED
  BY <1>2, <1>3 DEF SecretInv

(* The steps of the list and of its confirmations.                         *)
ConfirmationTyped ==
  /\ confirm \in Secrets \cup {Nothing} /\ notice \in Secrets \cup {Nothing}
  /\ act \in 0..MaxActs /\ acts \in 0..MaxActs
  /\ asked \subseteq [n : 1..MaxActs, row : Secrets, live : BOOLEAN]
LEMMA ListHolds ==
  ASSUME SecretInv, UNCHANGED <<page, panel, Secret!creation>>,
         ConfirmationTyped', ConfirmationOK', (Secret!NoticeOfItsRow)',
         page # "away" \/ UNCHANGED <<confirm, act, notice>>
  PROVE  SecretInv'
BY DEF SecretInv, SecretTypes, ConfirmationTyped, CreationOK, AwayOK, Secret!creation

LEMMA ActingHolds ==
  ASSUME SecretInv, Secret!Dismiss \/ Secret!Act \/ \E one \in Secrets : Secret!Confirm(one)
  PROVE  SecretInv'
<1>1. /\ ConfirmationTyped /\ 0 \in 0..MaxActs /\ page # "away"
      /\ UNCHANGED <<page, panel, Secret!creation>>
  BY BoundsAssumption
  DEF SecretInv, SecretTypes, ConfirmationTyped, AwayOK, Secret!Dismiss, Secret!Act,
      Secret!Confirm, Secret!Lists, Secret!creation
<1>2. CASE Secret!Dismiss
  <2>1. ConfirmationTyped' /\ ConfirmationOK' /\ (Secret!NoticeOfItsRow)'
    BY <1>1, <1>2 DEF Secret!Dismiss, ConfirmationTyped, SecretInv, ConfirmationOK,
       Secret!NoticeOfItsRow
  <2> QED
    BY <1>1, <2>1, ListHolds
<1>3. CASE Secret!Act
  <2>1. acts + 1 \in 1..MaxActs /\ acts \in Nat /\ confirm \in Secrets
    BY <1>1, <1>3, BoundsAssumption DEF Secret!Act, ConfirmationTyped
  <2>2. ConfirmationTyped'
    <3> DEFINE T == [n : 1..MaxActs, row : Secrets, live : BOOLEAN]
               asking == [n |-> acts + 1, row |-> confirm, live |-> TRUE]
    <3>0. asking \in T
      BY <2>1
    <3>1. asked' \subseteq T
      <4>1. asked \subseteq T /\ asked' = asked \cup {asking}
        BY <1>1, <1>3 DEF Secret!Act, ConfirmationTyped
      <4> HIDE DEF T, asking
      <4> QED
        BY <3>0, <4>1
    <3>2. acts + 1 \in 0..MaxActs
      BY <2>1
    <3> QED
      BY <1>1, <1>3, <3>1, <3>2 DEF Secret!Act, ConfirmationTyped
  <2>3. \A r \in asked : r.n \in Nat /\ r.n < acts + 1
    BY <1>1, <2>1 DEF SecretInv, ConfirmationOK, ConfirmationTyped
  <2>4. ConfirmationOK' /\ (Secret!NoticeOfItsRow)'
    BY <1>1, <1>3, <2>1, <2>3 DEF Secret!Act, ConfirmationOK, Secret!NoticeOfItsRow
  <2> QED
    BY <1>1, <2>2, <2>4, ListHolds
<1>4. ASSUME NEW one \in Secrets, Secret!Confirm(one) PROVE SecretInv'
  <2>1. ConfirmationTyped' /\ ConfirmationOK' /\ (Secret!NoticeOfItsRow)'
    BY <1>1, <1>4 DEF Secret!Confirm, ConfirmationTyped, SecretInv, ConfirmationOK,
       Secret!NoticeOfItsRow, Secret!Resets
  <2> QED
    BY <1>1, <2>1, ListHolds
<1> QED
  BY <1>2, <1>3, <1>4

LEMMA AnsweredHolds ==
  ASSUME SecretInv, NEW r \in asked, Secret!Acted(r) \/ Secret!ActFails(r)
  PROVE  SecretInv'
<1>1. /\ ConfirmationTyped /\ 0 \in 0..MaxActs /\ r.n \in 1..MaxActs /\ r.row \in Secrets
      /\ UNCHANGED <<page, panel, Secret!creation>>
  BY BoundsAssumption
  DEF SecretInv, SecretTypes, ConfirmationTyped, Secret!Acted, Secret!ActFails, Secret!creation
<1>2. CASE Secret!Acted(r)
  <2>1. ConfirmationTyped' /\ ConfirmationOK' /\ (Secret!NoticeOfItsRow)'
    BY <1>1, <1>2 DEF Secret!Acted, ConfirmationTyped, SecretInv, ConfirmationOK,
       Secret!NoticeOfItsRow, Secret!Resets
  <2>2. page = "away" => UNCHANGED <<confirm, act, notice>>
    BY <1>1, <1>2 DEF Secret!Acted, SecretInv, AwayOK
  <2> QED
    BY <1>1, <2>1, <2>2, ListHolds
<1>3. CASE Secret!ActFails(r)
  <2>1. ConfirmationTyped' /\ ConfirmationOK' /\ (Secret!NoticeOfItsRow)'
    BY <1>1, <1>3 DEF Secret!ActFails, ConfirmationTyped, SecretInv, ConfirmationOK,
       Secret!NoticeOfItsRow, Secret!Resets
  <2>2. page = "away" => UNCHANGED <<confirm, act, notice>>
    BY <1>1, <1>3 DEF Secret!ActFails, SecretInv, AwayOK
  <2> QED
    BY <1>1, <2>1, <2>2, ListHolds
<1> QED
  BY <1>2, <1>3

LEMMA SecretHolds == SecretInv /\ [Secret!Next]_(Secret!secretVars) => SecretInv'
<1> SUFFICES ASSUME SecretInv, [Secret!Next]_(Secret!secretVars) PROVE SecretInv'
  OBVIOUS
<1>1. CASE UNCHANGED Secret!secretVars
  BY <1>1 DEF Secret!secretVars, Secret!creation, Secret!list, SecretInv, SecretTypes,
     CreationOK, ConfirmationOK, AwayOK, Secret!NoticeOfItsRow, Secret!Resets
<1>2. CASE Secret!Next
  BY <1>2, PagesHold, SecretPanelHolds, ActingHolds, AnsweredHolds DEF Secret!Next, SecretStep
<1> QED
  BY <1>1, <1>2

(* The secret that appears is that of the last creation, and it stays      *)
(* until its reader hides it or leaves the page.                           *)
LEMMA SecretMoves ==
  SecretInv /\ [Secret!Next]_(Secret!secretVars) =>
    [secret' # secret =>
       \/ secret = 0 /\ secret' = creations /\ secret' \in created
       \/ secret' = 0 /\ (secret \in kept' \/ page' = "away")]_(Secret!secretVars)
<1> SUFFICES ASSUME SecretInv, Secret!Next, secret' # secret
             PROVE  \/ secret = 0 /\ secret' = creations /\ secret' \in created
                    \/ secret' = 0 /\ (secret \in kept' \/ page' = "away")
  BY DEF Secret!secretVars, Secret!creation
<1>1. Secret!Leave \/ Secret!Hide \/ \E n \in 1..MaxCreations : Secret!ShowSecret(n)
  BY DEF Secret!Next, Secret!Visit, Secret!OpenPanel, Secret!ClosePanel, Secret!Create,
     Secret!ServeCreate, Secret!CreateFails, Secret!Confirm, Secret!Dismiss, Secret!Act,
     Secret!Acted, Secret!ActFails, Secret!creation
<1>2. ASSUME NEW n \in 1..MaxCreations, Secret!ShowSecret(n)
      PROVE  secret = 0 /\ secret' = creations /\ secret' \in created
  BY <1>2 DEF Secret!ShowSecret, Secret!Awaited, SecretInv, CreationOK
<1> QED
  BY <1>1, <1>2 DEF Secret!Leave, Secret!Hide

(* What was shown once stays until it is hidden, and a failure is shown    *)
(* under its own row.                                                      *)
THEOREM SecretsStay == FrontsSpec => SecretKept
<1>1. SecretInv => Secret!NoticeOfItsRow
  BY DEF SecretInv
<1> QED
  BY <1>1, SecretAlone, SecretStart, SecretHolds, SecretMoves, PTL
  DEF Secret!Spec, SecretKept, Secret!SecretKept, Secret!SecretStays

-----------------------------------------------------------------------------
\* The desktop window

Whom == Accounts \cup {Nothing}
StatusType == [has : BOOLEAN, failed : BOOLEAN, account : Whom, at : Nat]
StatusReadType == [pc : {"idle", "sent", "loaded"}, account : Whom, at : Nat]
SigningType == [pc : {"idle", "sent", "done"}, to : Whom]
OperationType == [pc : {"idle", "sent", "done", "failed", "settling"},
                  list : {"clients", "installed"}]
DiagnosisType == [address : {1, 2}, pc : {"idle", "running", "done"}, of : 0..2]
ListType == [has : BOOLEAN, failed : BOOLEAN, at : Nat]
ListReadType == [pc : {"idle", "sent", "loaded"}, at : Nat]

WindowTypes ==
  /\ credentials \in Whom /\ windowPage \in {"overview", "equipment", "diagnostics"}
  /\ status \in StatusType /\ statusRead \in StatusReadType /\ signing \in SigningType
  /\ diagnosis \in DiagnosisType /\ signings \in Nat
(* The lists L are followed.                                               *)
ListTypes(L) ==
  /\ L \subseteq {"clients", "installed"}
  /\ lists \in [L -> ListType] /\ listReads \in [L -> ListReadType]
  /\ operation \in OperationType /\ (operation.pc # "idle" => operation.list \in L)
  /\ changed \in [L -> Nat] /\ answered \in [L -> Nat]
  /\ \A l \in L : answered[l] <= changed[l]

(* Only while an answered login waits to be shown may what is on screen,   *)
(* or on its way there, be older than the last login of the window.        *)
AccountOK ==
  /\ signing.pc # "done" /\ status.account # Nothing => status.at = signings
  /\ signing.pc # "done" /\ statusRead.pc = "loaded" => statusRead.at = signings
DiagnosisOK == diagnosis.pc # "idle" => diagnosis.of = diagnosis.address
(* A change of list l that is made and whose read has not begun.           *)
Unsettled(l) ==
  /\ operation.list = l
  /\ operation.pc = "done" \/ (operation.pc = "failed" /\ l = "installed")
(* A list that was read after the changes that are followed by a read.     *)
Fresh(l, at) == at >= answered[l] /\ (l = "installed" => at = changed[l])
ListOK(l) ==
  \/ Unsettled(l)
  \/ /\ listReads[l].pc = "loaded" => Fresh(l, listReads[l].at)
     /\ Desk!Usable(l) => Fresh(l, lists[l].at)
DeskInv ==
  /\ WindowTypes /\ ListTypes(Desk!Lists)
  /\ AccountOK /\ DiagnosisOK /\ \A l \in Desk!Lists : ListOK(l)

LEMMA DeskTyped == DeskInv => Desk!TypeOK
BY DEF DeskInv, WindowTypes, ListTypes, Desk!TypeOK, Whom, StatusType, StatusReadType, SigningType,
   OperationType, DiagnosisType, ListType, ListReadType, Desk!Users

LEMMA DeskAlone == FrontsSpec => Desk!Spec
<1>1. FrontsInit => Desk!Init
  BY DEF FrontsInit
<1>2. [FrontsNext]_frontVars => [Desk!Next]_(Desk!desktopVars)
  BY DEF FrontsNext, frontVars, OnSession, OnPaged, OnSkill, OnTool, OnCredit, OnSecret,
         OnSettings, OnDesk, OnUpdate, OnDev, ofDesk, Desk!desktopVars, Desk!who,
         Desk!account, Desk!what, Desk!work, Desk!history
<1> QED
  BY <1>1, <1>2, PTL DEF FrontsSpec, Desk!Spec

LEMMA DeskRecords ==
  /\ Desk!NoStatus \in StatusType /\ Desk!NoStatus.account = Nothing
  /\ Desk!NoRead \in StatusReadType /\ Desk!NoRead.pc = "idle"
  /\ Desk!NoSigning \in SigningType /\ Desk!NoSigning.pc = "idle"
  /\ Desk!NoOperation \in OperationType /\ Desk!NoOperation.pc = "idle"
  /\ Desk!NoDiagnosis \in DiagnosisType /\ Desk!NoDiagnosis.pc = "idle"
  /\ Desk!NoDiagnosis.address = 1
  /\ Desk!NoList \in ListType /\ Desk!NoList.has = FALSE /\ Desk!NoList.failed = FALSE
  /\ Desk!NoListRead \in ListReadType /\ Desk!NoListRead.pc = "idle"
<1>1. 0 \in 0..2 /\ 1 \in {1, 2} /\ 0 \in Nat
  OBVIOUS
<1> QED
  BY <1>1 DEF Desk!NoStatus, Desk!NoRead, Desk!NoSigning, Desk!NoOperation, Desk!NoDiagnosis,
     Desk!NoList, Desk!NoListRead, Whom, StatusType, StatusReadType, SigningType,
     OperationType, DiagnosisType, ListType, ListReadType

LEMMA DeskStarts ==
  /\ \A read \in StatusReadType :
       /\ Desk!Started(read) \in StatusReadType /\ Desk!Restarted(read) \in StatusReadType
       /\ Desk!Started(read).pc = "loaded" => read.pc = "loaded" /\ Desk!Started(read).at = read.at
       /\ Desk!Restarted(read).pc = "sent"
  /\ \A read \in ListReadType :
       /\ Desk!Started(read) \in ListReadType /\ Desk!Restarted(read) \in ListReadType
       /\ Desk!Started(read).pc = "loaded" => read.pc = "loaded" /\ Desk!Started(read).at = read.at
       /\ Desk!Started(read).pc # "idle"
       /\ Desk!Restarted(read).pc = "sent"
BY DEF Desk!Started, Desk!Restarted, StatusReadType, ListReadType

LEMMA DeskStart == Desk!Init => DeskInv
<1> SUFFICES ASSUME Desk!Init PROVE DeskInv
  OBVIOUS
<1>1. WindowTypes /\ AccountOK /\ DiagnosisOK
  BY DeskRecords, DeskStarts DEF Desk!Init, WindowTypes, AccountOK, DiagnosisOK, Whom, Desk!Started
<1>2. PICK L \in Followed : lists = [l \in L |-> Desk!NoList]
  BY DEF Desk!Init
<1>3. Desk!Lists = L
  BY <1>2 DEF Desk!Lists
<1>4. /\ listReads = [l \in L |-> IF l = "clients" THEN Desk!Started(Desk!NoListRead)
                                  ELSE Desk!NoListRead]
      /\ changed = [l \in L |-> 0] /\ answered = changed /\ operation = Desk!NoOperation
  BY <1>3 DEF Desk!Init
<1>5. \A l \in L : listReads[l] \in ListReadType /\ listReads[l].pc # "loaded"
  BY <1>4, DeskRecords DEF Desk!Started, ListReadType
<1>6. ListTypes(L) /\ \A l \in L : ~Desk!Usable(l)
  BY <1>2, <1>4, <1>5, DeskRecords, FrontsAssumption DEF ListTypes, Desk!Usable
<1> QED
  BY <1>1, <1>3, <1>5, <1>6 DEF DeskInv, ListOK

(* Steps that leave the lists alone, and steps that change nothing else.   *)
LEMMA WindowMoves ==
  ASSUME DeskInv, UNCHANGED <<lists, listReads, operation, changed, answered>>,
         WindowTypes', AccountOK', DiagnosisOK'
  PROVE  DeskInv'
BY DEF DeskInv, ListTypes, ListOK, Fresh, Unsettled, Desk!Usable, Desk!Lists

LEMMA ListsMove ==
  ASSUME DeskInv, NEW L, L = Desk!Lists, ListTypes(L)', \A l \in L : ListOK(l)',
         WindowTypes', AccountOK', DiagnosisOK'
  PROVE  DeskInv'
<1>1. (Desk!Lists)' = L
  BY DEF ListTypes, Desk!Lists
<1> QED
  BY <1>1 DEF DeskInv
WindowKept ==
  UNCHANGED <<windowPage, credentials, status, statusRead, signing, signings, diagnosis>>
LEMMA WindowStays ==
  ASSUME DeskInv, WindowKept
  PROVE  WindowTypes' /\ AccountOK' /\ DiagnosisOK'
BY DEF DeskInv, WindowKept, WindowTypes, AccountOK, DiagnosisOK

LEMMA NavigateHolds ==
  ASSUME DeskInv, NEW to \in {"overview", "equipment", "diagnostics"}, Desk!Navigate(to)
  PROVE  DeskInv'
<1>1. PICK L : L = Desk!Lists
  OBVIOUS
<1>2. /\ WindowTypes /\ ListTypes(L) /\ AccountOK /\ \A l \in L : ListOK(l)
      /\ windowPage' = to /\ diagnosis' = Desk!NoDiagnosis
      /\ statusRead' = statusRead \/ statusRead' = Desk!Started(statusRead)
      /\ UNCHANGED <<credentials, signing, signings, status, lists, operation>>
      /\ UNCHANGED <<changed, answered>>
  BY <1>1 DEF DeskInv, Desk!Navigate, Desk!who, Desk!work, Desk!history
<1>3. /\ listReads' = [l \in L |-> IF Desk!PageOf[l] = to THEN Desk!Started(listReads[l])
                                   ELSE listReads[l]]
  BY <1>1 DEF Desk!Navigate
<1>4. WindowTypes' /\ AccountOK' /\ DiagnosisOK'
  BY <1>2, DeskRecords, DeskStarts DEF WindowTypes, AccountOK, DiagnosisOK
<1>5. ListTypes(L)'
  BY <1>2, <1>3, DeskStarts DEF ListTypes
<1>6. ASSUME NEW l \in L PROVE ListOK(l)'
  <2>1. listReads[l] \in ListReadType
    BY <1>2 DEF ListTypes
  <2>2. listReads'[l] = listReads[l] \/ listReads'[l] = Desk!Started(listReads[l])
    BY <1>3
  <2>3. ListOK(l)
    BY <1>2
  <2> QED
    BY <1>2, <2>1, <2>2, <2>3, DeskStarts DEF ListOK, Fresh, Unsettled, Desk!Usable
<1> QED
  BY <1>1, <1>4, <1>5, <1>6, ListsMove

LEMMA StatusHolds ==
  ASSUME DeskInv, Desk!RefetchStatus \/ Desk!LoadCredentials \/ Desk!AnswerStatus
  PROVE  DeskInv'
<1>1. /\ WindowTypes /\ AccountOK /\ DiagnosisOK
      /\ UNCHANGED <<windowPage, credentials, signing, signings, diagnosis>>
      /\ UNCHANGED <<lists, listReads, operation, changed, answered>>
  BY DEF DeskInv, Desk!RefetchStatus, Desk!LoadCredentials, Desk!AnswerStatus, Desk!who,
     Desk!what, Desk!work, Desk!history
<1>2. CASE Desk!RefetchStatus
  <2>1. /\ status' = status /\ statusRead \in StatusReadType
        /\ statusRead' = Desk!Started(statusRead) \/ statusRead' = Desk!Restarted(statusRead)
    BY <1>1, <1>2 DEF Desk!RefetchStatus, WindowTypes
  <2>2. WindowTypes' /\ AccountOK' /\ DiagnosisOK'
    BY <1>1, <2>1, DeskStarts DEF WindowTypes, AccountOK, DiagnosisOK
  <2> QED
    BY <1>1, <2>2, WindowMoves
<1>3. CASE Desk!LoadCredentials
  <2>1. /\ status' = status
        /\ statusRead' = [pc |-> "loaded", account |-> credentials, at |-> signings]
    BY <1>3 DEF Desk!LoadCredentials
  <2>2. WindowTypes' /\ AccountOK' /\ DiagnosisOK'
    BY <1>1, <2>1 DEF WindowTypes, AccountOK, DiagnosisOK, StatusReadType
  <2> QED
    BY <1>1, <2>2, WindowMoves
<1>4. CASE Desk!AnswerStatus
  <2>1. statusRead' = Desk!NoRead /\ statusRead.pc = "loaded"
    BY <1>4 DEF Desk!AnswerStatus
  <2>2. /\ status' \in StatusType
        /\ status'.account = Nothing \/ status'.at = statusRead.at
    <3>1. /\ status \in StatusType /\ statusRead \in StatusReadType
          /\ \/ status' = [has |-> TRUE, failed |-> FALSE,
                           account |-> statusRead.account, at |-> statusRead.at]
             \/ status' = [Desk!NoStatus EXCEPT !.has = status.has, !.failed = TRUE]
      BY <1>1, <1>4 DEF Desk!AnswerStatus, WindowTypes
    <3>2. CASE status' = [has |-> TRUE, failed |-> FALSE,
                          account |-> statusRead.account, at |-> statusRead.at]
      BY <3>1, <3>2 DEF StatusType, StatusReadType
    <3>3. CASE status' = [Desk!NoStatus EXCEPT !.has = status.has, !.failed = TRUE]
      <4>1. status.has \in BOOLEAN /\ Desk!NoStatus \in StatusType
        BY <3>1, DeskRecords DEF StatusType
      <4>2. status' \in StatusType /\ status'.account = Desk!NoStatus.account
        BY <3>3, <4>1 DEF StatusType
      <4> QED
        BY <4>2, DeskRecords
    <3> QED
      BY <3>1, <3>2, <3>3
  <2>3. WindowTypes' /\ AccountOK' /\ DiagnosisOK'
    BY <1>1, <2>1, <2>2, DeskRecords DEF WindowTypes, AccountOK, DiagnosisOK
  <2> QED
    BY <1>1, <2>3, WindowMoves
<1> QED
  BY <1>2, <1>3, <1>4

LEMMA SignHolds ==
  ASSUME DeskInv,
         (\E a \in Accounts : Desk!Login(a)) \/ Desk!Logout \/ Desk!ServeSigning
         \/ Desk!SigningDone \/ Desk!Elsewhere
  PROVE  DeskInv'
<1>1. /\ WindowTypes /\ AccountOK /\ DiagnosisOK
      /\ UNCHANGED <<windowPage, diagnosis, lists, listReads, operation, changed, answered>>
  BY DEF DeskInv, Desk!Login, Desk!Logout, Desk!Sign, Desk!ServeSigning, Desk!SigningDone,
     Desk!Elsewhere, Desk!what, Desk!work, Desk!history
<1>2. ASSUME NEW to \in Whom, Desk!Sign(to) PROVE DeskInv'
  <2>1. /\ signing' = [pc |-> "sent", to |-> to]
        /\ UNCHANGED <<credentials, signings, status, statusRead>> /\ signing.pc = "idle"
    BY <1>2 DEF Desk!Sign, Desk!account, Desk!Busy
  <2>2. WindowTypes' /\ AccountOK' /\ DiagnosisOK'
    BY <1>1, <2>1 DEF WindowTypes, AccountOK, DiagnosisOK, SigningType
  <2> QED
    BY <1>1, <2>2, WindowMoves
<1>3. CASE Desk!ServeSigning
  <2>1. UNCHANGED <<status, statusRead>> /\ signing.pc = "sent"
    BY <1>3 DEF Desk!ServeSigning, Desk!account
  <2>2. WindowTypes' /\ AccountOK' /\ DiagnosisOK'
    BY <1>1, <1>3, <2>1, DeskRecords
    DEF Desk!ServeSigning, WindowTypes, AccountOK, DiagnosisOK, SigningType
  <2> QED
    BY <1>1, <2>2, WindowMoves
<1>4. CASE Desk!SigningDone
  <2>1. /\ status' = [has |-> TRUE, failed |-> FALSE, account |-> signing.to, at |-> signings]
        /\ statusRead' = Desk!NoRead /\ signing' = Desk!NoSigning
        /\ UNCHANGED <<credentials, signings>>
    BY <1>4 DEF Desk!SigningDone, Desk!Cancelled
  <2>2. status' \in StatusType /\ status'.at = signings
    BY <1>1, <2>1 DEF WindowTypes, StatusType, SigningType
  <2>3. WindowTypes' /\ AccountOK' /\ DiagnosisOK'
    BY <1>1, <2>1, <2>2, DeskRecords DEF WindowTypes, AccountOK, DiagnosisOK
  <2> QED
    BY <1>1, <2>3, WindowMoves
<1>5. CASE Desk!Elsewhere
  <2>1. WindowTypes' /\ AccountOK' /\ DiagnosisOK'
    BY <1>1, <1>5
    DEF Desk!Elsewhere, Desk!account, WindowTypes, AccountOK, DiagnosisOK, Whom
  <2> QED
    BY <1>1, <2>1, WindowMoves
<1> QED
  BY <1>2, <1>3, <1>4, <1>5 DEF Desk!Login, Desk!Logout, Whom

(* Steps of the lists, which leave the rest of the window alone.           *)
LEMMA OneListMoves ==
  ASSUME DeskInv, WindowKept, NEW l \in Desk!Lists, UNCHANGED Desk!history,
         lists' = lists \/ \E w \in ListType : lists' = [lists EXCEPT ![l] = w],
         NEW read \in ListReadType, listReads' = [listReads EXCEPT ![l] = read],
         operation' \in OperationType, operation'.pc # "idle" => operation'.list \in Desk!Lists,
         ListOK(l)', \A k \in Desk!Lists \ {l} : Unsettled(k) => Unsettled(k)'
  PROVE  DeskInv'
<1>1. PICK L : L = Desk!Lists
  OBVIOUS
<1>2. ListTypes(L) /\ \A k \in L : ListOK(k)
  BY <1>1 DEF DeskInv
<1>3. ListTypes(L)'
  BY <1>1, <1>2 DEF ListTypes, Desk!history
<1>4. ASSUME NEW k \in L PROVE ListOK(k)'
  <2>1. CASE k # l
    <3>1. /\ lists'[k] = lists[k] /\ listReads'[k] = listReads[k]
          /\ changed' = changed /\ answered' = answered
      BY <1>2, <2>1 DEF ListTypes, Desk!history
    <3> QED
      BY <1>1, <1>2, <2>1, <3>1 DEF ListOK, Fresh, Desk!Usable
  <2> QED
    BY <2>1
<1> QED
  BY <1>1, <1>3, <1>4, WindowStays, ListsMove

LEMMA ReadListHolds ==
  ASSUME DeskInv, NEW l \in Desk!Lists,
         Desk!RefetchList(l) \/ Desk!LoadList(l) \/ Desk!AnswerList(l)
  PROVE  DeskInv'
<1>1. PICK L : L = Desk!Lists
  OBVIOUS
<1>2. ListTypes(L) /\ ListOK(l) /\ WindowKept /\ UNCHANGED Desk!history
  BY <1>1 DEF DeskInv, WindowKept, Desk!RefetchList, Desk!LoadList, Desk!AnswerList, Desk!who,
     Desk!account, Desk!work, Desk!history
<1>3. /\ operation \in OperationType /\ (operation.pc # "idle" => operation.list \in L)
      /\ listReads[l] \in ListReadType /\ lists[l] \in ListType
      /\ changed[l] \in Nat /\ answered[l] \in Nat /\ answered[l] <= changed[l]
      /\ changed' = changed /\ answered' = answered
  BY <1>1, <1>2 DEF ListTypes, Desk!history
<1>4. PICK read : read = listReads'[l]
  OBVIOUS
<1>5. CASE Desk!RefetchList(l)
  <2>1. /\ read = Desk!Started(listReads[l])
        /\ lists' = lists /\ listReads' = [listReads EXCEPT ![l] = read]
        /\ operation' = operation
    BY <1>1, <1>2, <1>4, <1>5 DEF Desk!RefetchList, ListTypes, Desk!work, Desk!history
  <2>2. read \in ListReadType /\ ListOK(l)'
    BY <1>2, <1>3, <1>4, <2>1, DeskStarts DEF ListOK, Fresh, Unsettled, Desk!Usable
  <2> QED
    BY <1>1, <1>2, <1>3, <2>1, <2>2, OneListMoves DEF Unsettled
<1>6. CASE Desk!LoadList(l)
  <2>1. /\ read = [pc |-> "loaded", at |-> changed[l]]
        /\ lists' = lists /\ listReads' = [listReads EXCEPT ![l] = read]
        /\ operation' = operation
    BY <1>1, <1>2, <1>4, <1>6 DEF Desk!LoadList, ListTypes, Desk!work, Desk!history
  <2>2. read \in ListReadType /\ ListOK(l)'
    BY <1>2, <1>3, <1>4, <2>1 DEF ListOK, Fresh, Unsettled, Desk!Usable, ListReadType
  <2> QED
    BY <1>1, <1>2, <1>3, <2>1, <2>2, OneListMoves DEF Unsettled
<1>7. CASE Desk!AnswerList(l)
  <2>1. PICK w : lists' = [lists EXCEPT ![l] = w] /\
          (w = [has |-> TRUE, failed |-> FALSE, at |-> listReads[l].at]
           \/ w = [Desk!NoList EXCEPT !.has = lists[l].has, !.failed = TRUE])
    BY <1>7 DEF Desk!AnswerList
  <2>2. /\ read = Desk!NoListRead /\ listReads[l].pc = "loaded"
        /\ listReads' = [listReads EXCEPT ![l] = read]
    BY <1>1, <1>2, <1>4, <1>7 DEF Desk!AnswerList, ListTypes
  <2>3. \/ operation' = operation
        \/ operation' = Desk!NoOperation /\ operation.pc = "settling" /\ operation.list = l
    BY <1>7 DEF Desk!AnswerList
  <2>4. w \in ListType /\ w.failed \in BOOLEAN /\ (~w.failed => w.at = listReads[l].at)
    <3>1. CASE w = [has |-> TRUE, failed |-> FALSE, at |-> listReads[l].at]
      BY <1>3, <3>1 DEF ListType, ListReadType
    <3>2. CASE w = [Desk!NoList EXCEPT !.has = lists[l].has, !.failed = TRUE]
      BY <1>3, <3>2, DeskRecords DEF ListType
    <3> QED
      BY <2>1, <3>1, <3>2
  <2>5. lists'[l] = w
    BY <1>1, <1>2, <2>1 DEF ListTypes
  <2>6. Unsettled(l) => Unsettled(l)'
    BY <2>3 DEF Unsettled
  <2>7. ListOK(l)'
    BY <1>2, <1>3, <1>4, <2>2, <2>4, <2>5, <2>6, DeskRecords DEF ListOK, Fresh, Desk!Usable
  <2>8. \A k \in Desk!Lists \ {l} : Unsettled(k) => Unsettled(k)'
    BY <2>3 DEF Unsettled
  <2>9. operation' \in OperationType /\ (operation'.pc # "idle" => operation'.list \in Desk!Lists)
    BY <1>1, <1>3, <2>3, DeskRecords
  <2> QED
    BY <1>2, <2>1, <2>2, <2>4, <2>7, <2>8, <2>9, DeskRecords, OneListMoves
<1> QED
  BY <1>5, <1>6, <1>7

LEMMA OperateHolds ==
  ASSUME DeskInv,
         (\E l \in Desk!Lists : Desk!Operate(l)) \/ Desk!ServeOperation \/ Desk!OperationEnds
  PROVE  DeskInv'
<1>1. PICK L : L = Desk!Lists
  OBVIOUS
<1>2. ListTypes(L) /\ WindowKept /\ (\A l \in L : ListOK(l)) /\ operation \in OperationType
  BY <1>1 DEF DeskInv, ListTypes, WindowKept, Desk!Operate, Desk!ServeOperation,
     Desk!OperationEnds, Desk!who, Desk!account, Desk!what
<1>3. ASSUME NEW l \in L, Desk!Operate(l) PROVE DeskInv'
  <2>1. /\ operation' = [pc |-> "sent", list |-> l] /\ operation.pc = "idle"
        /\ UNCHANGED <<lists, listReads, changed, answered>>
    BY <1>3 DEF Desk!Operate, Desk!Busy, Desk!what, Desk!history
  <2>2. ListTypes(L)'
    BY <1>2, <2>1 DEF ListTypes, OperationType
  <2>3. \A k \in L : ListOK(k)'
    BY <1>2, <2>1 DEF ListOK, Fresh, Unsettled, Desk!Usable
  <2> QED
    BY <1>1, <1>2, <2>2, <2>3, WindowStays, ListsMove
<1>4. CASE Desk!ServeOperation
  <2>1. PICK l \in L : l = operation.list
    BY <1>2, <1>4 DEF Desk!ServeOperation, ListTypes
  <2>2. PICK end \in {"done", "failed"}, wrote \in {0, 1} :
          /\ operation' = [operation EXCEPT !.pc = end]
          /\ changed' = [changed EXCEPT ![l] = @ + wrote]
          /\ answered' = IF Desk!ReadAfter(end, l) THEN [answered EXCEPT ![l] = changed'[l]]
                         ELSE answered
    BY <1>4, <2>1 DEF Desk!ServeOperation
  <2>3. operation.pc = "sent" /\ UNCHANGED <<lists, listReads>>
    BY <1>4 DEF Desk!ServeOperation, Desk!what
  <2>4. operation' \in OperationType /\ operation'.list = l /\ operation'.pc = end
    BY <1>2, <2>1, <2>2 DEF OperationType
  <2>5. /\ changed \in [L -> Nat] /\ answered \in [L -> Nat]
        /\ \A k \in L : answered[k] <= changed[k]
    BY <1>2 DEF ListTypes
  <2>6. /\ changed' \in [L -> Nat] /\ changed'[l] >= changed[l]
        /\ \A k \in L \ {l} : changed'[k] = changed[k]
    <3>1. PICK n \in Nat : n = changed[l] + wrote
      BY <2>5
    <3>2. changed' = [changed EXCEPT ![l] = n]
      BY <2>2, <3>1
    <3> QED
      BY <2>5, <3>1, <3>2
  <2>7. /\ answered' \in [L -> Nat] /\ answered'[l] <= changed'[l]
        /\ \A k \in L \ {l} : answered'[k] = answered[k]
        /\ ~Desk!ReadAfter(end, l) => answered' = answered
    <3>1. CASE Desk!ReadAfter(end, l)
      <4>1. PICK n \in Nat : n = changed'[l]
        BY <2>6
      <4>2. answered' = [answered EXCEPT ![l] = n]
        BY <2>2, <3>1, <4>1
      <4> QED
        BY <2>5, <3>1, <4>1, <4>2
    <3>2. CASE ~Desk!ReadAfter(end, l)
      BY <2>2, <2>5, <2>6, <3>2
    <3> QED
      BY <3>1, <3>2
  <2>8. ListTypes(L)'
    BY <1>2, <2>3, <2>4, <2>5, <2>6, <2>7 DEF ListTypes
  <2>9. ASSUME NEW k \in L PROVE ListOK(k)'
    <3>1. ListOK(k) /\ ~Unsettled(k)
      BY <1>2, <2>3 DEF Unsettled
    <3>2. CASE k = l /\ Desk!ReadAfter(end, l)
      <4>1. Unsettled(k)'
        BY <2>4, <3>2 DEF Unsettled, Desk!ReadAfter
      <4> QED
        BY <4>1 DEF ListOK
    <3>3. CASE k = l /\ ~Desk!ReadAfter(end, l)
      <4>1. k # "installed" /\ answered'[k] = answered[k]
        BY <2>7, <3>3 DEF Desk!ReadAfter
      <4> QED
        BY <2>3, <3>1, <4>1 DEF ListOK, Fresh, Desk!Usable
    <3>4. CASE k # l
      <4>1. changed'[k] = changed[k] /\ answered'[k] = answered[k]
        BY <2>6, <2>7, <3>4
      <4> QED
        BY <2>3, <3>1, <4>1 DEF ListOK, Fresh, Desk!Usable
    <3> QED
      BY <3>2, <3>3, <3>4
  <2> QED
    BY <1>1, <1>2, <2>8, <2>9, WindowStays, ListsMove
<1>5. CASE Desk!OperationEnds
  <2>1. /\ operation.pc \in {"done", "failed"} /\ UNCHANGED <<lists, changed, answered>>
        /\ operation.list \in L
    BY <1>2, <1>5 DEF Desk!OperationEnds, ListTypes, Desk!history
  <2>2. CASE Desk!ReadAfter(operation.pc, operation.list)
    <3>1. PICK l \in L : l = operation.list
      BY <2>1
    <3>2. PICK read : read = Desk!Restarted(listReads[l])
      OBVIOUS
    <3>3. /\ operation' = [operation EXCEPT !.pc = "settling"]
          /\ listReads' = [listReads EXCEPT ![l] = read]
      BY <1>5, <2>2, <3>1, <3>2 DEF Desk!OperationEnds
    <3>4. read \in ListReadType /\ read.pc = "sent" /\ listReads'[l] = read
      BY <1>2, <3>2, <3>3, DeskStarts DEF ListTypes
    <3>5. operation' \in OperationType /\ operation'.list = l /\ operation'.pc = "settling"
      BY <1>2, <3>1, <3>3 DEF OperationType
    <3>6. ListOK(l)'
      BY <3>4 DEF ListOK, Fresh, Desk!Usable
    <3>7. \A k \in Desk!Lists \ {l} : ~Unsettled(k)
      BY <3>1 DEF Unsettled
    <3> QED
      BY <1>1, <1>2, <2>1, <3>3, <3>4, <3>5, <3>6, <3>7, OneListMoves DEF Desk!history
  <2>3. CASE ~Desk!ReadAfter(operation.pc, operation.list)
    <3>1. operation' = Desk!NoOperation /\ UNCHANGED listReads
      BY <1>5, <2>3 DEF Desk!OperationEnds
    <3>2. ListTypes(L)'
      BY <1>2, <2>1, <3>1, DeskRecords DEF ListTypes
    <3>3. \A k \in L : ListOK(k)'
      BY <1>2, <2>1, <2>3, <3>1 DEF ListOK, Fresh, Unsettled, Desk!Usable, Desk!ReadAfter
    <3> QED
      BY <1>1, <1>2, <3>2, <3>3, WindowStays, ListsMove
  <2> QED
    BY <2>2, <2>3
<1> QED
  BY <1>1, <1>3, <1>4, <1>5

LEMMA DiagnoseHolds ==
  ASSUME DeskInv, Desk!TypeAddress \/ Desk!Diagnose \/ Desk!DiagnosisEnds
  PROVE  DeskInv'
<1>1. /\ WindowTypes /\ AccountOK /\ DiagnosisOK
      /\ UNCHANGED <<windowPage, credentials, signing, signings, status, statusRead>>
      /\ UNCHANGED <<lists, listReads, operation, changed, answered>>
  BY DEF DeskInv, Desk!TypeAddress, Desk!Diagnose, Desk!DiagnosisEnds, Desk!who, Desk!account,
     Desk!what, Desk!work, Desk!history
<1>2. diagnosis \in DiagnosisType
  BY <1>1 DEF WindowTypes
<1>3. diagnosis' \in DiagnosisType /\ DiagnosisOK'
  <2>1. CASE Desk!TypeAddress
    <3>1. PICK n : n = 3 - diagnosis.address
      OBVIOUS
    <3>2. n \in {1, 2} /\ diagnosis' = [Desk!NoDiagnosis EXCEPT !.address = n]
      BY <1>2, <2>1, <3>1 DEF Desk!TypeAddress, DiagnosisType
    <3> QED
      BY <3>2, DeskRecords DEF DiagnosisType, DiagnosisOK
  <2>2. CASE Desk!Diagnose
    <3>1. diagnosis.address \in 0..2
      BY <1>2 DEF DiagnosisType
    <3> QED
      BY <1>2, <2>2, <3>1 DEF Desk!Diagnose, DiagnosisType, DiagnosisOK
  <2>3. CASE Desk!DiagnosisEnds
    BY <1>1, <1>2, <2>3 DEF Desk!DiagnosisEnds, DiagnosisType, DiagnosisOK
  <2> QED
    BY <2>1, <2>2, <2>3
<1>4. WindowTypes' /\ AccountOK'
  BY <1>1, <1>3 DEF WindowTypes, AccountOK
<1> QED
  BY <1>1, <1>3, <1>4, WindowMoves

LEMMA DeskHolds == DeskInv /\ [Desk!Next]_(Desk!desktopVars) => DeskInv'
<1> SUFFICES ASSUME DeskInv, [Desk!Next]_(Desk!desktopVars) PROVE DeskInv'
  OBVIOUS
<1>1. CASE UNCHANGED Desk!desktopVars
  BY <1>1, WindowMoves, WindowStays
  DEF Desk!desktopVars, Desk!who, Desk!account, Desk!what, Desk!work, Desk!history, WindowKept
<1>2. CASE Desk!Next
  BY <1>2, NavigateHolds, StatusHolds, ReadListHolds, OperateHolds, SignHolds, DiagnoseHolds
  DEF Desk!Next
<1> QED
  BY <1>1, <1>2

(* The account on screen is this window's, a finished diagnosis is of the  *)
(* address in the field, and a change is chosen from a list that was read  *)
(* after the window's earlier changes: all of them for the equipment, for  *)
(* the clients those that did not fail midway.                             *)
THEOREM WindowShowsItsOwn == FrontsSpec => WindowCurrent
<1>1. DeskInv => Desk!AccountShown
  BY DEF DeskInv, AccountOK, DiagnosisOK, Desk!AccountShown, Desk!ShownAccount
<1>2. ASSUME DeskInv, NEW l \in Desk!Lists, Desk!Operate(l) PROVE Fresh(l, lists[l].at)
  BY <1>2 DEF DeskInv, ListOK, Unsettled, Desk!Operate, Desk!Busy
<1>3. DeskInv /\ [Desk!Next]_(Desk!desktopVars) =>
        [\A l \in Desk!Lists : Desk!Operate(l) =>
           /\ lists[l].at >= answered[l]
           /\ l = "installed" => lists[l].at = changed[l]]_(Desk!desktopVars)
  BY <1>2 DEF Fresh
<1> QED
  BY <1>1, <1>3, DeskAlone, DeskStart, DeskHolds, PTL
  DEF Desk!Spec, WindowCurrent, Desk!WindowCurrent, Desk!FreshLists

(* The edits of the workspace.                                             *)
Partials == {<<>>} \cup UNION {[P -> Skill!Texts] : P \in SUBSET Attachments}
SkillDeskType ==
  [open : BOOLEAN, item : Skill!SkillRow, doc : Skill!Texts, uploads : Partials,
   deleted : SUBSET Attachments, reading : Partials,
   before : {<<>>} \cup (Partials \X SUBSET Attachments), blocked : BOOLEAN]
SkillSaveType ==
  [pc : {"none", "sent", "served"}, source : {"inline", "github"}, doc : Skill!Texts,
   uploads : Partials, deleted : SUBSET Attachments]
SkillRows ==
  /\ skill \in Skill!SkillRow /\ listed \in Skill!SkillRow
  /\ fetched \in [version : Nat, files : Skill!Files]
  /\ loop \in {"none", "panel", "list"} /\ rivals \in 0..MaxRivals
WorkspaceTypes ==
  /\ desk \in SkillDeskType
  /\ wanted \in [Skill!Paths -> Skill!Texts \cup {Skill!Kept}]
  /\ converted \subseteq Attachments /\ edits \in 0..MaxSkillEdits

(* What a save sends along of the attachments that were not touched.       *)
Resends == [p \in Skill!Resent |-> desk.item.files[p]]
(* What the workspace shows of a file is what its user has made of it, but *)
(* for the attachments that showing has rewritten; a save on its way was   *)
(* taken from the workspace, which is locked until it is answered.         *)
Agrees(p) ==
  wanted[p] = IF p \in desk.deleted THEN Skill!Absent ELSE IF p = Skill!Doc THEN desk.doc
              ELSE IF p \in DOMAIN desk.uploads THEN desk.uploads[p] ELSE Skill!Kept
WorkspaceOK ==
  /\ desk.reading # <<>> => desk.blocked /\ desk.before = <<desk.uploads, desk.deleted>>
  /\ desk.open => \A p \in Skill!Paths \ converted : Agrees(p)
SkillSaveOK ==
  /\ save \in SkillSaveType
  /\ save.pc # "none" => desk.open
  /\ save.pc = "sent" /\ save.source = "inline" =>
       /\ save.doc = desk.doc /\ save.deleted = desk.deleted
       /\ save.uploads = Skill!Over(desk.uploads, Resends)
       /\ ~desk.blocked
SkillInv == SkillRows /\ WorkspaceTypes /\ WorkspaceOK /\ SkillSaveOK

LEMMA SkillTyped == SkillInv /\ VersionInv => Skill!TypeOK
<1> SUFFICES ASSUME SkillInv, VersionInv PROVE Skill!TypeOK
  OBVIOUS
<1>1. \A f \in Partials : Skill!Partly(f)
  BY DEF Partials, Skill!Partly
<1>2. /\ desk \in SkillDeskType /\ save \in SkillSaveType
  BY DEF SkillInv, WorkspaceTypes, SkillSaveOK
<1>3. \A d \in {desk, save} : /\ d.doc \in Skill!Texts /\ d.deleted \subseteq Attachments
                              /\ Skill!Partly(d.uploads)
  BY <1>1, <1>2 DEF SkillDeskType, SkillSaveType
<1>4. /\ desk.open \in BOOLEAN /\ desk.blocked \in BOOLEAN /\ desk.item \in Skill!SkillRow
      /\ save.pc \in {"none", "sent", "served"} /\ save.source \in {"inline", "github"}
      /\ Skill!Partly(desk.reading)
  BY <1>1, <1>2 DEF SkillDeskType, SkillSaveType
<1>5. desk.before # <<>> => Skill!Partly(desk.before[1]) /\ desk.before[2] \subseteq Attachments
  BY <1>1, <1>2 DEF SkillDeskType
<1> QED
  BY <1>3, <1>4, <1>5 DEF SkillInv, VersionInv, SkillRows, WorkspaceTypes, Skill!TypeOK

LEMMA PartialMade ==
  ASSUME NEW P \in SUBSET Attachments, NEW g \in [P -> Skill!Texts]
  PROVE  g \in Partials
BY DEF Partials
LEMMA PartialOver ==
  ASSUME NEW f \in Partials, NEW g \in Partials
  PROVE  /\ Skill!Over(f, g) \in Partials
         /\ DOMAIN Skill!Over(f, g) = DOMAIN f \cup DOMAIN g
         /\ \A p \in DOMAIN f \cup DOMAIN g :
              Skill!Over(f, g)[p] = IF p \in DOMAIN f THEN f[p] ELSE g[p]
<1>1. \A h \in Partials :
        DOMAIN h \subseteq Attachments /\ \A p \in DOMAIN h : h[p] \in Skill!Texts
  BY DEF Partials
<1>2. Skill!Over(f, g) \in [DOMAIN f \cup DOMAIN g -> Skill!Texts]
  BY <1>1 DEF Skill!Over
<1>3. DOMAIN f \cup DOMAIN g \in SUBSET Attachments
  BY <1>1
<1> QED
  BY <1>2, <1>3, PartialMade DEF Skill!Over

LEMMA SkillRecords ==
  /\ Skill!Paths = Attachments \cup {Skill!Doc} /\ Skill!Doc \notin Attachments
  /\ Skill!Kept \notin Skill!Texts /\ Skill!Absent \in Skill!Texts
  /\ {"empty", "unix", "windows"} \subseteq Skill!Texts
  /\ Skill!Original \in Skill!Files /\ Skill!Upstream \in Skill!Files
  /\ Skill!Closed \in SkillDeskType /\ Skill!Closed.open = FALSE
  /\ Skill!Closed.reading = <<>> /\ Skill!Closed.deleted = {} /\ DOMAIN Skill!Closed.uploads = {}
  /\ Skill!NoSave \in SkillSaveType /\ Skill!NoSave.pc = "none"
  /\ Skill!Untouched \in [Skill!Paths -> Skill!Texts \cup {Skill!Kept}]
<1>1. /\ Skill!Paths = Attachments \cup {Skill!Doc} /\ Skill!Doc \notin Attachments
      /\ Skill!Kept \notin Skill!Texts /\ Skill!Absent \in Skill!Texts
      /\ {"empty", "unix", "windows"} \subseteq Skill!Texts
  BY FrontsAssumption
  DEF Skill!Paths, Skill!Doc, Skill!Kept, Skill!Texts, Skill!Absent
<1>2. Skill!Original \in Skill!Files /\ Skill!Upstream \in Skill!Files
  BY <1>1 DEF Skill!Original, Skill!Upstream, Skill!Files
<1>3. <<>> \in Partials /\ DOMAIN <<>> = {}
  BY DEF Partials
<1>4. Skill!Unopened \in Skill!SkillRow
  <2>1. 0 \in Nat
    OBVIOUS
  <2> QED
    BY <1>2, <2>1 DEF Skill!Unopened, Skill!SkillRow
<1>5. /\ Skill!Closed \in SkillDeskType /\ Skill!Closed.open = FALSE
      /\ Skill!Closed.reading = <<>> /\ Skill!Closed.deleted = {}
      /\ Skill!Closed.uploads = <<>>
  BY <1>1, <1>3, <1>4 DEF Skill!Closed, SkillDeskType
<1>6. Skill!NoSave \in SkillSaveType /\ Skill!NoSave.pc = "none"
  BY <1>1, <1>3 DEF Skill!NoSave, SkillSaveType
<1>7. Skill!Untouched \in [Skill!Paths -> Skill!Texts \cup {Skill!Kept}]
  BY DEF Skill!Untouched
<1> QED
  BY <1>1, <1>2, <1>3, <1>5, <1>6, <1>7

LEMMA WorkspaceStart == Skill!Init => SkillInv
<1> SUFFICES ASSUME Skill!Init PROVE SkillInv
  OBVIOUS
<1>1. PICK legacy \in BOOLEAN :
      /\ skill = [version |-> 1, origin |-> "github", legacy |-> legacy, files |-> Skill!Original]
      /\ listed = skill /\ fetched = [version |-> 0, files |-> Skill!Original]
      /\ desk = Skill!Closed /\ save = Skill!NoSave /\ loop = "none"
      /\ wanted = Skill!Untouched /\ converted = {} /\ edits = 0 /\ rivals = 0
  BY DEF Skill!Init
<1>2. 0 \in Nat /\ 1 \in Nat /\ 0 \in 0..MaxSkillEdits /\ 0 \in 0..MaxRivals
  BY BoundsAssumption
<1>3. skill \in Skill!SkillRow /\ fetched \in [version : Nat, files : Skill!Files]
  BY <1>1, <1>2, SkillRecords DEF Skill!SkillRow
<1> QED
  BY <1>1, <1>2, <1>3, SkillRecords
  DEF SkillInv, SkillRows, WorkspaceTypes, WorkspaceOK, SkillSaveOK

(* A version is a natural number, whether it is named or not.              *)
LEMMA NamedVersions == \A named \in Versions \cup {0} : named \in Nat
<1>1. Versions \subseteq Nat
  BY FrontsAssumption
<1>2. 0 \in Nat
  OBVIOUS
<1> QED
  BY <1>1, <1>2

(* What is published, listed and fetched does not touch the workspace.     *)
WorkspaceKept == UNCHANGED <<desk, wanted, converted, edits>>
LEMMA WorkspaceStays ==
  ASSUME SkillInv, WorkspaceKept, SkillRows', SkillSaveOK'
  PROVE  SkillInv'
BY DEF SkillInv, WorkspaceKept, WorkspaceTypes, WorkspaceOK, Agrees

LEMMA PublishedRow ==
  ASSUME SkillInv, NEW origin \in {"github", "inline"}, NEW files \in Skill!Files,
         NEW named \in Nat, Skill!Publish(origin, files, named)
  PROVE  skill' \in Skill!SkillRow /\ skill'.files = files
<1>1. PICK same : same = Skill!Same(origin, files)
  OBVIOUS
<1>2. PICK version : version = IF same THEN skill.version
                               ELSE IF named # Skill!Unnamed THEN named ELSE skill.version + 1
  OBVIOUS
<1>3. skill' = [version |-> version, origin |-> origin, legacy |-> FALSE, files |-> files]
  BY <1>1, <1>2 DEF Skill!Publish, Skill!Release
<1>4. version \in Nat
  BY <1>2 DEF SkillInv, SkillRows, Skill!SkillRow
<1> QED
  BY <1>3, <1>4 DEF Skill!SkillRow

LEMMA AroundHolds ==
  ASSUME SkillInv,
         Skill!OtherAdmin \/ Skill!SaveBundle \/ Skill!Relist \/ Skill!StartSync
         \/ Skill!SyncSkill \/ Skill!FetchFiles
  PROVE  SkillInv'
<1>1. SkillRows /\ SkillSaveOK /\ WorkspaceKept /\ save' = save
  BY DEF SkillInv, WorkspaceKept, Skill!OtherAdmin, Skill!SaveBundle, Skill!Relist,
     Skill!StartSync, Skill!SyncSkill, Skill!FetchFiles, Skill!workspace
<1>2. SkillSaveOK'
  BY <1>1 DEF SkillSaveOK, WorkspaceKept, Resends, Skill!Resent, Skill!InRow, Skill!Uploaded
<1>3. SkillRows'
  <2>1. CASE Skill!OtherAdmin
    <3>1. PICK p \in Attachments, text \in {"windows", Skill!Absent},
               named \in Versions \cup {0} :
            Skill!Publish("inline", [skill.files EXCEPT ![p] = text], named)
      BY <2>1 DEF Skill!OtherAdmin, Skill!Unnamed
    <3>2. PICK files : files = [skill.files EXCEPT ![p] = text]
      OBVIOUS
    <3>3. files \in Skill!Files
      BY <1>1, <3>2, SkillRecords DEF SkillRows, Skill!SkillRow, Skill!Files
    <3>4. named \in Nat
      BY <3>1, NamedVersions
    <3>5. skill' \in Skill!SkillRow
      BY <3>1, <3>2, <3>3, <3>4, PublishedRow
    <3> QED
      BY <1>1, <2>1, <3>5, BoundsAssumption DEF Skill!OtherAdmin, Skill!Rival, SkillRows
  <2>2. CASE Skill!SaveBundle
    BY <1>1, <2>2, BoundsAssumption DEF Skill!SaveBundle, Skill!Rival, SkillRows
  <2>3. CASE Skill!Relist
    BY <1>1, <2>3 DEF Skill!Relist, SkillRows, Skill!published
  <2>4. CASE Skill!StartSync
    BY <1>1, <2>4, BoundsAssumption DEF Skill!StartSync, Skill!Rival, SkillRows, Skill!published
  <2>5. CASE Skill!SyncSkill
    <3>1. skill' \in Skill!SkillRow
      BY <1>1, <2>5, PublishedRow, SkillRecords
      DEF Skill!SyncSkill, SkillRows, Skill!published, Skill!Unnamed
    <3>2. fetched' \in [version : Nat, files : Skill!Files]
      BY <1>1, <2>5 DEF Skill!SyncSkill, SkillRows
    <3> QED
      BY <1>1, <2>5, <3>1, <3>2 DEF Skill!SyncSkill, SkillRows
  <2>6. CASE Skill!FetchFiles
    <3>1. /\ fetched' = [version |-> desk.item.version, files |-> skill.files]
          /\ desk \in SkillDeskType
      BY <2>6 DEF Skill!FetchFiles, SkillInv, WorkspaceTypes
    <3>2. fetched' \in [version : Nat, files : Skill!Files]
      BY <1>1, <3>1 DEF SkillRows, SkillDeskType, Skill!SkillRow
    <3> QED
      BY <1>1, <2>6, <3>2 DEF Skill!FetchFiles, SkillRows, Skill!published
  <2> QED
    BY <2>1, <2>2, <2>3, <2>4, <2>5, <2>6
<1> QED
  BY <1>1, <1>2, <1>3, WorkspaceStays

(* The workspace changes, and nothing else.                                *)
AroundKept == UNCHANGED <<skill, listed, fetched, save, loop, rivals>>
LEMMA DeskMoves ==
  ASSUME SkillInv, AroundKept, save.pc = "none", WorkspaceTypes', WorkspaceOK'
  PROVE  SkillInv'
BY DEF SkillInv, AroundKept, SkillRows, SkillSaveOK

LEMMA OpenEditorHolds ==
  ASSUME SkillInv, Skill!OpenEditor
  PROVE  SkillInv'
<1>1. /\ WorkspaceTypes /\ listed \in Skill!SkillRow /\ AroundKept /\ ~desk.open
      /\ save.pc = "none"
  BY DEF SkillInv, SkillRows, SkillSaveOK, Skill!OpenEditor, Skill!around, Skill!published,
     AroundKept
<1>2. PICK doc : doc = listed.files[Skill!Doc]
  OBVIOUS
<1>3. doc \in Skill!Texts
  BY <1>1, <1>2, SkillRecords DEF Skill!SkillRow, Skill!Files
<1>4. /\ desk' = [Skill!Closed EXCEPT !.open = TRUE, !.item = listed, !.doc = doc]
      /\ wanted' = [Skill!Untouched EXCEPT ![Skill!Doc] = doc]
      /\ converted' = converted /\ edits < MaxSkillEdits /\ edits' = edits + 1
  BY <1>2 DEF Skill!OpenEditor, Skill!Acted
<1>5. /\ desk' \in SkillDeskType /\ desk'.reading = <<>> /\ desk'.deleted = {}
      /\ DOMAIN desk'.uploads = {} /\ desk'.doc = doc
  BY <1>1, <1>3, <1>4, SkillRecords DEF SkillDeskType
<1>6. WorkspaceTypes'
  BY <1>1, <1>3, <1>4, <1>5, SkillRecords, BoundsAssumption DEF WorkspaceTypes
<1>7. \A p \in Skill!Paths : wanted'[p] = IF p = Skill!Doc THEN doc ELSE Skill!Kept
  BY <1>4 DEF Skill!Untouched
<1>8. WorkspaceOK'
  BY <1>5, <1>7 DEF WorkspaceOK, Agrees
<1> QED
  BY <1>1, <1>6, <1>8, DeskMoves

LEMMA LeaveHolds ==
  ASSUME SkillInv, Skill!CloseEditor \/ Skill!Saved
  PROVE  SkillInv'
<1>1. /\ desk' = Skill!Closed /\ wanted' = Skill!Untouched /\ converted' = {} /\ edits' = edits
      /\ UNCHANGED <<skill, listed, loop, rivals>>
  BY DEF Skill!CloseEditor, Skill!Saved, Skill!Leave, Skill!around, Skill!published
<1>2. WorkspaceTypes' /\ WorkspaceOK'
  BY <1>1, SkillRecords DEF SkillInv, WorkspaceTypes, WorkspaceOK
<1>3. CASE Skill!CloseEditor
  BY <1>1, <1>2, <1>3, DeskMoves DEF Skill!CloseEditor, Skill!around, AroundKept
<1>4. CASE Skill!Saved
  <2>1. save' = Skill!NoSave /\ fetched' = [fetched EXCEPT !.version = 0]
    BY <1>4 DEF Skill!Saved
  <2>2. fetched' \in [version : Nat, files : Skill!Files]
    BY <2>1 DEF SkillInv, SkillRows
  <2> QED
    BY <1>1, <1>2, <2>1, <2>2, SkillRecords DEF SkillInv, SkillRows, SkillSaveOK
<1> QED
  BY <1>3, <1>4

(* One file of the workspace is written, and what the user wants of it.    *)
LEMMA DocWritten ==
  ASSUME SkillInv, AroundKept, Skill!Enabled, NEW text \in Skill!Texts,
         desk' = [desk EXCEPT !.doc = text], wanted' = [wanted EXCEPT ![Skill!Doc] = text],
         converted' = converted, edits' \in 0..MaxSkillEdits
  PROVE  SkillInv'
<1>1. /\ WorkspaceTypes /\ WorkspaceOK /\ desk.open /\ ~desk.blocked /\ save.pc = "none"
      /\ desk \in SkillDeskType
  BY DEF SkillInv, WorkspaceTypes, Skill!Enabled
<1>2. /\ desk' \in SkillDeskType /\ desk'.doc = text /\ desk'.open = desk.open
      /\ desk'.uploads = desk.uploads /\ desk'.deleted = desk.deleted
      /\ desk'.reading = desk.reading /\ desk'.before = desk.before
      /\ desk'.blocked = desk.blocked
  BY <1>1 DEF SkillDeskType
<1>3. WorkspaceTypes'
  BY <1>1, <1>2, SkillRecords DEF WorkspaceTypes
<1>4. ASSUME NEW p \in Skill!Paths \ converted PROVE Agrees(p)'
  <2>1. Agrees(p) /\ Skill!Doc \notin desk.deleted
    BY <1>1, SkillRecords DEF WorkspaceOK, SkillDeskType
  <2>2. wanted'[p] = IF p = Skill!Doc THEN text ELSE wanted[p]
    BY <1>1 DEF WorkspaceTypes
  <2> QED
    BY <1>2, <2>1, <2>2 DEF Agrees
<1>5. WorkspaceOK'
  BY <1>1, <1>2, <1>4 DEF WorkspaceOK
<1> QED
  BY <1>1, <1>3, <1>5, DeskMoves

LEMMA FileWritten ==
  ASSUME SkillInv, AroundKept, Skill!Enabled, NEW p \in Attachments, p \notin desk.deleted,
         NEW text \in Skill!Texts, Skill!Put(p, text), edits' \in 0..MaxSkillEdits,
         \/ wanted' = [wanted EXCEPT ![p] = text] /\ converted' = converted
         \/ wanted' = wanted /\ converted' = converted \cup {p}
  PROVE  SkillInv'
<1>1. /\ WorkspaceTypes /\ WorkspaceOK /\ desk.open /\ ~desk.blocked /\ save.pc = "none"
      /\ desk \in SkillDeskType /\ desk.uploads \in Partials
  BY DEF SkillInv, WorkspaceTypes, Skill!Enabled, SkillDeskType
<1>2. PICK one : one = [q \in {p} |-> text]
  OBVIOUS
<1>3. one \in Partials /\ DOMAIN one = {p} /\ one[p] = text
  <2>1. one \in [{p} -> Skill!Texts] /\ {p} \in SUBSET Attachments
    BY <1>2
  <2> QED
    BY <1>2, <2>1, PartialMade
<1>4. PICK uploads : uploads = Skill!Over(one, desk.uploads)
  OBVIOUS
<1>5. /\ uploads \in Partials /\ DOMAIN uploads = {p} \cup DOMAIN desk.uploads
      /\ uploads[p] = text /\ \A q \in DOMAIN desk.uploads : q # p => uploads[q] = desk.uploads[q]
  <2>1. PICK older \in Partials : older = desk.uploads
    BY <1>1
  <2>2. /\ Skill!Over(one, older) \in Partials
        /\ DOMAIN Skill!Over(one, older) = DOMAIN one \cup DOMAIN older
        /\ \A q \in DOMAIN one \cup DOMAIN older :
             Skill!Over(one, older)[q] = IF q \in DOMAIN one THEN one[q] ELSE older[q]
    BY <1>3, PartialOver
  <2>3. uploads = Skill!Over(one, older)
    BY <1>4, <2>1
  <2> QED
    BY <1>3, <2>1, <2>2, <2>3
<1>6. desk' = [desk EXCEPT !.uploads = uploads]
  BY <1>2, <1>4 DEF Skill!Put
<1>7. /\ desk' \in SkillDeskType /\ desk'.doc = desk.doc /\ desk'.open = desk.open
      /\ desk'.uploads = uploads /\ desk'.deleted = desk.deleted
      /\ desk'.reading = desk.reading /\ desk'.before = desk.before
      /\ desk'.blocked = desk.blocked
  BY <1>1, <1>5, <1>6 DEF SkillDeskType
<1>8. WorkspaceTypes'
  BY <1>1, <1>7, SkillRecords DEF WorkspaceTypes
<1>9. ASSUME NEW q \in Skill!Paths \ converted' PROVE Agrees(q)'
  <2>1. Agrees(q)
    BY <1>1 DEF WorkspaceOK
  <2>2. wanted'[q] = IF q = p THEN text ELSE wanted[q]
    BY <1>1 DEF WorkspaceTypes
  <2>3. p # Skill!Doc
    BY SkillRecords
  <2> QED
    BY <1>5, <1>7, <2>1, <2>2, <2>3 DEF Agrees
<1>10. WorkspaceOK'
  BY <1>1, <1>7, <1>9 DEF WorkspaceOK
<1> QED
  BY <1>1, <1>8, <1>10, DeskMoves

LEMMA WriteHolds ==
  ASSUME SkillInv,
         \/ \E p \in Skill!Paths : \/ Skill!ShowFile(p)
                                   \/ \E text \in {"empty", "unix"} : Skill!EditFile(p, text)
         \/ \E p \in Attachments : Skill!CreateFile(p)
  PROVE  SkillInv'
<1>1. ASSUME NEW p \in Skill!Paths, Skill!ShowFile(p) PROVE SkillInv'
  <2>1. /\ AroundKept /\ Skill!Enabled /\ p \notin desk.deleted /\ edits' = edits
        /\ edits \in 0..MaxSkillEdits
    BY <1>1 DEF Skill!ShowFile, Skill!Shown, Skill!around, Skill!published, AroundKept,
       SkillInv, WorkspaceTypes
  <2>2. CASE p = Skill!Doc
    BY <1>1, <2>1, <2>2, SkillRecords, DocWritten DEF Skill!ShowFile
  <2>3. CASE p # Skill!Doc
    BY <1>1, <2>1, <2>3, SkillRecords, FileWritten DEF Skill!ShowFile
  <2> QED
    BY <2>2, <2>3
<1>2. ASSUME NEW p \in Skill!Paths, NEW text \in {"empty", "unix"}, Skill!EditFile(p, text)
      PROVE  SkillInv'
  <2>1. /\ AroundKept /\ Skill!Enabled /\ p \notin desk.deleted /\ edits' \in 0..MaxSkillEdits
        /\ converted' = converted /\ wanted' = [wanted EXCEPT ![p] = text]
    BY <1>2, BoundsAssumption
    DEF Skill!EditFile, Skill!Shown, Skill!Acted, Skill!around, Skill!published, AroundKept,
        SkillInv, WorkspaceTypes
  <2>2. CASE p = Skill!Doc
    BY <1>2, <2>1, <2>2, SkillRecords, DocWritten DEF Skill!EditFile
  <2>3. CASE p # Skill!Doc
    BY <1>2, <2>1, <2>3, SkillRecords, FileWritten DEF Skill!EditFile
  <2> QED
    BY <2>2, <2>3
<1>3. ASSUME NEW p \in Attachments, Skill!CreateFile(p) PROVE SkillInv'
  <2>1. /\ AroundKept /\ Skill!Enabled /\ p \notin desk.deleted /\ edits' \in 0..MaxSkillEdits
        /\ converted' = converted /\ wanted' = [wanted EXCEPT ![p] = "empty"]
        /\ Skill!Put(p, "empty")
    BY <1>3, BoundsAssumption
    DEF Skill!CreateFile, Skill!Acted, Skill!around, Skill!published, AroundKept,
        SkillInv, WorkspaceTypes
  <2> QED
    BY <2>1, SkillRecords, FileWritten
<1> QED
  BY <1>1, <1>2, <1>3

LEMMA RemoveFileHolds ==
  ASSUME SkillInv, NEW p \in Attachments, Skill!RemoveFile(p)
  PROVE  SkillInv'
<1>1. /\ WorkspaceTypes /\ WorkspaceOK /\ AroundKept /\ save.pc = "none" /\ desk.reading = <<>>
      /\ desk \in SkillDeskType /\ desk.uploads \in Partials /\ edits' \in 0..MaxSkillEdits
      /\ converted' = converted /\ wanted' = [wanted EXCEPT ![p] = Skill!Absent]
  BY BoundsAssumption
  DEF SkillInv, WorkspaceTypes, Skill!RemoveFile, Skill!Free, Skill!Acted, Skill!around,
      Skill!published, AroundKept, SkillDeskType
<1>2. PICK uploads : uploads = [q \in DOMAIN desk.uploads \ {p} |-> desk.uploads[q]]
  OBVIOUS
<1>3. PICK deleted : deleted = desk.deleted \cup {p}
  OBVIOUS
<1>4. desk' = [desk EXCEPT !.uploads = uploads, !.deleted = deleted]
  BY <1>2, <1>3 DEF Skill!RemoveFile, Skill!Uploaded
<1>5. uploads \in Partials
  <2>1. DOMAIN desk.uploads \subseteq Attachments
        /\ \A q \in DOMAIN desk.uploads : desk.uploads[q] \in Skill!Texts
    BY <1>1 DEF Partials
  <2>2. /\ uploads \in [DOMAIN desk.uploads \ {p} -> Skill!Texts]
        /\ DOMAIN desk.uploads \ {p} \in SUBSET Attachments
    BY <1>2, <2>1
  <2> QED
    BY <2>2, PartialMade
<1>6. deleted \in SUBSET Attachments
  BY <1>1, <1>3 DEF SkillDeskType
<1>7. /\ desk' \in SkillDeskType /\ desk'.doc = desk.doc /\ desk'.open = desk.open
      /\ desk'.uploads = uploads /\ desk'.deleted = deleted
      /\ desk'.reading = desk.reading
  BY <1>1, <1>4, <1>5, <1>6 DEF SkillDeskType
<1>8. WorkspaceTypes'
  BY <1>1, <1>7, SkillRecords DEF WorkspaceTypes
<1>9. ASSUME NEW q \in Skill!Paths \ converted, desk.open PROVE Agrees(q)'
  <2>1. Agrees(q)
    BY <1>1, <1>9 DEF WorkspaceOK
  <2>2. wanted'[q] = IF q = p THEN Skill!Absent ELSE wanted[q]
    BY <1>1 DEF WorkspaceTypes
  <2> QED
    BY <1>2, <1>3, <1>7, <2>1, <2>2 DEF Agrees
<1>10. WorkspaceOK'
  BY <1>1, <1>7, <1>9 DEF WorkspaceOK
<1> QED
  BY <1>1, <1>8, <1>10, DeskMoves

LEMMA AttachHolds ==
  ASSUME SkillInv, Skill!Attach
  PROVE  SkillInv'
<1>1. PICK chosen \in SUBSET Attachments \ {{}} :
        desk' = [desk EXCEPT !.reading = [p \in chosen |-> "windows"],
                             !.before = <<desk.uploads, desk.deleted>>, !.blocked = TRUE]
  BY DEF Skill!Attach
<1>2. /\ WorkspaceTypes /\ WorkspaceOK /\ AroundKept /\ save.pc = "none"
      /\ desk \in SkillDeskType /\ edits' \in 0..MaxSkillEdits
      /\ converted' = converted /\ wanted' = wanted
  BY BoundsAssumption
  DEF SkillInv, WorkspaceTypes, Skill!Attach, Skill!Free, Skill!Acted, Skill!around,
      Skill!published, AroundKept
<1>3. PICK files : files = [p \in chosen |-> "windows"]
  OBVIOUS
<1>4. files \in Partials
  <2>1. files \in [chosen -> Skill!Texts] /\ chosen \in SUBSET Attachments
    BY <1>1, <1>3, SkillRecords
  <2> QED
    BY <2>1, PartialMade
<1>5. PICK before : before = <<desk.uploads, desk.deleted>>
  OBVIOUS
<1>6. before \in {<<>>} \cup (Partials \X SUBSET Attachments)
  BY <1>2, <1>5 DEF SkillDeskType
<1>7. desk' = [desk EXCEPT !.reading = files, !.before = before, !.blocked = TRUE]
  BY <1>1, <1>3, <1>5
<1>8. /\ desk' \in SkillDeskType /\ desk'.doc = desk.doc /\ desk'.open = desk.open
      /\ desk'.uploads = desk.uploads /\ desk'.deleted = desk.deleted
      /\ desk'.before = before /\ desk'.blocked
  BY <1>2, <1>4, <1>6, <1>7 DEF SkillDeskType
<1>9. WorkspaceTypes'
  BY <1>2, <1>8 DEF WorkspaceTypes
<1>10. WorkspaceOK'
  BY <1>2, <1>5, <1>8 DEF WorkspaceOK, Agrees
<1> QED
  BY <1>2, <1>9, <1>10, DeskMoves

(* The end of an upload, whatever is being published meanwhile.            *)
LEMMA DeskSettles ==
  ASSUME SkillInv, AroundKept, desk.blocked, desk'.open = desk.open,
         WorkspaceTypes', WorkspaceOK'
  PROVE  SkillInv'
BY DEF SkillInv, AroundKept, SkillRows, SkillSaveOK

LEMMA UploadHolds ==
  ASSUME SkillInv, Skill!AttachmentsRead \/ Skill!AttachmentsFail \/ Skill!ClearError
  PROVE  SkillInv'
<1>1. /\ WorkspaceTypes /\ WorkspaceOK /\ AroundKept /\ desk.open /\ desk.blocked
      /\ desk \in SkillDeskType /\ <<>> \in Partials
      /\ desk.reading \in Partials /\ desk.uploads \in Partials
  BY DEF SkillInv, WorkspaceTypes, WorkspaceOK, Skill!AttachmentsRead, Skill!AttachmentsFail,
      Skill!ClearError, Skill!around, Skill!published, AroundKept, SkillDeskType, Partials
<1>2. CASE Skill!AttachmentsRead
  <2>1. PICK files \in Partials : files = desk.reading
    BY <1>1
  <2>2. PICK older \in Partials : older = desk.uploads
    BY <1>1
  <2>3. PICK uploads : uploads = Skill!Over(files, older)
    OBVIOUS
  <2>4. PICK deleted : deleted = desk.deleted \ DOMAIN files
    OBVIOUS
  <2>5. desk.before[1] = older /\ desk.before[2] = desk.deleted
    BY <1>1, <1>2, <2>2 DEF Skill!AttachmentsRead, WorkspaceOK
  <2>6. /\ desk' = [desk EXCEPT !.uploads = uploads, !.deleted = deleted, !.reading = <<>>,
                                !.before = <<>>, !.blocked = FALSE]
        /\ wanted' = Skill!Over(files, wanted) /\ converted' = converted /\ edits' = edits
    BY <1>2, <2>1, <2>3, <2>4, <2>5 DEF Skill!AttachmentsRead
  <2>7. /\ uploads \in Partials /\ DOMAIN uploads = DOMAIN files \cup DOMAIN older
        /\ \A p \in DOMAIN files \cup DOMAIN older :
             uploads[p] = IF p \in DOMAIN files THEN files[p] ELSE older[p]
    BY <2>3, PartialOver
  <2>8. deleted \in SUBSET Attachments
    BY <1>1, <2>4 DEF SkillDeskType
  <2>9. /\ desk' \in SkillDeskType /\ desk'.doc = desk.doc /\ desk'.open = desk.open
        /\ desk'.uploads = uploads /\ desk'.deleted = deleted /\ desk'.reading = <<>>
    BY <1>1, <2>6, <2>7, <2>8 DEF SkillDeskType
  <2>10. /\ DOMAIN files \subseteq Attachments /\ \A p \in DOMAIN files : files[p] \in Skill!Texts
    BY DEF Partials
  <2>11. /\ DOMAIN wanted = Skill!Paths /\ DOMAIN files \cup Skill!Paths = Skill!Paths
         /\ \A p \in Skill!Paths : wanted[p] \in Skill!Texts \cup {Skill!Kept}
    BY <1>1, <2>10, SkillRecords DEF WorkspaceTypes
  <2>12. wanted' = [p \in Skill!Paths |-> IF p \in DOMAIN files THEN files[p] ELSE wanted[p]]
    BY <2>6, <2>11 DEF Skill!Over
  <2>13. wanted' \in [Skill!Paths -> Skill!Texts \cup {Skill!Kept}]
    BY <2>10, <2>11, <2>12
  <2>14. WorkspaceTypes'
    BY <1>1, <2>6, <2>9, <2>13 DEF WorkspaceTypes
  <2>15. ASSUME NEW p \in Skill!Paths \ converted PROVE Agrees(p)'
    <3>1. Agrees(p)
      BY <1>1 DEF WorkspaceOK
    <3>2. Skill!Doc \notin DOMAIN files
      BY <2>10, SkillRecords
    <3> QED
      BY <2>2, <2>4, <2>7, <2>9, <2>12, <3>1, <3>2 DEF Agrees
  <2>16. WorkspaceOK'
    BY <2>6, <2>9, <2>15 DEF WorkspaceOK
  <2> QED
    BY <1>1, <2>9, <2>14, <2>16, DeskSettles
<1>3. CASE Skill!AttachmentsFail
  <2>1. /\ desk' = [desk EXCEPT !.reading = <<>>, !.before = <<>>]
        /\ UNCHANGED <<wanted, converted, edits>>
    BY <1>3 DEF Skill!AttachmentsFail
  <2>2. /\ desk' \in SkillDeskType /\ desk'.doc = desk.doc /\ desk'.open = desk.open
        /\ desk'.uploads = desk.uploads /\ desk'.deleted = desk.deleted /\ desk'.reading = <<>>
    BY <1>1, <2>1 DEF SkillDeskType
  <2>3. WorkspaceTypes' /\ WorkspaceOK'
    BY <1>1, <2>1, <2>2 DEF WorkspaceTypes, WorkspaceOK, Agrees
  <2> QED
    BY <1>1, <2>2, <2>3, DeskSettles
<1>4. CASE Skill!ClearError
  <2>1. /\ desk' = [desk EXCEPT !.blocked = FALSE] /\ desk.reading = <<>>
        /\ UNCHANGED <<wanted, converted, edits>>
    BY <1>4 DEF Skill!ClearError
  <2>2. /\ desk' \in SkillDeskType /\ desk'.doc = desk.doc /\ desk'.open = desk.open
        /\ desk'.uploads = desk.uploads /\ desk'.deleted = desk.deleted /\ desk'.reading = <<>>
    BY <1>1, <2>1 DEF SkillDeskType
  <2>3. WorkspaceTypes' /\ WorkspaceOK'
    BY <1>1, <2>1, <2>2 DEF WorkspaceTypes, WorkspaceOK, Agrees
  <2> QED
    BY <1>1, <2>2, <2>3, DeskSettles
<1> QED
  BY <1>2, <1>3, <1>4

(* A save sends the uploads, and of the rest what only the row has.        *)
LEMMA UploadsSent ==
  ASSUME WorkspaceTypes
  PROVE  /\ Skill!Over(desk.uploads, Resends) \in Partials
         /\ DOMAIN Skill!Over(desk.uploads, Resends) = DOMAIN desk.uploads \cup Skill!Resent
         /\ \A p \in DOMAIN desk.uploads :
              Skill!Over(desk.uploads, Resends)[p] = desk.uploads[p]
         /\ \A p \in Skill!Resent :
              Skill!Over(desk.uploads, Resends)[p] = desk.item.files[p]
<1>1. desk.uploads \in Partials /\ desk.item.files \in [Skill!Paths -> Skill!Texts]
  BY DEF WorkspaceTypes, SkillDeskType, Skill!SkillRow, Skill!Files
<1>2. Skill!Resent \in SUBSET Attachments /\ Skill!Resent \cap DOMAIN desk.uploads = {}
  BY DEF Skill!Resent, Skill!Uploaded
<1>3. Resends \in [Skill!Resent -> Skill!Texts]
  BY <1>1, <1>2, SkillRecords DEF Resends
<1>4. Resends \in Partials /\ DOMAIN Resends = Skill!Resent
      /\ \A p \in Skill!Resent : Resends[p] = desk.item.files[p]
  BY <1>2, <1>3, PartialMade DEF Resends
<1>5. PICK f \in Partials, g \in Partials : f = desk.uploads /\ g = Resends
  BY <1>1, <1>4
<1>6. /\ Skill!Over(f, g) \in Partials /\ DOMAIN Skill!Over(f, g) = DOMAIN f \cup DOMAIN g
      /\ \A p \in DOMAIN f \cup DOMAIN g :
           Skill!Over(f, g)[p] = IF p \in DOMAIN f THEN f[p] ELSE g[p]
  BY PartialOver
<1> QED
  BY <1>2, <1>4, <1>5, <1>6

LEMMA SendSaveHolds ==
  ASSUME SkillInv, NEW source \in {"inline", "github"}, Skill!Save(source)
  PROVE  SkillInv'
<1>1. /\ SkillRows /\ WorkspaceTypes /\ WorkspaceOK /\ desk \in SkillDeskType
      /\ UNCHANGED <<skill, listed, fetched, desk, wanted, converted, loop, rivals>>
      /\ desk.open /\ (source = "inline" => ~desk.blocked)
      /\ edits' \in 0..MaxSkillEdits
  BY BoundsAssumption
  DEF SkillInv, WorkspaceTypes, Skill!Save, Skill!Acted, Skill!published
<1>2. PICK uploads : uploads = Skill!Over(desk.uploads, Resends)
  OBVIOUS
<1>3. save' = [pc |-> "sent", source |-> source, doc |-> desk.doc,
               uploads |-> uploads, deleted |-> desk.deleted]
  BY <1>2 DEF Skill!Save, Resends
<1>4. desk.doc \in Skill!Texts /\ uploads \in Partials /\ desk.deleted \in SUBSET Attachments
  BY <1>1, <1>2, UploadsSent DEF SkillDeskType, SkillInv
<1>5. save' \in SkillSaveType
  BY <1>3, <1>4 DEF SkillSaveType
<1>6. SkillRows' /\ WorkspaceTypes' /\ WorkspaceOK'
  BY <1>1 DEF SkillRows, WorkspaceTypes, WorkspaceOK, Agrees
<1>7. Resends' = Resends
  BY <1>1 DEF Resends, Skill!Resent, Skill!InRow, Skill!Uploaded
<1>8. SkillSaveOK'
  BY <1>1, <1>2, <1>3, <1>5, <1>7 DEF SkillSaveOK
<1> QED
  BY <1>6, <1>8 DEF SkillInv

LEMMA MergedFiles ==
  ASSUME SkillRows, NEW doc \in Skill!Texts, NEW uploads \in Partials, NEW deleted
  PROVE  Skill!Merged(doc, uploads, deleted) \in Skill!Files
<1>1. \A p \in DOMAIN uploads : uploads[p] \in Skill!Texts
  BY DEF Partials
<1>2. \A p \in Skill!Paths : skill.files[p] \in Skill!Texts
  BY DEF SkillRows, Skill!SkillRow, Skill!Files
<1> QED
  BY <1>1, <1>2, SkillRecords DEF Skill!Merged, Skill!Files

LEMMA ServeSkillHolds ==
  ASSUME SkillInv, Skill!ServeSave \/ Skill!SaveFails
  PROVE  SkillInv'
<1>1. /\ SkillRows /\ SkillSaveOK /\ WorkspaceKept /\ save \in SkillSaveType
      /\ UNCHANGED <<listed, fetched, loop, rivals>>
  BY DEF SkillInv, SkillSaveOK, Skill!ServeSave, Skill!SaveFails, Skill!workspace, WorkspaceKept
<1>2. CASE Skill!ServeSave
  <2>1. save' \in SkillSaveType /\ save'.pc = "served" /\ save.pc = "sent"
    BY <1>1, <1>2 DEF Skill!ServeSave, SkillSaveType
  <2>2. Skill!Merged(save.doc, save.uploads, save.deleted) \in Skill!Files
    BY <1>1, MergedFiles DEF SkillSaveType
  <2>3. skill' \in Skill!SkillRow
    BY <1>2, <2>2, PublishedRow, SkillRecords DEF Skill!ServeSave, Skill!Unnamed
  <2>4. SkillRows' /\ SkillSaveOK'
    BY <1>1, <2>1, <2>3 DEF SkillRows, SkillSaveOK, WorkspaceKept
  <2> QED
    BY <1>1, <2>4, WorkspaceStays
<1>3. CASE Skill!SaveFails
  <2>1. SkillRows' /\ SkillSaveOK'
    BY <1>1, <1>3, SkillRecords DEF Skill!SaveFails, Skill!published, SkillRows, SkillSaveOK
  <2> QED
    BY <1>1, <2>1, WorkspaceStays
<1> QED
  BY <1>2, <1>3

LEMMA WorkspaceNext == SkillInv /\ [Skill!Next]_(Skill!skillVars) => SkillInv'
<1> SUFFICES ASSUME SkillInv, [Skill!Next]_(Skill!skillVars) PROVE SkillInv'
  OBVIOUS
<1>1. CASE UNCHANGED Skill!skillVars
  BY <1>1, WorkspaceStays
  DEF Skill!skillVars, Skill!workspace, Skill!around, Skill!published, WorkspaceKept, SkillInv,
      SkillRows, SkillSaveOK, Resends, Skill!Resent, Skill!InRow, Skill!Uploaded
<1>2. CASE Skill!Next
  BY <1>2, AroundHolds, OpenEditorHolds, LeaveHolds, WriteHolds, RemoveFileHolds, AttachHolds, UploadHolds,
     SendSaveHolds, ServeSkillHolds
  DEF Skill!Next
<1> QED
  BY <1>1, <1>2

LEMMA SavePublishes ==
  ASSUME SkillInv, Skill!ServeSave, save.source = "inline", NEW p \in Skill!Paths \ converted
  PROVE  skill'.files[p] = IF wanted[p] # Skill!Kept THEN wanted[p]
                           ELSE IF Skill!InRow(p) THEN desk.item.files[p] ELSE skill.files[p]
<1>1. /\ SkillRows /\ save \in SkillSaveType /\ save.pc = "sent" /\ desk.open
      /\ save.doc = desk.doc /\ save.deleted = desk.deleted
      /\ save.uploads = Skill!Over(desk.uploads, Resends)
      /\ Agrees(p) /\ desk \in SkillDeskType /\ WorkspaceTypes
  BY DEF SkillInv, SkillSaveOK, WorkspaceOK, WorkspaceTypes, Skill!ServeSave
<1>2. PICK files : files = Skill!Merged(save.doc, save.uploads, save.deleted)
  OBVIOUS
<1>3. files \in Skill!Files
  BY <1>1, <1>2, MergedFiles DEF SkillSaveType
<1>4. Skill!Publish("inline", files, 0)
  BY <1>2 DEF Skill!ServeSave, Skill!Unnamed
<1>5. skill'.files = files
  BY <1>3, <1>4, PublishedRow
<1>6. files[p] = IF p \in desk.deleted THEN Skill!Absent ELSE IF p = Skill!Doc THEN desk.doc
                 ELSE IF p \in DOMAIN desk.uploads THEN desk.uploads[p]
                 ELSE IF p \in Skill!Resent THEN desk.item.files[p] ELSE skill.files[p]
  BY <1>1, <1>2, UploadsSent DEF Skill!Merged
<1>7. /\ desk.doc # Skill!Kept /\ Skill!Absent # Skill!Kept
      /\ \A q \in DOMAIN desk.uploads : desk.uploads[q] # Skill!Kept
  <2>1. desk.doc \in Skill!Texts /\ desk.uploads \in Partials
    BY <1>1 DEF SkillDeskType
  <2>2. \A q \in DOMAIN desk.uploads : desk.uploads[q] \in Skill!Texts
    BY <2>1 DEF Partials
  <2> QED
    BY <2>1, <2>2, SkillRecords
<1>8. p \in Skill!Resent <=> /\ p # Skill!Doc /\ Skill!InRow(p)
                            /\ p \notin DOMAIN desk.uploads /\ p \notin desk.deleted
  BY SkillRecords DEF Skill!Resent, Skill!Uploaded
<1> QED
  BY <1>1, <1>5, <1>6, <1>7, <1>8 DEF Agrees

(* Saving publishes what the workspace shows: every edit, upload and       *)
(* removal of this session, and what nobody touched as it is published, or *)
(* as it was opened if the row had no manifest.                            *)
THEOREM SavesAreAsShown == FrontsSpec => SavedAsShown
<1>1. SkillInv /\ [Skill!Next]_(Skill!skillVars) =>
        [Skill!ServeSave /\ save.source = "inline" =>
           \A p \in Skill!Paths \ converted :
             skill'.files[p] = IF wanted[p] # Skill!Kept THEN wanted[p]
                               ELSE IF Skill!InRow(p) THEN desk.item.files[p]
                               ELSE skill.files[p]]_(Skill!skillVars)
  BY SavePublishes
<1> QED
  BY <1>1, SkillAlone, WorkspaceStart, WorkspaceNext, PTL
  DEF Skill!Spec, SavedAsShown, Skill!SavedAsShown

-----------------------------------------------------------------------------
(* The pages of a list.                                                    *)

LEMMA LeastNumber ==
  ASSUME NEW S \in SUBSET Nat, S # {}
  PROVE  \E m \in S : \A k \in S : m <= k
<1> DEFINE R == {ss \in Nat \X Nat : ss[1] < ss[2]}
<1>1. IsWellFoundedOn(R, Nat)
  BY NatLessThanWellFounded DEF OpToRel
<1>2. \A k, m \in Nat : k < m => <<k, m>> \in R
  OBVIOUS
<1> HIDE DEF R
<1>3. PICK m \in S : \A k \in S : ~(<<k, m>> \in R)
  BY <1>1, WFMin
<1>4. \A k \in S : ~(k < m)
  BY <1>2, <1>3
<1> QED
  BY <1>3, <1>4

LEMMA LeastItem ==
  ASSUME NEW S \in SUBSET Items, S # {}
  PROVE  Paged!Min(S) \in S /\ \A i \in S : Paged!Min(S) <= i
<1>1. S \in SUBSET Nat
  BY FrontsAssumption
<1>2. \E m \in S : \A k \in S : m <= k
  BY <1>1, LeastNumber
<1> QED
  BY <1>2 DEF Paged!Min

(* A set of rows has a newest one: a smallest set without would lose its   *)
(* own row of which the others have no newest one either.                  *)
LEMMA NewestItem ==
  ASSUME NEW S \in SUBSET Items, S # {}
  PROVE  \E m \in S : \A i \in S : i <= m
<1> DEFINE Without == {T \in SUBSET S : T # {} /\ ~\E m \in T : \A i \in T : i <= m}
           Sizes == {Cardinality(T) : T \in Without}
<1>1. \A T \in SUBSET S : IsFiniteSet(T) /\ Cardinality(T) \in Nat
  BY FrontsAssumption, FS_Subset, FS_CardinalityType
<1> SUFFICES ASSUME Without # {} PROVE FALSE
  OBVIOUS
<1>2. Sizes \in SUBSET Nat /\ Sizes # {}
  BY <1>1
<1>3. PICK n \in Sizes : \A k \in Sizes : n <= k
  <2> HIDE DEF Sizes
  <2> QED
    BY <1>2, LeastNumber
<1>4. PICK T \in Without : Cardinality(T) = n
  BY <1>3
<1>5. PICK i \in T : TRUE
  BY <1>4
<1>6. /\ T \ {i} \in SUBSET S /\ IsFiniteSet(T)
      /\ Cardinality(T \ {i}) = Cardinality(T) - 1
  BY <1>1, <1>4, <1>5, FS_RemoveElement
<1>7. T \ {i} \notin Without
  <2>1. \A U \in Without : Cardinality(U) \in Sizes
    OBVIOUS
  <2>2. n \in Nat
    BY <1>2, <1>3
  <2> HIDE DEF Sizes, Without
  <2> QED
    BY <1>3, <1>4, <1>6, <2>1, <2>2
<1>8. T \subseteq Nat
  BY <1>4, FrontsAssumption
<1>9. CASE T \ {i} = {}
  BY <1>4, <1>5, <1>8, <1>9
<1>10. CASE T \ {i} # {}
  <2>1. PICK m \in T \ {i} : \A k \in T \ {i} : k <= m
    BY <1>6, <1>7, <1>10
  <2>2. CASE m <= i
    <3>1. \A k \in T : k <= i
      BY <1>5, <1>8, <2>1, <2>2
    <3> QED
      BY <1>4, <1>5, <3>1
  <2>3. CASE i <= m
    <3>1. \A k \in T : k <= m
      BY <1>5, <1>8, <2>1, <2>3
    <3> QED
      BY <1>4, <2>1, <3>1
  <2> QED
    BY <1>5, <1>8, <2>1, <2>2, <2>3
<1> QED
  BY <1>9, <1>10

LEMMA PagedAlone == FrontsSpec => Paged!Spec
<1>1. FrontsInit => Paged!Init
  BY DEF FrontsInit
<1>2. [FrontsNext]_frontVars => [Paged!Next]_(Paged!pagedVars)
  BY DEF FrontsNext, frontVars, OnSession, OnPaged, OnSkill, OnTool, OnCredit, OnSecret,
         OnSettings, OnDesk, OnUpdate, OnDev, ofPaged, Paged!pagedVars
<1> QED
  BY <1>1, <1>2, PTL DEF FrontsSpec, Paged!Spec

Page == [items : SUBSET Items, next : Items \cup {0}]
PageLoad == [mode : {"none", "all", "next"}, pages : Seq(Page), since : SUBSET Items, want : Nat]

(* n rows of S, none older than i.                                         *)
AsMany(S, i, n) == \E some \in Paged!Injection(1..n, S) : \A k \in 1..n : some[k] >= i
(* A page that does not end the list holds as many rows as it may, and     *)
(* older ones follow.                                                      *)
PageFits(v, p) ==
  /\ p.items \subseteq visible
  /\ p.next # 0 =>
       /\ p.next \in p.items /\ \A i \in p.items : p.next <= i
       /\ AsMany(p.items, p.next, SizeOf[v])
       /\ \E i \in visible : i < p.next
(* The pages of one reading: each begins after the one before, and a row   *)
(* that was there at the first is on one of them or comes after the last.  *)
PagesFit(v, pages, since) ==
  /\ since \subseteq visible
  /\ \A k \in DOMAIN pages : PageFits(v, pages[k]) /\ (k < Len(pages) => pages[k].next # 0)
  /\ \A m, n \in DOMAIN pages : m < n => \A i \in pages[n].items : i < pages[m].next
  /\ pages # <<>> => \A i \in since : \/ \E n \in DOMAIN pages : i \in pages[n].items
                                      \/ i < pages[Len(pages)].next
(* A reading goes at least as far back, page for page, as the one before.  *)
Reaches(new, old) ==
  \A k \in DOMAIN new : k < Len(old) => new[k].next # 0 /\ new[k].next >= old[k].next

ListFits(v) ==
  /\ PagesFit(v, paged[v].pages, paged[v].since)
  /\ PagesFit(v, loading[v].pages, loading[v].since)
  /\ loading[v].mode # "none" => /\ Len(paged[v].pages) <= loading[v].want /\ loading[v].want > 0
                                 /\ Reaches(loading[v].pages, paged[v].pages)
PagedTypes ==
  /\ visible \subseteq Items
  /\ paged \in [Views -> [pages : Seq(Page), since : SUBSET Items]]
  /\ loading \in [Views -> PageLoad]
(* The index is one of a page that is read; who waits for a page still     *)
(* stands at the last one, unless another list is on screen.               *)
TurnFits ==
  /\ current \in Views /\ turn \in Nat
  /\ turning \in [of : Views \cup {Nothing}, at : Nat]
  /\ turn # 0 => turn < Len(paged[current].pages)
  /\ turning.of = current => turning.at = turn
  /\ turning.of \notin {Nothing, current} => loading[turning.of].mode = "none"

PagedInv == PagedTypes /\ (\A v \in Views : ListFits(v)) /\ TurnFits

-----------------------------------------------------------------------------
\* What the server answers

LEMMA NewestUpward ==
  ASSUME NEW S \in SUBSET Items, NEW n \in Nat, NEW i \in Paged!Newest(S, n), NEW j \in S, i <= j
  PROVE  j \in Paged!Newest(S, n)
<1>1. S \subseteq Nat /\ i \in S
  BY FrontsAssumption DEF Paged!Newest
<1> SUFFICES ASSUME NEW newer \in Paged!Injection(1..n, S), \A k \in 1..n : newer[k] > j
             PROVE  FALSE
  BY DEF Paged!Newest
<1>2. \A k \in 1..n : newer[k] \in S
  BY DEF Paged!Injection
<1>3. ASSUME NEW k \in 1..n PROVE newer[k] > i
  <2>1. newer[k] \in Nat /\ newer[k] > j /\ i \in Nat /\ j \in Nat
    BY <1>1, <1>2
  <2> QED
    BY <2>1
<1> QED
  BY <1>3 DEF Paged!Newest

LEMMA OlderLeftOut ==
  ASSUME NEW S \in SUBSET Items, NEW T \in SUBSET S, NEW c \in Items, NEW n \in Nat,
         AsMany(T, c, n)
  PROVE  \A i \in Paged!Newest(S, n) : c <= i
<1> SUFFICES ASSUME NEW i \in Paged!Newest(S, n), ~(c <= i) PROVE FALSE
  OBVIOUS
<1>1. PICK some \in Paged!Injection(1..n, T) : \A k \in 1..n : some[k] >= c
  BY DEF AsMany
<1>2. some \in [1..n -> T] /\ Paged!IsInjective(some)
  BY DEF Paged!Injection
<1>3. some \in [1..n -> S]
  BY <1>2
<1>4. some \in Paged!Injection(1..n, S)
  BY <1>2, <1>3 DEF Paged!Injection
<1>5. i \in S /\ S \subseteq Nat /\ c \in Nat
  BY FrontsAssumption DEF Paged!Newest
<1>6. ASSUME NEW k \in 1..n PROVE some[k] > i
  <2>1. some[k] \in Nat /\ some[k] >= c
    BY <1>1, <1>3, <1>5
  <2> QED
    BY <1>5, <2>1
<1> QED
  BY <1>4, <1>6 DEF Paged!Newest

LEMMA NewestOnes ==
  ASSUME NEW S \in SUBSET Items, NEW n \in Nat \ {0}, NEW items, items = Paged!Newest(S, n),
         items # S
  PROVE  /\ items \subseteq S /\ Paged!Min(items) \in items
         /\ \A i \in items : Paged!Min(items) <= i
         /\ AsMany(items, Paged!Min(items), n)
         /\ \E i \in S : i < Paged!Min(items)
         /\ \A i \in S \ items : i < Paged!Min(items)
<1>1. items \subseteq S /\ S \subseteq Nat
  BY FrontsAssumption DEF Paged!Newest
<1>2. PICK j \in S \ items : \A i \in S \ items : i <= j
  BY <1>1, NewestItem
<1>3. PICK newer \in Paged!Injection(1..n, S) : \A k \in 1..n : newer[k] > j
  BY <1>2 DEF Paged!Newest
<1>4. newer \in [1..n -> S] /\ Paged!IsInjective(newer)
  BY <1>3 DEF Paged!Injection
<1>5. ASSUME NEW k \in 1..n PROVE newer[k] \in items
  <2>1. newer[k] \in S /\ newer[k] \in Nat /\ newer[k] > j /\ j \in Nat
    BY <1>1, <1>2, <1>3, <1>4
  <2>2. ~(newer[k] <= j)
    BY <2>1
  <2> QED
    BY <1>2, <2>1, <2>2
<1>6. newer \in [1..n -> items]
  BY <1>4, <1>5
<1>7. newer \in Paged!Injection(1..n, items)
  BY <1>4, <1>6 DEF Paged!Injection
<1>8. 1 \in 1..n
  OBVIOUS
<1>9. items # {}
  BY <1>5, <1>8
<1>10. PICK c \in items : c = Paged!Min(items) /\ \A i \in items : c <= i
  BY <1>1, <1>9, LeastItem
<1>11. AsMany(items, c, n)
  BY <1>5, <1>7, <1>10, <1>1 DEF AsMany
<1>12. ASSUME NEW i \in S \ items PROVE i < c
  <2>1. ~(c <= i)
    BY <1>10, <1>12, NewestUpward
  <2> QED
    BY <1>1, <1>10, <2>1
<1> QED
  BY <1>1, <1>2, <1>10, <1>11, <1>12

LEMMA Numbered == \A i \in Items \cup {0} : i \in Nat
<1>1. Items \subseteq Nat \ {0}
  BY FrontsAssumption
<1> QED
  BY <1>1

LEMMA PageAnswered ==
  ASSUME visible \subseteq Items, NEW v \in Views, NEW c \in Items \cup {0},
         NEW more, more = Paged!PageAfter(v, c)
  PROVE  /\ more \in Page /\ PageFits(v, more)
         /\ more.items = Paged!Newest(Paged!After(c), SizeOf[v])
         /\ more.next = 0 <=> more.items = Paged!After(c)
         /\ \A i \in more.items : c = 0 \/ i < c
         /\ \A i \in Paged!After(c) : i \in more.items \/ i < more.next
<1> DEFINE S == Paged!After(c)
           some == Paged!Newest(S, SizeOf[v])
<1>1. S \in SUBSET visible /\ \A i \in S : c = 0 \/ i < c
  BY DEF Paged!After
<1>2. S \in SUBSET Items /\ SizeOf[v] \in Nat \ {0} /\ Items \subseteq Nat \ {0}
  BY <1>1, FrontsAssumption
<1>3. some \subseteq S
  BY DEF Paged!Newest
<1>4. more = [items |-> some, next |-> IF some = S THEN 0 ELSE Paged!Min(some)]
  BY DEF Paged!PageAfter
<1>5. CASE some = S
  <2>1. more = [items |-> S, next |-> 0]
    BY <1>4, <1>5
  <2>2. more \in Page
    BY <1>2, <2>1 DEF Page
  <2> HIDE DEF S, some
  <2> QED
    BY <1>1, <1>5, <2>1, <2>2 DEF PageFits, S, some
<1>6. CASE some # S
  <2>1. /\ Paged!Min(some) \in some /\ \A i \in some : Paged!Min(some) <= i
        /\ AsMany(some, Paged!Min(some), SizeOf[v])
        /\ \E i \in S : i < Paged!Min(some)
        /\ \A i \in S \ some : i < Paged!Min(some)
    <3> HIDE DEF S
    <3> QED
      BY <1>2, <1>6, NewestOnes
  <2>2. PICK d \in some : d = Paged!Min(some)
    BY <2>1
  <2>3. more = [items |-> some, next |-> d]
    BY <1>4, <1>6, <2>2
  <2>4. more \in Page /\ d # 0
    BY <1>2, <1>3, <2>3 DEF Page
  <2> HIDE DEF S, some
  <2>5. PageFits(v, more)
    BY <1>1, <1>3, <2>1, <2>2, <2>3, <2>4 DEF PageFits
  <2> QED
    BY <1>1, <1>3, <1>6, <2>1, <2>2, <2>3, <2>4, <2>5 DEF S, some
<1> QED
  BY <1>5, <1>6

(* A page that is read after others fits them.                             *)
LEMMA PageAppended ==
  ASSUME visible \subseteq Items, NEW v \in Views, NEW pages \in Seq(Page), NEW since,
         PagesFit(v, pages, since), pages # <<>> => Paged!Cursor(pages) # 0,
         NEW more, more = Paged!PageAfter(v, Paged!Cursor(pages))
  PROVE  /\ Append(pages, more) \in Seq(Page)
         /\ PagesFit(v, Append(pages, more), IF pages = <<>> THEN visible ELSE since)
<1> DEFINE n == Len(pages)
           c == Paged!Cursor(pages)
           all == Append(pages, more)
           begun == IF pages = <<>> THEN visible ELSE since
<1>1. /\ n \in Nat /\ DOMAIN pages = 1..n /\ \A k \in 1..n : pages[k] \in Page
      /\ pages # <<>> <=> n > 0
  OBVIOUS
<1>2. /\ \A k \in 1..n : pages[k].next \in Items \cup {0} /\ pages[k].items \subseteq Items
      /\ Items \subseteq Nat \ {0}
  BY <1>1, FrontsAssumption DEF Page
<1>3. /\ pages = <<>> => c = 0
      /\ pages # <<>> => c = pages[n].next /\ c # 0 /\ n \in 1..n
      /\ c \in Items \cup {0}
  BY <1>1, <1>2 DEF Paged!Cursor
<1>4. /\ more \in Page /\ PageFits(v, more)
      /\ \A i \in more.items : c = 0 \/ i < c
      /\ \A i \in Paged!After(c) : i \in more.items \/ i < more.next
  <2> HIDE DEF c
  <2> QED
    BY <1>3, PageAnswered DEF c
<1>5. /\ all \in Seq(Page) /\ Len(all) = n + 1 /\ DOMAIN all = 1..(n + 1)
      /\ \A k \in 1..n : all[k] = pages[k]
      /\ all[n + 1] = more /\ all # <<>>
  <2> HIDE DEF c
  <2>1. all \in Seq(Page)
    BY <1>4
  <2>2. Len(all) = n + 1 /\ DOMAIN all = 1..(n + 1) /\ all[n + 1] = more
    BY <1>4
  <2>3. \A k \in 1..n : all[k] = pages[k]
    BY <1>4
  <2> QED
    BY <1>1, <2>1, <2>2, <2>3
<1> HIDE DEF n, c, all
<1>6. begun \subseteq visible
  BY DEF PagesFit
<1>7. ASSUME NEW k \in 1..(n + 1) PROVE PageFits(v, all[k]) /\ (k < n + 1 => all[k].next # 0)
  BY <1>1, <1>3, <1>4, <1>5, <1>7 DEF PagesFit, n
<1>8. ASSUME NEW m \in 1..n PROVE pages[m].next \in Nat /\ (m < n => c < pages[m].next)
  <2>1. pages[m].next \in Items \cup {0}
    BY <1>2, <1>8
  <2>2. ASSUME m < n PROVE c < pages[m].next
    <3>1. n \in 1..n /\ c = pages[n].next /\ c # 0 /\ c \in pages[n].items
      BY <1>1, <1>3, <2>2 DEF PagesFit, PageFits
    <3> QED
      BY <1>1, <2>2, <3>1 DEF PagesFit
  <2>3. pages[m].next \in Nat
    BY <2>1, Numbered
  <2> QED
    BY <2>2, <2>3
<1>9. ASSUME NEW k \in 1..(n + 1), NEW m \in 1..(n + 1), m < k, NEW i \in all[k].items
      PROVE  i < all[m].next
  <2>1. m \in 1..n /\ all[m] = pages[m]
    BY <1>1, <1>5, <1>9
  <2>2. CASE k \in 1..n
    BY <1>1, <1>5, <1>9, <2>1, <2>2 DEF PagesFit
  <2>3. CASE k = n + 1
    <3>1. i \in more.items /\ c # 0 /\ c \in Nat
      BY <1>1, <1>2, <1>3, <1>5, <1>9, <2>1, <2>3
    <3>2. i < c /\ i \in Nat
      BY <1>2, <1>4, <3>1 DEF Page
    <3>3. c = pages[m].next \/ c < pages[m].next
      BY <1>1, <1>3, <1>8, <2>1
    <3> QED
      BY <1>8, <2>1, <3>1, <3>2, <3>3
  <2> QED
    BY <1>1, <2>2, <2>3
<1>10. ASSUME NEW i \in begun
       PROVE  (\E k \in 1..(n + 1) : i \in all[k].items) \/ i < all[n + 1].next
  <2>1. i \in visible /\ n + 1 \in 1..(n + 1)
    BY <1>1, <1>6, <1>10
  <2>2. CASE pages = <<>>
    <3>1. i \in Paged!After(c)
      BY <1>3, <2>1, <2>2 DEF Paged!After
    <3> QED
      BY <1>4, <1>5, <2>1, <3>1
  <2>3. CASE pages # <<>>
    <3>1. (\E k \in 1..n : i \in pages[k].items) \/ i < c
      BY <1>1, <1>3, <1>10, <2>3 DEF PagesFit, n
    <3>2. CASE i < c
      <4>1. i \in Paged!After(c)
        BY <2>1, <3>2 DEF Paged!After
      <4> QED
        BY <1>4, <1>5, <2>1, <4>1
    <3>3. ASSUME NEW k \in 1..n, i \in pages[k].items PROVE i \in all[k].items /\ k \in 1..(n + 1)
      BY <1>1, <1>5, <3>3
    <3> QED
      BY <3>1, <3>2, <3>3
  <2> QED
    BY <2>2, <2>3
<1>11. PagesFit(v, all, begun)
  <2> HIDE DEF begun
  <2> QED
    BY <1>5, <1>6, <1>7, <1>9, <1>10 DEF PagesFit
<1> QED
  BY <1>5, <1>11 DEF all

(* Fetched again, a list reaches as far back: fewer rows would be visible. *)
LEMMA ReadReaches ==
  ASSUME visible \subseteq Items, NEW v \in Views, NEW pages \in Seq(Page), NEW since,
         pages # <<>> => Paged!Cursor(pages) # 0,
         NEW more, more = Paged!PageAfter(v, Paged!Cursor(pages)),
         NEW old \in Seq(Page), NEW before, PagesFit(v, old, before), Reaches(pages, old)
  PROVE  Reaches(Append(pages, more), old)
<1> DEFINE n == Len(pages)
           c == Paged!Cursor(pages)
           S == Paged!After(c)
<1>1. /\ n \in Nat /\ DOMAIN pages = 1..n /\ \A k \in 1..n : pages[k] \in Page
      /\ pages # <<>> <=> n > 0
      /\ Len(old) \in Nat /\ DOMAIN old = 1..Len(old) /\ \A k \in 1..Len(old) : old[k] \in Page
  OBVIOUS
<1>2. /\ pages = <<>> => c = 0
      /\ pages # <<>> => c = pages[n].next /\ c # 0 /\ n \in 1..n
  BY <1>1 DEF Paged!Cursor
<1>3. c \in Items \cup {0}
  BY <1>1, <1>2 DEF Page
<1>4. /\ more \in Page /\ PageFits(v, more)
      /\ more.items = Paged!Newest(S, SizeOf[v])
      /\ more.next = 0 <=> more.items = S
  <2> HIDE DEF c
  <2> QED
    BY <1>3, PageAnswered DEF c
<1> HIDE DEF n, c
<1>5. ASSUME n + 1 < Len(old)
      PROVE  more.next # 0 /\ more.next >= old[n + 1].next
  <2>1. n + 1 \in 1..Len(old) /\ (n > 0 => n \in 1..Len(old) /\ n < n + 1)
    BY <1>1, <1>5
  <2>2. PICK T, d : old[n + 1].items = T /\ old[n + 1].next = d
    OBVIOUS
  <2>3. PageFits(v, old[n + 1]) /\ d # 0
    BY <1>1, <1>5, <2>1, <2>2 DEF PagesFit
  <2>4. /\ T \subseteq visible /\ d \in T /\ AsMany(T, d, SizeOf[v])
        /\ \E i \in visible : i < d
    BY <2>2, <2>3 DEF PageFits
  <2>5. ASSUME NEW i \in T PROVE c = 0 \/ i < c
    <3>1. CASE pages = <<>>
      BY <1>2, <3>1
    <3>2. CASE pages # <<>>
      <4>1. n \in 1..n /\ n < Len(old) /\ c = pages[n].next
        BY <1>1, <1>2, <1>5, <3>2
      <4>2. c >= old[n].next
        BY <1>1, <4>1 DEF Reaches
      <4>3. i < old[n].next
        BY <1>1, <2>1, <2>2, <3>2 DEF PagesFit
      <4>4. old[n].next \in Nat /\ c \in Nat /\ i \in Nat
        BY <1>1, <1>3, <2>1, <2>4, <3>2, Numbered DEF Page
      <4> QED
        BY <4>2, <4>3, <4>4
    <3> QED
      BY <3>1, <3>2
  <2>6. T \subseteq S
    BY <2>4, <2>5 DEF Paged!After
  <2>7. \A i \in more.items : d <= i
    <3>1. S \in SUBSET Items /\ SizeOf[v] \in Nat /\ d \in Items
      BY <2>4, FrontsAssumption DEF Paged!After
    <3> HIDE DEF S
    <3> QED
      BY <1>4, <2>4, <2>6, <3>1, OlderLeftOut
  <2>8. PICK i \in visible : i < d
    BY <2>4
  <2>9. i \in Nat /\ d \in Nat /\ c \in Nat
    BY <1>3, <2>4, Numbered
  <2>10. i \in S
    BY <2>4, <2>5, <2>8, <2>9 DEF Paged!After
  <2>11. more.next # 0
    BY <1>4, <2>7, <2>8, <2>9, <2>10
  <2>12. more.next \in more.items /\ more.next \in Nat
    BY <1>4, <2>11, Numbered DEF PageFits, Page
  <2> QED
    BY <2>2, <2>7, <2>9, <2>11, <2>12
<1>6. /\ DOMAIN Append(pages, more) = 1..(n + 1)
      /\ Append(pages, more)[n + 1] = more
      /\ \A k \in 1..n : Append(pages, more)[k] = pages[k]
  BY <1>1, <1>4 DEF n
<1>7. ASSUME NEW k \in 1..(n + 1), k < Len(old)
      PROVE  Append(pages, more)[k].next # 0 /\ Append(pages, more)[k].next >= old[k].next
  <2>1. CASE k = n + 1
    BY <1>5, <1>6, <1>7, <2>1
  <2>2. CASE k \in 1..n
    BY <1>1, <1>6, <1>7, <2>2 DEF Reaches
  <2> QED
    BY <1>1, <2>1, <2>2
<1> QED
  BY <1>6, <1>7 DEF Reaches

-----------------------------------------------------------------------------

LEMMA FitsLater ==
  ASSUME visible \subseteq visible', NEW v \in Views, NEW pages, NEW since,
         PagesFit(v, pages, since)
  PROVE  PagesFit(v, pages, since)'
<1>1. ASSUME NEW p, PageFits(v, p) PROVE PageFits(v, p)'
  BY <1>1 DEF PageFits, AsMany
<1> QED
  BY <1>1 DEF PagesFit

LEMMA ListMoves ==
  ASSUME visible \subseteq visible', NEW v \in Views, NEW P, NEW S, NEW Q, NEW T,
         paged'[v].pages = P /\ paged'[v].since = S,
         loading'[v].pages = Q /\ loading'[v].since = T,
         PagesFit(v, P, S), PagesFit(v, Q, T),
         loading'[v].mode # "none" =>
           Len(P) <= loading'[v].want /\ loading'[v].want > 0 /\ Reaches(Q, P)
  PROVE  ListFits(v)'
<1>1. PagesFit(v, P, S)' /\ PagesFit(v, Q, T)'
  BY FitsLater
<1> QED
  BY <1>1 DEF ListFits, Reaches

LEMMA ListStays ==
  ASSUME visible \subseteq visible', NEW v \in Views, ListFits(v),
         paged'[v] = paged[v], loading'[v] = loading[v]
  PROVE  ListFits(v)'
<1>1. PICK P, S, Q, T : /\ paged[v].pages = P /\ paged[v].since = S
                        /\ loading[v].pages = Q /\ loading[v].since = T
  OBVIOUS
<1>2. PagesFit(v, P, S) /\ PagesFit(v, Q, T)
  BY <1>1 DEF ListFits
<1>3. loading'[v].mode # "none" =>
        Len(P) <= loading'[v].want /\ loading'[v].want > 0 /\ Reaches(Q, P)
  BY <1>1 DEF ListFits
<1> QED
  BY <1>1, <1>2, <1>3, ListMoves

LEMMA TurnStays ==
  ASSUME PagedTypes, PagedTypes', TurnFits, UNCHANGED <<current, turn, turning>>,
         Len(paged'[current].pages) >= Len(paged[current].pages),
         \A u \in Views : u # current /\ loading[u].mode = "none" => loading'[u].mode = "none"
  PROVE  TurnFits'
<1>1. /\ Len(paged'[current].pages) \in Nat /\ Len(paged[current].pages) \in Nat
      /\ current \in Views /\ turn \in Nat
  BY DEF PagedTypes, TurnFits
<1> QED
  BY <1>1 DEF TurnFits

LEMMA PageRecords ==
  /\ Paged!Unread \in [pages : Seq(Page), since : SUBSET Items]
  /\ Paged!NoLoad \in PageLoad
  /\ \A v \in Views : PagesFit(v, <<>>, {})
<1>1. <<>> \in Seq(Page) /\ {} \in SUBSET Items /\ 0 \in Nat
  OBVIOUS
<1>2. Paged!Unread \in [pages : Seq(Page), since : SUBSET Items]
  BY <1>1 DEF Paged!Unread
<1>3. Paged!NoLoad \in PageLoad
  BY <1>1 DEF Paged!NoLoad, PageLoad
<1> QED
  BY <1>2, <1>3 DEF PagesFit

LEMMA PagedStart == Paged!Init => PagedInv
<1> SUFFICES ASSUME Paged!Init PROVE PagedInv
  OBVIOUS
<1>1. PICK w \in Views : /\ current = w
                         /\ loading = [[u \in Views |-> Paged!NoLoad]
                                         EXCEPT ![w].mode = "all", ![w].want = 1]
  BY DEF Paged!Init
<1>2. /\ visible \subseteq Items /\ paged = [v \in Views |-> Paged!Unread]
      /\ turn = 0 /\ turning = [of |-> Nothing, at |-> 0]
  BY DEF Paged!Init
<1>3. [Paged!NoLoad EXCEPT !.mode = "all", !.want = 1] \in PageLoad
  BY PageRecords DEF PageLoad
<1>4. \A v \in Views :
        loading[v] = IF v = w THEN [Paged!NoLoad EXCEPT !.mode = "all", !.want = 1]
                     ELSE Paged!NoLoad
  BY <1>1
<1>5. DOMAIN loading = Views /\ loading = [v \in Views |-> loading[v]]
  BY <1>1
<1>6. loading \in [Views -> PageLoad]
  BY <1>3, <1>4, <1>5, PageRecords
<1>7. PagedTypes
  BY <1>2, <1>6, PageRecords DEF PagedTypes
<1>8. ASSUME NEW v \in Views PROVE ListFits(v)
  <2>1. paged[v].pages = <<>> /\ paged[v].since = {}
    BY <1>2 DEF Paged!Unread
  <2>2. /\ loading[v].pages = <<>> /\ loading[v].since = {}
        /\ loading[v].mode # "none" => loading[v].want = 1
    <3> DEFINE first == [Paged!NoLoad EXCEPT !.mode = "all", !.want = 1]
    <3>1. first.pages = <<>> /\ first.since = {} /\ first.want = 1
      BY PageRecords DEF PageLoad, Paged!NoLoad
    <3>2. CASE v = w
      BY <1>4, <3>1, <3>2
    <3>3. CASE v # w
      BY <1>4, <3>3 DEF Paged!NoLoad
    <3> QED
      BY <3>2, <3>3
  <2> QED
    BY <2>1, <2>2, PageRecords DEF ListFits, Reaches
<1>9. TurnFits
  BY <1>1, <1>2, <1>4, FrontsAssumption DEF TurnFits, Paged!NoLoad
<1> QED
  BY <1>7, <1>8, <1>9 DEF PagedInv

LEMMA CommitHolds ==
  ASSUME PagedInv, NEW i \in Items, Paged!Commit(i)
  PROVE  PagedInv'
<1>1. /\ visible' = visible \cup {i}
      /\ UNCHANGED <<paged, loading, current, turn, turning>>
  BY DEF Paged!Commit
<1>2. PagedTypes'
  BY <1>1 DEF PagedInv, PagedTypes
<1>3. TurnFits'
  BY <1>1 DEF PagedInv, TurnFits
<1>4. \A v \in Views : ListFits(v)'
  BY <1>1, ListStays DEF PagedInv
<1> QED
  BY <1>2, <1>3, <1>4 DEF PagedInv

LEMMA PageHolds ==
  ASSUME PagedInv, NEW v \in Views, Paged!ReadPage(v)
  PROVE  PagedInv'
<1>1. PICK load : load = loading[v]
  OBVIOUS
<1>2. PICK pages, since, P, S : /\ load.pages = pages /\ load.since = since
                                /\ P = paged[v].pages /\ S = paged[v].since
  OBVIOUS
<1>3. PICK more : more = Paged!PageAfter(v, Paged!Cursor(pages))
  OBVIOUS
<1>4. PICK T : T = IF pages = <<>> THEN visible ELSE since
  OBVIOUS
<1> DEFINE Q == Append(pages, more)
           next == [load EXCEPT !.pages = Q, !.since = T]
<1>5. /\ visible \subseteq Items /\ load \in PageLoad /\ loading \in [Views -> PageLoad]
      /\ pages \in Seq(Page) /\ since \subseteq Items /\ P \in Seq(Page)
  BY <1>1, <1>2 DEF PagedInv, PagedTypes, PageLoad
<1>6. /\ load.mode # "none"
      /\ pages # <<>> => Paged!Cursor(pages) # 0
      /\ loading' = [loading EXCEPT ![v] = next]
      /\ UNCHANGED <<visible, paged, current, turn, turning>>
  BY <1>1, <1>2, <1>3, <1>4, <1>5 DEF Paged!ReadPage, Paged!More
<1>7. /\ PagesFit(v, P, S) /\ PagesFit(v, pages, since)
      /\ Len(P) <= load.want /\ load.want > 0 /\ Reaches(pages, P)
  <2>1. ListFits(v)
    BY DEF PagedInv
  <2>2. PagesFit(v, P, S) /\ PagesFit(v, pages, since)
    BY <1>1, <1>2, <2>1 DEF ListFits
  <2>3. Len(P) <= load.want /\ load.want > 0 /\ Reaches(pages, P)
    BY <1>1, <1>2, <1>6, <2>1 DEF ListFits
  <2> QED
    BY <2>2, <2>3
<1>8. Q \in Seq(Page) /\ PagesFit(v, Q, T) /\ Reaches(Q, P)
  <2>1. Q \in Seq(Page) /\ PagesFit(v, Q, T)
    BY <1>3, <1>4, <1>5, <1>6, <1>7, PageAppended
  <2>2. Reaches(Q, P)
    BY <1>3, <1>5, <1>6, <1>7, ReadReaches
  <2> QED
    BY <2>1, <2>2
<1> HIDE DEF Q
<1>9. /\ next \in PageLoad /\ next.pages = Q /\ next.since = T /\ next.mode = load.mode
      /\ next.want = load.want
  <2>1. T \subseteq Items
    BY <1>4, <1>5
  <2> QED
    BY <1>5, <1>8, <2>1 DEF PageLoad
<1> HIDE DEF next
<1>10. loading'[v] = next /\ \A u \in Views : u # v => loading'[u] = loading[u]
  BY <1>5, <1>6
<1>11. PagedTypes'
  BY <1>5, <1>6, <1>9 DEF PagedInv, PagedTypes
<1>12. ListFits(v)'
  BY <1>2, <1>6, <1>7, <1>8, <1>9, <1>10, ListMoves
<1>13. \A u \in Views : ListFits(u)'
  BY <1>6, <1>10, <1>12, ListStays DEF PagedInv
<1>14. TurnFits'
  <2>1. Len(paged'[current].pages) >= Len(paged[current].pages)
    BY <1>6 DEF PagedInv, PagedTypes, TurnFits
  <2> QED
    BY <1>1, <1>6, <1>9, <1>10, <1>11, <2>1, TurnStays DEF PagedInv
<1> QED
  BY <1>11, <1>13, <1>14 DEF PagedInv

LEMMA LoadedHolds ==
  ASSUME PagedInv, NEW v \in Views, Paged!Loaded(v)
  PROVE  PagedInv'
<1>1. PICK Q, T, P, W : /\ loading[v].pages = Q /\ loading[v].since = T
                        /\ paged[v].pages = P /\ loading[v].want = W
  OBVIOUS
<1>2. /\ Q \in Seq(Page) /\ T \subseteq Items /\ P \in Seq(Page) /\ W \in Nat
      /\ loading \in [Views -> PageLoad]
      /\ paged \in [Views -> [pages : Seq(Page), since : SUBSET Items]]
  BY <1>1 DEF PagedInv, PagedTypes, PageLoad
<1>3. /\ loading[v].mode # "none"
      /\ Len(Q) >= W \/ (Q # <<>> /\ Paged!Cursor(Q) = 0)
      /\ paged' = [paged EXCEPT ![v] = [pages |-> Q, since |-> T]]
      /\ loading' = [loading EXCEPT ![v] = Paged!NoLoad]
      /\ UNCHANGED <<visible, current, turn, turning>>
  BY <1>1, <1>2 DEF Paged!Loaded, Paged!More
<1>4. ListFits(v)
  BY DEF PagedInv
<1>5. PagesFit(v, Q, T) /\ Reaches(Q, P) /\ Len(P) <= W
  BY <1>1, <1>3, <1>4 DEF ListFits
<1>6. Len(Q) >= Len(P)
  <2>1. Len(Q) \in Nat /\ Len(P) \in Nat /\ DOMAIN Q = 1..Len(Q)
    BY <1>2
  <2>2. CASE Len(Q) >= W
    BY <1>2, <1>5, <2>1, <2>2
  <2>3. CASE Q # <<>> /\ Paged!Cursor(Q) = 0
    <3>1. Len(Q) \in 1..Len(Q) /\ Q[Len(Q)].next = 0
      BY <1>2, <2>1, <2>3 DEF Paged!Cursor
    <3> QED
      BY <2>1, <3>1, <1>5 DEF Reaches
  <2> QED
    BY <1>3, <2>2, <2>3
<1>7. /\ paged'[v].pages = Q /\ paged'[v].since = T /\ loading'[v] = Paged!NoLoad
      /\ \A u \in Views : u # v => paged'[u] = paged[u] /\ loading'[u] = loading[u]
  BY <1>2, <1>3
<1>8. PagedTypes'
  BY <1>2, <1>3, PageRecords DEF PagedInv, PagedTypes
<1>9. ListFits(v)'
  <2>1. /\ loading'[v].mode = "none"
        /\ loading'[v].pages = <<>> /\ loading'[v].since = {}
    BY <1>7 DEF Paged!NoLoad
  <2>2. PagesFit(v, <<>>, {})
    BY PageRecords
  <2>3. PICK Q2, T2 : Q2 = <<>> /\ T2 = {}
    OBVIOUS
  <2>4. PagesFit(v, Q2, T2)
    BY <2>2, <2>3
  <2> QED
    BY <1>3, <1>5, <1>7, <2>1, <2>3, <2>4, ListMoves
<1>10. \A u \in Views : ListFits(u)'
  BY <1>3, <1>7, <1>9, ListStays DEF PagedInv
<1>11. TurnFits'
  <2>1. current \in Views
    BY DEF PagedInv, TurnFits
  <2>2. Len(paged[current].pages) \in Nat
    BY <1>2, <2>1
  <2>3. Len(paged'[current].pages) >= Len(paged[current].pages)
    BY <1>1, <1>6, <1>7, <2>1, <2>2
  <2>4. \A u \in Views : loading[u].mode = "none" => loading'[u].mode = "none"
    BY <1>7 DEF Paged!NoLoad
  <2> QED
    BY <1>3, <1>8, <2>3, <2>4, TurnStays DEF PagedInv
<1> QED
  BY <1>8, <1>10, <1>11 DEF PagedInv

(* What is loading is begun again or given up; what is read stays.         *)
LEMMA LoadMoves ==
  ASSUME PagedInv, UNCHANGED <<visible, paged>>, loading' \in [Views -> PageLoad],
         \A v \in Views : loading'[v] # loading[v] =>
           /\ PagesFit(v, loading'[v].pages, loading'[v].since)
           /\ loading'[v].mode # "none" => /\ Len(paged[v].pages) <= loading'[v].want
                                           /\ loading'[v].want > 0
                                           /\ Reaches(loading'[v].pages, paged[v].pages)
  PROVE  PagedTypes' /\ \A v \in Views : ListFits(v)'
<1>1. PagedTypes'
  BY DEF PagedInv, PagedTypes
<1>2. ASSUME NEW v \in Views PROVE ListFits(v)'
  <2>1. CASE loading'[v] = loading[v]
    BY <2>1, ListStays DEF PagedInv
  <2>2. CASE loading'[v] # loading[v]
    <3>1. PICK P, S, Q, T : /\ paged[v].pages = P /\ paged[v].since = S
                            /\ loading'[v].pages = Q /\ loading'[v].since = T
      OBVIOUS
    <3>2. ListFits(v)
      BY DEF PagedInv
    <3>3. PagesFit(v, P, S)
      BY <3>1, <3>2 DEF ListFits
    <3>4. PagesFit(v, Q, T)
      BY <2>2, <3>1
    <3>5. loading'[v].mode # "none" =>
            Len(P) <= loading'[v].want /\ loading'[v].want > 0 /\ Reaches(Q, P)
      BY <2>2, <3>1
    <3> QED
      BY <3>1, <3>3, <3>4, <3>5, ListMoves
  <2> QED
    BY <2>1, <2>2
<1> QED
  BY <1>1, <1>2

LEMMA AllLoads ==
  ASSUME PagedTypes, NEW v \in Views
  PROVE  /\ Paged!All(v) \in PageLoad /\ Paged!All(v).mode = "all"
         /\ Paged!All(v).pages = <<>> /\ Paged!All(v).since = {}
         /\ Paged!All(v).want > 0 /\ Len(paged[v].pages) <= Paged!All(v).want
<1>1. PICK P : P = paged[v].pages
  OBVIOUS
<1>2. P \in Seq(Page)
  BY <1>1 DEF PagedTypes
<1>3. PICK W : W = IF P = <<>> THEN 1 ELSE Len(P)
  OBVIOUS
<1>4. W \in Nat /\ W > 0 /\ Len(P) <= W
  BY <1>2, <1>3
<1>5. Paged!All(v) = [Paged!NoLoad EXCEPT !.mode = "all", !.want = W]
  BY <1>1, <1>3 DEF Paged!All
<1>6. Paged!NoLoad \in PageLoad /\ Paged!NoLoad.pages = <<>> /\ Paged!NoLoad.since = {}
  BY PageRecords DEF Paged!NoLoad
<1> QED
  BY <1>1, <1>4, <1>5, <1>6 DEF PageLoad

LEMMA RefetchHolds ==
  ASSUME PagedInv, Paged!Refetch
  PROVE  PagedInv'
<1>1. /\ loading' = [loading EXCEPT ![current] = Paged!All(current)]
      /\ UNCHANGED <<visible, paged, current, turn, turning>>
  BY DEF Paged!Refetch
<1>2. current \in Views /\ loading \in [Views -> PageLoad] /\ PagedTypes
  BY DEF PagedInv, PagedTypes, TurnFits
<1>3. PICK v \in Views : v = current
  BY <1>2
<1>4. /\ Paged!All(v) \in PageLoad /\ Paged!All(v).mode = "all"
      /\ Paged!All(v).pages = <<>> /\ Paged!All(v).since = {}
      /\ Paged!All(v).want > 0 /\ Len(paged[v].pages) <= Paged!All(v).want
  BY <1>2, AllLoads
<1>5. /\ loading'[v] = Paged!All(v) /\ \A u \in Views : u # v => loading'[u] = loading[u]
      /\ loading' \in [Views -> PageLoad]
  BY <1>1, <1>2, <1>3, <1>4
<1>6. PagedTypes' /\ \A u \in Views : ListFits(u)'
  <2>1. PagesFit(v, <<>>, {}) /\ Reaches(<<>>, paged[v].pages)
    BY PageRecords DEF Reaches
  <2>2. /\ PagesFit(v, loading'[v].pages, loading'[v].since)
        /\ Len(paged[v].pages) <= loading'[v].want /\ loading'[v].want > 0
        /\ Reaches(loading'[v].pages, paged[v].pages)
    BY <1>4, <1>5, <2>1
  <2>3. PagedInv /\ UNCHANGED <<visible, paged>> /\ loading' \in [Views -> PageLoad]
    BY <1>1, <1>5
  <2> QED
    BY <1>5, <2>2, <2>3, LoadMoves
<1>7. TurnFits'
  <2>1. Len(paged'[current].pages) >= Len(paged[current].pages)
    BY <1>1, <1>2 DEF PagedTypes
  <2> QED
    BY <1>1, <1>2, <1>3, <1>5, <1>6, <2>1, TurnStays DEF PagedInv
<1> QED
  BY <1>6, <1>7 DEF PagedInv

LEMMA FailHolds ==
  ASSUME PagedInv, NEW v \in Views, Paged!LoadFails(v)
  PROVE  PagedInv'
<1>1. /\ loading' = [loading EXCEPT ![v] = Paged!NoLoad]
      /\ UNCHANGED <<visible, paged, current, turn, turning>>
  BY DEF Paged!LoadFails
<1>2. current \in Views /\ loading \in [Views -> PageLoad] /\ PagedTypes
  BY DEF PagedInv, PagedTypes, TurnFits
<1>3. /\ loading'[v] = Paged!NoLoad /\ \A u \in Views : u # v => loading'[u] = loading[u]
      /\ loading' \in [Views -> PageLoad]
  BY <1>1, <1>2, PageRecords
<1>4. PagedTypes' /\ \A u \in Views : ListFits(u)'
  BY <1>1, <1>3, PageRecords, LoadMoves DEF Paged!NoLoad
<1>5. TurnFits'
  <2>1. Len(paged'[current].pages) >= Len(paged[current].pages)
    BY <1>1, <1>2 DEF PagedTypes
  <2>2. \A u \in Views : loading[u].mode = "none" => loading'[u].mode = "none"
    BY <1>3 DEF Paged!NoLoad
  <2> QED
    BY <1>1, <1>4, <2>1, <2>2, TurnStays DEF PagedInv
<1> QED
  BY <1>4, <1>5 DEF PagedInv

LEMMA PageTyped ==
  ASSUME NEW p \in Page
  PROVE  /\ p.items \subseteq Items /\ p.next \in Items \cup {0} /\ p.next \in Nat
         /\ \A i \in p.items : i \in Nat
<1>1. p.items \subseteq Items /\ p.next \in Items \cup {0}
  BY DEF Page
<1> QED
  BY <1>1, Numbered

LEMMA LesserOfTwo ==
  ASSUME NEW m \in Nat, NEW n \in Nat, m <= n
  PROVE  Paged!Min({m, n}) = m
<1>1. m \in {m, n} /\ \A k \in {m, n} : m <= k
  OBVIOUS
<1>2. \A x \in {m, n} : (\A k \in {m, n} : x <= k) => x = m
  OBVIOUS
<1> QED
  BY <1>1, <1>2 DEF Paged!Min

LEMMA IndexIsTurn ==
  ASSUME PagedInv, paged[current].pages # <<>>
  PROVE  Paged!Index = turn /\ turn \in Nat /\ turn < Len(paged[current].pages)
<1>1. PICK P : P = paged[current].pages
  OBVIOUS
<1>2. P \in Seq(Page) /\ turn \in Nat /\ (turn # 0 => turn < Len(P))
  BY <1>1 DEF PagedInv, PagedTypes, TurnFits
<1>3. PICK L : L = Len(P) - 1
  OBVIOUS
<1>4. L \in Nat /\ turn <= L /\ turn < Len(P)
  BY <1>1, <1>2, <1>3
<1>5. PICK t : t = turn
  OBVIOUS
<1>6. Paged!Min({t, L}) = t
  BY <1>2, <1>4, <1>5, LesserOfTwo
<1>7. Paged!Index = Paged!Min({t, L})
  BY <1>1, <1>3, <1>5 DEF Paged!Index
<1> QED
  BY <1>1, <1>2, <1>4, <1>5, <1>6, <1>7

LEMMA SwitchHolds ==
  ASSUME PagedInv, NEW v \in Views, Paged!Switch(v)
  PROVE  PagedInv'
<1>1. /\ v # current /\ ~Paged!Returning /\ current' = v /\ turn' = 0
      /\ loading' = [loading EXCEPT ![current] = Paged!NoLoad, ![v] = Paged!All(v)]
      /\ UNCHANGED <<visible, paged, turning>>
  BY DEF Paged!Switch
<1>2. /\ current \in Views /\ loading \in [Views -> PageLoad] /\ PagedTypes
      /\ turning \in [of : Views \cup {Nothing}, at : Nat]
      /\ turning.of \notin {Nothing, current} => loading[turning.of].mode = "none"
  BY DEF PagedInv, PagedTypes, TurnFits
<1>3. PICK u \in Views : u = current
  BY <1>2
<1>4. /\ Paged!All(v) \in PageLoad /\ Paged!All(v).mode = "all"
      /\ Paged!All(v).pages = <<>> /\ Paged!All(v).since = {}
      /\ Paged!All(v).want > 0 /\ Len(paged[v].pages) <= Paged!All(v).want
  BY <1>2, AllLoads
<1>5. /\ loading'[v] = Paged!All(v) /\ loading'[u] = Paged!NoLoad
      /\ \A w \in Views : w # v /\ w # u => loading'[w] = loading[w]
      /\ loading' \in [Views -> PageLoad]
  BY <1>1, <1>2, <1>3, <1>4, PageRecords
<1>6. PagedTypes' /\ \A w \in Views : ListFits(w)'
  <2>1. /\ PagesFit(v, loading'[v].pages, loading'[v].since)
        /\ Len(paged[v].pages) <= loading'[v].want /\ loading'[v].want > 0
        /\ Reaches(loading'[v].pages, paged[v].pages)
    <3>1. PagesFit(v, <<>>, {}) /\ Reaches(<<>>, paged[v].pages)
      BY PageRecords DEF Reaches
    <3> QED
      BY <1>4, <1>5, <3>1
  <2>2. loading'[u].mode = "none" /\ PagesFit(u, loading'[u].pages, loading'[u].since)
    BY <1>5, PageRecords DEF Paged!NoLoad
  <2>3. \A w \in Views : loading'[w] # loading[w] => w = u \/ w = v
    BY <1>5
  <2>4. PagedInv /\ UNCHANGED <<visible, paged>> /\ loading' \in [Views -> PageLoad]
    BY <1>1, <1>5
  <2> QED
    BY <2>1, <2>2, <2>3, <2>4, LoadMoves
<1>7. turning.of = Nothing \/ turning.of = u
  BY <1>1, <1>2, <1>3 DEF Paged!Returning
<1>8. TurnFits'
  <2>1. turning'.of # current'
    BY <1>1, <1>3, <1>7, FrontsAssumption
  <2>2. turning'.of \notin {Nothing, current'} => loading'[turning'.of].mode = "none"
    BY <1>1, <1>5, <1>7 DEF Paged!NoLoad
  <2> QED
    BY <1>1, <1>2, <2>1, <2>2 DEF TurnFits
<1> QED
  BY <1>6, <1>8 DEF PagedInv

LEMMA PreviousHolds ==
  ASSUME PagedInv, Paged!Previous
  PROVE  PagedInv'
<1>1. /\ loading[current].mode = "none" /\ paged[current].pages # <<>> /\ ~Paged!Returning
      /\ Paged!Index > 0 /\ turn' = Paged!Index - 1
      /\ UNCHANGED <<visible, paged, loading, current, turning>>
  BY DEF Paged!Previous, Paged!Ready
<1>2. Paged!Index = turn /\ turn \in Nat /\ turn < Len(paged[current].pages)
  BY <1>1, IndexIsTurn
<1>3. PagedTypes' /\ (\A v \in Views : ListFits(v)') /\ loading' \in [Views -> PageLoad]
  BY <1>1, ListStays DEF PagedInv, PagedTypes
<1>4. Len(paged[current].pages) \in Nat /\ TurnFits
  BY DEF PagedInv, PagedTypes, TurnFits
<1>5. turning.of # current
  BY <1>1, <1>4, FrontsAssumption DEF Paged!Returning, TurnFits
<1>6. TurnFits'
  BY <1>1, <1>2, <1>4, <1>5 DEF TurnFits
<1> QED
  BY <1>3, <1>6 DEF PagedInv

LEMMA NextPageHolds ==
  ASSUME PagedInv, Paged!NextPage
  PROVE  PagedInv'
<1>1. PICK v, P, S : v = current /\ P = paged[current].pages /\ S = paged[current].since
  OBVIOUS
<1>2. /\ v \in Views /\ P \in Seq(Page) /\ S \subseteq Items
      /\ loading \in [Views -> PageLoad] /\ TurnFits
  BY <1>1 DEF PagedInv, PagedTypes, TurnFits
<1>3. /\ loading[v].mode = "none" /\ P # <<>> /\ turning.of = Nothing
      /\ UNCHANGED <<visible, paged, current>>
  BY <1>1 DEF Paged!NextPage, Paged!Ready
<1>4. Paged!Index = turn /\ turn \in Nat /\ turn < Len(P)
  BY <1>1, <1>3, IndexIsTurn
<1>5. Len(P) \in Nat \ {0}
  BY <1>2, <1>3
<1>6. CASE turn < Len(P) - 1
  <2>1. turn' = turn + 1 /\ UNCHANGED <<loading, turning>>
    BY <1>1, <1>4, <1>6 DEF Paged!NextPage
  <2>2. PagedTypes' /\ \A u \in Views : ListFits(u)'
    BY <1>3, <2>1, ListStays DEF PagedInv, PagedTypes
  <2>3. TurnFits'
    BY <1>1, <1>2, <1>3, <1>4, <1>5, <1>6, <2>1, FrontsAssumption DEF TurnFits
  <2> QED
    BY <2>2, <2>3 DEF PagedInv
<1>7. CASE ~(turn < Len(P) - 1)
  <2> DEFINE load == [mode |-> "next", pages |-> P, since |-> S, want |-> Len(P) + 1]
  <2>1. /\ loading' = [loading EXCEPT ![v] = load] /\ UNCHANGED turn
        /\ turning' = [of |-> v, at |-> turn]
    BY <1>1, <1>4, <1>7 DEF Paged!NextPage
  <2>2. load \in PageLoad
    BY <1>2, <1>5 DEF PageLoad
  <2>3. ListFits(v)
    BY <1>2 DEF PagedInv
  <2>4. PagesFit(v, P, S) /\ Reaches(P, P)
    <3>1. PagesFit(v, P, S)
      BY <1>1, <2>3 DEF ListFits
    <3>2. \A k \in DOMAIN P : k < Len(P) => P[k].next # 0
      BY <3>1 DEF PagesFit
    <3>3. \A k \in DOMAIN P : P[k].next \in Nat
      <4>1. \A k \in DOMAIN P : P[k] \in Page
        BY <1>2
      <4> QED
        BY <4>1, PageTyped
    <3> QED
      BY <3>1, <3>2, <3>3 DEF Reaches
  <2>5. /\ loading'[v] = load /\ \A u \in Views : u # v => loading'[u] = loading[u]
        /\ loading' \in [Views -> PageLoad]
    <3> HIDE DEF load
    <3> QED
      BY <1>2, <2>1, <2>2
  <2>6. /\ PagesFit(v, loading'[v].pages, loading'[v].since)
        /\ Len(paged[v].pages) <= loading'[v].want /\ loading'[v].want > 0
        /\ Reaches(loading'[v].pages, paged[v].pages)
    BY <1>1, <1>5, <2>4, <2>5
  <2>7. PagedTypes' /\ \A u \in Views : ListFits(u)'
    <3>1. PagedInv /\ UNCHANGED <<visible, paged>>
      BY <1>3
    <3> HIDE DEF load
    <3> QED
      BY <2>5, <2>6, <3>1, LoadMoves
  <2>8. TurnFits'
    BY <1>1, <1>2, <1>3, <1>4, <2>1 DEF TurnFits
  <2> QED
    BY <2>7, <2>8 DEF PagedInv
<1> QED
  BY <1>6, <1>7

LEMMA ReturnHolds ==
  ASSUME PagedInv, Paged!NextReturns
  PROVE  PagedInv' /\ (turn' # turn => turning.of = current /\ turn' = turn + 1)
<1>1. /\ Paged!Returning
      /\ turn' = IF turning.of = current /\ Len(paged[current].pages) > turning.at + 1
                 THEN turning.at + 1 ELSE turn
      /\ turning' = [of |-> Nothing, at |-> 0]
      /\ UNCHANGED <<visible, paged, loading, current>>
  BY DEF Paged!NextReturns, Paged!StillCurrent
<1>2. PagedTypes' /\ \A v \in Views : ListFits(v)'
  BY <1>1, ListStays DEF PagedInv, PagedTypes
<1>3. Len(paged[current].pages) \in Nat /\ TurnFits
  BY DEF PagedInv, PagedTypes, TurnFits
<1>4. turn' # turn => turning.of = current /\ turn' = turn + 1
  BY <1>1, <1>3 DEF TurnFits
<1>5. turn' # 0 => turn' < Len(paged[current].pages)
  BY <1>1, <1>3 DEF TurnFits
<1>6. TurnFits'
  BY <1>1, <1>3, <1>4, <1>5, FrontsAssumption DEF TurnFits
<1> QED
  BY <1>2, <1>4, <1>6 DEF PagedInv

LEMMA PagedNext == PagedInv /\ [Paged!Next]_(Paged!pagedVars) => PagedInv'
<1> SUFFICES ASSUME PagedInv, [Paged!Next]_(Paged!pagedVars) PROVE PagedInv'
  OBVIOUS
<1>1. CASE UNCHANGED Paged!pagedVars
  <2>1. UNCHANGED <<visible, paged, loading, current, turn, turning>>
    BY <1>1 DEF Paged!pagedVars
  <2>2. PagedTypes' /\ TurnFits'
    BY <2>1 DEF PagedInv, PagedTypes, TurnFits
  <2>3. \A v \in Views : ListFits(v)'
    BY <2>1, ListStays DEF PagedInv
  <2> QED
    BY <2>2, <2>3 DEF PagedInv
<1>2. ASSUME NEW i \in Items, Paged!Commit(i) PROVE PagedInv'
  BY <1>2, CommitHolds
<1>3. ASSUME NEW v \in Views,
             Paged!ReadPage(v) \/ Paged!Loaded(v) \/ Paged!LoadFails(v) \/ Paged!Switch(v)
      PROVE  PagedInv'
  BY <1>3, PageHolds, LoadedHolds, FailHolds, SwitchHolds
<1>4. ASSUME Paged!Refetch \/ Paged!Previous \/ Paged!NextPage \/ Paged!NextReturns
      PROVE  PagedInv'
  BY <1>4, RefetchHolds, PreviousHolds, NextPageHolds, ReturnHolds
<1> QED
  BY <1>1, <1>2, <1>3, <1>4 DEF Paged!Next

LEMMA PagedKept == FrontsSpec => []PagedInv
<1>1. Paged!Spec => []PagedInv
  BY PagedStart, PagedNext, PTL DEF Paged!Spec
<1> QED
  BY <1>1, PagedAlone, PTL

LEMMA InOrder == PagedInv => Paged!RowsInOrder
<1> SUFFICES ASSUME PagedInv, NEW v \in Views
             PROVE  LET pages == paged[v].pages IN
                    /\ \A m, n \in DOMAIN pages : m < n =>
                         \A i \in pages[m].items, j \in pages[n].items : i > j
                    /\ \A i \in paged[v].since, m \in DOMAIN pages : \A j \in pages[m].items :
                         i >= j => \E n \in DOMAIN pages : i \in pages[n].items
  BY DEF Paged!RowsInOrder
<1>1. PICK P, S : P = paged[v].pages /\ S = paged[v].since
  OBVIOUS
<1>2. P \in Seq(Page) /\ S \subseteq Items
  BY <1>1 DEF PagedInv, PagedTypes
<1>3. ListFits(v)
  BY DEF PagedInv
<1>4. PagesFit(v, P, S)
  BY <1>1, <1>3 DEF ListFits
<1>5. Len(P) \in Nat /\ DOMAIN P = 1..Len(P)
  BY <1>2
<1>6. ASSUME NEW m \in DOMAIN P, NEW i \in P[m].items
      PROVE  i \in Nat /\ P[m].next \in Nat /\ (P[m].next # 0 => P[m].next <= i)
  <2>1. P[m] \in Page
    BY <1>2, <1>5, <1>6
  <2>2. PageFits(v, P[m])
    BY <1>4, <1>6 DEF PagesFit
  <2> QED
    BY <1>6, <2>1, <2>2, PageTyped DEF PageFits
<1>7. ASSUME NEW m \in DOMAIN P, NEW n \in DOMAIN P, m < n,
             NEW i \in P[m].items, NEW j \in P[n].items
      PROVE  i > j
  <2>1. P[m].next # 0
    BY <1>4, <1>5, <1>7 DEF PagesFit
  <2>2. j < P[m].next
    BY <1>4, <1>7 DEF PagesFit
  <2> QED
    BY <1>6, <2>1, <2>2
<1>8. ASSUME NEW i \in S, NEW m \in DOMAIN P, NEW j \in P[m].items, i >= j
      PROVE  \E n \in DOMAIN P : i \in P[n].items
  <2>1. (\E n \in DOMAIN P : i \in P[n].items) \/ i < P[Len(P)].next
    BY <1>4, <1>5 DEF PagesFit
  <2>2. ASSUME i < P[Len(P)].next PROVE FALSE
    <3>1. Len(P) \in DOMAIN P /\ P[Len(P)].next \in Nat
      <4>1. Len(P) \in DOMAIN P
        BY <1>5, <1>8
      <4>2. P[Len(P)] \in Page
        BY <1>2, <1>5, <4>1
      <4> QED
        BY <4>1, <4>2, PageTyped
    <3>2. i \in Nat /\ j \in Nat /\ P[Len(P)].next # 0
      BY <1>2, <1>6, <2>2, <3>1, Numbered
    <3>3. P[Len(P)].next <= j
      <4>1. CASE m = Len(P)
        BY <1>6, <3>2, <4>1
      <4>2. CASE m < Len(P)
        <5>1. P[Len(P)].next \in P[Len(P)].items
          BY <1>4, <3>1, <3>2 DEF PagesFit, PageFits
        <5> QED
          BY <1>7, <3>1, <3>2, <4>2, <5>1
      <4> QED
        BY <1>5, <4>1, <4>2
    <3> QED
      BY <1>8, <2>2, <3>1, <3>2, <3>3
  <2> QED
    BY <2>1, <2>2
<1> QED
  BY <1>1, <1>7, <1>8

(* However rows are committed, pages read, refused and read again, no list *)
(* shows a row twice or skips one that was there when its first page was   *)
(* read; and a turn of the page is one the reader asked for.               *)
THEOREM PagesReadWell == FrontsSpec => PagesRead
<1> DEFINE Step == Paged!NextReturns /\ turn' # turn => turning.of = current /\ turn' = turn + 1
<1>1. PagedInv => Step
  BY ReturnHolds
<1>2. [][Paged!Next]_(Paged!pagedVars) /\ []PagedInv => [][Step]_(Paged!pagedVars)
  BY <1>1, PTL
<1> HIDE DEF Step
<1>3. FrontsSpec => [][Step]_(Paged!pagedVars)
  BY <1>2, PagedAlone, PagedKept, PTL DEF Paged!Spec
<1>4. FrontsSpec => []Paged!RowsInOrder
  BY InOrder, PagedKept, PTL
<1> QED
  BY <1>3, <1>4 DEF Step, PagesRead, Paged!PagesRead, Paged!PageTurns

-----------------------------------------------------------------------------
\* The types of all windows

LEMMA ListsTyped == FrontsSpec => []Paged!TypeOK
<1>1. PagedInv => Paged!TypeOK
  BY DEF PagedInv, PagedTypes, TurnFits, Page, PageLoad, Paged!TypeOK, Paged!Pages
<1> QED
  BY <1>1, PagedKept, PTL

LEMMA SkillsTyped == FrontsSpec => []Skill!TypeOK
<1>1. Skill!Spec => [](SkillInv /\ VersionInv)
  BY WorkspaceStart, WorkspaceNext, VersionInit, VersionNext, PTL DEF Skill!Spec
<1> QED
  BY <1>1, SkillAlone, SkillTyped, PTL

LEMMA ToolsTyped == FrontsSpec => []Tool!TypeOK
<1>1. ToolInv => Tool!TypeOK
  BY DEF ToolInv
<1> QED
  BY <1>1, ToolKept, PTL

LEMMA CreditsTyped == FrontsSpec => []Credit!TypeOK
<1>1. CreditInv => Credit!TypeOK
  BY DEF CreditInv, CreditTypes, FormRecord, RequestRecord, PostingRecord, WishRecord,
         Credit!TypeOK
<1> QED
  BY <1>1, CreditKept, PTL

LEMMA SecretsTyped == FrontsSpec => []Secret!TypeOK
<1>1. SecretInv => Secret!TypeOK
  BY SecretTyped DEF SecretInv
<1> QED
  BY <1>1, SecretAlone, SecretStart, SecretHolds, PTL DEF Secret!Spec

LEMMA DesksTyped == FrontsSpec => []Desk!TypeOK
  BY DeskAlone, DeskStart, DeskHolds, DeskTyped, PTL DEF Desk!Spec

LEMMA UpdatesTyped == FrontsSpec => []Update!TypeOK
<1>1. UpdateInv => Update!TypeOK
  BY DEF UpdateInv, Phases, UpdateCall, Update!TypeOK
<1> QED
  BY <1>1, UpdateAlone, UpdateInit, UpdateNext, PTL DEF Update!Spec

LEMMA ServicesTyped == FrontsSpec => []Dev!TypeOK
<1>1. Dev!Init => kills \in 0..MaxKills
  BY BoundsAssumption DEF Dev!Init
<1>2. kills \in 0..MaxKills /\ [Dev!Next]_(Dev!devVars) => (kills \in 0..MaxKills)'
  <2> SUFFICES ASSUME kills \in 0..MaxKills, [Dev!Next]_(Dev!devVars)
               PROVE  (kills \in 0..MaxKills)'
    OBVIOUS
  <2>1. ASSUME NEW s \in Supervisors, Dev!Kill(s) PROVE kills' \in 0..MaxKills
    BY <2>1, BoundsAssumption DEF Dev!Kill
  <2>2. UNCHANGED kills \/ \E s \in Supervisors : Dev!Kill(s)
    BY DEF Dev!devVars, Dev!Next, Dev!Up, Dev!Listen, Dev!CheckPorts, Dev!Spawn,
           Dev!AskHealth, Dev!HealthAnswered, Dev!Fails, Dev!Exits, Dev!Stopped,
           Dev!AskStop, Dev!DownAnswered, Dev!ChildExits, Dev!ChildClosed, Dev!RemoveSocket
  <2> QED
    BY <2>1, <2>2
<1>3. DevInv /\ kills \in 0..MaxKills => Dev!TypeOK
  BY DEF DevInv, DevTypes, DevSteps, Dev!TypeOK
<1>4. Dev!Spec => [](kills \in 0..MaxKills)
  BY <1>1, <1>2, PTL DEF Dev!Spec
<1> QED
  BY <1>3, <1>4, DevAlone, DevKept, PTL

(* What a tab has cached was asked since its cache was last given up, and  *)
(* is its user's, unless the cookies change hands behind the account that  *)
(* is shown; and no window leaves the types of its state.                  *)
THEOREM CacheIsOwn == FrontsSpec => []OwnData
<1>1. FrontsSpec => []Types
  <2>1. /\ Paged!TypeOK /\ Skill!TypeOK /\ Tool!TypeOK /\ Credit!TypeOK /\ Secret!TypeOK
        /\ Desk!TypeOK /\ Update!TypeOK /\ Dev!TypeOK
        => Types
    BY DEF Types
  <2> QED
    BY <2>1, ListsTyped, SkillsTyped, ToolsTyped, CreditsTyped, SecretsTyped, DesksTyped,
       UpdatesTyped, ServicesTyped, PTL
<1>2. Session!OwnData /\ Types => OwnData
  BY DEF OwnData
<1> QED
  BY <1>1, <1>2, OwnCache, PTL
=============================================================================
