------------------------------ MODULE Catalog ------------------------------
(***************************************************************************)
(* The tool catalog of the replicas: Gateway.tools, observeCatalogRevision *)
(* and remoteTools of internal/gateway, the revision trigger on tools, the *)
(* metadata overrides, and the Redis client of internal/cache.             *)
(*                                                                         *)
(* A version stands for the content of a row: row[t] is the revision whose *)
(* commit last wrote the tool (its price, its configuration, whether it is *)
(* enabled), override[t] the number of the last edit of its metadata.  The *)
(* definitions an upstream lists are named by the row whose configuration  *)
(* they were listed with.                                                  *)
(***************************************************************************)
EXTENDS Integers, Sequences, FiniteSets

CONSTANTS
  Replicas,     \* server processes, each with one Gateway
  Tools,        \* rows of the tools table
  Remote,       \* those whose definitions come from an upstream
  Pages,        \* the rows each query of a discovery returns, in order
  Requests,     \* calls of Gateway.tools
  Home,         \* the replica a request is routed to
  Admins,       \* the replicas administrators are routed to
  Redis,        \* is a Redis configured?
  MaxWrites,    \* bound: commits that write a tool
  MaxEdits,     \* bound: commits that write the overrides of a tool
  MaxExpiries   \* bound: times a local catalog reaches its TTL

ASSUME CatalogAssumption ==
  /\ Remote \subseteq Tools
  /\ Pages \in Seq(SUBSET Tools)
  /\ UNION {Pages[i] : i \in 1..Len(Pages)} = Tools
  /\ Home \in [Requests -> Replicas] /\ Admins \subseteq Replicas
  /\ Redis \in BOOLEAN
  /\ MaxWrites \in Nat /\ MaxEdits \in Nat /\ MaxExpiries \in Nat

VARIABLES
  revision, row,       \* tool_catalog_revision and tools
  override,            \* tool_metadata_overrides
  redis,               \* cached definitions: records of a key and definitions
  memory,              \* per replica: what Gateway.mu protects
  flight,              \* per replica: the singleflight call "catalog"
  request,             \* per request: its progress and its answer
  admin,               \* per replica: a handler that changes a tool
  inbox,               \* per replica: invalidations published to it
  expiries,            \* local catalogs expired so far
  acknowledged         \* history: overrides whose edit this replica answered

vars == <<revision, row, override, redis, memory, flight, request, admin,
          inbox, expiries, acknowledged>>
database == <<revision, row, override>>

Absent == 0            \* no definitions: the upstream could not be listed
Unread == -1           \* overrides that could not be read or do not apply

(* One tool of a catalog: the row it was read from, the definitions bound  *)
(* to it, and the overrides applied to them.                               *)
Binding == [row : Nat, defs : Nat, override : Nat \cup {Unread}]
NoCatalog == [t \in Tools |-> [row |-> 0, defs |-> Absent, override |-> Unread]]

Stages == {"unread", "get", "list", "set", "override", "done"}
Idle == [pc |-> "idle", page |-> 0, version |-> 0, revision |-> 0,
         catalog |-> NoCatalog, stage |-> [t \in Tools |-> "unread"]]
NoEdit == [pc |-> "idle", tool |-> "none", override |-> 0]

Init ==
  /\ revision = 1 /\ row = [t \in Tools |-> 1]
  /\ override = [t \in Tools |-> 0]
  /\ redis = {}
  /\ memory = [r \in Replicas |->
       [catalog |-> NoCatalog, fresh |-> FALSE, version |-> 0, revision |-> 0]]
  /\ flight = [r \in Replicas |-> Idle]
  /\ request = [q \in Requests |->
       [pc |-> "new", seen |-> 0, catalog |-> NoCatalog, rows |-> row,
        edits |-> [r \in Replicas |-> override]]]
  /\ admin = [r \in Replicas |-> NoEdit]
  /\ inbox = [r \in Replicas |-> 0]
  /\ expiries = 0
  /\ acknowledged = [r \in Replicas |-> override]

----------------------------------------------------------------------------
(* Writes.  A tool's commit advances the revision by the table's trigger,  *)
(* in the same transaction; an override's commit does not.  Both handlers  *)
(* then invalidate their own replica and publish to the others.            *)

Advanced(v) == v + 1

SaveTool(r, t) ==
  /\ admin[r].pc = "idle" /\ revision <= MaxWrites
  /\ revision' = Advanced(revision)
  /\ row' = [row EXCEPT ![t] = revision + 1]
  /\ admin' = [admin EXCEPT ![r] = [pc |-> "committed", tool |-> "none", override |-> 0]]
  /\ UNCHANGED <<override, redis, memory, flight, request, inbox, expiries, acknowledged>>

SaveMetadata(r, t) ==
  /\ admin[r].pc = "idle" /\ t \in Remote /\ override[t] < MaxEdits
  /\ override' = [override EXCEPT ![t] = @ + 1]
  /\ admin' = [admin EXCEPT ![r] = [pc |-> "committed", tool |-> t, override |-> override'[t]]]
  /\ UNCHANGED <<revision, row, redis, memory, flight, request, inbox, expiries, acknowledged>>

(* invalidateLocal: the catalog is no longer used, and a flight under way  *)
(* may not publish.                                                        *)
Unversioned(m) == [m EXCEPT !.fresh = FALSE]                   \* mutant
Dropped(m) == [m EXCEPT !.fresh = FALSE, !.version = @ + 1]

InvalidateLocal(r) ==
  /\ admin[r].pc = "committed"
  /\ memory' = [memory EXCEPT ![r] = Dropped(@)]
  /\ admin' = [admin EXCEPT ![r].pc = "publish"]
  /\ UNCHANGED <<database, redis, flight, request, inbox, expiries, acknowledged>>

(* PublishInvalidation reaches the replicas that are subscribed at the     *)
(* moment, or none; its error is ignored and the handler answers.          *)
Publish(r) ==
  /\ admin[r].pc = "publish"
  /\ \E reached \in SUBSET (Replicas \ {r}) :
       /\ ~Redis => reached = {}
       /\ inbox' = [p \in Replicas |-> inbox[p] + (IF p \in reached THEN 1 ELSE 0)]
  /\ admin' = [admin EXCEPT ![r] = NoEdit]
  /\ acknowledged' = IF admin[r].tool = "none" THEN acknowledged
                     ELSE [acknowledged EXCEPT ![r][admin[r].tool] = admin[r].override]
  /\ UNCHANGED <<database, redis, memory, flight, request, expiries>>

Watch(r) ==
  /\ inbox[r] > 0
  /\ inbox' = [inbox EXCEPT ![r] = @ - 1]
  /\ memory' = [memory EXCEPT ![r] = Dropped(@)]
  /\ UNCHANGED <<database, redis, flight, request, admin, expiries, acknowledged>>

Expire(r) ==
  /\ memory[r].fresh /\ expiries < MaxExpiries
  /\ memory' = [memory EXCEPT ![r].fresh = FALSE]
  /\ expiries' = expiries + 1
  /\ UNCHANGED <<database, redis, flight, request, admin, inbox, acknowledged>>

ExpireShared(e) ==
  /\ e \in redis
  /\ redis' = redis \ {e}
  /\ UNCHANGED <<database, memory, flight, request, admin, inbox, expiries, acknowledged>>

----------------------------------------------------------------------------
(* A request: read the revision, apply it to the replica, then use a fresh *)
(* catalog or wait for the shared flight and look again.                   *)

Begin(q) ==
  /\ request[q].pc = "new"
  /\ request' = [request EXCEPT ![q].pc = "read", ![q].rows = row,
                                ![q].edits = acknowledged]
  /\ UNCHANGED <<database, redis, memory, flight, admin, inbox, expiries, acknowledged>>

ReadRevision(q) ==
  /\ request[q].pc = "read"
  /\ request' = [request EXCEPT ![q].pc = "observe", ![q].seen = revision]
  /\ UNCHANGED <<database, redis, memory, flight, admin, inbox, expiries, acknowledged>>

ObservedOnly(m, seen) == [m EXCEPT !.revision = seen]          \* mutant
Observed(m, seen) ==
  IF seen > m.revision THEN [Dropped(m) EXCEPT !.revision = seen] ELSE m

Observe(q) ==
  /\ request[q].pc = "observe"
  /\ memory' = [memory EXCEPT ![Home[q]] = Observed(@, request[q].seen)]
  /\ request' = [request EXCEPT ![q].pc = "look", ![q].seen = 0]
  /\ UNCHANGED <<database, redis, flight, admin, inbox, expiries, acknowledged>>

Look(q) ==
  LET m == memory[Home[q]] IN
  /\ request[q].pc = "look"
  /\ \/ /\ m.fresh
        /\ request' = [request EXCEPT ![q].pc = "answered", ![q].catalog = m.catalog]
     \/ /\ ~m.fresh
        /\ request' = [request EXCEPT ![q].pc = "join"]
  /\ UNCHANGED <<database, redis, memory, flight, admin, inbox, expiries, acknowledged>>

(* DoChan: the first caller starts the flight, the others join it.         *)
Join(q) ==
  /\ request[q].pc = "join"
  /\ request' = [request EXCEPT ![q].pc = "wait"]
  /\ flight' = IF flight[Home[q]].pc = "idle"
               THEN [flight EXCEPT ![Home[q]].pc = "start"] ELSE flight
  /\ UNCHANGED <<database, redis, memory, admin, inbox, expiries, acknowledged>>

(* The caller's context ends, or its revision cannot be read.              *)
Leave(q) ==
  /\ request[q].pc \in {"read", "look", "wait"}
  /\ request' = [request EXCEPT ![q].pc = "failed"]
  /\ UNCHANGED <<database, redis, memory, flight, admin, inbox, expiries, acknowledged>>

----------------------------------------------------------------------------
(* The flight, one per replica at a time.                                  *)

Waiting(r) == {q \in Requests : Home[q] = r /\ request[q].pc = "wait"}

(* The flight returns: every caller waiting for it resumes, to look again  *)
(* or with the flight's error.                                             *)
Finish(r, pc) ==
  /\ flight' = [flight EXCEPT ![r] = Idle]
  /\ request' = [q \in Requests |->
       IF q \in Waiting(r) THEN [request[q] EXCEPT !.pc = pc] ELSE request[q]]

SnapshotVersion(m) == m.version

Start(r) ==
  LET m == memory[r] IN
  /\ flight[r].pc = "start"
  /\ \/ /\ m.fresh
        /\ Finish(r, "look")
     \/ /\ ~m.fresh
        /\ flight' = [flight EXCEPT ![r] =
             [Idle EXCEPT !.pc = "discover", !.version = SnapshotVersion(m),
                          !.revision = m.revision]]
        /\ UNCHANGED request
  /\ UNCHANGED <<database, redis, memory, admin, inbox, expiries, acknowledged>>

PageDone(f) == \A t \in Tools : f.stage[t] \in {"unread", "done"}

(* One query: the rows of the next page as they are now.  A builtin needs  *)
(* no discovery.                                                           *)
FirstStage(t) == IF t \notin Remote THEN "done" ELSE IF Redis THEN "get" ELSE "list"

ReadPage(r) ==
  LET f == flight[r]
      page == Pages[f.page + 1] IN
  /\ f.pc = "discover" /\ PageDone(f) /\ f.page < Len(Pages)
  /\ flight' = [flight EXCEPT ![r].page = @ + 1,
       ![r].stage = [t \in Tools |-> IF t \in page THEN FirstStage(t) ELSE f.stage[t]],
       ![r].catalog = [t \in Tools |->
          IF t \in page
          THEN [row |-> row[t], defs |-> IF t \in Remote THEN Absent ELSE row[t],
                override |-> Unread]
          ELSE f.catalog[t]]]
  /\ UNCHANGED <<database, redis, memory, request, admin, inbox, expiries, acknowledged>>

(* remoteTools of a worker.  The key holds the revision the flight started *)
(* with and the configuration of the row it read.                          *)
KeyByRevision(rev, t, config) ==                               \* mutant
  [revision |-> rev, tool |-> t, config |-> 0]
Key(rev, t, config) == [revision |-> rev, tool |-> t, config |-> config]
KeyOf(r, t) == Key(flight[r].revision, t, flight[r].catalog[t].row)

GetShared(r, t) ==
  /\ flight[r].stage[t] = "get"
  /\ \/ \E e \in redis :
          /\ e.key = KeyOf(r, t)
          /\ flight' = [flight EXCEPT ![r].stage[t] = "override",
                                      ![r].catalog[t].defs = e.defs]
     \/ flight' = [flight EXCEPT ![r].stage[t] = "list"]   \* missing, or Redis is down
  /\ UNCHANGED <<database, redis, memory, request, admin, inbox, expiries, acknowledged>>

ListUpstream(r, t) ==
  /\ flight[r].stage[t] = "list"
  /\ \/ flight' = [flight EXCEPT
          ![r].catalog[t].defs = flight[r].catalog[t].row,
          ![r].stage[t] = IF Redis THEN "set" ELSE "override"]
     \/ flight' = [flight EXCEPT ![r].stage[t] = "done"]   \* no answer within 2s
  /\ UNCHANGED <<database, redis, memory, request, admin, inbox, expiries, acknowledged>>

SetShared(r, t) ==
  /\ flight[r].stage[t] = "set"
  /\ \/ redis' = {e \in redis : e.key # KeyOf(r, t)}
                   \cup {[key |-> KeyOf(r, t), defs |-> flight[r].catalog[t].defs]}
     \/ UNCHANGED redis                                    \* Redis is down
  /\ flight' = [flight EXCEPT ![r].stage[t] = "override"]
  /\ UNCHANGED <<database, memory, request, admin, inbox, expiries, acknowledged>>

ApplyOverrides(r, t) ==
  /\ flight[r].stage[t] = "override"
  /\ \E read \in {override[t], Unread} :
       flight' = [flight EXCEPT ![r].stage[t] = "done", ![r].catalog[t].override = read]
  /\ UNCHANGED <<database, redis, memory, request, admin, inbox, expiries, acknowledged>>

(* A query fails or the flight's five seconds are over.                    *)
FailFlight(r) ==
  /\ flight[r].pc = "discover"
  /\ Finish(r, "failed")
  /\ UNCHANGED <<database, redis, memory, admin, inbox, expiries, acknowledged>>

Current(r) == flight[r].version = memory[r].version

(* The version decides whether the catalog is published; the sessions it   *)
(* retires are closed before the flight returns.                           *)
PublishCatalog(r) ==
  /\ flight[r].pc = "discover" /\ PageDone(flight[r]) /\ flight[r].page = Len(Pages)
  /\ memory' = IF Current(r)
               THEN [memory EXCEPT ![r].catalog = flight[r].catalog, ![r].fresh = TRUE]
               ELSE memory
  /\ flight' = [flight EXCEPT ![r] = [Idle EXCEPT !.pc = "retire"]]
  /\ UNCHANGED <<database, redis, request, admin, inbox, expiries, acknowledged>>

EndFlight(r) ==
  /\ flight[r].pc = "retire"
  /\ Finish(r, "look")
  /\ UNCHANGED <<database, redis, memory, admin, inbox, expiries, acknowledged>>

----------------------------------------------------------------------------
Worker(r, t) ==
  GetShared(r, t) \/ ListUpstream(r, t) \/ SetShared(r, t) \/ ApplyOverrides(r, t)
FlightStep(r) ==
  Start(r) \/ ReadPage(r) \/ PublishCatalog(r) \/ EndFlight(r)
    \/ \E t \in Tools : Worker(r, t)
RequestStep(q) ==
  Begin(q) \/ ReadRevision(q) \/ Observe(q) \/ Look(q) \/ Join(q)
AdminStep(r) == InvalidateLocal(r) \/ Publish(r)

Next ==
  \/ \E q \in Requests : RequestStep(q) \/ Leave(q)
  \/ \E r \in Replicas : FlightStep(r) \/ FailFlight(r) \/ AdminStep(r) \/ Watch(r) \/ Expire(r)
  \/ \E r \in Admins, t \in Tools : SaveTool(r, t) \/ SaveMetadata(r, t)
  \/ \E e \in redis : ExpireShared(e)

Spec == Init /\ [][Next]_vars

----------------------------------------------------------------------------
TypeOK ==
  /\ revision \in Nat /\ row \in [Tools -> 1..revision] /\ override \in [Tools -> Nat]
  /\ \A e \in redis : e.defs \in Nat
  /\ memory \in [Replicas -> [catalog : [Tools -> Binding], fresh : BOOLEAN,
                              version : Nat, revision : Nat]]
  /\ flight \in [Replicas -> [pc : {"idle", "start", "discover", "retire"},
                              page : 0..Len(Pages), version : Nat, revision : Nat,
                              catalog : [Tools -> Binding], stage : [Tools -> Stages]]]
  /\ request \in [Requests ->
       [pc : {"new", "read", "observe", "look", "join", "wait", "answered", "failed"},
        seen : Nat, catalog : [Tools -> Binding], rows : [Tools -> Nat],
        edits : [Replicas -> [Tools -> Nat]]]]
  /\ admin \in [Replicas -> [pc : {"idle", "committed", "publish"},
                             tool : Tools \cup {"none"}, override : Nat]]
  /\ inbox \in [Replicas -> Nat] /\ expiries \in Nat
  /\ acknowledged \in [Replicas -> [Tools -> Nat]]

(* Safety.  A request never gets a row older than the one committed when   *)
(* it began, on whatever replica the commit was made and whichever flight  *)
(* it joined (gateway.go, tools; catalog_revision_test.go).                *)
FreshRows ==
  \A q \in Requests, t \in Tools :
    request[q].pc = "answered" => request[q].catalog[t].row >= request[q].rows[t]

(* Safety.  A catalog in use holds every row up to the revision its        *)
(* replica has observed, which is why no request gets an old row.          *)
CatalogCurrent ==
  TypeOK /\ FreshRows /\
  \A r \in Replicas, t \in Tools :
    memory[r].fresh /\ row[t] <= memory[r].revision => memory[r].catalog[t].row = row[t]

(* Safety.  The definitions offered with a row were listed with that row's *)
(* configuration, also when another replica cached them while the row      *)
(* changed (metadata_cache.go, remoteTools).                               *)
DefinitionsMatchRow ==
  \A q \in Requests, t \in Tools :
    LET b == request[q].catalog[t] IN
    request[q].pc = "answered" => b.defs \in {Absent, b.row}

(* Safety.  After a replica has answered an edit of a tool's metadata, a   *)
(* request that begins there sees the edit, unless reading the overrides   *)
(* fails (marketplace.go, saveMetadata; gateway.go, Invalidate).           *)
OwnEditsSeen ==
  \A q \in Requests, t \in Tools :
    LET b == request[q].catalog[t] IN
    request[q].pc = "answered" /\ b.override # Unread =>
      b.override >= request[q].edits[Home[q]][t]
=============================================================================
