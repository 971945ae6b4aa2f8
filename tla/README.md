# PluginPocket in TLA+

PluginPocket is a gateway between AI clients and the tools (MCP servers, HTTP
APIs, scripts) that an organisation publishes. Every call is authenticated,
rate limited, paid for from a wallet, forwarded to an upstream and settled.
Several replicas of one Go server share a PostgreSQL database and, if
configured, a Redis; a Rust command line client, a desktop application around
it and a React console talk to the server over HTTP.

This directory models the parts of this system whose correctness depends on
the order of concurrent steps. On the server these are transactions of several
requests and replicas, goroutines around shared maps and channels, caches,
retries and timeouts; in the console and the desktop windows they are answers
that arrive late, twice or never while the reader goes on editing and others
change the rows. TLC checks small instances; TLAPS proves every safety and
every action property that holds, of the server's parts and of the windows, for
every instance.

`PROJECT.json` is the machine-readable side of this file: the components, the
runs, for each property a mutant of the code that breaks it, the lines of
source behind every definition, the hazards and the theorems.

## Inventory

Paths are under `src/`. "Model" names the module, or says that there is none.

### Server (Go, `server/`)

| Component | State | Operations | Hard behaviour | Model |
|---|---|---|---|---|
| Metering: `internal/store/store.go`, `Gateway.call` | wallets, ledger, usage_logs | reserve, finish, RecoverPending, recordDenied | row locks of several transactions, a foreign key that waits for an administrator, a replica that dies between reserve and finish, recovery racing a late finish | `Metering`, `CallAccount` |
| HTTP session pool: `gateway/http_pool.go` | pools by configuration, slots per tool, idle and leased sessions, a wait group | acquire, lease, release, retire, forget, Close | critical sections of two mutexes, contexts and AfterFuncs, channels as semaphores, shutdown against a handshake | `HttpPool` |
| Tool catalog: `gateway/gateway.go`, `catalog_revision.go`, `metadata_cache.go`, `cache/cache.go` | a catalog per replica, version and observed revision, Redis entries | tools, discovery flight and its workers, observeCatalogRevision, Invalidate, Watch | shared flights that outlive what they read, lost and late messages, definitions cached for another row | `Catalog` |
| Request budgets: `store/rate.go`, `auth/rate_limit.go` | rate_limits | AllowRequest, Gateway.admit, AllowPublicRequest | statements that run later than their timestamp, in another order, over a window boundary | `RateLimit` |
| Teams: `app/teams.go`, createToken | teams, members, invites, tokens, transfers, wallets | create, update, remove, invite, accept, fund, token | check-then-act over several rows, retries by key, lock order | `Teams` |
| Device sign-in: `app/devices.go` | device_authorizations, tokens | authorize, approve, poll | repeated and late polls, expiry, a user disabled meanwhile | `DeviceLogin` |
| Balances: `app/account.go`, `app/billing.go` | wallets, ledger, redemption_codes | adjustBalance, createCode, redeem | retries under a key, one code and two users, admins who disable each other | `Credits` |
| Accounts and browser sessions: `app/account.go`, `admin.go`, `browser_auth.go`, `bootstrap.go`, `auth/browser.go` | users, sessions, session_access | register, login, refresh, logout, setUserEnabled, BootstrapAdmin | tabs that refresh while another logs out, two admins disabling each other, replicas that start together | `Accounts` |
| Runtime settings: `internal/settings`, `app/settings.go` | one row with a revision | read, write if the revision is the one sent | lost updates between administrators | `SettingsForm`, with the page |
| Marketplace: `app/marketplace.go`, `app/tools.go`, `internal/marketplace` | plugins, skills, bundles and their versions; tools and their settlement rules; a Git view | create, save, publish, synchronise, serve files, save and test a tool | saves of several administrators and a synchronisation in any order, a version that must name one content | `SkillWorkbench`, `ToolForm`; the overrides in `Catalog` |
| Schema migrations: `store/store.go` | schema_migrations | run once under an advisory lock | only the lock is concurrent | none |
| SQLite store: `store/store_sqlite.go` | the same tables, one writer | reserve, finish | none: transactions are serial | none |
| Identity: `internal/identity` | oauth_states, identities, email_verifications | GitHub sign-in, mail request, mail verification | a mail sent inside a transaction (a hazard names it) | none |
| File store: `internal/filestore` | file_objects and S3 objects, named by hash | put, get | repeating or losing a step changes nothing | none |
| Upstream transports, settlement policy: `gateway/transport.go`, `upstream.go` | none of their own | connect, call, judge | timeouts | one nondeterministic step of `Metering` and of `HttpPool` |
| HTTP API, configuration, metrics, reports, demo | none shared, or reads | - | - | none |

### Client side

| Component | State | Operations | Hard behaviour | Model |
|---|---|---|---|---|
| Session of a tab: `web/src/App.tsx`, `SessionBoundary.tsx`, `features/account/api.ts` | cookies shared by the tabs, a refresh under way, the query cache | request, refresh and replay, lapse, login, logout | requests that learn of the expiry at different moments, answers of an account that has left | `WebSession` |
| Paged lists: `usePagedList.ts`, `Pagination.tsx` | pages loaded so far, the page shown | choose, turn, next, refetch | rows committed late with smaller ids, a next page that arrives under another list | `PagedList` |
| Skill and bundle editor: `MarketplacePanel.tsx`, `MarketplaceEditor.tsx`, `SkillFileEditor.tsx`, `SkillCodeEditor.tsx`, `FileAttachments.tsx` | the desk: entry, files, attachments, scripts | open, edit, attach, remove, save, synchronise | files read late, attachments read while the user edits, another administrator's version | `SkillWorkbench`, with the handlers |
| Tool editor: `ToolsPage.tsx`, `ToolEditor.tsx`, `ToolIcon.tsx`, `SettlementEditor.tsx` | a form over a row, a picture being compressed, a trial | edit, pick, try, save, toggle | a picture or a verdict that is no longer the last asked for; a whole row sent back | `ToolForm`, with the handler |
| Transfers and adjustments: `TeamsPage.tsx`, `AdminPage.tsx`, `BillingPage.tsx` | a form and its idempotency key | type, send, send again, close | an answer that is lost | `CreditForms`, with the ledger's unique key |
| One-time secrets: `TokensPage.tsx`, `CodesPage.tsx`, `OneTimeCode.tsx`, `SidePanel.tsx` | a secret on screen, a confirmation | create, hide, revoke, leave | a secret that arrives after the panel was left or during another action | `SecretPages` |
| Settings page: `SystemSettingsPage.tsx` | a form and the revision it was made of | read, edit, save | the row read again under an open form | `SettingsForm` |
| Desktop windows: `desktop/ui/src`, `desktop/src/lib.rs` | the credentials file, cached lists, one operation | sign in and out, read, install, update, remove, diagnose; a terminal beside them | a command that loaded older credentials or lists answers later | `Desktop` |
| Update panel: `UpdatePanel.tsx`, `updater.ts` | phase, offer | silent check, manual check, install, remount | calls that outlive the mount | `UpdatePanel` |
| Development services: `scripts/dev.mjs` | a socket, a child per service | up, status, restart, down, kill | two supervisors, a stop at any step of a start | `DevSupervisor` |
| CLI: `cli/src`: device login, configuration, clients, plugins, bridge | files in the user's home | login, logout, status, install, update, remove | several files per operation | the login in `DeviceLogin`, whole commands in `Desktop` |
| `deploy/`, `docs/`, `.github/`, `.agents/` | - | - | - | none; the documents are read for what they promise |

### How the parts interact

A call enters `Gateway.call` with a bearer token. It passes the budgets of
its token and its user (`RateLimit`), reserves its price (`Metering`),
resolves the tool in the catalog (`Catalog`), leases a session of the
upstream (`HttpPool`), executes and settles (`Metering`). A catalog that is
published retires the session pools of configurations it no longer has
(`Catalog` to `HttpPool`). The handlers of teams, balances, accounts and
devices write rows that a reservation reads or locks: wallets, tokens,
members, users. They meet in PostgreSQL's row locks; a module models the
locks its own transactions take and lets the others appear as the smallest
action that can disturb it: `Metering` has revocation, removal of a member,
changes of users, tools, roles and rates as actions, `Teams` and `Credits`
have the debit of a metered call, and all have the admin who holds a user row.

A window of the console or of the desktop meets the others only in the rows
of the server, in the cookies or the credentials file, and in its own query
cache. The modules of the client side therefore hold both ends of their
requests: the form and its mutation, the handler that serves it, and a rival
who writes the same row.

## How the models read the code

* **Transactions.** At PostgreSQL's READ COMMITTED each statement sees what
  was committed when it ran. A transaction is a sequence of actions, cut
  where another transaction can come between: at every statement that reads
  what is decided on, locks or can wait. A transaction's writes become visible
  in its commit action, which comes after the last check of the session or of
  the code as a step of its own (`Confirm` and `Commit` in `Credits`,
  `ConfirmToken` and `CommitToken` in `DeviceLogin`): what holds between the two
  holds because of locks, or not at all. `SELECT ... FOR UPDATE`, `FOR SHARE`, the KEY SHARE
  lock a foreign key takes, uniqueness and advisory locks are guards of the
  actions that have to wait. Rollbacks by a lost connection or a crash are
  actions (`Fail`, `Aborts`, `Abort`) that free the locks and keep nothing.
* **Goroutines.** In `HttpPool` and `Catalog` an action is a critical section
  of a mutex, or a channel, wait-group or network operation between two. A
  context is the set of those it has been cancelled for; a
  `context.AfterFunc` runs in an action of its own.
* **Data.** A name, a code, a token, a configuration is a model value; a row's
  content is the version that wrote it; prices and credits are integers.
  Formats, hashing, texts and pages of lists are left out.
* **Windows.** An action of a page is one event: a click, an answer that is
  stored, an effect that runs after it. What an `await` or a mutation's
  closure has captured stays in the record of that request, however the
  screen changes. A guard of a user's action is what the markup says:
  `disabled`, a confirmation that is not open, a form that is not mounted.
  TanStack Query is modelled by what the pages rely on: one fetch per key at a
  time, joined by whoever asks meanwhile unless it is cancelled by an
  invalidation, data that stays until it is replaced or given up.
* **Requests of a handler's client.** A client that hears nothing sends again:
  to the server that is another request with the same key, and the models
  draw keys from a set small enough to make it happen.

### Modules

| Module | What it models | State and actions |
|---|---|---|
| `Metering` | `store.reserve`, `finish`, `RecoverPending`, `Gateway.call`, the writes that race with them | `balance`, `ledger`, `usage` are the tables; `pc`, `job`, `tx` say where a caller or a replica's recovery stands. `LockWallet`, `ReadTool`, `Authorize`, `Insert`, `Recheck`, `CommitReservation` are reserve's statements; `LockCall`, `CreditWallet`, `PostCredit`, `CloseCall` are finish's, shared with recovery (`Scan`, `Recover`). Row locks are functions of `pc` (`HoldsWallet`, `HoldsCall`, `HoldsTool`, `HoldsUser`). |
| `CallAccount` | the promise: an amount is held for a call once, then charged or released once | `Hold`, `Charge`, `Release`, `Refuse`, `Adjust` |
| `HttpPool` | `http_pool.go`, `Gateway.Close`, retirement by a flight | `pools`, `used`, `conn`, wait group; one action per critical section, named after what it does (`Join`, `TakeSlot`, `Register`, `Pop`, `Connect`, `Publish`, `Handover`, `Release`, `FinishLease`, `Forget` ...) |
| `Catalog` | discovery, revision, Redis cache, overrides | `memory` is what `Gateway.mu` protects, `flight` the singleflight with a stage per tool, `inbox` the messages of Redis |
| `RateLimit` | `AllowRequest` and its two callers | `sent` is the statement's timestamp; `Reclaim`, `Allow`, `Refuse` run later |
| `Teams`, `DeviceLogin`, `Credits`, `Accounts` | the handlers named in the inventory | `handler[h]` is one HTTP request and where its transaction stands; locks are explicit variables |
| `WebSession` | a tab: requests, the shared refresh, replay, the boundary that gives the cache up | `client` is the cache's account, `fetches` the requests under way with the cookie they were sent under; `Query`, `Mutate`, `Answer`, `ServeRefresh`, `RefreshGranted`, `OtherTab` ... |
| `PagedList` | `usePagedList` and the server's page query | `visible` rows, `paged` pages loaded, `loading` one read, `turning` what `next()` waits for; `Commit`, `ReadPage`, `Loaded`, `NextPage`, `NextReturns`, `Switch` |
| `SkillWorkbench` | the workspace of a skill and of the bundle that embeds it, with `createSkill`, `createBundle` and `syncMarketplace` | `skill`, `pack` are rows, `desk` the editor, `save` the mutation, `loop` a synchronisation, `released` what each version has named, `lowered` whether a client of the API has named a version that was not above the current one (`Versions` are those it may name). A row that was imported before there were manifests (`legacy`) shows its own texts, which a save sends again (`Resent`). |
| `ToolForm` | the tool editor, its picture and trial, the switch in the list, with `saveTool` | `tool` is the row with its details, icon, rule, roles, connection and switch, `form` the editor, `filled` what its user touched, `reads` pictures being compressed |
| `CreditForms` | the transfer form and the adjustment panel, with the unique ledger key | `forms`, `requests`, `postings` |
| `SecretPages` | tokens, codes, invites: creation, the secret shown once, actions on rows | `secret`, `panel`, `act`, `notice` |
| `SettingsForm` | the settings row and its page in several tabs | `settings`, `item`, `draft`, `saveCall` |
| `Desktop` | overview, equipment, diagnostics with their commands | `credentials`, `status`, `lists`, `operation`; a terminal writes the same files. `ServeOperation` may fail with nothing, some or all of its files written; `changed` counts what was written, `answered` what the page has been told to read again |
| `UpdatePanel` | the panel over the updater plugin | `phase`, `offer`, `updates` under way |
| `DevSupervisor` | `up`, the control socket, the children | `socket`, `steps`, `state`, `child` |
| `Fronts` | the ten modules above, one surface a behaviour | `surface`; `OnSession` ... `OnDev` are the steps of a surface that leave the others alone |
| `MC...` | instances for TLC: scenarios, symmetry, the region searched | |
| `MeteringProofs`, `HttpPoolProofs`, `TeamsProofs`, `AccountsProofs`, `CreditsProofs`, `DeviceLoginProofs`, `RateLimitProofs` | theorems about the modules they are named after | |
| `ConsoleProofs` | theorems about `Catalog`, and about the windows as instances of `Fronts` | |

The mutants stand in the modules beside what they change, e.g. `WalletUnlocked`
before `WalletFree`: the operator with the slip that the property must notice.

## Runs

| Run | Question | Properties |
|---|---|---|
| `metering_core` | Do balances, ledger and calls agree under every interleaving of two calls, recovery, one account write and one failure, also when both calls carry one key, and is everything settled and answered in the end? | `LedgerChain`, `CallsAccounted`, `RefinesAccount`, `CallsSettle` |
| `metering_races` | Does a reservation that waited still hold when it commits, and does anything run unfunded, with two writes by administrators in between? | `ReservedAtCommit`, `NoFreeExecution` |
| `pool` | Do sessions and slots stay consistent against retirement and shutdown? | `SlotsRespected`, `SessionsKept` |
| `pool_ends` | Do retired pools go away, requests end and Close return? | `PoolEnds` |
| `pool_interrupted` | Does a retirement spare established leases, as the comment says? No: see Findings | `EstablishedUninterrupted` (violated) |
| `catalog` | Is any request given an older row, a stranger's definitions or an undone edit? | `CatalogCurrent`, `DefinitionsMatchRow`, `OwnEditsSeen` |
| `ratelimit` | Is a window's limit kept, and used up before anything is refused? | `WithinBudget`, `RefusedWhenSpent`, `ForgottenWhenOver` |
| `teams` | One owner, no seat too many, tokens of members only, credits explained, one transfer for a key, no deadlock? | `Membership`, `TransfersSound`, `JoinsAsAllowed` |
| `device` | One token per code, for the user who approved it and is enabled at the commit, not drawn by a poll that waited until expiry, and in time? | `OneTokenPerCode`, `TokensGated`, `ApprovalNotMissed` |
| `credits` | Does each key, and each code, pay once, is a retry answered as the first time, and is the actor still enabled when the change commits? | `LedgerExplains`, `RetryAnsweredAlike`, `MovedByEnabled` |
| `accounts` | Does an enabled admin remain, does a logout end every tab, do refreshes leave each other alone? | `AdminsAgree`, `ChangedByAdmin`, `CookiesKept` |
| `fronts` | Is what is on screen true, and does what is sent do no more than was meant, with answers late and lost? | one or two for each surface, below |

A name may stand for a conjunction of parts that are stated one by one in the
module: `SessionsKept` (one user per session, none lost, nothing left after
Close), `PoolEnds` (three liveness properties), `CatalogCurrent` (a caller's
catalog and each row in it), `Membership` (one owner, seats, tokens of members),
`TransfersSound` (`FundsExplained` and `NoDeadlock`),
`JoinsAsAllowed` (the invite and the account, both at the commit),
`LedgerExplains` (with: a code pays once), `CookiesKept` (a logout ends the
tabs; a refresh leaves the others alone).

The properties of `fronts`:

| Surface | Property | Says |
|---|---|---|
| session | `OwnData` | what a tab has cached was asked since the cache was last given up |
| | `ReplayedOnce` | no request takes effect twice, and a lapse of the cookies costs one refresh |
| list | `PagesRead` | a page shows exactly the rows it covers; no late answer turns another list's page |
| skill | `SavedAsShown` | what is published is every edit of the session; what was left alone stays as stored or, in a row without a manifest, is as it was opened |
| | `VersionNamesContent` | a version of a bundle names one content; so does one of a skill as long as nobody has named a version through the API that is not above the current one |
| tool | `ShowsWhatCounts` | picture and verdict on screen belong to the last choice |
| | `UntouchedAsOpened` | what its author left alone a save writes as he was shown it, an older value over a newer one perhaps, but no default and no other mode's rule; the connection stays as stored, and so does what a toggle is not about |
| credits | `CreditedOnce` | what was wanted once is posted once, however often it is sent |
| secrets | `SecretKept` | a secret, which no request returns again, stays until its owner dismisses it; on the pages that reset their mutation (not on `TokensPage`) a refusal appears under the row it is about |
| settings | `NoLostUpdate` | a save changes only what its administrator changed |
| desktop | `WindowCurrent` | the account shown is this window's; an operation on the equipment is chosen from a list read after all changes before it, one on the clients from a list read after those that did not fail |
| update | `PanelHonest` | the panel tells what happened to its own calls |
| services | `StoppedIsDown` | services reported stopped are down, and no two supervisors run any |

Every run finishes; the type invariant of a module is a conjunct of a property
that is checked (for the windows, of `OwnData` in `Fronts`), or a theorem
(`TypeCorrect`, `RateTypes`, `RevisionNamesRow`).

### Bounds

Every bound is a constant or a field of a scenario, and a guard or a
`CONSTRAINT` names it.

* **Metering.** Two callers of two tokens on one wallet and one replica's
  recovery: the wallet covers one of the two calls, so overdraft, refusal,
  refund and recovery all occur. `MaxAdmin` and `MaxFaults` count account
  writes and failures; a third caller adds waiting, no new pair of
  transactions. Prices 1 and 2, rates 100 % and 50 % make rounding matter.
  `metering_core` sets `KeysFresh` to FALSE, so that the two callers may
  carry the same call (the store promises idempotency, though the gateway
  draws a fresh key each time). `BatchSize` 1 makes recovery need several
  passes.
* **HttpPool.** One slot instead of 32 makes every second request queue.
  `MaxTurns` counts catalogs published and shutdowns. The run searches the
  union of three regions (`Searched` in `MCHttpPool`): two requests of either
  configuration and one turn, with a client that may leave; two of one
  configuration against a catalog and a shutdown; three of one configuration
  against a catalog. The first shares slots between configurations, the
  second lets a flight and Close retire the same pool, the third passes a
  session on while a queue waits.
* **Catalog.** Two replicas, a local and a remote tool on two pages. The region
  searched has two requests of the administrator's replica with one write of
  either tool or of an override and an expiry of the catalog, or one request
  of each replica with a write of the remote tool and Redis between them.
  One write suffices to tell a fresh row from an old one.
* **RateLimit.** Three budgets of tokens and a user, with limits 2, 2 and 3 and
  two lengths of window, or of two peers and the deployment; two requests at
  a time, five in all, four ticks: statements of one window run in the next
  two. A tick is half a minute, windows are one minute or two.
* **Teams, DeviceLogin, Credits, Accounts.** A *scenario*, chosen in `Init` and
  kept in the rigid variable `scenario`, says who takes part, what exists and
  which operations come how often; each run explores three of them, and the
  scenarios are listed with their reasons in the `MC` module. Two or three
  requests run at a time, which is what a race needs; the number of requests
  lets a retry follow two that raced. In `DeviceLogin` a tick is the polling
  interval of 5 s and a code lives three ticks instead of 120, so that an
  approval, a poll in time and a poll after expiry fall within a behaviour.
* **Fronts.** `FrontsInit` chooses a surface and leaves the others where
  they start (`MCFronts` also fixes one start of each that is not searched):
  the surfaces share only the server, so a behaviour of two at a time adds no
  pair of steps to those of one. Per surface:
  session: three requests, one lapse of the cookies, one switch of account,
  so that one request can be sent before, one learn of the lapse during and
  one after the refresh; list: four rows and pages of one and of two, so
  that a page can be full, last or read again; skill: four edits and one
  rival's save, which let an attachment be added, read and removed around a
  save. Rows without a manifest are searched to three edits, which are enough
  to open one, change it and save, and what follows a rival who names the used
  version 1 to two (`Searched` in `MCFronts`); tool: three edits, one rival, two pictures; credits: two wishes, each
  sent twice, with two amounts; secrets: two creations and two actions on
  two rows; settings: two tabs, one field and the secret, two saves, since
  the third revision adds no order that the second does not have; desktop:
  one account besides none, two changes by anyone; update: five calls and two
  mounts; services: two supervisors and one kill.

Deadlock is checked in the runs of `Metering` and `HttpPool`. The other models
stop where their bounds on requests or time end, so their configurations say
`CHECK_DEADLOCK FALSE`; `Teams`, whose handlers take several locks, states the
absence of deadlock as `NoDeadlock`, a conjunct of `TransfersSound`: whoever is
waited for is under way, and no set of requests wait for each other in a circle.

### Fairness

Only `Metering` and `HttpPool` have liveness properties.

* `Metering`: weak fairness of the next step of each caller and of each
  replica's recovery, of the passing of the five minutes and of the commit of
  an administrator who holds a user row. Goroutines are scheduled by the Go
  runtime, a statement whose lock is free is run by the database, the ticker
  of `application.go` fires every minute. Nothing makes an administrator, or
  a failure, act. Weak fairness is enough: who holds a lock always goes on.
* `HttpPool`: weak fairness of each started request's step, of the flight's
  retirement and of Close. A handshake and a call end because they run under
  a deadline. Starting a request, leaving, publishing a catalog, expiry and
  beginning a shutdown are never obliged to happen.

For `DeviceLogin` the liveness of a login is stated as an action property,
`ApprovalNotMissed`: from a state with an approved code and a poll that comes
before the deadline, no step leads elsewhere than to the token. It is about
behaviours that are `Undisturbed`: requests take less than a polling interval,
none fails or is repeated, and no account changes. The modules of
the windows assume no fairness: a user need not click and an answer need not
arrive, and nothing there is obliged to happen.

## Theorems

TLAPS checks every proof from nothing. They hold for every value of the
constants that satisfies the assumptions the modules name; TLC evaluates those
on each run.

| Assumption | Says, and why |
|---|---|
| `MeteringAssumption`, `RateLimitAssumption` | Prices, rates and limits are natural numbers; nothing has to be finite or small. |
| `HttpPoolAssumption` | `Requests` is finite: slots and leases are counted, and a process has finitely many goroutines. Requests are not configurations, and the tool has a slot. |
| `TeamsAssumption` | Users and teams are finite, because seats are; scenarios start with a founder and a free seat in each team. |
| `AccountsAssumption` | The configured admin's name is a name; scenarios start with admins that exist; lives of cookies and sessions are natural numbers. |
| `CreditsAssumption`, `DeviceAssumption` | Sets of rows are finite; amounts are whole numbers; a user's name is neither of the two words that stand for the other states of a code. |
| `CatalogAssumption` | The pages of a listing are finitely many sets of tools and together name every tool; each request arrives at one replica. |
| `FrontsAssumption`, `BoundsAssumption` | Ids of rows are positive and finitely many, page sizes are positive; `SKILL.md` is the main file and no attachment; versions that a client names are positive, 0 stands for none; the values that stand for nothing and for not yet known are no others; bounds are natural numbers. |

An assumption of the kind `None \notin ...` says that a value of the model that
stands for SQL's NULL is none of the rows.

An invariant that a run checks is seldom inductive. The invariant that is, and
what it adds, is the argument of the code:

* **Metering** (`MeteringProofs`). `MultiplierRoundsUp`: the price under a
  billing role is never less than cost times rate and exceeds it by less than
  one credit. `TypeCorrect` needs that `job` of a process at work is a call
  (`JobOK`). `LocksRespected`: `Spec => []LockDiscipline`, which says that a wallet or
  usage row has one holder, that the balance a transaction read is still the
  balance, that a row being settled is still pending and one being inserted
  still absent. The proof reasons per process: a step of `p` leaves the others
  where they are (`Frame`), changes only rows it holds or that are free, and
  takes only rows that are free.
    * `LedgerSound` (`LedgerChain`): three actions post an entry; for each,
      `LockDiscipline` gives that the amount computed from what was read is the
      balance after the commit.
    * `CallsSound` (`CallsAccounted`) and `AccountImplemented` (`RefinesAccount`). One lemma,
      `CallSteps`, says of every step what it does to the rows: one call is refused,
      held, charged or released, or a wallet is adjusted, or nothing moves.
      From it follow that a row and its ledger entries agree and that every
      step is one of `CallAccount` for each call, or a stutter.
    * `ReservedOnTerms` (`ReservedAtCommit`). What a reservation has locked is what it was
      granted on (`TermsHeld`): the tool's row since it read the price, the user's
      row since the insert, and the last check finds the user enabled.
    * `NothingRunsFree` (`NoFreeExecution`), under `KeysFresh`, which is how the gateway draws
      request keys and how `metering_races` sets it. No two callers then share a call
      (`CallersApart`), every row is some caller's (`RowsOwned`), and recovery works on
      overdue rows only (`RecoversOverdue`): the row of a caller who executes is
      pending, or it was overdue and recovered.
* **Session pool** (`HttpPoolProofs`). `SlotsBound` (`SlotsRespected`) and `SessionsSound` (`SessionsKept`), for any number
  of requests, configurations, slots and turns. The invariant ties counters
  to sets of requests (`Counts`: a pool's leases, a provider's users and pools,
  the wait group), gives every open session one place (`Sessions`: its holder,
  the idle list, or the closer that took it), and says who has still to retire
  a pool that a shutdown found or missed (`Shutdown`). That a slot belongs to
  the provider, which lives as long as any of its pools does (`PoolRules`), is what
  bounds calls over a retirement; that a request joins the wait group before
  Close begins to wait, or is refused, is what makes Close final.
* **Teams** (`TeamsProofs`). `MembershipSound` (`Membership`) and `JoinsSound` (`JoinsAsAllowed`). A request that has
  decided holds the team's row until it ends (`Locks`), so that what it decided on
  still holds at its commit (`Decisions`): the successor is a member, a seat is free,
  the invite unused, the caller a member. A team that is being created, and an
  invite that is, are of no other request (`Claims`). From the insert of a row for a
  user to the commit, the user cannot be disabled, because setUserEnabled
  waits for the reference (`Enabled`).
    * `TransfersAreSound` (`TransfersSound`). A transfer is posted with the wallets it
      moves, so that what a wallet holds is what was put in, less the calls, plus
      the transfers to a team or less those from a user. The sum over the rows is
      counted as the coins it consists of, so that one transfer more is its amount
      more (`Coins`, `SentMore`, `Explained`). A key that a request has found unused stays
      unused while it holds the team's lock, because a transfer's key counts within its
      team (`Unused`, `OneForKey`). Of requests that wait, one that waits for a wallet has
      its team to itself and therefore waits for a user's wallet; whoever holds that took it
      first and wants the wallet of its own team, which is free: no circle (`NoDeadlock`).
* **Accounts** (`AccountsProofs`). `AdminsSound` (`AdminsAgree`), `ChangesByAdmins` (`ChangedByAdmin`), `TabsSound`
  (`CookiesKept`). Whoever changes an account is alone with its advisory lock, and so is
  a replica that starts (`Locks`); a username that is being inserted is nobody's yet.
  What was decided then holds at the commit (`Decisions`): another admin is enabled,
  the caller is still one, nobody else has made the first admin. Only the
  holder of the lock disables, and no role that exists changes (`UsersMove`).
  Besides, a cookie that exists was drawn for a session that is open and that
  it does not outlive (`CookieOK`), because a logout finds all cookies of its
  session, those of a refresh it waited for included.
* **Balances** (`CreditsProofs`). `BalancesSound` (`LedgerExplains`), `RetriesSound` (`RetryAnsweredAlike`), `OnlyEnabledMove` (`MovedByEnabled`).
  `WorkInv` says what the wallet's and the code's locks are worth: the balance
  read is the balance, the code is still open, and the key has no row in that
  wallet. What is posted then extends the chain of `after` values (`ChainPost`), and
  an answer is what the row of its key says, whoever wrote it. Between the last
  check of the session and the commit nothing is asked again: `ShutOut` says that
  the actor of a request that has passed the check is enabled and that no
  administrator holds or gets his row, because the ledger row or the code that was
  inserted refers to it. Without that lock the theorem would be false.
* **Device sign-in** (`DeviceLoginProofs`). `DeviceTokensUnique` (`OneTokenPerCode`), `DeviceTokensGated` (`TokensGated`). A poll and an
  approval hold the code's row until they commit; a code that is approved
  keeps its user, and a poll that has read an approval, and that the code is
  not consumed, finds both unchanged (`ApprovalRead`). The commit consumes the code
  with the token it inserts, hence one token each (`OneEach`). The user who passed
  the last check stays enabled until the commit, because the token that was inserted
  refers to his row (`AllReady`); the code may expire between the two, and what is
  proved of the time is that a poll that waited until the expiry (`waited`) draws nothing.
    * `ApprovalsInTime` (`ApprovalNotMissed`), for every life of a code and any number
      of clients. A poll under way is one its client waits for, and the only
      one (`Heard`, `Served`, `ServedOnce`); clients that wait have codes of their own
      (`CodesApart`) and are in time (`Timely`): the code ends when the client gives
      up, is not consumed, and the server's throttle ends no later than the client's
      sleep. So of the answers to a poll only two are left, and a client that has a
      token finds it valid (`Authentic`).
* **Request budgets** (`RateLimitProofs`). `RateTypes`; `BudgetsHold` (`WithinBudget`), by the
  invariant `BudgetInv` that ties a row's count to the requests let through in
  its window and bounds those of earlier windows; `RefusalsJust` (`RefusedWhenSpent`), because
  a window that is full in the row stays full in the history (`SpentInv`);
  `WindowsKept` (`ForgottenWhenOver`), because a statement runs after it is sent (`SentBefore`), so
  that a window it finds over, or replaces, is over now.
* **Tool catalog** (`ConsoleProofs`). `CatalogSound` (`CatalogCurrent`), `DefinitionsSound`
  (`DefinitionsMatchRow`), `EditsSound` (`OwnEditsSeen`), for any number of replicas,
  requests, workers, pages and edits, with Redis or without. The version of a replica
  decides which flights may publish: a flight whose version is still the replica's
  was overtaken by no invalidation, so its revision is the one observed (`Fine`). What
  it then publishes holds every row up to that revision, and every override the
  replica has answered for (`UpTo`, `Edited`). A request that waited for another's
  flight gets no row older than those it found when it began. Definitions travel with
  the row they were listed for, through Redis as well (`Matched`).
* **Windows** (`ConsoleProofs`). Each surface has an invariant of its own, over the
  variables of its module; the steps of the others leave them alone. They hold for
  any number of accounts, rows, lists, attachments, keys, tabs and supervisors.
    * *Settings.* `UpdatesKept` (`NoLostUpdate`). The server compares revisions only, so the
      invariant (`RevisionNamesRow`) says what a revision is worth: a copy of the row,
      in a cache, in a read under way or in an answer, that bears the row's revision
      is the row; a form, and the body made of it, that bears it agrees with the row
      outside the fields its reader touched. A save outdates all of them at once,
      because the revision grows. That the form is mounted anew for each revision is
      what makes it inductive: a form that survived a new item would be sent with a
      revision its values do not belong to.
    * *Session.* `CacheIsOwn` (`OwnData`, and the types of all windows) and
      `RequestsReplayedOnce` (`ReplayedOnce`). Every refresh has a lapse of the cookies to show
      for it: a request refused in the current generation was refused after a lapse
      that no refresh has answered yet (`RefreshKnown`, `LapsesPaid`). A query that is
      awaited is the current client's, because giving the cache up makes a new client
      and aborts the queries of the old one (`QueryCurrent`). Whose the rows are holds
      until another tab changes the user behind this one's back (`switches`), which
      `OwnData` excepts and the proof needs to know.
    * *Lists.* `PagesReadWell` (`PagesRead`). Pages follow one another and cover the rows
      between their ends (`PagesFit`); rows only become visible, so that a refetch from the
      first page reaches at least as far back, page for page, as the one it replaces
      (`Reaches`), and the page on screen is still among those read (`TurnFits`).
    * *Skills.* `SavesAreAsShown` (`SavedAsShown`): what the workspace shows of a file is what
      its user made of it (`Agrees`), and a save on its way was taken from a workspace
      that is locked until the answer. `VersionsNameContents` (`VersionNamesContent`): no
      release is newer than the row, the row is what its version was released with
      (`Released`), and a publish releases that again or something else under a newer
      version; of a skill until a client has named another, of a bundle always. Of a row
      without a manifest a save on its way bears, of what was left alone, the texts the
      editor was opened with (`Resends`).
    * *Tools.* `EditorShowsWhatCounts` (`ShowsWhatCounts`): the picture of the current choice
      is the icon picked, earlier ones bear an earlier revision, and a trial that is
      under way or shown is of the rule and the sample in the form (`ReadsChosen`,
      `TrialOfRule`). `UntouchedFieldsAsOpened` (`UntouchedAsOpened`): a connection is
      sent only if it was filled in, and of the rest the body agrees with the row the form
      was opened for outside the fields that were touched (`AsOpened`, `FormKept`,
      `SavesWhatIsShown`).
    * *Credits.* `WishesCreditedOnce` (`CreditedOnce`). One key stands for one wish, whether it is
      on its way, in the ledger or about to be sent again (`OneKeyEach`); the ledger has
      one row for a key, and a wish whose key is not drawn has no request.
    * *Secrets.* `SecretsStay` (`SecretKept`). While a creation is awaited no secret is on
      screen, and a page that was left waits for nothing; the request that a confirmation
      shows is about its own row (`CreationOK`, `ConfirmationOK`).
    * *Desktop.* `WindowShowsItsOwn` (`WindowCurrent`). Only while an answered login waits to
      be shown may a status be older than the login; only between a change and the start
      of its read may a list be older than the change, and then the window is busy
      (`AccountOK`, `ListOK`, `Fresh`). A configuration of the clients that failed starts no
      read, and the invariant asks of their list only what was answered with success.
    * *Update and services.* `PanelTellsTruth` (`PanelHonest`) is inductive with the types.
      `StoppedServicesAreDown` (`StoppedIsDown`): who is about to start its services holds the socket,
      unless it was told to stop, and then it starts none (`Supervises`, `OneGroup`).

TLC checked the inductive invariants of the pool, the teams and their transfers, the
accounts, the balances, the device sign-in, the catalog, the session of a tab and
the forms that move credits on the instances of their runs.

`WithinBudget` is about budgets whose rows are not reclaimed. Rows of `public:`
peers are: a request that was sent before the end of a minute and runs after
its row was reclaimed opens the minute anew. `ForgottenWhenOver` says what
remains true of them: what was used is forgotten only after the window's end.

`TypeCorrect`, `LocksRespected`, `RateTypes` and `RevisionNamesRow` are the invariants the
others rest on and are not repeated in a run.

### Only model-checked

* `CallsSettle`, `PoolEnds`: liveness under fairness, beyond the prover. Their safety
  side is proved: a call is settled at most once and for what was held
  (`AccountImplemented`), and nothing is left when Close returns (`SessionsSound`).
* `EstablishedUninterrupted` does not hold (see Findings).

## Findings

`pool_interrupted`: `httpSessionPool.acquire` keeps the AfterFunc on the pool's
context until it returns (the deferred `stopConnect`). A retirement that comes
after the last check under `p.mu` and before the deferred call cancels the
context of a lease that is already recorded in `p.sessions`. The comment at
`http_pool.go:155` says that established leases "are canceled only by
Gateway.Close". The interrupted request ends with an error and its session is
closed; no other property is touched.

Met while modelling, and not counted as disagreements:

* An edit of a tool's metadata overrides does not advance the catalog revision:
  replicas that miss the message see it when their catalog expires.
  `OwnEditsSeen` is therefore about the replica that answered the edit.
* Idle sessions of a replaced configuration and those of its successor may
  together exceed the 32 slots until the old ones are retired; requests in flight may not
  (`SlotsRespected`).

* Skills: the last save of a `SKILL.md` wins; creating a slug that exists updates
  it; a synchronisation that began before an editor was opened writes over an
  inline save that was answered meanwhile; opening a file with CRLF line ends
  rewrites them; the files of a version may be answered with newer content. An
  API client may name a version that was used before, and then one version names
  two contents: the console never does, and `VersionNamesContent` excepts it. A row
  without a manifest sends all its texts with every save, and so writes its opened
  attachments over those another administrator has published since.
* Tools: the form sends the row in full, but for the connection, and the row has no
  revision, so the last save wins, also of what its author left alone and somebody
  else has changed meanwhile. `UntouchedAsOpened` says which values are written.
* Configuring the clients may fail after some of their files were written
  (`write_clients`), and `Overview.tsx` reads their list again only after success:
  the next choice is made from a list that does not show them. `WindowCurrent`
  excepts it.
* Device sign-in: the code may expire between the last read of its row and the
  COMMIT, which is not waited for. Teams: an invite may expire while its
  redemption waits for a row after the invite was checked, and is redeemed.
  Metering: what a reservation read of its token, member and role is not locked
  and may change before it commits (`ReservedAtCommit` speaks of the user, the tool
  and the price); a call that runs beyond the recovery's deadline is refunded while
  it runs (`NoFreeExecution` excepts reservations that are overdue).
* A mutation that waited for the refresh is sent again under the cookies that
  are there then, also if another tab has signed another user in.
* Money: closing the adjustment panel after an unconfirmed error forgets its
  key; the funding form keeps a refused operation until the amount is changed;
  the purchase of a plan has no key (`createOrder` always refuses).
* A late failure of a revocation on `TokensPage` appears under the confirmation
  that is open by then, of another token perhaps. A reader who asked for the
  next page of one list cannot turn another until it has arrived. An export
  may be made of the filter before.
* `UpdatePanel`: the silent check may replace "up to date" by an offer, and a
  remounted panel may start a second installation. What
  `docs/superpowers/specs/2026-09-12-desktop-auto-update-design.md:39` promises,
  that a failed silent check is not shown, holds (`PanelHonest`).
* `scripts/dev.mjs`: a health answer that arrives during a stop may report
  "Running" until the stop ends.
* `BillingPanel` of the desktop keys its queries without the account; a read
  under way when the page is left can be joined after another login.

## Not modelled, and why

* Schema migrations, SQLite, the file store: serial, or steps that may be
  repeated and lost without effect (see the inventory).
* Identity: the steps that matter happen at GitHub and at the mail server.
* The single files an operation of the CLI writes and their rollback (`Desktop` has
  an operation that fails with some of them written, not which), the bridge, the desktop's logs, log export and doctor: one process and its
  files, with no other actor but the user's terminal, whose commands `Desktop`
  has as well.
* Pages that show what one query returns (landing, overview, plans, usage,
  ledger, logs, `BillingPanel`) and forms of one request without a key or a
  revision (tool metadata, team settings, install files, plugin records).
* Validation of inputs, naming of tools, parsing of addresses, hashing,
  encryption, translations, styles, texts: data that no property here tells
  apart.
* The MCP SDK, the HTTP client, PostgreSQL, Redis, TanStack Query, React, the
  Tauri updater and browsers are the environment: modelled by what the code
  relies on.
* `.agents/`: scripts vendored from other projects, a browser overlay of 13,000
  lines and a page server among them. They are no part of the program. They
  are also almost half of the repository's JavaScript and TypeScript, most of
  the rest of which is markup, styles and text: the definitions here map
  about 3,900 of its 29,000 lines, and about 3,400 more of Go and Rust, and a
  larger share of JavaScript is not to be had from state and control.

## What could come next

A model of the CLI's file steps with a crash between any two writes. SQLite's
store as a second implementation of `CallAccount`. The safety of two surfaces
that share a query cache, now that each is proved alone. Liveness of the
catalog: a replica that hears no message still catches up when its catalog
expires.
