# TLA+ models of the inventory backend

TLA+ specifications of the backend's core logic, TLC configurations that check
them on small instances, and TLAPS proofs, for instances of every size, about all
components that are modelled.  Paths below are relative to the root of the repository (`src/`).

## 1. The system

Two API services and a worker share one PostgreSQL database and one Redis.
`inventory-api` keeps categories, products, warehouses, stock balances and
movements; `authentication-service` keeps users and refresh sessions;
`notification-service` and the `worker` consume events.  Everything that happens
to stock is a *movement*: it is created as a draft, and confirmed (which changes
balances) or cancelled.

| Component | State | Operations | Talks to | Correct if |
|---|---|---|---|---|
| Movement (`domains/movement`) | `movements`, `movement_lines`, `audit_logs` | create (4 kinds, with an Idempotency-Key), confirm, cancel, list, get | stock, outbox, audit in one transaction; warehouse and product lookups on other connections; cache and pub/sub after the commit | a draft is posted whole and at most once, or voided; a key names one movement |
| Stock (`domains/stock`) | `stock_balances` | EnsureBalanceRow, GetForUpdate, ApplyDelta, TransferDelta, always within a confirmation | | 0 <= quantity <= MaxInt32; no lost update |
| Transactions, pool (`pkg/database/transaction`, `infra/postgres`) | row locks, 25 connections | RunInTx | PostgreSQL | all or nothing; waiting ends |
| Outbox (`domains/outbox`) | `outbox_events` | Insert in the confirmation, RelayPublishBatch | relay | rows of exactly the confirmed movements |
| Relay (`workers/internal/outboxrelay`) | claim, backoff | Run | outbox, stream `inventory.events` | at least once, duplicates only by failures |
| Event bus, consumers (`pkg/eventbus`, `pkg/alertworker`) | stream, groups, pending lists | EnsureGroup, ReadGroup, handler, Ack | Redis | nothing lost without a trace; nothing handled twice |
| Event bus, processing (`pkg/eventbus/processing.go`) | idempotency keys, retry counts, dead letters | HandleMessage | Redis | what is acknowledged was handled, requeued or buried; a key stops repetitions (only tests call it so far) |
| Notification dispatcher | none | Handle | a webhook | |
| Realtime feed (`pkg/realtime/stockpub`, SSE) | the last audit row told | PublishStockChanged, forward; poll the audit log | Redis pub/sub, audit | tells of committed changes only, none twice |
| Audit log (`domains/audit`), lists | `audit_logs` | Insert; ListAuditLogs, ListMovements, ... page by page | all writers | what a reader of all pages may miss can be explained |
| Catalog (`domains/catalog`) | `products`, `categories` | CRUD, restore, soft delete | stock (HasPositiveStock), cache | nothing in use is deleted |
| Warehouses (`domains/warehouse`) | `warehouses` | CRUD, soft delete | stock, cache | likewise |
| Cache (`pkg/cache`) | six kinds of views with times to live | Get, Set, Delete, DeletePattern | Redis | stale only as long as can be explained |
| Dashboard (`domains/dashboard`) | none but cached views | summary, chart, utilization | cache | |
| Accounts and sessions (`services/authentication`) | `users`, `refresh_sessions` | Register, Login, Refresh, Logout | | a token is spent once; logout ends sessions; a right password logs in |
| RBAC; the rest of the HTTP layer; Kong, migrations, seed | | | | not modelled, see section 7 |

What makes it hard: confirmations share stock rows and take their locks line by
line; creations, catalog handlers and session handlers use *no* transaction, so
that others (and crashes) come between their statements; PostgreSQL and Redis do
not commit together; consumers crash with entries in their hands; caches are
filled and invalidated by processes that do not know of each other; lists are
counted, read and turned page by page while they change.
`PROJECT.json` lists each hazard with its line in the source.

## 2. The modules

| Module | Models | Next to the code |
|---|---|---|
| `Ledger` | the promise of movements: post a whole draft within the limits, or void it | abstract |
| `Movement` | confirm and cancel with transactions, row locks, the pool, rollback, deadlock detection | `usecase.go`, `stock_apply.go`, `emit.go`, the repositories of movement, stock and outbox |
| `MovementProofs` | theorems about `Movement` | |
| `MovementCreate` | createDraft, statement by statement, with replays, next to confirmations | `usecase.go`, `repository.go` |
| `MovementCreateProofs` | theorems about `MovementCreate` | |
| `Outbox` | the promise of the outbox: at least once, after the commit | abstract |
| `OutboxRelay` | the relays: claim, XADD, mark | `relay.go` (both), `publish.go` |
| `OutboxRelayProofs` | theorems about `OutboxRelay` | |
| `Delivery` | the promise of the stream to consumer groups: in order, kept until handled, handled once | abstract |
| `AlertWorker` | consumers of the stream and Redis' groups | `worker.go`, `consume.go` |
| `AlertWorkerProofs` | theorems about `AlertWorker` | |
| `EventBus` | HandleMessage: idempotency keys, retries, dead letters | `processing.go`, `retry_dlq.go`, `idempotency.go`, `types.go` |
| `EventBusProofs` | theorems about `EventBus` | |
| `Catalog` | life cycles of products, categories (with parents) and warehouses against the stock | usecases and repositories of catalog and warehouse |
| `CatalogProofs` | theorems about `Catalog` | |
| `ViewCache` | the read-through cache | `pkg/cache`, `cache_inval.go`, list and dashboard usecases |
| `Listing` | lists read page by page, with kept pages, and the activity stream | list queries of audit, movement, catalog and warehouse, `pagination`, `sse_activity.go` |
| `ReadProofs` | theorems about `Listing` and `ViewCache` | |
| `Sessions` | accounts and refresh sessions | `authentication.go`, `repository.go`, `auth.go`, `auth_session.go`, `jwt/service.go` |
| `SessionsProofs` | theorems about `Sessions` | |
| `MC*` | constants and symmetry for TLC | |

Common conventions.  A *request* (consumer, relay) is a process with a program
counter `pc`; a step of a model ends where the code gives others a chance that
matters: at a committed statement, a wait for a lock or a connection, a command
to Redis.  A handler outside a transaction takes one step per statement.  `Fail`,
`Crash` and the like stand for an error of the database or Redis, a cancelled
context or the death of the process, wherever they may strike; what is
committed stays.  Definitions marked FAULTY are not used: each is a definition
with a plausible slip, there to show that the properties notice.

How the pieces meet.  `Movement` includes the stock, outbox and audit
repositories, as they share its transaction.  Its outbox rows are the `CommitRow`
of `OutboxRelay`, whose stream entries are the `XAdd` of `AlertWorker`.
`MovementCreate` and `Catalog` have a confirmation as one step (its locks
conflict with nothing those handlers do but with inserts of lines, which wait
for it).  The invalidations of all writers are in `ViewCache`; `Catalog` has the
product entries too, because confirmations believe them.  `EventBus` is another
consumer of the stream `AlertWorker` reads; `PublishAgain` is a relay that sends a
row twice (`OutboxRelay`).  The rows that enter, leave and move in `Listing` are
those that `MovementCreate`, `Movement` and `Catalog` write, and its kept pages the
views `products`, `categories` and `warehouses` of `ViewCache`, there one by one.

### Correspondence in some detail

`Movement`.  `status`, `rows`, `stock`, `outbox` and `audit` are committed tables;
`headLock` and `rowLock` PostgreSQL's row locks; `work` and `batch` what an open
transaction has written.  A confirmation goes `begin` (waits for a connection),
`lock` (GetByIDForUpdate), `check` (validateWarehousesActive), `lines`/`rows` (one
line after the other: the rows in the order in which the code locks them, then
the quantities), `emit` (outbox and audit rows), `commit`, `publish`.  A
cancellation goes `read`, `update` (waits for a connection), `cas` (UPDATE ...
WHERE status = 'draft'), `audit`.  Every error before the commit is a `Rollback`.
Quantities are integers in 0 .. MaxQty, where MaxQty stands for math.MaxInt32,
which the code checks explicitly.  What the lines of a movement add up to is the
constant `Net`, characterised by an assumption instead of a recursive sum, which
makes it usable in proofs; the instance computes it.

`MovementCreate`.  A movement is named by the request that inserted its header.
`Taken` is the violation of one of the two unique constraints, `FindDuplicate`
is handleCreateDuplicate, `SameBody` idempotencyHashesMatch.

`OutboxRelay`.  `ClaimRow` is SELECT ... FOR UPDATE SKIP LOCKED, `MarkPublished` the
UPDATE and the commit.  An XADD that returned an error may have been carried out,
be lost, or be on its way (`late`); the client library repeats commands
(`RetryXAdd`).  `wasted` is a history variable that counts XADDs without a mark.

`AlertWorker`.  `last` and `pending` are Redis' last-delivered id and pending list
of a group.  `RunReturns` is the end of Run by an error of Redis: nothing in the
process calls it again.  The duration of blocking reads is left out.

`EventBus`.  A consumer goes `read` (ReadGroup), `acquire` (SETNX), `handle`, then
`requeue` (RequeueOrDLQ) or `bury` (MoveToDLQ) if the handler failed, and `ack`.  A
key of a decoded event is the same for all its copies, that of an undecodable one
(`Opaque`) names the entry.  Consumers of a group in `Keyed` set
HandleOptions.IdempotencyKey to BuildIdempotencyKey, the others leave it empty.
A key lives on when the handler fails, so what HandleMessage requeues for its own
group is skipped as a duplicate (`processing.go:37` before `:53`).  Two facts of
the code that no property depends on: MoveToDLQ and RequeueOrDLQ default to
`dlq:inventory.events`, while DefaultDeadLetter is `inventory.events.dead`; and
DecodeEvent reads the version of an event through RetryCount, which looks for
another field, so that it is always 1.  Signing is left out: HandleMessage does not
verify.

`Catalog`.  Handlers read, decide and write in separate statements; the WHERE
clause of the write looks at deleted_at again.  `disturbed` is a history variable:
two requests overlapped, or a write was not followed by its invalidation.  The
call of a handler that failed before it wrote is forgotten.  UpdateCategory
leaves an empty parent_id out of its UPDATE, so a parent can be changed but not
taken away, and DeleteCategory counts products only, so children keep a deleted
parent.

`ViewCache`.  One view is followed, any of the six: no handler relates two.
`entry` says whether its cached copy is fresh; a write of a table the view reads
makes entries and loaded copies stale.  `doubt` and `lacking` are history: the entry
came too late or outlived its deletion, or it lacks a created warehouse.

`Listing`.  `result` is the list as the query orders it; `Enter`, `Leave` and `Move`
are commits of other modules.  A client's step is one of the two statements of a
query (`Count`, `Find`), a look into the cache (`Hit`) or the SET (`Keep`).  `kind`
says which changes there can be: audit rows only enter, drafts also leave, rows of
a list sorted by status or of the catalogue move.  Economies: `Count` may pass a
kept page over, which stands for an expired one and for a failing Redis; a
DeletePattern that fails is an `Invalidate` that is not taken, and that of
CreateWarehouse, which never comes, too.  `mark` and `risks` are the history of a
client in `Followed`: which of the rows that were in the list all the time it has
seen, and what changed behind its back.  The stream is the state of one SSEActivity
handler; its ticker of five seconds is `Tick`.

`Sessions`.  A session is named by the request that inserted its row.  `before`
is a history variable: the requests that were over when a request came.  The
unique index of `users` is on tenant and email, and a registration makes a new
tenant, so no registration is refused as a duplicate; FindUserCredentialByEmail
takes some row of the email (`LIMIT 1`, no order), and the password is compared
with that one.  Initially one login is over, which saves its steps.

## 3. The runs

| Run | Instance | Shows |
|---|---|---|
| MovementSafety | 3 requests; 4 movements: two opposite transfers (one with two lines), an adjustment into a row that does not exist, an outbound with two lines on that row; MaxQty 3; pool 4 | `LedgerSpec` (refinement), `OutboxMatchesConfirmed`, `StockChangedChain`, `OneWinner`, `FeedAfterCommit`, `LocksHaveOwners` |
| MovementLiveness | 3 requests, the two transfers, pool 3 | `Responds` |
| MovementDeadlock | 2 requests, the two transfers | `NoDeadlock` is violated |
| MovementCreateSafety | 3 creations, 2 keys, 3 bodies | `KeyNamesOneMovement`, `AnswersAreTrue`, `AuditedOnce` |
| MovementCreateAtomic | 2 creations | `NothingHalfCreated` is violated |
| OutboxRelay | 2 relays, 3 rows, 3 failures | `OutboxSpec` (refinement), `DuplicatesOnlyFromFailures`, `ClaimsAreHeld`, `EventuallyPublished` |
| AlertWorker | groups of 2 and 1 consumers, 3 entries, batches of 2, 2 errors | `DeliverySpec` (refinement), `HandledOnce`, `EventuallyDelivered` |
| EventBus | a keyed group of 2 consumers, a group of 1 without keys; an event that can be decoded or one that cannot; MaxRetry 1; 1 fault | `UnhandledIsKept`, `KeyedOnce`, `ExhaustedAfterRetries` |
| Reads, behaviours of `Listing` | 2 clients, pages of 1, 2 of 3 rows at the start, 2 changes, any kind of list | `TraversalIsExplained`, `ActivityGoesForward`, `EventuallyToldNewest` |
| Reads, behaviours of `ViewCache` | 3 requests, any view, failures | `StaleIsExplained`, `EventuallyRefreshed` |
| Catalog | 3 requests; 1 product, 2 categories, 1 warehouse; stock up to 2 | `CalmStockIsLive`, `DeletedOnce`, `CalmCategoriesEmpty` |
| ViewCacheWarehouses | 1 request at a time, no failures | `WarehousesInvalidated` is violated |
| Sessions | 4 requests, 2 users, emails and passwords | `TokenSpentOnce`, `LogoutEndsSessions`, `NamesakesExplainLogins` |

Each module also has its `TypeOK` (`MovementTypeOK`, `ViewTypeOK`), with relations
between variables where they are not obvious.  Reads (`MCReads`) checks two models in one run: they share no
variable, so a behaviour is one of either, and the other rests at its start.

**Bounds.**  Three requests are enough for a third party to any race of two: a
winner, a loser and one who comes later or is in the way.  The movements are
chosen so that rows are shared in both orders, a movement touches one row twice,
both ends of the quantity range are hit (m3 finds too little for its second
line, or no row at all; m1 and m4 together overflow) and a row is created; with `PoolSize`
above the number of requests (safety) the pool restricts nothing, and with as
many connections as requests (liveness) it can be exhausted.  Four sessions allow
login, two refreshes of its token, and a logout or a third refresh; or two
registrations of an email and two logins.  One event, of either sort, is
enough for the bus, as no step relates two; MaxRetry 1 has a requeued and an
exhausted copy, and one fault is a second copy, a lost answer, an expired key or a
crash in any of these places.  Pages of one row put a page boundary between any
two rows; two changes can undo, overtake or repeat each other.  Bounds that
are not in the code: `MaxFailures` (relay; enough to fail one row at each of its
steps, or two rows at once), `MaxEntries` and `MaxErrors` (consumers), `MaxEvents`
and `MaxFaults` (bus), `MaxChanges` (lists), `MaxStock`
(catalog, where only positive or not matters).  Requests are one call each, so
that models without other counters are finite.  CHECK_DEADLOCK is off where
a system may stop: all requests answered, all rows published, all consumers
returned; Movement has `Terminating` instead.

**Symmetry** is used over requests (and keys, users) in safety runs, where the
specification only quantifies over them; in no run that checks a leads-to.

**Fairness.**  `Movement`: a handler whose statement can run is scheduled, locks
are granted, PostgreSQL looks for deadlocks (deadlock_timeout); nobody is
obliged to fail, and no product has to be in the cache (`EmitWithLookup` is fair,
the emission from a full cache is not).  `OutboxRelay` and `AlertWorker`: a running
process runs on; failures are finite by their bounds and not obliged to happen.
Nothing in the repository starts a dead process again (there is no restart policy)
and nothing calls a `Run` again that returned, so neither is assumed:
`EventuallyPublished` and `EventuallyDelivered` except the case that no relay, or no
consumer of the group, is left.  `ViewCache`: Redis expires what has a time to live.
`Listing`: the ticker of a connected stream fires and its query does not fail for
ever; clients may stop anywhere.

**What violations show.**  (1) `applyTransfer` locks the destination row before
`TransferDelta` takes both rows in order, so opposite transfers deadlock although
`order.go` says that they cannot; PostgreSQL aborts one.  (2) Header and lines of
a movement are inserted without a transaction, so that a confirmation may post it
without lines, against the comment on `CreateMovementInput`.  (3) `CreateWarehouse`
invalidates nothing (`Drops`), so a cached list lacks the new warehouse for up to 15
minutes although nobody is at work and nothing failed; ARCHITECTURE.md (line 1149)
has the list invalidated "On warehouse change".  `StaleIsExplained`, which holds, keeps
that case apart: what lacks a created warehouse is the only staleness in it without
an excuse.

**What else the models show, where the code does less than one might expect.**

- `Responds` carries an exception: confirmations hold one connection each and need
  a second one, without a timeout, so a pool whose connections are all held by
  transactions at that point (or by one such and others that wait for its lock)
  never recovers by itself.
- The `Calm` properties of `Catalog` stop where calls overlap: a deletion and a
  confirmation can pass each other's checks, and so can the deletion of a category
  and the creation of a product in it or of a child of it.
- In `AlertWorker` nothing leads out of the pending list but an acknowledgement: an
  entry whose handler failed once stays there for ever.  ARCHITECTURE.md
  describes retries and a dead letter stream, which `EventBus` has and the worker
  does not use.
- `KeyedOnce` counts failed runs, too: with a key, an event whose handler fails once
  is never handled; `UnhandledIsKept` names the key as the one way to lose it.
  Without keys, a retry goes to all groups, also those that had succeeded, and its
  count is shared by them (`ExhaustedAfterRetries`).
- `TraversalIsExplained`: a list that changes is no snapshot.  A client of the audit
  log misses a row only by an insert between count and page; one of a list of
  drafts by any confirmation of a draft on a page it has read.
- `NamesakesExplainLogins`: a right email and password may be refused when another
  account has that email, as after a registration that was tried again.

## 4. What is proved

Every theorem is `Spec => []P`, `Spec => [][A]_vars` or `Spec => AbstractSpec`, for
every value of the constants that satisfies the named assumptions, of which TLC
checks on every instance that they hold there.  The runs of section 3 check the
same properties on instances; their mutants show that the properties can fail.
Before it was proved, each inductive invariant below was an invariant of a run
of its own.  A step that keeps one has a lemma per action (or per group of
actions that change the same thing), each with a step per conjunct that the
action can disturb.

| Property | Theorem | In |
|---|---|---|
| `MovementTypeOK`, `LocksHaveOwners` | `TypeCorrect`, `LocksCorrect` | `MovementProofs` |
| `LedgerSpec` (refinement) | `ImplementsLedger` | |
| `OneWinner`, `FeedAfterCommit` | `OneWinnerHolds`, `FeedFollowsCommit` | |
| `OutboxMatchesConfirmed`, `StockChangedChain` | `OutboxTellsConfirmed`, `EventsChain` | |
| `TypeOK`, `KeyNamesOneMovement` | `CreateTypeCorrect`, `KeyHoldsOneMovement` | `MovementCreateProofs` |
| `AnswersAreTrue`, `AuditedOnce` | `AnswersStayTrue`, `CreationAuditedOnce` | |
| `TypeOK`, `ClaimsAreHeld` | `RelayTypeCorrect`, `ClaimsCorrect` | `OutboxRelayProofs` |
| `OutboxSpec` (refinement) | `ImplementsOutbox` | |
| `DuplicatesOnlyFromFailures` | `DuplicatesExplained` | |
| `TypeOK`, `HandledOnce` | `WorkerTypeCorrect`, `NothingHandledTwice` | `AlertWorkerProofs` |
| `DeliverySpec` (refinement) | `ImplementsDelivery` | |
| `UnhandledStaysPending`, from `DeliverySpec` | `NothingDropped`, `DeliveryDropsNothing` | |
| `TypeOK`, `UnhandledIsKept` | `TypeCorrect`, `NothingLostButByKeys` | `EventBusProofs` |
| `ExhaustedAfterRetries`, `KeyedOnce` | `NoEarlyDeadLetter`, `KeyedRunsOnce` | |
| `TypeOK`, `CalmStockIsLive` | `CatalogTypeCorrect`, `CalmKeepsStockLive` | `CatalogProofs` |
| `CalmCategoriesEmpty` (steps), `DeletedOnce` | `CalmEmptiesCategories`, `DeletionsTakeTurns` | |
| `TypeOK`, `TraversalIsExplained` | `ListingTypeCorrect`, `TraversalExplained` | `ReadProofs` |
| `ActivityGoesForward` | `ActivityForward` | |
| `ViewTypeOK`, `StaleIsExplained` | `ViewCacheTypeCorrect`, `StalenessExplained` | |
| `TypeOK`, `TokenSpentOnce` | `SessionsTypeCorrect`, `RotationSpends` | `SessionsProofs` |
| `LogoutEndsSessions`, `NamesakesExplainLogins` | `LogoutEnds`, `OnlyNamesakesMislead` | |

### The arguments

`MovementProofs`, transactions (from `SetsAssumption`, `DocAssumption`,
`OpeningAssumption`, `NetAssumption`: ids are integers so that they are ordered;
documents satisfy validateMovementWarehouses and have positive quantities; `Net` is
the sum of the lines).  `LedgerSpec` is about committed balances, but a confirmation
builds its effect up line by line in uncommitted rows while others commit.  The
inductive invariant `IInv` therefore adds three parts to types and locks.
`HeaderHeld`: a transaction past its first read holds its movement's header, which
is still a draft.  `AppliedLines`: a row that t holds is the committed quantity plus
the sum of the lines t has applied; on every other row that sum is zero.
`LineLocked`: while a line is applied, every row it changes is held or still in
the lock plan; without it the second half of `AppliedLines` is not inductive.
At the commit all lines are applied (`CommitPosts`), so the balances move by
`Effect`, and the limits hold because they hold of uncommitted quantities.  Every
other action is a stutter or the cancelling UPDATE (`CancelVoids`).

`MovementProofs`, what others see.  Who succeeds has taken the status away from
draft, and no status changes after that (`WinnerInv`); notifications come from
winners (`FeedInv`).  A commit adds rows to the outbox that were numbered in one
block when they were emitted (`BatchInv`), below a sequence that only grows, so
that ids never meet (`IdsInv`).  The changes of a transaction lead from the
committed quantity of a row to the one its holder sees (`ChangesInv`), and the
committed events of a row to the committed quantity (`ChainInv`).  Ids are drawn
long before the commit and the sequence knows no locks.  What orders the events
of *one* row is that its lock is held from before they are numbered until they
are committed: an event that waits for its commit has a higher id than all
committed ones of its row (`HeldRowsAreLast`).

`MovementCreateProofs` (`CreateAssumption`).  The two unique constraints let one header
have a key (`MadeOnce`), and neither its key nor its body changes, so that whatever
a request reads back under its key is that movement (`ReadsExist`).  Lines are only
added, all of them before the creator reads anything back (`LinesKept`), and a
status that is not draft stays (`RepliesKept`).  Only the creator comes to the
audit log, once (`AuditsCounted`).

`OutboxRelayProofs` (`RelayAssumption`).  `ClaimsAreHeld` is nearly inductive, but says
nothing of what a relay sends.  `SentCommitted` adds that rows in work or in a late
XADD are committed, `MarkedSent` that a row at its mark is in the stream, whose
entries stay (`StreamGrows`).  Each XADD then is a `Send` of a committed row, each
mark a `Settle` of a sent one, and the rest stutters.  For duplicates, `Balance` has
entries and late commands of a row on one side, its mark, a relay at its mark and
wasted commands on the other: a lock has one holder, so there is one such relay.

`AlertWorkerProofs` (`WorkerAssumption`).  Redis gives what lies behind
last-delivered-id to one consumer and moves on, so batches are disjoint, and of
entries nobody had (`Batches`); those that are not done were not handled
(`Unfinished`), so that no handling repeats one (`Handlings`).  A consumer
acknowledges the entry it has just handled.  With `Undropped`, the first entry of a
batch is thus pending and not yet handled before the handler runs, and handled
before the XACK (`FirstOfBatch`): a batch is a `Give` of `Delivery`, each handler run a
`Handle`, each XACK a `Drop`, and every error, crash and restart a stutter.  That
nothing is dropped without a trace is then a theorem about `Delivery` alone
(`DeliveryDropsNothing`), which has no run of its own.

`EventBusProofs` (`BusAssumption`).  `UnhandledIsKept` is inductive together with types
and `BusyIsRead`: the entry a consumer works on lies at or before the last position
of its group.  Only then is an entry that is requeued unread by every group, so
that the old one may be acknowledged.  `RetriesAreFailures` bounds the retry count
of each entry by the failed runs of its event, strictly that of an entry about to
be requeued.  `RunsHaveKeys`: the runs of a keyed handler and the consumers about to
make one are no more than the keys that have been set, of which each but the last
has expired.

`CatalogProofs` (`CatalogAssumption`).  Rows never become absent again, so what was
found exists when the handler writes (`Seen`); with it types are inductive.  That it
is still *live* needs calm: then one handler runs at a time (`Alone`), what it
read still holds (`StillTrue`), and the cache has live products only, but for the
one the handler has deleted and is about to drop (`CacheIsLive`).  What the
handlers' steps have in common is in one lemma (`HandlersArrive`), so that most
proofs need no case per action.  `Counted` balances the answered deletions of a
product against its restores and its state, calm or not: each UPDATE finds the row
in one state and leaves it in the other.

`ReadProofs`, lists (`ListingAssumption`: a table is finite and has a row; a page has at
least one row; the start of the list repeats none).  What a client has behind it is
a *number* of positions, while rows are what it may miss.  The lemmas about
InsertAt, RemoveAt and Page translate between the two: which rows a change takes
over a boundary (`InsertMoves`, `RemoveMoves`, `MoveMoves`) and which rows lie between
two boundaries (`PageHas`).  The invariant `Traversals` says of a client without a risk
that loses rows that what it owes lies ahead and `total_pages` covers it
(`NoneMissed`), and of one without a risk that repeats rows that what it saw lies
behind (`NoneTwice`).  Both are about every point of the way, `TraversalIsExplained` only
about its end.  A page served from the cache is as good as a query made at once, or
adds the risk "stale".  For the types, a list without repetitions is no longer than
its table (`DistinctIsShort`), so that the pages a client is sent to exist.
`ActivityGoesForward` is inductive with `ToldInOrder`: what was told is still in the log,
as audit rows only enter, and insertions keep the order (`InsertKeepsOrder`).  The
row at the front that differs from the last one told is then in front of all of
them.

`ReadProofs`, views (`CacheAssumption`).  `StaleIsExplained` is inductive with the types.
What decides has no state in it: every writer but CreateWarehouse drops all views
that read a table it writes (`WritersForget`).

`SessionsProofs` (`SessionsAssumption`).  No row of `refresh_sessions` becomes active
again, as only the request that names it inserts it, and that is over (`Control`).
So a refresh that came after its row was revoked does not come past its lookup
(`SpentTokens`, `SpentBefore`, `EndedBefore`); that requests once over stay over
(`OverBefore`) gives "before it came" one meaning in all later states.  For logins,
accounts are never rewritten, and who registers late was not over before.

### Only model-checked

All liveness (`Responds`, `EventuallyPublished`, `EventuallyDelivered`,
`EventuallyRefreshed`, `EventuallyToldNewest`) and the absence of deadlocks, which are
about fairness and ENABLED.  Every invariant and action property of the runs has a
theorem.  Sums over lines are not computed by induction in the proofs;
`NetAssumption` states what they are.

## 5. How to run

    tlc -config MovementSafety.cfg MCMovement      # likewise the other runs
    tlapm MovementProofs.tla                       # likewise the other *Proofs

Times on two workers: MovementSafety, MovementLiveness, Catalog, Sessions and
Reads about a minute each, the others 30 seconds or less.

## 6. What could follow

The modules above are done, and each of their invariants is proved.  Next would come,
in this order:

1. A promise for `EventBus` like `Delivery`.  It is a weaker one, for HandleMessage also
   acknowledges entries that were requeued, buried or stopped by a key.
2. A composition of relay and consumers, `Outbox` over `Delivery`: from a confirmed
   movement to a handled alert, at least once.
3. Stock checks of `Catalog` with the statements of a confirmation interleaved.

## 7. Not modelled

Permission checks compare strings of a token.  Request decoding, error codes,
validation, logging and generated stubs compute an answer from their input; their
refusals are among the outcomes of `Fail`.  Kong, compose and migrations are
configuration, though constraints of the schema appear in the models (unique
keys, the check on warehouses, the INTEGER quantity).  The seed program fills a
development database while nothing else runs.  The texts, prices and SKUs of
products and categories are left out: no rule looks at them.  What the dashboard's
reports compute is left out, as is SSEStock, which hands on what Redis gives it, and
the signatures of events.  `pkg/database/base` has no caller, and `pkg/scheduler` is
empty.
