# KitchenSense: a TLA+ model

KitchenSense keeps a household's kitchen as an append-only log of inventory
events, folds that log into snapshots, and hands out short-lived URLs to upload
receipts to. It is a FastAPI application over PostgreSQL, run as up to two
replicas (`infra/main.bicep`: `maxReplicas: 2`). Everything that is hard about
it happens between two SQL statements, between a statement and its commit, at
an `await`, or between two clocks. These modules model it at that grain.

## 1. Inventory

| Component | State | Operations | Interacts with |
|---|---|---|---|
| Event log (`repositories/inventory.py`, `models/inventory_event.py`, migration 0001) | `inventory_events`: append-only, unique `idempotency_key`, two clocks | `append_if_new`, `append_many`, `events_known_as_of`, `events_known_between` | endpoints, projection |
| Inventory endpoints and tenancy (`api/inventory.py`, `api/dependencies.py`, `repositories/household.py`) | `households`; one session per request | `get_session`, `get_household_id` / `ensure`, `append_event`, `current_snapshot`, `snapshot_as_of` | log, fold |
| Snapshot projection (`InventorySnapshotRepository`) | `inventory_snapshot`, one row per lot | `get`, `rebuild`, `advance`, `save`, `clear` | log, fold |
| Domain fold (`domain/inventory.py`) | none (pure) | `apply_events`, `combine_lots`, `combine_snapshots` | both of the above |
| Receipt blob store (`storage/receipts.py`) | cached delegation key, its retirement, a lock | `upload_ticket`, `_delegation_key` | Azure, upload endpoint |
| Receipt uploads (`api/uploads.py`, `repositories/receipts.py`, migration 0004) | `receipt_uploads` | `request_upload`, `confirm_upload`, `unconfirmed` | blob store |
| Signing keys (`auth/jwks.py`) | configuration, key set, time of the last fetch, a lock | `signing_key`, `_cached_key`, `_refresh_keys`, `configuration` | identity provider |
| Verification (`auth/verifier.py`, `api/security.py`) | none | `get_principal`, `verify` | signing keys |
| Database provider (`db/provider.py`) | engine, source, cooldown, a lock | `sessionmaker`, `warm`, `check`, `dispose` | Key Vault, every request |
| Lifecycle and health (`main.py`, `api/health.py`) | the phase of the replica | `lifespan`, `/health/deep` | database provider |
| Settings, migrations, infrastructure | | | |

What makes each of them correct, and what is hard to test about it:

* **Event log and endpoints.** An acknowledged event is durable, is stored once
  however often it is sent, and is refused only with cause; the tenant's row
  precedes its events although it is created by whichever of several first
  requests wins; what the log knew at a past moment is fixed. Hard: retries,
  lost responses, races for the same key or the same new household, and
  `recorded_at` being the *start* of a transaction that becomes visible later.
* **Projection.** A stored row counts each event known at its `as_of` once and
  no other. Hard: `advance` continues from an `as_of` it read two statements
  ago; delete-then-insert of two jobs under READ COMMITTED.
* **Fold.** The result depends on the set of events, not their order or their
  grouping. Hard: minima and maxima with missing values, late events.
* **Blob store.** A URL lives within its key's life; one request fetches. Hard:
  a wait for a lock of unknown length between reading the clock and using it.
* **Uploads.** A URL in a client's hands has a row; a confirmation that was
  acknowledged stays. Hard: two confirmations at once, clocks of two replicas.
* **Signing keys and verification.** A key the tenant withdrew is not accepted
  for long, a key it published is not refused for long, and the tenant is not
  asked more than needed. Hard: a rotation between any two steps, a set that
  was already old when it arrived, two waits for one lock in one request.
* **Database provider and lifecycle.** One engine, built by whoever comes first;
  a vault that refuses or hangs costs every caller a prompt 503 and the thread
  pool little. Hard: queues behind a lookup that fails, a cooldown that ends
  while they wait, threads that outlive their caller, a shutdown under load.

PROJECT.json lists every component and, under `hazards`, every such place by
line, with the properties that watch it.

## 2. Modules

| Module | Models | Composes |
|---|---|---|
| `LogStore` | the log as its readers see it: rows appear once, stamped no later than now, and stay; the two queries on it | |
| `EventLog` | the endpoints over Postgres, one action per statement, commit or response | extends `LogStore`, and implements it |
| `SnapshotProjection` | concurrent projection jobs over the log | extends `LogStore` |
| `LotFold` | the pure fold, with its reference definition | |
| `DelegationKey` | the key cache of one replica | implements `SingleFlight` |
| `ReceiptUploads` | the upload table and its two endpoints | |
| `SingleFlight` | what a cache promises that its own callers fill | |
| `TokenVerifier` | a token's way through `get_principal`, `verify` and the key cache, and the tenant that rotates its keys | implements `SingleFlight` |
| `DatabaseProvider` | the database handle of a replica, its startup, its callers and its shutdown | |
| `MC*` | symmetry and small inputs for TLC, where a module needs them | |
| `QueueLemmas`, `*Proofs` | theorems, checked by TLAPS | |

A definition whose name ends in a suffix after an underscore and whose comment
begins with "Mutant" is a plausible slip in the code, kept next to what it
mutates; PROJECT.json says which property each one breaks.

### LogStore

`log` maps an idempotency key to the committed row that has it, or `None`
(keys are unique over the whole table, and triggers reject every UPDATE and
DELETE). A row keeps its household, its lot and its two clocks.
`events_known_as_of` and `events_known_between` are the WHERE clauses of the
repository. `Append` lets any row appear that is not stamped in the future:
that is all a reader may assume. It stands for the commit of a row that
`append_if_new` inserted, the only write an endpoint makes; `append_many` (a
batch that commits at once) and a `recorded_at` given by the caller, which
nothing in the program uses, are left out.

### EventLog

Each request has a program counter. `Arrive` is `exists()`, the statement that
begins the transaction and so fixes `stamp`, the value `now()` has in it;
`EnsureHousehold` is `INSERT .. ON CONFLICT DO NOTHING` and waits for another
request's uncommitted household; `CommitHousehold` is the commit in
`get_household_id`, after which the event's INSERT begins a transaction of its
own (`BeginAppend`). `AppendIfNew` waits for an uncommitted row with the same
key, then inserts, conflicts (`LookupKey`: 200 or 409) or fails the foreign key
on the product (422). `CommitAppend` and `Respond` are separate, so that a
request can fail after its commit: `Fail` is an exception, a lost connection or
a crash, at any point. `ChooseAsOf` takes the timestamp asked for or the
replica's clock, which is within `Skew` of the database's; `ProjectKnownAsOf`
is the one SELECT of a read. A client's retry is a request with the same input.

### SnapshotProjection

Which events a row counts, and how often, stands for its columns (`counts`). A
worker runs a job in one transaction, which begins with its first statement:
`Rebuild` replays the log, `Advance` is `get()` with its two early returns,
after which it goes on with `Between` or, if there were no rows, with
`RebuildInstead`; both end in `Compute`. `as_of` is by the caller's clock and
may lie before or after the database's. `save` then writes row by row:
`DeleteStart` is what the DELETE's snapshot finds, each `DeleteRow` locks and
deletes one of these rows (in any order: that of a scan) and waits if another
transaction has deleted it, each `InsertRow` inserts the next lot by `sort_key`,
waits for an uncommitted insertion or deletion of that lot, and fails on a
committed row of it. A row stays locked until its transaction ends, so a job
holds what it has deleted (`deleted`) and inserted (`inserted`) while it waits
for the next. `Clear` is a DELETE alone. `Commit` makes both appear at once,
`Abort` neither. `horizon` and `late` record the events committed behind a read
that should have seen them.

The waits can form a ring. Two DELETEs that scan in different orders wait for
each other's rows. With one and the same order, a job that has deleted lot 2,
the only row it found, comes to insert lot 1; meanwhile another job has
committed a new lot 1, and its next DELETE has taken lot 1 and waits for lot 2.
Postgres finds a ring and rolls one of its transactions back, which is an
`Abort` (`BreakRing`). `NoInsertRing` says that a DELETE is needed for it: because `_freeze` sorts the
lots of a snapshot and the flush inserts them in that order, saves that only
insert, such as the first ones of a household, wait in line.

Two refusals of `apply_events`, of another household's events and of events not
known at `as_of`, are left out: what the two queries return never meets them,
and `NoLeak` has to hold without their help. No endpoint calls these operations
yet ("a background rebuild" is what `api/inventory.py` expects to); the model
lets any number of workers do so.

### LotFold

The operators of `domain/inventory.py` under their names, on integers
(thousandths). `Fold` is `apply_events` for the next event, `FoldNothing` for
an empty list; two shards are folded independently, and `combine_snapshots` is
only given snapshots of one household, so its refusal of others is left out. `Reference` says directly
what each column of a lot means for a set of events.

### DelegationKey

`asyncio.Lock` serves waiters in order, so the lock is a queue whose head holds
it or is about to. `Ask` runs to the first await, `Enter` is the second look
inside the lock, `FetchOk` and `FetchFail` end the fetch. Signing follows
without an await, so it belongs to the step that obtains the key. A URL's
validity runs from `requested_at`, before the wait, so a wait longer than the
URL's lifetime (thirty fetches that time out, with the defaults) uses it up;
the model has such behaviours and no property speaks of them. Time does not
pass while the lock is free for its next holder, nor beyond a fetch's timeout.

### TokenVerifier

A token is what verification can tell of it: the id of its key, and what
`jwt.decode` and the scope check will find once there is a key; everything that
is refused unread (absent, malformed, another algorithm, no key id) is
`Unusable`. `Present` runs `get_principal` and `verify` to their first await.
`EnterFill` is the lock in `_cached_key`, `EnterForce` the one in
`signing_key`; a request that finds a usable set without its key leaves the
first and queues again for the second (`Found`). `Discover` is the OpenID
configuration, `Cache` the arrival of a key set, `RefreshFails` every way in
which either comes to nothing (a document that is no JSON object would be
answered 500 rather than refused; the cache, which the properties are about, is
left alone by both). The tenant may `Publish` and `Withdraw` at any
time, and answers a GET with the keys of the moment of `Serve`, which may be
long out of date when they arrive. `configuration()` in `verify` returns at
once: there is no key set without a configuration.

A GET takes at most `Lag`. httpx's timeout is per phase of a request and bounds
no total, so `Lag` is an assumption about the network, and the two bounds below
are stated in terms of it.

A refresh that fails leaves `_keys_fetched_at` as it is, so the floor between
refreshes does not apply after it: while the provider is down, each request
that needs a key asks again, one at a time. `NoNeedlessRefresh` is worded
accordingly (the floor counts from the last refresh that succeeded).

### DatabaseProvider

The tasks of a replica are its startup (`Warm`), requests and calls of
`/health/deep`; a task that has ended may come again. `Call` runs
`sessionmaker` to its lock, `Enter` is the second look and `_resolve_url` up to
its await, with its five ways on: an engine is there, a URL in the environment
that can be used or not, the cooldown, or a lookup. `LookupOk`, `LookupFail`
and `LookupTimeout` end it; a timeout leaves its worker thread behind
(`abandoned`), which may end whenever it likes (`ThreadEnds`) or never. `Use`
is the rest of a handler, or the probe's `SELECT 1`. `Shutdown` is the server's
graceful one: it accepts no more, lets what it has end, and then the lifespan
disposes of the engine, in one step because no task is left to see the engine
between the await of `engine.dispose()` and the assignments after it. A URL
that cannot be used (no URL, or no async driver)
ends its task by an exception other than `DatabaseUnavailableError`.

### SingleFlight

The abstract cache: a fill begins, lands or is given up; fills do not overlap,
the value changes only when one lands, and one that is given up costs nobody
the value that was there. Both `DelegationKey` (`SingleFetch`) and
`TokenVerifier` (`SingleRefresh`) implement it, the filler being the head of
the lock's queue while it awaits.

### ReceiptUploads

`Sign`, `RecordRequest`, `CommitRequest`, `Deliver` are `request_upload`;
`Load`, `Flush`, `CommitConfirm`, `Respond` are `confirm_upload`. `Flush`
waits for the row lock and then writes whatever the row has become, as an
UPDATE by id does. Either may fail at any point. `unconfirmed` is the query of
the sweep that is to come.

### What is left out everywhere

Pagination and display, logging, metadata columns, blob names. In the
endpoints' modules a request comes authenticated and with a session; how it
comes by them is `TokenVerifier` and `DatabaseProvider`, whose outcomes other
than a principal and a session end the request before its handler. The
location, printed date and label of a lot are told apart like its product.
Connection loss is `Fail`/`Abort`. Postgres, asyncio and the clocks are
external, modelled by how the code relies on them: READ COMMITTED statements,
locks of unique keys and rows, FIFO locks.

## 3. Runs

| Run | Shows | Distinct states |
|---|---|---|
| `event_log_append` | `AckDurable`, `CreatedOnce`, `RefusalsJustified`, `TenantFirst` and `RequestsEnd` with three requests of two new households that race for one key, and an unlisted product | 211,985 |
| `event_log_reads` | `ReadYourWrites`, `SettledIsFinal`, and the refinement `LogSpec`, over three instants with a skew of one | 1,438,594 |
| `event_log_stable` | a violation of `AnswersStable` | |
| `projection` | `NoDoubleCount`, `NoLeak`, `CompleteButLate`, `NoInsertRing`, `AdvanceButLate` and `JobsEnd` with two workers, two events, two lots, two instants | 645,924 |
| `projection_advance` | a violation of `AdvanceIsRebuild` | |
| `lot_fold` | `FoldIsReference`, `MergeIsReference`, `LotsSound` over every order and sharding of nine events | 9,111 |
| `delegation_key` | `TicketWithinKey`, `NoNeedlessFetch`, `UsableGrows`, `UploadsEnd` and the refinement `SingleFetch` with three requests, seven instants | 25,080 |
| `receipt_uploads` | `PromisedIsFound`, `AckIsFinal`, `NotFoundJustified`, `TripsOnlyBySkew`, `SettledStands` with three confirmations, two households, skewed clocks | 805,067 |
| `receipt_uploads_once` | a violation of `ConfirmedOnce` | |
| `token_verifier` | `NoStaleKey`, `RotationNoticed`, `NoNeedlessRefresh`, `VerificationsEnd` and the refinement `SingleRefresh` with two requests at a time, two keys, five instants | 914,045 |
| `database` | `NoNeedlessLookup`, `ThreadsBounded`, `OneEngine`, `ToldTruth` and `CallersEnd` with the startup, two requests and a probe at a time, eight instants | 39,152 |
| `database_raises` | a violation of `NeverRaises` | |

Bounds. Three requests are enough for a creator, a racer and a retry that comes
after both; a key and two households make a key that belongs to somebody else
(rows with different keys never meet, and the theorems hold for any number).
Three instants let an event be stamped, read past and committed late. Two
workers are the smallest race of two saves, and two lots let them save disjoint
rows, hold one and wait for the other, and so wait in a ring. In `TokenVerifier` two requests and two keys make a rotation that one
request notices and the other profits from, and five instants are long enough
for a set to be fetched, to age beyond `CacheTTL` and to be fetched again,
late. In `DatabaseProvider` eight instants hold two timeouts with their
cooldowns and a third lookup. `MaxTime`, and the sets of requests, keys and
workers, are the only bounds; `Quiet` stands for an instance whose requests are
all answered, so that TLC's deadlock check finds every request that is stuck.
The nine events of `MCLotFold` are chosen by hand: each event type, late and
future-dated reports, two spellings of a unit, a foreign household.

Symmetry is used for names only (requests, keys, households, workers, uploads)
and in no run with a liveness property.

Fairness. `RequestsEnd`, `UploadsEnd`, `VerificationsEnd` and `CallersEnd`
assume weak fairness of each request's own steps: the event loop runs every
coroutine that can go on, statements end, `wait_for` ends every fetch, lookup
and probe, and every GET is answered or given up. `CallersEnd` also assumes
that a shutdown whose requests have ended goes on to `dispose`. `JobsEnd`
assumes strong fairness, because a statement that waits for a lock may be
passed over while others take it; Postgres queues its waiters. It also assumes
that a transaction that waits in a ring is rolled back, as Postgres's deadlock
detector does (`BreakRing`). Nothing is assumed about clients, about
other failures, about the tenant, about abandoned threads, or about the passing
of time.

## 4. Where the code and its documentation part

The violation runs state what a docstring or a comment says. Findings in
PROJECT.json quote the lines.

1. **A past moment is answered differently later** (`event_log_stable`). An
   append stamps its row with its transaction's start and commits later. A read
   of a moment between misses it; the same read after the commit has it.
   `SettledIsFinal` says when an answer is final: once no transaction that began
   at or before the moment is still open.
2. **`advance` is not always `rebuild`** (`projection_advance`): the same event
   lies behind the stored `as_of` by both clocks, so no later `advance` picks
   it up. `CompleteButLate` shows that nothing else is ever lost, and
   `AdvanceButLate` that `advance` is `rebuild` for every other event.
3. **`confirmed_at` changes twice** (`receipt_uploads_once`) under two
   confirmations at once, each of which reports its own time. `SettledStands`
   shows that it changes no more once those have ended.
4. **`warm` and `check` can raise** (`database_raises`): they catch
   `DatabaseUnavailableError`, and a URL from which no engine can be built
   raises something else. The startup fails, or `/health/deep` answers 500.

Two smaller ones are visible in the modules. Rows of one household may carry
two `as_of` values, when two jobs save disjoint lots (`inventory_snapshot.py`
lines 7-9 say they do not); `CompleteButLate` shows that what is stored is
complete nevertheless. And a confirmation may trip over the CHECK on
`confirmed_at` when its replica's clock is behind that of the replica that
issued the URL (`receipt_upload.py` lines 74-76 take it for impossible);
`TripsOnlyBySkew` bounds for how long.

## 5. Proofs

The theorems hold for every value of the constants that satisfies the named
assumptions of the module (the bounds are naturals, `None` is no value, lots
listed are lots, and the projection's lots are numbered as `sort_key` orders them; for `DelegationKey`, that a URL's lifetime is not longer than
a key's, which `config.py` does not check but its defaults satisfy).

* **`EventLogProofs`.** `Inv` ties the program counters to the data: what a
  request holds at each stage (`Stages`), that an uncommitted row is alone with
  its key and the key is free (`RowsHeld`), that whoever is or will be told 201
  or 200 holds the row the log has, no two creators sharing a key (`Acks`), that
  the tenant is committed from the handler's first statement on (`Tenants`),
  that no stamp lies in the future (`Clocks`). None of `AckDurable`,
  `CreatedOnce` or `TenantFirst` is inductive without them: a request about to
  answer 201 is as important as one that has. From `Inv`: `TypeCorrect`,
  `AcksDurable`, `ExactlyOnce`, `RefusedForCause`, `TenantsFirst`,
  `SettledAnswersFinal` (an action property) and `ImplementsLogStore` (every
  step is an `Append`, a `Tick` or a stutter of the log; the variables carry the
  same names, so the mapping is the identity). `ReadsYourWrites` adds
  `ReadKept`: what was acknowledged before a read is in the log and stays, and
  the moment the read chose trails those stamps by no more than the skew.
* **`SnapshotProjectionProofs`.** `BetweenIsDifference` proves the docstring of
  `events_known_between`: it returns exactly the set difference. On it rest
  `NothingTwice` and `NothingLeaks`; the strengthening is `CarriedSound`: what a
  worker carries from its reads to its commit is sound for its household at its
  `as_of`, whatever the table has become meanwhile. `NothingLost` needs more,
  because two jobs may leave rows of both in the table. `CompleteInv` says that
  the rows of a household are whole: for each of them, all that is owed at its
  `as_of` is counted in one of them. A job inserts a whole set, and what a
  DELETE leaves behind is whole in itself; whole sets are closed under
  intersection and under disjoint union, so it does not matter in which order
  the deletions of several jobs commit, provided no two of them delete the same
  row and none inserts where another has deleted (`Apart`, which is what the row
  and unique-index locks guarantee). `horizon` closes the argument over time: an
  event that commits behind the latest read is late and owed by nobody.
  `AdvanceIsReplay` is the positive half of finding 2: what an `advance` folds
  is what a replay would fold, but for the late events, although it read its
  rows in an earlier statement. `InsertsFormNoRing` is
  `NoInsertRing` for any number of jobs and lots. Its invariant is `InOrder`:
  what a save has inserted comes before all it has left to insert (an event
  committed meanwhile is not in its snapshot and adds no lot). In a ring of
  inserts take a job whose next lot is least; whoever waits for it waits for a
  lot that it has inserted, which is smaller still. That rings through a DELETE
  end is left to `JobsEnd`, which rests on fairness and stays with TLC.
* **`LotFoldProofs`.** `CombineLaws`: `combine_lots` is commutative and
  associative and yields lots. `FoldSound`: no lot shows anything later than
  its `as_of`. `ReferenceMerges` is the law of the domain module's docstring,
  fold(A u B) = combine(fold(A), fold(B)), for all disjoint finite sets of
  events; from it `FoldMatchesReference` and `MergeMatchesReference`, with
  `ReferenceInv` as the invariant: each shard has the reference lots of the
  events folded into it, these are finitely many, in no other shard and no
  longer to do. The quantities are sums over sets of events, and the prover has
  no induction to offer for them; `SumIsNet` does without. It shows the sum to
  be a difference of two cardinalities (as many units as were added, less as
  many as were taken away), by looking at a smallest set for which it is not.
  Cardinalities of disjoint sets add up, and so do the sums. The extremes
  (earliest, latest) are characterised by being attained and by bounding the
  others. `SnapshotLaws` and `ArrivalOrder` lift the laws to `combine_snapshots`
  and `apply_event`. Together they say that a lot depends only on the set of its
  events, which is why `SnapshotProjection` need only keep how often each event
  was counted.
* **`DelegationKeyProofs`.** The invariant says that those in the queue stand in
  the order of their `requested_at` (`Queued`) and that the cached key starts no
  later than any of them (`Cached`). Both are needed to see that a URL signed
  from a key fetched by an earlier request starts within that key's life.
  `RetirementGrows` follows because a fetch happens only for a request the
  cached key cannot serve (`FetchesNeeded`). `KeyCacheIsSingleFlight` is the
  refinement.
* **`ReceiptUploadsProofs`.** The invariant ties a request's stage to its row
  and a confirmation's stage to the row it loaded; from it `PromisesKept`,
  `AcksFinal` and `NotFoundOnlyToOthers`. `SettledTimestamp` is the positive half
  of finding 3: with no confirmation left that read the row unconfirmed, the
  timestamp stands and every repetition returns it. `TripsBySkew` adds `Clocks`: a
  request's clock was at most `Skew` ahead when it was read, a confirmation that
  found the row read its own later, and that one was at most `Skew` behind.
* **`TokenVerifierProofs`.** `Served` says what a key set on its way can be: the
  tenant's at some moment since its GET was sent. It becomes `Cached` when the
  set lands: every key in it was still published `Lag` before `fetched`, every
  key not in it was not yet published then or is gone. `StaleKeysRefused`
  follows for a request that finds its key at once; for one that queued to force
  a refresh it needs `Forced`: it did not find its key when it came, so if the
  key is there now it was fetched since. `RotationsNoticed` reads `Cached` the
  other way: a key that is missing from a set older than the floor is asked for.
  `KeySourceIsSingleFlight` is the refinement.
* **`DatabaseProviderProofs`.** `EngineUnique` and `TellsTruth` need that the
  queue holds the waiting tasks, each once (`Queued`), that nobody waits or
  holds an engine once the replica has stopped (`Lifecycle`), and that a
  cooldown in force is that of the last failure (`Backoff`). `ThreadsPaced`
  counts time: `Paced` says that the threads given up so far have taken a
  timeout and a cooldown each, up to the end of the cooldown in force.
* **`QueueLemmas`** has the facts about the queue of an `asyncio.Lock` that the
  three caches share.

Each component's `TypeOK` is a theorem (`TypeCorrect`); the runs of the
projection, the delegation key and the uploads leave it to the proof and check
the properties that say more.

Only model-checked: the liveness properties and their fairness, which are out
of the prover's reach, and the violations.

## 6. Coverage and what is left

The order in which the project grew: the log and its endpoints, the projection,
the fold, the delegation key, the upload table, the signing keys with token
verification, the database provider with the lifecycle.

Not modelled:

* **Settings** read the environment once and keep no state; the durations they
  set are constants here.
* **Migrations** run once, from `deploy.yml`. The schema they leave is built into
  the modules. Migration 0003 counts a household's rows and then deletes it;
  against a running application its foreign keys reduce the outcome to a
  migration that fails.
* **The width of `Numeric(14,3)`.** Sums of accepted quantities may not fit the
  column; the INSERT that then fails is one of the failures `Abort` stands for.
* **Infrastructure and figures**: declarations and drawing code.
* **A composition of the request's gates.** FastAPI resolves the principal, the
  session and the household in turn, each before the handler; the modules share
  no variable, so a product of them would restate what each one shows.
* Wording, layout and pagination of responses; signatures, MACs and blob names.
