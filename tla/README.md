# A TLA+ model of shorty

`shorty-server` is a URL shortener: an HTTP API (axum) and a gRPC service (tonic)
over one table of links in Postgres (or a map in memory), a Redis cache for single
links, and a background task that deletes expired links. This directory holds its
specifications, the TLC configurations that check them, and the proofs that TLAPS
checks. All paths below are relative to the repository.

## 1. The system

| Component | Code | State | Operations | Model |
|---|---|---|---|---|
| HTTP handlers | `shorty-server/src/api/handlers.rs`, `dto.rs`, `error.rs` | none of their own: what a handler holds across its `.await`s | create, update, get, redirect, delete, list; readyz, slow, slow-blocking | `LinkService`, `Pagination` (list), `Lifecycle` (the last three) |
| gRPC service | `shorty-server/src/grpc/mod.rs` | as above | CreateLink, GetLink, ListLinks, StreamLinks; start and stop | `LinkService` (the first two), `Pagination` (ListLinks), `Lifecycle` (start, stop) |
| Repository contract | `crates/domain/src/lib.rs` | a map from codes to links | the trait `LinkRepository` | `LinkRepository`, which `LinkService` and `InMemoryRepo` implement |
| Postgres repository | `crates/storage/src/postgres.rs`, the migration | the table `links` | one or two statements per operation | `LinkService`, `Pagination` (list) |
| Redis cache | `crates/storage/src/cache.rs` | entries with an expiry | get, set, invalidate, each with a timeout | `LinkService` |
| In-memory repository | `crates/storage/src/in_memory.rs` | a map under one `RwLock`, and a `StatsStorage` | the trait | `InMemoryRepo`, `Pagination` (list) |
| Statistics | `crates/domain/src/stats.rs`, `api/stats.rs` | a ring of 60 seconds per link | record_hit, reads, top-N | `SlidingWindow`, in `InMemoryRepo`; the endpoints are not modelled |
| Cleaner | `shorty-server/src/cleanup.rs` | its interval | one purge per tick, until the token is cancelled | `LinkService` and `InMemoryRepo` (what it deletes), `Lifecycle` (how it ends) |
| Process | `shorty-server/src/main.rs` | tasks, token, tracker, runtime | start, signal, shutdown | `Lifecycle` |
| Router | `shorty-server/src/lib.rs` | none | `TimeoutLayer` is the layer that matters | `LinkService`, `Lifecycle` |
| Rate limiter | `crates/domain/src/rate_limit.rs`, `crates/storage/src/rate_limit_storage.rs`, `api/rate_limit.rs` | a token bucket per client | check_and_consume, lazy cleanup | `RateLimiter` |
| Authentication | `shorty-server/src/auth/mod.rs` | keys | login, middleware | not modelled |
| Configuration, telemetry | `config.rs`, `telemetry.rs` | values read once | - | constants of the modules |

How they interact. A request runs in a task of its own. Between two `.await`s
nothing can overtake it except through Postgres and Redis, which other requests,
the cleaner and other processes change at any time. `GET /api/v1/links/{code}`
reads through the cache and fills it; update, redirect and delete write to
Postgres and then delete the cache entry. The redirect never reads the cache. The
cleaner and the handlers share the repository; `main` shares a cancellation token
with both servers and the cleaner, and leaves when the first server has ended.

What is hard here:

- **A dropped handler.** `TimeoutLayer` (or a client that leaves, or the cache's
  own timeout) drops a future at its `.await`. What it has sent is not recalled: a
  statement may commit, and a `SETEX` may be applied, after the answer.
- **The cache and the table are two systems.** No transaction spans them and a
  fill is not ordered with the invalidations of writers.
- **Optimistic locking** and hit counting by concurrent statements, one of which
  (`update`) takes a second statement to explain why it matched nothing.
- **Two clocks.** Expiry is decided by the server's clock, read before a statement
  is sent; the cleaner's cutoff is old when its `DELETE` runs.
- **Pages.** A listing is one statement per page, and the cursor comes back after the
  table has changed.
- **Shutdown.** `select!` over two servers, a tracker with one task, a timeout, and
  a runtime that drops what is left but waits for threads that sleep; and a fixed number of workers,
  which handlers that sleep may occupy altogether.
- **Locks of several grains.** The in-memory repository counts a hit in two places under
  a read lock that others share; the rate limiter reads the clock before it takes a lock, and takes
  several, one after the other. A purge removes code by code and relies on its lock not to be seen.
- **Clocks that go back.** `SystemTime` may be set back between two hits; the instants
  that the rate limiter applies to a bucket may come out of order.

`PROJECT.json` lists every hazard at its line with the properties that watch it.

### What makes each component correct

- *Handlers and Postgres*: an update presented with a version takes effect once;
  hits are neither lost nor invented; a link that was acknowledged stays until
  somebody deletes it or it expires; nobody is redirected to a link that had
  expired when the request came; nobody gets a 404 for a link that was there all
  along; and the table changes only as the trait promises.
- *Cache*: what it serves is stale for a bounded time.
- *Handlers and `TimeoutLayer`*: every HTTP request is answered.
- *Listing*: a walk over its pages ends, shows every link that was there throughout, and
  shows none twice.
- *Process*: if its gRPC server comes up, it stops only when told to and gives a purge its time; it exits
  when told to, in bounded time, and drops the requests of one protocol at most; `readyz` turns to 503 in time.
- *In-memory repository*: it keeps the trait's contract under its locks; nobody sees half a purge; its two
  counters agree.
- *Statistics*: the cached sum is the sum of the ring, and the ring covers the last window.
- *Rate limiter*: no window of time admits more than the bucket and its refill; `Retry-After` is
  kept, up to rounding; a client is forgotten seldom, and gains a known amount by it.

## 2. The modules

| Module | What it is |
|---|---|
| `LinkRepository` | abstract: the trait as a state machine over a table and a clock |
| `LinkService` | the handlers, Postgres, Redis, the cleaner and every failure; refines `LinkRepository` |
| `MC_LinkService` | the calls and tables of its runs |
| `LinkService_proofs` | types, the inductive invariant, `NoLostUpdate`, `BoundedStaleness`, `ReadsAreCurrent` |
| `LinkHandlers_proofs` | what handlers answer: `RedirectsLiveLinks`, `CreatedLinksStay`, `HitsExact`, `NotFoundIsTrue`, and `AcknowledgedWritesAreSeen` without a cache |
| `LinkRefinement_proofs` | `LinkService` implements `LinkRepository` |
| `SlidingWindow` | the ring of seconds of one link, as operators |
| `InMemoryRepo`, `MC_InMemoryRepo`, `InMemoryRepo_proofs` | the repository in memory with its locks and statistics; refines `LinkRepository` |
| `SumLemmas` | what a fold with `+` over a finite set is, proved |
| `Lifecycle`, `MC_Lifecycle`, `Lifecycle_proofs` | the process from the spawning of its tasks to its end |
| `RateLimiter`, `MC_RateLimiter`, `RateLimiter_proofs` | the token bucket under several workers |
| `Pagination`, `Pagination_proofs` | a client that walks the pages of a listing |

### `LinkService`

Every request has a record `req[r]` whose `pc` names the `.await` it is at:

| Handler | `.await`s |
|---|---|
| `create_link` (both protocols) | `insert`, again for each generated code that is taken, then `stats` |
| `update_link` | `update`, `exists` if nothing matched, `invalidate` |
| `get_link` (HTTP) | `cache_get`, on a miss `stats` and `cache_set` |
| `get_link` (gRPC) | `stats` |
| `redirect` | `get`, the check of the expiry (`check`), `record_hit`, `invalidate` |
| `delete_link` | `remove`, `invalidate` |

One action is what the awaited statement or command does, and the code up to the
next `.await`. `check` is a step of its own because the clock moves between the
reply of Postgres and `is_expired`. `Begin` runs a handler up to its first `.await`:
it validates the input and fixes `expires_at`. `Return` answers, and `Await` goes on,
unless the handler was dropped: then only its statement ends.

Failures are actions too. `TimedOut` is `TimeoutLayer` at the deadline;
`Disconnected` a client that leaves; `DbError` an error of the pool or of the connection;
`CommandTimedOut` the cache's own timeout; each leaves what was sent on its way
(`Abandon`), to be applied later or never (`Lost`). A Redis command that nobody waits
for arrives within `WireDelay`; a statement may commit at any time. The constant
`Faults` says which of the optional failures a run has.

`links` is a set of rows with an `id`, so that a link re-created under a code
is told from its predecessor. `commits` and `retired` are history: which versions of
which rows are over, and since when.

Abstractions. Ids are random UUIDs in the code and consecutive numbers here: only
their being different matters. A URL is one of `Targets`; whether the input is valid is a
field of the call. `hits` counts from the start of the behaviour. Statuses 500, 503 and a
dropped connection are all `failed`. A code that gRPC's `create_link` takes unchecked
and the table's `CHECK` refuses is a `failed` insert (`DbError`). Redis evicts
nothing before its time; eviction would only turn hits into misses.

### `InMemoryRepo` and `SlidingWindow`

`insert`, `update` and `remove` hold the write lock to their end: one action each. `record_hit`
holds the read lock, and other threads that do so interleave with it: it counts in the entry
(`CountInEntry`), finds or makes the window (`FindWindow`), and counts in it (`CountInWindow`), with
the clock as it is then. `purge_expired` collects what has expired with the cutoff that the
cleaner read before (`PurgeBegin`), removes it code by code (`PurgeOne`) and lets go of the lock
(`PurgeEnd`). `List` is `list_sync`: under the read lock it sees all codes at once, and `seen` remembers
them. The refinement maps the whole purge to one `Purge` of `LinkRepository`, at its
beginning, and hides what is doomed (`Visible`). That nobody can look in between is not
assumed but stated: `PurgeIsAtomic` says that what a listing sees has lost none or all of what a purge removes,
and that nobody else touches a doomed entry. The other reads are of one code, and change nothing. The clock goes
on (`Tick`) and may be set back once (`SetBack`).

`SlidingWindow` has `record_hit` of one window: the cells that are cleared (`Passed`), what is
left of the sum (`Remaining`), and `get_last_60s` (`LastHits`). `hit_at` is history: the hits
themselves, by second. `inherited` is what a window held when the link was inserted: `remove` leaves
the window in the map. `presented` counts the updates that presented a version.

### `RateLimiter`

A worker runs the middleware for one caller at a time. `Begin` names the client (`ClientId`)
and reads the instant `at`; `Sweep` is `retain` of `cleanup_stale` under the lock that
holds one client; `Admit` or `Refuse` is `try_consume` under the lock of the entry. Between two locks anybody may
run, so `at` is in the past by then, and a bucket may be updated with an earlier instant than before:
`duration_since` is then zero, and `last_update` goes back. `MaxDelay` bounds how long a worker is held
up. `Watch` starts a window of time in which the requests of one client are counted; `rewound` adds up by how
much its instants went back, `forgotten` how often a sweep removed its entry, `rounded` how often its tokens were
rounded.

Tokens are `f64` in the code, refilled at a rate that is itself rounded. Here they are counted in units, `Cost` of them
for a request and `Rate` for a tick, and every result is one of the set of those that are at most a unit off: `Refilled`
is `refill` (exact when no time has passed, since nothing is added then), `RetryAfter` the division, its `ceil`, and the
branch that turns 0 into 1. `Precision` says how fine a unit is. `f64` corresponds to an enormous one, and the theorems
hold for every one, so they bound what the rounding of this arithmetic can do as long as an operation is off by less
than a unit; they do not model IEEE 754 bit by bit.

`RATE_LIMIT_CLEANUP_TTL_SECS` and `RATE_LIMIT_PERIOD_SECS` are independent, and so are `Ttl` and `Period`. With a TTL
shorter than the period (the defaults are 120 and 60 seconds), a client that was forgotten finds a full bucket that it
had not earned. `Surplus` is what it gains, nothing if the TTL is at least the period; `AdmittedBounded` counts it
once for each time the client was forgotten, and `ForgottenSeldom` says how often that may be. A capacity or a period of zero is left out.

### `Lifecycle`

`main` is at its `select!`, then waits for the tracker, then drops the runtime, then the process has exited.
The signal arrives (`Signal`); the future given to `with_graceful_shutdown` cancels the token when a worker polls it (`Cancel`);
only then does the HTTP server stop accepting (`HttpStop`), so a request may come in between. The gRPC server waits
for the token, or has panicked at its start (`GrpcStart`): its task needs an address that can be parsed, the descriptor
file, the configuration of authentication, and a free port (`GrpcComesUp`). The cleaner's `select!` does not look at the token during a
purge. `Drop` is the end of `run()`: what is at an `.await` is `cut`. The runtime then waits for
the threads that sleep, those of `spawn_blocking` (`/slow`) and workers in a handler
(`/slow-blocking`), before the process ends (`Exit`). `thread` says until when they sleep: the
thread of `/slow` sleeps on after its request was answered by `TimeoutLayer` or cut.

`readyz` reads the token first and then waits for `SELECT 1`, two seconds at most (`Dispatched`, `Due`). The other
handlers are `plain`: they are at an `.await` until they answer.

The runtime has `WorkerThreads` workers. A handler of `/slow-blocking` sleeps in one, and while all of them do,
no task runs, no timer fires and nothing is accepted: every action of a task asks for `Working`. `main` is in `block_on` on a
thread of its own, so it goes on, but the timer it waits for needs a worker. `stalled` is history: how long, since the
signal, no worker was free. The bounds of `ExitInTime` and `ReadyIsTimely` are extended by it, and by nothing else. A task that
is ready is taken by any free worker: tokio's LIFO slot, which other workers cannot steal from, is left out.

Time passes (`Tick`) only when nothing is due: a timer fires, and tokio runs a task whose event has
happened and for which a worker is free, before a second is over. This urgency is what `ExitInTime` rests on. It covers the
HTTP server, `main` and HTTP's timers; gRPC handlers and purges take as long as they like.

### `Pagination`

The client asks for a page with the cursor of the page before, until a page is empty:
that is when the server returns no cursor. `Fetch` is one call of `list`; between two
calls links are created (`Insert`) and removed (`Remove`: a delete or a purge). Rows are
ordered by creation, then by code. A row may become visible up to `CommitDelay` after
the moment its `created_at` names, which is when its transaction began (Postgres) or when
`ShortLink::new` ran (memory).

`After` is the `WHERE` of Postgres, which compares with the cursor and does not look
for its row. The in-memory `list` looks for the row itself (`Named`) by code and whole
second, and starts over when there is none. `Parsed` is what the server makes of the
cursor: over gRPC a Postgres cursor is lost. `reused` remembers that the code of a link
that was shown was taken by another; an in-memory cursor may then mean that
other link, and `WalkIsComplete` promises nothing. Pages have at least one row: HTTP's
`limit=0` answers with an empty page and no cursor.

## 3. The runs

`tlc -config <cfg> <module>`.

| Run | Configuration | Shows |
|---|---|---|
| `requests` | `MC_Requests` | types, `ReadsAreCurrent`, `RedirectsLiveLinks`, `CreatedLinksStay`, the refinement `RepositoryContract` and `EveryHttpRequestAnswered`, with every kind of call over both protocols |
| `staleness` | `MC_Staleness` | `BoundedStaleness`, with late and lost Redis commands |
| `writers` | `MC_Writers` | `NoLostUpdate`, `HitsExact`, `NotFoundIsTrue`, and `AcknowledgedWritesAreSeen` when there is no cache |
| `get_after_write` | `MC_GetAfterWrite` | a violation of `AcknowledgedWritesAreSeen` with the cache |
| `memory` | `MC_InMemoryRepo` | `HitsMatchWindow`, `SumIsBuffer`, `CountsTheWindow`, `PurgeIsAtomic`, and the refinement `RepositoryContract` |
| `in_memory_update` | `MC_InMemoryUpdate` | a violation of `NoLostUpdate` in memory |
| `rate_limit` | `MC_RateLimiter` | `AdmittedBounded`, `RetryAfterKept`, `ForgottenSeldom`, `SweptBeforeUse`, with a TTL shorter than the period |
| `shutdown` | `MC_Shutdown` | with one worker: `OneServerDrains`, `PurgeGetsTimeout`, `StopsOnlyWhenTold`, `ExitInTime`, `ReadyIsTimely`, `SignalLeadsToExit` |
| `shutdown_in_flight` | `MC_ShutdownInFlight` | a violation of `InFlightRequestsFinish`: an HTTP request is cut |
| `shutdown_no_auth` | `MC_ShutdownNoAuth` | a violation of `StopsOnlyWhenTold` without authentication |
| `pagination` | `MC_Pagination` | `WalkIsComplete`, and for Postgres `WalkDescends` and `WalkEnds`, over HTTP |
| `pagination_grpc` | `MC_PaginationGrpc` | a violation of `WalkEnds` over gRPC |

Bounds, and why they are enough. A behaviour has two or three requests, and each may be
any of the run's calls. The races of this code are between two handlers over one
row; a third request is the one that sees, or repeats, what they did. One code
is enough where codes do not interact; they do only through generation, and there a drawn
code that is taken is drawn again, and may have been freed by then. `requests` starts with a link that
expires during the behaviour; its faults are those of Postgres and of clients, those of Redis are
`staleness`'s (in `requests` a Redis command may still never be answered).
Versions 1 and 2 let an update succeed, conflict, and follow another.
`RequestTimeout`, `WireDelay` and the TTLs are one second each, so that a late
command, a timeout and an expiry fall into every order before `MaxTime`, and no
request begins that would outlive it. In `staleness` the jitter is larger than the TTL,
which exercises the clamp to one second. `CleanupPeriod` is longer than the
behaviour where the cleaner plays no part: it then purges once, at the start. Requests
are interchangeable (symmetry) in the runs without liveness. In `shutdown` the clock
stops at `MaxTime` unless the process is stopping, when it may go on past the latest exit that
`ExitInTime` allows. One worker is the least there can be: one of the two HTTP requests can
stop everything, before or after the signal, and the other one suffers. The sleep of three seconds is longer than
`TimeoutLayer`'s two, and these are longer than `SELECT 1`'s one; the latest exit is reached. `shutdown_in_flight` has one HTTP request
and no gRPC request.
In `memory` a window has three cells and the clock five seconds, so that a ring wraps, ages
and is cleared whole; two threads and three hits interleave with a removal, an update, a purge and
a clock that is set back. With its one code a listing sees the entry during a purge or it does not; more codes and threads, and
purges of several codes, are the proofs' part (`PurgeIsUnseen`). In `rate_limit` the bucket holds one token of six units and refills
two in a tick, so that a unit of rounding matters; the TTL of one tick is shorter than the period of three, so that a
client is forgotten with its bucket partly full and more than once; two workers, each late by a tick at most, act for two
clients, one known by its key and one by a proxy's header. The latter is watched: nothing tells the two apart.
`pagination` has three codes and pages of two rows, so that a page is full, partly filled or empty,
and three instants, two of them in one second: rows share their `created_at`, share only
its second, or differ in both. Links are created and removed without a limit; only the clock stops.
`pagination_grpc` needs one instant and two links.

`writers` has no `"db"` failure: what it would add, a statement that commits
although its request has failed, `TimedOut` does there for every request.

Behaviours end where requests are answered once, the process exits, or a walk is over, and
deadlock is not checked there; it is in `memory` and `rate_limit`.

### Fairness

`LinkService!Fairness` assumes the clock, the timers of `TimeoutLayer`, and the end of
what is on the wire, and nothing of Postgres, Redis or clients: `EveryHttpRequestAnswered`
rests on `TimeoutLayer` alone. gRPC has no such layer, and no such property.
`Lifecycle!Fairness` assumes that tokio runs what is ready, that threads that sleep wake, and that
`TimeoutLayer` answers HTTP requests. It assumes neither that a gRPC handler ends nor that a purge does.
`Pagination!Fairness` assumes that the client goes on asking and is answered; nothing bounds
how many links are created between two pages.

### Where the code and its documents disagree

1. **A GET after an acknowledged write may show the old link** (`get_after_write`).
   `get_link` reads Postgres; a writer updates, deletes the cache entry and is answered;
   the first GET's `SETEX` then stores what it had read (`handlers.rs:143`). No failure is
   needed. `BoundedStaleness` says how long it can last.
2. **In memory there is no optimistic locking** (`in_memory_update`; `in_memory.rs:191`, `handlers.rs:70`,
   `README.md:127`). `update` drops the version it is given: two updates that present the same one both succeed, and
   nobody is told of a conflict.
3. **Requests in flight are not waited for** (`shutdown_in_flight`; `main.rs:184`,
   `README.md:303`). The idle server ends `select!`, the cleaner ends at once, and the
   process exits under the other server's requests.
4. **`DISABLE_AUTH` stops the server** (`shutdown_no_auth`; `grpc/mod.rs:80`,
   `README.md:73`).
5. **gRPC's `page_token` is not understood** (`pagination_grpc`; `grpc/mod.rs:207`,
   `README.md:20`). The token is `created_at:code`; it is split at `:`, and an rfc3339
   timestamp has colons of its own. Every page is the first.

### Observations

What was met while modelling and needs no run to be seen:

- gRPC's `create_link` parses `ttl_seconds` and drops it (`grpc/mod.rs:149`; `README.md:184` shows it): the link never
  expires. `LinkService` models it so.
- `build_router` makes the state of the rate limiter and drops it (`lib.rs:116`): no route is limited, though
  `api/rate_limit.rs:62` says that `POST /api/v1/links` is.
- The endpoints of statistics read a `StatsStorage` (`main.rs:119`) that nobody writes; the one that is written belongs to the
  in-memory repository. They answer zeros.
- `remove` in memory leaves the window (`in_memory.rs:67`), though `stats.rs:123` says it is for that: the next link under the
  code inherits it. `HitsMatchWindow` says by how much.
- `get_last_60s` does not clear what has passed since the last hit: hits up to two windows old, less two seconds, may be
  counted (`stats.rs:80`; `CountsTheWindow` has this bound).
- A client of the default limiter (10 in 60 seconds) that was left with no token at all and retries each whole second is
  refused once more at the sixth, when it was told to come: six sixths add up to 0.9999999999999999 in `f64`
  (`rate_limit.rs:56`). `RetryAfterKept` therefore says what such a bucket may lack.
- The Docker image's last stage copies the binary only (`Dockerfile`), and the gRPC server opens
  `proto/shorty.v1.shorty.bin` under the path where it was compiled (`grpc/mod.rs:71`). There its task panics, `select!` ends and the
  process stops untold. The same follows from an address of gRPC that cannot be parsed (`main.rs:169`) or bound. `GrpcComesUp` has all of these;
  finding 4 is the one that a document denies.
- Tokens are signed with the configured issuer and audience and checked against the defaults (`auth/mod.rs:228`): with
  `AUTH_ISSUER` set (`README.md:74`), a token from the login is refused.

## 4. The proofs

`tlapm <module>_proofs.tla`. All of them hold for any set of requests, calls, codes and
targets, any number of workers, any configuration of times, and every combination of faults. They assume the
`ASSUME`s of the modules: that times are natural numbers (`RequestTimeout`, `ShutdownTimeout`, the
cleaner's period, and the limiter's capacity and period positive), that the calls are well-formed, and that the database
starts as Postgres keeps it, unique by code and by id. `ClockAssumption` of the in-memory repository also
keeps the clock's bound `MaxTime` beyond its `Start`.

**`LinkService`.** `TypeCorrect` is inductive by itself. The other properties are not: they
speak of rows that were read, replaced and perhaps removed long ago. `IInv` adds

- `VersionsInv`: rows are unique by code and id, and a row is ahead of every version of
  it that has ended. So "this version is over" is a fact of the history alone;
- `UpdatesInv`: an update wrote the version after the one it presented, and the row has
  not gone back since. Two updates that present one version cannot both
  have matched: `NoLostUpdate`;
- `ReadsInv`: what a request holds from the database ended, if it did, after the
  request began: `ReadsAreCurrent`;
- `TimersInv`: no HTTP handler outlives its deadline, and no `SETEX` left behind is later
  than `WireDelay`;
- `CacheInv`: hence an entry expires within `StalenessBound` of the end of
  what it holds, which gives `BoundedStaleness`.

The steps are classified first (`TableStep`: what a step does to the table;
`ChangesStep`: what it does to a request), so that each part of the invariant is shown
for a handful of shapes and not for twenty actions.

**What handlers answer** (`LinkHandlers_proofs`) rests on `IInv` and on a second classification: `Turn` says what a
step does to one handler, which `Starts`, `Inserts`, `Updates`, `Hits`, `Removes`, `Looks`, `Finds` an entry in the cache, or
`Passes` and leaves everything else alone (`StepTurns`). `AnswersInv` adds

- `HandlersInv`: a handler reads, then writes, then says so, and a redirect that got as far as the counter has seen only a
  row that was alive when it began: `RedirectsLiveLinks`;
- `WrittenInv`, `CreatesInv`, `DeletesInv`: ids are given once; a row that was created is there under its id, code and expiry,
  or was removed, or has expired; a row that was removed does not come back. `CreatesInv` speaks of every row that was written,
  answered or not, since the answer comes later: `CreatedLinksStay`;
- `CheckInv`: between a redirect's read and its check of the expiry, the link it was asked for, if it is still there, expires
  when the row says. A handler answers `not_found` only from a step that found no row, or from that check
  (`NotFoundTurn`): `NotFoundIsTrue`;
- `SeenInv`: without a cache, what a GET has seen is not older than a write acknowledged before it began, because the
  table is not (`TableShows`): `AcknowledgedWritesAreSeen`. With a cache it is false, as the run `get_after_write`
  shows, so the theorem assumes `~CacheEnabled`;
- `HitsInv`: a row's counter is the number of redirects that were counted on it. That these are finitely many is part of
  the invariant, so `HitsExact` is proved for infinitely many requests too.

**Refinement.** `ImplementsRepository`: the initial table is one of the contract's, and each
shape of `TableStep` is one operation of the contract or a stutter. The mapping forgets
ids and reads the row of each code.

**`InMemoryRepo`.** `MInv` says who holds which lock (`LockInv`: a purge excludes hits, and whoever counts a
hit keeps the entry and the window where they are) and that a window's total and the threads on their way to it make up the
entry's counter (`CountInv`). It gives `HitsMatchWindow`, and with the table as it is without what a purge has doomed, the
refinement: `PurgeBegin` is the contract's `Purge`, and `PurgeOne` a stutter. `PurgeIsUnseen` is what justifies that
mapping, for any number of codes: whoever reads finds the lock free, hence nothing doomed, and whoever writes cannot be at a doomed entry.

**The ring.** `RingInv` says that a window's cached sum is the sum of its buffer (`CachedSumIsExact`: what
`record_hit` subtracts is what it clears, so the subtraction cannot wrap, however the clock is set back), and, while the clock has
not been set back, that the buffer `Mirrors` the hits of the `WindowSize` seconds that end with the last hit. No two of
these seconds share a cell and together they have all of them (`CellsAreApart`, `WindowHasCells`: arithmetic modulo `WindowSize`), so
the sum is that of the hits, and `WindowIsCounted` follows. The sums are folds, defined by recursion over sets.
`SumLemmas` proves what is needed of them: that the recursion has a solution, that the order does not matter, and how a sum is
split, changed at one place, and renamed. The library's induction theorems take an operator as their
parameter; these lemmas do without, by taking a least set among the counterexamples (`LeastSubset`).

**`RateLimiter`.** `Budget` says that what was admitted since the window began, and what is
in the bucket, does not exceed a full bucket and the refill up to the instant last applied, plus the time that instants went
back, a unit for each time its tokens were rounded, and the `Surplus` for each time it was forgotten. A sweep keeps it because a stale entry has not been touched for longer
than the TTL: the refill of that time and the `Surplus` together fill it (`Worths`). `Seldom` says that two sweeps that forgot
the client are a TTL apart, measured by the instants applied: `ForgettingIsSeldom`. `Owed` says that a promise of `Retry-After` is covered by
the bucket and its refill, but for a unit and what was rounded since; a client whose entry is gone has a full bucket.
Nothing is assumed of the TTL and the period but that the former is a natural number and the latter positive.
`SweptInv` says that behind a worker's sweep there are only entries that are fresh at its instant, or were written since by a
worker whose own instant is at most `MaxDelay` old: `MapIsSwept`.

**`Lifecycle`.** `LInv` says in which order things stop (`OrderInv`), that a server that has
ended has answered everything (`DrainInv`), and that `main` leaves its `select!` only after a server is done, which is
after the signal, with a deadline a whole timeout later, if the gRPC server comes up (`MainInv`). `OneServerDrains` and
`PurgeGetsTimeout` follow, and `StopsOnlyWhenTold` where `GrpcComesUp`; without it the run `shutdown_no_auth` refutes it. `TInv` bounds times: how old a
request and a sleeping thread may be (`RequestTimes`), and how long ago the signal came, by where `main` is
(`MainTimes`). Both count from `Told`, the signal and the time since that passed without a free worker: `Tick` adds a second to
both sides while no worker is free, and otherwise waits for what is due. This gives `ExitInTime` and
`ReadyIsTimely`, for any number of workers and requests.

**`Pagination`.** `PInv` places the walk: what stayed and was not seen comes after the cursor
(`AheadInv`), what was seen does not (`BehindInv`), and a row under a code that was shown is the row
that was shown (`ShownInv`), which is what an in-memory cursor rests on. `WalksAreComplete` holds for
both repositories and both protocols, `PagesDescend` for Postgres over HTTP.

**Only model-checked**: liveness (`EveryHttpRequestAnswered`, `SignalLeadsToExit`, `WalkEnds`), which is beyond the prover. Every
invariant and every action property of a passing run is proved, `AcknowledgedWritesAreSeen` for no cache, as in the run that checks it, `StopsOnlyWhenTold` for a gRPC server that comes up.

## 5. Not modelled

- **Authentication** (`auth/mod.rs`, and `authenticate` of gRPC): straight-line checks around libraries'
  cryptography. No state is kept between requests but two key files, read at every use; there is nothing to interleave. That gRPC
  panics without its configuration is in `Lifecycle`.
- **Configuration** (`config.rs`): read once before any task runs. Its values are constants.
- **Telemetry, tracing, metrics, request ids, the limit on bodies, Swagger**: output, or checks of one request.
- **Startup** before the tasks are spawned: sequential, and any failure is a panic before the first request.
- **`StreamLinks`**: a stub that reads two fixed codes and sends at most two events to a channel.
- **The endpoints of statistics and `get_top`**: they read a storage that is never written, see above.
- **The encoding** of cache entries, cursors and timestamps, except where a property is about it (`Parsed` in `Pagination`).

## 6. Plan

Done, in this order: `LinkRepository`, `LinkService`, `Lifecycle`, `Pagination`, `RateLimiter`, `SlidingWindow`
with `InMemoryRepo`, their runs, the inductive invariants, both refinements, what handlers answer, and the sums of the ring. Of
what the runs check, only liveness has no proof. Left: what `get_last_60s` may answer once the clock was set back, which
no property bounds; and `f64` itself, of which only the size of its errors is modelled.
