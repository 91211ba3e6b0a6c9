# A TLA+ verification of ffxiv-census

ffxiv-census discovers FFXIV characters on the Lodestone through a pool of
public HTTP proxies and keeps statistics about them. This directory holds TLA+
modules of the parts in which several processes share state, the TLC runs that
check them on small instances, and TLAPS proofs for every size.

## The system

| part | state | operations | interacts with |
|---|---|---|---|
| work queue (`infrastructure/rabbitmq`) | main, failed and dead queue per event; attempt and not-before headers; unacknowledged deliveries | publish with confirm, consume, retry or park a failure, republish from the failed queue, TTL dead-lettering | every publisher and worker |
| proxy rows (`postgres/repository/proxy*.go`, `domain/proxy`) | evidence, schedule, scan lease, consumer lock, destination cooldown | claim/complete/release a scan, claim/refresh/fail/cool down/release a proxy | scan dispatcher, hub |
| scan dispatcher, endpoint guard (`domain/proxy/worker`, `infrastructure/proxy`) | free slots, in-flight counts, owned leases; guard generation | admit, check, complete, drain; control request | proxy rows |
| census worker, proxy hub (`domain/census/worker`, `domain/proxy/hub.go`) | current proxy and limiter per worker, wake-up token | acquire, check, use, replace and release a proxy around each job | queue, proxy rows |
| handlers, service, repositories (`domain/census`) | characters, milestones, order of the next census | fetch, upsert, mark deleted, chain jobs | Lodestone client, limiter, queue |
| sweeps (`cmd/cli/publish.go`) | `id_sweep_state` and `fill_gaps_state` cursors | read the cursor, publish chunks, advance by compare-and-set | queue, characters |
| proxy discovery (`cmd/cli/proxy.go`, list clients) | known addresses, publishing session | stream a list, look up, publish, insert | queue, proxy rows |
| UI statistics (`ui_stats*.go`) | stored document, advisory lock, cached copy, loading flag | refresh, read, reload | database, pages |

The hard behaviours are at-least-once delivery with retries of three kinds;
leases and locks that expire while their holder works; statements that waited
for a row; answers of the Lodestone that are written late; cursors several runs
advance; caches reloaded while they are refreshed. `PROJECT.json` lists the
hazards line by line with the properties that would catch them.

## Modules

**WorkQueue** models `queue.go` for one event type. `slot` holds the stored
copies of messages, `pc`, `cur` and `live` the worker or failed-queue worker
(retrier) that has one and whether its channel is still open. Publishing the
replacement and acknowledging the original are separate steps, each of which
can fail; a publish that reports an error may have been stored.
**ReliableQueue** is the abstract promise of `port/contract/queue.go`: a job is
accepted, then completed or parked. **WorkQueueRefinement** maps one to the
other. Abstractions: deliveries are not FIFO; any unheld failed message may
expire, which includes what the head-of-line rule of RabbitMQ allows; elapsed
backoff is a flag on the message. A retrier that loses its channel goes straight
to its end, because parking or acknowledging on a lost channel has no effect.

**ProxyStore** models one row of `proxies` and all statements that write it.
One row is enough: no statement relates two rows except by a shared batch token,
and every fence also names the row. Each statement or transaction is atomic, as
it locks the row. `leases` and `held` are the records dispatchers and consumers
carry through a network check and may use after they lost the row.
`StatementTimes` gives an UPDATE that waited for the row lock a timestamp up to
`MaxLockWait` old, as `statement_timestamp()` does. An ambiguous commit is the
accepted effect or `AbandonScan`. `last_alive_at` and `last_verified_at` are
always set together and share a variable.

**ScanDispatcher** models one `proxy scan` process: the dispatcher goroutine, its
executors, the guard and the shutdown, with **Admission** for the arithmetic of
`admission.go`. Every store call is a step, so that results, outages, expiries
and the stop signal fall between any two claims of one pass. The rows keep only
what the dispatcher can tell apart, health and lease; a claim may find any of
the unleased rows due. `finish` and the write of its result (`CompleteScan`) are
two steps: the guard is read again in the first, and nothing looks at it in the
second. `outage`, `outageBlamed` and `lost` (rows whose lease a failed store call
left behind) are history.

**ProxyWorker** composes the worker loop of `worker.go` (proxy mode), the hub and
the consumers' statements over several rows. A row keeps whether it is fresh,
cooling down, locked and by whom. `seen` says that the version a worker captured
is still current. The errors of a job come from **Lodestone** (`client.go`:
statuses, retries, challenges, what each becomes), the kinds of a check from
**Transport** (`proxy_transport.go`, `health.go`, `checker.go`: where a request
fails, why, and who is blamed). An operator of Transport gives the set of errors
its code can return: a deadline of the connection races that of the context, and
`net/http` may report the caller's context in place of the dial's own error. A
lock may run out under a long job (`LockOutrun`); `kept` is history, the claims
that a failed store call left locked.

**CensusIngest** models the publishers, the three job handlers, the service and
the character and milestone statements, above the Lodestone client. The request
and every statement after it are separate steps, the Lodestone changes between
them, and a delivery that fails anywhere comes back with its earlier statements
left in place. `order` is the order of `last_census_at`. The messages are a set:
a second copy of a queued job adds nothing, as a redelivery of any job is
possible anyway. A sweep covers all of `Characters`. The detail requests of one
achievement census are one step: what they find is a prefix of what was earned
at that time, and anything earned between two of them is found by the next.
When the query for the known milestones fails, the handler asks for all of them
(`AskKnowing`). The backoff between attempts and the parking of a job at
`max_attempts` belong to WorkQueue and are left out.

**UIStats** models `refresh ui-stats` (lock, transaction, validation, upsert) and
the cache of the server. **StatsSnapshot** holds the queries with their grouping
sets, `ValidateUIStatsSnapshot` and the windows the pages show, over a table of
characters. Time is reduced to whether the TTL has passed; each request
remembers what it read of the clock before it took the mutex.

**Discovery** models the discover commands over their providers, the rotating
client, the publishing session (a channel that the broker closes stays closed,
`queue.go` replaces only connections), the new-proxy consumers and the insert.
A page reports its number of records and a total, either of which ends the list
(`NextPages`); a stream may break off inside its list, which is an error, or
between two fields before it, which is not (`Silent`). A new-proxy job that keeps
failing is parked by WorkQueue; here it stays in the queue.

**SweepJobs** holds what the two sweeps share: the characters, and the chunks of
`buildIDSweepJobs` in `uint32` arithmetic (`MaxUint`). **IDSweep** models the
forward sweep; each publish and each SQL statement is a step. **FillGaps** models
the gap sweep the same way, including that MaxID, the cursor and the gap query
are read at different times, and the gaps-and-islands query itself (its rows are taken to
arrive in ascending order, as the window sorts them; the outer query has no
ORDER BY). **Sweeps** lets both work on one table, where each moves the maximum
the other reads and the consumers of either store characters.

## Runs

| run | instance | shows |
|---|---|---|
| queue | 2 jobs (one poison), 2 workers, 1 retrier, 4 slots, 1 disruption | no loss, one duplicate per fault at most, attempt accounting, a stored job settles, refinement of ReliableQueue |
| proxy_store | 2 consumers, 4 claims, 7 time units | the fences of locks, evidence and cooldowns, with leases that expire under their holder |
| scan_dispatch | 2 rows, 1 or 3 slots, weights 50/25/25, 1 fault | slots are neither lost nor invented, an outage seen by the last look at the guard is never blamed on a proxy, shutdown ends and leaves only leases that a failed store call or an overlap of two attempts explains, verification is never starved |
| proxy_worker | 2 workers, 2 rows, 2 faults | no row is taken under a live lock, none is forgotten unless a store call on it failed, deliveries end while rows come back to health, shutdown ends unless the pool is dead for good |
| ingest | 2 characters (one changing), 2 milestones, 2 workers, limit 1, 1 change, 1 fault | the sweep leaves nobody out, chains are kept, no false death, rows converge to what the Lodestone shows, restricted pages apart |
| ui_stats | 2 characters, 2 refreshers, 2 requests, 2 refreshes, 2 writes, 1 fault | one reload per TTL and server process, nobody goes back in time, a document is of one moment, windows are exact, requests are answered, the copy catches up |
| discovery | 4 addresses, 3 kinds of provider, 3 pages of which the second is short, 2 commands, 2 consumers, limit 3, 1 fault | what counts as published is durable, a command without failures covers what its JSON providers told of, evidence is kept, commands end |
| id_sweep | 2 daemons, 1 operator, IDs up to 7 | no hole behind the cursor; batches end, everything is swept |
| fill_gaps | 2 scanners, 1 manual run, IDs up to 7 | the gap query is exact, no hole behind the cursor, only a scanner with a stale MaxID wraps it; every gap is queued |

Three runs show a disagreement between a document or comment and the code
(`findings` in `PROJECT.json` has the quotations):

- **fill_gaps_wrap**: the gap cursor of a lone scanner never reaches MaxID,
  which is a stored ID and so never part of a gap; the sweep does not restart.
  The wrap is taken only by a run whose MaxID is older than the cursor it reads
  (`WrapIsStale`, checked by fill_gaps and proved).
- **ui_stats_unknown**: a character of a datacenter the hierarchy does not know
  makes two groups of the document collide, and every refresh is refused while
  it is stored.
- **ingest_starved**: `ListStale` orders by `last_census_at`, which deletion and
  hidden or unreadable profiles do not move; as many such rows as the limit starve
  the rest, a reappeared character included. `Converges` is what does hold: a character ends
  up as the Lodestone shows it while fewer than `Limit` other rows are stuck.

Further disagreements came up in the modelling and have no run of their own:
with a failed-queue consumer each failure counts two attempts, so the delays are
5, 20, 80 seconds (`queue.go:334`) where `docs/queue.md:69` has 5, 10, 20; a
delivery is redelivered while its handler still runs (`queue.go:502`,
`docs/queue.md:207`), which `DuplicationBudget` allows for; a worker subscribed
to a `.failed` queue ignores the backoff (`queue.go:488`, against
`queue.go:376`), so `BackoffHonoured` is stated for consumers of main queues; a
retryable job is parked at `max_attempts` (`queue.go:360`, against
`queue.go:529`). Of the proxies: `NewProxy` returns without releasing its claim
when the refresh, the failure report or the cooldown fails or its context has
ended (`hub.go:63`, `hub.go:86`, `hub.go:95`, against `hub.go:107`), which
`NoOrphans` excepts; a row leased again while the result of its previous attempt
still waits is not released at shutdown, nor is one whose store call failed,
which `ShutdownReleases` excepts; a delivery that loses its proxy replaces it
even after the stop signal (`worker.go:519`) and waits for the replacement under
the processing context, so a pool that is dead for good keeps the process from
stopping, which `ShutdownEnds` excepts; an outage that begins between the last
look at the guard and the write is not seen (`scan.go:473`), so
`OutageNeverBlamed` goes up to that look. Of the data: a restricted page (403)
is marked deleted (`client.go:427`, `handler/character.go:53`), where
`docs/census.md:127` says the row is left untouched; `Converges` asks nothing of
such rows. A response of proxyscrape or pubproxy that ends between two fields
before its list is taken for an empty one (`proxyscrape/client.go:77`,
`pubproxy/client.go:74`), and a short page ends a geonode list whatever its total
(`geonode/client.go:119`); `Covered` excepts the first and speaks of the pages up
to the second. Two web replicas (`k8s/values.yaml:61`) keep a copy of the statistics each:
`ReloadPaced` and the reader's half of `NeverOlder` hold for each of them, and a
client that goes from one to the other may see an older document.

**Bounds.** A fault is one failed request, statement, publish or check, one lost
channel or one crash; the bound on faults limits how many of them one behaviour
has, not where they fall. One is enough for every single fault in every state;
proxy_worker allows two, for a fault during the recovery from another. The
theorems below hold for any number. `MaxAttempts = 3` lets a job be retried,
counted twice and exhausted; four slots hold a job, its replacement and two
duplicates; `Legacy`, messages left over from an unknown event type, is empty in
the run and arbitrary in the proofs. Seven time units let a lease or a lock
expire, be taken again and the first holder return. One slot exercises the
credits of a small scan worker, three the reservations and the borrowing. A
limit of one makes two characters compete for every census batch, one change
makes an answer stale while it is written (which of two like characters changes
does not matter to the code, so `Changing` fixes it); ingest_starved has three
changes, to remove two characters and return one, and one consumer of profiles. Two windows of two days put a character on
the first and on the last day of one. Seven as the largest `uint32` puts a
chunk, a range and a batch at the overflow; counts 1 and 3 with the flag 7 give
an explicit range that fits and one that wraps. Three proxies with three
attempts let the rotation meet every mixture of refusing and working ones.
Bounds appear only in guards. Except in proxy_worker, deadlock is not checked:
the bounded instances end when their bounds are used up or the process stops.

**Fairness.** Goroutines are scheduled, timers fire and the broker delivers:
weak fairness of workers, retriers, dispatcher, requests, commands and of expiring
locks, cooldowns, pauses and TTLs; a scan lease need not expire. Handlers return,
because requests have timeouts. A check is assumed to end only while the process
is not being stopped, so that `ShutdownEnds` does not rest on it. The
guard repeats its controls. Nothing makes a dead row healthy again in ProxyWorker:
`DeliveryEnds` supposes of its behaviours that every row is healthy again and
again, `ShutdownEnds` that not all rows are dead for good. Sweeps and the character census are started every
minute or two by their CronJobs (`k8s/values.yaml`); nothing is assumed of the
refresh job or of the achievement publisher. In CensusIngest the start of each
queued job is strongly fair, because a queue delivers in order and a pause of the
limiter may interrupt the weak form for ever. `Settles` bounds a job's failures
(`AttemptCap`): a handler that fails for ever is parked only by a retrier. Faults,
changes of the Lodestone and the storing of new characters are never fair.

## Proofs

All proofs follow Init => IInv, IInv /\ [Next]_vars => IInv', IInv => property, for
every value of the constants that satisfies the named assumptions of the modules.

- **WorkQueueProofs**: type correctness, `NoLoss`, `AttemptAccounting` and
  `ExhaustionBudget`, `DuplicationBudget`, `BackoffHonoured` (workers consume main queues only) and
  the refinement of ReliableQueue. `NoLoss` is not inductive: an Ack removes a
  copy, so `SafeCopy` asks for a copy nobody is about to acknowledge, and
  `Custody` ties what an actor holds to the stored copy. `StoredOK` and
  `CapturedOK` say what the headers mean in each queue. For `DuplicationBudget`,
  `PaidFor` counts the copies nobody is about to acknowledge together with the
  workers that go on after their channel was lost (`Stale`): the replacement such
  a worker publishes is a duplicate that the loss paid for some steps before.
- **ProxyStoreProofs**: type correctness and the properties of the run;
  further `LeaseFence` (nobody else ends an unexpired lease), `Classification`
  (status, failure count and step agree), `StepFence` (an accepted failure
  advances the step by one) and `RepeatFloor` (no early rescan).
  The core is `Known`: a captured record with the current version has the
  current step and is no older than the stored evidence. The assumptions are
  those `validateProxySettings` enforces.
- **ScanDispatcherProofs**: type correctness, `Capacity`,
  `OutageNeverBlamed`, `OwnedIsOutstanding`, `ShutdownReleases`, and
  `TargetsProportional` from a lemma for every concurrency and all legal weights.
  `GenerationsOrdered` carries the outage argument: an attempt that saw one
  started under an earlier generation. `Leases` carries the shutdown argument:
  of several attempts on a row only the last can hold the lease, and one that is
  alone is owned. `Accounted` adds where a lease without an attempt of its own can
  come from: a result that is about to be written, or a store call that failed.
  `Sized` counts attempts against slots.
- **ProxyWorkerProofs**: type correctness, `Exclusive`, `NoOrphans`. Every step of
  a worker leaves the other workers and the validity of their locks alone; the
  invariant adds to the types that a lock time has an owner and that a worker
  replacing a row has had one. `kept` is tied to the steps: a row leaves a worker's
  hands freed or recorded there. `BlameIsProven` is a fact about Transport, by cases
  over protocols, steps and causes: a check blames the proxy only while its caller
  waits; a Lodestone request also for a dial, a refusal or a SOCKS5 handshake that
  its own context broke off.
- **CensusIngestProofs**: type correctness, `SweepComplete`, `ChainKept`,
  `NoFalseDeath`, `NothingInvented`. The last four are not inductive, as they say
  nothing of what a worker carries between its steps. `WorkerOK` says that an absence, a milestone or a
  latest achievement in a worker's hands is backed by what the Lodestone showed,
  `Ledger` that what a handler has passed is stored and its chained job held, on
  its way or done, and `Owed` that a job disappears only when its part is done.
  `AnswerTrue` is the fact about the client it rests on: no sequence of retried
  answers yields a genuine status that is not the true one. `TypeOK` says that
  the re-census order lists each stored character once; `Reordered` shows that an
  upsert, which moves a row to the end, keeps it so, and `Carried` that a worker
  brings back only milestones that are tracked.
- **UIStatsProofs**: type correctness, `Coalesced`, `NeverOlder`, `ReloadPaced`,
  `OneMoment`, `WindowsExact` and `RefreshAccepted`.
  `Locked` orders the generations of refreshes, `Ordered` puts what a load has
  read between the copy and the row, `OneLoad` keeps others from replacing the
  copy meanwhile, `Paced` says that nobody has seen the copy expire too early.
  `Faithful` says that what a refresh has read and what is stored come from one
  view of the table. The rest is about the queries: `SumOfFibres`, a sum over
  groups is a sum over the rows they group, gives the windows of every scope from
  the per-world series, and `GroupsDistinct` that no two groups collide.
  `WindowsExact` and `RefreshAccepted` assume `KnownProfiles`: the hierarchy knows
  the stored worlds and the lookback covers both windows. The ui_stats run
  satisfies it; ui_stats_unknown does not, and there `RefreshAccepted` fails.
- **SweepProofs**: of the gap sweep type correctness, `GapsExact`, `GapNoSkip` and
  `WrapIsStale`; of the forward sweep type correctness, `NoSkip`
  and `CursorForward`. `AscendingOK` shows that the ranges the query returns can
  be put in order, `FoundMissing`, `MissingFound` and `FoundApart` that the rows
  between stored IDs are the missing IDs as maximal ranges, cut at the cursor and
  at the limit. `GapInv` adds to `GapNoSkip` what a run knows: no ID between the
  cursor it read and its last gap is out of reach of what is stored, queued or
  still to be published (`Publishing`), so a late compare-and-set is safe
  (`Advancing`). For `WrapIsStale`, `Bounded` follows MaxID through a run: it is a
  stored ID, the gaps found below it end below it, and so does the last job.
  `BatchProgress` says what part of its range a forward run has queued. `NoHole`
  is the promise of both on one table: each invariant survives the steps of the
  other sweep, as a publisher stores nothing and a consumer only adds.
- **DiscoveryProofs**: type correctness, `PublishedIsDurable`, `Covered`,
  `EvidenceKept`, and `RotationTheorem` about the rotating client. `Covered` speaks
  of finished commands; `Progress` is what it means for one under way: the
  providers before the current one are covered, and so is all of the current one
  that is neither on a list still to be read nor left of the list being read. It
  is kept because an address that is stored, queued or with a consumer stays so.
  The assumptions say what a list is: pages of addresses, one for a stream, the
  last page of a paged one short.

Proved and in no run, because the theorem says more than an instance would: the
type invariants of all modules but CensusIngest and Discovery,
`ExhaustionBudget`, `BackoffHonoured`,
`Classification`, `StepFence`, `LeaseFence`, `RepeatFloor`, `OwnedIsOutstanding`,
`TargetsProportional`, `BlameIsProven`, `NothingInvented`, `Coalesced`,
`CursorForward`, the rotation and `NoHole` (Sweeps is only proved about). `RefreshAccepted`, which a run refutes
for a row of an unknown datacenter, is proved for known ones.

Recursive functions and sums are proved about by taking a least counterexample
(`WFMin` on the naturals), since the induction theorems of the library, which
take an operator, cannot be used. Three definitions are written for the sake of
the proofs: `Ascending` of FillGaps chooses the sorted sequence where the library
would call a sort the prover cannot see into, `Upsert` of CensusIngest removes the
one occurrence of a row by its place instead of filtering the order, and Discovery
names what it assumes of its lists.

Only model-checked: the liveness properties, as fairness is out of the prover's
reach (`Settles`, `Converges`, `GapsQueued` and the like).

## Not modelled

- HTTP API, pages, templates and middleware, apart from the request for
  statistics: they read, render and keep no state another part depends on. The
  request limit is one atomic counter.
- Parsing of Lodestone pages and provider lists, the bytes of proxy handshakes,
  encoding of payloads: text processing, which the modules replace by the
  outcomes their callers tell apart.
- The read side of the service and of the repositories (search, paging, export,
  counts for the status pages): single SELECT statements.
- The publishing mutex of `queue.go`: whether a silent broker ever confirms is a
  fact about the broker, and a property would restate the assumption made of it.
- Logging, metrics, configuration loading, wiring, start-up, schema migrations,
  seeding of the milestone registry. `migrate queue` copies a table that
  migration 00010 has dropped.
