# Verification of the document search server

This directory holds TLA+ models of the server in this repository (a Kotlin
Spring application over PostgreSQL that stores documents and their versions,
queues their indexing, and searches the indexed chunks) and of the scripts that
test and evaluate it, the TLC runs that model-check them on small instances, and
TLAPS proofs about them.

Paths below are relative to the repository. `.../` stands for
`src/main/kotlin/com/osscontest/server/`, `migration/` for
`src/main/resources/db/migration/`.

## The system

Several API server instances and several indexing workers share one PostgreSQL
database, which a standby follows. The workers are another repository; their
transactions are written down in `docs/SCHEMA.en.md` and repeated, statement by
statement, in
`src/test/kotlin/com/osscontest/server/indexing/IndexingJobRecoveryTest.kt`.
Nothing but the database is shared: every interaction is a transaction, and the
server's own memory holds only two search caches.

| Part | State | Operations | Hard because |
| --- | --- | --- | --- |
| Indexing job queue (`migration/V20261014_001`, `V20261012_001`, `.../indexing`) | `indexing_job` rows, `document.execution_epoch` | enqueue (triggers, manual retry), claim, heartbeat, result, failure | leases expire under a worker that still runs; jobs of one document must keep their order over retries and recoveries |
| Reclaim procedure (`V20261014_003`, `_004`) | the same rows; a primary marker | scan, lock and recheck each candidate, commit | reads without locks, then skips locked rows; runs beside everything else |
| Document service (`.../document/service/DocumentService.kt`) | `document`, `document_version`, stored objects | create, add version, title, delete, choose the searched version, lists, download | an object is uploaded inside a transaction; the entity is read before the lock and flushed with all its columns |
| Access control (`DocumentAccessChecker.kt`, `DocumentPermissionService.kt`) | `document_access_scope` | grant, revoke, effective permission | check and change are separate statements; administration takes no lock |
| Lists and cursors (`Cursor.kt`) | none | keyset pages filtered by permission | rows move between two pages |
| Failover (`scripts/ha`, marker table) | marker row, WAL timeline | start, restart, promotion, grace period | a promotion may lose the marker or expire every lease at once |
| Notifications (`V20261015_001`) | LISTEN sessions | notify on insert, retry, reclaim | a lost connection loses notifications |
| Search (`.../search`) | none | vector and keyword search, rank fusion, details, reranking | several statements, each with its own snapshot |
| Search caches (`CorpusStatsCache.kt`, `QueryEmbeddingCache.kt`) | in memory | read, refresh, evict | refreshes race with each other and with readers |
| HA test runner (`ha-test/hatest`, `ha-test/node`) | lock directory, run directory, cluster | baseline, scenario, recording, measurement, restoration, simulation | must restore the cluster whatever step fails; measures while the cluster changes |
| Evaluation scripts (`scripts/eval`) | a sheet of questions, a rate limiter | build the sheet with a pool of threads, search with and without reranking | depends on external limits, on caches and on an index that changes |

### What makes each part correct

- **Queue.** Jobs of a document run one at a time in enqueue order; an execution
  that lost its lease cannot write; a result is final; a deleted document keeps
  no chunks; every job finishes.
- **Reclaim.** Only a job whose lease is expired at the moment it is taken is
  put back, however long ago it was read as a candidate.
- **Documents.** Version numbers have no gaps or duplicates; a committed version
  has its object; a deleted document is frozen; a full-column flush never
  overwrites a promotion done by a worker.
- **Access.** The author keeps access; no operation runs on a permission that was
  revoked before the check; a grant names a principal that can use it.
- **Failover.** No lease is reclaimed in the grace period after a promotion.
- **Search.** The owner of a document finds it as he reads it; when reranking
  fails, the best scores are still found.
- **Caches.** Statistics never go back to an older snapshot, and the corpus is not
  scanned once per search.
- **HA runner.** One test at a time; whatever fails, the cluster is back in its base
  state or a person has been told. A measured outage is not shorter than the real
  one, and a row reported lost is lost.
- **Evaluation.** The sheet does not depend on the order in which threads finish;
  the external service is never asked more than it allows; a silent fallback shows.

## Modules

| Module | Contents | Status |
| --- | --- | --- |
| `IndexingQueue` | the queue and the reclaim procedure, all properties | done |
| `OrderedJobs` | abstract specification: each owner's jobs run in order | done |
| `IndexingQueueInv` | the inductive invariant, in named parts | done |
| `MCIndexingQueue` | model values and symmetry for TLC | done |
| `IndexingQueueProofs` | theorems | done |
| `DocumentStore` | document and version transactions, objects, flush | done |
| `VersionedDocuments` | abstract specification: numbered versions, one change at a time | done |
| `DocumentStoreInv` | the inductive invariant, in named parts | done |
| `MCDocumentStore` | model values and symmetry for TLC | done |
| `DocumentStoreProofs` | theorems | done |
| `DocumentPermissions` | grant, revoke, effective permission, statement by statement | done |
| `AccessList` | abstract specification: each request allowed at one moment, applied at another | done |
| `DocumentPermissionsInv` | the inductive invariant, in named parts | done |
| `MCDocumentPermissions` | model values and symmetry for TLC | done |
| `DocumentPermissionsProofs` | theorems | done |
| `RecoveryPrimary` | marker, callback, grace period over starts and promotions; the gate of `IndexingQueue`'s reclaim | done |
| `RecoveryPrimaryInv` | the inductive invariant, in named parts | done |
| `MCRecoveryPrimary` | model values and symmetry for TLC | done |
| `RecoveryPrimaryProofs` | theorems | done |
| `HaTestRun` | runs of the HA test tool: base-state check, lock, faults, restoration | done |
| `HaTestRunInv` | the inductive invariant, in named parts | done |
| `MCHaTestRun` | model values and symmetry for TLC | done |
| `HaTestRunProofs` | theorems | done |
| `ReadLoad` | the client of test H-2 against lost requests and forgotten sessions | done |
| `WriteRecord` | the recorder, the kill, `write_stop` and `loss` of tests H-3 and H-4 | done |
| `Simulation` | the six tests in `--simulate` mode, on a fake clock | done |
| `MCHaTests` | one run of the tool, or one of the three above, for TLC | done |
| `HaTestsProofs` | theorems about `ReadLoad`, `WriteRecord` and `Simulation` | done |
| `RerankAb` | `rerank_ab.py`: warm-up, rate limiter and pairs of searches, with the server's side of a search | done |
| `QaSet` | `build_qa_set.py`: a pool of threads, retries, the order of the results | done |
| `EvaluationProofs` | theorems about `RerankAb`, `QaSet` and `EvalMetrics` | done |
| `EvalMetrics` | pure functions of the two scripts beside their definitions | done |
| `CorpusStatsCache` | the corpus statistics of a server under concurrent searches | done |
| `CorpusStatsCacheProofs` | theorems | done |
| `MCEvaluation` | one script, the searches of one server, or one input of a pure function, for TLC | done |

An MC module composes components that do not act on each other (`MCHaTests`,
`MCEvaluation`) as alternatives: the first state chooses one, and the others stay as
they are. `HaTestRun` in `MCHaTests` is an instance, so that its names stay apart.

### Not modelled

- **Lists and cursors.** A page changes no state, and depends on the page before it
  only through the last row's sort key. The two statements behind a list are in
  `DocumentPermissions`.
- **Job notifications.** The server only sends them, inside transactions that
  `IndexingQueue` has. Who listens is the worker, which is not in this repository;
  `JobsFinish` assumes polling alone.
- **Tokens, BM25 and the SQL of the two rankings.** Computation over single snapshots.
  Of the search, `RerankAb` has what follows the two ranked lists: scores, cuts, details,
  reranking, its default and its fallback; `DocumentPermissions`
  the permission condition, and `CorpusStatsCache` the statistics.
- **Circuit breaker.** This repository has its tables only; the transitions are the
  worker's.
- **Web layer and MCP tools.** No state between requests.
- **Data sources and transactions.** Pools and session settings; the transactions
  they carry are the steps of the modules.
- **Column encryption, object storage client.** Functions of single values; the order
  of the storage calls is in `DocumentStore`.
- **Monitoring, provisioning, reports** (`report.py`, `grafana.py`, the terminal):
  configuration and layout.
- Of the HA test runner, the role log and the CPU and activity samples of a real
  cluster, and the commands `restore` and `all` as actors of their own.
- Of the evaluation, `percentile`, `bootstrap_ci` (a seeded random sample),
  `search_test.py` (the same search and percentile) and the export of chunks.

## IndexingQueue

### State

| Variable | Column or process state |
| --- | --- |
| `job` | `indexing_job` by `enqueue_seq`; an absent row has status `ABSENT`; `NULL` times are 0 |
| `nextSeq` | the sequence behind `enqueue_seq` |
| `latest`, `deleted`, `searchable`, `epoch` | columns of `document` |
| `indexed` | versions with `document_version.indexed_at` set |
| `chunks` | versions with rows in `document_chunk` |
| `holder` | who keeps the document row lock beyond one step |
| `runs` | executions in the memory of workers: the job and the token of their claim |
| `reclaim`, `cands`, `taken` | the open reclaim transaction: candidates not visited, rows updated and not committed |
| `now` | the database clock |

### Steps and their code

Every transaction of the server and of a worker locks the document row before
the job row, so a transaction that holds the lock for no longer than its own
statements is one step. Two are split. `addVersion` stores the object while it
holds the lock (`UploadBegin`, then `UploadCommit` or `UploadRollback`). The
reclaim procedure reads its candidates without a lock (`ReclaimScan`), visits
them one by one and keeps each document locked (`ReclaimVisit`, which skips a
locked document), and makes its updates visible together (`ReclaimCommit`) or
not at all (`ReclaimRollback`).

- Server: `CreateDocument`, `UploadBegin/Commit/Rollback`, `DeleteDocument`,
  `SetSearchable` (`DocumentService.kt`), `Retry` (`IndexingService.kt`), each
  with the job that its trigger or repository inserts.
- Worker: `Claim`, `Heartbeat`, `FinishIndex`, `SkipIndex`, `FinishDelete`,
  `FailTransient`, `FailFinal`; `DropRun` is a crash, or giving up after a write
  that matched no row. A run stays in `runs` after its job has been reclaimed:
  these zombies go on trying to write.
- Clock: `Tick` advances while a lease or a retry time lies in the future. Times
  are only compared with `now`, so a later tick would show nothing new.

### Abstractions

- `enqueue_seq` comes from a sequence and rows of *different* documents may be
  committed out of its order. The model inserts in order. Rows of one document
  are inserted under its lock, and order between documents matters to no
  property.
- pg_cron starts no second run of a job while one is open, so there is one
  reclaim transaction at a time. The primary marker and its grace period are
  left to `RecoveryPrimary`; without them reclaim may run at any time, which
  allows more.
- The circuit breaker is taken as closed: an open one only delays claims.
- A worker is allowed to fail any job at any time, with either kind of failure.
- Versions, leases, backoff and attempts are numbers given by constants.

### Properties

Safety: `InOrder`, `SingleWriter`, `OneActiveJobPerVersion`,
`SearchableIsServable`, `NoChunksAfterDelete`. Steps: `ReclaimsOnlyExpired`,
`LiveTokenStands` (while the lease of an execution runs, no step of anybody else takes
its token away: not a claim of another job of the document, which draws from the same
epochs, nor a reclaim, nor a zombie), and `FinishedIsFinal`, which is proved and in no
run: the refinement says as much. Refinement: `ImplementsOrderedJobs`. Liveness:
`JobsFinish`. `TypeOK` is the type invariant and `IInv`, which contains it, the
invariant of the proofs. Each is explained where it is defined. The operators marked
"Mutant" beside a definition are plausible slips (a dropped lock, a weaker
token, a missing check) that make a run fail; they show that the property sees
the code it is about.

Two facts that the model brought out and that a reader of the code may expect
otherwise:

- The document lock does not fence *results* against an open reclaim: result
  writes need a lease that is not expired, and what reclaim takes is expired.
  The lock fences *heartbeats*, which are accepted on an expired lease and would
  otherwise renew a job whose reclaim is not committed yet.
- A DELETE job that ends `FAILED` leaves the chunks of its document for good:
  nothing retries it, because `retry` wants a document that is not deleted.
  `NoChunksAfterDelete` therefore speaks of completed DELETE jobs.

## DocumentStore

### State

| Variable | Column or process state |
| --- | --- |
| `row` | columns of `document` that requests and workers write; `latest = 0` means no row |
| `version` | `document_version` by number: object key and content hash |
| `indexed` | versions with `indexed_at` set |
| `jobs` | what the two triggers enqueued, in order |
| `drawn` | ids taken from the identity sequence, also by a creation that failed |
| `lock` | the row lock of `SELECT ... FOR UPDATE` |
| `tx` | each request in the server: the entity as loaded and as changed, the stored object, whether the database still has the session |
| `store`, `uuid` | objects in the storage, random names drawn |
| `reported` | `duplicateOfVersionNo` of each upload's response |

### Steps and their code

A request is split where another process can come in between: loading the row
under the lock (`Load`, from `requireWritableForUpdate`), changing the entity in
memory (`UpdateTitle`, `Delete`, `UpdateSearchable`, `TakeNumber`), storing the
object (`Put`), and the commit (`Commit`, `CommitVersion`), in which Hibernate
flushes every column of a changed entity and the triggers run. A creation has no
row to lock (`StartCreate`). `Fail` is every way to roll back: a refused
permission, a version that is not indexed, a failed upload or a crash.
`LoseSession` takes the database's half away while the server goes on; its
upload may still complete, its commit cannot. The worker's promotion
(`FinishIndex`) waits for the lock and writes one column.

### Abstractions

- A content and its SHA-256 hash are one value: equal hashes mean equal files.
- An object name is its document, version and a number never drawn before, for
  the random UUID.
- Ids of version rows are their numbers. `searchable_version_id` refers to one.
- Lists and details change nothing and are left out; permissions are left to
  `DocumentPermissions`: here any request may pass or fail the check.
- A promotion needs only an uploaded, live version; the queue's order of
  promotions is in `IndexingQueue`. This allows more than the workers do.

### Properties

`StoredAsHashed`, `JobsFollowVersions`, `DuplicatesAgree`; the refinement
`ImplementsVersionedDocuments`. The invariant `IInv` of the proofs, which contains
`TypeOK`, is proved, and left out of the run.
The refinement is the claim a reviewer would argue about: a full-column flush of
an entity that was loaded earlier never puts an old value over the promotion of
a worker or over another request, because the row lock is held from the load to
the commit and every other writer waits for it. The mutant that loads without
`FOR UPDATE` breaks it.

Objects of uploads that were rolled back stay in the storage. No code removes
them, and no property speaks of them.

## DocumentPermissions

### State

| Variable | Column or process state |
| --- | --- |
| `scopes` | rows of `document_access_scope` of one document |
| `nextId` | the identity sequence of their ids |
| `deleted` | `document.deleted_at` is set |
| `lock` | the row lock that writers of the document take |
| `tx` | each request: what it asks for, how far it is, the row it has loaded |

A request ends by returning to `Idle`: from `ok` it has reported success, from
anywhere else it has reported an error.

### Steps and their code

Each statement of a request is a step, because under READ COMMITTED each sees
what was committed before it: finding the document (`Find`, `FindLocked`),
reading the user's permissions and checking the request (`Authorize`, from
`require`, `validatePrincipal` and the test that keeps the owner's row), loading
the row it is about (`Locate`), and the write with its commit (`Insert`,
`Update`, `Remove`, `Delete`). A list or a detail reads the documents (`List`)
and then their permissions (`Respond`). `Fail` is any error, among them the
unique constraint at an insert and Hibernate's exception when an update or a
deletion matches no row; for the write steps those conditions are guards.

### Abstractions

- One document. Rows of different documents have nothing in common.
- The effective permission is the maximum of the rows; that it satisfies a
  requirement is said as "some row does".
- A principal id is a name. Names that are read as the number of a user but
  written differently are `Respellings`; ids of nobody here are `Strangers`.
- The foreign key of an insert locks the document row in a mode that the
  requests which change the document (`FOR NO KEY UPDATE`) let pass.
- A failed insert also takes an id; gaps in the ids matter to nothing.

### Properties

`SearchedAsReadable` relates two rules of the code: every check has an exception
for the owner, the search has none, so his row must survive every sequence of
grants and revocations. `RevokesWhatItRead` and the refinement
`ImplementsAccessList` are about the rows loaded before others change them: a
revocation never takes a later grant away, and a grant whose row has gone fails
instead of reporting success. What the code does *not* promise is visible in
`AccessList`: a request is allowed at one moment and takes effect later, when
its user may have lost the permission that allowed it.

**Findings.** `permissions_list`: `DocumentService.kt:371` says that a listed
document always has an effective permission, because both queries use the same
condition. They are two statements; a revocation between them fails the whole
list with an internal error. `permissions_spelling`:
`DocumentPermissionService.kt:97` says that only existing principals are granted
permissions. The check parses the id (`"01"` is user 1), the row keeps the text,
and the lookup compares text, so the grant is reported and reaches nobody.

## RecoveryPrimary

### State

| Variable | In the code |
| --- | --- |
| `up`, `role`, `started`, `timeline`, `leader`, `starts` | PostgreSQL processes and Patroni's leader key (external); `pg_postmaster_start_time()`, the timeline of the WAL file name |
| `writableAt` | when recovery ended; stored nowhere, the properties compare with it |
| `marker` | each node's copy of the row of `indexing_recovery_primary` |
| `job` | each node's copy of one `indexing_job` row |
| `callback` | attempts left of `mark-indexing-primary.sh`, or that it gave up |
| `run` | the claim each worker believes in, and its last accepted renewal |
| `now` | the clock |

### Steps and their code

- Servers (external): `Stop`, `Restart` (the last leader, as a primary),
  `Follow` (as a standby), `Promote`, `Open` (the end of recovery) and
  `Replicate`. `Restart` and `Promote` begin the callback script.
- `mark-indexing-primary.sh`: `CallbackSucceeds` is an attempt that reaches a
  writable server and calls `mark_indexing_recovery_primary` (`Mark`);
  `CallbackFails` is any other, and the last one ends with exit 1
  (`Failed`). `CallbackAgain` is a duplicate call by Patroni.
- `reclaim_expired_indexing_jobs`: `Reclaim`, behind `MayReclaim` (writable,
  record of this start and timeline, grace period over). Its interleaving with
  workers is in `IndexingQueue`.
- Workers, as `IndexingJobRecoveryTest` reproduces them: `Claim`, `Heartbeat`
  (an expired lease may be renewed), `Finish` (it may not), `DropRun`.

### Abstractions

- Replication is asynchronous: a standby takes over the whole state of the
  primary at any moment or never, so a promotion may lose any suffix of writes.
  A former primary rejoins only through a start, as it does after a rewind;
  hence in this model the start time alone tells two terms of one server apart.
- Patroni gives the leader key to one node at a time, and a primary that has
  lost it is stopped first. A primary that writes on after losing the key is
  outside the model.
- Clocks of the nodes agree. `clock_timestamp()` of a new primary that lags
  behind the old one would lengthen or shorten leases.
- The documents give the lease (60 s) and the grace period (30 s) but no
  interval of heartbeats. `Beat` is an assumption on the workers: one that can
  reach a writable primary renews within `Beat`, which is less than both.
- A claim takes the next epoch of the one job; attempts and retries are left to
  `IndexingQueue`.

### Properties

The record is replicated like any row, so a new primary begins with a record of
an older start whose grace period is long over, and with leases that ran out
while nobody could write, or whose renewals were lost. `ReclaimsAfterGrace`
compares each reclaim with the moment the server really became writable, which
the code does not store. `LiveWorkerKeepsItsJob` is what the grace period is for.
`ReclaimedOrAlerted` is the other side: an abandoned job is put back unless the
script has reported failure. If recovery takes longer than ten attempts, the
start is never recorded and reclaiming stays off until the next callback; the
script's comment says so and asks for an alert.

## HaTestRun

### State

| Variable | In the code |
| --- | --- |
| `leader`, `patroni`, `streaming`, `armed` | Patroni's leader key, Patroni and PostgreSQL on each node, who streams, a watchdog that nobody feeds (external) |
| `ssh`, `enabled`, `dropIn`, `proxy`, `vip` | what `node_facts` reads, and the systemd drop-in of `kill_db_stack`, which it does not |
| `lock` | `<remote_dir>/lock` on the observer node, with its owner |
| `pc`, `locked`, `touched` | where `TestRunner.run` is, and its locals |
| `down`, `todo` | `members` as `restore_cluster` asked for them once, and the rest of its loops |
| `pgpass`, `warned` | the password file of the run, and the warning about it |
| `told` | a person has seen the commands of `manual_restore_hint`, or has removed the lock |

### Steps and their code

- `TestRunner.run`: `Begin`, `CheckBaseline` (`AtBase` is the checklist of
  `baseline.py`), `ConfirmInjection`, `AcquireLock`, `StartRecorder`, the scenario,
  then the `finally` block: `StopRecording`, the restoration, `ReleaseLock`.
- `scenarios.py`: H-1 and H-2 are `Observe`; H-3 and H-4 are `InjectKill` and
  `FollowPromotion`, then `ReviveOldPrimary` or `CompareRows`; H-5 and H-6 stop a
  service, follow, and start it again.
- `restore_cluster`: one action for each part, in the order of the code, from
  `AwaitNodes` to `EvaluateRestore`. `GivesUp` is the exception that ends it.
- A script that is sent to a node may have its effect and be reported as failed,
  or stop after any of its commands (`steps`).
- `Interrupt` is Ctrl-C before the `finally` block, `Kill` the end of the process
  or Ctrl-C inside it. `Unlock` is `ha-test unlock`, used as its comment asks, while
  nobody is testing; `Repair` is a person who was told. What else the cluster does by
  itself is external: `Failover`, `Follow`, `Reboot`, `BootUp`, `MoveVip`.

### Abstractions

- Measurements and verdicts are left to `ReadLoad`, `WriteRecord` and `Simulation`,
  reports are left out; a scenario may leave at any step because what it asks may
  fail.
- A snapshot, or one query of all members, is one moment.
- The nodes of a loop are visited in any order.
- A script does not outlive its call. One that runs into the timeout of its
  call may go on at the node; what it can still do depends on the SSH server.
- A reboot leaves OpenProxy as it was on the two proxy nodes.
- `ha-test restore` and `ha-test all` are not separate actors; `all` is runs one
  after the other. `restore` takes no lock.

### Properties

`Exclusive` and `NoSilentFault` are the promises of the tool to the other users
of the cluster. The second needs more than the restoration being run: a watchdog
armed by the kill may reboot the node after it was revived, and only the fact
that the old Primary is then a replica, not the Leader of the base state, keeps
the checklist from being passed too early. `EveryRunEnds` assumes nothing of the
cluster. Three statements of the documentation do not hold; see the end of the runs.

## ReadLoad, WriteRecord, Simulation

What goes on inside a run of the test tool, each as a small machine of its own.

`ReadLoad` is the client of H-2 (`appclient.py`, `ReadDistributionScenario`). State:
the client's MCP session, the sessions the server opened, knows, and has seen
initialised; the counters of the load; the uploaded document and what the user was
told. Every request may be answered, refused, handled with its answer lost, or lost
(`Fates`), and the server may forget a session (`Expire`). `SessionsAreFresh`: no tool
is called in a session whose notification failed, and a forgotten session costs one
search. `LeftoverKnown`: a document that was found on the Primary is deleted, or the
user knows its number. It does not cover every document: when the answer to the upload
is lost, or the query for its row fails, a document stays that nobody is told of, although
`scenarios.py:219` says that it is deleted.

`WriteRecord` is how H-3 and H-4 measure a failover (`recorder.sh`, `measure.py`).
State: the attempts of the recorder, each an own process that may commit and be
answered late or never; the rows of the Primary, of which a promotion keeps any prefix;
the moments of injection and kill; what the scenario has read. `LossIsReal`: rows that
H-4 reports lost are lost, although the recorder still writes while log and rows are
read one after the other; and if it passes, nothing answered before the injection is
missing. `StopCoversOutage`: the stop H-3 measures is not shorter than the outage. It
assumes an old Primary that answers within the interval until it is killed (`healthy`):
an attempt that fails before the kill and one that succeeds after that failure, before
the kill too, would together look like a short stop (`measure.py:51`). A run without a
failed attempt is left out of `WriteStop`, since an outage here outlasts the timeout.

`Simulation` is `--simulate` (`simulated.py`): the simulated nodes, the changes its
script makes at set times, a fake clock, and the loops of `scenarios.py` and
`restore_cluster` that poll it. Time is in half seconds. `ScriptDecides`: a test passes
in every configuration exactly when its script keeps the limits of the test procedure,
and the cluster is in its base state afterwards with nothing left to happen, unless a
change comes later than the wait for it; such a change happens during or after the
restoration. `events` only grows and `done` holds what has happened (`_events`,
`_done`), so a change that is overtaken by the end of the test shows. Three things the
model brought out: a limit that is polled every two seconds is, in effect, the last look
before it (`LastLook`); H-3 waits for the reboot from the moment it stops following, so
how long a reboot may take depends on when the promotion is noticed (`FollowEnd`); and
both VIP watches of H-5 report a move whatever the VIP has done, because the query for
the log finds the event the injection has scheduled (`simulated.py:435`), so that
criterion cannot fail there.

## RerankAb, QaSet, EvalMetrics

`RerankAb` is `rerank_ab.py` and the side of the server it meets. State: the question at
hand, the limiter's deque (every noted time is kept in `log`; the deque is the part from
`head`), the answer of the "off" arm, what happened to the pairs; at the server, the
embedding cache in order of use, whether it reranks by default, and the calls the
reranking service has seen. `Warmup`, `SearchOff`, `Acquire` and `SearchOn` follow the
script; `Abort` is an exception of the measured loop. Searches take any time up to
`MaxLatency`, and sleeps end late.

Each search has a *view* of its own: the order of the vector search, the order of the
BM25 scores, and the chunks whose rows are gone when the details are read. Nothing ties
one view to the next: documents are indexed and deleted, `CorpusStatsCache` may refresh
between two searches, and either may read another replica. From a view the search
computes what `hybridSearch` does. `Score` adds `1 / (RRF_K + rank)` of both lists, in
whole units, so that equal sums are equal; the code adds doubles, which may tell two such
sums apart. `Cut` takes the best, equal scores in the order of insertion (`Ahead`):
`TopK` of them without reranking, `Pool` with it. `Rows` gives the rows in any order, `Items` sorts them by score and by
nothing else, and `Top` cuts again. Each list ranks whatever chunks its view says: BM25,
tokens and the recall terms are not modelled. A failed rerank returns the `Items` of the
larger cut.

- `WindowRespected` and `NeverThrottled` are two sides of the limiter: it spaces
  departures, the service counts arrivals. One call of slack (9 against 10) suffices
  because the script has one request under way.
- `FailOpenIsFlagged`: the server hides a failed rerank, and the report infers it from
  equal orders. `Kind` says what the two searches of a pair had before them: "clear" is
  one view for both, without lost rows and without equal scores. Such a pair never falls
  back unflagged. It says nothing of the others: a "moved" pair may differ in anything, and
  in a "tied" one chunks of equal score may change places or be cut in either arm, so
  that a fallback goes uncounted (see the refuted statements). Ties are no exception: a
  rank in one list and the same rank in the other score the same.
- `WarmedPairsAreFair`: both arms of a warmed question hit the cache if it is large
  enough.

The second and the third need a server that does not rerank by default. The "off" arm leaves the
field out of its request, so with `search.rerank.default-enabled` set it is reranked as
well; see the refuted statements. A limit of 0, which switches the limiter off, is left
out. A search without a candidate does not call the service, although the limiter has
noted a call (`Search`).

`QaSet` is `build_qa_set.py`: `attempts` in the order they were submitted, the `stage` of
each in its thread, and the main thread that consumes, cancels and waits.
`KeepsFirstAccepted` says that the sheet holds the first accepted attempts in the order
of submission whatever order they end in. The sheet is sorted by chunk id before it is
written, so the set of its chunks stands for it. `BuildEnds` says that the script ends.

`EvalMetrics` has the overlap check and the sign test as operators, whose inputs are
chosen in the first state:
`SharedNgramIsLongest` compares the scan, which tries only lengths above the best so far,
with the longest common substring; `SignTestIsExact` compares the p value with the share
of all outcomes that are at least as lopsided, counted one by one.

## CorpusStatsCache

State: the two volatile fields `cached` and `cachedAt`, the monitor of `refresh()`, each
search's place and locals, the clock. A lookup is four to six steps: it reads the two
fields one after the other (`ReadCached`, `ReadCachedAt`), enters the monitor and looks
again (`EnterRefresh`), scans with two statements (`CountWords`, `CountChunks`, each of
which may fail), and writes the two fields. Scans are numbered as they begin. The clock
only advances; a clock that is set back would delay a refresh.

`StatsNeverGoBack`: a lookup never returns older statistics than one that had returned
before it began. `ScansAreSpaced`: however many searches find the cache expired
together, the scans that reach it are an interval apart. What it does not promise is
`StatsAreCurrent`, the finding of `search_statistics`: `cached` is read before `cachedAt`,
so a lookup overtaken by a refresh takes its old statistics for new, among them the empty
ones of the start.

## Runs

| Run | Instance | Question |
| --- | --- | --- |
| `queue_safety` | 1 document, 2 workers, 3 jobs, 2 versions, 2 attempts, 1 heartbeat | the inductive invariant, the safety and step properties and the refinement in every interleaving |
| `queue_liveness` | 2 documents, 1 worker, 2 jobs, batch of 2 | every job finishes, where documents share a worker and a reclaim batch |
| `queue_retry_claim` | 1 document, 1 version, 2 jobs | a claim of the README about manual retry, refuted |
| `docstore` | 2 documents, 2 requests, 3 versions, 3 uploads, 2 titles, 2 contents | objects, triggers, duplicates and the refinement, with a worker on the same rows |
| `permissions_races` | owner and member, tenant, 2 requests, 3 rows | the access list, the rows that are revoked, and what a search finds |
| `permissions_list` | the same | a claim in a comment about lists, refuted |
| `permissions_spelling` | 1 request, 5 names | a claim in a comment about grants, refuted |
| `recovery` | 2 nodes, 2 workers, 1 more start, stops until time 2 | the inductive invariant, the safety of reclaiming over restarts and promotions, and that an abandoned job is put back or an alert was raised |
| `harness_safety` | 3 nodes, 2 runs of H-3, H-5 or H-6, or H-1 beside H-4 | the inductive invariant; one test at a time; no fault is left silently |
| `harness_tests` | 1 run of any test; 3 rounds of searches and 2 lost sessions; 6 intervals; scripts around every limit | a run ends; the client, the measurement and the simulation of the tests |
| `evaluation` | 4 questions; 4 excerpts of 3 documents, 2 threads; 2 searches, 3 scans; texts of up to 4 letters, up to 6 pairs | limiter, fallback, warm-up, sheet, pure functions, statistics |
| `search_statistics` | 2 searches, 2 scans | a claim in a comment about the age of the statistics, refuted |

**Bounds.** Jobs of a document depend on each other in pairs (an earlier job and
a later one); three jobs give a pair with one in between, for example two
versions with a deletion, or a version, its reindex and a deletion. Two
attempts give a first execution, its loss or failure, and a second one at the
limit. Two workers give a zombie and a new owner, and one worker may be both.
One heartbeat lets an expired lease be renewed between the scan and the visit.
Lease and backoff of one tick let both expire. A batch of one leaves a candidate
out, a batch of two keeps a lock while another candidate is visited. The proofs
hold for all values. Deadlock is not checked because a bounded queue ends: when
every job row is used and finished, nothing is left to do.

In `docstore` two requests give a holder of the lock and one that waits or
has lost its session; three versions of two contents give a duplicate that is
not of the version before; three uploads leave one for a version number that is
taken again after a rollback. Two titles tell an old title from a new one, and two
ids let creations overlap with uploads. A deleted document
with nothing under way leaves no step, so deadlock is not checked.

In `permissions_races` two requests give every race between a check and a
change, two first grants of one principal included; two initial rows and one more
give a row that is revoked and granted again under a new id, with the name of the
tenant or of the member. A deleted document lets no request begin, so deadlock is
not checked.

In `recovery` two nodes give an old and a new primary with their copies,
and `MaxStarts = 3`, which counts the first start of each node, leaves one more: a
restart in place or a return as a standby, never both in one behaviour; a fourth start
takes TLC past its time, and the proofs hold for any number. The grace period and the lease are two ticks and `Beat` is one,
the smallest values that differ. Nothing stops, starts, claims or renews after
`Busy`; the clock goes on until every lease and grace period is over. Two
workers give one that still believes in a claim which a promotion has undone, and
the next owner. One attempt of the script may fail or succeed; more attempts only
postpone that. When the starts are
used up and all servers have stopped nothing is left to do, so deadlock is not
checked.

In `harness_safety` three nodes are what the configuration asks for. Two runs
give one at work and one that is late. H-3, H-5 and H-6 have the three faults and the
reboot and are tried beside each other; H-4 does less than H-3, and H-1 and H-2 inject
nothing, so H-4 and H-1 are tried beside each other (`Paired`). When all runs are over and nobody was told, nothing is left to do, so deadlock
is not checked.

In `harness_tests` three rounds and two forgotten sessions give a session that is
opened anew twice. Six intervals, of which the kill may be in any of the first three,
leave attempts before the kill, in the outage and after the promotion, of which two
overlap. A timeout of one interval (ten in the code) is the smallest with an
overlap. The scripts have each value of a time at its limit, on either side
of it and far beyond it; three configurations put the VIP on each node and stop
Patroni on either replica. All parts end, so deadlock is not checked, nor in
`evaluation`.

In `evaluation` the limiter lets 2 calls through in 3 units and the service 3 in 3,
the relation of 9 in 62 and 10 in 60; four questions overrun the limit and come back
under it. Each question may meet a view whose three scores differ (`Clear`); the first
also one with two equal scores, the second also one whose only row is gone. `TopK` is 1
and the pool 2, the smallest values for which the two arms cut differently.
Four excerpts of three documents with one share each give three attempts for a sheet of
two: one that is past the target when the loop stops. Two tries give a retry and the
last refusal. Texts of up to four of two letters, and up to six pairs, are the inputs of
the pure functions. Two searches give one that scans and one that waits
or is late, three scans a refresh after a failed one.

**Fairness** (`harness_tests`). Each script has a timeout, each wait a limit,
and the user answers; so a run that can go on does. Nodes need not boot, nor
replicas stream, nor people act.

**Fairness** (`recovery`). pg_cron calls the procedure every 30
seconds, the script makes its attempts one after the other and ends, and time
passes. Nothing is assumed about attempts succeeding, servers starting or workers.

**Fairness** (`evaluation`). The threads and the main thread of the script are
scheduled, and each call has a timeout, so it ends in some way; what it answers is open.

**Fairness** (`queue_liveness`). Workers poll, so a claimable job is taken; a
claim and a reclaim that find a document locked skip it, so both need strong
fairness, which excludes uploads that hold the lock at each single attempt and
no others. An execution ends in some way, a crash included, since heartbeats
stop with the process. An upload ends by commit or rollback because the storage
client has a timeout. pg_cron calls the procedure every 30 seconds, and its
transaction is not rolled back for ever. Nothing is assumed about attempts
succeeding: a job may end `FAILED`.

`JobsFinish` has one exception, which is the finding below: a job reclaimed at
the attempt limit, and whatever stands behind it.

**Finding.** `README.en.md:65` says that a job which automatic retries could not
recover can be retried by hand. If the worker of the *last* attempt is lost, the
procedure puts the job back to `PENDING` with its attempt count at the limit.
No worker claims it again, `IndexingService.retry` accepts only `FAILED`, and
later jobs of the document wait behind it, the DELETE job included.

**Finding** (`search_statistics`). `CorpusStatsCache.kt:16-18` says that every lookup
checks the age of the statistics and refreshes expired ones. Lines 31 and 32 read them
and their time as two fields. A search that reads the first, is overtaken by the first
refresh of the server and then reads the second ranks with empty statistics, under which
every word weighs the same; later, the statistics may be of any age.

**Refuted by hand.** Six more configurations refute what comments and documents say.
The first three are for `MCHaTestRun`.

- `HaTestRun_baseline.cfg` (`StartsAtBase`): the base state is checked before the
  lock is taken and not after it (`runner.py:70-72`), so a test can start on a
  cluster that the test before it has just left broken, although
  `ha-test/README.md:72-73` says that it does not start then.
- `HaTestRun_password.cfg` (`PasswordFileKnown`): `recorder_close` drops the result
  of its script (`cluster.py:269-275`), so the warning about a password file that is
  left (`runner.py:161`) is never shown.
- `HaTestRun_dropin.cfg` (`NextStartsAlike`): the restoration does not look for the
  drop-in with `Restart=no` (`commands.py:119-121`), so a kill script that failed
  after writing it leaves a node that systemd does not restart, and the next test
  does not start under the same conditions (`ha-test/README.md:80`).
- `Evaluation_default.cfg` on `MCEvaluation` (`OnlyOnArmReranks`): a search of the "off"
  arm does not send `rerank` (`rerank_ab.py:78`), so a server that reranks by default
  calls the service in the warm-up too, past the limiter, although
  `rerank_ab.py:178-179` says that it does not.
- `Evaluation_ties.cfg` on `MCEvaluation` (`TiesAreFlagged`): `rerank_ab.py:16-19` says
  that a failed rerank goes back to the RRF order and is noticed by an order equal to the
  "off" arm's. With two equal scores it need not be: the "off" arm keeps the chunk that was
  inserted first (`SearchChunkRepository.kt:71`), the fallback what the unordered query
  returned first (`SearchChunkRepository.kt:167-169`).
- `CorpusStatsCache_idf.cfg` on `CorpusStatsCache` (`IdfNotNegative`): the frequencies and
  the number of chunks come from two statements (`CorpusStatsCache.kt:52`). A deletion
  committed in between gives a word more chunks than there are, and its IDF may be below
  zero, contrary to `CorpusStats.kt:20-21`.

## Proofs

`IndexingQueueProofs` proves, for every value of the constants that satisfies
`BoundsAssumption` and `NullAssumption`: `Invariant` (`Spec => []IInv`) and from
it `TypeCorrect`, `OrderedExecution`, `Fencing`, `NoDuplicateJob`, `Servable`,
`DeletionIsComplete`; the step properties `FinalityOfResults`, `ReclaimSafety`,
`TokenStability` (`Spec => LiveTokenStands`); and `Refinement`
(`Spec => ImplementsOrderedJobs`). `TokenStability` needs the order of jobs: claims of
one document draw from one sequence of epochs, and it is because a running job is the
first unfinished one of its document (`InOrder`) that no other claim of that document
can come before it ends (`ClaimElsewhere`). Results of others go to other rows, which
keeps the token (`TokenKept`), and a reclaim takes expired leases alone.

None of the properties but the types is inductive alone. The parts of `IInv` and
their reasons:

- `RowsInv`: rows fill `1..nextSeq-1` and belong to existing documents; a DELETE
  job means a deleted document. New rows are then known to be last in order.
- `UploadInv`: what `addVersion` checked before the upload still holds at its
  commit, thanks to the lock. Otherwise a job could be enqueued behind the
  DELETE job and bring chunks back.
- `InOrder` needs that a row never returns to an unfinished status: a reclaim
  takes only `PROCESSING` rows, which is `ReclaimInv`.
- `LatestActive`: only the latest job of a version is unfinished. The server
  checks the latest job and the unique index counts all, so
  `OneActiveJobPerVersion` rests on this.
- `EpochInv` and `RunsInv`: a claim draws a fresh epoch, so no two executions
  share one, and the accepted token is the one with the document's epoch. This
  gives `SingleWriter` without any word about which leases expired.
- `ReclaimInv`: what an open reclaim has taken stays expired and `PROCESSING`
  until the commit. This is where the lock, the lease test of result writes and
  the recheck of candidates meet.
- `IndexedInv`: indexed versions were uploaded and keep chunks until deletion,
  which carries `SearchableIsServable` and `NoChunksAfterDelete`.

`StepInv` has one lemma per action; `Refinement` maps each action to one
abstract action (`Claim` to a start, results to a finish or a return, a reclaim
to the return of a set of running jobs) or to a stutter, with `IInv` supplying
the abstract guards.

`DocumentStoreProofs` proves, for every value of the constants, `Invariant`
(`Spec => []IInv`) and from it `TypeCorrect`, `StoredIntact`, `JobsFollow`,
`DuplicatesAreEarliest`, and `Refinement`
(`Spec => ImplementsVersionedDocuments`). The parts of `IInv` and their reasons:

- `LockInv`: a live request that loaded a row holds its lock, and the row still
  is what was loaded. With it a flush changes only what the request changed.
- `EntityInv`: the entity differs from the loaded row by one change. Together
  with `LockInv` this gives `CommitFacts` and `CommitVersionFacts`, on which the
  refinement and the job sequence rest.
- `CreateInv`: an uncommitted creation has an id of its own and no row, so
  `OthersApart` can say that no two open requests write the same row.
- `NumbersInv`: the versions are exactly `1..latest`. A new version is then the
  next of the specification, and its number free.
- `StoreInv`: names are unique, so `Put` never replaces an object, and a request
  that has stored its object still finds it.

`LeastElement` gives the meaning of `Earliest`: a nonempty set of numbers has a
least member, from the well-foundedness of inclusion among finite sets.

`DocumentPermissionsProofs` proves, for every value of the constants that
satisfies `NamesAssumption` and `IdsAssumption`: `Invariant`
(`Spec => []IInv`), `OwnersFindTheirs` (`Spec => []SearchedAsReadable`) and
`RevocationsAreExact` (`Spec => RevokesWhatItRead`). That the owner's row stays
(`OwnerInv`) is not inductive alone: a revocation deletes by the *id* of a row it
loaded earlier, and the check was on the *name*. `LoadedInv` ties them together
(an id is never used for another name, `IdsInv`), and `RequestStep` and
`WriteStep` carry it over the steps that write no row and those that do.

`Refinement` (`Spec => ImplementsAccessList`) needs more than `IInv`, which is
`RefInv` (`RequestsInvariant`). `ProgressInv` says how far a request of each kind can
be, so that the abstract request of a client (`StateOf`, `CallOf`) is defined by its own
`tx` alone. `LockInv` says that a deletion that has found the document still holds its
lock and nobody has deleted it since. `OneLevelChanges` is the heart of the proof: of
rows with one name each, an insertion, an update by id or a removal by id changes the
level of one name and no other. `Find`, the check and the writes map to `Ask`, `Allow`
and `Grant`, `Revoke` or `Delete`, the end of a request to `Answer`, lists to stutters.
A grant of the permission that is there already takes effect when its row is read
(`StateOf`): by the time it writes, that row may have been changed or revoked, and it
writes nothing.

`RecoveryPrimaryProofs` proves, for every value of the constants that satisfies
`TimesAssumption` and `NodesAssumption`: `Invariant` (`Spec => []IInv`),
`GracePeriod` (`Spec => ReclaimsAfterGrace`) and `RenewalsAreRespected`
(`Spec => LiveWorkerKeepsItsJob`). `MarkerInv` is the reason for the first: a
record with the start time of a server, on whatever node it lies, was written by
that server after it had become writable. It needs that start times differ
(`StartsInv`). For the second, a worker that has renewed under the present
primary has a lease that runs (`LeaseInv`, which needs that there is one primary,
`LeaderInv`), and one that has not is within `Beat` of the moment the primary
became writable (`RenewalInv`), so the grace period protects it.

`HaTestRunProofs` proves, for every value of the constants that satisfies
`ConfigAssumption`: `Invariant` (`Spec => []IInv`), `MutualExclusion`
(`Spec => []Exclusive`) and `FaultsAreReported` (`Spec => []NoSilentFault`).
`LockInv` says that a run at work owns the lock, and that only such a run has
`locked` set, so nobody removes another's lock. `ReleaseInv` says that a run about to
give the lock back has the base state or has told a person. To stay true while
Patroni and the watchdog act it needs `WatchdogInv`: an unfed watchdog is that of a
node that is not the running Leader of the base state, so in the base state the
environment rests (`Environment`). `OwnerMoves` does the steps of scenario and
restoration alike; `Scripts` shows that no script, wherever it stops, breaks
`WatchdogInv`.

`HaTestsProofs` proves, for every number of rounds and of forgotten sessions:
`ClientInvariant` (`LoadSpec => []ClientInv`), `SessionsStayFresh`
(`LoadSpec => []SessionsAreFresh`) and `NoUnknownLeftover`
(`LoadSpec => []LeftoverKnown`). The number of failed searches is bounded by that of
expiries only together with `Unnoticed`: an expiry that the client has not met yet is
one it may still pay for.

For every value of the constants that satisfies `RecordAssumption` it proves
`RecordInvariant` (`RecSpec => []RecInv`), `LossesAreReal` (`RecSpec => []LossIsReal`)
and `StopIsNotUnderstated` (`RecSpec => []StopCoversOutage`). `PhaseInv` puts the printed
time before the kill, and the reads after the promotion. `OneAttempt` says who may have
answered an attempt: the old Primary none that started after the kill, the new one none
before the leader key ran out, a healthy old Primary all that ended before the kill.
`OutageInv` says that the attempt of the first interval after the kill has failed:
the promotion comes later than its timeout. `ReadInv` says that the log read first
holds each attempt as it is, that the rows are read after it, and that an answer which
is not in the log came after the injection. For `LossesAreReal` that is all. For the
other, `FirstFailure` places the failure that `write_stop` counts from in the interval
of the kill or the next one; so what started later was answered by the new Primary, and
what was answered before by the old one (`WhoAnswered`). The case without an answer
before that failure, in which `write_stop` counts from the injection, rests on the last
part of `ReadInv`. `MinOfNaturals` and `MaxOfBounded` give the meaning of `Min` and
`Max`, from the well-foundedness of inclusion among finite sets.

For every set of nodes, configuration and script that satisfies `SimAssumption` (times
are natural numbers of half seconds; `ConfigType` is what `config.py` accepts) it proves
`SimulationInvariant` (`SimSpec => []SimInv`) and `ScriptsDecide`
(`SimSpec => []ScriptDecides`), under `ScriptsInOrder`: in the scripts of H-3 the old
Primary reboots before another is promoted, the order `SimScript` states
(`simulated.py:306`, `:345`), and writing stops for at least half a second. Without the
order, a reboot that begins after the old Primary was started again is not waited for by
anything but the loop for its return, and the limits would be others; the run has scripts
of both kinds. `SimInv` has a part for each loop, in two pieces. What the nodes look like
is one of four descriptions, each decided by which changes are done: `IsKilled`,
`IsMoved`, `IsHalting`, and `IsSteady`, in which at most one node is still starting. What
time it is: the clock is a multiple of the loop's sleep after its beginning, and the
change waited for was not there at the look before, which is what makes `LastLook` and
`FollowEnd` the exact limits. The changes that are due in one sleep are made by a fold;
`AppliedInTurn` says that it makes them in the order of their insertion. A test that is
judged has either no change left, or one (`Settled`): the late node streams, by a time
that the restoration still waits for. Nothing is claimed of nodes when a change comes
later than the waits, but the verdict is then still the one of `WithinLimits`
(`Decided`), because a loop that gives up does so at a known time.

`EvaluationProofs` proves, for every value of the constants that satisfies
`RerankAssumption`: `LimiterIsCorrect` (`AbSpec => []WindowRespected`),
`ServiceNeverThrottles` (`AbSpec => []NeverThrottled`), `FallbackLosesNoScore`,
`CleanFallbackIsFlagged` (`AbSpec => []FailOpenIsFlagged`) and `WarmUpIsFair` (`AbSpec => []WarmedPairsAreFair`).
`LInv` is the reason for the first: noted times are sorted, the deque holds at most
`Limit` of them, and whatever has left it is a window older than the newest. The entry
`Limit` places before a new one has therefore left it. For the second, `ServedInv` gives
each call of the service an entry of the log as its slot, before the next entry, with at
least as many entries between two slots as there are calls; entries of searches without
a candidate are no slots. So `ServiceLimit` calls, one more than the limiter lets
through, span a window of the limiter (`NotOver`). The third is about one view: if at some
place one of two cuts showed a better score than the other, all the chunks of the first up
to there would have to be among fewer places of the second (`NoBetterScore`, by the
pigeonhole principle), and a cut that is not full holds every hit (`CutsOfAll`). So a
fallback and the "off" arm list as many chunks with the same scores, place by place; where
no scores are equal they list the same chunks (`ClearListsAgree`), which with `FlagInv`
gives `CleanFallbackIsFlagged`. For
the last, `WarmInv` says that the cache holds every question whose warm-up was
answered: it holds no question twice (`UsedFacts`), so it never has more than there are
questions, and `TouchFacts` shows that nothing is evicted.

For every value of the constants that satisfies `QaAssumption` it proves `SheetInvariant`
(`QaSpec => []QaInv`) and `SheetIsReproducible` (`QaSpec => []KeepsFirstAccepted`).
`TakenInv` says that what the main thread has consumed is a prefix of the attempts whose
stages are final, which `Worker` and `Cancel` therefore leave alone (`ConsumedStays`);
`KeptInv` that what it kept is what was accepted there; `SheetInv` that the loop ends at
the target or at the last attempt. An attempt past the prefix, accepted by a thread that
was not cancelled in time, then has `Count` accepted ones before it.

It also proves that the two pure functions compute what they should, for inputs of any
length: `OverlapIsExact` (`SharedNgramIsLongest`) and `PValueIsExact`
(`SignTestIsExact`). A fold of the community modules is a function on the subsets of
its index set that is chosen for its recursion; two functions that obey that
recursion agree (`FoldsAgree`), so it is enough to name one, and show that it obeys it.
For the scan it is the longest run that begins at one of the first positions
(`ScanFinds`): since a run's beginnings occur where it does (`ShorterOccurs`), the
lengths that occur are an interval, and stopping at the first that is missing loses
none. For the sign test, the subsets of a set with k elements obey the rule of Pascal
(`Pascal`), by which the quotient of factorials is their number (`WaysFactorial`,
`ChooseIs`); the sum is then the number of patterns with few heads (`TailCounts`), and
exchanging heads and tails gives the factor two, except where the two tails meet
(`TwoTails`).

`CorpusStatsCacheProofs` proves, for every value of the constants that satisfies
`StatsAssumption`: `StatisticsOnlyAdvance` (`StatsSpec => []StatsNeverGoBack`) and
`OneScanPerInterval` (`StatsSpec => []ScansAreSpaced`). The monitor is held by whoever is
inside `refresh()` (`MonitorInv`); scans therefore reach the cache in the order of
their numbers (`ScanInv`), and what a lookup has read is as new as anything returned
before it began (`LookupInv`). Whoever scans has found the last write an interval old,
and nobody else writes (`TimeInv`).

Only model-checked: `JobsFinish`, `ReclaimedOrAlerted`, `EveryRunEnds` and `BuildEnds`,
since liveness under fairness and ENABLED are out of the prover's reach; and the refuted
claims.
