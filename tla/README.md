# Verification of ibkr-control

TLA+ specifications of the parts of ibkr-control where order, failure and
concurrency decide whether the data is right: the health of the broker
connections, the flex run and the other writers that move it, the advisory lock that is meant to
serialize runs, the ingest of one XML statement, the rows that statements and
organizations share, the exchange rates, the setup wizard with its uploads, the
dated rows of shares and grants, and the progress stream of a manual refresh. TLC
checks each of them on a small instance; TLAPS proves every safety property that is
checked (section 4) for every instance.

Paths below are relative to `src/backend/src/ibkr_control/` unless they begin
with `src/`.

## 1. The system

One FastAPI process (`db/guards.py::assert_single_process`) on one asyncio event
loop, with Postgres behind SQLAlchemy's async sessions, an APScheduler inside the
process, and a Next.js frontend. Each organization has broker *connections*
(a Flex query and its encrypted token); statements are fetched from IBKR every day,
or uploaded by hand, and become rows of fact tables.

| Component | State | Operations | Interacts with |
|---|---|---|---|
| Connection state machine, `ingest/connection_state.py` | `connections.status`, `status_reason`, `consecutive_failures`, `last_sync_status` | five pure transition functions | every caller below decides when to apply and persist them |
| Connections API, `api/connections.py` | the same rows | create, rename, rotate-token, enable, disable, delete | waits for IBKR between load and write |
| Flex run, `ingest/flex/job.py::run` | the Connection objects it loaded, `ingest_log`, its summary | loop over the connections: fetch, ingest, transition | lock, client, persister, state machine |
| Scheduler, `scheduler/` | APScheduler jobs in memory | flex at 12:00 UTC, trm at 00:30 UTC, hourly cleanup | each flex cron has an engine of its own, disposed in `finally` |
| Advisory lock and pool, `ingest/lock.py`, `db/session.py` | Postgres session locks, the engine's idle and open sessions | take, unlock, check out, return, recycle | all runs; API requests share the engine with manual runs |
| Ingest of a statement, `ingest/flex/job.py::ingest_xml`, `ingest/flex/persister.py`, `ingest/hash_dedup.py` | `flex_imports`, fact tables, `restatement_log`, `ingest_log` | hash check, parse, upsert with audit, eviction, poison row | uploads (no lock) and the flex run |
| Manual refresh, `api/ingest.py`, `ingest/job_tracker.py`, `src/frontend/src/hooks/useIngestStream.ts`, `ManualRefreshButton.tsx` | throttle timestamp, `JobTracker._jobs`, open SSE generators, React state | trigger, emit, poll, send, clean up, show a verdict | background task → tracker → generator → browser |
| Shared rows and immutable facts (rest of the persister) | instruments and identifiers of all organizations; accounts, counterparties, facts, sibling log of one | get or create, insert if unseen, sibling detection | ingests of other statements and organizations |
| Flex parser, `ingest/flex/parser.py` | none | element to row, skip or refusal | feeds the persister |
| Flex client and retries, `ingest/flex/client.py`, `ingest/retry.py` | none between calls | send, poll, back off | IBKR; flex run and wizard |
| TRM ingest, `ingest/trm/` | `trm_days`, `trm_imports` | incremental fetch or full backfill, expand ranges to days, upsert | lock, cron, manual refresh, wizard |
| Setup wizard and stash, `api/setup.py`, `api/_step3_stash.py` | progress row, uploads in memory with a time to live | steps 1 to 3, detection, commit, finish | connections, client, persister, participations |
| Participations and grants, `db/participations.py`, `api/grants.py` | rows for ranges of days, with an exclusion constraint | save, create, revoke | wizard, authorization |
| Authorization and RLS, users, settings, health, migrations, scripts, pages | see `PROJECT.json` | mostly reads | |

Where it is hard:

- **stale objects**: a run keeps its ORM objects for minutes and then writes the
  columns that changed *in memory*; `rotate_token` and the wizard's `step2_detect` do the same
  around their calls to IBKR;
- **two commits for one fact**: log row and transition; throttle and job;
- **session-level locks on a pool**: each commit hands the database session, with its
  lock, to the next user of the pool;
- **uploads beside the run**: they take no lock, and their statements wait for and
  overwrite each other's rows under READ COMMITTED;
- **polling readers**: a generator that reads, sends and then asks whether the job is
  over, with the job running on between;
- **races for shared rows**: two organizations create the same instrument, two statements
  the same account, and every later row must hang on the winner's;
- **memory that expires**: an upload is checked in one pass of a commit and taken out in
  another, and may be gone in between;
- **increments**: a run asks for what comes after the last thing stored, so a gap that is
  passed once is passed for ever;
- **crashes and cancellation** anywhere, with a scheduler that starts runs again.

What makes each part right: a connection's columns agree with each other and with what
was seen of it, and a status that asks for a human is not lost; one failed connection does not stop
the others; one run at a time; an ingest is all or nothing, its failure is remembered and
its changes are audited; no row of a statement is lost, no stored fact changes, and each
conid has one instrument; a day has the newest rate that was ever received for it; the
history of a share stands; a wizard that answers ok has imported what it was asked to; the
browser sees a prefix of what happened and is told the truth at the end. Hazards are listed with their lines in `PROJECT.json`.

## 2. Modules

| Module | Models | Depends on |
|---|---|---|
| `ConnectionRecord` | one row and the five functions of `connection_state.py` | – |
| `ConnectionState` | the W4 machine as the module's docstring promises it: every event one atomic step. **Abstract specification** | `ConnectionRecord` |
| `FlexRun` | `flex/job.py::run`, the users of the connections API and of the wizard's first two steps, with loaded copies, flushes, log rows, lock, cancel, crash | `ConnectionRecord`, `ConnectionState` (refinement) |
| `AdvisoryLock` | `lock.py` on FIFO pools with overflow and recycling | – |
| `ImportStore` | `ingest_xml` and the ingest half of `_run_one_connection`: uploads and a fetch | – |
| `JobStream` | the manual refresh from button to verdict | – |
| `FlexClient` | the outcomes one call of the Flex service can have, out of every sequence of replies | – |
| `WizardSetup` | the setup wizard and its stash of uploads, beside ingests and connections from elsewhere | `FlexClient` |
| `StatementParser` | what each element of a statement becomes | – |
| `FactStore` | the part of the persister that fills shared tables and immutable facts | `StatementParser` |
| `TrmIngest` | the dataset of exchange rates and the runs that follow it | – |
| `DatedLedger` | saves of shares and revocations of grants | – |
| `Records` | the last three in one database | `FactStore`, `TrmIngest`, `DatedLedger` |
| `ConnectionStateProofs`, `FlexRunProofs`, `AdvisoryLockProofs`, `ImportStoreProofs`, `JobStreamProofs`, `WizardSetupProofs`, `FactStoreProofs`, `RecordsProofs` | theorems | the module they name; `RecordsProofs` also `FactStoreProofs` |
| `MC*` | instances for TLC | the module they name |

How they fit: `FlexRun` is composed with `ConnectionState` by
`W4 == INSTANCE ConnectionState WITH conn <- row`. `FlexRun` treats the lock as perfect
between its one cron and its one manual run; that is exactly the case `AdvisoryLock`
establishes (`CronAlone`, proved for any pool), until a session holding the key is closed,
which `FlexRun` has as `RecycleConnection`. What a statement does to the fact
tables is an outcome (`ok`, `auth`, `transient`) in `FlexRun` and the subject of `ImportStore`,
where the fetch is one process. `ImportStore` has the snapshot rows and the imports,
`FactStore` everything else an ingest writes. The two halves of the wizard meet at the connections: what its save and
its detection do to the columns of a row, beside runs and other users, is in `FlexRun`; `WizardSetup` has the
wizard itself, keeps of a connection only whether it is active, failing or disabled, gets its replies from
`FlexClient`, and takes one call of the persister, which the other two take apart, as a step. `Records` has `FactStore`, `TrmIngest`
and `DatedLedger`, which share no variable, as one specification of which a behaviour is one of
the three (`component`), so that one run and one set of theorems are about them all. `JobStream` takes a run as a sequence of steps that
end ok, partial or failed.

### State and actions against the code

**ConnectionRecord / ConnectionState.** A row is `[status, reason, failures, lastSync]`.
`Unless` is the `disabled` guard three functions share. `last_sync_at`, name, query
id and token are left out: nothing modelled reads them. `reason` is a member of a small
set, since only its presence matters.

**FlexRun.** `Load` is the SELECT of the run, `Attempt` the delete check and the opening
of the log row, `Finish` the commit of the log row with its outcome, `Record` the
transition on the *loaded* object and the commit that writes the difference (`Flush`),
`Abort` the exception when the row is gone, `Exit` the summary or the raise,
`DisposeEngine`/`ManualDone` the callers' ends. `RotateAsk`/`RotateDone`/`RotateFail`
split `rotate_token` at its wait. `Step1Save` is the wizard's rotation, which asks nobody. `DetectBegin`
is the SELECT of `step2_detect`, which holds the objects (`held`) through its fetches; `DetectOk` marks the object held and
flushes the difference, `DetectFailed` rolls back, which expires every object, reads the row again and marks that, and
`GoOn` takes the next id, whose object `session.get` loads if the session holds none. A detection takes no lock and
leaves no log row: `seen` (history) counts how those of a connection ended, and `refused` (history) has the connections
whose token one found refused since the running run loaded its list. The handlers that wait for nothing but the database between
load and commit (`Disable`, `Enable`, `Step1Save`, and the refresh of `DetectFailed`) are one step each. `Cancel` is `CancelledError` inside
`ingest_log_entry`, which commits the row still `running`. `Crash` restarts the process:
pending transactions and the lock go, tables stay. `touched` is a history variable:
connections a user, or the wizard, wrote since the run loaded them.

**AdvisoryLock.** `locks[s][k]` is the count Postgres keeps for the session; `pool[e]` is the
FIFO queue; `out[p]` the session a user has; `at[r]` (history) the session in which a run
took its lock; `lost` (history) keys whose lock went with a closed session. A run is
`Acquire`, then `Commit`/`Resume` alternating (commit returns the session, the next
statement takes the one whose turn it is), then `Unlock` in the session at hand, then
`CloseSession`/`Dispose`/`Leave`. `crc32` of the source is any map `KeyOf`.

**ImportStore.** A process is one READ COMMITTED transaction; each stage of `pc` stands
between two SQL statements. `Check` and `Recheck` are the two hash lookups, `Audit` the
SELECT that finds restatements, `Upsert`, `Evict` (cleanup R1), `Commit`; `Poison` follows
every failure, in the same transaction after the savepoint is rolled back. Uncommitted
work is kept with the process (`audit`, `evicts`, and the fact of having reached a stage) and
applied by `Commit`; waits are the guards `ImportLocked`, `LockedRows`, `WaitsFor`.
`owner` is the `flex_import_id` of a snapshot row, which a DELETE of the import sets to
null; two evictions that wait for each other's rows are a `Deadlock`, and Postgres fails one.

**JobStream.** Actions are what happens between two awaits of the event loop. `Work` is the
task, `Generate` the generator (`Poll`, `Send` one event at a time, `EndRound`), `Accept`,
`Throttle` and `Press` the button and the trigger (the answer may be lost), `Cleanup` the
hourly job, `Restart` a new process with an empty tracker, `Reload` a fresh page. `late`
is a history variable: jobs that ended while their generator was sending.

**FlexClient.** No state. `ExecuteWithRetry` is `retry.py` on a sequence of replies;
`SendOutcomes`, `PollOutcomes` and `FetchOutcomes` are the sets of ends two policies and the
rounds of the wizard allow; `FailureClass` is what the wizard makes of each.

**WizardSetup.** A request is a process whose stages stand between two awaits: `Step1Look` and
`Step1Create` (look for a connection, insert one), `DetectBegin`, `DetectOk`/`DetectFailed` for each
connection, `DetectAnswer`, `UploadLook` and `UploadPut`, `CommitCheck` (the validation pass),
`CommitSkip`/`CommitPop` (the drain of the stash, an upload at a time), `CommitDone`/`CommitFails`. What has no
await between reading and writing is one step: `DetectFromXml`, `Step2Save`, `Step3Save`, `Finish`.
`Expire` is the time to live. `tx` keeps a request's uncommitted imports, and `Evicted` is the cleanup
R1. `OtherIngest`, `OtherPoison` and `OtherConnection` are the other parts of the system, and `alone` (history) is
the request that met nothing else.

**StatementParser, FactStore.** A statement is a sequence of elements, each with the set of
attributes it carries; `ParseElement` says *row*, *skip* or *error*, one operator per function of the
parser, and `Parse` is the set of places of the elements that become rows. An order the code derives from the
order of the rows (the isin that comes first, the number in a lot's id, the row of a batch that wins) is taken from the places. An ingest is a process with uncommitted rows (`mine`): `Begin` (accounts looked
for and sorted), `InsertShared` (the next row of an INSERT into a shared table, which waits for
whoever holds its key), `LookForInstruments` and `Resolve` (the two lookups of `_ensure_instruments`, the
creation in between in *any* order), `InsertTrades` to `InsertTransfers`, `LogSiblings`, `PersistRestatements`,
`Commit`. `resolved` is the map from conid to instrument with which the facts are written.

**TrmIngest.** `source` is the dataset, a set of rows, which grows (`Publish`) and is amended (`Correct`); a run takes the
lock and reads `Mark` (`Begin`), gets a page of the first rows after it (`Fetch`), writes and commits (`Store`) or not (`Fail`). `taken` (history) has the
rows runs were given before they committed.

**DatedLedger.** A request reads a row (`ReadShare`, `ReadGrant`), decides by its own day `at`, and
writes (`KeepShare`, `CorrectShare`, `CloseShare`, `OpenShare`, `CloseGrant`), one account after the other, then commits; `Tick` is midnight.
`Allowed` is the exclusion constraint and `valid_range`.

Definitions whose comment begins with "Mutant" are wrong on purpose: each is a plausible bug in
the definition after it, and the property it is named for in `PROJECT.json` fails with it.
No specification uses one.

## 3. Runs

`tlc -config X.cfg M`. `MCRecords` uses symmetry (organizations, ingests, requests, accounts: sets
nothing orders; its temporal properties are action properties, for which that is
sound). All runs set `CHECK_DEADLOCK FALSE` for one reason: the bounds below
stop the model where the program would go on.

| Run | Shows | Bounds |
|---|---|---|
| `connection_state` | `ThresholdInv`: active means below the threshold, and degraded at or above it; `HealthInv`: reason and last sync agree with the counter; `DisabledIsSticky`; `ReauthNotMasked` | 2 connections, threshold 2, 2 texts, counter ≤ 4 (threshold, one above, two more) |
| `flex_run` | `ImplementsW4`, `ReauthSurvivesTransient`, `HealthIsWitnessed`, `RunAccountsForAll`, `CronLetsGo` | 2 connections, 1 cron and 1 manual run, 2 starts, 3 requests (those that made the connections count), 1 detection and 1 rotation of a connection at a time, counter ≤ 3 (one above the threshold) |
| `flex_run_sticky` | *violated*: `DisabledIsSticky` on the stored row | 1 connection, 2 requests, counter ≤ 3 |
| `advisory_lock` | `CountCovers`, `CronAlone`, `CronLeavesNothing`, `RunsEnd` | cron on its own engine, 2 manual runs and 2 requests on a shared one with 2 sessions (pool 1, overflow 1), 2 commits per run, 4 starts |
| `advisory_lock_shared_pool` | *violated*: `MutualExclusion` of manual runs | the same |
| `import_store` | `AllOrNothing`, `FailureIsRemembered`, `LatestOnly`, `SealedStays`, `ChangesAreAudited`, `IngestEnds` | 2 uploads and the fetch, 4 statements of one year (one with both keys, a rolling and a sealed one with one key each, a malformed one), 3 statements received |
| `import_store_same_xml` | *violated*: `SecondGetsExistingId` | the same |
| `job_stream` | `PrefixShown`, `NothingDropped`, `GreenUnlessLate`, `StreamEnds` | all 3 kinds, 2 jobs, clock of 4, cooldown and old age 1 |
| `job_stream_green` | *violated*: `GreenIsTrue` | the same |
| `setup` | `ImportedAreConfigured`, `OkMeansImported` | 2 requests at a time, 5 requests and outside events, 2 connections, 2 uploads, 4 statements (two rolling ones of a year, a sealed one, a malformed one), 2 accounts and a shadow one |
| `setup_evicted` | *violated*: `DetectedCanBeSaved` | 1 request at a time, 4 in all |
| `records` | `OneInstrument`, `NoRowLost`, `FactsStand`, `SiblingsLogged`, `SortedNeverDeadlocks`; `RatesFollowSource`; `HistoryStands` | *facts*: 2 ingests at a time, 3 in all, 2 organizations, 6 statements; *rates*: 2 runs at a time, 3 in all, 3 ranges with 2 versions each, pages of 2; *ledger*: 2 requests at a time, 3 in all, 2 accounts, 2 shares, 1 grant, 3 days |

Why the bounds suffice to make the cases happen: two connections let one fail while the
other goes on and let each be deleted before or after its turn; two starts give a run
that meets what an earlier one left; three requests are
two over one connection, so that a disable and an enable, or a rotation and a detection, fall within one fetch, and one over two
connections, so that a detection of both goes on beside a run over both; two runs and a detection count as far as the bound of three, one
above the threshold; a pool of one with one overflow is the smallest that has both a queue and a
session to close; four starts let a manual run find the lock another one left behind; three
statements let two ingests of disjoint rows evict the import of an earlier one, which is the deadlock;
two jobs let the second meet the tracker, the throttle and the view of the first; five
requests let a wizard make a connection, detect, save, upload and commit while another
request is under way; the six statements of `records` have two new conids in opposite orders, three lots
that are siblings within a statement and across two, a conid a cash transaction needs before
anybody has created it, one that only an accrual brings, rows without an id and a statement of a sealed year, and
three ingests let a third one meet what two races have left; a page of two of three ranges makes increments
necessary; three days let a request read on one day and write on the next, with a day before both.

Fairness, and why the code has it:

- `FlexRun`: weak fairness of the steps of a run of the cron that has begun. Polls and retries of the
  client are bounded and it disposes in `finally`. Users, restarts, pool recycling and manual runs are
  under no obligation.
- `AdvisoryLock`: strong fairness of a run's next step, because the pool's queue serves in
  order of arrival; weak fairness of requests, which answer.
- `ImportStore`: weak fairness of `Progress`; a transaction that can go on does, and the deadlock
  detector acts. `FailToPersist` is *not* fair: an error of the database is no way out of a wait.
- `JobStream`: weak fairness of the task and the generators, which the event loop serves.
- `WizardSetup`, `FactStore`, `TrmIngest`, `DatedLedger`: none. Their properties are safety; a user, an
  ingest or a dataset need not go on.

### What the runs found

1. **`disabled` is not sticky** (`ingest/flex/job.py:411`; run `flex_run_sticky`).
   `connection_state.py:4` promises it; the run applies the transition to the object loaded before
   the fetch and writes the status over the user's. `ImplementsW4` shows the machine is
   otherwise kept: every change of a row that nobody touched while its writer held it is one atomic event.
2. **The lock does not exclude manual runs** (`ingest/lock.py:57`; run
   `advisory_lock_shared_pool`). A second manual run may be handed the very session that
   holds the lock and take it re-entrantly. The cron, on its own engine, is safe: `CronAlone`.
3. **The second upload of the same XML fails** (`ingest/flex/persister.py:277`; run
   `import_store_same_xml`), where the docstring says it receives the existing id.
4. **A refresh that failed may end in green** (`api/ingest.py:196`; run `job_stream_green`), if
   the job ends while the generator sends its last batch. `GreenUnlessLate` shows that this is the
   only way.
5. **Detected accounts that cannot be saved** (`ingest/flex/persister.py:336`; run `setup_evicted`). The
   eviction of rolling imports goes by organization, year and source, not by connection. With two
   connections the second statement of a detection evicts the first, and with it the
   provenance of the accounts that came from there.

Some properties hold under a stated condition because the code keeps them only then:

- `LatestOnly`, `ChangesAreAudited`, `SiblingsLogged`, `OkMeansImported` and the
  second half of `HistoryStands` are about ingests or requests that overlapped no other (history
  variable `alone`). With an overlap the eviction leaves two rolling imports, the audit logs an outdated
  old value, siblings are not seen: all of these read only committed rows and take no lock. For the same reason
  a double click on the wizard's first step makes two connections, although `api/setup.py:284` says "never duplicates": `Step1Look`
  and `Step1Create` have the race, and no property is stated of it, since it fails at the first overlap and
  without one repeats a guard.
- `ReauthSurvivesTransient` excepts a connection whose token a detection found refused since the run loaded its list
  (`refused`). A run that holds the row as active, one failure below the threshold, makes its copy `degraded`; the flush
  writes that over the `reauth_required` the detection stored meanwhile (`api/setup.py:435-438`), so the very masking
  `connection_state.py:5` rules out happens on the stored row. It is the stale object of the first finding again.
- `HealthIsWitnessed` counts log rows *and* failed detections: the detection counts failures on the same rows and logs
  nothing, so the ingest log alone does not explain a connection's counter.
- `StreamEnds` excludes a job removed from the tracker under its generator, which then polls for ever.
- `SortedNeverDeadlocks` is about accounts and counterparties. Identifiers are inserted in no fixed order, and two
  ingests that create the same two instruments do block each other in the model.
- `RatesFollowSource` compares with what runs were *given*: an increment never asks again for a range
  that did not parse, or was corrected, below its mark; a full backfill does.
- `OneInstrument` takes from the broker that a cash transaction's id names one transaction (`CashAssumption`). Those
  without id are all one fact, which may have the conid of one and the instrument of another; of these it says only
  that the instrument has some conid.
- `NoRowLost` is about rows that have an id (or are lots): the parser gives all others the id `""`, and all but the
  first of an organization are dropped.

## 4. Proofs

`tlapm M.tla` for each module `M` of the form `*Proofs`. Assumptions: those named with
`ASSUME` beside the constants, all evaluated by TLC in the runs.

**ConnectionStateProofs**, for every set of connections, texts and any threshold ≥ 1. The
inductive invariant `IInv` says of every present row that it is a `GoodRow`: typed, with status
and counter on the same side of the threshold, and with reason and last sync agreeing with
the counter. The comparisons need the typing (the counter is a natural number, `NoReason` is no
text), and `set_enabled(FALSE)`, which changes the status alone, needs both agreements before it.
One lemma says each function of `connection_state.py` takes good rows to good rows, another that a
step writes one row and writes it with those functions; invariants and action properties
follow without looking at the actions again. Theorems: `TypeCorrect`, `Threshold`, `Health`,
`StickyDisabled`, `ReauthVisible`.

**FlexRunProofs**, for every set of connections, of cron and manual runs and of failure texts, every threshold and bound.
Two things make the checked properties inductive. `Places` says where each run stands and that only the
holder of the lock is at work; so a row changes under a run through requests alone. `Loaded`
bounds how far the copy a run holds can be from the stored row: it is the same unless a request touched the row,
its failures are witnessed, and it waits for a token if the stored row does, unless a detection refused the token since. A rotation and
a detection that ends ok never raise the counter, and a failed detection marks the row it has just read, so of their copies
nothing need be known. From this `RecordRow`
follows, the one lemma about `Flush` on a copy that may be stale: what a record stores is witnessed, keeps a wait for a token
through a transient failure, and is the W4 function of the stored row when nobody touched it. `Implementation` is the step
of the refinement: such a record is `SyncOk`, `AuthFailed` or `SyncFailed` of `ConnectionState`; the initial rows
are rows `ConnectionState` reaches. Theorems: `TypeCorrect`, `HealthWitnessed`, `AllAccountedFor`,
`Implementation`, `ReauthKept`.

**AdvisoryLockProofs**, for every finite set of runs, every set of engines, sessions and keys,
and all pool sizes. `CountCovers` is not inductive: that a lock taken in one session is
covered there needs a session to belong to one engine only (`PoolHome`, `OutHome`, `AtHome`),
and that an unlock through *another* session does no harm needs that only one session holds a key
(`OneHolder`), so that an unlock elsewhere finds nothing to release, while an unlock in the holding
session removes one count and one holder. `CronAlone` then follows: the cron's session
and another run's lie on different engines (`CronAssumption`), both counts are positive,
and one session holds the key. Theorems: `TypeCorrect`, `Covered`, `NothingLeft`, `Alone`.

**ImportStoreProofs**, for every set of uploads, fetches, statements, keys and values, and any number of ingests. What
makes `AllOrNothing` inductive is what a process holds before it commits: the import it has inserted is not in the
table and nobody else has inserted it (`Inserted`; the UNIQUE hash makes the second INSERT wait), and
what it is about to delete is a rolling import stored as ok that nobody else deletes (`Deleted`; a DELETE waits for
another one of the same row). So a commit takes away no import a stored value names without clearing the
name, and brings none that was there. `Undisturbed` is for the two properties of an ingest that met no other: nobody else is in a
transaction, what it deletes is still all there is to delete, and its restatements are still against what
is stored. The action properties follow from three lemmas that say what a commit, a poison row and a reset write;
no other step writes an import. Theorems: `TypeCorrect`, `WholeOrNothing`, `SealedKept`, `FailureKept`,
`LatestKept`, `ChangesLogged`.

**JobStreamProofs**, for every lifetime, poll bound and cooldown. `PrefixShown` speaks of the browser alone; the
invariant follows an event on its way: the tracker has what was produced (`TrackerInv`), the batch of a generator is what comes
next after its cursor, and all the rest if the job had ended when it was read (`StreamInv`), the browser is as far as
the cursor, and once it is done it has everything up to the task's own last event or the
closing one (`ViewInv`). `GreenUnlessLate` needs the last part: a generator that found the job done with nothing left to
read has sent the failure, if there was one. Theorems: `TypeCorrect`, `EverythingKept`, `PrefixKept`, `GreenTrue`.

**WizardSetupProofs**, for every set of requests, statements and accounts, and any number of uploads, connections
and requests. `ImportedAreConfigured` speaks of what is stored; what carries it there is `Draining`: an upload a commit has
still to take out holds nothing but statements it validated (or nothing, if it expired or another request took it), and the
accounts it validated stay configured, because nothing ever closes a participation here. `Tidy` adds that a request inserts no more than it
was asked for. `OkMeansImported` needs `Undisturbed`: of a request that met no other and no expiry, every statement it was
asked for is in the stash still, under an id it has yet to come to, or `Settled`: inserted, found there, or superseded by another of its year. Of `FlexClient`, for any numbers of attempts, polls and rounds:
a retried call ends with a reply that came after none but retryable ones, and with a retryable one only when its attempts are used up
(`GivesUpAtLast`, from the least number of a set, by the library's well-founded minimum); so retrying neither hides a reply nor makes one up, and the ends
of a fetch are exactly ten (`FetchEnds`). Theorems: `TypeCorrect`, `ImportsConfigured`, `OkImports`, `GivesUpAtLast`, `FetchEnds`.

**FactStoreProofs**, for every set of organizations, processes and statements. The invariant says of each ingest (`Local`) what
it holds of its statement at its stage, and of any two (`Apart`) that they have not inserted the same key, which is what
waiting for an uncommitted row gives (`Free`). `Hung` is for `OneInstrument`: `resolved` maps a conid to the instrument that *whoever won* hung
it on, so a fact hangs on an identifier that is visible to its ingest, and shared once it commits. `Full` is for `NoRowLost`: when a
table is done, each row of the statement for it has a fact by its key, inserted, merged or there before. `Keyed` is
for `FactsStand`: what a transaction writes over a stored fact is the same but for an instrument that was unknown (`Converges`), also if that fact was committed by
another meanwhile. `Paired` is for `SiblingsLogged`: of an ingest alone, each pair of siblings among what it sees and wrote has one entry. `InOrder` says what is
inserted comes before what is still to do; two ingests that waited for each other would need an account that comes before itself
(`SortedIsSafe`). Assumed: statements are finite sequences and account ids are ordered (`StatementAssumption`:
numbers stand for them), and `CashAssumption`. Theorems: `TypeCorrect`, `InstrumentIsNamed`, `RowsKept`, `SortedIsSafe`, `FactsAreImmutable`, `SiblingsAreLogged`.

**RecordsProofs**: each of the three goes by its own specification (`FactsRun`, `TrmRuns`, `LedgerRuns`), so the theorems above
hold of `RecordsSpec` as well (`FactsTogether`).

*Rates*, for any dataset, any page limit and any number of runs (`TrmInv`). `RatesFollowSource` speaks of rows up to `Mark`; to keep it,
a run at work must have been given *every* range from where it began up to the last of its page (`Received`), no older than any
version given before, and only the holder of the lock is at work, so that `Mark` does not move under it backwards. Ranges have no day in common (`Ranges`), so storing one
row touches no day of another.

*Dated rows*, for any finite set of accounts, any requests, shares and number of days (`LedgerInv`). The tables stay `Tidy`: no overlap, nothing
begins in the future, and a row that was closed is followed by another from the day it ends. The last is what makes `HistoryStands` inductive:
closing a row that had *already* been closed on an earlier day by another save would stretch it over its successor's days, and the
successor is what the exclusion constraint refuses it for (`Closes`). A save at work sees such a table and, before its day, the shares of the stored one
(`Saving`); this survives the commit of another save because the two have rows of different accounts (`Held`), so that each account is as the one
or as the other left it (`PutOnBoth`). Of one that met no other, what it read is still so (`SavingAlone`, `RevokingAlone`).
Theorems: `RatesFollow`, `LeavesHistory`, `RecordsTyped`.

Only model-checked: liveness throughout (`CronLetsGo`, `RunsEnd`, `IngestEnds`, `StreamEnds`), since temporal properties under
fairness and `ENABLED` are out of the prover's reach. What the runs find violated is not proved to be either: a counterexample needs no proof.

## 5. Abstractions and what is left out

- The rows of a statement are its snapshot rows; rows one SQL statement touches are locked at
  once. Upserts that cross inside one multi-row statement would be a deadlock as well; Postgres
  then fails one ingest, which the model has as `FailToPersist`.
- One organization in `FlexRun` and `ImportStore`, one user and one browser tab in `JobStream`.
  Job ids are unique there, although the code's counter starts again with the process.
- SSE framing: the hook splits at blank lines, which line ends the library writes is outside
  the repository; one event of the model is one event of the stream.
- Timestamps, the wording of errors, encryption and the columns no property tells apart.
- `FactStore` leaves out what an instrument was last seen with, the link from a lot to its trade, and the order
  of rows within the INSERT of a fact table, where two ingests of one organization could cross.
- `WizardSetup` has one user: the stash is kept per user, and two users of an organization do not see each
  other's uploads. One save of participations is a step there and taken apart in `DatedLedger`.
- `DatedLedger` has one organization and one party, and a share is a member of a set.

**Not modelled.** *Row-level security and scopes*: policies are evaluated by Postgres from rows that are
committed, and the context is set again at the start of each transaction; nothing of it outlives a request.
*Users and tokens*: fastapi-users' own code. *Health, settings, pages*: queries and one row made on demand; no
behaviour a state machine would show. *Wipe and backfill scripts*: run by hand with the service stopped.
*Migrations*: declarations; the unique keys and constraints they make are guards of the models that write those tables.

## 6. Plan

What is left, in order of what can go wrong with the most data:

1. Lemmas about what `StatementParser` refuses, for all inputs.
2. Hazards that have no property yet: the button after a stream error, and a shutdown in the middle of a
   stream that the browser takes for its end.
3. A second browser tab and a second user of the wizard, should the code begin to let them share state.
