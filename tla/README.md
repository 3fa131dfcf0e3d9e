# domain-status in TLA+

domain-status reads a list of URLs, fetches each one under concurrency and rate limits, enriches
what it finds (DNS, TLS, technologies, secrets, WHOIS, GeoIP, ...) and writes one observation per
domain and run to SQLite, from which it exports and summarises. The Rust code is `src/src/`; paths
below are relative to it. These modules model the program from its command line to its exit code:
the concurrent parts as state machines, the algorithms as operators checked against
reference definitions. TLC checks them on small instances, and TLAPS proves every invariant and action property of
the state machines for every instance.

    tlc -workers 2 -config ScanRunFaults.cfg MCScanRun     # any run, see "Runs"
    tlapm ScanRunProofs.tla                                # any module of proofs

`PROJECT.json` maps every definition to the lines it models, and lists runs, mutants, findings,
hazards and theorems.

## 1. The system

| Component | State | Operations | Interacts with |
|---|---|---|---|
| Scan orchestration (`run/`, `app/shutdown.rs`) | semaphore, JoinSet, cancellation token, in-flight registry, four atomic counters, the `runs` row | read a line, acquire a permit, spawn, reap, Ctrl-C, drain with a deadline, abort, finalise | spawns one task per URL; shares counters, registry and database with the tasks |
| Global rate limiter (`initialization/rate_limiter.rs`) | semaphore of tokens, fraction carried, last tick | acquire, tick and refill, shut down | every task waits for it before it works |
| Per-host limiter (`initialization/host_rate_limiter.rs`) | a bucket per host made on demand, each with a lock around `last_refill` and fraction | acquire: refill, try, sleep, poll again | the same tasks, after the global limiter |
| URL processing (`utils/process.rs`, `utils/retry.rs`, `fetch/`) | attempts, retry strategy, redirect chain, response, enrichment results, partial failures | attempt, hop, fallback, classify, extract, parse, enrich in parallel, persist, back off | called by a task under a 35 s timeout and a select with cancellation; writes metrics, statistics, rows |
| Observation store (`storage/insert/record.rs`, `url/`) | `url_status`, core and enrichment satellites, `url_partial_failures` | core transaction, enrichment transaction, each with busy retry | many tasks, one writer lock |
| Failure store (`storage/failure/`, `storage/insert/failure.rs`) | `url_failures` and its satellites | classify, assemble, failure transaction | tasks, the cancel path and the drain phase |
| Run rows (`storage/insert/run.rs`) | `runs` | insert at start, count and update at the end, history | initialisation, finalisation, summary |
| Initialisation (`run/init.rs`) | what the scan needs | validate, count lines, open pool, migrate, load rules, insert the run | once, sequential; WHOIS and GeoIP may degrade, the ruleset may not |
| Fingerprint ruleset (`fingerprint/ruleset/`) | a global behind two locks, three cache files | load from cache, fetch and merge sources, apply the floor, save, prune | once per process; processes share the cache |
| WHOIS (`whois/`) | a cache directory with a quota, a global count of saves | load, look up, save, evict | tasks, during record preparation |
| GeoIP (`geoip/`) | global readers, cached databases with metadata | load or download, look up | initialisation, then read-only by tasks |
| Status server (`status_server/`) | handles on the scan's counters, phase, throughput window | snapshot, metrics, shut down | reads what tasks change |
| Configuration, CLI, exit policy (`config/`, `cli.rs`) | none | merge settings, dispatch, turn a report into an exit code | before and after the scan |
| Technology detection (`fingerprint/detection`, `fingerprint/patterns`) | compiled rules | match channels, merge, imply, require, exclude, late passes | called on blocking threads, then after DNS and scripts |
| Parsing and secrets (`parse/`) | none | pure functions of a page | called on blocking threads |
| Export, summary (`export/`, `summary/`) | a cursor, a batch | read rows, format, write | may run beside a scan on the same database |

Hard behaviours:

* **Interleaving.** Tasks, the main loop, the refill task, status requests and Ctrl-C touch
  counters, registry, semaphores and database in any order. The drain phase reads the registry, awaits
  database writes, and only then aborts. Exports read while a scan writes.
* **Dropped futures.** Timeout, cancellation and abort drop a task at any await: in a queue for a
  token, inside a transaction, between two transactions, between a row and its counter.
* **Crashes.** Cache files are staged and renamed one by one; a process may end between any two, and two
  processes share the staging names.
* **Retries** at three levels: attempts of a URL, transactions on `SQLITE_BUSY`, downloads.
* **Partial failure.** A failing lookup, source or satellite insert is recorded as data instead of
  failing the URL; the recording may fail too.
* **Long tables kept in step by hand**: columns bound by position, fields of three export formats, lists of settings.
* **Arithmetic at the edge.** Fractions of tokens, saturating clocks, bounds on hops, bytes and retries.

## 2. The modules

### ScanRun: one scan

`ScanRun.tla` models `run_scan`, `process_url_task`, `drain_join_set` and `finalize_scan`. A task
is named by its input line; `pc[t]` is where it is, `main` where the main loop is. Each
suspension point is a state, and so are points at which another thread can see a half-done update.
`input` is chosen in `Init`: any lines out of URLs, blank and invalid ones. Read errors, database
errors and panics happen anywhere, as often as their bounds allow. `abort_all` does not wait for
the tasks: `lastPoll` holds those whose current poll outlives the abort, so that finalisation
races with their last writes, as it does in the code. `shutdown_gracefully` awaits the status server
without a deadline: `StatusServerStopped` is a step of the server's clients, not of the main future. The branch for a closed semaphore is left
out because nothing closes it. A panic is caught by the runtime (an unwinding build) and shows up
as a join error. What `process_url` does is reduced here to its outcomes.

### TokenBucket, RateLimiter, HostRateLimiter, Limiters: admission

`TokenBucket.tla` is `compute_refill_permits` in fixed point: a token is `Unit` parts, so the carried
fraction and the floor are exact. `RateLimiter.tla` composes it with the semaphore of the global
limiter: FIFO queue, hand-over to waiters, cancellation of a waiter (its permit goes back), and a refill
task whose reading of `available_permits` and whose `add_permits` are two steps. Time is the
time since the last tick (`pending`). `ideal` is a history variable: a real-valued bucket with the same rate,
which the admissions must never overdraw. `HostRateLimiter.tla` models the per-host
buckets, made on demand under a lock and refilled by whichever task polls. The clock is read before
the lock is taken; `age` is how old a task's reading is, at most `MaxStall`. With `Tolerated`
the ideal bucket credits the interval that a stale reading rewinds, which separates that one
deviation from everything else; it holds two preemptions more than the burst, since the `last_refill` that is
rewound may be another preempted task's reading. `Limiters.tla` puts the two side by side, each with constants and variables of its own, and `MCLimiters` checks them in one run: a behaviour is one of either.

### ProcessUrl: one URL

`ProcessUrl.tla` models `execute_with_retry`, `resolve_redirect_chain`, `handle_http_request`,
`handle_response` with its concurrent branches, `handle_timeout`, `handle_cancelled` and the contents of the failure
row. A URL is a model value with a scheme (`Https`) and the verdict of the policy (`Safe`). Servers answer
anything at every hop. Statuses are the classes the code tells apart. Errors
carry their kind, their failure context and whether the typed cause is still in the chain
(`wrapped`), because that decides about retries. `age` is the time since `start_time`, one unit per request
and `BACKOFF` units per sleep. `running` is the set of enrichment branches that have not finished. The
best-effort branches (favicon, scripts, well-known files) have no outcome other parts look at.

### UrlStore: persistence

`UrlStore.tla` models the core transaction, the enrichment transaction and the failure
transaction with `with_sqlite_retry`. A row is the task whose observation it holds. The
open transaction works on a private copy and publishes it on commit; the write lock is taken by its
first write; a dropped future rolls back. A task is stopped from outside in three ways: `Interrupt` (timeout or Ctrl-C, after
which a failure row is written whatever was committed), `RecordAbandoned` (the drain deadline writes that row while the task
goes on) and `Drop` (`abort_all`). `cut` remembers the tasks of the first two: they alone may have a `url_status` and a `url_failures` row. Satellite statements fail one by one, are noted, and the notes
are written in the enrichment transaction, where they can fail as well. What the statements write is in UrlRow.

### Launch, Settings: from arguments to exit code

`Settings.tla` has a setting as where it came from and a class of its content, and takes it through
clap, the overlay file and `merge_file_and_cli`, with the hand-written lists of keys that each stage uses.
`Launch.tla` runs several processes on one database through every fallible step of the start-up, the run
row stamped with a millisecond, the finalisation and the exit policy (the secret rules may not compile, the input may break off with rows already stored); a process may be killed at any
step, and `summary` reads what is left. The scan in the middle is ScanRun.

### AtomicFile, RulesetCache, WhoisCache, GeoIp, InitOnce: caches

`AtomicFile.tla` is `write_atomic`: the staging file, opened with truncation, written, renamed. Its
name depends on the target only, so two writers share it; a file may be seen torn.
`RulesetCache.tla` has `init_ruleset` with its double-checked lock, the default and explicit
sources, the fetch of each with its failures, the merge, the floor, degraded mode, the three cache files
in their order, pruning (one file after the other and none of them for sure) and crashes; calls of one process or of two. `InitOnce.tla` is the abstract
specification: a resource is set at most once in the life of a process and everyone gets the one that
is set. `LoadedOnce` states the refinement. `WhoisCache.tla` has lookups with their files, the seeded count of saves,
eviction, dropped lookups and restarts. What a dropped lookup has handed to the blocking pool still happens (`Late`), without being counted, and a
removal that fails leaves its entry. The history variable `skipped` counts what the quota's bound has to allow for: an enforcement
cut short, an entry that came late or could not be removed, a first count that is off (staging files are entries to it, and another save may be under way), and a save counted while the first
one counts the directory, which the `store` overwrites. `GeoIp.tla` has the choice of source, database
and metadata as a pair, and the ASN database that follows.

### StatusServer

Requests read counters, window and phase one after the other while the scan changes them; the
scan is reduced to what it does to those counters. `Eta` is the one of `/status` (the windowed rate, else that over the whole scan, else none),
`MetricsEta` that of `/metrics`, which shows 0 for none.

### Patterns, TechSignals, Detection: technologies

`Patterns.tla` gives patterns and texts over a small alphabet, the meaning of a match, the version
template and the literal index that skips most expressions. `TechSignals.tla` reads the fields of
a rule and holds them against headers, cookies, meta tags, DNS and certificate; where the code iterates over a hash map
the order is an argument. `Detection.tla` is a machine: merge, implications, requirements and
exclusions of bounded depth, then the passes for late signals, with the order of the ruleset a choice.

### Secrets

The keyword prefilter, the expressions (small patterns), entropy in thousandths of a bit, allow
lists, plausibility of keys, the context cut at character boundaries in a sequence of
bytes, severities, tokens and their claims, and the rules as they are read from a rule file.

### Export, ExportFields

`Export.tla` is the machine: the command, the cursor over selected rows, one query after the
other for each row, batches, a closed pipe, with the four filters of `build_where_clause`. Beside it a scan stores observations of a run and a domain in two transactions,
which those of other tasks may come between: core, core, enrichment, enrichment, in either order; the second may never come, and a failed clean-up may leave core
tables as they were (`LeftBehind`). History variables keep what was there when the cursor was opened (`was`, `mark`), what was stored since (`newer`) and the
order of the enrichments (`enriched`).
`ExportFields.tla` has the registry of fields and what CSV, JSONL (with its GeoIP and WHOIS objects) and Parquet show of a row,
the types of Parquet columns against the builders that fill them, and the items of lists in the three formats.

### PageFacts, NetFacts, UrlRow, ErrorReport: facts and reports

A chain of modules of operators, each extending the one before. `PageFacts` is what a document and its headers
say (a document is a sequence of elements); `NetFacts` what name servers, certificates, registries and address
databases say, the URL policy's classification of addresses, the clients and their redirect policies, and the retry of
downloads; `UrlRow` the record built from them and the rows that each statement leaves; `ErrorReport`
the classification, retry and text of failures (also as `handle_http_request` wraps them, which is how every failed request arrives), the counts, the timing and the answers of the status server, the
queries over a run, the printed statistics and the progress bar. `MCFacts` and `MCPage` put them in a variable
`sample`: a sampled input, taken in one step, for which the properties compare the algorithm with a reference definition. They are
action properties about the step that takes the sample.

### Composition

The modules meet at narrow interfaces: ScanRun's task waits for permits of the limiters and
takes one of the outcomes that ProcessUrl ends with; ProcessUrl's `Persist` is the whole of UrlStore's
sequence of transactions; ScanRun's `StoreCore` is its core commit; Launch's `Scan` is ScanRun. They are
checked separately because the product of their state spaces is out of reach; each one is meant to allow at least
the behaviour at the interface that its neighbour produces (Export, for one, the interleavings and the missing enrichments of UrlStore). RulesetCache, WhoisCache and GeoIp are composed with AtomicFile, Export
with the scan's commits, StatusServer with the scan's counters.

## 3. Runs

| Run | Instance | What it shows |
|---|---|---|
| `scan_faults` | 2 lines of any kind, 2 permits, 2 read errors, 1 database error, 1 panic, Ctrl-C | permits, counters, registry, failure rows, status rows and drain rows are accounted for; reported counts are final |
| `scan_live` | 2 lines, 1 permit, tasks that may hang | Ctrl-C and the drain deadline end the run; with tasks that make progress every scan returns with all permits back |
| `limiters` | global: 2 tasks, burst 2, two thirds of a token per unit of time, ticks late by up to 3; per host: 3 tasks, 2 hosts, half a token per unit, preemption up to 1 | burst and budget, admission of every waiter, release on cancellation |
| `store_race` | 2 tasks with any of 3 records, of one domain or of two, 1 retry, 1 failing statement, stopped at any await | no mixed observations, gaps explained, outcomes told truly, enrichment kept, termination |
| `process_url` | 3 URLs (http, https, rejected), 3 hops, 2 retries, 2 record types | allowed requests only, faithful rows, retries accounted for, a response accepted once, an end |
| `launch` | 2 processes, each setting alone in each layer, several outcomes of a scan, 2 milliseconds, 1 crash | the highest layer wins, limits can work, a completed run is complete, policy and counts fix the exit code, at the threshold with the rounding of the code |
| `ruleset` | 2 calls in 1 or 2 processes, 3 sources, 1 trouble | floor and cache hold full catalogues only, refinement of InitOnce, every call returns |
| `caches` | WHOIS: 2 lookups, 6 domains, quota 1, 1 trouble; GeoIP: 2 calls in 1 or 2 processes, 4 combinations of sources, 1 trouble | the quota, torn files only by overlap, metadata backed by a database, the ASN file used after a failed download |
| `status` | 2 URLs, 2 requests; some ninety thousand sampled inputs of the fact modules | snapshots bracketed by what was true, an ETA of zero only when done (on `/metrics` also when nothing has finished); facts, rows, failures and reports equal their reference definitions |
| `page` | 4 technologies with small rulesets, all patterns of three tokens, small texts, exports in every format of 2 runs and domains beside 2 observations, batches of 2 | the index answers like the expressions, detection is closed and sustained, the prefilter hides nothing, the formats agree, an exported row is explained |

Violations, each a disagreement between the code and something the repository says of it:

| Run | What happens |
|---|---|
| `process_server_errors` | `attach_failure_context` hides the `reqwest::Error` from `chain()`, so answers 429 and 5xx are never retried although comment and doc say they are. |
| `launch_precedence` | `merge_file_and_cli` drops the documented default of `--log-file`; a scan started without the flag ends with a configuration error. |

**Deviations that the properties leave room for.** Each is visible in the module named. Where a comment or a doc of
the repository says otherwise, the line is quoted here, and the property named states what the code does
instead; the window of the others is accepted there or not mentioned.

* *ProcessUrl:* `constants.rs:106` counts `RETRY_MAX_ATTEMPTS` "including initial attempt", but the strategy
  (`categorization.rs:47`) yields that many delays and an attempt precedes the first: a URL is tried once more.
  `RetryAccounting` states the bound `RETRY_MAX_ATTEMPTS + 1`, reached by every URL given up as retriable.
* *Launch:* `EXIT_CODES.md:16` says "greater than", but `failed / total * 100.0` rounds up for some pairs: 11 of 20
  exceeds 55 % and ends with 2. `ExitCodeMatchesRun` states which equal rates end with 2.
* *ErrorReport:* `handle_http_request` wraps every failure in a context that hides the `reqwest::Error`, so `url_failures.http_status` is NULL for every
  failed request, although `DATABASE.md:166` and `context.rs:336-338` promise it when available. `FailuresReported` states it for the wrapped error.
* *ExportFields:* JSONL's WHOIS object is null for a row with an expiration date or a country only, although
  `jsonl.rs:160` says "null if no data"; CSV and Parquet show both. `FormatsAgree` states which facts bring the object.

* *ScanRun:* the drain inserts failure rows for a snapshot before it aborts, so a domain may have both
  rows, as may one whose task was timed out or cancelled after its core commit (UrlStore); the registry is a set of URLs, so of two equal ones the second may be aborted without a row;
  the timeout's failure row carries the largest retry count whatever was tried;
  a client that keeps a connection of the status server open keeps the scan from ending.
* *HostRateLimiter:* a refill with an old clock reading pays for an interval twice, at most twice the preemption time, times rate.
* *UrlStore, UrlRow:* the enrichment clean-up of one task deletes partial failures of another with the same
  domain; a core clean-up that fails midway commits the deletes done before it; an enrichment roll-back loses the notes on
  core failures; a failed batch of claims is not in `total_failures` (`record.rs:75`).
* *Launch:* `--allow-degraded-fingerprints` never reaches the scan.
* *WhoisCache:* the rename of a dropped lookup adds an entry that no count has, and an entry that cannot be removed stays: the quota is only as good as those allow.
* *StatusServer:* `/metrics` shows an ETA of 0 while scanning as long as nothing has finished; its help text says so.
* *RulesetCache:* after a crash between saves, new metadata stands on old technologies.
* *Patterns, TechSignals:* the index and direct matching differ for overlapping needles and late alternation; a plain
  meta key stops at the first attribute kind that matches, so a later kind's version is lost; a
  presence-only pattern ends the search, so the version reported depends on hash order; an array with a
  non-string item is refused in string fields and filtered in maps.
* *Secrets:* a third base64url attempt can never succeed (`jwt.rs:121`); in a table of rules every list but the first of a block goes
  to later rules (`gitleaks.rs:246`).
* *PageFacts, NetFacts:* two CDN header rules name headers that are not recorded; a position found in lower-cased text is used in the original
  (`html.rs:259`); a wildcard SAN also accepts its base domain; an over-long line is cut by bytes for its
  log message and panics inside a character (`app/url.rs:28`); the download client's redirect policy has no hop limit,
  so only its timeout bounds a loop.
* *ErrorReport:* a failed request is called by words found in its message, since its cause is hidden; status buckets omit `ScanCancelled` and `SatelliteInsertError`; connect errors are
  categorised as request errors; TLS words are searched in a message that contains the URL;
  timing averages read the count before the sums; the ETA is "< 1s" while nothing has finished; top technologies count
  rows of name and version, not URLs.
* *Export, ExportFields:* CSV and JSONL call the response time `response_time_ms` (`fields.rs:514-524`, `jsonl.rs:185`), but the number is the stored seconds (`request.rs:174`) that Parquet
  calls `response_time_seconds`; JSONL's GeoIP object is null unless country code, ASN or latitude is known; a row's enrichment may be older than its core part, when two tasks of a domain
  interleave; JSONL omits a token's claims when neither algorithm nor issuer is known; names with a comma are split in
  JSONL and Parquet; header counts are of the whole table while lists are cut at the limit.

**Bounds.** Interference is between two tasks or between a task and the main loop, so two lines show
every pair; with one permit a task waits while another runs. One fault
of each kind reaches every error path; two read errors reach the limit on consecutive ones. Three hops reach
"first", "middle" and "last allowed". Two retries distinguish the first, a middle and the last
attempt. The limiters' rates are chosen so that a tick earns nothing, a fraction and a
whole token. Two failing statements let a satellite and the report of it fail together. One trouble
in a cache is a crash, a disk error or a dropped call at any step. Two observations of an export are enough to interleave the transactions of two tasks of one domain, or to change
one row while another is read; batches of two leave a full, a partial and an empty last one. Limits on lengths (context windows, messages, headers, archives) are scaled
down to a few bytes with texts on both sides of them. Sampled sets hold every sequence up to the length at which
the algorithm's cases meet. Machine integers are constants (`U64_MAX`, `I64_MAX`, `I32_MAX`, `U32_MAX`) scaled down in the same way.
`CHECK_DEADLOCK FALSE` is set where tasks end and nothing is left to do; in ScanRun the end of a
run is an explicit state and deadlock is checked.

**Fairness.** `ScanRun!FairSpec` assumes that the main future is polled, that its drain timer
fires, and that the clients of the status server let it stop, for which the code has no deadline. `TasksFair`, where a property has it as an antecedent, adds that tasks are polled and
aborted tasks are dropped: `process_url` is under a timeout and the limiters refill. In
RateLimiter the tasks are fair; `TickerFair` (clock and refill task) is assumed for admission only, since
cancellation must work without it. In HostRateLimiter taking the lock of a bucket is strongly
fair: `std::sync::Mutex` promises no order, but its holder never awaits and every contender sleeps between two
polls, so a blocked thread cannot be overtaken for ever. In ProcessUrl the future goes on whenever it can, because each request and lookup has
its own timeout; the overall timeout is not needed for termination. In UrlStore each task goes on, and
busy errors are bounded by the retry limit. In RulesetCache each call goes on and the load lock, a
`tokio::sync::Mutex` that serves in order, is strongly fair.

## 4. Proofs

| Theorem | Statement |
|---|---|
| `ScanRunProofs!TypeCorrect` | `Spec => []TypeOK` |
| `ScanRunProofs!PermitsAccounted` | available permits and tasks that hold one always add up to `MaxConcurrency` |
| `ScanRunProofs!CountersPartition` | until tasks are aborted, successful, failed and skipped partition the attempts no longer in progress |
| `ScanRunProofs!RegistryFaithful` | the in-flight registry names no URL without a task and, without repeated lines, every URL with one |
| `ScanRunProofs!FinalCountsFrozen` | once a scan that drained in time finalises, no step moves a counter or a row (action property) |
| `ScanRunProofs!RowsAccounted` | every counted failure is a row, a failed insert or a panic, every success a row; the drain writes what it counts |
| `RateLimiterProofs!LimiterBurstBound`, `LimiterAdmissionBudget` | the refill task never overfills the bucket; admissions never outrun the ideal bucket |
| `RateLimiterProofs!HostLimitsHold` | the same two bounds for every bucket of the per-host limiter |
| `ProcessUrlProofs!PageRequestsAllowed` | every request for the page is allowed by the policy and never drops to http |
| `ProcessUrlProofs!RetriesAccounted` | retry metrics and counts agree with the attempts; a task gives up only when it should |
| `ProcessUrlProofs!AcceptedNeverRepeats` | an accepted response is never followed by another attempt (action property) |
| `ProcessUrlProofs!TaskRowsFaithful` | a row tells the attempt that succeeded, its gaps are counted partial failures, a failure row tells the last attempt |
| `UrlStoreProofs!StoreFaithful` | no stored observation mixes two tasks, and every missing row has a cause |
| `UrlStoreProofs!EnrichmentStays` | a step that changes core rows leaves enrichment and partial failures alone (action property) |
| `UrlStoreProofs!OutcomesReported` | one task per domain is told it made the row, the metric counts the notes, a URL that failed and was not cut off left nothing |
| `LaunchProofs!SettingsAlwaysSound` | a scan starts with the settings of the highest layer that gives them and under limits it can run with |
| `LaunchProofs!CompletedRunsComplete`, `ExitCodesMatch` | a run marked as ended has counted its rows; policy and counts fix the exit code: 0 under never, 2 for any failure under any-failure, and under pct> 3 without URLs, 2 above the threshold or equal to it where the division rounds up, 0 otherwise |
| `RulesetCacheProofs!CatalogAlwaysSound` | no thin or built-in catalogue reaches a scan that did not ask for it, nor the default cache |
| `RulesetCacheProofs!LoadIsOnce` | RulesetCache implements InitOnce |
| `CacheProofs!MetadataAlwaysBacked` | GeoIP metadata never vouches for an older or unreadable database, unless two calls wrote it at once |
| `CacheProofs!AsnAlwaysFromCache` | without ASN data only if no cached file can be read (action property) |
| `CacheProofs!WhoisCacheIsSound` | the WHOIS cache keeps to its quota up to the saves between two enforcements, an interval for each enforcement skipped, count that is off, uncounted late entry or failed removal, and an entry per lookup in flight; a file is torn only by overlapping saves; an error is explained |
| `ReportProofs!ExportIsSound` | a successful export has written its snapshot, newest first and once each, a prefix of it on a closed pipe; in a row no core table is older than `url_status` or than one read before it, unless a clean-up failed, and the enrichments follow the order in which they were stored |
| `ReportProofs!DetectionIsSound` | after every pass the report is the one the fixed points define, exactly where the limits suffice and between bounds where they cut a chain; every entry names a source that showed it |
| `ReportProofs!SnapshotsSound`, `ZeroEtaMeansDone` | a response lies within what was true while it was put together; an ETA of zero while scanning means done, or on `/metrics` that nothing has finished |

They hold for every value of the constants, under the named assumptions next to their declarations:
finite sets of URLs, tasks, domains and technologies; positive rates, bursts, hops, retries and depths; markers (`None`, `NoTask`, `Absent`, ...) that are not values;
signals of a page that are of channels which observe (`PagesAssumption`).
TLC evaluates these assumptions on every run; those on the per-host rates and the bound on preemption are `HostBucketAssumption` of Limiters.
What an instance needs beyond them is a hypothesis of its theorem: `HostAssumption` (the bounds of Limiters and `Tolerated`), `GeoAssumption`
(contents differ from markers, and `ScenesFound`: the directory found at first is one whose metadata is backed) and `WhoisConstants` (finitely many lookups and
domains, and a directory found at first that has no torn file and is within the quota and one interval, as `shared` and `skipped` start empty).
MCCaches asserts `ScenesFound` and `WhoisConstants` of its scenes, so TLC evaluates both.

*ScanRun.* `TypeOK` alone is not inductive: spawning a task for the line just read needs that lines not
read yet have no task (`SpawnInv`). Permits are counted with cardinalities of sets of tasks: each action
moves one task into, out of or within the set that holds a permit, and the lemmas `MoveIn`,
`MoveOut` and `MoveWithin` reduce the goal to arithmetic. The partition of the counters is
inductive relative to the types and is proved the same way, over the set of tasks that have not been counted;
a panicked task stays in it until its join is reaped. The registry, inductive relative to the types, needs that entries are made before a task's first await and removed by the guard on
every way out. Frozen counts follow from `Quiescent`: at the end of an in-time drain no task is left, alive or in its last poll. `RowInv` combines
these with what a run without database errors and panics cannot have (`FaultInv`: panicked tasks, lost rows), with the drain's rows (`DrainInv`: none before the deadline,
after it those of the abandoned URLs it has passed) and with the columns of the report (`ReportInv`).

*RateLimiter.* `BurstBound` and `AdmissionBudget` are not inductive. `IInv` adds that the ticker
has nothing to add between two ticks (`TickerLocals`), and that the permits in the bucket and those about to
be added fit together (`PermitsCapped`): until the scan is cancelled, permits only leave the bucket
between the ticker's reading and its `add_permits` (dropped waiters return theirs after it). The budget weighs permits, permits
about to be added and the carried fraction against the ideal bucket. The only nonlinear terms are
multiples of `Unit` and `rps`; two lemmas on monotonicity and splitting of such products
keep them out of the other steps.

*HostRateLimiter.* `HostKept` weighs the level of a bucket, and the time not yet paid for, against its ideal: the sum is covered, or the ideal
bucket is full. `TaskKept` bounds how far `last_refill` can lie behind a task's reading. The attempt with an ideal bucket that
holds one preemption more than the burst failed, and TLC confirmed it: the stored `last_refill` may itself be the reading of another task preempted as
long, so a rewound interval is up to twice `MaxStall`. The ideal bucket therefore holds `Unit * capacity + 2 * rps * MaxStall`.

*ProcessUrl.* `RequestsAllowed` speaks of the states that are about to send; the strengthening
covers the state between the end of the chain and the fallback request. `RetryAccounting` needs the
relation between attempts and retries in every state: equal while the task waits to begin an attempt,
one apart within it. That an accepted response is final rests on `AcceptInv` and `ErrorInv`: from then on every error that can arise is of a kind that is not retriable.
`EnrichInv` follows the concurrent branches: a branch that is not running has left its result or its partial failure and its statistic.

*UrlStore.* The invariant has the writer lock (`LockInv`: who holds it and what the others' steps exclude), the private copy of the open transaction (`TxInv`), the
committed rows (`RowsInv`), and for the outcomes who inserted the row, what a failure left and what the metric has counted (`InsertInv`,
`FailInv`, `MetricInv`; `cut` separates a failure of the store from one written behind a commit). Each action falls into one of a few classes (a step of the writer, a commit, a roll-back, a step outside), with one lemma per class.

*Launch.* `MergePrecedence` and `ValidWorkable` are lemmas about the operators of Settings, key by key; `VerdictMeaning` one about the policy, for every rate and threshold. The
invariant says when a run id is drawn (`PlaceInv`), what the row of an id owned by one process holds (`RunInv`), and what has been merged and validated by then (`ConfInv`).

*RulesetCache and InitOnce.* `Inv` says that every file that parses is one a fit catalogue wrote (`DiskInv`), what the locals of each call are worth at each step (`LocInv`),
who holds the load lock and that a published ruleset stays (`OnceInv`), and that a success carries it (`EarnedInv`). The refinement maps the
initial states to initial states and every step to one of InitOnce or to a stutter.

*StatusServer.* A request mixes counters loaded at different times. The invariant brackets the mixture of what is loaded and the present value of what is not (`ViewInv`) between
the values at its begin and the peak so far; a request that has read the phase as scanning saw no more finished than there are URLs, and all of them only when each had ended (`SaidInv`); a rate is a number of URLs over at least one second (`RateInv`), so no fraction
shown is zero unless nothing remains (`EtaOf`).

*GeoIp.* For a database that no two calls have written at once, one call at most is between its first open and its last rename (`OneWriter`), the
staging file is its own (`StagedFile`), the database is in place when the metadata is written (`StoredFirst`), and no call is about to write a build older
than what is there (`NoneOlder`). The order of the two renames and the fact that a download in hand is not newer than the clock carry the rest.

*WhoisCache.* `Clean` says the same of one file. `Told` says that what a lookup has seen before an await still holds, or another's step has marked it as disturbed.
The quota needs an invariant of its own (`QuotaInv`), since `QuotaHolds` says nothing while an enforcement is due. `TopOf(saves, top)` names the last count from
`saves` on that calls for no enforcement, and `Room(k, n)` the entries allowed with `k` enforcements skipped and `n` lookups between rename and count. While the
counter is 0 or the first save counts, the directory itself fits (`OneFirst`, `FirstRoom`); a count about to be stored fits with what it lets in
(`StoreRoom`); from then on there is a `Plan`: the entries and the saves up to `top` fit if the enforcements in `waiting` are counted as skipped, and for each of
them that is deleting, so do the entries it will leave if only those are counted that became due after it listed the directory. The last deletion makes
that account the new plan; an enforcement cut short turns from waiting to skipped. The attempt to prove it corrected the model:
`skipped` did not count the saves that are counted while the first one counts the directory. Two lookups, a quota of 7 and an interval of 1 refute the bound without them: one lookup
counts 2 entries and stalls before its `store`, the other saves 5 more, uncounted once it is stored, and then 4 before the counter calls for an enforcement.

*Export.* `ExportInv` relates what is written and what is collected to the snapshot as far as the cursor has been read (`Accounted`, `SnapshotIs`), and the tables to the
transactions that fill them (`TwoTransactions`): a core table is behind `url_status`, or behind another core table, only where a clean-up failed (`Level`), and the other tables hold the last
enrichment. Each part of a row is related to the tables as they are now (`Read`), so that the next query fits what was read before; two enrichments read one after the other
stand in that order in the history (`Followed`). Steps of the scan only add to the histories and move the tables on (`Grown`), which keeps `Read` of every row that is collected or written.
The cursor is any order of the selected rows by descending observation, so no sorting has to be computed.

*Detection.* Every entry of the map is honest through the passes that rebuild it from the report (`AllHonest`, `ReportsHonest`). What is detected lies in every closed set that contains
the start, and a round of `expand_implies` that is not the last adds a name, so that a catalog within the limit is closed when the rounds end (`Expanding`). The rounds
of `apply_technology_requires` are a recursive function; that its last value lies between the greatest self-sufficient subset and the start, and is that subset
when the catalog is within the limit, is shown for this one predicate by a minimal counterexample in a well-founded order.

Model-checked only, and why:

* all liveness (`RunEnds`, `ScanReturns`, `QueueServed`, `HostWaitersAdmitted`, `PersistEnds`, `ProcessEnds`, `InitReturns`): fairness and `ENABLED` are beyond the prover;
* what the fact modules, Patterns and Secrets compute (`FactsSound`, `RowTellsObservation`, `FailuresReported`, `MatchingSound`, `SecretsSound`, `FormatsAgree`): recursion
  (nested JSON) and folds over sequences, whose value for every input needs induction over data.

## 5. What is not modelled

* Engines the code calls: regular expressions beyond the small patterns, the HTML parser, SQLite,
  TLS and DNS protocols, the MaxMind format, Arrow and the vendored WHOIS client. Their answers are choices or small models marked external.
* The log: its formats and the thread that writes it. That it cannot be opened is a step of Launch.
* The SQL of migrations; that one fails is a step of Launch.
* The wording of messages, except where a property is about their cut or their parts.
* Development code: benchmarks, the cost model, corpora and gold sets, coverage of handlers, test helpers.
* Casts of counters to `i32` in finalisation, which are exact below 2^31.

## 6. Plan

1. **Done:** every component of section 1 as a module; proofs of the invariants and action properties of every state machine; the refinement of InitOnce step by step.
2. **Next, refinement:** an abstract specification of a scan (each URL has one outcome and its row) that
   ScanRun implements outside the drain window; ProcessUrl as an implementation of ScanRun's task.
