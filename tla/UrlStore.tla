------------------------------ MODULE UrlStore ------------------------------
(***************************************************************************)
(* How one observation of a URL reaches SQLite (storage/insert/): the core *)
(* transaction (url_status and its core satellites), then the enrichment   *)
(* transaction (enrichment satellites and url_partial_failures), each      *)
(* retried on SQLITE_BUSY, and the failure transaction of a URL that could *)
(* not be stored.  Tasks of one run interleave; several of them may        *)
(* observe the same domain, whose rows they then overwrite.                *)
(*                                                                         *)
(* The content of a row is abstracted to the task whose observation it     *)
(* holds.  SQLite has one writer at a time: a transaction takes the lock   *)
(* with its first write, works on a private copy of the domain's rows, and *)
(* its commit publishes them to the readers.                               *)
(***************************************************************************)
EXTENDS Integers, FiniteSets

CONSTANTS
    Task,         \* the tasks that persist an observation
    Domain,       \* the initial_domains of the run
    CoreTable,    \* core satellite tables
    EnrichTable,  \* enrichment satellite tables, url_partial_failures apart
    Records,      \* the observations the scan may come up with (Observation)
    None,         \* no row, no task
    MAX_RETRIES,  \* retries of a transaction after a transient error
    MaxFaults     \* bound: how many satellite statements fail

CoreSatellites == "core_satellites"   \* the failed clean-up, as a failure
ScanTime == "scan_time"               \* a DNS or TLS miss found while scanning
Cause == CoreTable \cup EnrichTable \cup {CoreSatellites, ScanTime}

\* A PersistedUrlRecord: its initial_domain, the core and the enrichment
\* tables it has rows for, and whether scanning left a partial failure.
Observation == [domain : Domain, core : SUBSET CoreTable, enrich : SUBSET EnrichTable,
                scan : BOOLEAN]

ASSUME StoreAssumption ==
    /\ None \notin Task
    /\ MAX_RETRIES \in Nat
    /\ MaxFaults \in Nat
    /\ Records \subseteq Observation
    /\ CoreTable \cap EnrichTable = {}
    /\ {CoreSatellites, ScanTime} \cap (CoreTable \cup EnrichTable) = {}
    /\ IsFiniteSet(Task) /\ IsFiniteSet(CoreTable) /\ IsFiniteSet(EnrichTable)

VARIABLES
    db,          \* of each domain: its committed rows
    tx,          \* the rows of the domain the open transaction works on
    writer,      \* the task whose transaction holds the write lock
    record,      \* of each task: what it has observed
    pc,          \* of each task: where it is
    attempt,     \* of each task: with_sqlite_retry's attempt
    inserted,    \* of each task: did its upsert make the row?
    coreFail,    \* of each task: satellite_insert_failures
    enrichFail,  \* of each task: insert_failures of the enrichment transaction
    recorded,    \* of each task: the causes written to url_partial_failures
    metric,      \* RuntimeMetrics::partial_failure_rows
    failures,    \* the tasks that have a url_failures row, satellites included
    cut,         \* history: the tasks timed out, cancelled or given up by the drain
    faults       \* how many satellite statements have failed

results == <<inserted, coreFail, enrichFail, recorded>>
vars == <<db, tx, writer, record, pc, attempt, results, metric, failures, cut, faults>>

Owner == Task \cup {None}

\* The rows of one domain.  by is history: whose enrichment transaction
\* committed last.
Rows == [row : Owner, core : [CoreTable -> Owner], enrich : [EnrichTable -> Owner],
         partial : SUBSET (Task \X Cause), by : Owner]

NoRows == [row |-> None, core |-> [c \in CoreTable |-> None],
           enrich |-> [e \in EnrichTable |-> None], partial |-> {}, by |-> None]

Steps == {"core", "core_satellites", "core_commit",
          "enrich", "partials", "enrich_commit", "report", "done",
          "failing", "fail_commit", "failed", "dropped"}

\* process_url is at work on the observation.
Persisting == {"core", "core_satellites", "core_commit",
               "enrich", "partials", "enrich_commit", "report"}

\* The task has nothing left to do.
Finished == {"done", "failed", "dropped"}

TypeOK ==
    /\ db \in [Domain -> Rows]
    /\ tx \in Rows
    /\ writer \in Owner
    /\ record \in [Task -> Records]
    /\ pc \in [Task -> Steps]
    /\ attempt \in [Task -> 0 .. MAX_RETRIES]
    /\ inserted \in [Task -> BOOLEAN]
    /\ coreFail \in [Task -> SUBSET Cause]
    /\ enrichFail \in [Task -> SUBSET Cause]
    /\ recorded \in [Task -> SUBSET Cause]
    /\ metric \in Nat
    /\ failures \subseteq Task
    /\ cut \subseteq Task
    /\ faults \in 0 .. MaxFaults

\* A fresh run_id: no rows yet.  The records are whatever the scan found.
Init ==
    /\ db = [d \in Domain |-> NoRows]
    /\ tx = NoRows
    /\ writer = None
    /\ record \in [Task -> Records]
    /\ pc = [t \in Task |-> "core"]
    /\ attempt = [t \in Task |-> 0]
    /\ inserted = [t \in Task |-> FALSE]
    /\ coreFail = [t \in Task |-> {}]
    /\ enrichFail = [t \in Task |-> {}]
    /\ recorded = [t \in Task |-> {}]
    /\ metric = 0
    /\ failures = {}
    /\ cut = {}
    /\ faults = 0

Goto(t, step) == pc' = [pc EXCEPT ![t] = step]

\* n statements on satellite tables fail.
Fail(n) == faults + n <= MaxFaults /\ faults' = faults + n

----------------------------------------------------------------------------
(* Transactions and their retry.                                           *)

\* The transaction is dropped uncommitted: SQLite rolls it back.
Rollback(t) ==
    /\ writer' = IF writer = t THEN None ELSE writer
    /\ tx' = IF writer = t THEN NoRows ELSE tx

\* Mutated form: the attempts are not counted.
RetryForever(t, transient, start, giveUp) ==
    /\ Rollback(t)
    /\ IF transient THEN Goto(t, start) ELSE Goto(t, giveUp)
    /\ UNCHANGED <<db, record, attempt, inserted, coreFail, enrichFail, metric, failures, cut, faults>>

\* with_sqlite_retry on an error: from the start again after a transient
\* error while attempts are left, otherwise the error is returned.
Retry(t, transient, start, giveUp) ==
    /\ Rollback(t)
    /\ IF transient /\ attempt[t] < MAX_RETRIES
       THEN /\ attempt' = [attempt EXCEPT ![t] = @ + 1]
            /\ Goto(t, start)
       ELSE /\ attempt' = [attempt EXCEPT ![t] = 0]
            /\ Goto(t, giveUp)
    /\ UNCHANGED <<db, record, inserted, coreFail, enrichFail, metric, failures, cut, faults>>

----------------------------------------------------------------------------
(* insert_url_record_impl: the core transaction.                           *)

\* Mutated form: the core transaction empties the enrichment tables, as it used to.
UpsertDeletesEnrichment(t) ==
    /\ pc[t] = "core"
    /\ writer = None
    /\ writer' = t
    /\ tx' = [NoRows EXCEPT !.row = t, !.core = db[record[t].domain].core]
    /\ inserted' = [inserted EXCEPT ![t] = db[record[t].domain].row = None]
    /\ Goto(t, "core_satellites")
    /\ UNCHANGED <<db, record, attempt, coreFail, enrichFail, recorded, metric, failures, cut, faults>>

\* Mutated form: whether the row is new is not looked at again when the upsert is retried.
UpsertFirstLook(t) ==
    /\ pc[t] = "core"
    /\ writer = None
    /\ writer' = t
    /\ tx' = [db[record[t].domain] EXCEPT !.row = t]
    /\ inserted' = [inserted EXCEPT ![t] = @ \/ db[record[t].domain].row = None]
    /\ Goto(t, "core_satellites")
    /\ UNCHANGED <<db, record, attempt, coreFail, enrichFail, recorded, metric, failures, cut, faults>>

\* upsert_url_status_row: INSERT ... ON CONFLICT DO NOTHING, else UPDATE; the
\* first write of the transaction, so it takes the lock.  inserted says
\* which of the two it was.
upsert_url_status_row(t) ==
    /\ pc[t] = "core"
    /\ writer = None
    /\ writer' = t
    /\ tx' = [db[record[t].domain] EXCEPT !.row = t]
    /\ inserted' = [inserted EXCEPT ![t] = db[record[t].domain].row = None]
    /\ Goto(t, "core_satellites")
    /\ UNCHANGED <<db, record, attempt, coreFail, enrichFail, recorded, metric, failures, cut, faults>>

\* The core satellites: DELETE from every core table, then one insert per
\* table, each of which may fail on its own without ending the transaction.
InsertCore(t) ==
    /\ pc[t] = "core_satellites"
    /\ \E failed \in SUBSET record[t].core :
          /\ tx' = [tx EXCEPT !.core = [c \in CoreTable |->
                       IF c \in record[t].core \ failed THEN t ELSE None]]
          /\ coreFail' = [coreFail EXCEPT ![t] = failed]
          /\ Fail(Cardinality(failed))
    /\ Goto(t, "core_commit")
    /\ UNCHANGED <<db, writer, record, attempt, inserted, enrichFail, recorded, metric, failures, cut>>

\* A DELETE fails, after some tables have been emptied: one failure is noted
\* and every core insert is skipped.
CoreCleanupFails(t) ==
    /\ pc[t] = "core_satellites"
    /\ \E cleaned \in SUBSET CoreTable :
          /\ cleaned # CoreTable
          /\ tx' = [tx EXCEPT !.core = [c \in CoreTable |->
                       IF c \in cleaned THEN None ELSE tx.core[c]]]
    /\ coreFail' = [coreFail EXCEPT ![t] = {CoreSatellites}]
    /\ Fail(1)
    /\ Goto(t, "core_commit")
    /\ UNCHANGED <<db, writer, record, attempt, inserted, enrichFail, recorded, metric, failures, cut>>

\* The fact row and the core satellites become visible together.
CoreCommit(t) ==
    /\ pc[t] = "core_commit"
    /\ db' = [db EXCEPT ![record[t].domain] = tx]
    /\ writer' = None
    /\ tx' = NoRows
    /\ attempt' = [attempt EXCEPT ![t] = 0]
    /\ Goto(t, "enrich")
    /\ UNCHANGED <<record, results, metric, failures, cut, faults>>

\* The upsert or the commit returns an error; persist() fails and the URL is
\* recorded as a failure.
CoreError(t) ==
    /\ pc[t] \in {"core", "core_commit"}
    /\ \E transient \in BOOLEAN : Retry(t, transient, "core", "failing")
    /\ UNCHANGED recorded

----------------------------------------------------------------------------
(* insert_enrichment_txn.                                                  *)

\* DELETE from every enrichment table (url_partial_failures is one of them),
\* then one insert per table, each of which may fail on its own.
ReplaceEnrichment(t) ==
    /\ pc[t] = "enrich"
    /\ writer = None
    /\ writer' = t
    /\ \E failed \in SUBSET record[t].enrich :
          /\ tx' = [db[record[t].domain] EXCEPT
                      !.enrich = [e \in EnrichTable |->
                          IF e \in record[t].enrich \ failed THEN t ELSE None],
                      !.partial = {},
                      !.by = t]
          /\ enrichFail' = [enrichFail EXCEPT ![t] = failed]
          /\ Fail(Cardinality(failed))
    /\ Goto(t, "partials")
    /\ UNCHANGED <<db, record, attempt, inserted, coreFail, recorded, metric, failures, cut>>

\* Mutated form: the write failures of the core transaction are not handed on.
CausesWithoutCore(t) == (IF record[t].scan THEN {ScanTime} ELSE {}) \cup enrichFail[t]

\* What the task has to report: scan-time partials, then the write failures
\* of both transactions.
Causes(t) == (IF record[t].scan THEN {ScanTime} ELSE {}) \cup coreFail[t] \cup enrichFail[t]

\* insert_partial_failures_in_tx: one row per cause; an insert that fails is
\* only logged.
InsertPartials(t) ==
    /\ pc[t] = "partials"
    /\ \E written \in SUBSET Causes(t) :
          /\ tx' = [tx EXCEPT !.partial = @ \cup {<<t, c>> : c \in written}]
          /\ recorded' = [recorded EXCEPT ![t] = written]
          /\ Fail(Cardinality(Causes(t) \ written))
    /\ Goto(t, "enrich_commit")
    /\ UNCHANGED <<db, writer, record, attempt, inserted, coreFail, enrichFail, metric, failures, cut>>

\* The new enrichment replaces the old for the readers.
EnrichCommit(t) ==
    /\ pc[t] = "enrich_commit"
    /\ db' = [db EXCEPT ![record[t].domain] = tx]
    /\ writer' = None
    /\ tx' = NoRows
    /\ attempt' = [attempt EXCEPT ![t] = 0]
    /\ Goto(t, "report")
    /\ UNCHANGED <<record, results, metric, failures, cut, faults>>

\* A DELETE or the commit returns an error.  When the retries are used up the
\* URL still succeeds: the earlier enrichment rows are kept and nothing is
\* reported (the summary counts no inserted row): the partial failures the
\* transaction wrote are gone with it.
EnrichError(t) ==
    /\ pc[t] \in {"enrich", "enrich_commit"}
    /\ \E transient \in BOOLEAN : Retry(t, transient, "enrich", "done")
    /\ recorded' = [recorded EXCEPT ![t] = {}]

\* persist(): the rows written are added to the live metric.
record_partial_failures(t) ==
    /\ pc[t] = "report"
    /\ metric' = metric + Cardinality(recorded[t])
    /\ Goto(t, "done")
    /\ UNCHANGED <<db, tx, writer, record, attempt, results, failures, cut, faults>>

----------------------------------------------------------------------------
(* insert_url_failure_impl: the failure row and its satellites.            *)

\* The url_failures row (the first write, so it takes the lock), its redirect
\* chain and its response headers.
InsertFailure(t) ==
    /\ pc[t] = "failing"
    /\ writer = None
    /\ writer' = t
    /\ Goto(t, "fail_commit")
    /\ UNCHANGED <<db, tx, record, attempt, results, metric, failures, cut, faults>>

\* Row and satellites become visible together.
FailureCommit(t) ==
    /\ pc[t] = "fail_commit"
    /\ failures' = failures \cup {t}
    /\ writer' = None
    /\ attempt' = [attempt EXCEPT ![t] = 0]
    /\ Goto(t, "failed")
    /\ UNCHANGED <<db, tx, record, results, metric, cut, faults>>

\* Any error, of a satellite too, ends the transaction.
FailureError(t) ==
    /\ pc[t] \in {"failing", "fail_commit"}
    /\ \E transient \in BOOLEAN : Retry(t, transient, "failing", "failed")
    /\ UNCHANGED recorded

----------------------------------------------------------------------------
(* Being cut off.                                                          *)

\* process_url_task's select!: the 35 s timeout or Ctrl-C drops process_url
\* where it waits, and handle_timeout or handle_cancelled then writes a
\* url_failures row, whatever process_url had committed.  A COMMIT in flight
\* is carried out by SQLite's thread or not: the first is this step one
\* later.
Interrupt(t) ==
    /\ pc[t] \in Persisting
    /\ Rollback(t)
    /\ attempt' = [attempt EXCEPT ![t] = 0]
    /\ cut' = cut \cup {t}
    /\ Goto(t, "failing")
    /\ UNCHANGED <<db, record, results, metric, failures, faults>>

\* record_drain_timeout_failures: past the drain deadline the main task writes
\* the url_failures row of a task that is still at work.
RecordAbandoned(t) ==
    /\ pc[t] \notin Finished
    /\ writer = None
    /\ failures' = failures \cup {t}
    /\ cut' = cut \cup {t}
    /\ UNCHANGED <<db, tx, writer, record, pc, attempt, results, metric, faults>>

\* abort_all drops the task where it waits.
Drop(t) ==
    /\ pc[t] \notin Finished
    /\ Rollback(t)
    /\ attempt' = [attempt EXCEPT ![t] = 0]
    /\ Goto(t, "dropped")
    /\ UNCHANGED <<db, record, results, metric, failures, cut, faults>>

\* What ends or condemns the task from outside.
Stop(t) == Interrupt(t) \/ RecordAbandoned(t) \/ Drop(t)

\* What the task does when it is polled.
Run(t) ==
    \/ upsert_url_status_row(t) \/ InsertCore(t) \/ CoreCleanupFails(t)
    \/ CoreCommit(t) \/ CoreError(t)
    \/ ReplaceEnrichment(t) \/ InsertPartials(t) \/ EnrichCommit(t) \/ EnrichError(t)
    \/ record_partial_failures(t)
    \/ InsertFailure(t) \/ FailureCommit(t) \/ FailureError(t)

Next == \E t \in Task : Run(t) \/ Stop(t)

Spec == Init /\ [][Next]_vars

\* The runtime polls every task that can go on, and busy_timeout turns a
\* lock that stays taken into an error.
FairSpec == Spec /\ \A t \in Task : WF_vars(Run(t))

----------------------------------------------------------------------------
(* Properties.                                                             *)

\* A reader never sees satellites of two observations of a domain side by
\* side: not among the core tables (also when their clean-up fails half way),
\* and not among the enrichment tables.
ObservationsNotMixed ==
    \A d \in Domain :
        /\ \A a, b \in CoreTable : LET rows == db[d].core IN
              (rows[a] # None /\ rows[b] # None) => rows[a] = rows[b]
        /\ \A a, b \in EnrichTable : LET rows == db[d].enrich IN
              (rows[a] # None /\ rows[b] # None) => rows[a] = rows[b]

\* "not observed" and "insert failed" can be told apart: as long as a task's
\* fact row and its enrichment are both the current ones, every child row it
\* had and that is missing has its cause in url_partial_failures, unless
\* writing that cause failed too.
GapsExplained ==
    \A d \in Domain, t \in Task :
        (db[d].row = t /\ db[d].by = t) =>
            LET known(c) == \/ <<t, c>> \in db[d].partial
                         \/ c \in Causes(t) \ recorded[t]
            IN  /\ \A c \in record[t].core :
                      db[d].core[c] = t \/ known(c) \/ known(CoreSatellites)
                /\ \A e \in record[t].enrich : db[d].enrich[e] = t \/ known(e)
                /\ record[t].scan => known(ScanTime)

\* Of all the tasks that stored a domain at most one was told that it made the
\* row, so that a domain is counted once, also when upserts are retried and
\* duplicates race; and as soon as there is a row one was told, or would have
\* been had it not been cut off.
OneInsertPerDomain ==
    \A d \in Domain :
        LET made == {t \in Task : record[t].domain = d /\ inserted[t]}
            stored == {"enrich", "partials", "enrich_commit", "report", "done"}
        IN  /\ Cardinality({t \in made : pc[t] \in stored}) <= 1
            /\ db[d].row # None =>
                  \E t \in made : pc[t] \in stored \cup {"dropped"} \/ t \in cut

\* At any time the metric counts at least the rows in url_partial_failures of
\* the tasks that are done, and exactly those when no domain occurs twice.
MetricCountsRows ==
    LET rows == {x \in Domain \X (Task \X Cause) :
                     x[2] \in db[x[1]].partial /\ pc[x[2][1]] = "done"}
    IN  /\ metric >= Cardinality(rows)
        /\ (\A s, t \in Task : record[s].domain = record[t].domain => s = t)
               => metric = Cardinality(rows)

\* A URL that is recorded as failed because storing it failed, after however
\* many attempts, has left nothing in url_status or in any satellite table.
\* One that was cut off may have both a url_status and a url_failures row.
FailedLeavesNothing ==
    \A t \in failures \ cut, d \in Domain :
        /\ db[d].row # t
        /\ \A c \in CoreTable : db[d].core[c] # t
        /\ \A e \in EnrichTable : db[d].enrich[e] # t
        /\ \A c \in Cause : <<t, c>> \notin db[d].partial

\* A reader can trust what it finds: satellites of one observation, and a cause
\* for every row that is missing (upsert.rs:245, record.rs:143).
StoredFaithfully == ObservationsNotMixed /\ GapsExplained

\* What a task reports is what it left in the database, through retries, races and
\* failures: who made a domain's row, how many gaps there are, and nothing at all
\* of a URL whose storing failed (insert/retry.rs:59).
OutcomesTrue == OneInsertPerDomain /\ MetricCountsRows /\ FailedLeavesNothing

\* Readers keep the previous enrichment of a domain until its next enrichment
\* transaction commits: a step that changes the fact row or the core rows
\* leaves enrichment and partial failures alone.
EnrichmentKept ==
    [][\A d \in Domain :
          (db'[d].row # db[d].row \/ db'[d].core # db[d].core) =>
              (db'[d].enrich = db[d].enrich /\ db'[d].partial = db[d].partial)]_vars

\* Every task comes to an end: no retry goes on for ever, and nobody waits for
\* a lock that is not released.
PersistEnds == \A t \in Task : <>(pc[t] \in Finished)

=============================================================================
