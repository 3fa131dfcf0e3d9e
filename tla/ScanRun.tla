------------------------------ MODULE ScanRun ------------------------------
(***************************************************************************)
(* One scan run: run_scan's main loop (src/run/mod.rs) hands every input   *)
(* line to a spawned task (src/run/task.rs) under a semaphore, drains the  *)
(* tasks with a deadline and finalizes the run (src/run/finalize.rs).      *)
(*                                                                         *)
(* A task is named by the line it was spawned for.  The main loop and      *)
(* every task are processes that interleave at their awaits, and at the    *)
(* points where another thread can see a half-done update: between the     *)
(* counter update and the drop of the in-flight guard, for one.  What      *)
(* process_url does to fetch a page is left out: it stores the core row    *)
(* (StoreCore), skips, fails, times out or panics.                         *)
(***************************************************************************)
EXTENDS Integers, FiniteSets

CONSTANTS
    Url,                    \* normalized URLs of the input
    Domain, DomainOf,       \* url_status is keyed by (run_id, initial_domain)
    Blank,                  \* an empty line or a # comment
    Invalid,                \* a line that does not validate, or is SSRF-unsafe
    NumLines,               \* bound: lines of the input
    MaxConcurrency,         \* config.max_concurrency: permits of the semaphore
    MaxConsecutiveErrors,   \* MAX_CONSECUTIVE_ERRORS (10 in the code)
    MaxReadErrors,          \* bound: read errors of the input in a run
    MaxDbErrors,            \* bound: database statements that fail in a run
    MaxPanics,              \* bound: tasks that panic in a run
    AllowInterrupt          \* whether the operator may press Ctrl-C

ASSUME NumLinesAssumption == NumLines \in Nat
ASSUME MaxConcurrencyAssumption == MaxConcurrency \in Nat \ {0}
ASSUME BoundsAssumption ==
    /\ MaxConsecutiveErrors \in Nat
    /\ MaxReadErrors \in Nat
    /\ MaxDbErrors \in Nat
    /\ MaxPanics \in Nat
    /\ AllowInterrupt \in BOOLEAN
ASSUME LineAssumption == Blank \notin Url /\ Invalid \notin Url /\ Blank # Invalid
ASSUME DomainAssumption == IsFiniteSet(Domain) /\ DomainOf \in [Url -> Domain]
ASSUME UrlAssumption == IsFiniteSet(Url)

Task == 1..NumLines
Line == Url \cup {Blank, Invalid}

VARIABLES
    input,                  \* the lines of the input file
    pos,                    \* lines read so far; the last one is at input[pos]
    consecutive_errors,     \* consecutive read errors
    readErrors,             \* all read errors (bounded by MaxReadErrors)
    main,                   \* where run_scan is
    cancel,                 \* the CancellationToken
    semaphore,              \* available permits
    pc,                     \* where each task is
    in_flight_urls,         \* the registry of the InFlightGuards
    abandoned,              \* drain_join_set's snapshot of the registry
    toRecord,               \* abandoned URLs whose row is still to be inserted
    aborted,                \* abort_all was called, or the JoinSet dropped
    lastPoll,               \* tasks whose last poll, or commit, outlives the abort
    total_urls_attempted, successful_urls, failed_urls, skipped_urls,
    url_status,             \* domains with a url_status row of this run
    taskRow,                \* the url_failures row written by each task
    drainRow,               \* the url_failures row written by the drain phase
    dbErrors,               \* database statements that failed
    panics,                 \* tasks that panicked
    report                  \* the counts persisted in runs and reported

loopVars    == <<input, pos, consecutive_errors, readErrors>>
mainVars    == <<loopVars, main>>
taskVars    == <<semaphore, pc, in_flight_urls>>
drainVars   == <<abandoned, toRecord, aborted, lastPoll>>
counters    == <<total_urls_attempted, successful_urls, failed_urls, skipped_urls>>
rows        == <<url_status, taskRow, drainRow>>
faults      == <<dbErrors, panics>>
vars == <<mainVars, cancel, taskVars, drainVars, counters, rows, faults, report>>

-----------------------------------------------------------------------------
(* Where a task can be.                                                    *)

\* Before the task is counted, the permit still held.
Pending == {"spawned", "admit", "work", "inserted", "updated", "cancelling", "cancelRowed"}
\* The permit travels inside the task's parameters until the task ends.
Holding == Pending \cup {"recording"}
\* The guard is created by the task's first poll and dropped as its last act.
Guarded == (Holding \ {"spawned"}) \cup {"exiting", "unwinding"}
\* Finished, and waiting in the JoinSet to be reaped.
Finished == {"done", "panicked"}
\* What the JoinSet still holds.
Joinable == {"spawned"} \cup Guarded \cup Finished
\* Neither the task nor the join of it has been counted.
Uncounted == Pending \cup {"unwinding", "panicked"}
Processing == {"work", "inserted", "updated"}

TaskState == {"none", "joined", "joinError", "aborted"} \cup Joinable
RowState == {"none", "written", "lost"}
MainState == {"reap", "select", "permit", "drain", "drainRows", "abort", "shutdown",
              "serverStops", "load", "countStatus", "countFailures", "persist", "close", "done",
              "shutdownErr", "returnErr", "errored"}
Returned == {"done", "errored"}
PoolClosed == main = "done"

Reported == {"total", "successful", "failed", "skipped"}

url_failures == Cardinality({t \in Task : taskRow[t] = "written"})
                  + Cardinality({u \in Url : drainRow[u] = "written"})

-----------------------------------------------------------------------------
Init ==
    /\ input \in [Task -> Line]
    /\ pos = 0
    /\ consecutive_errors = 0
    /\ readErrors = 0
    /\ main = "reap"
    /\ cancel = FALSE
    /\ semaphore = MaxConcurrency
    /\ pc = [t \in Task |-> "none"]
    /\ in_flight_urls = {}
    /\ abandoned = {}
    /\ toRecord = {}
    /\ aborted = FALSE
    /\ lastPoll = {}
    /\ total_urls_attempted = 0
    /\ successful_urls = 0
    /\ failed_urls = 0
    /\ skipped_urls = 0
    /\ url_status = {}
    /\ taskRow = [t \in Task |-> "none"]
    /\ drainRow = [u \in Url |-> "none"]
    /\ dbErrors = 0
    /\ panics = 0
    /\ report = [c \in Reported |-> 0]

-----------------------------------------------------------------------------
(* The main loop.                                                          *)

GoTo(m) == main' = m
OnlyMainMoves ==
    UNCHANGED <<loopVars, cancel, taskVars, drainVars, counters, rows, faults, report>>

\* The signal task cancels the token at the first Ctrl-C.
CtrlC ==
    /\ AllowInterrupt
    /\ main \notin Returned
    /\ ~cancel
    /\ cancel' = TRUE
    /\ UNCHANGED <<mainVars, taskVars, drainVars, counters, rows, faults, report>>

\* Takes t out of the JoinSet; a join error is counted as a failed URL.
Join(t) ==
    /\ pc[t] \in Finished
    /\ pc' = [pc EXCEPT ![t] = IF pc[t] = "panicked" THEN "joinError" ELSE "joined"]
    /\ failed_urls' = failed_urls + (IF pc[t] = "panicked" THEN 1 ELSE 0)
    /\ UNCHANGED <<mainVars, cancel, semaphore, in_flight_urls, drainVars,
                   total_urls_attempted, successful_urls, skipped_urls, rows, faults,
                   report>>

\* Interleaved reaping at the top of the loop.
Reap(t) == main = "reap" /\ Join(t)

ReapDone ==
    /\ main = "reap"
    /\ \A t \in Task : pc[t] \notin Finished
    /\ GoTo("select")
    /\ OnlyMainMoves

\* A permit wait that does not race the token.
LeaveLoopNotAtPermit ==
    /\ main = "select"
    /\ pos = NumLines \/ cancel
    /\ GoTo("drain")
    /\ OnlyMainMoves

\* The main loop ends at the end of the input, or when the cancel branch of
\* either select! wins; a line already read is then dropped, not attempted.
LeaveLoop ==
    /\ \/ main = "select" /\ pos = NumLines
       \/ main \in {"select", "permit"} /\ cancel
    /\ GoTo("drain")
    /\ OnlyMainMoves

\* A skip that is not an attempt.
SkipUnattempted ==
    /\ skipped_urls' = skipped_urls + 1
    /\ UNCHANGED <<total_urls_attempted, successful_urls, failed_urls>>

\* skip_url: an invalid or unsafe line is attempted and skipped at once.
skip_url ==
    /\ total_urls_attempted' = total_urls_attempted + 1
    /\ skipped_urls' = skipped_urls + 1
    /\ UNCHANGED <<successful_urls, failed_urls>>

NextLine ==
    /\ main = "select"
    /\ pos < NumLines
    /\ pos' = pos + 1
    /\ consecutive_errors' = 0
    /\ \/ /\ input[pos + 1] = Blank
          /\ GoTo("reap")
          /\ UNCHANGED counters
       \/ /\ input[pos + 1] = Invalid
          /\ GoTo("reap")
          /\ skip_url
       \/ /\ input[pos + 1] \in Url
          /\ GoTo("permit")
          /\ UNCHANGED counters
    /\ UNCHANGED <<input, readErrors, cancel, taskVars, drainVars, rows, faults,
                   report>>

\* A read error is retried; one too many shuts the scan down and returns Err.
ReadError ==
    /\ main = "select"
    /\ readErrors < MaxReadErrors
    /\ readErrors' = readErrors + 1
    /\ consecutive_errors' = consecutive_errors + 1
    /\ IF consecutive_errors' > MaxConsecutiveErrors
         THEN GoTo("shutdownErr") /\ cancel' = TRUE
         ELSE GoTo("reap") /\ UNCHANGED cancel
    /\ UNCHANGED <<input, pos, taskVars, drainVars, counters, rows, faults, report>>

\* Aborting a task drops its future at the await where it is parked.  A task
\* that is being polled meanwhile runs on to its next await, and a commit it
\* has already sent to the database is carried out.
AbortTasks ==
    /\ aborted' = TRUE
    /\ lastPoll' \in SUBSET {t \in Task : pc[t] \in Holding}

\* The early return drops the JoinSet, which aborts every task; the run is
\* not finalized.
ReturnErr ==
    /\ main = "returnErr"
    /\ GoTo("errored")
    /\ AbortTasks
    /\ UNCHANGED <<loopVars, cancel, taskVars, abandoned, toRecord, counters, rows,
                   faults, report>>

\* acquire_owned waits for a permit.
Acquire == semaphore > 0 /\ semaphore' = semaphore - 1

\* With its permit the URL is attempted and its task spawned.
Spawn ==
    /\ main = "permit"
    /\ Acquire
    /\ total_urls_attempted' = total_urls_attempted + 1
    /\ pc' = [pc EXCEPT ![pos] = "spawned"]
    /\ GoTo("reap")
    /\ UNCHANGED <<loopVars, cancel, in_flight_urls, drainVars, successful_urls,
                   failed_urls, skipped_urls, rows, faults, report>>

-----------------------------------------------------------------------------
(* The drain phase.                                                        *)

DrainJoin(t) == main = "drain" /\ Join(t)

\* A drain that stops when nothing is ready to be joined.
DrainIdle ==
    /\ main = "drain"
    /\ \A t \in Task : pc[t] \notin Finished
    /\ GoTo("shutdown")
    /\ OnlyMainMoves

\* join_next returns None: the JoinSet is empty.
DrainEmpty ==
    /\ main = "drain"
    /\ \A t \in Task : pc[t] \notin Joinable
    /\ GoTo("shutdown")
    /\ OnlyMainMoves

\* The deadline passed: snapshot the registry.
DrainDeadline ==
    /\ main = "drain"
    /\ abandoned' = in_flight_urls
    /\ toRecord' = in_flight_urls
    /\ GoTo(IF in_flight_urls = {} THEN "abort" ELSE "drainRows")
    /\ UNCHANGED <<loopVars, cancel, taskVars, aborted, lastPoll, counters, rows,
                   faults, report>>

\* One INSERT of a url_failures row: it is written, or fails and is logged.
InsertRow(table, k) ==
    \/ /\ ~PoolClosed
       /\ table' = [table EXCEPT ![k] = "written"]
       /\ UNCHANGED dbErrors
    \/ /\ PoolClosed \/ dbErrors < MaxDbErrors
       /\ table' = [table EXCEPT ![k] = "lost"]
       /\ dbErrors' = IF PoolClosed THEN dbErrors ELSE dbErrors + 1

\* record_drain_timeout_failures awaits one insert after the other.
RecordDrainTimeout(u) ==
    /\ main = "drainRows"
    /\ u \in toRecord
    /\ toRecord' = toRecord \ {u}
    /\ InsertRow(drainRow, u)
    /\ GoTo(IF toRecord' = {} THEN "abort" ELSE "drainRows")
    /\ UNCHANGED <<loopVars, cancel, taskVars, abandoned, aborted, lastPoll, counters,
                   url_status, taskRow, panics, report>>

\* Every abandoned URL is counted as failed, then the rest is aborted.
AbortAll ==
    /\ main = "abort"
    /\ failed_urls' = failed_urls + Cardinality(abandoned)
    /\ AbortTasks
    /\ cancel' = TRUE
    /\ GoTo("shutdown")
    /\ UNCHANGED <<loopVars, taskVars, abandoned, toRecord, total_urls_attempted,
                   successful_urls, skipped_urls, rows, faults, report>>

-----------------------------------------------------------------------------
(* finalize_scan.                                                          *)

\* shutdown_gracefully cancels the token, stops the logging task (or aborts it at
\* a deadline) and tells the limiter and the status server to stop.
Shutdown ==
    /\ main = "shutdown"
    /\ cancel' = TRUE
    /\ GoTo("serverStops")
    /\ UNCHANGED <<loopVars, taskVars, drainVars, counters, rows, faults, report>>

\* It then awaits the server, with no deadline: a step of the server's clients, who
\* may keep a connection open.  Without a server there is nothing to await.  The
\* loop that gives up on its input does the same before it returns.
StatusServerStopped ==
    /\ main \in {"serverStops", "shutdownErr"}
    /\ GoTo(IF main = "serverStops" THEN "load" ELSE "returnErr")
    /\ UNCHANGED <<loopVars, cancel, taskVars, drainVars, counters, rows, faults, report>>

\* persist_run_counts reads the atomics first.
LoadCounters ==
    /\ main = "load"
    /\ report' = [report EXCEPT !["total"] = total_urls_attempted, !["skipped"] = skipped_urls]
    /\ GoTo("countStatus")
    /\ UNCHANGED <<loopVars, cancel, taskVars, drainVars, counters, rows, faults>>

\* count_run_fact_rows: two SELECT COUNT(*), one after the other.
CountStatus ==
    /\ main = "countStatus"
    /\ report' = [report EXCEPT !["successful"] = Cardinality(url_status)]
    /\ GoTo("countFailures")
    /\ UNCHANGED <<loopVars, cancel, taskVars, drainVars, counters, rows, faults>>

CountFailures ==
    /\ main = "countFailures"
    /\ report' = [report EXCEPT !["failed"] = url_failures]
    /\ GoTo("persist")
    /\ UNCHANGED <<loopVars, cancel, taskVars, drainVars, counters, rows, faults>>

\* update_run_stats writes the counts into the runs row.
UpdateRunStats ==
    /\ main = "persist"
    /\ GoTo("close")
    /\ OnlyMainMoves

\* A failing statement makes finalize_scan return Err before the pool closes.
FinalizeError ==
    /\ main \in {"countStatus", "countFailures", "persist"}
    /\ dbErrors < MaxDbErrors
    /\ dbErrors' = dbErrors + 1
    /\ GoTo("errored")
    /\ UNCHANGED <<loopVars, cancel, taskVars, drainVars, counters, rows, panics,
                   report>>

\* The pool is closed, once no statement runs on it, and the report returned.
ClosePool ==
    /\ main = "close"
    /\ GoTo("done")
    /\ OnlyMainMoves

-----------------------------------------------------------------------------
(* A task.                                                                 *)

\* A step out of an await: the task is polled, once more at most if aborted.
Polled(t) ==
    /\ aborted => t \in lastPoll
    /\ lastPoll' = lastPoll \ {t}
    /\ UNCHANGED <<abandoned, toRecord, aborted>>

\* A guard created only when the token is not cancelled.
StartLateGuard(t) ==
    /\ pc[t] = "spawned"
    /\ Polled(t)
    /\ in_flight_urls' = in_flight_urls \cup (IF cancel THEN {} ELSE {input[t]})
    /\ pc' = [pc EXCEPT ![t] = IF cancel THEN "cancelling" ELSE "admit"]
    /\ UNCHANGED <<mainVars, cancel, semaphore, counters, rows, faults, report>>

\* The first poll registers the URL and looks at the token.
Start(t) ==
    /\ pc[t] = "spawned"
    /\ Polled(t)
    /\ in_flight_urls' = in_flight_urls \cup {input[t]}
    /\ pc' = [pc EXCEPT ![t] = IF cancel THEN "cancelling" ELSE "admit"]
    /\ UNCHANGED <<mainVars, cancel, semaphore, counters, rows, faults, report>>

\* wait_for_rate_limits returns: admitted by both limiters, or cancelled.
Admit(t) ==
    /\ pc[t] = "admit"
    /\ Polled(t)
    /\ pc' = [pc EXCEPT ![t] = IF cancel THEN "cancelling" ELSE "work"]
    /\ UNCHANGED <<mainVars, cancel, semaphore, in_flight_urls, counters, rows, faults,
                   report>>

\* process_url commits the core transaction: a new url_status row, or the
\* refresh of the one that an earlier line of the same domain inserted.
StoreCore(t) ==
    /\ pc[t] = "work"
    /\ Polled(t)
    /\ ~PoolClosed
    /\ pc' = [pc EXCEPT ![t] =
                IF DomainOf[input[t]] \in url_status THEN "updated" ELSE "inserted"]
    /\ url_status' = url_status \cup {DomainOf[input[t]]}
    /\ UNCHANGED <<mainVars, cancel, semaphore, in_flight_urls, counters, taskRow,
                   drainRow, faults, report>>

\* The cancelled() branch of the select! around process_url.
Cancelled(t) ==
    /\ pc[t] \in Processing
    /\ Polled(t)
    /\ cancel
    /\ pc' = [pc EXCEPT ![t] = "cancelling"]
    /\ UNCHANGED <<mainVars, cancel, semaphore, in_flight_urls, counters, rows, faults,
                   report>>

\* A task that keeps its permit.
LeaveWithPermit(t, how) ==
    /\ pc' = [pc EXCEPT ![t] = how]
    /\ UNCHANGED semaphore

\* The last act of process_url_task returns the permit.
Leave(t, how) ==
    /\ pc' = [pc EXCEPT ![t] = how]
    /\ semaphore' = semaphore + 1

\* handle_success: Inserted is a success, Updated and Skipped are skips.
HandleSuccess(t) ==
    /\ Polled(t)
    /\ \/ /\ pc[t] = "inserted"
          /\ successful_urls' = successful_urls + 1
          /\ UNCHANGED skipped_urls
       \/ /\ pc[t] \in {"updated", "work"}
          /\ skipped_urls' = skipped_urls + 1
          /\ UNCHANGED successful_urls
    /\ Leave(t, "exiting")
    /\ UNCHANGED <<mainVars, cancel, in_flight_urls, total_urls_attempted, failed_urls,
                   rows, faults, report>>

\* A failure is counted before it is recorded.
CountFailure(t) ==
    /\ Polled(t)
    /\ failed_urls' = failed_urls + 1
    /\ pc' = [pc EXCEPT ![t] = "recording"]
    /\ UNCHANGED <<mainVars, cancel, semaphore, in_flight_urls, total_urls_attempted,
                   successful_urls, skipped_urls, rows, faults, report>>

\* process_url fails, before its core row is stored.
HandleFailure(t) == pc[t] = "work" /\ CountFailure(t)

\* URL_PROCESSING_TIMEOUT strikes, even after the core row is stored.
HandleTimeout(t) == pc[t] \in Processing /\ CountFailure(t)

RecordFailure(t) ==
    /\ pc[t] = "recording"
    /\ Polled(t)
    /\ InsertRow(taskRow, t)
    /\ Leave(t, "exiting")
    /\ UNCHANGED <<mainVars, cancel, in_flight_urls, counters, url_status, drainRow,
                   panics, report>>

\* handle_cancelled records the failure before it counts it.
RecordCancelled(t) ==
    /\ pc[t] = "cancelling"
    /\ Polled(t)
    /\ InsertRow(taskRow, t)
    /\ pc' = [pc EXCEPT ![t] = "cancelRowed"]
    /\ UNCHANGED <<mainVars, cancel, semaphore, in_flight_urls, counters, url_status,
                   drainRow, panics, report>>

\* Cooperative cancel writes a row and does not count the URL.
CancelUncounted(t) ==
    /\ pc[t] = "cancelRowed"
    /\ Polled(t)
    /\ Leave(t, "exiting")
    /\ UNCHANGED <<mainVars, cancel, in_flight_urls, counters, rows, faults, report>>

CountCancelled(t) ==
    /\ pc[t] = "cancelRowed"
    /\ Polled(t)
    /\ failed_urls' = failed_urls + 1
    /\ Leave(t, "exiting")
    /\ UNCHANGED <<mainVars, cancel, in_flight_urls, total_urls_attempted,
                   successful_urls, skipped_urls, rows, faults, report>>

\* process_url panics (builds that unwind): the permit is dropped first.
Panic(t) ==
    /\ pc[t] \in Processing
    /\ Polled(t)
    /\ panics < MaxPanics
    /\ panics' = panics + 1
    /\ Leave(t, "unwinding")
    /\ UNCHANGED <<mainVars, cancel, in_flight_urls, counters, rows, dbErrors, report>>

\* InFlightGuard::drop removes the URL, whoever else runs for the same URL.
DropGuard(t) ==
    /\ pc[t] \in {"exiting", "unwinding"}
    /\ in_flight_urls' = in_flight_urls \ {input[t]}
    /\ pc' = [pc EXCEPT ![t] = IF pc[t] = "exiting" THEN "done" ELSE "panicked"]
    /\ UNCHANGED <<mainVars, cancel, semaphore, drainVars, counters, rows, faults,
                   report>>

\* The runtime drops the future of an aborted task at an await.
DropAborted(t) ==
    /\ aborted
    /\ t \notin lastPoll
    /\ pc[t] \in Holding
    /\ pc' = [pc EXCEPT ![t] = "aborted"]
    /\ semaphore' = semaphore + 1
    /\ in_flight_urls' = IF pc[t] \in Guarded THEN in_flight_urls \ {input[t]}
                         ELSE in_flight_urls
    /\ UNCHANGED <<mainVars, cancel, drainVars, counters, rows, faults, report>>

-----------------------------------------------------------------------------
MainStep ==
    \/ ReapDone \/ LeaveLoop \/ NextLine \/ ReturnErr \/ Spawn
    \/ DrainEmpty \/ DrainDeadline \/ AbortAll
    \/ \E t \in Task : Reap(t) \/ DrainJoin(t)
    \/ \E u \in Url : RecordDrainTimeout(u)
    \/ Shutdown \/ LoadCounters \/ CountStatus \/ CountFailures \/ UpdateRunStats
    \/ ClosePool

TaskStep(t) ==
    \/ Start(t) \/ Admit(t) \/ StoreCore(t) \/ Cancelled(t) \/ HandleSuccess(t)
    \/ HandleFailure(t) \/ HandleTimeout(t) \/ RecordFailure(t) \/ RecordCancelled(t)
    \/ CountCancelled(t) \/ DropGuard(t)

\* The run has returned and no task is left to be dropped.
Terminated ==
    /\ main \in Returned
    /\ \A t \in Task : pc[t] \notin {"spawned"} \cup Guarded
    /\ UNCHANGED vars

Next ==
    \/ MainStep
    \/ StatusServerStopped \/ CtrlC \/ ReadError \/ FinalizeError
    \/ \E t \in Task : TaskStep(t) \/ Panic(t) \/ DropAborted(t)
    \/ Terminated

Spec == Init /\ [][Next]_vars

\* The runtime polls the main future whenever it can make progress, and the
\* drain timer fires; tasks may hang for ever.  The clients of the status server
\* are assumed to let it stop: the code has no deadline for them.
FairSpec == Spec /\ WF_vars(MainStep) /\ WF_vars(StatusServerStopped)

\* Tasks make progress too: the limiters refill, process_url is under a
\* 35 s timeout, and the runtime drops what was aborted.
TasksFair == \A t \in Task : WF_vars(TaskStep(t)) /\ WF_vars(DropAborted(t))

-----------------------------------------------------------------------------
(* Properties.                                                             *)

In(S) == {t \in Task : pc[t] \in S}
DistinctUrls ==
    \A t1, t2 \in Task : input[t1] \in Url /\ input[t1] = input[t2] => t1 = t2
Finalizing == {"shutdown", "serverStops", "load", "countStatus", "countFailures", "persist", "close",
               "done"}

\* The variables have their types.
TypeOK ==
    /\ input \in [Task -> Line]
    /\ pos \in 0..NumLines
    /\ consecutive_errors \in Nat
    /\ readErrors \in 0..MaxReadErrors
    /\ main \in MainState
    /\ cancel \in BOOLEAN
    /\ semaphore \in Nat
    /\ pc \in [Task -> TaskState]
    /\ in_flight_urls \subseteq Url
    /\ abandoned \subseteq Url
    /\ toRecord \subseteq abandoned
    /\ aborted \in BOOLEAN
    /\ lastPoll \subseteq Task
    /\ total_urls_attempted \in Nat
    /\ successful_urls \in Nat
    /\ failed_urls \in Nat
    /\ skipped_urls \in Nat
    /\ url_status \subseteq Domain
    /\ taskRow \in [Task -> RowState]
    /\ drainRow \in [Url -> RowState]
    /\ dbErrors \in 0..MaxDbErrors
    /\ panics \in 0..MaxPanics
    /\ report \in [Reported -> Nat]

\* Concurrency: every permit is available or held by exactly one task that has
\* not ended, through success, failure, cancel, panic and abort alike, so no
\* path leaks a permit (which would wedge the loop) or returns one twice.
PermitAccounting == semaphore + Cardinality(In(Holding)) = MaxConcurrency

\* The in-flight registry never names a URL no task runs for; when no URL is
\* repeated in the input it names every running task's URL.  (It is a set of
\* URLs: with repeated lines the first guard dropped removes the other's entry.)
InFlightRegistry ==
    /\ in_flight_urls \subseteq {input[t] : t \in In(Guarded)}
    /\ DistinctUrls => in_flight_urls = {input[t] : t \in In(Guarded)}

\* As long as nothing is aborted every attempted URL is counted exactly once as
\* successful, failed or skipped, or its one task (or the join of it) is still to
\* be counted: no outcome, panics included, is lost or counted twice.
CounterPartition ==
    ~aborted =>
        total_urls_attempted =
            successful_urls + failed_urls + skipped_urls + Cardinality(In(Uncounted))

\* The live failure counter and the url_failures rows differ only by the task
\* between its two updates, the inserts that failed and the tasks that panicked.
FailureRowAccounting ==
    ~aborted =>
        failed_urls + Cardinality(In({"cancelRowed"})) =
            Cardinality({t \in Task : taskRow[t] # "none"})
              + Cardinality(In({"recording", "joinError"}))

\* The report leaves no attempted URL out: a run that drains in time, without
\* database errors or panics, reports at least as many results as attempts.
\* (It may report more: a URL cancelled after its core row is stored has both.)
ReportCoversAttempts ==
    main = "done" /\ ~aborted /\ dbErrors = 0 /\ panics = 0 =>
        report["total"] <= report["successful"] + report["failed"] + report["skipped"]

\* url_status rows and the success counter agree up to the tasks that stored a
\* row and then were cancelled or timed out (they are counted as failed) or panicked.
StatusRowAccounting ==
    /\ successful_urls + Cardinality(In({"inserted"})) <= Cardinality(url_status)
    /\ ~aborted /\ ~cancel /\ failed_urls = 0 /\ panics = 0 =>
         successful_urls + Cardinality(In({"inserted"})) = Cardinality(url_status)

\* Without database errors the drain phase writes a row for exactly the URLs it
\* counts as failed.
DrainRowAccounting ==
    main \in Finalizing /\ dbErrors = 0 =>
        {u \in Url : drainRow[u] = "written"} = abandoned

\* Counters and fact rows stay accounted for by one another through cancellation,
\* panics, failing inserts and the drain deadline (run/task.rs, run/mod.rs:272).
RowAccounting ==
    FailureRowAccounting /\ StatusRowAccounting /\ DrainRowAccounting /\ ReportCoversAttempts

\* A scan that drained in time has no writer left: once it finalizes, neither the
\* counters nor the fact rows move, so the persisted counts stay true.
FinalCountsAreFinal ==
    [][(main \in Finalizing /\ ~aborted) => UNCHANGED <<counters, rows>>]_vars

\* Ctrl-C ends the run even if every task hangs while all permits are in use
\* (FairSpec asks nothing of the tasks).
InterruptEndsRun == cancel ~> main \in Returned

\* The drain phase ends even if tasks hang: the deadline is for the whole phase.
DrainEnds == main = "drain" ~> main \in Returned

\* Neither Ctrl-C nor the end of the input waits for a task that hangs
\* (run/mod.rs:306, 495).
RunEnds == InterruptEndsRun /\ DrainEnds

\* With tasks that make progress every scan returns, and every permit comes
\* back for good, whichever way the tasks end (run/mod.rs, run/task.rs).
ScanReturns == TasksFair => <>[](main \in Returned /\ semaphore = MaxConcurrency)

=============================================================================
