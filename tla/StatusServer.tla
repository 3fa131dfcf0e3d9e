---------------------------- MODULE StatusServer ----------------------------
(***************************************************************************)
(* The status server (status_server/): /status and /metrics read the       *)
(* scan's atomic counters one after the other while its tasks change them, *)
(* derive progress from them and share one throughput window; the server   *)
(* stops with the scan and lets the requests in progress finish.           *)
(*                                                                         *)
(* The scan is reduced to what it does to those counters (run/mod.rs,      *)
(* run/task.rs): a URL is attempted, then counted once as successful,      *)
(* failed or skipped; a drain that times out counts the abandoned tasks as *)
(* failed before it aborts them, so one that ends in between counts twice. *)
(***************************************************************************)
EXTENDS Integers, FiniteSets

CONSTANTS
    Urls,       \* the lines of the input file
    Requests,   \* requests to the server that may be in progress
    None,
    MaxTime,    \* bound: the clock, in seconds
    MaxServed   \* bound: requests accepted

ASSUME StatusAssumption == IsFiniteSet(Urls) /\ None \notin Nat \X Nat

Phases == <<"scanning", "draining", "finalizing">>
Counters == {"attempted", "successful", "failed", "skipped"}
Finished(c) == c.successful + c.failed + c.skipped
Monus(a, b) == IF a > b THEN a - b ELSE 0     \* saturating_sub

VARIABLES
    url,      \* of each URL: "waiting", "skipping", "running", "abandoned" or "ended"
    counter,  \* the scan's counters
    phase,    \* AtomicPhase
    window,   \* ThroughputWindow: prev_at, prev_finished, and the rate as <<urls, seconds>>
    server,   \* "down", "up", "stopping" or "stopped"
    pc,       \* of each request: "idle" or what it reads next
    view,     \* of each request: what it has read
    elapsed,  \* of each request: the age of the scan when it came in, 1 for any that is positive
    rate,     \* of each request: the windowed rate it got
    said,     \* of each request: the phase it reported
    now, served,
    before,   \* history, of each request: the finished URLs when it came in
    peak      \* history, of each request: the most URLs that were in progress at once since

svars == <<url, counter, phase, window, server, pc, elapsed, view, rate, said, now, served, before, peak>>

Total == Cardinality(Urls)
Zero == [k \in Counters |-> 0]

\* Mutated form: the attempted URLs are loaded last.
AttemptedLast == <<"successful", "failed", "skipped", "attempted">>

\* The order of the loads.
Reads == <<"attempted", "successful", "failed", "skipped">>

StatusTypeOK ==
    /\ url \in [Urls -> {"waiting", "skipping", "running", "abandoned", "ended"}]
    /\ counter \in [Counters -> Nat] /\ phase \in 1 .. 3
    /\ window \in [prev_at : 0 .. MaxTime, prev_finished : Nat, rate : Nat \X Nat]
    /\ server \in {"down", "up", "stopping", "stopped"}
    /\ pc \in [Requests -> 0 .. 7] /\ view \in [Requests -> [Counters -> Nat]]
    /\ elapsed \in [Requests -> 0 .. 1] /\ said \in [Requests -> 0 .. 3]
    /\ before \in [Requests -> Nat] /\ peak \in [Requests -> Nat]

StatusInit ==
    /\ url = [u \in Urls |-> "waiting"]
    /\ counter = Zero /\ phase = 1
    /\ window = [prev_at |-> 0, prev_finished |-> 0, rate |-> <<0, 1>>]
    /\ server = "down"
    /\ pc = [r \in Requests |-> 0] /\ view = [r \in Requests |-> Zero]
    /\ elapsed = [r \in Requests |-> 0]
    /\ rate = [r \in Requests |-> <<0, 1>>] /\ said = [r \in Requests |-> 0]
    /\ now = 0 /\ served = 0
    /\ before = [r \in Requests |-> 0] /\ peak = [r \in Requests |-> 0]

ScanKept == UNCHANGED <<url, counter, phase>>
RequestsKept == UNCHANGED <<window, pc, elapsed, view, rate, said, served, before>>
Bump(k, n) == counter' = [counter EXCEPT ![k] = counter[k] + n]

----------------------------------------------------------------------------
(* What the scan does to the counters.                                     *)

Dispatch(u) ==
    /\ phase = 1 /\ url[u] = "waiting" /\ server # "down"
    /\ \E s \in {"running", "skipping"} : url' = [url EXCEPT ![u] = s]
    /\ Bump("attempted", 1)
    /\ RequestsKept /\ UNCHANGED <<phase, server, now>>

\* skip_url, handle_success, handle_failure, handle_timeout, handle_cancelled.
EndUrl(u) ==
    /\ \/ url[u] = "skipping" /\ Bump("skipped", 1)
       \/ url[u] \in {"running", "abandoned"} /\ \E k \in {"successful", "failed", "skipped"} : Bump(k, 1)
    /\ url' = [url EXCEPT ![u] = "ended"]
    /\ RequestsKept /\ UNCHANGED <<phase, server, now>>

\* The loop ends: drain_in_flight_tasks.
StartDrain ==
    /\ phase = 1 /\ server = "up"
    /\ \A u \in Urls : url[u] # "skipping"
    /\ phase' = 2
    /\ RequestsKept /\ UNCHANGED <<url, counter, server, now>>

\* The drain times out: the tasks still registered are counted as failed ...
CountAbandoned ==
    LET running == {u \in Urls : url[u] = "running"} IN
    /\ phase = 2 /\ running # {}
    /\ Bump("failed", Cardinality(running))
    /\ url' = [u \in Urls |-> IF u \in running THEN "abandoned" ELSE url[u]]
    /\ RequestsKept /\ UNCHANGED <<phase, server, now>>

\* ... and aborted, unless they end first; finalisation begins.
EndDrain ==
    /\ phase = 2 /\ \A u \in Urls : url[u] # "running"
    /\ phase' = 3
    /\ url' = [u \in Urls |-> IF url[u] = "abandoned" THEN "ended" ELSE url[u]]
    /\ RequestsKept /\ UNCHANGED <<counter, server, now>>

----------------------------------------------------------------------------
(* spawn_status_server and StatusServerHandle::shutdown.                   *)

Bind ==
    /\ server = "down"
    /\ server' = "up"
    /\ ScanKept /\ RequestsKept /\ UNCHANGED now

Shutdown ==
    /\ server = "up" /\ phase = 3
    /\ server' = "stopping"
    /\ ScanKept /\ RequestsKept /\ UNCHANGED now

\* Graceful: the task ends when no request is in progress.
Stopped ==
    /\ server = "stopping" /\ \A r \in Requests : pc[r] = 0
    /\ server' = "stopped"
    /\ ScanKept /\ RequestsKept /\ UNCHANGED now

----------------------------------------------------------------------------
(* status_handler and metrics_handler.                                     *)

\* The handler first reads how long the scan has run: it began before the server
\* was bound, so never zero.  How long it is only scales an ETA that is neither
\* zero nor unknown.
Accept(r) ==
    /\ server = "up" /\ pc[r] = 0 /\ served < MaxServed
    /\ pc' = [pc EXCEPT ![r] = 1]
    /\ elapsed' = [elapsed EXCEPT ![r] = 1]
    /\ before' = [before EXCEPT ![r] = Finished(counter)]
    /\ served' = served + 1
    /\ ScanKept /\ UNCHANGED <<window, server, view, rate, said, now>>

\* progress_snapshot: one load after the other.
Load(r) ==
    /\ pc[r] \in 1 .. 4
    /\ LET k == Reads[pc[r]] IN view' = [view EXCEPT ![r] = [view[r] EXCEPT ![k] = counter[k]]]
    /\ pc' = [pc EXCEPT ![r] = pc[r] + 1]
    /\ ScanKept /\ UNCHANGED <<window, server, elapsed, rate, said, now, served, before>>

\* ThroughputWindow::observe, under its mutex.
Observed(w, finished) ==
    IF now - w.prev_at >= 1
    THEN [prev_at |-> now, prev_finished |-> finished,
          rate |-> <<Monus(finished, w.prev_finished), now - w.prev_at>>]
    ELSE IF finished < w.prev_finished
    THEN [prev_at |-> now, prev_finished |-> finished, rate |-> <<0, 1>>]
    ELSE w

Observe(r) ==
    /\ pc[r] = 5
    /\ window' = Observed(window, Finished(view[r]))
    /\ rate' = [rate EXCEPT ![r] = window'.rate]
    /\ pc' = [pc EXCEPT ![r] = 6]
    /\ ScanKept /\ UNCHANGED <<server, elapsed, view, said, now, served, before>>

\* phase_label, after the counters.
ReadPhase(r) ==
    /\ pc[r] = 6
    /\ said' = [said EXCEPT ![r] = phase]
    /\ pc' = [pc EXCEPT ![r] = 7]
    /\ ScanKept /\ UNCHANGED <<window, server, elapsed, view, rate, now, served, before>>

Respond(r) ==
    /\ pc[r] = 7
    /\ pc' = [pc EXCEPT ![r] = 0]
    /\ view' = [view EXCEPT ![r] = Zero] /\ rate' = [rate EXCEPT ![r] = <<0, 1>>]
    /\ said' = [said EXCEPT ![r] = 0] /\ before' = [before EXCEPT ![r] = 0]
    /\ elapsed' = [elapsed EXCEPT ![r] = 0]
    /\ ScanKept /\ UNCHANGED <<window, server, now, served>>

StatusTick ==
    /\ now < MaxTime
    /\ now' = now + 1
    /\ ScanKept /\ RequestsKept /\ UNCHANGED server

----------------------------------------------------------------------------
(* What a response says.                                                   *)

Active(v) == Monus(v.attempted, Finished(v))

\* An ETA is <<numerator, denominator>> of the seconds left, None if nothing can
\* be said.  progress_snapshot takes it from the rate over the whole scan.
LifetimeEta(v, e) ==
    LET remaining == Monus(Total, Finished(v)) IN
    IF remaining > 0 /\ e > 0 /\ Finished(v) > 0 THEN <<remaining * e, Finished(v)>>
    ELSE IF remaining = 0 /\ Total > 0 THEN <<0, 1>> ELSE None

\* Mutated form: an ETA of zero as soon as every URL has been attempted.
EtaByAttempted(v, w, e) ==
    LET remaining == Monus(Total, v.attempted) IN
    IF remaining = 0 /\ Total > 0 THEN <<0, 1>>
    ELSE IF remaining > 0 /\ w[1] > 0 THEN <<remaining * w[2], w[1]>> ELSE LifetimeEta(v, e)

\* refine_eta, for /status: from the windowed rate, else that of the snapshot.
Eta(v, w, e) ==
    LET remaining == Monus(Total, Finished(v)) IN
    IF remaining = 0 /\ Total > 0 THEN <<0, 1>>
    ELSE IF remaining > 0 /\ w[1] > 0 THEN <<remaining * w[2], w[1]>> ELSE LifetimeEta(v, e)

\* render_metrics has no null: "0 when unknown or complete".
MetricsEta(v, w, e) == IF Eta(v, w, e) = None THEN <<0, 1>> ELSE Eta(v, w, e)

Requested(r) == Load(r) \/ Observe(r) \/ ReadPhase(r) \/ Respond(r)

ScanStep == \/ \E u \in Urls : Dispatch(u) \/ EndUrl(u)
            \/ StartDrain \/ CountAbandoned \/ EndDrain
ServerStep == \/ Bind \/ Shutdown \/ Stopped
              \/ \E r \in Requests : Accept(r) \/ Requested(r)

InFlight == Cardinality({u \in Urls : url[u] \in {"running", "skipping"}})
Recorded == peak' = [r \in Requests |-> IF pc'[r] = 0 THEN 0
                                         ELSE IF InFlight' > peak[r] THEN InFlight' ELSE peak[r]]

StatusNext == (ScanStep \/ ServerStep \/ StatusTick) /\ Recorded

StatusSpec == StatusInit /\ [][StatusNext]_svars

----------------------------------------------------------------------------
(* Properties.                                                             *)

Answered(r) == pc[r] = 7

\* progress.rs reads `attempted` before the counters of finished work: a
\* response never tells of more URLs in progress than there were at some moment
\* of the request, and its finished count lies between the true counts at its
\* beginning and at its end.
SnapshotBracketed ==
    \A r \in Requests : Answered(r) =>
        /\ before[r] <= Finished(view[r]) /\ Finished(view[r]) <= Finished(counter)
        /\ Active(view[r]) <= peak[r]

\* "percentage_complete: finished / total x 100": a response that says
\* "scanning" never reports more than all URLs, although the drain's double
\* count can; the phase is read after the counters.
ScanningWithinTotal ==
    \A r \in Requests : (Answered(r) /\ Phases[said[r]] = "scanning") => Finished(view[r]) <= Total

\* A response is within what was true while it was put together
\* (progress.rs:28, handlers/status.rs:64).
SnapshotSound == SnapshotBracketed /\ ScanningWithinTotal

\* While a response says "scanning": /status shows an ETA of zero only when every
\* URL of the input has ended, although the count behind it was put together over
\* several loads; /metrics, whose zero also stands for "unknown", only then or when
\* it saw nothing finished (handlers/status.rs:21, handlers/metrics.rs:33); and
\* no ETA at all is given only when nothing was seen to finish.
DoneMeansDone ==
    \A r \in Requests : (Answered(r) /\ Phases[said[r]] = "scanning") =>
        LET done == \A u \in Urls : url[u] = "ended"
            nothing == Finished(view[r]) = 0
        IN /\ Eta(view[r], rate[r], elapsed[r]) = <<0, 1>> => done
           /\ MetricsEta(view[r], rate[r], elapsed[r]) = <<0, 1>> => done \/ nothing
           /\ Eta(view[r], rate[r], elapsed[r]) = None => nothing

============================================================================
