-------------------------- MODULE HostRateLimiter --------------------------
(***************************************************************************)
(* The per-host URL-admission limiter (initialization/                     *)
(* host_rate_limiter.rs): one lazily refilled token bucket per host, made  *)
(* on first use.  A task loops: read the clock, lock last_refill, refill   *)
(* the bucket for the elapsed time, unlock, try_acquire, and sleep when    *)
(* there is no token.                                                      *)
(*                                                                         *)
(* Time is relative: since[h] is the time since bucket h's last_refill,    *)
(* age[t] the time since task t read the clock.  Between reading the clock *)
(* and try_acquire a task does not await, so only preemption delays it, by *)
(* at most MaxStall time units.  Validated URLs have a host, so the no-op   *)
(* for a URL without one is left out, as is the once-only log line.        *)
(***************************************************************************)
EXTENDS TokenBucket, FiniteSets

CONSTANTS
    Task,       \* the URL tasks, each of which asks for one token
    Host,       \* the hosts of their URLs
    NoTask,     \* nobody holds the lock
    MaxStall,   \* bound: the longest preemption
    Tolerated   \* does the ideal bucket credit rewound time? (see StoreLast)

VARIABLES
    made,       \* the hosts that have a bucket
    permits,    \* of each bucket: available permits
    since,      \* of each bucket: time since last_refill
    fractional, \* of each bucket: the carried fraction
    locked,     \* of each bucket: who holds the last_refill mutex
    toAdd,      \* of each bucket: permits_to_add of the refill under way
    ideal,      \* history, of each bucket: the level of an ideal bucket
    pc,         \* of each task: where it is in acquire()
    host,       \* of each task: its host
    age,        \* of each task: time since it read the clock
    wait,       \* of each task: how long it still sleeps
    cancelled   \* the run's cancel token

bucketVars == <<made, permits, since, fractional, locked, toAdd, ideal>>
taskVars == <<pc, host, age, wait>>
vars == <<bucketVars, taskVars, cancelled>>

\* per_host_retry_delay.
RetryDelay == Unit \div rps

\* A longer time fills any bucket: since counts no further.
MaxSince == Unit * capacity + MaxStall

\* The ideal bucket's level is at most the burst and what the bucket may earn twice
\* while a task is between its refill and its try_acquire: it may be preempted there
\* for MaxStall, and another task, itself preempted for as long, may have stored an
\* older last_refill meanwhile.
IdealCap == Unit * capacity + 2 * rps * MaxStall

\* The stages a task goes through without awaiting.
Synchronous == {"sampled", "refilling", "trying"}

AtMost(x, bound) == IF x <= bound THEN x ELSE bound

TypeOK ==
    /\ made \subseteq Host
    /\ permits \in [Host -> Nat]
    /\ since \in [Host -> 0 .. MaxSince]
    /\ fractional \in [Host -> 0 .. Unit - 1]
    /\ locked \in [Host -> Task \cup {NoTask}]
    /\ toAdd \in [Host -> 0 .. capacity]
    /\ ideal \in [Host -> Int]
    /\ pc \in [Task -> {"idle", "start", "sleeping", "admitted", "cancelled"} \cup Synchronous]
    /\ host \in [Task -> Host]
    /\ age \in [Task -> 0 .. MaxStall]
    /\ wait \in [Task -> 0 .. RetryDelay]
    /\ cancelled \in BOOLEAN

Init ==
    /\ made = {}
    /\ permits = [h \in Host |-> 0]
    /\ since = [h \in Host |-> 0]
    /\ fractional = [h \in Host |-> 0]
    /\ locked = [h \in Host |-> NoTask]
    /\ toAdd = [h \in Host |-> 0]
    /\ ideal = [h \in Host |-> Unit * capacity]
    /\ pc = [t \in Task |-> "idle"]
    /\ host \in [Task -> Host]
    /\ age = [t \in Task |-> 0]
    /\ wait = [t \in Task |-> 0]
    /\ cancelled = FALSE

----------------------------------------------------------------------------
\* Mutated form: insert() instead of entry().or_insert_with(): every acquire makes the
\* bucket anew.
FreshBucket(h) ==
    /\ made' = made \cup {h}
    /\ permits' = [permits EXCEPT ![h] = capacity]
    /\ since' = [since EXCEPT ![h] = 0]
    /\ UNCHANGED <<fractional, locked, toAdd, ideal>>

\* bucket(host): entry().or_insert_with() under the map's lock.  A bucket is
\* made full, with last_refill = now, once per host.
bucket(h) ==
    /\ made' = made \cup {h}
    /\ permits' = IF h \in made THEN permits ELSE [permits EXCEPT ![h] = capacity]
    /\ since' = IF h \in made THEN since ELSE [since EXCEPT ![h] = 0]
    /\ UNCHANGED <<fractional, locked, toAdd, ideal>>

\* HostRateLimiter::acquire: the bucket is looked up or made.
Acquire(t) ==
    /\ pc[t] = "idle"
    /\ ~cancelled
    /\ pc' = [pc EXCEPT ![t] = "start"]
    /\ bucket(host[t])
    /\ UNCHANGED <<host, age, wait, cancelled>>

\* refill(): Instant::now(), read before the lock is asked for.
ReadClock(t) ==
    /\ pc[t] = "start"
    /\ pc' = [pc EXCEPT ![t] = "sampled"]
    /\ age' = [age EXCEPT ![t] = 0]
    /\ UNCHANGED <<bucketVars, host, wait, cancelled>>

\* saturating_duration_since: a clock reading older than last_refill is no
\* elapsed time at all.
Elapsed(t) == IF since[host[t]] >= age[t] THEN since[host[t]] - age[t] ELSE 0

\* The lock is free; elapsed time and available permits are read under it.
LockAndRead(t) ==
    LET h == host[t] IN
    /\ pc[t] = "sampled"
    /\ locked[h] = NoTask
    /\ locked' = [locked EXCEPT ![h] = t]
    /\ toAdd' = [toAdd EXCEPT ![h] = PermitsToAdd(Elapsed(t), permits[h], fractional[h])]
    /\ fractional' = [fractional EXCEPT
                        ![h] = NewFractional(Elapsed(t), permits[h], fractional[h])]
    /\ pc' = [pc EXCEPT ![t] = "refilling"]
    /\ UNCHANGED <<made, permits, since, ideal, host, age, wait, cancelled>>

\* *last = now, also when now is older than last: the time in between is
\* then elapsed once more for the next refill.  The ideal bucket may be told
\* to tolerate exactly that.
StoreLast(t) ==
    LET h == host[t] IN
    /\ since' = [since EXCEPT ![h] = age[t]]
    /\ ideal' = IF Tolerated /\ age[t] > since[h]
                THEN [ideal EXCEPT ![h] = AtMost(@ + rps * (age[t] - since[h]), IdealCap)]
                ELSE ideal

\* add_permits, last_refill stored, unlock.
AddAndUnlock(t) ==
    LET h == host[t] IN
    /\ pc[t] = "refilling"
    /\ permits' = [permits EXCEPT ![h] = @ + toAdd[h]]
    /\ toAdd' = [toAdd EXCEPT ![h] = 0]
    /\ StoreLast(t)
    /\ locked' = [locked EXCEPT ![h] = NoTask]
    /\ pc' = [pc EXCEPT ![t] = "trying"]
    /\ UNCHANGED <<made, fractional, host, age, wait, cancelled>>

\* try_acquire succeeds: the permit is forgotten.
TryAcquire(t) ==
    LET h == host[t] IN
    /\ pc[t] = "trying"
    /\ permits[h] > 0
    /\ permits' = [permits EXCEPT ![h] = @ - 1]
    /\ ideal' = [ideal EXCEPT ![h] = @ - Unit]
    /\ pc' = [pc EXCEPT ![t] = "admitted"]
    /\ age' = [age EXCEPT ![t] = 0]
    /\ UNCHANGED <<made, since, fractional, locked, toAdd, host, wait, cancelled>>

\* try_acquire fails: the task sleeps.
Throttled(t) ==
    /\ pc[t] = "trying"
    /\ permits[host[t]] = 0
    /\ pc' = [pc EXCEPT ![t] = "sleeping"]
    /\ wait' = [wait EXCEPT ![t] = RetryDelay]
    /\ age' = [age EXCEPT ![t] = 0]
    /\ UNCHANGED <<bucketVars, host, cancelled>>

\* The sleep is over: once more round the loop.
Wake(t) ==
    /\ pc[t] = "sleeping"
    /\ wait[t] = 0
    /\ pc' = [pc EXCEPT ![t] = "start"]
    /\ UNCHANGED <<bucketVars, host, age, wait, cancelled>>

\* The select! of wait_for_rate_limits drops the sleeping acquire().
Cancelled(t) ==
    /\ cancelled
    /\ pc[t] = "sleeping"
    /\ pc' = [pc EXCEPT ![t] = "cancelled"]
    /\ wait' = [wait EXCEPT ![t] = 0]
    /\ UNCHANGED <<bucketVars, host, age, cancelled>>

\* Ctrl-C.
Cancel ==
    /\ ~cancelled
    /\ cancelled' = TRUE
    /\ UNCHANGED <<bucketVars, taskVars>>

\* Time passes; a preempted task is resumed before MaxStall.
Advance ==
    /\ \A t \in Task : pc[t] \in Synchronous => age[t] < MaxStall
    /\ age' = [t \in Task |-> IF pc[t] \in Synchronous THEN age[t] + 1 ELSE age[t]]
    /\ wait' = [t \in Task |-> IF wait[t] > 0 THEN wait[t] - 1 ELSE 0]
    /\ since' = [h \in Host |-> IF h \in made THEN AtMost(since[h] + 1, MaxSince) ELSE 0]
    /\ ideal' = [h \in Host |-> AtMost(ideal[h] + rps, IF h \in made THEN IdealCap
                                                       ELSE Unit * capacity)]
    /\ UNCHANGED <<made, permits, fractional, locked, toAdd, pc, host, cancelled>>

\* What a task does when it is polled.
Run(t) ==
    \/ ReadClock(t)
    \/ LockAndRead(t)
    \/ AddAndUnlock(t)
    \/ TryAcquire(t)
    \/ Throttled(t)
    \/ Wake(t)
    \/ Cancelled(t)

Next ==
    \/ \E t \in Task : Acquire(t) \/ Run(t)
    \/ Cancel
    \/ Advance

Spec == Init /\ [][Next]_vars

\* Time goes on and the runtime polls the tasks that are ready; a task that
\* finds last_refill locked gets the lock some time after it is released.
FairSpec ==
    /\ Spec
    /\ WF_vars(Advance)
    /\ \A t \in Task : WF_vars(Run(t)) /\ SF_vars(LockAndRead(t))

----------------------------------------------------------------------------
(* Properties.                                                             *)

\* Refills by several tasks of the same host are serialised: together they
\* never bring a bucket above its burst, a carried fraction included.
HostBurstBound ==
    \A h \in made :
        Unit * (permits[h] + toAdd[h]) + fractional[h] <= Unit * capacity

\* "each host is also limited to 2 URL tokens/sec": per host no more tokens
\* are given out than the burst plus rps per second, as an ideal bucket
\* counts them.
HostBudget == \A h \in Host : ideal[h] >= 0

\* Neither burst nor rate is exceeded, whichever tasks of a host race for its
\* bucket, make it or refill it (host_rate_limiter.rs:70-104).
HostWithinLimits == HostBurstBound /\ HostBudget

\* A task that has entered acquire() gets a token of its host in the end, or
\* is cancelled, although the tasks asleep on one host poll at different
\* times and each poll may earn less than one permit.
HostWaitersAdmitted ==
    \A t \in Task : pc[t] = "start" ~> pc[t] \in {"admitted", "cancelled"}
=============================================================================
