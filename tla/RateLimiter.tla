---------------------------- MODULE RateLimiter ----------------------------
(***************************************************************************)
(* The global URL-admission limiter (initialization/rate_limiter.rs): a    *)
(* tokio semaphore used as a token bucket, a background ticker that refills *)
(* it, and the URL tasks that take one token each before they fetch.       *)
(*                                                                         *)
(* Time is relative: pending is the time since the ticker's last_time.     *)
(* The 100 ms interval and its lateness are abstracted to "a tick may come *)
(* at any moment, and comes before MaxGap time units have passed".         *)
(***************************************************************************)
EXTENDS TokenBucket, Sequences

CONSTANTS
    Task,       \* slots of the tasks that ask for admission
    MaxGap      \* bound: the longest time between two refills

ASSUME GapAssumption == MaxGap \in Nat \ {0}

VARIABLES
    permits,    \* permits available in the semaphore
    queue,      \* the tasks waiting in acquire(), first come first served
    pc,         \* of each task: where it is in RateLimiter::acquire
    ticker,     \* where the refill task is in its loop
    pending,    \* time since last_time
    sampled,    \* the elapsed time this tick measured
    fractional, \* fractional_permits
    toAdd,      \* permits_to_add of this tick
    cancelled,  \* the run's cancel token
    ideal       \* history: the level of an ideal bucket (see IdealCap)

vars == <<permits, queue, pc, ticker, pending, sampled, fractional, toAdd,
          cancelled, ideal>>

\* The ideal bucket: continuously refilled at rps, one permit taken per
\* admission, never above the burst plus what the time between two refills
\* earns (a full bucket still earns until the ticker looks at it).
IdealCap == Unit * capacity + rps * MaxGap

States == {"idle", "waiting", "granted", "admitted"}

TypeOK ==
    /\ permits \in Nat
    /\ queue \in Seq(Task)
    /\ pc \in [Task -> States]
    /\ ticker \in {"waiting", "adding", "stopped"}
    /\ pending \in 0 .. MaxGap
    /\ sampled \in 0 .. pending
    /\ fractional \in 0 .. Unit - 1
    /\ toAdd \in 0 .. capacity
    /\ cancelled \in BOOLEAN
    /\ ideal \in Int

Init ==
    /\ permits = capacity
    /\ queue = << >>
    /\ pc = [t \in Task |-> "idle"]
    /\ ticker = "waiting"
    /\ pending = 0
    /\ sampled = 0
    /\ fractional = 0
    /\ toAdd = 0
    /\ cancelled = FALSE
    /\ ideal = Unit * capacity

----------------------------------------------------------------------------
(* The semaphore.                                                          *)

\* n permits are handed to the first tasks of the queue; k of them get one.
Handed(n) == IF n < Len(queue) THEN n ELSE Len(queue)

\* History: k admissions are charged to the ideal bucket (until the run is
\* cancelled: afterwards dropped waiters give permits back).
Charge(k) == ideal' = IF cancelled THEN ideal ELSE ideal - Unit * k

\* add_permits(n): waiters first, the rest becomes available.  where gives
\* the tasks' places before the permits are handed out.
add_permits(n, where) ==
    /\ permits' = permits + n - Handed(n)
    /\ queue' = SubSeq(queue, Handed(n) + 1, Len(queue))
    /\ pc' = [t \in Task |-> IF \E i \in 1 .. Handed(n) : queue[i] = t
                             THEN "granted" ELSE where[t]]
    /\ Charge(Handed(n))

----------------------------------------------------------------------------
(* The tasks: RateLimiter::acquire under the select! of                    *)
(* wait_for_rate_limits.                                                   *)

\* A permit is available: taken at once.
AcquireNow(t) ==
    /\ pc[t] = "idle"
    /\ ~cancelled
    /\ permits > 0
    /\ permits' = permits - 1
    /\ pc' = [pc EXCEPT ![t] = "granted"]
    /\ Charge(1)
    /\ UNCHANGED <<queue, ticker, pending, sampled, fractional, toAdd, cancelled>>

\* None is available: the task joins the queue.
AcquireWait(t) ==
    /\ pc[t] = "idle"
    /\ ~cancelled
    /\ permits = 0
    /\ queue' = Append(queue, t)
    /\ pc' = [pc EXCEPT ![t] = "waiting"]
    /\ UNCHANGED <<permits, ticker, pending, sampled, fractional, toAdd, cancelled, ideal>>

\* Mutated form: the permit is not forgotten: dropping it gives it back to the semaphore.
ForgetReturnsPermit(t) ==
    /\ pc[t] = "granted"
    /\ add_permits(1, [pc EXCEPT ![t] = "admitted"])
    /\ UNCHANGED <<ticker, pending, sampled, fractional, toAdd, cancelled>>

\* permit.forget(): the token is consumed, acquire() returns.
Forget(t) ==
    /\ pc[t] = "granted"
    /\ pc' = [pc EXCEPT ![t] = "admitted"]
    /\ UNCHANGED <<permits, queue, ticker, pending, sampled, fractional, toAdd,
                   cancelled, ideal>>

\* The task goes on to fetch its URL; its slot is free for another task.
Proceed(t) ==
    /\ pc[t] = "admitted"
    /\ pc' = [pc EXCEPT ![t] = "idle"]
    /\ UNCHANGED <<permits, queue, ticker, pending, sampled, fractional, toAdd,
                   cancelled, ideal>>

\* Cancelled while queued: the acquire future is dropped and leaves the queue.
LeaveQueue(t) ==
    /\ cancelled
    /\ pc[t] = "waiting"
    /\ pc' = [pc EXCEPT ![t] = "idle"]
    /\ \E i \in 1 .. Len(queue) :
          /\ queue[i] = t
          /\ queue' = SubSeq(queue, 1, i - 1) \o SubSeq(queue, i + 1, Len(queue))
    /\ UNCHANGED <<permits, ticker, pending, sampled, fractional, toAdd, cancelled, ideal>>

\* Cancelled after the permit was assigned and before the task saw it: the
\* dropped future gives the permit back.
DropGranted(t) ==
    /\ cancelled
    /\ pc[t] = "granted"
    /\ add_permits(1, [pc EXCEPT ![t] = "idle"])
    /\ UNCHANGED <<ticker, pending, sampled, fractional, toAdd, cancelled>>

----------------------------------------------------------------------------
(* The refill task.                                                        *)

\* A tick: the clock and the available permits are read and the refill is
\* computed from them.
Tick ==
    /\ ticker = "waiting"
    /\ ticker' = "adding"
    /\ sampled' = pending
    /\ toAdd' = PermitsToAdd(pending, permits, fractional)
    /\ fractional' = NewFractional(pending, permits, fractional)
    /\ UNCHANGED <<permits, queue, pc, pending, cancelled, ideal>>

\* The permits are added and last_time becomes the instant the tick read.
Refill ==
    /\ ticker = "adding"
    /\ ticker' = "waiting"
    /\ add_permits(toAdd, pc)
    /\ pending' = pending - sampled
    /\ sampled' = 0
    /\ toAdd' = 0
    /\ UNCHANGED <<fractional, cancelled>>

\* The limiter's shutdown token, cancelled by shutdown_gracefully once the
\* join set has been drained: no task is left.
StopTicker ==
    /\ cancelled
    /\ \A t \in Task : pc[t] = "idle"
    /\ ticker = "waiting"
    /\ ticker' = "stopped"
    /\ UNCHANGED <<permits, queue, pc, pending, sampled, fractional, toAdd, cancelled, ideal>>

----------------------------------------------------------------------------
\* Ctrl-C, or the end of the run.
Cancel ==
    /\ ~cancelled
    /\ cancelled' = TRUE
    /\ UNCHANGED <<permits, queue, pc, ticker, pending, sampled, fractional, toAdd, ideal>>

\* Time passes.
Advance ==
    /\ pending < MaxGap
    /\ pending' = pending + 1
    /\ ideal' = IF cancelled THEN ideal
                ELSE IF ideal + rps <= IdealCap THEN ideal + rps ELSE IdealCap
    /\ UNCHANGED <<permits, queue, pc, ticker, sampled, fractional, toAdd, cancelled>>

\* What a runnable task does on its own.
Run(t) == Forget(t) \/ LeaveQueue(t) \/ DropGranted(t)

Next ==
    \/ \E t \in Task : AcquireNow(t) \/ AcquireWait(t) \/ Proceed(t) \/ Run(t)
    \/ Tick
    \/ Refill
    \/ StopTicker
    \/ Cancel
    \/ Advance

Spec == Init /\ [][Next]_vars

\* The runtime polls every task that is ready.  No task is obliged to ask for
\* admission and nothing obliges Ctrl-C to come; the ticker may be stuck.
FairSpec == Spec /\ \A t \in Task : WF_vars(Run(t)) /\ WF_vars(Proceed(t))

\* The clock goes on and the refill task is polled when its timer fires.
TickerFair == WF_vars(Advance) /\ WF_vars(Tick) /\ WF_vars(Refill)

----------------------------------------------------------------------------
(* Properties.                                                             *)

\* What the limiter holds and has yet to credit, in credit units.
Level == Unit * (permits + toAdd) + fractional + rps * (pending - sampled)

\* The bucket never holds, or is about to hold, more than its burst, a
\* carried fraction included, although permits are taken between the ticker's
\* reading of available_permits() and its add_permits().
BurstBound == ~cancelled => Unit * (permits + toAdd) + fractional <= Unit * capacity

\* The tokens in the bucket and the time not yet credited are covered by the
\* ideal bucket: over any stretch of time no more URLs are admitted than the
\* burst, plus rps per second, plus what one refill gap earns, however
\* ticks, acquisitions and late credits interleave.
AdmissionBudget == ~cancelled => /\ Level <= ideal
                                 /\ ideal >= 0

\* A URL waiting for a token gets one (or the run is cancelled), also when
\* a tick earns less than one permit: the carried fraction adds up.
WaitersAdmitted ==
    TickerFair => \A t \in Task : pc[t] = "waiting" ~> pc[t] # "waiting"

\* After Ctrl-C every task leaves acquire() without waiting for a token: this
\* holds when neither the clock nor the ticker ever moves again.
CancelEmptiesQueue == cancelled ~> (queue = << >> /\ \A t \in Task : pc[t] = "idle")

\* No URL stays in the queue: a running limiter admits it, a cancelled run frees
\* it (rate_limiter.rs:58, run/task.rs:132).
QueueServed == WaitersAdmitted /\ CancelEmptiesQueue
=============================================================================
