---------------------------- MODULE TokenBucket ----------------------------
(***************************************************************************)
(* The refill arithmetic shared by the global URL-admission limiter and    *)
(* the per-host limiter (compute_refill_permits).  The code keeps time as  *)
(* Duration and the carried fraction of a permit as f64; here both are     *)
(* fixed point: one second is Unit time units, one permit is Unit credit   *)
(* units, so that rps permits per second is rps credit units per time      *)
(* unit and floor() is an integer division.                                *)
(***************************************************************************)
EXTENDS Integers

CONSTANTS
    Unit,       \* time units per second, and credit units per permit
    rps,        \* the limiter's current_rps
    capacity    \* the limiter's burst capacity

\* init_rate_limiter returns None for rps = 0 and validate() refuses a
\* max_concurrency of 0, so the burst min(max_concurrency, 2*rps) is positive;
\* HostRateLimiter::new takes burst.max(1).
ASSUME BucketAssumption ==
    /\ Unit \in Nat \ {0}
    /\ rps \in Nat \ {0}
    /\ capacity \in Nat \ {0}

----------------------------------------------------------------------------
\* permits_to_add_f64: what the elapsed time earns, plus the carried fraction.
Earned(elapsed, fractional) == rps * elapsed + fractional

\* whole_permits: floor(permits_to_add_f64).
Whole(elapsed, fractional) == Earned(elapsed, fractional) \div Unit

\* Mutated form: the bucket is filled without looking at what is left in it.
AddIgnoringAvailable(elapsed, available, fractional) ==
    IF Whole(elapsed, fractional) <= capacity
    THEN Whole(elapsed, fractional)
    ELSE capacity

\* permits_to_add, the first component of compute_refill_permits: the whole
\* permits earned, at most what restores the bucket to its capacity.
PermitsToAdd(elapsed, available, fractional) ==
    IF available >= capacity THEN 0
    ELSE IF Whole(elapsed, fractional) <= capacity - available
         THEN Whole(elapsed, fractional)
         ELSE capacity - available

\* Mutated form: the fraction is forgotten at every refill.
NoCarry(elapsed, available, fractional) == 0

\* new_fractional, its second component: the unspent part of a permit is
\* carried over, unless the bucket is full.
NewFractional(elapsed, available, fractional) ==
    IF \/ available >= capacity
       \/ PermitsToAdd(elapsed, available, fractional) = capacity - available
    THEN 0
    ELSE Earned(elapsed, fractional) - Unit * Whole(elapsed, fractional)
=============================================================================
