------------------------------ MODULE Limiters ------------------------------
(***************************************************************************)
(* The two limiters together: the global one, and an instance H of the one *)
(* per host, over constants and variables of its own.  A task waits for    *)
(* the first and then for the second, and they share nothing else.         *)
(***************************************************************************)
EXTENDS RateLimiter

CONSTANTS HostTask, Host, NoTask, HostUnit, hostRps, hostCapacity, MaxStall, Tolerated

ASSUME HostBucketAssumption ==
    /\ HostUnit \in Nat \ {0} /\ hostRps \in Nat \ {0} /\ hostCapacity \in Nat \ {0}
    /\ MaxStall \in Nat /\ NoTask \notin HostTask

VARIABLES made, hostPermits, since, hostFractional, locked, hostToAdd, hostIdeal,
          hostPc, host, age, wait, hostCancelled

H == INSTANCE HostRateLimiter WITH
        Task <- HostTask, Unit <- HostUnit, rps <- hostRps, capacity <- hostCapacity,
        permits <- hostPermits, fractional <- hostFractional, toAdd <- hostToAdd,
        ideal <- hostIdeal, pc <- hostPc, cancelled <- hostCancelled

HostSpec == H!Spec

\* The bounds of the limiter per host (see HostRateLimiter): no bucket holds more than its
\* burst, and no host is admitted to faster than its ideal bucket allows
\* (host_rate_limiter.rs:70-104).
HostWithinLimits == H!HostWithinLimits

\* A task that waits for its host's token gets one, or the run is cancelled.
HostWaitersAdmitted == H!HostWaitersAdmitted
=============================================================================
