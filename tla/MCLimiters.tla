----------------------------- MODULE MCLimiters -----------------------------
(* The two limiters on small instances: a behaviour is one of either.  Task *)
(* slots are reused, so a few of them admit any number of URLs.            *)
EXTENDS Limiters

CONSTANTS t1, t2, t3, h1, h2

VARIABLES limiter

hostVars == <<made, hostPermits, since, hostFractional, locked, hostToAdd, hostIdeal,
              hostPc, host, age, wait, hostCancelled>>
all == <<limiter, vars, hostVars>>

\* Hosts are interchangeable: the first task's is h1.  Any host will do for the
\* tasks of a limiter that is not running.
LimitersInit ==
    /\ Init /\ H!Init
    /\ \/ limiter = "host" /\ host[t1] = h1
       \/ limiter = "global" /\ host = [t \in HostTask |-> h1]
Global(A) == limiter = "global" /\ A /\ UNCHANGED <<limiter, hostVars>>
PerHost(A) == limiter = "host" /\ A /\ UNCHANGED <<limiter, vars>>
LimitersNext == Global(Next) \/ PerHost(H!Next)

LimitersSpec ==
    /\ LimitersInit /\ [][LimitersNext]_all
    /\ \A t \in Task : WF_all(Global(Run(t))) /\ WF_all(Global(Proceed(t)))
    /\ WF_all(PerHost(H!Advance))
    /\ \A t \in HostTask : WF_all(PerHost(H!Run(t))) /\ SF_all(PerHost(H!LockAndRead(t)))
=============================================================================
