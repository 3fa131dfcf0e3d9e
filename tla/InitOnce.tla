------------------------------ MODULE InitOnce ------------------------------
(***************************************************************************)
(* What loading a process-wide resource promises its callers: in the life  *)
(* of a process the resource is set at most once; every call that succeeds *)
(* gets the resource that is set; a call fails only while none is set.     *)
(* When a process ends, its memory and its calls are gone.                 *)
(***************************************************************************)
CONSTANTS Callers, Procs, None, Pending, Failed

VARIABLES
    home,      \* of each caller: its process
    resource,  \* of each process: the resource, or None
    outcome    \* of each caller: Pending, Failed or the resource it got

vars == <<home, resource, outcome>>

Init ==
    /\ home \in [Callers -> Procs]
    /\ resource = [p \in Procs |-> None]
    /\ outcome = [c \in Callers |-> Pending]

\* The call finds the resource or sets it; either way it returns it.
Succeed(c) ==
    /\ outcome[c] = Pending
    /\ \/ resource[home[c]] # None /\ UNCHANGED resource
       \/ /\ resource[home[c]] = None
          /\ resource'[home[c]] # None
          /\ resource' = [resource EXCEPT ![home[c]] = resource'[home[c]]]
    /\ outcome' = [outcome EXCEPT ![c] = resource'[home[c]]]

GiveUp(c) ==
    /\ outcome[c] = Pending
    /\ resource[home[c]] = None
    /\ outcome' = [outcome EXCEPT ![c] = Failed]
    /\ UNCHANGED resource

EndProcess(p) ==
    /\ resource' = [resource EXCEPT ![p] = None]
    /\ outcome' = [c \in Callers |-> IF home[c] = p THEN Pending ELSE outcome[c]]

Next ==
    /\ \/ \E c \in Callers : Succeed(c) \/ GiveUp(c)
       \/ \E p \in Procs : EndProcess(p)
    /\ UNCHANGED home

Spec == Init /\ [][Next]_vars
============================================================================
