--------------------------- MODULE ScanRunProofs ---------------------------
(***************************************************************************)
(* Theorems about ScanRun for every input, every number of lines, permits, *)
(* read errors, database errors and panics.                                *)
(***************************************************************************)
EXTENDS ScanRun, FiniteSetTheorems, TLAPS

-----------------------------------------------------------------------------
(* The tasks in a set of states, and how one step of one task changes them. *)

LEMMA TaskFinite == IsFiniteSet(Task)
  BY NumLinesAssumption, FS_Interval DEF Task

LEMMA SubsetOfTaskFinite ==
  ASSUME NEW S \in SUBSET Task
  PROVE  IsFiniteSet(S) /\ Cardinality(S) \in Nat
  BY TaskFinite, FS_Subset, FS_CardinalityType

-----------------------------------------------------------------------------
(* Type correctness.  A task exists only for a URL line that has been read,  *)
(* which is what keeps the registry and url_status within their types.       *)

SpawnInv ==
    /\ \A t \in Task : pc[t] # "none" => input[t] \in Url /\ t <= pos
    /\ main = "permit" => pos \in Task /\ input[pos] \in Url /\ pc[pos] = "none"

TypeInv == TypeOK /\ SpawnInv

LEMMA RowCountType ==
  ASSUME TypeOK
  PROVE  url_failures \in Nat /\ Cardinality(url_status) \in Nat /\ Cardinality(abandoned) \in Nat
<1>1. {t \in Task : taskRow[t] = "written"} \in SUBSET Task
  OBVIOUS
<1>2. {u \in Url : drainRow[u] = "written"} \in SUBSET Url
  OBVIOUS
<1>3. Cardinality({t \in Task : taskRow[t] = "written"}) \in Nat
  BY <1>1, SubsetOfTaskFinite
<1>4. Cardinality({u \in Url : drainRow[u] = "written"}) \in Nat
  BY <1>2, UrlAssumption, FS_Subset, FS_CardinalityType
<1>5. Cardinality(url_status) \in Nat /\ Cardinality(abandoned) \in Nat
  BY DomainAssumption, UrlAssumption, FS_Subset, FS_CardinalityType DEF TypeOK
<1> QED BY <1>3, <1>4, <1>5 DEF url_failures

LEMMA TypeInit == Init => TypeInv
<1> SUFFICES ASSUME Init PROVE TypeInv
  OBVIOUS
<1>1. pc \in [Task -> TaskState] /\ \A t \in Task : pc[t] = "none"
  BY DEF Init, TaskState
<1>2. taskRow \in [Task -> RowState] /\ drainRow \in [Url -> RowState]
  BY DEF Init, RowState
<1>3. report \in [Reported -> Nat]
  BY DEF Init
<1>4. cancel \in BOOLEAN /\ aborted \in BOOLEAN
  BY DEF Init
<1>5. input \in [Task -> Line] /\ main \in MainState
  BY DEF Init, MainState
<1>6. /\ in_flight_urls = {} /\ abandoned = {} /\ toRecord = {}
      /\ lastPoll = {} /\ url_status = {}
  BY DEF Init
<1>7. /\ pos \in 0..NumLines /\ readErrors \in 0..MaxReadErrors
      /\ dbErrors \in 0..MaxDbErrors /\ panics \in 0..MaxPanics
      /\ semaphore \in Nat
  BY NumLinesAssumption, MaxConcurrencyAssumption, BoundsAssumption DEF Init
<1>8. TypeOK
  BY <1>1, <1>2, <1>3, <1>4, <1>5, <1>6, <1>7 DEF Init, TypeOK
<1>9. SpawnInv
  BY <1>1 DEF Init, SpawnInv
<1> QED BY <1>8, <1>9 DEF TypeInv

LEMMA TypeNext == TypeInv /\ [Next]_vars => TypeInv'
<1> SUFFICES ASSUME TypeInv, [Next]_vars PROVE TypeInv'
  OBVIOUS
<1> USE NumLinesAssumption, MaxConcurrencyAssumption, BoundsAssumption, DomainAssumption,
        LineAssumption
    DEF TypeInv, TypeOK, SpawnInv, GoTo, OnlyMainMoves, loopVars, mainVars, taskVars,
        drainVars, counters, rows, faults, MainState, Reported
<1>1. CASE ReapDone
  BY <1>1 DEF ReapDone
<1>2. CASE LeaveLoop
  BY <1>2 DEF LeaveLoop
<1>3. CASE NextLine
  BY <1>3 DEF NextLine, skip_url, Line, Task
<1>4. CASE ReturnErr
  BY <1>4 DEF ReturnErr, AbortTasks
<1>5. CASE Spawn
  BY <1>5 DEF Spawn, Acquire, Task, TaskState, Joinable, Guarded, Holding, Pending, Finished, Processing, RowState
<1>6. CASE DrainEmpty
  BY <1>6 DEF DrainEmpty
<1>7. CASE DrainDeadline
  BY <1>7 DEF DrainDeadline
<1>8. CASE AbortAll
  BY <1>8, RowCountType DEF AbortAll, AbortTasks
<1>9. CASE Shutdown \/ StatusServerStopped
  BY <1>9 DEF Shutdown, StatusServerStopped
<1>10. CASE LoadCounters
  BY <1>10 DEF LoadCounters
<1>11. CASE CountStatus
  BY <1>11, RowCountType DEF CountStatus
<1>12. CASE CountFailures
  BY <1>12, RowCountType DEF CountFailures
<1>13. CASE UpdateRunStats
  BY <1>13 DEF UpdateRunStats
<1>14. CASE ClosePool
  BY <1>14 DEF ClosePool
<1>15. CASE CtrlC
  BY <1>15 DEF CtrlC
<1>16. CASE ReadError
  <2>1. consecutive_errors' \in Nat /\ readErrors' \in 0..MaxReadErrors
    BY <1>16 DEF ReadError
  <2>2. main' \in {"shutdownErr", "reap"} /\ cancel' \in BOOLEAN
    BY <1>16 DEF ReadError
  <2> QED BY <1>16, <2>1, <2>2 DEF ReadError
<1>17. CASE FinalizeError
  BY <1>17 DEF FinalizeError
<1>18. ASSUME NEW u \in Url, RecordDrainTimeout(u) PROVE TypeInv'
  BY <1>18 DEF RecordDrainTimeout, InsertRow, RowState
<1>19. ASSUME NEW t \in Task, Reap(t) PROVE TypeInv'
  BY <1>19 DEF Reap, Join, TaskState, Joinable, Guarded, Holding, Pending, Finished, Processing, RowState
<1>20. ASSUME NEW t \in Task, DrainJoin(t) PROVE TypeInv'
  BY <1>20 DEF DrainJoin, Join, TaskState, Joinable, Guarded, Holding, Pending, Finished, Processing, RowState
<1>21. ASSUME NEW t \in Task, Start(t) PROVE TypeInv'
  BY <1>21 DEF Start, Polled, TaskState, Joinable, Guarded, Holding, Pending, Finished, Processing, RowState
<1>22. ASSUME NEW t \in Task, Admit(t) PROVE TypeInv'
  BY <1>22 DEF Admit, Polled, TaskState, Joinable, Guarded, Holding, Pending, Finished, Processing, RowState
<1>23. ASSUME NEW t \in Task, StoreCore(t) PROVE TypeInv'
  BY <1>23 DEF StoreCore, Polled, TaskState, Joinable, Guarded, Holding, Pending, Finished, Processing, RowState
<1>24. ASSUME NEW t \in Task, Cancelled(t) PROVE TypeInv'
  BY <1>24 DEF Cancelled, Polled, TaskState, Joinable, Guarded, Holding, Pending, Finished, Processing, RowState
<1>25. ASSUME NEW t \in Task, HandleSuccess(t) PROVE TypeInv'
  BY <1>25 DEF HandleSuccess, Polled, Leave, TaskState, Joinable, Guarded, Holding, Pending, Finished, Processing, RowState
<1>26. ASSUME NEW t \in Task, HandleFailure(t) PROVE TypeInv'
  BY <1>26 DEF HandleFailure, CountFailure, Polled, TaskState, Joinable, Guarded, Holding, Pending, Finished, Processing, RowState
<1>27. ASSUME NEW t \in Task, HandleTimeout(t) PROVE TypeInv'
  BY <1>27 DEF HandleTimeout, CountFailure, Polled, TaskState, Joinable, Guarded, Holding, Pending, Finished, Processing, RowState
<1>28. ASSUME NEW t \in Task, RecordFailure(t) PROVE TypeInv'
  BY <1>28 DEF RecordFailure, InsertRow, Polled, Leave, TaskState, Joinable, Guarded, Holding, Pending, Finished, Processing, RowState
<1>29. ASSUME NEW t \in Task, RecordCancelled(t) PROVE TypeInv'
  BY <1>29 DEF RecordCancelled, InsertRow, Polled, TaskState, Joinable, Guarded, Holding, Pending, Finished, Processing, RowState
<1>30. ASSUME NEW t \in Task, CountCancelled(t) PROVE TypeInv'
  BY <1>30 DEF CountCancelled, Polled, Leave, TaskState, Joinable, Guarded, Holding, Pending, Finished, Processing, RowState
<1>31. ASSUME NEW t \in Task, DropGuard(t) PROVE TypeInv'
  BY <1>31 DEF DropGuard, TaskState, Joinable, Guarded, Holding, Pending, Finished, Processing, RowState
<1>32. ASSUME NEW t \in Task, Panic(t) PROVE TypeInv'
  BY <1>32 DEF Panic, Polled, Leave, TaskState, Joinable, Guarded, Holding, Pending, Finished, Processing, RowState
<1>33. ASSUME NEW t \in Task, DropAborted(t) PROVE TypeInv'
  BY <1>33 DEF DropAborted, TaskState, Joinable, Guarded, Holding, Pending, Finished, Processing, RowState
<1>34. CASE UNCHANGED vars
  BY <1>34 DEF vars
<1> QED
  BY <1>1, <1>2, <1>3, <1>4, <1>5, <1>6, <1>7, <1>8, <1>9, <1>10, <1>11, <1>12, <1>13, <1>14, <1>15, <1>16, <1>17, <1>18, <1>19, <1>20, <1>21, <1>22, <1>23, <1>24, <1>25, <1>26, <1>27, <1>28, <1>29, <1>30, <1>31, <1>32, <1>33, <1>34
  DEF Next, MainStep, TaskStep, Terminated

\* Every reachable state has its type: no input, fault or interleaving drives a
\* counter below zero, registers something that is no URL or leaves the protocol.
THEOREM TypeCorrect == Spec => []TypeOK
<1>1. Spec => []TypeInv
  BY TypeInit, TypeNext, PTL DEF Spec
<1>2. TypeInv => TypeOK
  BY DEF TypeInv
<1> QED BY <1>1, <1>2, PTL
-----------------------------------------------------------------------------
(* Counting tasks by state across a step.                                  *)

LEMMA InType == \A S : Cardinality(In(S)) \in Nat /\ Cardinality(In(S))' \in Nat
<1> TAKE S
<1>1. In(S) \in SUBSET Task /\ In(S)' \in SUBSET Task
  BY DEF In
<1> QED BY <1>1, SubsetOfTaskFinite

\* A task that moves from a state to another, both in S or both outside S.
LEMMA MoveWithin ==
  ASSUME TypeOK, NEW t \in Task, NEW v, pc' = [pc EXCEPT ![t] = v],
         NEW S, (pc[t] \in S) <=> (v \in S)
  PROVE  Cardinality(In(S))' = Cardinality(In(S))
<1>1. \A u \in Task : pc'[u] \in S <=> pc[u] \in S
  BY DEF TypeOK
<1>2. In(S)' = In(S)
  BY <1>1 DEF In
<1> QED BY <1>2

\* A task that moves into S.
LEMMA MoveIn ==
  ASSUME TypeOK, NEW t \in Task, NEW v, pc' = [pc EXCEPT ![t] = v],
         NEW S, pc[t] \notin S, v \in S
  PROVE  Cardinality(In(S))' = Cardinality(In(S)) + 1
<1>1. \A u \in Task : pc'[u] \in S <=> (pc[u] \in S \/ u = t)
  BY DEF TypeOK
<1>2. In(S)' = In(S) \cup {t} /\ t \notin In(S) /\ In(S) \in SUBSET Task
  BY <1>1 DEF In
<1>3. IsFiniteSet(In(S))
  BY <1>2, SubsetOfTaskFinite
<1> QED BY <1>2, <1>3, FS_AddElement

\* A task that moves out of S.
LEMMA MoveOut ==
  ASSUME TypeOK, NEW t \in Task, NEW v, pc' = [pc EXCEPT ![t] = v],
         NEW S, pc[t] \in S, v \notin S
  PROVE  Cardinality(In(S))' = Cardinality(In(S)) - 1
<1>1. \A u \in Task : pc'[u] \in S <=> (pc[u] \in S /\ u # t)
  BY DEF TypeOK
<1>2. In(S)' = In(S) \ {t} /\ t \in In(S) /\ In(S) \in SUBSET Task
  BY <1>1 DEF In
<1>3. IsFiniteSet(In(S))
  BY <1>2, SubsetOfTaskFinite
<1> QED BY <1>2, <1>3, FS_RemoveElement

-----------------------------------------------------------------------------
(* Permit accounting.  Every action keeps a task's permit with it, except   *)
(* Spawn (takes one) and the ways a task ends (give one back).              *)

LEMMA PermitNext == TypeInv /\ PermitAccounting /\ [Next]_vars => PermitAccounting'
<1> SUFFICES ASSUME TypeInv, PermitAccounting, [Next]_vars PROVE PermitAccounting'
  OBVIOUS
<1> DEFINE h == Cardinality(In(Holding))
           h1 == Cardinality(In(Holding))'
<1> USE DEF TypeInv
<1>1. semaphore + h = MaxConcurrency /\ h \in Nat /\ h1 \in Nat /\ semaphore \in Nat
  BY InType DEF PermitAccounting, TypeOK
<1>2. SUFFICES semaphore' + h1 = MaxConcurrency
  BY DEF PermitAccounting
<1> HIDE DEF h, h1
<1>3. CASE UNCHANGED <<pc, semaphore>>
  BY <1>1, <1>3 DEF h, h1, In
<1>4. CASE Spawn
  <2>1. pos \in Task /\ pc[pos] = "none" /\ pc' = [pc EXCEPT ![pos] = "spawned"]
    BY <1>4 DEF Spawn, SpawnInv
  <2>2. h1 = h + 1
    BY <2>1, MoveIn DEF h, h1, Holding, Pending
  <2> QED BY <1>1, <1>4, <2>2 DEF Spawn, Acquire
<1>5. ASSUME NEW t \in Task, NEW v, pc' = [pc EXCEPT ![t] = v], UNCHANGED semaphore,
             (pc[t] \in Holding) <=> (v \in Holding)
      PROVE  semaphore' + h1 = MaxConcurrency
  BY <1>1, <1>5, MoveWithin DEF h, h1
<1>6. ASSUME NEW t \in Task, NEW v, pc' = [pc EXCEPT ![t] = v], semaphore' = semaphore + 1,
             pc[t] \in Holding, v \notin Holding
      PROVE  semaphore' + h1 = MaxConcurrency
  <2>1. h1 = h - 1
    BY <1>6, MoveOut DEF h, h1
  <2> QED BY <1>1, <1>6, <2>1
<1> USE DEF Holding, Pending, Processing, Finished, taskVars
<1>7. ASSUME NEW t \in Task, Reap(t) \/ DrainJoin(t) PROVE semaphore' + h1 = MaxConcurrency
  BY <1>5, <1>7 DEF Reap, DrainJoin, Join
<1>8. ASSUME NEW t \in Task, Start(t) PROVE semaphore' + h1 = MaxConcurrency
  BY <1>5, <1>8 DEF Start
<1>9. ASSUME NEW t \in Task, Admit(t) PROVE semaphore' + h1 = MaxConcurrency
  BY <1>5, <1>9 DEF Admit
<1>10. ASSUME NEW t \in Task, StoreCore(t) PROVE semaphore' + h1 = MaxConcurrency
  BY <1>5, <1>10 DEF StoreCore
<1>11. ASSUME NEW t \in Task, Cancelled(t) PROVE semaphore' + h1 = MaxConcurrency
  BY <1>5, <1>11 DEF Cancelled
<1>12. ASSUME NEW t \in Task, HandleFailure(t) \/ HandleTimeout(t)
       PROVE  semaphore' + h1 = MaxConcurrency
  BY <1>5, <1>12 DEF HandleFailure, HandleTimeout, CountFailure
<1>13. ASSUME NEW t \in Task, RecordCancelled(t) PROVE semaphore' + h1 = MaxConcurrency
  BY <1>5, <1>13 DEF RecordCancelled
<1>14. ASSUME NEW t \in Task, DropGuard(t) PROVE semaphore' + h1 = MaxConcurrency
  BY <1>5, <1>14 DEF DropGuard
<1>15. ASSUME NEW t \in Task, HandleSuccess(t) \/ RecordFailure(t) \/ CountCancelled(t)
       PROVE  semaphore' + h1 = MaxConcurrency
  BY <1>6, <1>15 DEF HandleSuccess, RecordFailure, CountCancelled, Leave
<1>16. ASSUME NEW t \in Task, Panic(t) PROVE semaphore' + h1 = MaxConcurrency
  BY <1>6, <1>16 DEF Panic, Leave
<1>17. ASSUME NEW t \in Task, DropAborted(t) PROVE semaphore' + h1 = MaxConcurrency
  BY <1>6, <1>17 DEF DropAborted
<1>18. ASSUME NEW u \in Url, RecordDrainTimeout(u) PROVE UNCHANGED <<pc, semaphore>>
  BY <1>18 DEF RecordDrainTimeout
<1>19. CASE \/ ReapDone \/ LeaveLoop \/ NextLine \/ ReturnErr \/ DrainEmpty
            \/ DrainDeadline \/ AbortAll \/ Shutdown \/ StatusServerStopped \/ LoadCounters \/ CountStatus
            \/ CountFailures \/ UpdateRunStats \/ ClosePool \/ CtrlC \/ ReadError
            \/ FinalizeError \/ UNCHANGED vars
  <2>1. UNCHANGED <<pc, semaphore>>
    BY <1>19 DEF ReapDone, LeaveLoop, NextLine, ReturnErr, DrainEmpty, DrainDeadline,
       AbortAll, Shutdown, StatusServerStopped, LoadCounters, CountStatus, CountFailures, UpdateRunStats,
       ClosePool, CtrlC, ReadError, FinalizeError, OnlyMainMoves, vars
  <2> QED BY <1>3, <2>1
<1> QED
  BY <1>3, <1>4, <1>7, <1>8, <1>9, <1>10, <1>11, <1>12, <1>13, <1>14, <1>15, <1>16, <1>17,
     <1>18, <1>19
  DEF Next, MainStep, TaskStep, Terminated

\* No path through a task (success, failure, timeout, cancel, panic, abort) leaks a
\* permit or returns one twice, whatever the input, the faults and the interleaving:
\* at most MaxConcurrency URLs are ever in progress, and a permit that is not
\* available is held by a task that has not ended.
THEOREM PermitsAccounted == Spec => []PermitAccounting
<1>1. Init => PermitAccounting
  <2> SUFFICES ASSUME Init PROVE PermitAccounting
    OBVIOUS
  <2>1. In(Holding) = {}
    BY DEF Init, In, Holding, Pending
  <2> QED BY <2>1, FS_EmptySet, MaxConcurrencyAssumption DEF Init, PermitAccounting
<1>2. Spec => []TypeInv
  BY TypeInit, TypeNext, PTL DEF Spec
<1> QED BY <1>1, <1>2, PermitNext, PTL DEF Spec
-----------------------------------------------------------------------------
(* Counter accounting.  Until something is aborted every step that takes a   *)
(* task out of the uncounted states adds one to exactly one counter.         *)

LEMMA CounterNext == TypeInv /\ CounterPartition /\ [Next]_vars => CounterPartition'
<1> SUFFICES ASSUME TypeInv, CounterPartition, [Next]_vars, ~aborted'
             PROVE  total_urls_attempted' = successful_urls' + failed_urls' + skipped_urls'
                                              + Cardinality(In(Uncounted))'
  BY DEF CounterPartition
<1> DEFINE n == Cardinality(In(Uncounted))
           n1 == Cardinality(In(Uncounted))'
           Goal == total_urls_attempted' = successful_urls' + failed_urls' + skipped_urls' + n1
<1> SUFFICES Goal
  OBVIOUS
<1> USE DEF TypeInv
<1>1. ~aborted
  <2> SUFFICES ASSUME aborted PROVE FALSE
    OBVIOUS
  <2>1. \A t \in Task : Polled(t) => aborted'
    BY DEF Polled
  <2> QED
    BY <2>1 DEF Next, MainStep, TaskStep, Terminated, vars, drainVars, OnlyMainMoves,
       ReapDone, LeaveLoop, NextLine, ReturnErr, Spawn, DrainEmpty, DrainDeadline, AbortAll,
       AbortTasks, Reap, DrainJoin, Join, RecordDrainTimeout, Shutdown, StatusServerStopped, LoadCounters,
       CountStatus, CountFailures, UpdateRunStats, ClosePool, CtrlC, ReadError,
       FinalizeError, Start, Admit, StoreCore, Cancelled, HandleSuccess, HandleFailure,
       HandleTimeout, CountFailure, RecordFailure, RecordCancelled, CountCancelled,
       DropGuard, Panic, DropAborted
<1>2. /\ total_urls_attempted = successful_urls + failed_urls + skipped_urls + n
      /\ n \in Nat /\ n1 \in Nat
      /\ successful_urls \in Nat /\ failed_urls \in Nat /\ skipped_urls \in Nat
  BY <1>1, InType DEF CounterPartition, TypeOK
<1> HIDE DEF n, n1
<1>3. ASSUME UNCHANGED <<pc, counters>> PROVE Goal
  BY <1>2, <1>3 DEF n, n1, In, counters
<1>4. ASSUME UNCHANGED pc, skip_url PROVE Goal
  <2>1. n1 = n
    BY <1>4 DEF n, n1, In
  <2> QED BY <1>2, <1>4, <2>1 DEF skip_url
<1>5. ASSUME NEW t \in Task, NEW v, pc' = [pc EXCEPT ![t] = v], UNCHANGED counters,
             (pc[t] \in Uncounted) <=> (v \in Uncounted)
      PROVE  Goal
  <2>1. n1 = n
    BY <1>5, MoveWithin DEF n, n1
  <2> QED BY <1>2, <1>5, <2>1 DEF counters
<1>6. ASSUME NEW t \in Task, NEW v, pc' = [pc EXCEPT ![t] = v],
             pc[t] \in Uncounted, v \notin Uncounted, UNCHANGED total_urls_attempted,
             \/ /\ successful_urls' = successful_urls + 1
                /\ UNCHANGED <<failed_urls, skipped_urls>>
             \/ /\ failed_urls' = failed_urls + 1
                /\ UNCHANGED <<successful_urls, skipped_urls>>
             \/ /\ skipped_urls' = skipped_urls + 1
                /\ UNCHANGED <<successful_urls, failed_urls>>
      PROVE  Goal
  <2>1. n1 = n - 1
    BY <1>6, MoveOut DEF n, n1
  <2> QED BY <1>2, <1>6, <2>1
<1>7. CASE Spawn
  <2>1. pos \in Task /\ pc[pos] = "none" /\ pc' = [pc EXCEPT ![pos] = "spawned"]
    BY <1>7 DEF Spawn, SpawnInv
  <2>2. n1 = n + 1
    BY <2>1, MoveIn DEF n, n1, Uncounted, Pending
  <2> QED BY <1>2, <1>7, <2>2 DEF Spawn
<1> USE DEF Uncounted, Pending, Processing, Finished, taskVars
<1> HIDE DEF Goal
<1>8. ASSUME NEW t \in Task, Reap(t) \/ DrainJoin(t) PROVE Goal
  <2>1. Join(t)
    BY <1>8 DEF Reap, DrainJoin
  <2>2. CASE pc[t] = "panicked"
    BY <1>6, <2>1, <2>2 DEF Join
  <2>3. CASE pc[t] = "done"
    <3>1. failed_urls' = failed_urls
      BY <2>1, <2>3, <1>2 DEF Join
    <3> QED BY <1>5, <2>1, <2>3, <3>1 DEF Join, counters
  <2> QED BY <2>1, <2>2, <2>3 DEF Join
<1>9. ASSUME NEW t \in Task, Start(t) \/ Admit(t) \/ StoreCore(t) \/ Cancelled(t)
      PROVE  Goal
  BY <1>5, <1>9 DEF Start, Admit, StoreCore, Cancelled
<1>10. ASSUME NEW t \in Task, HandleSuccess(t) PROVE Goal
  BY <1>6, <1>10 DEF HandleSuccess, Leave
<1>11. ASSUME NEW t \in Task, HandleFailure(t) \/ HandleTimeout(t) PROVE Goal
  BY <1>6, <1>11 DEF HandleFailure, HandleTimeout, CountFailure
<1>12. ASSUME NEW t \in Task, RecordFailure(t) \/ RecordCancelled(t) PROVE Goal
  BY <1>5, <1>12 DEF RecordFailure, RecordCancelled, Leave
<1>13. ASSUME NEW t \in Task, CountCancelled(t) PROVE Goal
  BY <1>6, <1>13 DEF CountCancelled, Leave
<1>14. ASSUME NEW t \in Task, DropGuard(t) \/ Panic(t) PROVE Goal
  BY <1>5, <1>14 DEF DropGuard, Panic, Leave
<1>15. ASSUME NEW t \in Task, DropAborted(t) PROVE Goal
  BY <1>1, <1>15 DEF DropAborted
<1>16. CASE NextLine
  BY <1>3, <1>4, <1>16 DEF NextLine
<1>17. CASE AbortAll \/ ReturnErr
  BY <1>17 DEF AbortAll, ReturnErr, AbortTasks
<1>18. ASSUME NEW u \in Url, RecordDrainTimeout(u) PROVE Goal
  BY <1>3, <1>18 DEF RecordDrainTimeout
<1>19. CASE \/ ReapDone \/ LeaveLoop \/ DrainEmpty \/ DrainDeadline \/ Shutdown
            \/ StatusServerStopped
            \/ LoadCounters \/ CountStatus \/ CountFailures \/ UpdateRunStats
            \/ ClosePool \/ CtrlC \/ ReadError \/ FinalizeError \/ UNCHANGED vars
  <2>1. UNCHANGED <<pc, counters>>
    BY <1>19 DEF ReapDone, LeaveLoop, DrainEmpty, DrainDeadline, Shutdown, StatusServerStopped, LoadCounters,
       CountStatus, CountFailures, UpdateRunStats, ClosePool, CtrlC, ReadError,
       FinalizeError, OnlyMainMoves, vars
  <2> QED BY <1>3, <2>1
<1> QED
  BY <1>7, <1>8, <1>9, <1>10, <1>11, <1>12, <1>13, <1>14, <1>15, <1>16, <1>17, <1>18, <1>19
  DEF Next, MainStep, TaskStep, Terminated

\* Until the drain deadline (or the early error return) aborts tasks, every URL the
\* scan attempts is counted once and only once: successful, failed and skipped
\* partition the attempts that are no longer in progress.
THEOREM CountersPartition == Spec => []CounterPartition
<1>1. Init => CounterPartition
  <2> SUFFICES ASSUME Init PROVE CounterPartition
    OBVIOUS
  <2>1. In(Uncounted) = {}
    BY DEF Init, In, Uncounted, Pending
  <2> QED BY <2>1, FS_EmptySet DEF Init, CounterPartition
<1>2. Spec => []TypeInv
  BY TypeInit, TypeNext, PTL DEF Spec
<1> QED BY <1>1, <1>2, CounterNext, PTL DEF Spec
-----------------------------------------------------------------------------
(* The registry of running URLs.  A step leaves a task on its side of the   *)
(* guard, creates its guard (Start) or drops it.                            *)

LEMMA RegistryNext == TypeInv /\ InFlightRegistry /\ [Next]_vars => InFlightRegistry'
<1> SUFFICES ASSUME TypeInv, InFlightRegistry, [Next]_vars PROVE InFlightRegistry'
  OBVIOUS
<1> DEFINE Running == {input[t] : t \in In(Guarded)}
<1>1. /\ input \in [Task -> Line] /\ pc \in [Task -> TaskState]
      /\ \A t \in Task : pc[t] # "none" => input[t] \in Url
  BY DEF TypeInv, TypeOK, SpawnInv
<1>2. input' = input
  BY DEF Next, MainStep, TaskStep, Terminated, vars, mainVars, loopVars, OnlyMainMoves,
     ReapDone, LeaveLoop, NextLine, ReturnErr, Spawn, DrainEmpty, DrainDeadline, AbortAll,
     Reap, DrainJoin, Join, RecordDrainTimeout, Shutdown, StatusServerStopped, LoadCounters,
     CountStatus, CountFailures, UpdateRunStats, ClosePool, CtrlC, ReadError,
     FinalizeError, Start, Admit, StoreCore, Cancelled, HandleSuccess, HandleFailure,
     HandleTimeout, CountFailure, RecordFailure, RecordCancelled, CountCancelled,
     DropGuard, Panic, DropAborted
<1>3. DistinctUrls' = DistinctUrls
  BY <1>2 DEF DistinctUrls
<1>4. ASSUME UNCHANGED <<pc, in_flight_urls>> PROVE InFlightRegistry'
  BY <1>2, <1>3, <1>4 DEF InFlightRegistry, In
<1>5. ASSUME NEW t \in Task, NEW v, pc' = [pc EXCEPT ![t] = v], UNCHANGED in_flight_urls,
             (pc[t] \in Guarded) <=> (v \in Guarded)
      PROVE  InFlightRegistry'
  <2>1. In(Guarded)' = In(Guarded)
    BY <1>1, <1>5 DEF In
  <2> QED BY <1>2, <1>3, <1>5, <2>1 DEF InFlightRegistry
<1>6. ASSUME NEW t \in Task, NEW v, pc' = [pc EXCEPT ![t] = v], v \in Guarded,
             in_flight_urls' = in_flight_urls \cup {input[t]}
      PROVE  InFlightRegistry'
  <2>1. In(Guarded)' = In(Guarded) \cup {t}
    BY <1>1, <1>6 DEF In
  <2>2. Running' = Running \cup {input[t]}
    BY <1>2, <2>1
  <2> QED BY <1>3, <1>6, <2>2 DEF InFlightRegistry
<1>7. ASSUME NEW t \in Task, NEW v, pc' = [pc EXCEPT ![t] = v], v \notin Guarded,
             pc[t] \in Guarded, in_flight_urls' = in_flight_urls \ {input[t]}
      PROVE  InFlightRegistry'
  <2>1. In(Guarded)' = In(Guarded) \ {t}
    BY <1>1, <1>7 DEF In
  <2>2. in_flight_urls' \subseteq Running'
    BY <1>2, <1>7, <2>1 DEF InFlightRegistry
  <2>3. ASSUME DistinctUrls PROVE in_flight_urls' = Running'
    <3>1. \A r \in In(Guarded) : input[r] \in Url
      BY <1>1 DEF In, Guarded, Holding, Pending
    <3>2. \A r \in In(Guarded) \ {t} : input[r] # input[t]
      BY <2>3, <3>1 DEF DistinctUrls, In
    <3>3. in_flight_urls = Running
      BY <2>3 DEF InFlightRegistry
    <3> QED BY <1>2, <1>7, <2>1, <3>2, <3>3
  <2> QED BY <1>3, <2>2, <2>3 DEF InFlightRegistry
<1> USE DEF Guarded, Holding, Pending, Processing, Finished, taskVars
<1>8. CASE Spawn
  <2>1. pos \in Task /\ pc[pos] = "none"
    BY <1>8 DEF Spawn, TypeInv, SpawnInv
  <2> QED BY <1>5, <1>8, <2>1 DEF Spawn
<1>9. ASSUME NEW t \in Task, Reap(t) \/ DrainJoin(t) PROVE InFlightRegistry'
  BY <1>5, <1>9 DEF Reap, DrainJoin, Join
<1>10. ASSUME NEW t \in Task, Start(t) PROVE InFlightRegistry'
  BY <1>6, <1>10 DEF Start
<1>11. ASSUME NEW t \in Task, Admit(t) \/ StoreCore(t) \/ Cancelled(t) PROVE InFlightRegistry'
  BY <1>5, <1>11 DEF Admit, StoreCore, Cancelled
<1>12. ASSUME NEW t \in Task, HandleSuccess(t) \/ RecordFailure(t) \/ CountCancelled(t) \/ Panic(t)
       PROVE  InFlightRegistry'
  BY <1>5, <1>12 DEF HandleSuccess, RecordFailure, CountCancelled, Panic, Leave
<1>13. ASSUME NEW t \in Task, HandleFailure(t) \/ HandleTimeout(t) \/ RecordCancelled(t)
       PROVE  InFlightRegistry'
  BY <1>5, <1>13 DEF HandleFailure, HandleTimeout, CountFailure, RecordCancelled
<1>14. ASSUME NEW t \in Task, DropGuard(t) PROVE InFlightRegistry'
  <2>1. CASE pc[t] = "exiting"
    BY <1>7, <1>14, <2>1 DEF DropGuard
  <2>2. CASE pc[t] = "unwinding"
    <3>1. pc' = [pc EXCEPT ![t] = "panicked"] /\ in_flight_urls' = in_flight_urls \ {input[t]}
      BY <1>14, <2>2 DEF DropGuard
    <3>2. pc[t] \in Guarded /\ "panicked" \notin Guarded
      BY <2>2
    <3> QED BY <1>7, <3>1, <3>2
  <2> QED BY <1>14, <2>1, <2>2 DEF DropGuard
<1>15. ASSUME NEW t \in Task, DropAborted(t) PROVE InFlightRegistry'
  <2>1. CASE pc[t] \in Guarded
    BY <1>7, <1>15, <2>1 DEF DropAborted
  <2>2. CASE pc[t] \notin Guarded
    BY <1>5, <1>15, <2>2 DEF DropAborted
  <2> QED BY <2>1, <2>2
<1>16. ASSUME NEW u \in Url, RecordDrainTimeout(u) PROVE InFlightRegistry'
  BY <1>4, <1>16 DEF RecordDrainTimeout
<1>17. CASE \/ ReapDone \/ LeaveLoop \/ NextLine \/ ReturnErr \/ DrainEmpty
            \/ DrainDeadline \/ AbortAll \/ Shutdown \/ StatusServerStopped \/ LoadCounters \/ CountStatus
            \/ CountFailures \/ UpdateRunStats \/ ClosePool \/ CtrlC \/ ReadError
            \/ FinalizeError \/ UNCHANGED vars
  <2>1. UNCHANGED <<pc, in_flight_urls>>
    BY <1>17 DEF ReapDone, LeaveLoop, NextLine, ReturnErr, DrainEmpty, DrainDeadline,
       AbortAll, Shutdown, StatusServerStopped, LoadCounters, CountStatus, CountFailures, UpdateRunStats,
       ClosePool, CtrlC, ReadError, FinalizeError, OnlyMainMoves, vars
  <2> QED BY <1>4, <2>1
<1> QED
  BY <1>8, <1>9, <1>10, <1>11, <1>12, <1>13, <1>14, <1>15, <1>16, <1>17
  DEF Next, MainStep, TaskStep, Terminated

\* What the drain deadline will count as abandoned is never a URL that no task runs
\* for, and without repeated lines it is every URL a task runs for: whatever the
\* tasks end with, the guard's registry (task.rs, InFlightGuard) stays in step.
THEOREM RegistryFaithful == Spec => []InFlightRegistry
<1>1. Init => InFlightRegistry
  <2> SUFFICES ASSUME Init PROVE InFlightRegistry
    OBVIOUS
  <2>1. In(Guarded) = {}
    BY DEF Init, In, Guarded, Holding, Pending
  <2> QED BY <2>1 DEF Init, InFlightRegistry
<1>2. Spec => []TypeInv
  BY TypeInit, TypeNext, PTL DEF Spec
<1> QED BY <1>1, <1>2, RegistryNext, PTL DEF Spec
-----------------------------------------------------------------------------
(* After the drain.  DrainEmpty leaves no task behind and nothing spawns one *)
(* any more, so a run that finalizes without an abort has no other writer.   *)

Quiescent == main \in Finalizing /\ ~aborted => \A t \in Task : pc[t] \notin Joinable

LEMMA TaskMoves ==
  ASSUME NEW t \in Task, TaskStep(t) \/ Panic(t) \/ DropAborted(t)
  PROVE  pc[t] \in Joinable /\ main' = main
  BY DEF TaskStep, Start, Admit, StoreCore, Cancelled, HandleSuccess, HandleFailure,
     HandleTimeout, CountFailure, RecordFailure, RecordCancelled, CountCancelled,
     DropGuard, Panic, DropAborted, Joinable, Guarded, Holding, Pending, Processing,
     mainVars

\* An abort is not undone.
LEMMA AbortStays == TypeInv /\ [Next]_vars /\ aborted => aborted'
<1> SUFFICES ASSUME TypeInv, [Next]_vars, aborted PROVE aborted'
  OBVIOUS
<1>1. \A t \in Task : Polled(t) => aborted'
  BY DEF Polled
<1> QED
  BY <1>1 DEF Next, MainStep, TaskStep, Terminated, vars, drainVars, OnlyMainMoves,
     ReapDone, LeaveLoop, NextLine, ReturnErr, Spawn, DrainEmpty, DrainDeadline, AbortAll,
     AbortTasks, Reap, DrainJoin, Join, RecordDrainTimeout, Shutdown, StatusServerStopped, LoadCounters,
     CountStatus, CountFailures, UpdateRunStats, ClosePool, CtrlC, ReadError,
     FinalizeError, Start, Admit, StoreCore, Cancelled, HandleSuccess, HandleFailure,
     HandleTimeout, CountFailure, RecordFailure, RecordCancelled, CountCancelled,
     DropGuard, Panic, DropAborted

LEMMA QuiescentNext == TypeInv /\ Quiescent /\ [Next]_vars => Quiescent'
<1> SUFFICES ASSUME TypeInv, Quiescent, [Next]_vars, main' \in Finalizing, ~aborted'
             PROVE  \A t \in Task : pc'[t] \notin Joinable
  BY DEF Quiescent
<1>1. ~aborted
  BY AbortStays
<1>2. CASE DrainEmpty
  BY <1>2 DEF DrainEmpty, OnlyMainMoves, taskVars
<1>3. CASE main \in Finalizing /\ UNCHANGED pc
  BY <1>1, <1>3 DEF Quiescent
<1>4. ASSUME NEW t \in Task, TaskStep(t) \/ Panic(t) \/ DropAborted(t) PROVE FALSE
  <2>1. pc[t] \in Joinable /\ main' = main
    BY <1>4, TaskMoves
  <2> QED BY <1>1, <2>1 DEF Quiescent
<1>5. ASSUME NEW t \in Task, Reap(t) \/ DrainJoin(t) PROVE FALSE
  BY <1>5 DEF Reap, DrainJoin, Join, Finalizing, mainVars
<1>6. ASSUME NEW u \in Url, RecordDrainTimeout(u) PROVE FALSE
  BY <1>6 DEF RecordDrainTimeout, GoTo, Finalizing
<1>7. CASE \/ ReapDone \/ LeaveLoop \/ NextLine \/ ReturnErr \/ Spawn \/ DrainDeadline
           \/ AbortAll \/ ReadError \/ FinalizeError
  BY <1>7 DEF ReapDone, LeaveLoop, NextLine, ReturnErr, Spawn, DrainDeadline, AbortAll,
     AbortTasks, ReadError, FinalizeError, GoTo, Finalizing
<1>8. CASE \/ Shutdown \/ StatusServerStopped \/ LoadCounters \/ CountStatus \/ CountFailures \/ UpdateRunStats
           \/ ClosePool \/ CtrlC \/ UNCHANGED vars
  <2>1. main \in Finalizing /\ UNCHANGED pc
    BY <1>8 DEF Shutdown, StatusServerStopped, LoadCounters, CountStatus, CountFailures, UpdateRunStats,
       ClosePool, CtrlC, GoTo, OnlyMainMoves, vars, mainVars, taskVars, Finalizing
  <2> QED BY <1>3, <2>1
<1> QED
  BY <1>2, <1>4, <1>5, <1>6, <1>7, <1>8 DEF Next, MainStep, Terminated

LEMMA QuiescentAlways == Spec => [](TypeInv /\ Quiescent)
<1>1. Init => Quiescent
  BY DEF Init, Quiescent, Finalizing
<1> QED BY <1>1, TypeInit, TypeNext, QuiescentNext, PTL DEF Spec

LEMMA Frozen ==
  TypeInv /\ Quiescent /\ [Next]_vars /\ main \in Finalizing /\ ~aborted
    => UNCHANGED <<counters, rows, pc>>
<1> SUFFICES ASSUME TypeInv, Quiescent, [Next]_vars, main \in Finalizing, ~aborted
             PROVE  UNCHANGED <<counters, rows, pc>>
  OBVIOUS
<1>1. ASSUME NEW t \in Task, TaskStep(t) \/ Panic(t) \/ DropAborted(t) PROVE FALSE
  BY <1>1, TaskMoves DEF Quiescent
<1>2. ASSUME NEW t \in Task, Reap(t) \/ DrainJoin(t) PROVE FALSE
  BY <1>2 DEF Reap, DrainJoin, Finalizing
<1>3. ASSUME NEW u \in Url, RecordDrainTimeout(u) PROVE FALSE
  BY <1>3 DEF RecordDrainTimeout, Finalizing
<1>4. CASE \/ ReapDone \/ LeaveLoop \/ NextLine \/ ReturnErr \/ Spawn \/ DrainEmpty
           \/ DrainDeadline \/ AbortAll \/ ReadError
  BY <1>4 DEF ReapDone, LeaveLoop, NextLine, ReturnErr, Spawn, DrainEmpty,
     DrainDeadline, AbortAll, ReadError, Finalizing
<1>5. CASE \/ Shutdown \/ StatusServerStopped \/ LoadCounters \/ CountStatus \/ CountFailures \/ UpdateRunStats
           \/ ClosePool \/ CtrlC \/ FinalizeError \/ UNCHANGED vars
  BY <1>5 DEF Shutdown, StatusServerStopped, LoadCounters, CountStatus, CountFailures, UpdateRunStats,
     ClosePool, CtrlC, FinalizeError, OnlyMainMoves, vars, taskVars
<1> QED
  BY <1>1, <1>2, <1>3, <1>4, <1>5 DEF Next, MainStep, Terminated

\* The counts that finalize_scan reads one after the other are of one state: once a
\* run that drained in time finalizes, neither a counter nor a fact row moves.
THEOREM FinalCountsFrozen == Spec => FinalCountsAreFinal
<1>1. TypeInv /\ Quiescent /\ [Next]_vars
        => [(main \in Finalizing /\ ~aborted) => UNCHANGED <<counters, rows>>]_vars
  BY Frozen
<1> QED BY <1>1, QuiescentAlways, PTL DEF Spec, FinalCountsAreFinal
-----------------------------------------------------------------------------
(* Failure rows and the failure counter.                                   *)

\* A task in one of these states has not tried to insert its failure row.
NoRowYet == {"none", "spawned", "admit", "work", "inserted", "updated", "cancelling",
             "recording", "unwinding", "panicked", "joinError"}
RowOnce == \A t \in Task : pc[t] \in NoRowYet => taskRow[t] = "none"
Tried == {t \in Task : taskRow[t] # "none"}

LEMMA TriedType == Cardinality(Tried) \in Nat /\ Cardinality(Tried)' \in Nat
<1>1. Tried \in SUBSET Task /\ Tried' \in SUBSET Task
  BY DEF Tried
<1> QED BY <1>1, SubsetOfTaskFinite

\* An insert is written or lost; either way it was tried.
LEMMA InsertTries ==
  ASSUME TypeOK, NEW t \in Task, taskRow[t] = "none", InsertRow(taskRow, t)
  PROVE  Cardinality(Tried)' = Cardinality(Tried) + 1
<1>1. taskRow \in [Task -> RowState]
  BY DEF TypeOK
<1>2. \E v \in {"written", "lost"} : taskRow' = [taskRow EXCEPT ![t] = v]
  BY DEF InsertRow
<1>3. Tried' = Tried \cup {t} /\ t \notin Tried
  BY <1>1, <1>2 DEF Tried
<1>4. IsFiniteSet(Tried)
  <2>1. Tried \in SUBSET Task
    BY DEF Tried
  <2> QED BY <2>1, SubsetOfTaskFinite
<1> QED BY <1>3, <1>4, FS_AddElement

LEMMA RowOnceNext == TypeInv /\ RowOnce /\ [Next]_vars => RowOnce'
<1> SUFFICES ASSUME TypeInv, RowOnce, [Next]_vars PROVE RowOnce'
  OBVIOUS
<1>1. pc \in [Task -> TaskState] /\ taskRow \in [Task -> RowState]
  BY DEF TypeInv, TypeOK
<1>2. ASSUME UNCHANGED <<pc, taskRow>> PROVE RowOnce'
  BY <1>2 DEF RowOnce
<1>3. ASSUME NEW t \in Task, NEW v, pc' = [pc EXCEPT ![t] = v], UNCHANGED taskRow,
             v \in NoRowYet => pc[t] \in NoRowYet
      PROVE  RowOnce'
  BY <1>1, <1>3 DEF RowOnce
<1>4. ASSUME NEW t \in Task, NEW v, pc' = [pc EXCEPT ![t] = v], v \notin NoRowYet,
             InsertRow(taskRow, t)
      PROVE  RowOnce'
  <2>1. \A u \in Task \ {t} : taskRow'[u] = taskRow[u]
    BY <1>1, <1>4 DEF InsertRow
  <2> QED BY <1>1, <1>4, <2>1 DEF RowOnce
<1> USE DEF NoRowYet, Processing, Finished, Holding, Pending, taskVars, rows
<1>5. CASE Spawn
  <2>1. pos \in Task /\ pc[pos] = "none"
    BY <1>5 DEF Spawn, TypeInv, SpawnInv
  <2> QED BY <1>3, <1>5, <2>1 DEF Spawn
<1>6. ASSUME NEW t \in Task, Reap(t) \/ DrainJoin(t) PROVE RowOnce'
  <2>1. Join(t)
    BY <1>6 DEF Reap, DrainJoin
  <2>2. CASE pc[t] = "panicked"
    BY <1>3, <2>1, <2>2 DEF Join
  <2>3. CASE pc[t] = "done"
    BY <1>3, <2>1, <2>3 DEF Join
  <2> QED BY <2>1, <2>2, <2>3 DEF Join
<1>7. ASSUME NEW t \in Task, Start(t) \/ Admit(t) \/ StoreCore(t) \/ Cancelled(t) PROVE RowOnce'
  BY <1>3, <1>7 DEF Start, Admit, StoreCore, Cancelled
<1>8. ASSUME NEW t \in Task, HandleSuccess(t) \/ CountCancelled(t) PROVE RowOnce'
  BY <1>3, <1>8 DEF HandleSuccess, CountCancelled, Leave
<1>9. ASSUME NEW t \in Task, HandleFailure(t) \/ HandleTimeout(t) \/ Panic(t) PROVE RowOnce'
  BY <1>3, <1>9 DEF HandleFailure, HandleTimeout, CountFailure, Panic, Leave
<1>10. ASSUME NEW t \in Task, RecordFailure(t) \/ RecordCancelled(t) PROVE RowOnce'
  BY <1>4, <1>10 DEF RecordFailure, RecordCancelled, Leave
<1>11. ASSUME NEW t \in Task, DropGuard(t) PROVE RowOnce'
  <2>1. CASE pc[t] = "exiting"
    BY <1>3, <1>11, <2>1 DEF DropGuard
  <2>2. CASE pc[t] = "unwinding"
    BY <1>3, <1>11, <2>2 DEF DropGuard
  <2> QED BY <1>11, <2>1, <2>2 DEF DropGuard
<1>12. ASSUME NEW t \in Task, DropAborted(t) PROVE RowOnce'
  BY <1>3, <1>12 DEF DropAborted
<1>13. ASSUME NEW u \in Url, RecordDrainTimeout(u) PROVE RowOnce'
  BY <1>2, <1>13 DEF RecordDrainTimeout
<1>14. CASE \/ ReapDone \/ LeaveLoop \/ NextLine \/ ReturnErr \/ DrainEmpty
            \/ DrainDeadline \/ AbortAll \/ Shutdown \/ StatusServerStopped \/ LoadCounters \/ CountStatus
            \/ CountFailures \/ UpdateRunStats \/ ClosePool \/ CtrlC \/ ReadError
            \/ FinalizeError \/ UNCHANGED vars
  <2>1. UNCHANGED <<pc, taskRow>>
    BY <1>14 DEF ReapDone, LeaveLoop, NextLine, ReturnErr, DrainEmpty, DrainDeadline,
       AbortAll, Shutdown, StatusServerStopped, LoadCounters, CountStatus, CountFailures, UpdateRunStats,
       ClosePool, CtrlC, ReadError, FinalizeError, OnlyMainMoves, vars
  <2> QED BY <1>2, <2>1
<1> QED
  BY <1>5, <1>6, <1>7, <1>8, <1>9, <1>10, <1>11, <1>12, <1>13, <1>14
  DEF Next, MainStep, TaskStep, Terminated

LEMMA FailureRowNext ==
  TypeInv /\ RowOnce /\ FailureRowAccounting /\ [Next]_vars => FailureRowAccounting'
<1> DEFINE C == {"cancelRowed"}
           R == {"recording", "joinError"}
           c == Cardinality(In(C))
           c1 == Cardinality(In(C))'
           r == Cardinality(In(R))
           r1 == Cardinality(In(R))'
           w == Cardinality(Tried)
           w1 == Cardinality(Tried)'
           Goal == failed_urls' + c1 = w1 + r1
<1> SUFFICES ASSUME TypeInv, RowOnce, FailureRowAccounting, [Next]_vars, ~aborted'
             PROVE  Goal
  BY DEF FailureRowAccounting, Tried
<1>1. ~aborted
  BY AbortStays
<1>2. /\ failed_urls + c = w + r /\ failed_urls \in Nat
      /\ c \in Nat /\ c1 \in Nat /\ r \in Nat /\ r1 \in Nat /\ w \in Nat /\ w1 \in Nat
  BY <1>1, InType, TriedType DEF FailureRowAccounting, TypeInv, TypeOK, Tried
<1>3. ASSUME UNCHANGED taskRow PROVE w1 = w
  BY <1>3 DEF Tried
<1>4. TypeOK
  BY DEF TypeInv
<1> HIDE DEF C, R, c, c1, r, r1, w, w1
<1>5. ASSUME UNCHANGED <<pc, taskRow, failed_urls>> PROVE Goal
  <2>1. c1 = c /\ r1 = r
    BY <1>5 DEF c, c1, r, r1, In
  <2> QED BY <1>2, <1>3, <1>5, <2>1
<1>6. ASSUME NEW t \in Task, NEW v, pc' = [pc EXCEPT ![t] = v], UNCHANGED <<taskRow, failed_urls>>,
             (pc[t] \in C) <=> (v \in C), (pc[t] \in R) <=> (v \in R)
      PROVE  Goal
  <2>1. c1 = c
    BY <1>4, <1>6, MoveWithin DEF c, c1
  <2>2. r1 = r
    BY <1>4, <1>6, MoveWithin DEF r, r1
  <2> QED BY <1>2, <1>3, <1>6, <2>1, <2>2
<1>7. ASSUME NEW t \in Task, NEW v, pc' = [pc EXCEPT ![t] = v], UNCHANGED taskRow,
             failed_urls' = failed_urls + 1, pc[t] \notin C \cup R, v \in R
      PROVE  Goal
  <2>1. c1 = c
    <3>1. pc[t] \notin C /\ v \notin C
      BY <1>7 DEF C, R
    <3> QED BY <1>4, <1>7, <3>1, MoveWithin DEF c, c1
  <2>2. r1 = r + 1
    BY <1>4, <1>7, MoveIn DEF r, r1
  <2> QED BY <1>2, <1>3, <1>7, <2>1, <2>2
<1> USE DEF Processing, Finished, Holding, Pending, taskVars, rows, counters
<1> HIDE DEF Goal
<1>8. CASE Spawn
  <2>1. pos \in Task /\ pc[pos] = "none" /\ pc' = [pc EXCEPT ![pos] = "spawned"]
    BY <1>8 DEF Spawn, TypeInv, SpawnInv
  <2> QED BY <1>6, <1>8, <2>1 DEF Spawn, C, R
<1>9. ASSUME NEW t \in Task, Reap(t) \/ DrainJoin(t) PROVE Goal
  <2>1. Join(t)
    BY <1>9 DEF Reap, DrainJoin
  <2>2. CASE pc[t] = "panicked"
    BY <1>7, <2>1, <2>2 DEF Join, C, R
  <2>3. CASE pc[t] = "done"
    <3>1. failed_urls' = failed_urls /\ pc' = [pc EXCEPT ![t] = "joined"] /\ UNCHANGED taskRow
      BY <1>2, <2>1, <2>3 DEF Join
    <3> QED BY <1>6, <2>3, <3>1 DEF C, R
  <2> QED BY <2>1, <2>2, <2>3 DEF Join
<1>10. ASSUME NEW t \in Task, Start(t) \/ Admit(t) \/ StoreCore(t) \/ Cancelled(t) PROVE Goal
  BY <1>6, <1>10 DEF C, R, Start, Admit, StoreCore, Cancelled
<1>11. ASSUME NEW t \in Task, HandleSuccess(t) \/ Panic(t) PROVE Goal
  BY <1>6, <1>11 DEF C, R, HandleSuccess, Panic, Leave
<1>12. ASSUME NEW t \in Task, HandleFailure(t) \/ HandleTimeout(t) PROVE Goal
  BY <1>7, <1>12 DEF C, R, HandleFailure, HandleTimeout, CountFailure
<1>13. ASSUME NEW t \in Task, RecordFailure(t) PROVE Goal
  <2>1. /\ pc[t] = "recording" /\ pc' = [pc EXCEPT ![t] = "exiting"]
        /\ InsertRow(taskRow, t) /\ UNCHANGED failed_urls
    BY <1>13 DEF RecordFailure, Leave
  <2> "recording" \in R \ C /\ "exiting" \notin R \cup C
    BY DEF C, R
  <2>2. taskRow[t] = "none"
    BY <2>1 DEF RowOnce, NoRowYet
  <2>3. w1 = w + 1
    BY <1>4, <2>1, <2>2, InsertTries DEF w, w1
  <2>4. c1 = c
    BY <1>4, <2>1, MoveWithin DEF c, c1
  <2>5. r1 = r - 1
    BY <1>4, <2>1, MoveOut DEF r, r1
  <2> QED BY <1>2, <2>1, <2>3, <2>4, <2>5 DEF Goal
<1>14. ASSUME NEW t \in Task, RecordCancelled(t) PROVE Goal
  <2>1. /\ pc[t] = "cancelling" /\ pc' = [pc EXCEPT ![t] = "cancelRowed"]
        /\ InsertRow(taskRow, t) /\ UNCHANGED failed_urls
    BY <1>14 DEF RecordCancelled
  <2> "cancelling" \notin R \cup C /\ "cancelRowed" \in C \ R
    BY DEF C, R
  <2>2. taskRow[t] = "none"
    BY <2>1 DEF RowOnce, NoRowYet
  <2>3. w1 = w + 1
    BY <1>4, <2>1, <2>2, InsertTries DEF w, w1
  <2>4. c1 = c + 1
    BY <1>4, <2>1, MoveIn DEF c, c1
  <2>5. r1 = r
    BY <1>4, <2>1, MoveWithin DEF r, r1
  <2> QED BY <1>2, <2>1, <2>3, <2>4, <2>5 DEF Goal
<1>15. ASSUME NEW t \in Task, CountCancelled(t) PROVE Goal
  <2>1. /\ pc[t] = "cancelRowed" /\ pc' = [pc EXCEPT ![t] = "exiting"]
        /\ failed_urls' = failed_urls + 1 /\ UNCHANGED taskRow
    BY <1>15 DEF CountCancelled, Leave
  <2> "cancelRowed" \in C \ R /\ "exiting" \notin R \cup C
    BY DEF C, R
  <2>2. c1 = c - 1
    BY <1>4, <2>1, MoveOut DEF c, c1
  <2>3. r1 = r
    BY <1>4, <2>1, MoveWithin DEF r, r1
  <2> QED BY <1>2, <1>3, <2>1, <2>2, <2>3 DEF Goal
<1>16. ASSUME NEW t \in Task, DropGuard(t) PROVE Goal
  <2>1. CASE pc[t] = "exiting"
    BY <1>6, <1>16, <2>1 DEF DropGuard, C, R
  <2>2. CASE pc[t] = "unwinding"
    BY <1>6, <1>16, <2>2 DEF DropGuard, C, R
  <2> QED BY <1>16, <2>1, <2>2 DEF DropGuard
<1>17. ASSUME NEW t \in Task, DropAborted(t) PROVE Goal
  BY <1>1, <1>17 DEF DropAborted
<1>18. CASE AbortAll \/ ReturnErr
  BY <1>18 DEF AbortAll, ReturnErr, AbortTasks
<1>19. ASSUME NEW u \in Url, RecordDrainTimeout(u) PROVE Goal
  BY <1>5, <1>19 DEF RecordDrainTimeout
<1>20. CASE \/ ReapDone \/ LeaveLoop \/ NextLine \/ DrainEmpty \/ DrainDeadline \/ Shutdown
            \/ StatusServerStopped
            \/ LoadCounters \/ CountStatus \/ CountFailures \/ UpdateRunStats
            \/ ClosePool \/ CtrlC \/ ReadError \/ FinalizeError \/ UNCHANGED vars
  <2>1. UNCHANGED <<pc, taskRow, failed_urls>>
    BY <1>20 DEF ReapDone, LeaveLoop, NextLine, skip_url, DrainEmpty, DrainDeadline,
       Shutdown, StatusServerStopped, LoadCounters, CountStatus, CountFailures, UpdateRunStats, ClosePool,
       CtrlC, ReadError, FinalizeError, OnlyMainMoves, vars
  <2> QED BY <1>5, <2>1
<1> QED
  BY <1>8, <1>9, <1>10, <1>11, <1>12, <1>13, <1>14, <1>15, <1>16, <1>17, <1>18, <1>19, <1>20
  DEF Next, MainStep, TaskStep, Terminated
-----------------------------------------------------------------------------
(* Fact rows and the success counter.                                      *)

Clean == ~aborted /\ ~cancel /\ failed_urls = 0 /\ panics = 0

\* None of what can spoil a run is taken back.
LEMMA CleanBefore == TypeInv /\ [Next]_vars /\ Clean' => Clean
<1> SUFFICES ASSUME TypeInv, [Next]_vars, Clean' PROVE Clean
  OBVIOUS
<1>1. ~aborted
  BY AbortStays DEF Clean
<1>2. failed_urls \in Nat /\ panics \in Nat /\ cancel \in BOOLEAN
  BY BoundsAssumption DEF TypeInv, TypeOK
<1> USE DEF Clean, counters, faults, taskVars
<1>3. ASSUME NEW t \in Task, Reap(t) \/ DrainJoin(t) PROVE Clean
  BY <1>1, <1>2, <1>3 DEF Reap, DrainJoin, Join
<1>4. ASSUME NEW t \in Task, TaskStep(t) \/ Panic(t) \/ DropAborted(t) PROVE Clean
  BY <1>1, <1>2, <1>4 DEF TaskStep, Start, Admit, StoreCore, Cancelled, HandleSuccess,
     HandleFailure, HandleTimeout, CountFailure, RecordFailure, RecordCancelled,
     CountCancelled, DropGuard, Panic, DropAborted
<1>5. ASSUME NEW u \in Url, RecordDrainTimeout(u) PROVE Clean
  BY <1>1, <1>5 DEF RecordDrainTimeout
<1>6. CASE AbortAll \/ ReturnErr
  BY <1>6 DEF AbortAll, ReturnErr, AbortTasks
<1>7. CASE \/ ReapDone \/ LeaveLoop \/ NextLine \/ Spawn \/ DrainEmpty \/ DrainDeadline
           \/ Shutdown \/ StatusServerStopped \/ LoadCounters \/ CountStatus \/ CountFailures \/ UpdateRunStats
           \/ ClosePool \/ CtrlC \/ ReadError \/ FinalizeError \/ UNCHANGED vars
  BY <1>1, <1>2, <1>7 DEF ReapDone, LeaveLoop, NextLine, skip_url, Spawn, DrainEmpty,
     DrainDeadline, Shutdown, StatusServerStopped, LoadCounters, CountStatus, CountFailures, UpdateRunStats,
     ClosePool, CtrlC, ReadError, FinalizeError, OnlyMainMoves, vars
<1> QED
  BY <1>3, <1>4, <1>5, <1>6, <1>7 DEF Next, MainStep, Terminated

LEMMA StatusRowNext == TypeInv /\ StatusRowAccounting /\ [Next]_vars => StatusRowAccounting'
<1> DEFINE I == {"inserted"}
           i == Cardinality(In(I))
           i1 == Cardinality(In(I))'
           d == Cardinality(url_status)
           d1 == Cardinality(url_status)'
           Goal == successful_urls' + i1 <= d1 /\ (Clean' => successful_urls' + i1 = d1)
<1> SUFFICES ASSUME TypeInv, StatusRowAccounting, [Next]_vars PROVE Goal
  BY DEF StatusRowAccounting, Clean
<1>1. TypeOK /\ TypeOK'
  BY TypeNext DEF TypeInv
<1>2. /\ successful_urls + i <= d /\ (Clean => successful_urls + i = d)
      /\ successful_urls \in Nat /\ i \in Nat /\ i1 \in Nat /\ d \in Nat /\ d1 \in Nat
  <2>1. d \in Nat /\ d1 \in Nat
    BY <1>1, DomainAssumption, FS_Subset, FS_CardinalityType DEF TypeOK
  <2> QED BY <1>1, <2>1, InType DEF StatusRowAccounting, Clean, TypeOK
<1>3. Clean' => Clean
  BY CleanBefore
<1>4. url_status' = url_status => d1 = d
  OBVIOUS
<1> HIDE DEF I, i, i1, d, d1
<1>5. ASSUME UNCHANGED <<pc, url_status, successful_urls>> PROVE Goal
  <2>1. i1 = i
    BY <1>5 DEF i, i1, In
  <2> QED BY <1>2, <1>3, <1>4, <1>5, <2>1
<1>6. ASSUME NEW t \in Task, NEW v, pc' = [pc EXCEPT ![t] = v],
             UNCHANGED <<url_status, successful_urls>>, v # "inserted",
             pc[t] = "inserted" => ~Clean'
      PROVE  Goal
  <2>1. CASE pc[t] = "inserted"
    <3>1. pc[t] \in I /\ v \notin I
      BY <1>6, <2>1 DEF I
    <3>2. i1 = i - 1
      BY <1>1, <1>6, <3>1, MoveOut DEF i, i1
    <3> QED BY <1>2, <1>4, <1>6, <2>1, <3>2
  <2>2. CASE pc[t] # "inserted"
    <3>1. pc[t] \notin I /\ v \notin I
      BY <1>6, <2>2 DEF I
    <3>2. i1 = i
      BY <1>1, <1>6, <3>1, MoveWithin DEF i, i1
    <3> QED BY <1>2, <1>3, <1>4, <1>6, <3>2
  <2> QED BY <2>1, <2>2
<1> HIDE DEF Goal
<1>7. CASE Spawn
  <2>1. pos \in Task /\ pc[pos] = "none" /\ pc' = [pc EXCEPT ![pos] = "spawned"]
    BY <1>7 DEF Spawn, TypeInv, SpawnInv
  <2> QED BY <1>6, <1>7, <2>1 DEF Spawn, rows
<1>8. ASSUME NEW t \in Task, Reap(t) \/ DrainJoin(t) PROVE Goal
  BY <1>6, <1>8 DEF Reap, DrainJoin, Join, Finished, rows
<1>9. ASSUME NEW t \in Task, Start(t) \/ Admit(t) PROVE Goal
  BY <1>6, <1>9 DEF Start, Admit, rows, counters
<1>10. ASSUME NEW t \in Task, StoreCore(t) PROVE Goal
  <2>1. pc[t] = "work" /\ UNCHANGED successful_urls
    BY <1>10 DEF StoreCore, counters
  <2>2. CASE DomainOf[input[t]] \in url_status
    <3>1. pc' = [pc EXCEPT ![t] = "updated"] /\ url_status' = url_status
      BY <1>10, <2>2 DEF StoreCore
    <3> QED BY <1>6, <2>1, <3>1
  <2>3. CASE DomainOf[input[t]] \notin url_status
    <3>1. pc' = [pc EXCEPT ![t] = "inserted"] /\ url_status' = url_status \cup {DomainOf[input[t]]}
      BY <1>10, <2>3 DEF StoreCore
    <3>2. d1 = d + 1
      <4>1. IsFiniteSet(url_status)
        BY <1>1, DomainAssumption, FS_Subset DEF TypeOK
      <4> QED BY <2>3, <3>1, <4>1, FS_AddElement DEF d, d1
    <3>3. pc[t] \notin I /\ "inserted" \in I
      BY <2>1 DEF I
    <3>4. i1 = i + 1
      BY <1>1, <3>1, <3>3, MoveIn DEF i, i1
    <3> QED BY <1>2, <1>3, <2>1, <3>2, <3>4 DEF Goal
  <2> QED BY <2>2, <2>3
<1>11. ASSUME NEW t \in Task, HandleSuccess(t) PROVE Goal
  <2>1. pc' = [pc EXCEPT ![t] = "exiting"] /\ url_status' = url_status
    BY <1>11 DEF HandleSuccess, Leave, rows
  <2>2. CASE pc[t] = "inserted"
    <3>1. successful_urls' = successful_urls + 1
      BY <1>11, <2>2 DEF HandleSuccess
    <3>2. pc[t] \in I /\ "exiting" \notin I
      BY <2>2 DEF I
    <3>3. i1 = i - 1
      BY <1>1, <2>1, <3>2, MoveOut DEF i, i1
    <3> QED BY <1>2, <1>3, <1>4, <2>1, <3>1, <3>3 DEF Goal
  <2>3. CASE pc[t] # "inserted"
    <3>1. UNCHANGED successful_urls
      BY <1>11, <2>3 DEF HandleSuccess
    <3> QED BY <1>6, <2>1, <2>3, <3>1
  <2> QED BY <2>2, <2>3
<1>12. ASSUME NEW t \in Task, Cancelled(t) PROVE Goal
  BY <1>6, <1>12 DEF Cancelled, Clean, rows, counters
<1>13. ASSUME NEW t \in Task, HandleFailure(t) \/ HandleTimeout(t) PROVE Goal
  <2>1. /\ pc' = [pc EXCEPT ![t] = "recording"] /\ failed_urls' = failed_urls + 1
        /\ UNCHANGED <<url_status, successful_urls>>
    BY <1>13 DEF HandleFailure, HandleTimeout, CountFailure, rows
  <2>2. ~Clean'
    BY <1>1, <2>1 DEF Clean, TypeOK
  <2> QED BY <1>6, <2>1, <2>2
<1>14. ASSUME NEW t \in Task, RecordFailure(t) \/ RecordCancelled(t) \/ CountCancelled(t) PROVE Goal
  BY <1>6, <1>14 DEF RecordFailure, RecordCancelled, CountCancelled, Leave, rows, counters
<1>15. ASSUME NEW t \in Task, Panic(t) PROVE Goal
  <2>1. /\ pc' = [pc EXCEPT ![t] = "unwinding"] /\ panics' = panics + 1
        /\ UNCHANGED <<url_status, successful_urls>>
    BY <1>15 DEF Panic, Leave, rows, counters
  <2>2. ~Clean'
    BY <1>1, <2>1, BoundsAssumption DEF Clean, TypeOK
  <2> QED BY <1>6, <2>1, <2>2
<1>16. ASSUME NEW t \in Task, DropGuard(t) PROVE Goal
  BY <1>6, <1>16 DEF DropGuard, rows, counters
<1>17. ASSUME NEW t \in Task, DropAborted(t) PROVE Goal
  <2>1. ~Clean'
    BY <1>17 DEF DropAborted, Clean, drainVars
  <2> QED BY <1>6, <1>17, <2>1 DEF DropAborted, rows, counters
<1>18. ASSUME NEW u \in Url, RecordDrainTimeout(u) PROVE Goal
  BY <1>5, <1>18 DEF RecordDrainTimeout, taskVars, counters
<1>19. CASE \/ ReapDone \/ LeaveLoop \/ NextLine \/ ReturnErr \/ DrainEmpty
            \/ DrainDeadline \/ AbortAll \/ Shutdown \/ StatusServerStopped \/ LoadCounters \/ CountStatus
            \/ CountFailures \/ UpdateRunStats \/ ClosePool \/ CtrlC \/ ReadError
            \/ FinalizeError \/ UNCHANGED vars
  <2>1. UNCHANGED <<pc, url_status, successful_urls>>
    BY <1>19 DEF ReapDone, LeaveLoop, NextLine, skip_url, ReturnErr, DrainEmpty,
       DrainDeadline, AbortAll, Shutdown, StatusServerStopped, LoadCounters, CountStatus, CountFailures,
       UpdateRunStats, ClosePool, CtrlC, ReadError, FinalizeError, OnlyMainMoves, vars,
       taskVars, rows, counters
  <2> QED BY <1>5, <2>1
<1> QED
  BY <1>7, <1>8, <1>9, <1>10, <1>11, <1>12, <1>13, <1>14, <1>15, <1>16, <1>17, <1>18, <1>19
  DEF Next, MainStep, TaskStep, Terminated
-----------------------------------------------------------------------------
(* The rows of the drain phase: none before the deadline, one per abandoned *)
(* URL behind it, the ones still to be recorded left out.                   *)

Written == {u \in Url : drainRow[u] = "written"}
DrainInv ==
    /\ main \in {"reap", "select", "permit", "drain", "shutdownErr", "returnErr"} => abandoned = {} /\ Written = {}
    /\ main = "drainRows" /\ dbErrors = 0 => Written = abandoned \ toRecord
    /\ main \in {"abort"} \cup Finalizing /\ dbErrors = 0 => Written = abandoned

LEMMA DrainNext == TypeInv /\ DrainInv /\ [Next]_vars => DrainInv'
<1> SUFFICES ASSUME TypeInv, DrainInv, [Next]_vars PROVE DrainInv'
  OBVIOUS
<1>1. /\ drainRow \in [Url -> RowState] /\ abandoned \subseteq Url /\ toRecord \subseteq abandoned
      /\ in_flight_urls \subseteq Url /\ dbErrors \in Nat
  BY BoundsAssumption DEF TypeInv, TypeOK
<1>2. ASSUME UNCHANGED <<main, abandoned, toRecord, drainRow>>, dbErrors' = 0 => dbErrors = 0
      PROVE  DrainInv'
  BY <1>2 DEF DrainInv, Written
<1>3. ASSUME UNCHANGED <<abandoned, drainRow, dbErrors>>,
             \/ /\ main \in {"reap", "select", "permit", "drain", "shutdownErr", "returnErr"}
                /\ main' \in {"reap", "select", "permit", "drain", "shutdownErr", "returnErr", "errored"}
                              \cup Finalizing
             \/ main \in {"abort"} \cup Finalizing /\ main' \in Finalizing \cup {"errored"}
      PROVE  DrainInv'
  BY <1>3 DEF DrainInv, Written, Finalizing
<1> USE DEF GoTo, OnlyMainMoves, rows, faults, drainVars, mainVars, Finalizing
<1>4. CASE DrainDeadline
  <2>1. abandoned' = in_flight_urls /\ toRecord' = in_flight_urls /\ Written' = {}
    BY <1>4 DEF DrainDeadline, DrainInv, Written
  <2>2. main' = IF in_flight_urls = {} THEN "abort" ELSE "drainRows"
    BY <1>4 DEF DrainDeadline
  <2> QED BY <2>1, <2>2 DEF DrainInv
<1>5. ASSUME NEW u \in Url, RecordDrainTimeout(u) PROVE DrainInv'
  <2>1. /\ main = "drainRows" /\ u \in toRecord /\ abandoned' = abandoned
        /\ toRecord' = toRecord \ {u} /\ InsertRow(drainRow, u)
        /\ main' = IF toRecord' = {} THEN "abort" ELSE "drainRows"
    BY <1>5 DEF RecordDrainTimeout
  <2>2. ~PoolClosed
    BY <2>1 DEF PoolClosed
  <2>3. ASSUME dbErrors' = 0 PROVE Written' = abandoned' \ toRecord'
    <3>1. dbErrors = 0 /\ drainRow' = [drainRow EXCEPT ![u] = "written"]
      BY <1>1, <2>1, <2>2, <2>3 DEF InsertRow
    <3>2. Written' = Written \cup {u}
      BY <1>1, <3>1 DEF Written
    <3>3. Written = abandoned \ toRecord
      BY <2>1, <3>1 DEF DrainInv
    <3> QED BY <1>1, <2>1, <3>2, <3>3
  <2> QED BY <2>1, <2>3 DEF DrainInv
<1>6. ASSUME NEW t \in Task, Reap(t) \/ DrainJoin(t) PROVE DrainInv'
  BY <1>2, <1>6 DEF Reap, DrainJoin, Join
<1>7. ASSUME NEW t \in Task, TaskStep(t) \/ Panic(t) \/ DropAborted(t) PROVE DrainInv'
  <2>1. UNCHANGED <<main, abandoned, toRecord, drainRow>>
    BY <1>7 DEF TaskStep, Start, Admit, StoreCore, Cancelled, HandleSuccess, HandleFailure,
       HandleTimeout, CountFailure, RecordFailure, RecordCancelled, CountCancelled,
       DropGuard, Panic, DropAborted, Polled
  <2>2. dbErrors' = 0 => dbErrors = 0
    BY <1>1, <1>7 DEF TaskStep, Start, Admit, StoreCore, Cancelled, HandleSuccess,
       HandleFailure, HandleTimeout, CountFailure, RecordFailure, RecordCancelled,
       CountCancelled, DropGuard, Panic, DropAborted, InsertRow
  <2> QED BY <1>2, <2>1, <2>2
<1>8. CASE \/ ReapDone \/ LeaveLoop \/ NextLine \/ Spawn \/ DrainEmpty \/ ReadError
  BY <1>3, <1>8 DEF ReapDone, LeaveLoop, NextLine, Spawn, DrainEmpty, ReadError
<1>9. CASE ReturnErr \/ AbortAll
  BY <1>3, <1>9 DEF ReturnErr, AbortAll
<1>10. CASE \/ Shutdown \/ StatusServerStopped \/ LoadCounters \/ CountStatus \/ CountFailures \/ UpdateRunStats
            \/ ClosePool
  BY <1>3, <1>10 DEF Shutdown, StatusServerStopped, LoadCounters, CountStatus, CountFailures, UpdateRunStats,
     ClosePool
<1>11. CASE FinalizeError
  BY <1>11 DEF FinalizeError, DrainInv
<1>12. CASE CtrlC \/ UNCHANGED vars
  BY <1>2, <1>12 DEF CtrlC, vars
<1> QED
  BY <1>4, <1>5, <1>6, <1>7, <1>8, <1>9, <1>10, <1>11, <1>12 DEF Next, MainStep, Terminated

-----------------------------------------------------------------------------
(* What a run without database errors and panics does not have.            *)

FaultInv ==
    /\ panics = 0 => \A t \in Task : pc[t] \notin {"unwinding", "panicked", "joinError"}
    /\ dbErrors = 0 /\ main # "done" => \A t \in Task : taskRow[t] # "lost"

LEMMA FaultNext == TypeInv /\ FaultInv /\ [Next]_vars => FaultInv'
<1> SUFFICES ASSUME TypeInv, FaultInv, [Next]_vars PROVE FaultInv'
  OBVIOUS
<1>1. /\ pc \in [Task -> TaskState] /\ taskRow \in [Task -> RowState]
      /\ panics \in Nat /\ dbErrors \in Nat
  BY BoundsAssumption DEF TypeInv, TypeOK
<1>2. ASSUME UNCHANGED <<pc, taskRow>>, panics' = panics, dbErrors' = 0 => dbErrors = 0,
             main' # "done" => main # "done"
      PROVE  FaultInv'
  BY <1>2 DEF FaultInv
<1>3. ASSUME NEW t \in Task, NEW v, pc' = [pc EXCEPT ![t] = v], UNCHANGED <<taskRow, dbErrors>>,
             main' = main, panics' = panics,
             v \in {"unwinding", "panicked", "joinError"}
               => pc[t] \in {"unwinding", "panicked", "joinError"}
      PROVE  FaultInv'
  BY <1>1, <1>3 DEF FaultInv
<1>4. ASSUME NEW t \in Task, NEW v, pc' = [pc EXCEPT ![t] = v], InsertRow(taskRow, t),
             main' = main, panics' = panics, v \in {"exiting", "cancelRowed"}
      PROVE  FaultInv'
  <2>1. dbErrors' = 0 /\ main' # "done" =>
          dbErrors = 0 /\ main # "done" /\ taskRow' = [taskRow EXCEPT ![t] = "written"]
    BY <1>1, <1>4 DEF InsertRow, PoolClosed
  <2> QED BY <1>1, <1>4, <2>1 DEF FaultInv
<1> USE DEF GoTo, OnlyMainMoves, rows, faults, taskVars, mainVars, Finished, Processing
<1>5. CASE Spawn
  <2>1. pos \in Task /\ pc' = [pc EXCEPT ![pos] = "spawned"] /\ UNCHANGED <<taskRow, dbErrors, panics>>
    BY <1>5 DEF Spawn, TypeInv, SpawnInv
  <2>2. main = "permit" /\ main' = "reap"
    BY <1>5 DEF Spawn
  <2> QED BY <1>1, <2>1, <2>2 DEF FaultInv
<1>6. ASSUME NEW t \in Task, Reap(t) \/ DrainJoin(t) PROVE FaultInv'
  <2>1. Join(t)
    BY <1>6 DEF Reap, DrainJoin
  <2>2. CASE pc[t] = "panicked"
    BY <1>3, <2>1, <2>2 DEF Join
  <2>3. CASE pc[t] = "done"
    BY <1>3, <2>1, <2>3 DEF Join
  <2> QED BY <2>1, <2>2, <2>3 DEF Join
<1>7. ASSUME NEW t \in Task, Start(t) \/ Admit(t) \/ StoreCore(t) \/ Cancelled(t) PROVE FaultInv'
  BY <1>3, <1>7 DEF Start, Admit, StoreCore, Cancelled
<1>8. ASSUME NEW t \in Task, HandleSuccess(t) \/ CountCancelled(t) PROVE FaultInv'
  BY <1>3, <1>8 DEF HandleSuccess, CountCancelled, Leave
<1>9. ASSUME NEW t \in Task, HandleFailure(t) \/ HandleTimeout(t) \/ DropAborted(t) PROVE FaultInv'
  BY <1>3, <1>9 DEF HandleFailure, HandleTimeout, CountFailure, DropAborted
<1>10. ASSUME NEW t \in Task, RecordFailure(t) \/ RecordCancelled(t) PROVE FaultInv'
  BY <1>4, <1>10 DEF RecordFailure, RecordCancelled, Leave
<1>11. ASSUME NEW t \in Task, DropGuard(t) PROVE FaultInv'
  <2>1. CASE pc[t] = "exiting"
    BY <1>3, <1>11, <2>1 DEF DropGuard
  <2>2. CASE pc[t] = "unwinding"
    BY <1>3, <1>11, <2>2 DEF DropGuard
  <2> QED BY <1>11, <2>1, <2>2 DEF DropGuard
<1>12. ASSUME NEW t \in Task, Panic(t) PROVE FaultInv'
  BY <1>1, <1>12 DEF Panic, FaultInv
<1>13. ASSUME NEW u \in Url, RecordDrainTimeout(u) PROVE FaultInv'
  BY <1>1, <1>2, <1>13 DEF RecordDrainTimeout, InsertRow
<1>14. CASE FinalizeError
  BY <1>1, <1>2, <1>14 DEF FinalizeError
<1>15. CASE \/ ReapDone \/ LeaveLoop \/ NextLine \/ ReturnErr \/ DrainEmpty
            \/ DrainDeadline \/ AbortAll \/ Shutdown \/ StatusServerStopped \/ LoadCounters \/ CountStatus
            \/ CountFailures \/ UpdateRunStats \/ ClosePool \/ CtrlC \/ ReadError
            \/ UNCHANGED vars
  <2>1. UNCHANGED <<pc, taskRow, panics, dbErrors>>
    BY <1>15 DEF ReapDone, LeaveLoop, NextLine, ReturnErr, DrainEmpty, DrainDeadline,
       AbortAll, Shutdown, StatusServerStopped, LoadCounters, CountStatus, CountFailures, UpdateRunStats,
       ClosePool, CtrlC, ReadError, vars
  <2>2. main' # "done" => main # "done"
    BY <1>15 DEF ReapDone, LeaveLoop, NextLine, ReturnErr, DrainEmpty, DrainDeadline,
       AbortAll, Shutdown, StatusServerStopped, LoadCounters, CountStatus, CountFailures, UpdateRunStats,
       ClosePool, CtrlC, ReadError, vars
  <2> QED BY <1>2, <2>1, <2>2
<1> QED
  BY <1>5, <1>6, <1>7, <1>8, <1>9, <1>10, <1>11, <1>12, <1>13, <1>14, <1>15
  DEF Next, MainStep, TaskStep, Terminated
-----------------------------------------------------------------------------
(* The report, column by column as finalize_scan fills it.                 *)

AfterLoad == {"countStatus", "countFailures", "persist", "close", "done"}
ReportInv ==
    ~aborted /\ dbErrors = 0 /\ panics = 0 =>
        /\ main \in AfterLoad =>
             report["total"] = total_urls_attempted /\ report["skipped"] = skipped_urls
        /\ main \in AfterLoad \ {"countStatus"} => report["successful"] = Cardinality(url_status)
        /\ main \in {"persist", "close", "done"} => failed_urls <= report["failed"]

\* The strengthening under which the accounting of rows is inductive.
RowInv == /\ TypeInv /\ Quiescent /\ CounterPartition /\ RowOnce /\ FailureRowAccounting
          /\ StatusRowAccounting /\ DrainInv /\ FaultInv /\ ReportInv

\* Once nothing runs, every counted failure is an inserted row.
LEMMA RowsCoverFailures ==
  ASSUME RowInv, main = "countFailures", ~aborted, dbErrors = 0, panics = 0
  PROVE  failed_urls <= url_failures
<1>1. \A t \in Task : pc[t] \notin {"cancelRowed", "recording", "joinError"} /\ taskRow[t] # "lost"
  BY DEF RowInv, Quiescent, FaultInv, Finalizing, Joinable, Guarded, Holding, Pending
<1>2. In({"cancelRowed"}) = {} /\ In({"recording", "joinError"}) = {}
  BY <1>1 DEF In
<1>3. Tried = {t \in Task : taskRow[t] = "written"}
  BY <1>1 DEF RowInv, TypeInv, TypeOK, RowState, Tried
<1>4. failed_urls = Cardinality(Tried)
  <2>1. failed_urls \in Nat /\ Cardinality(Tried) \in Nat
    BY TriedType DEF RowInv, TypeInv, TypeOK
  <2>2. failed_urls + Cardinality(In({"cancelRowed"})) =
          Cardinality(Tried) + Cardinality(In({"recording", "joinError"}))
    BY DEF RowInv, FailureRowAccounting, Tried
  <2> QED BY <1>2, <2>1, <2>2, FS_EmptySet
<1>5. Cardinality(Tried) \in Nat /\ Cardinality(Written) \in Nat
  <2>1. Written \in SUBSET Url
    BY DEF Written
  <2> QED BY <2>1, TriedType, UrlAssumption, FS_Subset, FS_CardinalityType
<1>6. url_failures = Cardinality(Tried) + Cardinality(Written)
  BY <1>3 DEF url_failures, Written
<1> QED BY <1>4, <1>5, <1>6

LEMMA ReportNext == RowInv /\ [Next]_vars => ReportInv'
<1> SUFFICES ASSUME RowInv, [Next]_vars, ~aborted', dbErrors' = 0, panics' = 0, main' \in AfterLoad
             PROVE  /\ report'["total"] = total_urls_attempted' /\ report'["skipped"] = skipped_urls'
                    /\ main' # "countStatus" => report'["successful"] = Cardinality(url_status)'
                    /\ main' \in {"persist", "close", "done"} => failed_urls' <= report'["failed"]
  BY DEF ReportInv, AfterLoad
<1> USE DEF RowInv
<1>1. ~aborted
  BY AbortStays
<1>2. main \in Finalizing /\ (main \in AfterLoad \/ (main = "load" /\ LoadCounters))
  <2>1. ASSUME NEW t \in Task, TaskStep(t) \/ Panic(t) \/ DropAborted(t) PROVE main \in AfterLoad
    BY <2>1, TaskMoves
  <2>2. ASSUME NEW t \in Task, Reap(t) \/ DrainJoin(t) PROVE FALSE
    BY <2>2 DEF Reap, DrainJoin, Join, mainVars, AfterLoad
  <2>3. ASSUME NEW u \in Url, RecordDrainTimeout(u) PROVE FALSE
    BY <2>3 DEF RecordDrainTimeout, GoTo, AfterLoad
  <2>4. main \in AfterLoad \/ (main = "load" /\ LoadCounters)
    BY <2>1, <2>2, <2>3 DEF Next, MainStep, Terminated, ReapDone, LeaveLoop, NextLine,
       ReturnErr, Spawn, DrainEmpty, DrainDeadline, AbortAll, ReadError, FinalizeError,
       Shutdown, StatusServerStopped, LoadCounters, CountStatus, CountFailures, UpdateRunStats, ClosePool, CtrlC,
       GoTo, vars, mainVars, AfterLoad
  <2> QED BY <2>4 DEF AfterLoad, Finalizing
<1>3. UNCHANGED <<counters, rows, pc>>
  BY <1>1, <1>2, Frozen
<1>4. \A t \in Task : ~(TaskStep(t) \/ Panic(t) \/ DropAborted(t)) /\ ~Reap(t) /\ ~DrainJoin(t)
  BY <1>1, <1>2, TaskMoves DEF Quiescent, Reap, DrainJoin, Finalizing
<1>5. dbErrors = 0 /\ panics = 0
  <2>1. dbErrors \in Nat /\ panics \in Nat
    BY BoundsAssumption DEF TypeInv, TypeOK
  <2>2. ~FinalizeError
    BY <2>1 DEF FinalizeError
  <2>3. UNCHANGED <<dbErrors, panics>>
    BY <1>2, <1>4, <2>2 DEF Next, MainStep, Terminated, ReapDone, LeaveLoop, NextLine,
       ReturnErr, Spawn, DrainEmpty, DrainDeadline, AbortAll, ReadError, RecordDrainTimeout,
       Shutdown, StatusServerStopped, LoadCounters, CountStatus, CountFailures, UpdateRunStats, ClosePool, CtrlC,
       OnlyMainMoves, vars, faults, Finalizing
  <2> QED BY <2>3
<1>6. report \in [Reported -> Nat] /\ failed_urls \in Nat
  BY DEF TypeInv, TypeOK
<1> USE DEF counters, rows, GoTo, Reported
<1>7. CASE LoadCounters
  BY <1>3, <1>6, <1>7 DEF LoadCounters
<1>8. CASE CountStatus
  BY <1>1, <1>3, <1>5, <1>6, <1>8 DEF CountStatus, ReportInv, AfterLoad
<1>9. CASE CountFailures
  <2>1. failed_urls <= url_failures
    BY <1>1, <1>5, <1>9, RowsCoverFailures DEF CountFailures
  <2> QED BY <1>1, <1>3, <1>5, <1>6, <1>9, <2>1 DEF CountFailures, ReportInv, AfterLoad
<1>10. CASE UpdateRunStats \/ ClosePool \/ CtrlC \/ UNCHANGED vars
  <2>1. UNCHANGED report /\ (main' \in {"persist", "close", "done"} => main \in {"persist", "close", "done"})
        /\ main \in AfterLoad /\ (main' # "countStatus" => main # "countStatus")
    BY <1>2, <1>10 DEF UpdateRunStats, ClosePool, CtrlC, OnlyMainMoves, vars, mainVars,
       AfterLoad, LoadCounters
  <2> QED BY <1>1, <1>3, <1>5, <2>1 DEF ReportInv
<1> QED
  BY <1>2, <1>4, <1>7, <1>8, <1>9, <1>10 DEF Next, MainStep, Terminated, ReapDone, LeaveLoop,
     NextLine, ReturnErr, Spawn, DrainEmpty, DrainDeadline, AbortAll, RecordDrainTimeout,
     Shutdown, StatusServerStopped, ReadError, FinalizeError, Finalizing, AfterLoad

LEMMA RowInit == Init => RowInv
<1> SUFFICES ASSUME Init PROVE RowInv
  OBVIOUS
<1>1. In(Uncounted) = {} /\ In({"cancelRowed"}) = {} /\ In({"recording", "joinError"}) = {}
      /\ In({"inserted"}) = {}
  BY DEF Init, In, Uncounted, Pending
<1>2. Tried = {} /\ Written = {}
  BY DEF Init, Tried, Written
<1>3. CounterPartition /\ FailureRowAccounting /\ StatusRowAccounting
  BY <1>1, <1>2, FS_EmptySet DEF Init, CounterPartition, FailureRowAccounting,
     StatusRowAccounting, Tried
<1>4. Quiescent /\ RowOnce /\ DrainInv /\ FaultInv /\ ReportInv
  BY <1>2 DEF Init, Quiescent, RowOnce, DrainInv, FaultInv, ReportInv, Finalizing, AfterLoad
<1> QED BY <1>3, <1>4, TypeInit DEF RowInv

\* Counters and fact rows stay accounted for by one another: every counted failure is a
\* row, an insert that failed, or a panic; every success is a row of url_status; the
\* drain phase writes what it counts; and a run that drained in time reports at least as
\* many results as attempts (run/task.rs, run/mod.rs, run/finalize.rs), for every input
\* and every interleaving.
THEOREM RowsAccounted == Spec => []RowAccounting
<1>1. RowInv /\ [Next]_vars => RowInv'
  <2> SUFFICES ASSUME RowInv, [Next]_vars PROVE RowInv'
    OBVIOUS
  <2>1. TypeInv' /\ Quiescent' /\ CounterPartition' /\ RowOnce'
    BY TypeNext, QuiescentNext, CounterNext, RowOnceNext DEF RowInv
  <2>2. FailureRowAccounting' /\ StatusRowAccounting' /\ DrainInv' /\ FaultInv'
    BY FailureRowNext, StatusRowNext, DrainNext, FaultNext DEF RowInv
  <2> QED BY <2>1, <2>2, ReportNext DEF RowInv
<1>2. RowInv => RowAccounting
  <2> SUFFICES ASSUME RowInv PROVE RowAccounting
    OBVIOUS
  <2>1. DrainRowAccounting
    BY DEF RowInv, DrainInv, DrainRowAccounting, Written
  <2>2. ReportCoversAttempts
    <3> SUFFICES ASSUME main = "done", ~aborted, dbErrors = 0, panics = 0
                 PROVE  report["total"] <= report["successful"] + report["failed"] + report["skipped"]
      BY DEF ReportCoversAttempts
    <3>1. In(Uncounted) = {}
      BY DEF RowInv, Quiescent, In, Finalizing, Joinable, Guarded, Holding, Uncounted,
         Pending, Finished
    <3>2. total_urls_attempted = successful_urls + failed_urls + skipped_urls + 0
      BY <3>1, FS_EmptySet DEF RowInv, CounterPartition
    <3>3. successful_urls <= Cardinality(url_status)
      <4>1. Cardinality(In({"inserted"})) \in Nat /\ successful_urls \in Nat /\ Cardinality(url_status) \in Nat
        BY InType, RowCountType DEF RowInv, TypeInv, TypeOK
      <4>2. successful_urls + Cardinality(In({"inserted"})) <= Cardinality(url_status)
        BY DEF RowInv, StatusRowAccounting
      <4> QED BY <4>1, <4>2
    <3>4. /\ report["total"] = total_urls_attempted /\ report["skipped"] = skipped_urls
          /\ report["successful"] = Cardinality(url_status) /\ failed_urls <= report["failed"]
      BY DEF RowInv, ReportInv, AfterLoad
    <3>5. /\ successful_urls \in Nat /\ failed_urls \in Nat /\ skipped_urls \in Nat
          /\ report["failed"] \in Nat /\ Cardinality(url_status) \in Nat
      BY RowCountType DEF RowInv, TypeInv, TypeOK, Reported
    <3> QED BY <3>2, <3>3, <3>4, <3>5
  <2> QED BY <2>1, <2>2 DEF RowInv, RowAccounting
<1> QED BY <1>1, <1>2, RowInit, PTL DEF Spec
=============================================================================
