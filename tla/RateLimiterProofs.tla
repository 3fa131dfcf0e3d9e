------------------------- MODULE RateLimiterProofs -------------------------
(***************************************************************************)
(* Proofs about the two limiters, for every rate, burst, refill gap and    *)
(* set of tasks and hosts.  For the global one the inductive invariant     *)
(* adds to the typing and to the two bounds that the ticker's locals are   *)
(* clear between two ticks (TickerLocals) and that the permits themselves  *)
(* never exceed the capacity (PermitsCapped).  The per-host limiter is the *)
(* instance H of its module, over variables of its own.                    *)
(***************************************************************************)
EXTENDS Limiters, SequenceTheorems, TLAPS

----------------------------------------------------------------------------
(* Arithmetic.                                                             *)

\* Multiplication by a natural number is monotone.
LEMMA TimesMonotone ==
    ASSUME NEW u \in Nat, NEW a \in Int, NEW b \in Int, a <= b
    PROVE  u * a <= u * b
<1>1. b - a \in Nat
  OBVIOUS
<1>2. PICK d \in Nat : b = a + d
  BY <1>1
<1>3. u * b = u * a + u * d
  BY <1>2
<1>4. u * d \in Nat
  OBVIOUS
<1> QED BY <1>3, <1>4

\* Multiplication distributes over a sum of naturals.
LEMMA TimesSplit ==
    ASSUME NEW u \in Nat, NEW a \in Nat, NEW b \in Nat
    PROVE  /\ a + b \in Nat
           /\ u * (a + b) = u * a + u * b
           /\ u * a \in Nat
           /\ u * b \in Nat
  OBVIOUS

\* floor(x / u): the whole permits in x credit units.
LEMMA WholeFacts ==
    ASSUME NEW u \in Nat \ {0}, NEW x \in Nat
    PROVE  /\ x \div u \in Nat
           /\ u * (x \div u) <= x
           /\ x - u * (x \div u) \in 0 .. u - 1
  OBVIOUS

\* What a refill is, apart from the limiter it is made by: a bucket of capacity c that
\* holds av permits is given add whole permits and a fraction nf out of x credit units, of
\* which w permits are whole.
BucketRefill(u, c, x, w, av, add, nf) ==
    /\ add = IF av >= c THEN 0 ELSE IF w <= c - av THEN w ELSE c - av
    /\ nf = IF av >= c \/ add = c - av THEN 0 ELSE x - u * w

\* A refill spends no more than it has, never brings the bucket above its capacity, and
\* carries a fraction of less than one permit, none when it fills the bucket.
LEMMA RefillSpends ==
    ASSUME NEW u \in Nat \ {0}, NEW c \in Nat \ {0}, NEW x \in Nat, NEW av \in Nat,
           NEW w \in Nat, NEW add, NEW nf,
           u * w <= x, x - u * w \in 0 .. u - 1, BucketRefill(u, c, x, w, av, add, nf)
    PROVE  /\ add \in 0 .. c
           /\ nf \in 0 .. u - 1
           /\ av <= c => av + add <= c
           /\ av + add >= c => nf = 0
           /\ u * add + nf <= x
<1>3. CASE av >= c
  <2>1. add = 0 /\ nf = 0
    BY <1>3 DEF BucketRefill
  <2> QED BY <2>1, <1>3
<1>4. CASE av < c
  <2>1. c - av \in Nat
    BY <1>4
  <2>2. CASE w < c - av
    <3>1. add = w /\ nf = x - u * w
      BY <2>2, <2>1, <1>4 DEF BucketRefill
    <3>2. u * w \in Nat
      OBVIOUS
    <3> QED BY <3>1, <3>2, <2>1, <2>2
  <2>3. CASE w >= c - av
    <3>1. add = c - av /\ nf = 0
      BY <2>3, <2>1, <1>4 DEF BucketRefill
    <3>2. u * (c - av) <= u * w
      BY <2>3, <2>1, TimesMonotone
    <3>3. u * (c - av) \in Nat /\ u * w \in Nat
      BY <2>1
    <3>4. u * add + nf <= x
      BY <3>1, <3>2, <3>3
    <3>5. add \in 0 .. c /\ nf \in 0 .. u - 1 /\ av + add = c
      BY <3>1, <2>1
    <3> QED BY <3>1, <3>4, <3>5
  <2> QED BY <2>2, <2>3, <2>1
<1> QED BY <1>3, <1>4

\* A bucket within its capacity, whose fraction is none when it is full, holds no more
\* than its burst with the fraction included.
LEMMA WithinBurst ==
    ASSUME NEW u \in Nat \ {0}, NEW c \in Nat \ {0}, NEW n \in Nat, NEW nf \in 0 .. u - 1,
           n <= c, n >= c => nf = 0
    PROVE  u * n + nf <= u * c
<1>2. CASE n = c
  BY <1>2
<1>3. CASE n <= c - 1
  <2>1. u * n <= u * (c - 1)
    BY <1>3, TimesMonotone
  <2>2. u * (c - 1) = u * c - u
    OBVIOUS
  <2> QED BY <2>1, <2>2
<1> QED BY <1>2, <1>3

\* compute_refill_permits of the global limiter: it adds at most what the elapsed time and
\* the carried fraction earn.
LEMMA RefillFacts ==
    ASSUME NEW e \in Nat, NEW av \in Nat, NEW f \in 0 .. Unit - 1
    PROVE  /\ PermitsToAdd(e, av, f) \in 0 .. capacity
           /\ NewFractional(e, av, f) \in 0 .. Unit - 1
           /\ av <= capacity => av + PermitsToAdd(e, av, f) <= capacity
           /\ av + PermitsToAdd(e, av, f) >= capacity => NewFractional(e, av, f) = 0
           /\ Unit * PermitsToAdd(e, av, f) + NewFractional(e, av, f) <= rps * e + f
<1> DEFINE x == Earned(e, f)
           w == Whole(e, f)
           add == PermitsToAdd(e, av, f)
           nf == NewFractional(e, av, f)
<1>1. x \in Nat /\ x = rps * e + f
  BY BucketAssumption DEF Earned
<1>2. w \in Nat /\ Unit * w <= x /\ x - Unit * w \in 0 .. Unit - 1
  BY <1>1, WholeFacts, BucketAssumption DEF Whole
<1>3. BucketRefill(Unit, capacity, x, w, av, add, nf)
  BY DEF PermitsToAdd, NewFractional, BucketRefill
<1> HIDE DEF x, w, add, nf
<1>4. /\ add \in 0 .. capacity /\ nf \in 0 .. Unit - 1
      /\ av <= capacity => av + add <= capacity
      /\ av + add >= capacity => nf = 0
      /\ Unit * add + nf <= x
  BY <1>1, <1>2, <1>3, RefillSpends, BucketAssumption
<1> QED BY <1>1, <1>4 DEF add, nf

\* A refill of a bucket within its capacity leaves it there, the carried
\* fraction included: a full bucket carries none.
LEMMA RefillWithinBurst ==
    ASSUME NEW e \in Nat, NEW av \in Nat, NEW f \in 0 .. Unit - 1, av <= capacity
    PROVE  Unit * (av + PermitsToAdd(e, av, f)) + NewFractional(e, av, f)
              <= Unit * capacity
<1> DEFINE add == PermitsToAdd(e, av, f)
           nf == NewFractional(e, av, f)
<1>1. /\ add \in 0 .. capacity /\ nf \in 0 .. Unit - 1
      /\ av + add <= capacity
      /\ av + add >= capacity => nf = 0
  BY RefillFacts
<1> HIDE DEF add, nf
<1>2. av + add \in Nat
  BY <1>1, BucketAssumption
<1>3. Unit * (av + add) + nf <= Unit * capacity
  BY <1>1, <1>2, WithinBurst, BucketAssumption
<1> QED BY <1>3 DEF add, nf

----------------------------------------------------------------------------
(* The inductive invariant.                                                *)

\* Between two ticks the refill task has nothing to add and nothing measured.
TickerLocals == ticker # "adding" => toAdd = 0 /\ sampled = 0

\* What is in the bucket and what the ticker is about to add fit in it.
PermitsCapped == ~cancelled => permits + toAdd <= capacity

Budget == TickerLocals /\ PermitsCapped /\ BurstBound /\ AdmissionBudget

IInv == TypeOK /\ Budget

----------------------------------------------------------------------------
(* The semaphore.                                                          *)

\* The tasks served by n permits: no more than n, no more than are waiting.
LEMMA HandedFacts ==
    ASSUME TypeOK, NEW n \in Nat
    PROVE  Handed(n) \in Nat /\ Handed(n) <= n /\ Handed(n) <= Len(queue)
<1>1. Len(queue) \in Nat
  BY DEF TypeOK
<1> QED BY <1>1 DEF Handed

\* add_permits keeps the types of what it changes.
LEMMA AddPermitsTypes ==
    ASSUME TypeOK, NEW n \in Nat, NEW where \in [Task -> States], add_permits(n, where)
    PROVE  /\ permits' \in Nat
           /\ queue' \in Seq(Task)
           /\ pc' \in [Task -> States]
           /\ ideal' \in Int
<1>1. Handed(n) \in Nat /\ Handed(n) <= n /\ Handed(n) <= Len(queue)
  BY HandedFacts
<1>2. permits' \in Nat
  BY <1>1 DEF add_permits, TypeOK
<1>3. queue' \in Seq(Task)
  <2>1. queue \in Seq(Task) /\ Len(queue) \in Nat
    BY DEF TypeOK
  <2>2. \A i \in Handed(n) + 1 .. Len(queue) : queue[i] \in Task
    BY <2>1, <1>1
  <2> QED BY <2>1, <2>2, <1>1, SubSeqProperties DEF add_permits
<1>4. pc' \in [Task -> States]
  BY DEF add_permits, States
<1>5. ideal' \in Int
  BY <1>1, BucketAssumption DEF add_permits, Charge, TypeOK
<1> QED BY <1>2, <1>3, <1>4, <1>5

\* add_permits moves k of the n permits to the queue's first k tasks; all the
\* rest becomes available, and exactly those k are charged.
LEMMA AddPermitsBalance ==
    ASSUME TypeOK, NEW n \in Nat, NEW where, add_permits(n, where), ~cancelled
    PROVE  \E k \in Nat : /\ permits' = permits + n - k
                          /\ ideal' = ideal - Unit * k
<1>1. Handed(n) \in Nat
  BY HandedFacts
<1>2. permits' = permits + n - Handed(n) /\ ideal' = ideal - Unit * Handed(n)
  BY DEF add_permits, Charge
<1> QED BY <1>1, <1>2

----------------------------------------------------------------------------
(* The actions.                                                            *)

LEMMA InitIInv == Init => IInv
<1> SUFFICES ASSUME Init PROVE IInv
  OBVIOUS
<1>1. TypeOK
  <2>1. /\ permits \in Nat /\ pending \in 0 .. MaxGap /\ sampled \in 0 .. pending
        /\ fractional \in 0 .. Unit - 1 /\ toAdd \in 0 .. capacity
    BY BucketAssumption, GapAssumption DEF Init
  <2>2. ideal \in Int
    BY BucketAssumption DEF Init
  <2>3. queue \in Seq(Task) /\ pc \in [Task -> States]
    BY DEF Init, States
  <2>4. ticker \in {"waiting", "adding", "stopped"} /\ cancelled \in BOOLEAN
    BY DEF Init
  <2> QED BY <2>1, <2>2, <2>3, <2>4 DEF TypeOK
<1>2. Unit * (permits + toAdd) + fractional = Unit * capacity
  BY BucketAssumption DEF Init
<1>3. rps * (pending - sampled) = 0
  BY BucketAssumption DEF Init
<1>4. Unit * capacity \in Nat
  BY BucketAssumption
<1>5. Level <= ideal /\ ideal >= 0
  BY <1>2, <1>3, <1>4 DEF Init, Level
<1>6. TickerLocals /\ PermitsCapped /\ BurstBound /\ AdmissionBudget
  BY <1>2, <1>4, <1>5, BucketAssumption
     DEF Init, TickerLocals, PermitsCapped, BurstBound, AdmissionBudget
<1> QED BY <1>1, <1>6 DEF IInv, Budget

\* A step that changes none of the quantities of the budget keeps it.
LEMMA BudgetUntouched ==
    ASSUME Budget,
           UNCHANGED <<permits, ticker, pending, sampled, fractional, toAdd,
                       cancelled, ideal>>
    PROVE  Budget'
  BY DEF Budget, TickerLocals, PermitsCapped, BurstBound, AdmissionBudget, Level

\* After cancellation the budget no longer says anything about the bucket.
LEMMA BudgetAfterCancel ==
    ASSUME cancelled', TickerLocals'
    PROVE  Budget'
  BY DEF Budget, TickerLocals, PermitsCapped, BurstBound, AdmissionBudget

\* k permits leave the bucket and are charged: the budget stays balanced.
LEMMA BudgetAfterCharge ==
    ASSUME TypeOK, Budget, ~cancelled, permits' \in Nat, toAdd' \in Nat, TickerLocals',
           NEW k \in Nat,
           permits + toAdd = permits' + toAdd' + k,
           ideal' = ideal - Unit * k,
           pending' - sampled' = pending - sampled,
           UNCHANGED <<fractional, cancelled>>
    PROVE  Budget'
<1> DEFINE d == permits + toAdd
           c == permits' + toAdd'
           u == rps * (pending - sampled)
<1>1. /\ d \in Nat /\ c \in Nat /\ d = c + k
      /\ ideal \in Int /\ fractional \in Nat
  <2>1. permits \in Nat /\ toAdd \in Nat /\ ideal \in Int /\ fractional \in Nat
    BY BucketAssumption DEF TypeOK
  <2>2. d \in Nat /\ c \in Nat
    BY <2>1, TimesSplit
  <2>3. d = c + k
    OBVIOUS
  <2> QED BY <2>1, <2>2, <2>3
<1>2. u \in Nat
  <2>1. pending \in Nat /\ sampled \in Nat /\ sampled <= pending
    BY GapAssumption DEF TypeOK
  <2>2. pending - sampled \in Nat
    BY <2>1
  <2> QED BY <2>2, TimesSplit, BucketAssumption
<1>3. /\ d <= capacity
      /\ Unit * d + fractional <= Unit * capacity
      /\ Unit * d + fractional + u <= ideal
  BY DEF Budget, PermitsCapped, BurstBound, AdmissionBudget, Level
<1>4. Unit * d = Unit * c + Unit * k /\ Unit * c \in Nat /\ Unit * k \in Nat
      /\ Unit * capacity \in Nat
  <2> HIDE DEF c, d, u
  <2> QED BY <1>1, TimesSplit, BucketAssumption
<1>5. u = rps * (pending' - sampled')
  OBVIOUS
<1> HIDE DEF c, d, u
<1>6. c <= capacity
  BY <1>1, <1>3, BucketAssumption
<1>7. /\ Unit * c + fractional <= Unit * capacity
      /\ Unit * c + fractional + u <= ideal'
      /\ ideal' >= 0
  <2>1. Unit * c + fractional <= Unit * capacity
    BY <1>1, <1>3, <1>4
  <2>2. Unit * c + fractional + u <= ideal'
    BY <1>1, <1>2, <1>3, <1>4
  <2>3. ideal' >= 0
    BY <2>2, <1>1, <1>2, <1>4
  <2> QED BY <2>1, <2>2, <2>3
<1>8. PermitsCapped'
  BY <1>6 DEF PermitsCapped, c
<1>9. BurstBound'
  BY <1>7 DEF BurstBound, c
<1>10. AdmissionBudget'
  BY <1>7, <1>5 DEF AdmissionBudget, Level, c
<1> QED BY <1>8, <1>9, <1>10 DEF Budget

LEMMA AcquireNowStep == ASSUME IInv, NEW t \in Task, AcquireNow(t) PROVE IInv'
<1> USE DEF IInv
<1>1. permits' \in Nat /\ permits = permits' + 1
  BY DEF AcquireNow, TypeOK
<1>2. ideal' = ideal - Unit * 1 /\ ~cancelled
  BY DEF AcquireNow, Charge
<1>3. ideal' \in Int
  BY <1>2, BucketAssumption DEF TypeOK
<1>4. pc' \in [Task -> States]
  BY DEF AcquireNow, TypeOK, States
<1>5. TypeOK'
  BY <1>1, <1>3, <1>4 DEF AcquireNow, TypeOK
<1>6. UNCHANGED <<ticker, pending, sampled, fractional, toAdd, cancelled>>
  BY DEF AcquireNow
<1>7. toAdd' \in Nat /\ permits + toAdd = permits' + toAdd' + 1
  <2>1. toAdd \in Nat
    BY BucketAssumption DEF TypeOK
  <2> QED BY <2>1, <1>1, <1>6
<1>8. TickerLocals'
  BY <1>6 DEF Budget, TickerLocals
<1>9. Budget'
  BY <1>1, <1>2, <1>6, <1>7, <1>8, BudgetAfterCharge
<1> QED BY <1>5, <1>9

LEMMA AcquireWaitStep == ASSUME IInv, NEW t \in Task, AcquireWait(t) PROVE IInv'
<1> USE DEF IInv
<1>1. queue' \in Seq(Task)
  BY AppendProperties DEF AcquireWait, TypeOK
<1>2. pc' \in [Task -> States]
  BY DEF AcquireWait, TypeOK, States
<1>3. UNCHANGED <<permits, ticker, pending, sampled, fractional, toAdd, cancelled, ideal>>
  BY DEF AcquireWait
<1>4. TypeOK'
  BY <1>1, <1>2, <1>3 DEF TypeOK
<1> QED BY <1>3, <1>4, BudgetUntouched

LEMMA ProceedStep ==
    ASSUME IInv, NEW t \in Task, Forget(t) \/ Proceed(t) PROVE IInv'
<1> USE DEF IInv
<1>1. pc' \in [Task -> States]
  BY DEF Forget, Proceed, TypeOK, States
<1>2. UNCHANGED <<permits, queue, ticker, pending, sampled, fractional, toAdd,
                  cancelled, ideal>>
  BY DEF Forget, Proceed
<1>3. TypeOK'
  BY <1>1, <1>2 DEF TypeOK
<1> QED BY <1>2, <1>3, BudgetUntouched

LEMMA LeaveQueueStep == ASSUME IInv, NEW t \in Task, LeaveQueue(t) PROVE IInv'
<1> USE DEF IInv
<1>1. PICK i \in 1 .. Len(queue) :
         queue' = SubSeq(queue, 1, i - 1) \o SubSeq(queue, i + 1, Len(queue))
  BY DEF LeaveQueue
<1>2. queue \in Seq(Task) /\ Len(queue) \in Nat
  BY DEF TypeOK
<1>3. \A j \in 1 .. Len(queue) : queue[j] \in Task
  BY <1>2
<1>4. SubSeq(queue, 1, i - 1) \in Seq(Task)
  BY <1>2, <1>3, SubSeqProperties
<1>5. SubSeq(queue, i + 1, Len(queue)) \in Seq(Task)
  BY <1>2, <1>3, SubSeqProperties
<1>6. queue' \in Seq(Task)
  BY <1>1, <1>4, <1>5, ConcatProperties
<1>7. pc' \in [Task -> States]
  BY DEF LeaveQueue, TypeOK, States
<1>8. UNCHANGED <<permits, ticker, pending, sampled, fractional, toAdd, cancelled, ideal>>
  BY DEF LeaveQueue
<1>9. TypeOK'
  BY <1>6, <1>7, <1>8 DEF TypeOK
<1> QED BY <1>8, <1>9, BudgetUntouched

LEMMA DropGrantedStep == ASSUME IInv, NEW t \in Task, DropGranted(t) PROVE IInv'
<1> USE DEF IInv
<1>1. [pc EXCEPT ![t] = "idle"] \in [Task -> States]
  BY DEF TypeOK, States
<1>2. /\ add_permits(1, [pc EXCEPT ![t] = "idle"])
      /\ cancelled
      /\ UNCHANGED <<ticker, pending, sampled, fractional, toAdd, cancelled>>
  BY DEF DropGranted
<1>3. permits' \in Nat /\ queue' \in Seq(Task) /\ pc' \in [Task -> States] /\ ideal' \in Int
  BY <1>1, <1>2, AddPermitsTypes
<1>4. TypeOK'
  BY <1>2, <1>3 DEF TypeOK
<1>5. TickerLocals'
  BY <1>2 DEF Budget, TickerLocals
<1> QED BY <1>2, <1>4, <1>5, BudgetAfterCancel

\* The permits a tick is about to add and the fraction it keeps are paid for
\* by the time it measured.
LEMMA TickStep == ASSUME IInv, Tick PROVE IInv'
<1> USE DEF IInv
<1> DEFINE add == PermitsToAdd(pending, permits, fractional)
           nf == NewFractional(pending, permits, fractional)
<1>1. /\ pending \in Nat /\ permits \in Nat /\ fractional \in 0 .. Unit - 1
      /\ toAdd = 0 /\ sampled = 0
  BY GapAssumption DEF TypeOK, Budget, TickerLocals, Tick
<1>2. /\ toAdd' = add /\ fractional' = nf /\ sampled' = pending /\ ticker' = "adding"
      /\ UNCHANGED <<permits, queue, pc, pending, cancelled, ideal>>
  BY DEF Tick
<1>3. /\ add \in 0 .. capacity
      /\ nf \in 0 .. Unit - 1
      /\ permits <= capacity => permits + add <= capacity
      /\ Unit * add + nf <= rps * pending + fractional
  BY <1>1, RefillFacts
<1>4. permits <= capacity => Unit * (permits + add) + nf <= Unit * capacity
  BY <1>1, RefillWithinBurst
<1> HIDE DEF add, nf
<1>5. TypeOK'
  BY <1>1, <1>2, <1>3 DEF TypeOK
<1>6. TickerLocals'
  BY <1>2 DEF TickerLocals
<1>7. CASE cancelled
  BY <1>2, <1>5, <1>6, <1>7, BudgetAfterCancel
<1>8. CASE ~cancelled
  <2>1. permits <= capacity /\ Unit * (permits + 0) + fractional + rps * (pending - 0) <= ideal
        /\ ideal >= 0
    BY <1>1, <1>8 DEF Budget, PermitsCapped, AdmissionBudget, Level
  <2>2. PermitsCapped'
    BY <2>1, <1>2, <1>3 DEF PermitsCapped
  <2>3. BurstBound'
    BY <2>1, <1>2, <1>4 DEF BurstBound
  <2>4. /\ Unit * (permits + add) = Unit * permits + Unit * add
        /\ Unit * (permits + 0) = Unit * permits
        /\ Unit * permits \in Nat /\ Unit * add \in Nat
        /\ rps * pending \in Nat
        /\ rps * (pending - 0) = rps * pending
        /\ rps * (pending - pending) = 0
    <3>1. add \in Nat
      BY <1>3, BucketAssumption
    <3>2. pending - pending = 0 /\ pending - 0 = pending /\ permits + 0 = permits
      BY <1>1
    <3>3. rps * 0 = 0
      BY BucketAssumption
    <3> QED BY <3>1, <3>2, <3>3, <1>1, TimesSplit, BucketAssumption
  <2>5. Unit * (permits + add) + nf + rps * (pending - pending) <= ideal
    <3>1. ideal \in Int /\ fractional \in Int /\ nf \in Int
      BY <1>1, <1>3, BucketAssumption DEF TypeOK
    <3> QED BY <3>1, <2>1, <2>4, <1>3
  <2>6. AdmissionBudget'
    BY <2>5, <2>1, <1>2 DEF AdmissionBudget, Level
  <2> QED BY <1>5, <1>6, <2>2, <2>3, <2>6 DEF Budget
<1>9. cancelled \in BOOLEAN
  BY DEF TypeOK
<1> QED BY <1>7, <1>8, <1>9

LEMMA RefillStep == ASSUME IInv, Refill PROVE IInv'
<1> USE DEF IInv
<1>1. /\ add_permits(toAdd, pc)
      /\ ticker' = "waiting" /\ pending' = pending - sampled /\ sampled' = 0 /\ toAdd' = 0
      /\ UNCHANGED <<fractional, cancelled>>
  BY DEF Refill
<1>2. toAdd \in Nat /\ permits \in Nat /\ pc \in [Task -> States]
  BY BucketAssumption DEF TypeOK
<1>3. permits' \in Nat /\ queue' \in Seq(Task) /\ pc' \in [Task -> States] /\ ideal' \in Int
  BY <1>1, <1>2, AddPermitsTypes
<1>4. pending' \in 0 .. MaxGap /\ sampled' \in 0 .. pending' /\ toAdd' \in 0 .. capacity
  BY <1>1, GapAssumption, BucketAssumption DEF TypeOK
<1>5. TypeOK'
  BY <1>1, <1>3, <1>4 DEF TypeOK
<1>6. TickerLocals'
  BY <1>1 DEF TickerLocals
<1>7. CASE cancelled
  BY <1>1, <1>5, <1>6, <1>7, BudgetAfterCancel
<1>8. CASE ~cancelled
  <2>1. PICK k \in Nat : permits' = permits + toAdd - k /\ ideal' = ideal - Unit * k
    BY <1>1, <1>2, <1>8, AddPermitsBalance
  <2>2. permits + toAdd = permits' + toAdd' + k
    BY <1>1, <1>2, <2>1
  <2>3. pending' - sampled' = pending - sampled
    BY <1>1, <1>4 DEF TypeOK
  <2>4. toAdd' \in Nat
    BY <1>1
  <2>5. Budget'
    BY <1>1, <1>3, <1>6, <1>8, <2>1, <2>2, <2>3, <2>4, BudgetAfterCharge
  <2> QED BY <1>5, <2>5
<1>9. cancelled \in BOOLEAN
  BY DEF TypeOK
<1> QED BY <1>7, <1>8, <1>9

LEMMA StopTickerStep == ASSUME IInv, StopTicker PROVE IInv'
<1> USE DEF IInv
<1>1. /\ cancelled /\ cancelled' = cancelled /\ ticker = "waiting" /\ ticker' = "stopped"
      /\ UNCHANGED <<permits, queue, pc, pending, sampled, fractional, toAdd, ideal>>
  BY DEF StopTicker
<1>2. TypeOK'
  BY <1>1 DEF TypeOK
<1>3. TickerLocals'
  BY <1>1 DEF Budget, TickerLocals
<1> QED BY <1>1, <1>2, <1>3, BudgetAfterCancel

LEMMA CancelStep == ASSUME IInv, Cancel PROVE IInv'
<1> USE DEF IInv
<1>1. /\ cancelled'
      /\ cancelled' \in BOOLEAN
      /\ UNCHANGED <<permits, queue, pc, ticker, pending, sampled, fractional, toAdd, ideal>>
  BY DEF Cancel
<1>2. TypeOK'
  BY <1>1 DEF TypeOK
<1>3. TickerLocals'
  BY <1>1 DEF Budget, TickerLocals
<1> QED BY <1>1, <1>2, <1>3, BudgetAfterCancel

\* Time credited to the bucket is credited to the ideal bucket, and the cap of
\* the ideal bucket never cuts below what the limiter still owes.
LEMMA AdvanceStep == ASSUME IInv, Advance PROVE IInv'
<1> USE DEF IInv
<1>1. /\ pending' = pending + 1 /\ pending < MaxGap
      /\ UNCHANGED <<permits, queue, pc, ticker, sampled, fractional, toAdd, cancelled>>
  BY DEF Advance
<1>2. /\ pending \in Nat /\ sampled \in Nat /\ sampled <= pending
      /\ permits \in Nat /\ toAdd \in Nat /\ fractional \in Nat /\ ideal \in Int
  BY GapAssumption, BucketAssumption DEF TypeOK
<1>3. rps \in Nat /\ IdealCap = Unit * capacity + rps * MaxGap /\ IdealCap \in Nat
  <2>1. Unit * capacity \in Nat /\ rps * MaxGap \in Nat
    BY TimesSplit, BucketAssumption, GapAssumption
  <2> QED BY <2>1, TimesSplit, BucketAssumption DEF IdealCap
<1>4. ideal' = IF cancelled THEN ideal
               ELSE IF ideal + rps <= IdealCap THEN ideal + rps ELSE IdealCap
  BY DEF Advance
<1>5. ideal' \in Int
  BY <1>2, <1>3, <1>4
<1>6. TypeOK'
  <2>1. pending' \in 0 .. MaxGap /\ sampled' \in 0 .. pending'
    BY <1>1, <1>2, GapAssumption
  <2> QED BY <2>1, <1>1, <1>5 DEF TypeOK
<1>7. TickerLocals'
  BY <1>1 DEF Budget, TickerLocals
<1>8. CASE cancelled
  BY <1>1, <1>6, <1>7, <1>8, BudgetAfterCancel
<1>9. CASE ~cancelled
  <2> DEFINE h == Unit * (permits + toAdd) + fractional
             g == pending - sampled
  <2>1. /\ h <= Unit * capacity
        /\ h + rps * g <= ideal
        /\ ideal >= 0
    BY <1>9 DEF Budget, BurstBound, AdmissionBudget, Level
  <2>2. h \in Nat /\ Unit * capacity \in Nat
    <3>1. permits + toAdd \in Nat
      BY <1>2, TimesSplit
    <3>2. Unit * (permits + toAdd) \in Nat
      BY <3>1, TimesSplit, BucketAssumption
    <3> QED BY <3>2, <1>2, TimesSplit, BucketAssumption
  <2>3. g \in Nat /\ g + 1 = pending' - sampled' /\ g + 1 <= MaxGap
    BY <1>1, <1>2, GapAssumption
  <2> HIDE DEF h, g
  <2>4. rps * (g + 1) = rps * g + rps /\ rps * g \in Nat
    <3>1. rps * 1 = rps
      BY <1>3
    <3> QED BY <3>1, <2>3, <1>3, TimesSplit
  <2>5. rps * (g + 1) <= rps * MaxGap /\ rps * MaxGap \in Nat
    BY <2>3, <1>3, TimesMonotone, TimesSplit, GapAssumption
  <2>6. h + rps * (g + 1) <= ideal' /\ ideal' >= 0
    <3>1. CASE ideal + rps <= IdealCap
      BY <3>1, <1>2, <1>3, <1>4, <1>9, <2>1, <2>2, <2>4
    <3>2. CASE ~(ideal + rps <= IdealCap)
      <4>1. ideal' = IdealCap
        BY <3>2, <1>4, <1>9
      <4> QED BY <4>1, <1>3, <2>1, <2>2, <2>4, <2>5
    <3> QED BY <3>1, <3>2
  <2>7. AdmissionBudget'
    BY <2>6, <2>3, <1>1 DEF AdmissionBudget, Level, h
  <2>8. PermitsCapped' /\ BurstBound'
    BY <1>1 DEF Budget, PermitsCapped, BurstBound
  <2> QED BY <1>6, <1>7, <2>7, <2>8 DEF Budget
<1>10. cancelled \in BOOLEAN
  BY DEF TypeOK
<1> QED BY <1>8, <1>9, <1>10

----------------------------------------------------------------------------
(* The theorems.                                                           *)

LEMMA NextIInv == IInv /\ [Next]_vars => IInv'
<1> SUFFICES ASSUME IInv, [Next]_vars PROVE IInv'
  OBVIOUS
<1>1. ASSUME NEW t \in Task, AcquireNow(t) PROVE IInv'
  BY <1>1, AcquireNowStep
<1>2. ASSUME NEW t \in Task, AcquireWait(t) PROVE IInv'
  BY <1>2, AcquireWaitStep
<1>3. ASSUME NEW t \in Task, Forget(t) \/ Proceed(t) PROVE IInv'
  BY <1>3, ProceedStep
<1>4. ASSUME NEW t \in Task, LeaveQueue(t) PROVE IInv'
  BY <1>4, LeaveQueueStep
<1>5. ASSUME NEW t \in Task, DropGranted(t) PROVE IInv'
  BY <1>5, DropGrantedStep
<1>6. CASE Tick
  BY <1>6, TickStep
<1>7. CASE Refill
  BY <1>7, RefillStep
<1>8. CASE StopTicker
  BY <1>8, StopTickerStep
<1>9. CASE Cancel
  BY <1>9, CancelStep
<1>10. CASE Advance
  BY <1>10, AdvanceStep
<1>11. CASE UNCHANGED vars
  <2>1. TypeOK'
    BY <1>11 DEF vars, IInv, TypeOK
  <2>2. Budget'
    BY <1>11, BudgetUntouched DEF vars, IInv
  <2> QED BY <2>1, <2>2 DEF IInv
<1> QED BY <1>1, <1>2, <1>3, <1>4, <1>5, <1>6, <1>7, <1>8, <1>9, <1>10, <1>11
        DEF Next, Run

\* The inductive invariant holds in every reachable state of the limiter.
THEOREM LimiterInvariant == Spec => []IInv
  BY InitIInv, NextIInv, PTL DEF Spec

\* Every variable of the limiter keeps its type, whatever the rate and burst.
THEOREM LimiterTypeCorrect == Spec => []TypeOK
<1>1. IInv => TypeOK
  BY DEF IInv
<1> QED BY <1>1, LimiterInvariant, PTL

\* The ticker's add_permits never overfills the bucket, for every rate, burst,
\* number of tasks and interleaving of acquisitions with a refill under way.
THEOREM LimiterBurstBound == Spec => []BurstBound
<1>1. IInv => BurstBound
  BY DEF IInv, Budget
<1> QED BY <1>1, LimiterInvariant, PTL

\* Admissions never outrun the ideal bucket of the configured rate and burst.
THEOREM LimiterAdmissionBudget == Spec => []AdmissionBudget
<1>1. IInv => AdmissionBudget
  BY DEF IInv, Budget
<1> QED BY <1>1, LimiterInvariant, PTL

----------------------------------------------------------------------------
(* The per-host limiter.                                                   *)

\* What the model of the per-host limiter asks of its constants; rewound time is
\* credited to the ideal bucket.
HostAssumption == MaxStall \in Nat /\ NoTask \notin HostTask /\ Tolerated

\* The credit in a bucket, a refill under way included.
HostLevel(h) == HostUnit * (hostPermits[h] + hostToAdd[h]) + hostFractional[h]

\* The time that the next refill of the bucket may still count: while a task is
\* refilling, only what lies after its own reading of the clock.
Uncounted(h) ==
    IF locked[h] = NoTask \/ since[h] <= age[locked[h]] THEN since[h] ELSE age[locked[h]]

\* The mutex around last_refill is held by the task that refills, and permits are
\* about to be added only then.
LockKept(h) ==
    /\ locked[h] # NoTask => hostPc[locked[h]] = "refilling" /\ host[locked[h]] = h
    /\ locked[h] = NoTask => hostToAdd[h] = 0

\* No task works on a bucket that has not been made, and a task that is about to take
\* a permit has seen last_refill stored no longer ago than two preemptions.
TaskKept(t) ==
    /\ hostPc[t] = "refilling" => locked[host[t]] = t
    /\ hostPc[t] # "idle" => host[t] \in made
    /\ hostPc[t] = "trying" => since[host[t]] <= age[t] + MaxStall

\* A bucket that has not been made has nothing, its ideal one is full.
Unmade(h) ==
    /\ hostPermits[h] = 0 /\ hostToAdd[h] = 0 /\ hostFractional[h] = 0
    /\ locked[h] = NoTask /\ hostIdeal[h] = HostUnit * hostCapacity

\* The bucket and what it may still earn are covered by the ideal bucket, unless that
\* one is full.
Covered(h) ==
    HostLevel(h) + hostRps * Uncounted(h) <= hostIdeal[h] \/ H!IdealCap <= hostIdeal[h]

HostKept(h) ==
    /\ LockKept(h)
    /\ h \notin made => Unmade(h)
    /\ hostPermits[h] + hostToAdd[h] <= hostCapacity
    /\ HostLevel(h) <= HostUnit * hostCapacity
    /\ Covered(h)

\* The inductive invariant of the per-host limiter.
HostInv ==
    /\ H!TypeOK
    /\ \A h \in Host : HostKept(h)
    /\ \A t \in HostTask : TaskKept(t)

\* The buckets of both limiters follow the same arithmetic.
LEMMA HostRefillFacts ==
    ASSUME NEW e \in Nat, NEW av \in Nat, NEW f \in 0 .. HostUnit - 1, av <= hostCapacity
    PROVE  /\ H!PermitsToAdd(e, av, f) \in 0 .. hostCapacity
           /\ H!NewFractional(e, av, f) \in 0 .. HostUnit - 1
           /\ av + H!PermitsToAdd(e, av, f) <= hostCapacity
           /\ HostUnit * (av + H!PermitsToAdd(e, av, f)) + H!NewFractional(e, av, f)
                 <= HostUnit * hostCapacity
           /\ HostUnit * (av + H!PermitsToAdd(e, av, f)) + H!NewFractional(e, av, f)
                 <= HostUnit * av + f + hostRps * e
<1> DEFINE x0 == H!Earned(e, f)
           w0 == H!Whole(e, f)
           add == H!PermitsToAdd(e, av, f)
           nf == H!NewFractional(e, av, f)
<1>1. x0 \in Nat /\ x0 = hostRps * e + f
  BY HostBucketAssumption DEF H!Earned
<1>2. w0 \in Nat /\ HostUnit * w0 <= x0 /\ x0 - HostUnit * w0 \in 0 .. HostUnit - 1
  BY <1>1, WholeFacts, HostBucketAssumption DEF H!Whole
<1>a. BucketRefill(HostUnit, hostCapacity, x0, w0, av, add, nf)
  BY DEF H!PermitsToAdd, H!NewFractional, BucketRefill
<1> HIDE DEF x0, w0, add, nf
<1>3. /\ add \in 0 .. hostCapacity /\ nf \in 0 .. HostUnit - 1
      /\ av + add <= hostCapacity
      /\ av + add >= hostCapacity => nf = 0
      /\ HostUnit * add + nf <= hostRps * e + f
  BY <1>1, <1>2, <1>a, RefillSpends, HostBucketAssumption
<1>b. av + add \in Nat
  BY <1>3, HostBucketAssumption
<1>4. HostUnit * (av + add) + nf <= HostUnit * hostCapacity
  BY <1>3, <1>b, WithinBurst, HostBucketAssumption
<1>5. HostUnit * (av + add) = HostUnit * av + HostUnit * add /\ HostUnit * av \in Nat /\ HostUnit * add \in Nat
  <2>1. add \in Nat
    BY <1>3, HostBucketAssumption
  <2> HIDE DEF add
  <2> QED BY <2>1, TimesSplit, HostBucketAssumption
<1>6. hostRps * e \in Nat
  BY HostBucketAssumption
<1>7. HostUnit * (av + add) + nf <= HostUnit * av + f + hostRps * e
  <2> HIDE DEF add, nf
  <2> DEFINE x == HostUnit * (av + add)
             y == HostUnit * av
             z == HostUnit * add
             w == hostRps * e
  <2>1. x = y + z /\ y \in Nat /\ z \in Nat /\ w \in Nat /\ z + nf <= w + f
        /\ nf \in Nat /\ f \in Nat
    BY <1>3, <1>5, <1>6, HostBucketAssumption
  <2> HIDE DEF x, y, z, w
  <2>2. x + nf <= y + f + w
    BY <2>1
  <2> QED BY <2>2 DEF x, y, w
<1> QED BY <1>3, <1>4, <1>7 DEF add, nf

\* The values of a well-typed state that the arithmetic is about.
LEMMA HostTypes ==
    ASSUME HostAssumption, H!TypeOK, NEW h \in Host
    PROVE  /\ hostPermits[h] \in Nat /\ hostToAdd[h] \in Nat /\ hostToAdd[h] <= hostCapacity
           /\ hostFractional[h] \in 0 .. HostUnit - 1 /\ hostFractional[h] \in Nat
           /\ since[h] \in Nat /\ hostIdeal[h] \in Int
           /\ locked[h] \in HostTask \cup {NoTask}
  BY HostBucketAssumption DEF H!TypeOK

LEMMA TaskTypes ==
    ASSUME HostAssumption, H!TypeOK, NEW t \in HostTask
    PROVE  host[t] \in Host /\ age[t] \in Nat /\ age[t] <= MaxStall
  BY DEF H!TypeOK, HostAssumption

\* A bucket that a step does not touch, whose refilling task does not move either.
LEMMA HostElsewhere ==
    ASSUME NEW h \in Host, HostKept(h), host' = host,
           hostPermits'[h] = hostPermits[h], hostToAdd'[h] = hostToAdd[h],
           hostFractional'[h] = hostFractional[h], since'[h] = since[h],
           hostIdeal'[h] = hostIdeal[h], locked'[h] = locked[h],
           h \in made' <=> h \in made,
           locked[h] # NoTask => /\ hostPc'[locked[h]] = hostPc[locked[h]]
                                 /\ age'[locked[h]] = age[locked[h]]
    PROVE  HostKept(h)'
<1>1. LockKept(h)'
  BY DEF HostKept, LockKept
<1>2. (h \notin made => Unmade(h))'
  BY DEF HostKept, Unmade
<1>3. HostLevel(h)' = HostLevel(h) /\ Uncounted(h)' = Uncounted(h)
  BY DEF HostLevel, Uncounted
<1>4. Covered(h)'
  BY <1>3 DEF HostKept, Covered, H!IdealCap
<1> QED BY <1>1, <1>2, <1>3, <1>4 DEF HostKept

LEMMA HostInitInv ==
    ASSUME HostAssumption, H!Init
    PROVE  HostInv
<1>1. H!TypeOK
  <2>1. /\ HostUnit * hostCapacity \in Nat /\ H!MaxSince \in Nat /\ H!RetryDelay \in Nat
        /\ 0 \in 0 .. HostUnit - 1 /\ 0 \in 0 .. hostCapacity
    BY HostBucketAssumption DEF HostAssumption, H!MaxSince, H!RetryDelay
  <2>2. 0 \in 0 .. H!MaxSince /\ 0 \in 0 .. H!RetryDelay /\ 0 \in 0 .. MaxStall
    BY <2>1 DEF HostAssumption
  <2>3. hostIdeal \in [Host -> Int]
    BY <2>1 DEF H!Init
  <2>4. /\ made \subseteq Host /\ hostPermits \in [Host -> Nat]
        /\ since \in [Host -> 0 .. H!MaxSince]
        /\ hostFractional \in [Host -> 0 .. HostUnit - 1] /\ hostToAdd \in [Host -> 0 .. hostCapacity]
    BY <2>1, <2>2 DEF H!Init
  <2>5. /\ locked \in [Host -> HostTask \cup {NoTask}]
        /\ hostPc \in [HostTask -> {"idle", "start", "sleeping", "admitted", "cancelled"}
                                 \cup H!Synchronous]
        /\ host \in [HostTask -> Host] /\ age \in [HostTask -> 0 .. MaxStall]
        /\ wait \in [HostTask -> 0 .. H!RetryDelay] /\ hostCancelled \in BOOLEAN
    BY <2>2 DEF H!Init
  <2> QED BY <2>3, <2>4, <2>5 DEF H!TypeOK
<1>2. ASSUME NEW h \in Host PROVE HostKept(h)
  <2>1. /\ hostPermits[h] = 0 /\ hostToAdd[h] = 0 /\ hostFractional[h] = 0 /\ since[h] = 0
        /\ locked[h] = NoTask /\ hostIdeal[h] = HostUnit * hostCapacity
    BY DEF H!Init
  <2>2. HostUnit * hostCapacity \in Nat /\ HostUnit * (0 + 0) + 0 = 0 /\ hostRps * 0 = 0
    BY HostBucketAssumption
  <2>3. HostLevel(h) = 0 /\ Uncounted(h) = 0
    BY <2>1, <2>2 DEF HostLevel, Uncounted
  <2>4. Covered(h)
    BY <2>1, <2>2, <2>3 DEF Covered
  <2> QED BY <2>1, <2>2, <2>3, <2>4, HostBucketAssumption DEF HostKept, LockKept, Unmade
<1>3. ASSUME NEW t \in HostTask PROVE TaskKept(t)
  BY DEF H!Init, TaskKept
<1> QED BY <1>1, <1>2, <1>3 DEF HostInv

\* acquire() makes the bucket of a new host, full.
LEMMA HostAcquireStep ==
    ASSUME HostAssumption, HostInv, NEW t \in HostTask, H!Acquire(t)
    PROVE  HostInv'
<1>1. PICK g \in Host : g = host[t] /\ hostPc[t] = "idle"
  BY TaskTypes DEF HostInv, H!Acquire
<1>2. H!TypeOK'
  <2>1. made' \subseteq Host /\ hostPermits' \in [Host -> Nat]
    BY <1>1, HostBucketAssumption DEF HostInv, H!TypeOK, H!Acquire, H!bucket
  <2>2. since' \in [Host -> 0 .. H!MaxSince]
    <3>1. 0 \in 0 .. H!MaxSince
      BY HostBucketAssumption DEF HostAssumption, H!MaxSince
    <3> QED BY <1>1, <3>1 DEF HostInv, H!TypeOK, H!Acquire, H!bucket
  <2> QED BY <2>1, <2>2 DEF HostInv, H!TypeOK, H!Acquire, H!bucket
<1>3. ASSUME NEW h \in Host, h # g \/ h \in made PROVE HostKept(h)'
  <2>1. /\ hostPermits'[h] = hostPermits[h] /\ since'[h] = since[h]
        /\ (h \in made' <=> h \in made)
    BY <1>1, <1>3 DEF HostInv, H!TypeOK, H!Acquire, H!bucket
  <2>2. locked[h] # t
    BY <1>1 DEF HostInv, HostKept, LockKept, HostAssumption
  <2>3. locked[h] # NoTask => hostPc'[locked[h]] = hostPc[locked[h]]
    BY <2>2, HostTypes DEF HostInv, H!TypeOK, H!Acquire
  <2> QED BY <2>1, <2>3, HostElsewhere DEF HostInv, H!Acquire, H!bucket
<1>4. ASSUME g \notin made PROVE HostKept(g)'
  <2>1. Unmade(g)
    BY <1>1, <1>4 DEF HostInv, HostKept
  <2>2. /\ hostPermits'[g] = hostCapacity /\ hostToAdd'[g] = 0 /\ hostFractional'[g] = 0
        /\ since'[g] = 0 /\ locked'[g] = NoTask /\ hostIdeal'[g] = HostUnit * hostCapacity
        /\ g \in made'
    BY <1>1, <1>4, <2>1 DEF HostInv, H!TypeOK, H!Acquire, H!bucket, Unmade
  <2>3. HostUnit * (hostCapacity + 0) + 0 = HostUnit * hostCapacity /\ HostUnit * hostCapacity \in Nat /\ hostRps * 0 = 0
    BY HostBucketAssumption
  <2>4. HostLevel(g)' = HostUnit * hostCapacity /\ Uncounted(g)' = 0
    BY <2>2, <2>3 DEF HostLevel, Uncounted
  <2>5. Covered(g)'
    BY <2>2, <2>3, <2>4 DEF Covered
  <2> QED BY <2>2, <2>3, <2>4, <2>5, HostBucketAssumption DEF HostKept, LockKept
<1>5. ASSUME NEW u \in HostTask PROVE TaskKept(u)'
  <2>1. CASE u = t
    BY <1>1, <2>1 DEF HostInv, H!TypeOK, H!Acquire, H!bucket, TaskKept
  <2>2. CASE u # t
    <3>1. hostPc'[u] = hostPc[u] /\ TaskKept(u)
      BY <2>2 DEF HostInv, H!TypeOK, H!Acquire
    <3>2. hostPc[u] # "idle" => since'[host[u]] = since[host[u]]
      BY <3>1, TaskTypes DEF HostInv, H!TypeOK, H!Acquire, H!bucket, TaskKept
    <3> QED BY <3>1, <3>2 DEF H!Acquire, H!bucket, TaskKept
  <2> QED BY <2>1, <2>2
<1>6. \A h \in Host : HostKept(h)'
  BY <1>3, <1>4
<1> QED BY <1>2, <1>5, <1>6 DEF HostInv, H!Acquire

\* A task that holds no lock moves outside the buckets.
LEMMA HostTaskMoves ==
    ASSUME HostAssumption, HostInv, H!TypeOK', NEW t \in HostTask,
           UNCHANGED H!bucketVars, host' = host,
           hostPc[t] \notin {"idle", "refilling"}, hostPc'[t] \notin {"refilling", "trying"},
           \A u \in HostTask \ {t} : hostPc'[u] = hostPc[u] /\ age'[u] = age[u]
    PROVE  HostInv'
<1>1. ASSUME NEW h \in Host PROVE HostKept(h)'
  <2>1. HostKept(h) /\ locked[h] \in HostTask \cup {NoTask}
    BY HostTypes DEF HostInv
  <2>2. locked[h] # t
    BY <2>1 DEF HostKept, LockKept, HostAssumption
  <2> QED BY <2>1, <2>2, HostElsewhere DEF H!bucketVars
<1>2. ASSUME NEW u \in HostTask PROVE TaskKept(u)'
  <2>1. TaskKept(u) /\ TaskKept(t)
    BY DEF HostInv
  <2>2. CASE u = t
    BY <2>1, <2>2 DEF TaskKept, H!bucketVars
  <2>3. CASE u # t
    BY <2>1, <2>3 DEF TaskKept, H!bucketVars
  <2> QED BY <2>2, <2>3
<1> QED BY <1>1, <1>2 DEF HostInv

\* Reading the clock, giving up, waking and being dropped.
LEMMA HostPollSteps ==
    ASSUME HostAssumption, HostInv, NEW t \in HostTask,
           H!ReadClock(t) \/ H!Throttled(t) \/ H!Wake(t) \/ H!Cancelled(t)
    PROVE  HostInv'
<1> USE DEF HostInv
<1>1. 0 \in 0 .. MaxStall /\ 0 \in 0 .. H!RetryDelay /\ H!RetryDelay \in 0 .. H!RetryDelay
  BY HostBucketAssumption DEF HostAssumption, H!RetryDelay
<1>2. CASE H!ReadClock(t)
  <2>1. H!TypeOK'
    BY <1>1, <1>2 DEF H!ReadClock, H!TypeOK, H!bucketVars, H!Synchronous
  <2> QED BY <1>2, <2>1, HostTaskMoves DEF H!ReadClock, H!TypeOK
<1>3. CASE H!Throttled(t)
  <2>1. H!TypeOK'
    BY <1>1, <1>3 DEF H!Throttled, H!TypeOK, H!bucketVars, H!Synchronous
  <2> QED BY <1>3, <2>1, HostTaskMoves DEF H!Throttled, H!TypeOK
<1>4. CASE H!Wake(t)
  <2>1. H!TypeOK'
    BY <1>4 DEF H!Wake, H!TypeOK, H!bucketVars, H!Synchronous
  <2> QED BY <1>4, <2>1, HostTaskMoves DEF H!Wake, H!TypeOK
<1>5. CASE H!Cancelled(t)
  <2>1. H!TypeOK'
    BY <1>1, <1>5 DEF H!Cancelled, H!TypeOK, H!bucketVars, H!Synchronous
  <2> QED BY <1>5, <2>1, HostTaskMoves DEF H!Cancelled, H!TypeOK
<1> QED BY <1>2, <1>3, <1>4, <1>5

\* The refill, first half: what the elapsed time earns is moved from the time that
\* is uncounted into the level.
LEMMA HostLockStep ==
    ASSUME HostAssumption, HostInv, NEW t \in HostTask, H!LockAndRead(t)
    PROVE  HostInv'
<1>1. PICK g \in Host : g = host[t] /\ hostPc[t] = "sampled" /\ locked[g] = NoTask
  BY TaskTypes DEF HostInv, H!LockAndRead
<1>2. PICK e \in Nat, k \in Nat :
        /\ e = H!Elapsed(t) /\ e + k = since[g]
        /\ k = IF since[g] <= age[t] THEN since[g] ELSE age[t]
  <2>1. since[g] \in Nat /\ age[t] \in Nat
    BY HostTypes, TaskTypes DEF HostInv
  <2> DEFINE e == IF since[g] >= age[t] THEN since[g] - age[t] ELSE 0
             k == IF since[g] <= age[t] THEN since[g] ELSE age[t]
  <2>2. e \in Nat /\ k \in Nat /\ e + k = since[g]
    BY <2>1
  <2>3. e = H!Elapsed(t)
    BY <1>1 DEF H!Elapsed
  <2> QED BY <2>2, <2>3
<1>3. /\ HostKept(g) /\ hostToAdd[g] = 0
      /\ hostPermits[g] \in Nat /\ hostFractional[g] \in 0 .. HostUnit - 1
      /\ hostPermits[g] <= hostCapacity /\ hostIdeal[g] \in Int
  <2>1. hostToAdd[g] = 0
    BY <1>1 DEF HostInv, HostKept, LockKept
  <2>2. hostPermits[g] + 0 = hostPermits[g]
    BY HostTypes DEF HostInv
  <2> QED BY <2>1, <2>2, HostTypes DEF HostInv, HostKept
<1>4. PICK add \in 0 .. hostCapacity, nf \in 0 .. HostUnit - 1 :
        /\ add = H!PermitsToAdd(e, hostPermits[g], hostFractional[g])
        /\ nf = H!NewFractional(e, hostPermits[g], hostFractional[g])
        /\ hostPermits[g] + add <= hostCapacity
        /\ HostUnit * (hostPermits[g] + add) + nf <= HostUnit * hostCapacity
        /\ HostUnit * (hostPermits[g] + add) + nf
              <= HostUnit * hostPermits[g] + hostFractional[g] + hostRps * e
  BY <1>3, HostRefillFacts
<1>5. /\ hostToAdd' = [hostToAdd EXCEPT ![g] = add]
      /\ hostFractional' = [hostFractional EXCEPT ![g] = nf]
      /\ locked' = [locked EXCEPT ![g] = t]
      /\ hostPc' = [hostPc EXCEPT ![t] = "refilling"]
      /\ UNCHANGED <<made, hostPermits, since, hostIdeal, host, age, wait, hostCancelled>>
  BY <1>1, <1>2, <1>4 DEF H!LockAndRead
<1>6. H!TypeOK'
  BY <1>5 DEF HostInv, H!TypeOK, H!Synchronous
<1>7. ASSUME NEW h \in Host, h # g PROVE HostKept(h)'
  <2>1. HostKept(h) /\ locked[h] \in HostTask \cup {NoTask}
    BY HostTypes DEF HostInv
  <2>2. locked[h] # t
    BY <1>1, <2>1 DEF HostKept, LockKept, HostAssumption
  <2>3. /\ hostToAdd'[h] = hostToAdd[h] /\ hostFractional'[h] = hostFractional[h]
        /\ locked'[h] = locked[h]
        /\ locked[h] # NoTask => hostPc'[locked[h]] = hostPc[locked[h]]
    BY <1>5, <1>7, <2>1, <2>2 DEF HostInv, H!TypeOK
  <2> QED BY <1>5, <2>1, <2>3, HostElsewhere
<1>8. HostKept(g)'
  <2>1. /\ hostToAdd'[g] = add /\ hostFractional'[g] = nf /\ locked'[g] = t
        /\ hostPermits'[g] = hostPermits[g] /\ since'[g] = since[g]
        /\ hostIdeal'[g] = hostIdeal[g] /\ age'[t] = age[t] /\ hostPc'[t] = "refilling"
        /\ t # NoTask /\ g \in made' /\ host'[t] = g
    BY <1>1, <1>5 DEF HostInv, H!TypeOK, HostAssumption, TaskKept
  <2>2. HostLevel(g)' = HostUnit * (hostPermits[g] + add) + nf /\ Uncounted(g)' = k
    BY <2>1, <1>2 DEF HostLevel, Uncounted
  <2>3. HostLevel(g) = HostUnit * hostPermits[g] + hostFractional[g] /\ Uncounted(g) = since[g]
    <3>1. hostPermits[g] + 0 = hostPermits[g]
      BY <1>3
    <3> QED BY <1>1, <1>3, <3>1 DEF HostLevel, Uncounted
  <2>4. HostLevel(g)' + hostRps * k <= HostLevel(g) + hostRps * since[g]
    <3> DEFINE a == HostUnit * (hostPermits[g] + add)
               b == HostUnit * hostPermits[g]
               c == hostRps * e
               d == hostRps * k
               s == hostRps * since[g]
               f == hostFractional[g]
    <3>1. s = c + d /\ c \in Nat /\ d \in Nat
      <4>1. hostRps * (e + k) = hostRps * e + hostRps * k /\ hostRps * e \in Nat /\ hostRps * k \in Nat
        BY TimesSplit, HostBucketAssumption
      <4>2. hostRps * since[g] = hostRps * (e + k)
        BY <1>2
      <4> QED BY <4>1, <4>2
    <3>2. a \in Int /\ b \in Int /\ f \in Int /\ nf \in Int /\ a + nf <= b + f + c
      BY <1>3, <1>4, HostBucketAssumption
    <3> HIDE DEF a, b, c, d, s, f
    <3>3. (a + nf) + d <= (b + f) + s
      BY <3>1, <3>2
    <3> QED BY <2>2, <2>3, <3>3 DEF a, b, d, s, f
  <2>5. HostLevel(g)' \in Int /\ HostLevel(g) \in Int /\ hostRps * k \in Int /\ hostRps * since[g] \in Int
    BY <2>2, <2>3, <1>2, <1>3, <1>4, HostTypes, HostBucketAssumption DEF HostInv
  <2>6. Covered(g)'
    <3>1. Covered(g)
      BY <1>3 DEF HostKept
    <3> QED BY <1>3, <2>1, <2>2, <2>3, <2>4, <2>5, <3>1 DEF Covered, H!IdealCap
  <2>7. (hostPermits[g] + hostToAdd[g] <= hostCapacity)' /\ (HostLevel(g) <= HostUnit * hostCapacity)'
    BY <1>4, <2>1, <2>2
  <2> QED BY <2>1, <2>6, <2>7 DEF HostKept, LockKept
<1>9. ASSUME NEW u \in HostTask PROVE TaskKept(u)'
  <2>1. CASE u = t
    BY <1>1, <1>5, <2>1 DEF HostInv, H!TypeOK, TaskKept
  <2>2. CASE u # t
    <3>1. TaskKept(u) /\ hostPc'[u] = hostPc[u] /\ host[u] \in Host
      BY <1>5, <2>2 DEF HostInv, H!TypeOK
    <3>2. hostPc[u] = "refilling" => host[u] # g
      BY <1>1, <3>1 DEF TaskKept, HostAssumption
    <3> QED BY <1>5, <3>1, <3>2 DEF HostInv, H!TypeOK, TaskKept
  <2> QED BY <2>1, <2>2
<1> QED BY <1>6, <1>7, <1>8, <1>9 DEF HostInv

\* The refill, second half: last_refill is stored, older than it was or not.
LEMMA HostUnlockStep ==
    ASSUME HostAssumption, HostInv, NEW t \in HostTask, H!AddAndUnlock(t)
    PROVE  HostInv'
<1>1. PICK g \in Host : g = host[t] /\ hostPc[t] = "refilling" /\ locked[g] = t
  BY TaskTypes DEF HostInv, H!AddAndUnlock, TaskKept
<1>2. /\ hostPermits[g] \in Nat /\ hostToAdd[g] \in Nat /\ hostFractional[g] \in Nat
      /\ since[g] \in Nat /\ hostIdeal[g] \in Int /\ age[t] \in Nat /\ age[t] <= MaxStall
      /\ t # NoTask
  BY HostTypes, TaskTypes DEF HostInv, HostAssumption
<1>3. PICK i \in Int : i = IF age[t] > since[g]
                           THEN H!AtMost(hostIdeal[g] + hostRps * (age[t] - since[g]), H!IdealCap)
                           ELSE hostIdeal[g]
  BY <1>2, HostBucketAssumption DEF H!AtMost, H!IdealCap, HostAssumption
<1>4. /\ hostPermits' = [hostPermits EXCEPT ![g] = @ + hostToAdd[g]]
      /\ hostToAdd' = [hostToAdd EXCEPT ![g] = 0]
      /\ since' = [since EXCEPT ![g] = age[t]]
      /\ locked' = [locked EXCEPT ![g] = NoTask]
      /\ hostPc' = [hostPc EXCEPT ![t] = "trying"]
      /\ UNCHANGED <<made, hostFractional, host, age, wait, hostCancelled>>
  BY <1>1 DEF H!AddAndUnlock, H!StoreLast
<1>5. hostIdeal' = [hostIdeal EXCEPT ![g] = i]
  <2>1. CASE age[t] > since[g]
    BY <1>1, <1>3, <2>1 DEF H!AddAndUnlock, H!StoreLast, HostAssumption
  <2>2. CASE ~(age[t] > since[g])
    <3>1. hostIdeal' = hostIdeal /\ i = hostIdeal[g]
      BY <1>1, <1>3, <2>2 DEF H!AddAndUnlock, H!StoreLast
    <3> QED BY <3>1 DEF HostInv, H!TypeOK
  <2> QED BY <2>1, <2>2
<1>6. H!TypeOK'
  <2>1. age[t] \in 0 .. H!MaxSince /\ 0 \in 0 .. hostCapacity
    <3>1. HostUnit * hostCapacity \in Nat
      BY HostBucketAssumption
    <3> QED BY <1>2, <3>1, HostBucketAssumption DEF HostAssumption, H!MaxSince
  <2>2. hostPermits' \in [Host -> Nat] /\ hostToAdd' \in [Host -> 0 .. hostCapacity]
    BY <1>2, <1>4, <2>1 DEF HostInv, H!TypeOK
  <2>3. since' \in [Host -> 0 .. H!MaxSince] /\ hostIdeal' \in [Host -> Int]
    BY <1>4, <1>5, <2>1 DEF HostInv, H!TypeOK
  <2>4. /\ locked' \in [Host -> HostTask \cup {NoTask}]
        /\ hostPc' \in [HostTask -> {"idle", "start", "sleeping", "admitted", "cancelled"}
                                 \cup H!Synchronous]
    BY <1>4 DEF HostInv, H!TypeOK, H!Synchronous
  <2> QED BY <1>4, <2>2, <2>3, <2>4 DEF HostInv, H!TypeOK
<1>7. ASSUME NEW h \in Host, h # g PROVE HostKept(h)'
  <2>1. HostKept(h) /\ locked[h] \in HostTask \cup {NoTask}
    BY HostTypes DEF HostInv
  <2>2. locked[h] # t
    BY <1>1, <1>2, <1>7, <2>1 DEF HostKept, LockKept
  <2>3. /\ hostPermits'[h] = hostPermits[h] /\ hostToAdd'[h] = hostToAdd[h]
        /\ since'[h] = since[h] /\ hostIdeal'[h] = hostIdeal[h] /\ locked'[h] = locked[h]
        /\ locked[h] # NoTask => hostPc'[locked[h]] = hostPc[locked[h]]
    BY <1>4, <1>5, <1>7, <2>1, <2>2 DEF HostInv, H!TypeOK
  <2> QED BY <1>4, <2>1, <2>3, HostElsewhere
<1>8. HostKept(g)'
  <2>1. /\ hostPermits'[g] = hostPermits[g] + hostToAdd[g] /\ hostToAdd'[g] = 0
        /\ hostFractional'[g] = hostFractional[g] /\ since'[g] = age[t]
        /\ locked'[g] = NoTask /\ hostIdeal'[g] = i /\ g \in made'
    BY <1>1, <1>4, <1>5 DEF HostInv, H!TypeOK, TaskKept
  <2>2. HostLevel(g)' = HostLevel(g) /\ Uncounted(g)' = age[t]
    <3>1. hostPermits[g] + hostToAdd[g] + 0 = hostPermits[g] + hostToAdd[g]
      BY <1>2
    <3> QED BY <2>1, <3>1 DEF HostLevel, Uncounted
  <2>3. HostLevel(g) \in Int /\ H!IdealCap \in Int
    BY <1>2, HostBucketAssumption DEF HostLevel, H!IdealCap, HostAssumption
  <2>4. Covered(g)
    BY DEF HostInv, HostKept
  <2>5. HostLevel(g) + hostRps * age[t] <= i \/ H!IdealCap <= i
    <3>1. CASE age[t] > since[g]
      <4> DEFINE p == hostRps * since[g]
                 q == hostRps * (age[t] - since[g])
                 r == hostRps * age[t]
                 l == HostLevel(g)
                 c == H!IdealCap
                 j == hostIdeal[g]
      <4>1. r = p + q /\ p \in Nat /\ q \in Nat
        <5>1. age[t] - since[g] \in Nat /\ since[g] + (age[t] - since[g]) = age[t]
          BY <1>2, <3>1
        <5>2. PICK d \in Nat : d = age[t] - since[g]
          BY <5>1
        <5>3. hostRps * (since[g] + d) = hostRps * since[g] + hostRps * d /\ hostRps * since[g] \in Nat /\ hostRps * d \in Nat
          BY <1>2, TimesSplit, HostBucketAssumption
        <5> QED BY <5>1, <5>2, <5>3
      <4>2. l + p <= j \/ c <= j
        BY <1>1, <1>2, <2>4, <3>1 DEF Covered, Uncounted
      <4>3. i = IF j + q <= c THEN j + q ELSE c
        BY <1>3, <3>1 DEF H!AtMost
      <4>4. l \in Int /\ c \in Int /\ j \in Int
        BY <1>2, <2>3
      <4> HIDE DEF p, q, r, l, c, j
      <4>5. l + r <= i \/ c <= i
        BY <4>1, <4>2, <4>3, <4>4
      <4> QED BY <4>5 DEF l, r, c
    <3>2. CASE ~(age[t] > since[g])
      <4>1. Uncounted(g) = age[t]
        BY <1>1, <1>2, <3>2 DEF Uncounted
      <4> QED BY <1>3, <2>4, <3>2, <4>1 DEF Covered
    <3> QED BY <3>1, <3>2
  <2>6. Covered(g)'
    BY <2>1, <2>2, <2>5 DEF Covered, H!IdealCap
  <2>7. (hostPermits[g] + hostToAdd[g] <= hostCapacity)' /\ (HostLevel(g) <= HostUnit * hostCapacity)'
    BY <1>2, <2>1, <2>2 DEF HostInv, HostKept
  <2> QED BY <2>1, <2>6, <2>7 DEF HostKept, LockKept
<1>9. ASSUME NEW u \in HostTask PROVE TaskKept(u)'
  <2>1. TaskKept(u) /\ age[u] \in Nat /\ host[u] \in Host /\ MaxStall \in Nat
    BY TaskTypes DEF HostInv, HostAssumption
  <2>2. host[u] = g => since'[host[u]] <= age[u] + MaxStall
    BY <1>2, <1>4, <2>1 DEF HostInv, H!TypeOK
  <2>3. host[u] # g => since'[host[u]] = since[host[u]] /\ locked'[host[u]] = locked[host[u]]
    BY <1>4, <2>1 DEF HostInv, H!TypeOK
  <2>4. CASE u = t
    BY <1>1, <1>4, <2>1, <2>2, <2>4 DEF HostInv, H!TypeOK, TaskKept
  <2>5. CASE u # t
    <3>1. hostPc'[u] = hostPc[u]
      BY <1>4, <2>5 DEF HostInv, H!TypeOK
    <3>2. hostPc[u] = "refilling" => host[u] # g
      BY <1>1, <2>1, <2>5 DEF TaskKept
    <3> QED BY <1>4, <2>1, <2>2, <2>3, <3>1, <3>2 DEF TaskKept
  <2> QED BY <2>4, <2>5
<1> QED BY <1>6, <1>7, <1>8, <1>9 DEF HostInv

\* A full ideal bucket covers the bucket of a host as long as no more than two
\* preemptions are uncounted.
LEMMA FullIdealCovers ==
    ASSUME HostAssumption, NEW l \in Int, NEW k \in Nat, l <= HostUnit * hostCapacity, k <= 2 * MaxStall
    PROVE  l + hostRps * k <= H!IdealCap
<1> DEFINE p == hostRps * k
           q == hostRps * (2 * MaxStall)
           u == HostUnit * hostCapacity
<1>1. p <= q
  BY TimesMonotone, HostBucketAssumption DEF HostAssumption
<1>2. p \in Int /\ q \in Int /\ u \in Int /\ H!IdealCap = u + q
  BY HostBucketAssumption DEF HostAssumption, H!IdealCap
<1> HIDE DEF p, q, u
<1>3. l <= u
  BY DEF u
<1>4. l + p <= u + q
  BY <1>1, <1>2, <1>3
<1> QED BY <1>2, <1>4 DEF p

\* A permit is taken: bucket and ideal bucket pay the same.
LEMMA HostTryStep ==
    ASSUME HostAssumption, HostInv, NEW t \in HostTask, H!TryAcquire(t)
    PROVE  HostInv'
<1>1. PICK g \in Host : g = host[t] /\ hostPc[t] = "trying" /\ hostPermits[g] > 0
  BY TaskTypes DEF HostInv, H!TryAcquire
<1>2. /\ hostPermits[g] \in Nat /\ hostToAdd[g] \in Nat /\ hostFractional[g] \in Nat
      /\ since[g] \in Nat /\ hostIdeal[g] \in Int /\ age[t] \in Nat /\ age[t] <= MaxStall
      /\ locked[g] \in HostTask \cup {NoTask} /\ MaxStall \in Nat
  BY HostTypes, TaskTypes DEF HostInv, HostAssumption
<1>3. /\ hostPermits' = [hostPermits EXCEPT ![g] = @ - 1]
      /\ hostIdeal' = [hostIdeal EXCEPT ![g] = @ - HostUnit]
      /\ hostPc' = [hostPc EXCEPT ![t] = "admitted"]
      /\ age' = [age EXCEPT ![t] = 0]
      /\ UNCHANGED <<made, since, hostFractional, locked, hostToAdd, host, wait, hostCancelled>>
  BY <1>1 DEF H!TryAcquire
<1>4. H!TypeOK'
  <2>1. hostPermits' \in [Host -> Nat] /\ hostIdeal' \in [Host -> Int]
    BY <1>1, <1>2, <1>3, HostBucketAssumption DEF HostInv, H!TypeOK
  <2>2. age' \in [HostTask -> 0 .. MaxStall]
    BY <1>2, <1>3 DEF HostInv, H!TypeOK
  <2> QED BY <1>3, <2>1, <2>2 DEF HostInv, H!TypeOK, H!Synchronous
<1>5. ASSUME NEW h \in Host
      PROVE  /\ HostKept(h) /\ locked[h] # t
             /\ locked[h] # NoTask => /\ locked[h] \in HostTask
                                      /\ hostPc'[locked[h]] = hostPc[locked[h]]
                                      /\ age'[locked[h]] = age[locked[h]]
  <2>1. HostKept(h) /\ locked[h] \in HostTask \cup {NoTask}
    BY HostTypes DEF HostInv
  <2>2. locked[h] # t
    BY <1>1, <2>1 DEF HostKept, LockKept, HostAssumption
  <2> QED BY <1>3, <2>1, <2>2 DEF HostInv, H!TypeOK
<1>6. ASSUME NEW h \in Host, h # g PROVE HostKept(h)'
  <2>1. hostPermits'[h] = hostPermits[h] /\ hostIdeal'[h] = hostIdeal[h]
    BY <1>3, <1>6 DEF HostInv, H!TypeOK
  <2> QED BY <1>3, <1>5, <2>1, HostElsewhere
<1>7. HostKept(g)'
  <2>1. /\ hostPermits'[g] = hostPermits[g] - 1 /\ hostIdeal'[g] = hostIdeal[g] - HostUnit
        /\ g \in made'
    BY <1>1, <1>3 DEF HostInv, H!TypeOK, TaskKept
  <2>2. Uncounted(g)' = Uncounted(g)
    BY <1>3, <1>5 DEF Uncounted
  <2>3. HostLevel(g)' = HostLevel(g) - HostUnit /\ HostLevel(g) \in Int
    <3>1. PICK m \in Nat : m = hostPermits[g] + hostToAdd[g] - 1
      BY <1>1, <1>2
    <3>2. hostPermits'[g] + hostToAdd'[g] = m /\ hostPermits[g] + hostToAdd[g] = m + 1
      BY <1>2, <1>3, <2>1, <3>1
    <3>3. HostUnit * (m + 1) = HostUnit * m + HostUnit /\ HostUnit * m \in Int /\ HostUnit \in Int
      BY <3>1, HostBucketAssumption
    <3>4. HostLevel(g) = HostUnit * m + HostUnit + hostFractional[g]
      BY <3>2, <3>3 DEF HostLevel
    <3>5. HostLevel(g)' = HostUnit * m + hostFractional[g]
      BY <1>3, <3>2 DEF HostLevel
    <3> DEFINE x == HostUnit * m
    <3> HIDE DEF x
    <3>6. HostLevel(g) = x + HostUnit + hostFractional[g] /\ HostLevel(g)' = x + hostFractional[g] /\ x \in Int
      BY <3>3, <3>4, <3>5 DEF x
    <3> QED BY <1>2, <3>3, <3>6
  <2>4. Uncounted(g) \in Nat /\ Uncounted(g) <= 2 * MaxStall
    <3>1. CASE locked[g] = NoTask
      <4>1. since[g] <= age[t] + MaxStall
        BY <1>1 DEF HostInv, TaskKept
      <4> QED BY <1>2, <3>1, <4>1 DEF Uncounted
    <3>2. CASE locked[g] # NoTask
      <4>1. age[locked[g]] \in Nat /\ age[locked[g]] <= MaxStall
        BY <1>2, <3>2, TaskTypes DEF HostInv
      <4> QED BY <1>2, <3>2, <4>1 DEF Uncounted
    <3> QED BY <3>1, <3>2
  <2>5. HostLevel(g) + hostRps * Uncounted(g) <= hostIdeal[g]
    <3>1. HostLevel(g) <= HostUnit * hostCapacity /\ Covered(g)
      BY <1>5 DEF HostKept
    <3>2. HostLevel(g) + hostRps * Uncounted(g) <= H!IdealCap
      BY <2>3, <2>4, <3>1, FullIdealCovers
    <3>3. hostRps * Uncounted(g) \in Int /\ H!IdealCap \in Int
      BY <1>2, <2>4, HostBucketAssumption DEF H!IdealCap
    <3> DEFINE p == hostRps * Uncounted(g)
    <3> HIDE DEF p
    <3>4. HostLevel(g) + p <= hostIdeal[g]
      BY <1>2, <2>3, <3>1, <3>2, <3>3 DEF Covered, p
    <3> QED BY <3>4 DEF p
  <2>6. Covered(g)'
    <3> DEFINE p == hostRps * Uncounted(g)
    <3>1. p \in Int /\ HostUnit \in Int
      BY <2>4, HostBucketAssumption
    <3> HIDE DEF p
    <3>2. (HostLevel(g) - HostUnit) + p <= hostIdeal[g] - HostUnit
      BY <1>2, <2>3, <2>5, <3>1 DEF p
    <3> QED BY <2>1, <2>2, <2>3, <3>2 DEF Covered, p
  <2>7. (hostPermits[g] + hostToAdd[g] <= hostCapacity)'
    <3>1. hostPermits[g] + hostToAdd[g] <= hostCapacity
      BY <1>5 DEF HostKept
    <3> QED BY <1>2, <1>3, <2>1, <3>1, HostBucketAssumption
  <2>8. (HostLevel(g) <= HostUnit * hostCapacity)'
    <3>1. HostLevel(g) <= HostUnit * hostCapacity /\ HostUnit * hostCapacity \in Int
      BY <1>5, HostBucketAssumption DEF HostKept
    <3> QED BY <2>3, <3>1, HostBucketAssumption
  <2>9. LockKept(g)'
    BY <1>3, <1>5 DEF HostKept, LockKept
  <2> QED BY <2>1, <2>6, <2>7, <2>8, <2>9 DEF HostKept
<1>8. ASSUME NEW u \in HostTask PROVE TaskKept(u)'
  <2>1. TaskKept(u) /\ TaskKept(t)
    BY DEF HostInv
  <2>2. CASE u = t
    BY <1>1, <1>3, <2>1, <2>2 DEF HostInv, H!TypeOK, TaskKept
  <2>3. CASE u # t
    BY <1>3, <2>1, <2>3 DEF HostInv, H!TypeOK, TaskKept
  <2> QED BY <2>2, <2>3
<1> QED BY <1>4, <1>6, <1>7, <1>8 DEF HostInv

\* Time passes: a bucket earns at most what the ideal one does.
LEMMA HostAdvanceStep ==
    ASSUME HostAssumption, HostInv, H!Advance
    PROVE  HostInv'
<1>1. /\ age' = [t \in HostTask |-> IF hostPc[t] \in H!Synchronous THEN age[t] + 1 ELSE age[t]]
      /\ since' = [h \in Host |-> IF h \in made THEN H!AtMost(since[h] + 1, H!MaxSince) ELSE 0]
      /\ hostIdeal' = [h \in Host |-> H!AtMost(hostIdeal[h] + hostRps, IF h \in made THEN H!IdealCap
                                                                  ELSE HostUnit * hostCapacity)]
      /\ UNCHANGED <<made, hostPermits, hostFractional, locked, hostToAdd, hostPc, host, hostCancelled>>
      /\ \A t \in HostTask : hostPc[t] \in H!Synchronous => age[t] < MaxStall
      /\ wait' = [t \in HostTask |-> IF wait[t] > 0 THEN wait[t] - 1 ELSE 0]
  BY DEF H!Advance
<1>2. H!MaxSince \in Nat /\ H!IdealCap \in Int /\ HostUnit * hostCapacity \in Nat /\ H!RetryDelay \in Nat
  BY HostBucketAssumption DEF HostAssumption, H!MaxSince, H!IdealCap, H!RetryDelay
<1>3. H!TypeOK'
  <2>1. age' \in [HostTask -> 0 .. MaxStall]
    <3>1. ASSUME NEW t \in HostTask PROVE age'[t] \in 0 .. MaxStall
      <4>1. age'[t] = IF hostPc[t] \in H!Synchronous THEN age[t] + 1 ELSE age[t]
        BY <1>1
      <4> QED BY <1>1, <4>1, TaskTypes DEF HostInv, HostAssumption
    <3> QED BY <1>1, <3>1
  <2>2. since' \in [Host -> 0 .. H!MaxSince]
    <3>1. ASSUME NEW h \in Host PROVE since'[h] \in 0 .. H!MaxSince
      <4>1. since'[h] = IF h \in made THEN H!AtMost(since[h] + 1, H!MaxSince) ELSE 0
        BY <1>1
      <4> QED BY <1>2, <4>1, HostTypes DEF HostInv, H!AtMost
    <3> QED BY <1>1, <3>1
  <2>3. hostIdeal' \in [Host -> Int]
    <3>1. ASSUME NEW h \in Host PROVE hostIdeal'[h] \in Int
      <4>1. hostIdeal'[h] = H!AtMost(hostIdeal[h] + hostRps, IF h \in made THEN H!IdealCap
                                                        ELSE HostUnit * hostCapacity)
        BY <1>1
      <4> QED BY <1>2, <4>1, HostTypes, HostBucketAssumption DEF HostInv, H!AtMost
    <3> QED BY <1>1, <3>1
  <2>4. wait' \in [HostTask -> 0 .. H!RetryDelay]
    <3>1. ASSUME NEW t \in HostTask PROVE wait'[t] \in 0 .. H!RetryDelay
      <4>1. wait'[t] = (IF wait[t] > 0 THEN wait[t] - 1 ELSE 0) /\ wait[t] \in 0 .. H!RetryDelay
        BY <1>1 DEF HostInv, H!TypeOK
      <4> QED BY <1>2, <4>1
    <3> QED BY <1>1, <3>1
  <2> QED BY <1>1, <2>1, <2>2, <2>3, <2>4 DEF HostInv, H!TypeOK
<1>4. ASSUME NEW h \in Host PROVE HostKept(h)'
  <2>1. /\ HostKept(h) /\ since[h] \in Nat /\ hostIdeal[h] \in Int
        /\ locked[h] \in HostTask \cup {NoTask}
        /\ hostPermits[h] \in Nat /\ hostToAdd[h] \in Nat /\ hostFractional[h] \in Nat
    BY HostTypes DEF HostInv
  <2>2. HostLevel(h)' = HostLevel(h) /\ LockKept(h)' /\ HostLevel(h) \in Int
    <3>1. HostLevel(h)' = HostLevel(h) /\ LockKept(h)'
      BY <1>1, <2>1 DEF HostLevel, HostKept, LockKept
    <3> QED BY <2>1, <3>1, HostBucketAssumption DEF HostLevel
  <2>3. CASE h \in made
    <3>1. since'[h] = H!AtMost(since[h] + 1, H!MaxSince) /\ since'[h] \in Nat /\ since'[h] <= since[h] + 1
      <4>1. since'[h] = H!AtMost(since[h] + 1, H!MaxSince)
        BY <1>1, <2>3
      <4> QED BY <1>2, <2>1, <4>1 DEF H!AtMost
    <3>2. Uncounted(h)' \in Nat /\ Uncounted(h) \in Nat /\ Uncounted(h)' <= Uncounted(h) + 1
      <4>1. CASE locked[h] = NoTask
        BY <1>1, <2>1, <3>1, <4>1 DEF Uncounted
      <4>2. CASE locked[h] # NoTask
        <5>1. locked[h] \in HostTask /\ hostPc[locked[h]] = "refilling"
          BY <2>1, <4>2 DEF HostKept, LockKept
        <5>2. age[locked[h]] \in Nat /\ age'[locked[h]] = age[locked[h]] + 1
          BY <1>1, <5>1, TaskTypes DEF HostInv, H!Synchronous
        <5>3. locked'[h] = locked[h]
          BY <1>1
        <5> QED BY <2>1, <3>1, <4>2, <5>2, <5>3 DEF Uncounted
      <4> QED BY <4>1, <4>2
    <3>3. hostRps * Uncounted(h)' <= hostRps * Uncounted(h) + hostRps
      <4>1. hostRps * Uncounted(h)' <= hostRps * (Uncounted(h) + 1)
        BY <3>2, TimesMonotone, HostBucketAssumption
      <4>2. hostRps * (Uncounted(h) + 1) = hostRps * Uncounted(h) + hostRps
        BY <3>2, HostBucketAssumption
      <4> QED BY <4>1, <4>2
    <3>4. hostIdeal'[h] = H!AtMost(hostIdeal[h] + hostRps, H!IdealCap)
      BY <1>1, <2>3
    <3>5. Covered(h)'
      <4> DEFINE p == hostRps * Uncounted(h)
                 q == hostRps * Uncounted(h)'
                 l == HostLevel(h)
                 c == H!IdealCap
      <4>1. p \in Int /\ q \in Int /\ q <= p + hostRps /\ l \in Int /\ c \in Int /\ hostRps \in Nat
        BY <1>2, <2>2, <3>2, <3>3, HostBucketAssumption
      <4>2. l + p <= hostIdeal[h] \/ c <= hostIdeal[h]
        BY <2>1 DEF HostKept, Covered
      <4>3. hostIdeal'[h] = IF hostIdeal[h] + hostRps <= c THEN hostIdeal[h] + hostRps ELSE c
        BY <3>4 DEF H!AtMost
      <4> HIDE DEF p, q, l, c
      <4>4. l + q <= hostIdeal'[h] \/ c <= hostIdeal'[h]
        BY <2>1, <4>1, <4>2, <4>3
      <4> QED BY <2>2, <4>4 DEF Covered, H!IdealCap, l, q, c
    <3> QED BY <1>1, <2>1, <2>2, <2>3, <3>5 DEF HostKept
  <2>4. CASE h \notin made
    <3>1. Unmade(h)
      BY <2>1, <2>4 DEF HostKept
    <3>2. hostIdeal'[h] = HostUnit * hostCapacity /\ since'[h] = 0
      <4>1. hostIdeal'[h] = H!AtMost(hostIdeal[h] + hostRps, HostUnit * hostCapacity) /\ since'[h] = 0
        BY <1>1, <2>4
      <4>2. hostIdeal[h] = HostUnit * hostCapacity
        BY <3>1 DEF Unmade
      <4> DEFINE u == HostUnit * hostCapacity
      <4>3. u \in Nat /\ hostRps \in Nat
        BY <1>2, HostBucketAssumption
      <4> HIDE DEF u
      <4>4. hostIdeal'[h] = IF u + hostRps <= u THEN u + hostRps ELSE u
        BY <4>1, <4>2 DEF H!AtMost, u
      <4>5. hostIdeal'[h] = u
        BY <4>3, <4>4, HostBucketAssumption
      <4> QED BY <4>1, <4>5 DEF u
    <3>3. Unmade(h)'
      BY <1>1, <3>1, <3>2 DEF Unmade
    <3>4. HostLevel(h)' = 0 /\ Uncounted(h)' = 0
      <4>1. HostUnit * (0 + 0) + 0 = 0
        BY HostBucketAssumption
      <4> QED BY <3>2, <3>3, <4>1 DEF HostLevel, Uncounted, Unmade
    <3>5. Covered(h)'
      <4>1. 0 + hostRps * 0 = 0 /\ 0 <= HostUnit * hostCapacity
        BY <1>2, HostBucketAssumption
      <4> QED BY <3>2, <3>4, <4>1 DEF Covered
    <3> QED BY <1>1, <2>1, <2>2, <3>3, <3>5 DEF HostKept
  <2> QED BY <2>3, <2>4
<1>5. ASSUME NEW t \in HostTask PROVE TaskKept(t)'
  <2>1. TaskKept(t) /\ host[t] \in Host /\ age[t] \in Nat /\ MaxStall \in Nat
    BY TaskTypes DEF HostInv, HostAssumption
  <2>2. ASSUME hostPc[t] = "trying" PROVE since'[host[t]] <= age'[t] + MaxStall
    <3>1. host[t] \in made /\ since[host[t]] <= age[t] + MaxStall /\ since[host[t]] \in Nat
      BY <2>1, <2>2, HostTypes DEF TaskKept, HostInv
    <3>2. age'[t] = age[t] + 1
      BY <1>1, <2>2 DEF H!Synchronous
    <3>3. since'[host[t]] = H!AtMost(since[host[t]] + 1, H!MaxSince)
      BY <1>1, <2>1, <3>1
    <3> QED BY <1>2, <2>1, <3>1, <3>2, <3>3 DEF H!AtMost
  <2> QED BY <1>1, <2>1, <2>2 DEF TaskKept
<1> QED BY <1>3, <1>4, <1>5 DEF HostInv

LEMMA HostNextInv ==
    ASSUME HostAssumption, HostInv, [H!Next]_(H!vars)
    PROVE  HostInv'
<1>1. ASSUME NEW t \in HostTask, H!Acquire(t) \/ H!Run(t) PROVE HostInv'
  BY <1>1, HostAcquireStep, HostPollSteps, HostLockStep, HostUnlockStep, HostTryStep
  DEF H!Run
<1>2. ASSUME H!Cancel \/ UNCHANGED H!vars PROVE HostInv'
  <2>1. UNCHANGED <<made, hostPermits, since, hostFractional, locked, hostToAdd, hostIdeal,
                    hostPc, host, age, wait>> /\ (hostCancelled' \in BOOLEAN)
    BY <1>2 DEF H!Cancel, H!vars, H!bucketVars, H!taskVars, HostInv, H!TypeOK
  <2>2. H!TypeOK'
    BY <2>1 DEF HostInv, H!TypeOK
  <2>3. \A h \in Host : HostKept(h)'
    BY <2>1, HostElsewhere DEF HostInv
  <2>4. \A t \in HostTask : TaskKept(t)'
    BY <2>1 DEF HostInv, TaskKept
  <2> QED BY <2>2, <2>3, <2>4 DEF HostInv
<1> QED BY <1>1, <1>2, HostAdvanceStep DEF H!Next

\* A bucket of a host never holds more than its burst, and its tasks are never admitted
\* faster than an ideal bucket of the configured rate allows that is credited for the time
\* a stale clock reading rewinds: for every rate, burst, number of tasks and hosts and
\* length of preemption, whichever tasks make, refill and drain the bucket
\* (host_rate_limiter.rs).
THEOREM HostLimitsHold ==
    ASSUME HostAssumption
    PROVE  HostSpec => []HostWithinLimits
<1>1. H!Init => HostInv
  BY HostInitInv
<1>2. HostInv /\ [H!Next]_(H!vars) => HostInv'
  BY HostNextInv
<1>3. HostInv => HostWithinLimits
  <2> SUFFICES ASSUME HostInv PROVE H!HostWithinLimits
    BY DEF HostWithinLimits
  <2>1. H!HostBurstBound
    BY DEF HostInv, H!TypeOK, H!HostBurstBound, HostKept, HostLevel
  <2>2. ASSUME NEW h \in Host PROVE hostIdeal[h] >= 0
    <3>1. /\ hostPermits[h] \in Nat /\ hostToAdd[h] \in Nat /\ hostFractional[h] \in Nat
          /\ since[h] \in Nat /\ hostIdeal[h] \in Int /\ locked[h] \in HostTask \cup {NoTask}
      BY HostTypes DEF HostInv
    <3>2. Uncounted(h) \in Nat
      BY <3>1, TaskTypes DEF HostInv, Uncounted
    <3>3. HostLevel(h) \in Nat /\ hostRps * Uncounted(h) \in Nat
      BY <3>1, <3>2, HostBucketAssumption DEF HostLevel
    <3>4. H!IdealCap \in Nat
      <4>1. HostUnit * hostCapacity \in Nat /\ 2 * hostRps * MaxStall \in Nat
        BY HostBucketAssumption DEF HostAssumption
      <4> QED BY <4>1 DEF H!IdealCap
    <3>5. Covered(h)
      BY DEF HostInv, HostKept
    <3> QED BY <3>1, <3>3, <3>4, <3>5 DEF Covered
  <2> QED BY <2>1, <2>2 DEF H!HostWithinLimits, H!HostBudget
<1> QED BY <1>1, <1>2, <1>3, PTL DEF HostSpec, H!Spec
=============================================================================
