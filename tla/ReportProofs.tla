---------------------------- MODULE ReportProofs ----------------------------
(***************************************************************************)
(* Proofs about what a scan shows: the answers of the status server, the   *)
(* technologies reported of a page, the rows of an export.  For every      *)
(* number of URLs and requests, every catalog and page, every set of       *)
(* domains and commands, however the steps interleave.                     *)
(***************************************************************************)
EXTENDS StatusServer, Export, Detection, FiniteSetTheorems, SequenceTheorems, WellFoundedInduction, TLAPS

(* The status server.                                                      *)

Flying == {u \in Urls : url[u] \in {"running", "skipping"}}
EndedUrls == {u \in Urls : url[u] = "ended"}

Typed ==
    /\ url \in [Urls -> {"waiting", "skipping", "running", "abandoned", "ended"}]
    /\ counter \in [Counters -> Nat] /\ phase \in 1 .. 3
    /\ pc \in [Requests -> 0 .. 7] /\ view \in [Requests -> [Counters -> Nat]]
    /\ said \in [Requests -> 0 .. 3]
    /\ before \in [Requests -> Nat] /\ peak \in [Requests -> Nat]

(* What has been attempted is finished or in flight, however often the     *)
(* drain counts it; while scanning every finished URL is counted once.     *)
CountInv ==
    /\ counter.attempted <= Finished(counter) + InFlight
    /\ phase = 1 => /\ Finished(counter) <= Cardinality(EndedUrls)
                    /\ \A u \in Urls : url[u] # "abandoned"

(* The finished count of a request that is under way: what it has loaded,  *)
(* and the present value of what it has yet to load.                       *)
Mixed(r) ==
    (IF pc[r] > 2 THEN view[r].successful ELSE counter.successful)
      + (IF pc[r] > 3 THEN view[r].failed ELSE counter.failed)
      + (IF pc[r] > 4 THEN view[r].skipped ELSE counter.skipped)

(* A request's finished count lies between its bounds at every step, and   *)
(* `attempted`, loaded first, is covered by it and by the busiest moment.  *)
ViewOf(r) ==
    /\ \A k \in Counters : view[r][k] <= counter[k]
    /\ pc[r] >= 1 => before[r] <= Mixed(r)
    /\ pc[r] >= 2 => view[r].attempted <= peak[r] + Mixed(r)
ViewInv == \A r \in Requests : ViewOf(r)

(* What a request that reads "scanning" as its phase has seen.             *)
SaidOf(r) ==
    pc[r] = 7 =>
        /\ said[r] \in 1 .. 3
        /\ said[r] = 1 => /\ Finished(view[r]) <= Total
                          /\ Finished(view[r]) = Total => \A u \in Urls : url[u] = "ended"
SaidInv == \A r \in Requests : SaidOf(r)

(* A rate is so many URLs in at least one second, the scan has run for     *)
(* some time when a request comes in.                                      *)
RateInv ==
    /\ now \in Nat
    /\ elapsed \in [Requests -> Nat] /\ \A r \in Requests : pc[r] > 0 => elapsed[r] > 0
    /\ window \in [prev_at : Nat, prev_finished : Nat, rate : Nat \X (Nat \ {0})]
    /\ rate \in [Requests -> Nat \X (Nat \ {0})]

Inv == Typed /\ CountInv /\ ViewInv /\ SaidInv /\ RateInv

-----------------------------------------------------------------------------

LEMMA SomeUrls ==
    ASSUME NEW S \in SUBSET Urls
    PROVE  /\ IsFiniteSet(S) /\ Cardinality(S) \in Nat /\ Total \in Nat
           /\ Cardinality(S) <= Total /\ (Cardinality(S) = Total => S = Urls)
<1>1. IsFiniteSet(S) /\ Cardinality(S) <= Cardinality(Urls) /\ (Cardinality(S) = Cardinality(Urls) => S = Urls)
  BY StatusAssumption, FS_Subset
<1>2. Cardinality(S) \in Nat /\ Cardinality(Urls) \in Nat
  BY <1>1, StatusAssumption, FS_CardinalityType
<1>3. QED
  BY <1>1, <1>2 DEF Total

LEMMA FlyingTyped ==
    /\ InFlight = Cardinality(Flying) /\ InFlight \in Nat
    /\ IsFiniteSet(Flying) /\ IsFiniteSet(EndedUrls) /\ Cardinality(EndedUrls) \in Nat
<1>1. Flying \in SUBSET Urls /\ EndedUrls \in SUBSET Urls
  BY DEF Flying, EndedUrls
<1>2. InFlight = Cardinality(Flying)
  BY DEF InFlight, Flying
<1>3. QED
  BY <1>1, <1>2, SomeUrls

LEMMA CountersTyped ==
    ASSUME Typed
    PROVE  /\ counter.attempted \in Nat /\ counter.successful \in Nat
           /\ counter.failed \in Nat /\ counter.skipped \in Nat /\ Finished(counter) \in Nat
           /\ \A r \in Requests : /\ view[r].attempted \in Nat /\ view[r].successful \in Nat
                                  /\ view[r].failed \in Nat /\ view[r].skipped \in Nat
                                  /\ Finished(view[r]) \in Nat /\ Mixed(r) \in Nat
  BY DEF Typed, Counters, Finished, Mixed

LEMMA InitInv == ASSUME StatusInit PROVE Inv
<1>1. Typed
  BY DEF StatusInit, Typed, Zero, Counters
<1>2. /\ counter.attempted = 0 /\ Finished(counter) = 0
      /\ \A k \in Counters : counter[k] = 0
  BY DEF StatusInit, Zero, Counters, Finished
<1>3. CountInv
  BY <1>2, FlyingTyped DEF CountInv, StatusInit
<1>4. ViewInv
  BY DEF ViewInv, ViewOf, StatusInit, Zero
<1>5. SaidInv /\ RateInv
  BY DEF SaidInv, SaidOf, RateInv, StatusInit
<1>6. QED
  BY <1>1, <1>3, <1>4, <1>5 DEF Inv

(* The busiest moment of a request is kept up to date by every step.       *)
LEMMA PeakKept ==
    ASSUME Inv, Recorded, pc' \in [Requests -> 0 .. 7]
    PROVE  /\ peak' \in [Requests -> Nat] /\ InFlight' \in Nat
           /\ \A r \in Requests : pc'[r] # 0 => peak[r] <= peak'[r] /\ InFlight' <= peak'[r]
<1>1. InFlight' \in Nat
  BY SomeUrls DEF InFlight
<1>2. QED
  BY <1>1 DEF Recorded, Inv, Typed

(* A step of the scan: counters only grow, and what has ended stays so.    *)
LEMMA ScanKeepsViews ==
    ASSUME Inv, Recorded, UNCHANGED <<pc, view, before, said>>,
           counter' \in [Counters -> Nat], \A k \in Counters : counter[k] <= counter'[k],
           \A u \in Urls : url[u] = "ended" => url'[u] = "ended"
    PROVE  ViewInv' /\ SaidInv' /\ peak' \in [Requests -> Nat]
<1>1. /\ peak' \in [Requests -> Nat]
      /\ \A r \in Requests : pc'[r] # 0 => peak[r] <= peak'[r]
  BY PeakKept DEF Inv, Typed
<1>2. ASSUME NEW r \in Requests PROVE ViewOf(r)'
  <2>1. /\ counter.successful <= counter'.successful /\ counter.failed <= counter'.failed
        /\ counter.skipped <= counter'.skipped
        /\ counter'.successful \in Nat /\ counter'.failed \in Nat /\ counter'.skipped \in Nat
    BY DEF Counters
  <2>2. Mixed(r) <= Mixed(r)' /\ Mixed(r)' \in Nat
    BY <2>1, CountersTyped DEF Mixed, Inv
  <2>3. ViewOf(r) /\ pc[r] \in 0 .. 7 /\ peak[r] \in Nat /\ before[r] \in Nat /\ peak'[r] \in Nat
    BY <1>1 DEF Inv, ViewInv, Typed
  <2>4. ASSUME NEW k \in Counters PROVE view'[r][k] <= counter'[k]
    BY <2>3 DEF ViewOf, Inv, Typed
  <2>5. QED
    BY <1>1, <2>2, <2>3, <2>4, CountersTyped DEF ViewOf, Inv
<1>3. SaidInv'
  BY DEF Inv, SaidInv, SaidOf, Finished, Total
<1>4. QED
  BY <1>1, <1>2, <1>3 DEF ViewInv

(* How one more URL of a kind changes the counts.                          *)
LEMMA BumpKept ==
    ASSUME Typed, NEW k \in Counters, NEW n \in Nat, Bump(k, n)
    PROVE  /\ counter' \in [Counters -> Nat] /\ \A j \in Counters : counter[j] <= counter'[j]
           /\ k = "attempted" => /\ counter'.attempted = counter.attempted + n
                                 /\ Finished(counter') = Finished(counter)
           /\ k # "attempted" => /\ counter'.attempted = counter.attempted
                                 /\ Finished(counter') = Finished(counter) + n
  BY DEF Typed, Bump, Counters, Finished

LEMMA DispatchKept == ASSUME Inv, Recorded, NEW u \in Urls, Dispatch(u) PROVE Inv'
<1>1. PICK s \in {"running", "skipping"} : url' = [url EXCEPT ![u] = s]
  BY DEF Dispatch
<1>2. /\ counter' \in [Counters -> Nat] /\ \A j \in Counters : counter[j] <= counter'[j]
      /\ counter'.attempted = counter.attempted + 1 /\ Finished(counter') = Finished(counter)
  BY BumpKept DEF Dispatch, Inv, Counters
<1>3. Flying' = Flying \cup {u} /\ u \notin Flying /\ EndedUrls' = EndedUrls
  BY <1>1 DEF Flying, EndedUrls, Dispatch, Inv, Typed
<1>4. InFlight' = InFlight + 1
  BY <1>3, FlyingTyped, FS_AddElement DEF InFlight, Flying
<1>5. CountInv'
  BY <1>1, <1>2, <1>3, <1>4, FlyingTyped, CountersTyped DEF CountInv, Inv, Typed, Dispatch
<1>6. ViewInv' /\ SaidInv' /\ peak' \in [Requests -> Nat]
  BY <1>1, <1>2, ScanKeepsViews DEF Dispatch, RequestsKept, Inv, Typed
<1>7. Typed' /\ RateInv'
  BY <1>1, <1>2, <1>6 DEF Inv, Typed, RateInv, Dispatch, RequestsKept
<1>8. QED
  BY <1>5, <1>6, <1>7 DEF Inv

LEMMA EndUrlKept == ASSUME Inv, Recorded, NEW u \in Urls, EndUrl(u) PROVE Inv'
<1>1. url' = [url EXCEPT ![u] = "ended"] /\ url[u] \in {"skipping", "running", "abandoned"}
      /\ UNCHANGED phase
  BY DEF EndUrl
<1>2. /\ counter' \in [Counters -> Nat] /\ \A j \in Counters : counter[j] <= counter'[j]
      /\ counter'.attempted = counter.attempted /\ Finished(counter') = Finished(counter) + 1
  BY BumpKept DEF EndUrl, Inv, Counters
<1>3. Flying' = Flying \ {u} /\ EndedUrls' = EndedUrls \cup {u} /\ u \notin EndedUrls
  BY <1>1 DEF Flying, EndedUrls, Inv, Typed
<1>4. InFlight' >= InFlight - 1 /\ InFlight' \in Nat /\ Cardinality(EndedUrls') = Cardinality(EndedUrls) + 1
  <2>1. InFlight' = Cardinality(Flying \ {u})
    BY <1>3 DEF InFlight, Flying
  <2>2. Cardinality(Flying \ {u}) \in {Cardinality(Flying) - 1, Cardinality(Flying)}
    BY FlyingTyped, FS_RemoveElement
  <2>3. Cardinality(EndedUrls \cup {u}) = Cardinality(EndedUrls) + 1
    BY <1>3, FlyingTyped, FS_AddElement
  <2>4. InFlight' \in Nat
    BY SomeUrls DEF InFlight
  <2>5. QED
    BY <1>3, <2>1, <2>2, <2>3, <2>4, FlyingTyped
<1>5. CountInv'
  <2>1. counter'.attempted <= Finished(counter') + InFlight'
    BY <1>2, <1>4, FlyingTyped, CountersTyped DEF CountInv, Inv
  <2>2. ASSUME phase' = 1 PROVE /\ Finished(counter') <= Cardinality(EndedUrls')
                               /\ \A v \in Urls : url'[v] # "abandoned"
    BY <1>1, <1>2, <1>4, <2>2, FlyingTyped, CountersTyped DEF CountInv, Inv, Typed
  <2>3. QED
    BY <2>1, <2>2 DEF CountInv
<1>6. ViewInv' /\ SaidInv' /\ peak' \in [Requests -> Nat]
  BY <1>1, <1>2, ScanKeepsViews DEF EndUrl, RequestsKept, Inv, Typed
<1>7. Typed' /\ RateInv'
  BY <1>1, <1>2, <1>6 DEF Inv, Typed, RateInv, EndUrl, RequestsKept
<1>8. QED
  BY <1>5, <1>6, <1>7 DEF Inv

LEMMA StartDrainKept == ASSUME Inv, Recorded, StartDrain PROVE Inv'
<1>1. UNCHANGED <<url, counter, pc, elapsed, view, before, said, window, rate, now>> /\ phase' = 2
  BY DEF StartDrain, RequestsKept
<1>2. CountInv'
  BY <1>1 DEF Inv, CountInv, InFlight
<1>3. ViewInv' /\ SaidInv' /\ peak' \in [Requests -> Nat]
  BY <1>1, ScanKeepsViews DEF Inv, Typed
<1>4. Typed' /\ RateInv'
  BY <1>1, <1>3 DEF Inv, Typed, RateInv
<1>5. QED
  BY <1>2, <1>3, <1>4 DEF Inv

LEMMA CountAbandonedKept == ASSUME Inv, Recorded, CountAbandoned PROVE Inv'
<1> DEFINE running == {u \in Urls : url[u] = "running"}
           n == Cardinality(running)
<1>1. running \in SUBSET Urls /\ IsFiniteSet(running) /\ n \in Nat
  BY SomeUrls
<1>2. /\ url' = [u \in Urls |-> IF u \in running THEN "abandoned" ELSE url[u]]
      /\ phase = 2 /\ UNCHANGED phase /\ Bump("failed", n)
      /\ UNCHANGED <<pc, elapsed, view, before, said, window, rate, now>>
  BY DEF CountAbandoned, RequestsKept
<1>3. /\ counter' \in [Counters -> Nat] /\ \A j \in Counters : counter[j] <= counter'[j]
      /\ counter'.attempted = counter.attempted /\ Finished(counter') = Finished(counter) + n
  <2> HIDE DEF n
  <2>1. QED
    BY <1>1, <1>2, BumpKept DEF Inv, Counters
<1>4. Flying = Flying' \cup running /\ Flying' \cap running = {} /\ Flying' \in SUBSET Urls
  BY <1>2 DEF Flying, Inv, Typed
<1>5. InFlight = InFlight' + n /\ InFlight' \in Nat
  <2>1. IsFiniteSet(Flying') /\ Cardinality(Flying') \in Nat
    BY <1>4, SomeUrls
  <2>2. Cardinality(Flying' \cup running) = Cardinality(Flying') + n - Cardinality({})
    <3> HIDE DEF running
    <3>1. QED
      BY <1>1, <1>4, <2>1, FS_Union
  <2>3. InFlight = Cardinality(Flying) /\ InFlight' = Cardinality(Flying')
    BY DEF InFlight, Flying
  <2>4. QED
    BY <1>1, <1>4, <2>1, <2>2, <2>3, FS_EmptySet
<1>6. CountInv'
  <2> HIDE DEF n
  <2>1. QED
    BY <1>1, <1>2, <1>3, <1>5, CountersTyped DEF CountInv, Inv
<1>7. ViewInv' /\ SaidInv' /\ peak' \in [Requests -> Nat]
  <2>1. \A u \in Urls : url[u] = "ended" => url'[u] = "ended"
    BY <1>2
  <2>2. QED
    BY <1>2, <1>3, <2>1, ScanKeepsViews
<1>8. url' \in [Urls -> {"waiting", "skipping", "running", "abandoned", "ended"}]
  BY <1>2 DEF Inv, Typed
<1>9. Typed' /\ RateInv'
  BY <1>2, <1>3, <1>7, <1>8 DEF Inv, Typed, RateInv
<1>10. QED
  BY <1>6, <1>7, <1>9 DEF Inv

LEMMA EndDrainKept == ASSUME Inv, Recorded, EndDrain PROVE Inv'
<1>1. /\ phase' = 3 /\ UNCHANGED <<counter, pc, elapsed, view, before, said, window, rate, now>>
      /\ url' = [u \in Urls |-> IF url[u] = "abandoned" THEN "ended" ELSE url[u]]
  BY DEF EndDrain, RequestsKept
<1>2. Flying' = Flying
  BY <1>1 DEF Flying, Inv, Typed
<1>3. CountInv'
  BY <1>1, <1>2 DEF Inv, CountInv, InFlight, Flying
<1>4. ViewInv' /\ SaidInv' /\ peak' \in [Requests -> Nat]
  <2>1. \A u \in Urls : url[u] = "ended" => url'[u] = "ended"
    BY <1>1
  <2>2. \A k \in Counters : counter[k] <= counter'[k]
    BY <1>1 DEF Inv, Typed
  <2>3. QED
    BY <1>1, <2>1, <2>2, ScanKeepsViews DEF Inv, Typed
<1>5. Typed' /\ RateInv'
  BY <1>1, <1>4 DEF Inv, Typed, RateInv
<1>6. QED
  BY <1>3, <1>4, <1>5 DEF Inv

-----------------------------------------------------------------------------
(* The server and its requests leave the scan alone.                       *)

LEMMA ScanCountsKept == ASSUME Inv, ScanKept PROVE CountInv'
  BY DEF Inv, CountInv, ScanKept, InFlight, EndedUrls, Finished

LEMMA ServerKept ==
    ASSUME Inv, Recorded, ScanKept, RequestsKept, now' \in Nat
    PROVE  Inv'
<1>1. ViewInv' /\ SaidInv' /\ peak' \in [Requests -> Nat]
  <2>1. \A k \in Counters : counter[k] <= counter'[k]
    BY DEF Inv, Typed, ScanKept
  <2>2. QED
    BY <2>1, ScanKeepsViews DEF Inv, Typed, ScanKept, RequestsKept
<1>2. Typed' /\ RateInv'
  BY <1>1 DEF Inv, Typed, RateInv, ScanKept, RequestsKept
<1>3. QED
  BY <1>1, <1>2, ScanCountsKept DEF Inv

(* A step of one request: the others see nothing of it.                    *)
LEMMA RequestKept ==
    ASSUME Inv, Recorded, ScanKept, NEW r \in Requests,
           pc' \in [Requests -> 0 .. 7], view' \in [Requests -> [Counters -> Nat]],
           said' \in [Requests -> 0 .. 3], before' \in [Requests -> Nat], RateInv',
           \A q \in Requests \ {r} : /\ pc'[q] = pc[q] /\ view'[q] = view[q]
                                     /\ said'[q] = said[q] /\ before'[q] = before[q],
           ViewOf(r)', SaidOf(r)'
    PROVE  Inv'
<1>1. /\ peak' \in [Requests -> Nat]
      /\ \A q \in Requests : pc'[q] # 0 => peak[q] <= peak'[q]
  BY PeakKept
<1>2. ASSUME NEW q \in Requests, q # r PROVE ViewOf(q)' /\ SaidOf(q)'
  <2>1. /\ pc'[q] = pc[q] /\ view'[q] = view[q] /\ said'[q] = said[q] /\ before'[q] = before[q]
        /\ UNCHANGED <<counter, url>>
    BY <1>2 DEF ScanKept
  <2>2. Mixed(q)' = Mixed(q)
    BY <2>1 DEF Mixed
  <2>3. ViewOf(q) /\ SaidOf(q) /\ Mixed(q) \in Nat /\ peak[q] \in Nat /\ peak'[q] \in Nat
        /\ pc[q] \in 0 .. 7 /\ view[q].attempted \in Nat
    BY <1>1, CountersTyped DEF Inv, ViewInv, SaidInv, Typed
  <2>4. ViewOf(q)'
    BY <1>1, <2>1, <2>2, <2>3 DEF ViewOf
  <2>5. SaidOf(q)'
    BY <2>1, <2>3 DEF SaidOf, Total
  <2>6. QED
    BY <2>4, <2>5
<1>3. ViewInv' /\ SaidInv'
  BY <1>2 DEF ViewInv, SaidInv
<1>4. Typed'
  BY <1>1 DEF Inv, Typed, ScanKept
<1>5. QED
  BY <1>3, <1>4, ScanCountsKept DEF Inv

LEMMA AcceptKept == ASSUME Inv, Recorded, NEW r \in Requests, Accept(r) PROVE Inv'
<1>1. /\ pc' = [pc EXCEPT ![r] = 1] /\ before' = [before EXCEPT ![r] = Finished(counter)]
      /\ elapsed' = [elapsed EXCEPT ![r] = 1]
      /\ ScanKept /\ UNCHANGED <<view, said, window, rate, now, counter>>
  BY DEF Accept, ScanKept
<1>2. /\ pc' \in [Requests -> 0 .. 7] /\ before' \in [Requests -> Nat]
      /\ pc'[r] = 1 /\ before'[r] = Finished(counter)
  BY <1>1, CountersTyped DEF Inv, Typed
<1>3. Mixed(r)' = Finished(counter)
  BY <1>1, <1>2 DEF Mixed, Finished
<1>4. ViewOf(r)'
  BY <1>1, <1>2, <1>3, CountersTyped DEF ViewOf, Inv, ViewInv
<1>5. SaidOf(r)' /\ RateInv'
  BY <1>1, <1>2 DEF SaidOf, RateInv, Inv, Typed
<1>6. QED
  BY <1>1, <1>2, <1>4, <1>5, RequestKept DEF Inv, Typed

(* progress_snapshot: `attempted` is loaded first.  From then on the sum   *)
(* of what is loaded and what is yet to be loaded only grows.              *)
LEMMA LoadKept == ASSUME Inv, Recorded, NEW r \in Requests, Load(r) PROVE Inv'
<1> DEFINE k == Reads[pc[r]]
<1>1. /\ pc[r] \in 1 .. 4 /\ pc' = [pc EXCEPT ![r] = pc[r] + 1]
      /\ view' = [view EXCEPT ![r] = [view[r] EXCEPT ![k] = counter[k]]]
      /\ ScanKept /\ UNCHANGED <<elapsed, said, window, rate, now, before, counter>>
  BY DEF Load, ScanKept
<1>2. /\ k \in Counters
      /\ pc[r] = 1 => k = "attempted"
      /\ pc[r] = 2 => k = "successful"
      /\ pc[r] = 3 => k = "failed"
      /\ pc[r] = 4 => k = "skipped"
  BY <1>1 DEF Reads, Counters
<1> HIDE DEF k
<1>3. /\ pc' \in [Requests -> 0 .. 7] /\ view' \in [Requests -> [Counters -> Nat]]
      /\ pc'[r] = pc[r] + 1
      /\ \A j \in Counters : view'[r][j] = IF j = k THEN counter[j] ELSE view[r][j]
  BY <1>1, <1>2 DEF Inv, Typed
<1>4. Mixed(r)' = Mixed(r)
  <2>1. /\ view'[r].successful = IF k = "successful" THEN counter.successful ELSE view[r].successful
        /\ view'[r].failed = IF k = "failed" THEN counter.failed ELSE view[r].failed
        /\ view'[r].skipped = IF k = "skipped" THEN counter.skipped ELSE view[r].skipped
    BY <1>3 DEF Counters
  <2>2. CASE pc[r] = 1
    BY <1>1, <1>2, <1>3, <2>1, <2>2 DEF Mixed
  <2>3. CASE pc[r] = 2
    BY <1>1, <1>2, <1>3, <2>1, <2>3 DEF Mixed
  <2>4. CASE pc[r] = 3
    BY <1>1, <1>2, <1>3, <2>1, <2>4 DEF Mixed
  <2>5. CASE pc[r] = 4
    BY <1>1, <1>2, <1>3, <2>1, <2>5 DEF Mixed
  <2>6. QED
    BY <1>1, <2>2, <2>3, <2>4, <2>5
<1>5. view'[r].attempted <= peak'[r] + Mixed(r)'
  <2>1. /\ peak[r] <= peak'[r] /\ InFlight' <= peak'[r] /\ InFlight' = InFlight
        /\ peak[r] \in Nat /\ peak'[r] \in Nat /\ InFlight \in Nat
    BY <1>1, <1>3, PeakKept, FlyingTyped DEF InFlight, ScanKept, Inv, Typed
  <2>2. CASE pc[r] = 1
    <3>1. view'[r].attempted = counter.attempted
      BY <1>2, <1>3, <2>2 DEF Counters
    <3>2. Mixed(r) = Finished(counter)
      BY <2>2 DEF Mixed, Finished
    <3>3. counter.attempted <= Finished(counter) + InFlight
      BY DEF Inv, CountInv
    <3>4. QED
      BY <1>4, <2>1, <3>1, <3>2, <3>3, CountersTyped DEF Inv
  <2>3. CASE pc[r] # 1
    <3>1. view'[r].attempted = view[r].attempted
      BY <1>1, <1>2, <1>3, <2>3 DEF Counters
    <3>2. view[r].attempted <= peak[r] + Mixed(r)
      BY <1>1, <2>3 DEF Inv, ViewInv, ViewOf
    <3>3. QED
      BY <1>4, <2>1, <3>1, <3>2, CountersTyped DEF Inv
  <2>4. QED
    BY <2>2, <2>3
<1>6. before'[r] <= Mixed(r)'
  BY <1>1, <1>4 DEF Inv, ViewInv, ViewOf
<1>7. ASSUME NEW j \in Counters PROVE view'[r][j] <= counter'[j]
  BY <1>1, <1>3 DEF Inv, ViewInv, ViewOf, Typed
<1>8. ViewOf(r)'
  BY <1>5, <1>6, <1>7 DEF ViewOf
<1>9. SaidOf(r)' /\ RateInv'
  BY <1>1, <1>3 DEF SaidOf, RateInv, Inv, Typed
<1>10. QED
  BY <1>1, <1>3, <1>8, <1>9, RequestKept DEF Inv, Typed

(* A rate is taken over at least one second, or is none.                   *)
LEMMA ObservedTyped ==
    ASSUME RateInv, NEW finished \in Nat
    PROVE  Observed(window, finished) \in [prev_at : Nat, prev_finished : Nat, rate : Nat \X (Nat \ {0})]
<1>1. window.prev_at \in Nat /\ window.prev_finished \in Nat /\ now \in Nat
  BY DEF RateInv
<1>2. Monus(finished, window.prev_finished) \in Nat
  BY <1>1 DEF Monus
<1>3. CASE now - window.prev_at >= 1
  <2>1. now - window.prev_at \in Nat \ {0}
    BY <1>1, <1>3
  <2>2. QED
    BY <1>1, <1>2, <1>3, <2>1 DEF Observed
<1>4. CASE ~(now - window.prev_at >= 1)
  BY <1>1, <1>4 DEF Observed, RateInv
<1>5. QED
  BY <1>3, <1>4

LEMMA ObserveKept == ASSUME Inv, Recorded, NEW r \in Requests, Observe(r) PROVE Inv'
<1>1. /\ pc[r] = 5 /\ pc' = [pc EXCEPT ![r] = 6] /\ window' = Observed(window, Finished(view[r]))
      /\ rate' = [rate EXCEPT ![r] = window'.rate]
      /\ ScanKept /\ UNCHANGED <<elapsed, said, view, now, before, counter>>
  BY DEF Observe, ScanKept
<1>2. pc' \in [Requests -> 0 .. 7] /\ pc'[r] = 6
  BY <1>1 DEF Inv, Typed
<1>3. RateInv'
  <2>1. window' \in [prev_at : Nat, prev_finished : Nat, rate : Nat \X (Nat \ {0})]
    BY <1>1, ObservedTyped, CountersTyped DEF Inv
  <2>2. QED
    BY <1>1, <2>1 DEF RateInv, Inv, Typed
<1>4. ViewOf(r)'
  <2>1. Mixed(r)' = Mixed(r) /\ peak[r] <= peak'[r]
    BY <1>1, <1>2, PeakKept DEF Mixed
  <2>2. peak[r] \in Nat /\ peak'[r] \in Nat
    BY <1>2, PeakKept DEF Inv, Typed
  <2>3. QED
    BY <1>1, <1>2, <2>1, <2>2, CountersTyped DEF ViewOf, Inv, ViewInv
<1>5. SaidOf(r)'
  BY <1>2 DEF SaidOf
<1>6. QED
  BY <1>1, <1>2, <1>3, <1>4, <1>5, RequestKept DEF Inv, Typed

LEMMA ReadPhaseKept == ASSUME Inv, Recorded, NEW r \in Requests, ReadPhase(r) PROVE Inv'
<1>1. /\ pc[r] = 6 /\ pc' = [pc EXCEPT ![r] = 7] /\ said' = [said EXCEPT ![r] = phase]
      /\ ScanKept /\ UNCHANGED <<elapsed, window, rate, view, now, before, counter, url>>
  BY DEF ReadPhase, ScanKept
<1>2. /\ pc' \in [Requests -> 0 .. 7] /\ pc'[r] = 7
      /\ said' \in [Requests -> 0 .. 3] /\ said'[r] = phase
  BY <1>1 DEF Inv, Typed
<1>3. ViewOf(r)'
  <2>1. Mixed(r)' = Mixed(r) /\ peak[r] <= peak'[r]
    BY <1>1, <1>2, PeakKept DEF Mixed
  <2>2. peak[r] \in Nat /\ peak'[r] \in Nat
    BY <1>2, PeakKept DEF Inv, Typed
  <2>3. QED
    BY <1>1, <1>2, <2>1, <2>2, CountersTyped DEF ViewOf, Inv, ViewInv
<1>4. SaidOf(r)'
  <2> SUFFICES ASSUME phase = 1
               PROVE  /\ Finished(view[r]) <= Total
                      /\ Finished(view[r]) = Total => \A u \in Urls : url[u] = "ended"
    BY <1>1, <1>2 DEF SaidOf, Total, Inv, Typed
  <2>1. Finished(view[r]) <= Finished(counter)
    BY CountersTyped DEF Finished, Inv, ViewInv, ViewOf, Counters
  <2>2. Finished(counter) <= Cardinality(EndedUrls)
    BY DEF Inv, CountInv
  <2>3. EndedUrls \in SUBSET Urls
    BY DEF EndedUrls
  <2>4. /\ Cardinality(EndedUrls) <= Total /\ Cardinality(EndedUrls) \in Nat /\ Total \in Nat
        /\ Cardinality(EndedUrls) = Total => EndedUrls = Urls
    BY <2>3, SomeUrls
  <2>5. Finished(view[r]) = Total => EndedUrls = Urls
    BY <2>1, <2>2, <2>4, CountersTyped DEF Inv
  <2>6. QED
    BY <2>1, <2>2, <2>4, <2>5, CountersTyped DEF Inv, EndedUrls
<1>5. RateInv'
  BY <1>1 DEF RateInv, Inv, Typed
<1>6. QED
  BY <1>1, <1>2, <1>3, <1>4, <1>5, RequestKept DEF Inv, Typed

LEMMA RespondKept == ASSUME Inv, Recorded, NEW r \in Requests, Respond(r) PROVE Inv'
<1>1. /\ pc' = [pc EXCEPT ![r] = 0] /\ view' = [view EXCEPT ![r] = Zero]
      /\ rate' = [rate EXCEPT ![r] = <<0, 1>>] /\ said' = [said EXCEPT ![r] = 0]
      /\ before' = [before EXCEPT ![r] = 0] /\ elapsed' = [elapsed EXCEPT ![r] = 0]
      /\ ScanKept /\ UNCHANGED <<window, now, counter>>
  BY DEF Respond, ScanKept
<1>2. /\ pc' \in [Requests -> 0 .. 7] /\ pc'[r] = 0 /\ view' \in [Requests -> [Counters -> Nat]]
      /\ view'[r] = Zero /\ said' \in [Requests -> 0 .. 3] /\ before' \in [Requests -> Nat]
  BY <1>1 DEF Inv, Typed, Zero
<1>3. ViewOf(r)' /\ SaidOf(r)'
  BY <1>1, <1>2 DEF ViewOf, SaidOf, Zero, Inv, Typed
<1>4. RateInv'
  BY <1>1 DEF RateInv, Inv, Typed
<1>5. QED
  BY <1>1, <1>2, <1>3, <1>4, RequestKept DEF Inv, Typed

LEMMA StepInv == ASSUME Inv, [StatusNext]_svars PROVE Inv'
<1>1. CASE UNCHANGED svars
  <2>1. Typed' /\ RateInv'
    BY <1>1 DEF svars, Inv, Typed, RateInv
  <2>2. CountInv'
    BY <1>1, ScanCountsKept DEF svars, ScanKept
  <2>3. ViewInv' /\ SaidInv'
    BY <1>1 DEF svars, Inv, ViewInv, ViewOf, Mixed, SaidInv, SaidOf, Total, Finished
  <2>4. QED
    BY <2>1, <2>2, <2>3 DEF Inv
<1>2. CASE Recorded /\ ScanStep
  BY <1>2, DispatchKept, EndUrlKept, StartDrainKept, CountAbandonedKept, EndDrainKept DEF ScanStep
<1>3. CASE Recorded /\ ServerStep
  <2>1. CASE Bind \/ Shutdown \/ Stopped
    BY <1>3, <2>1, ServerKept DEF Bind, Shutdown, Stopped, Inv, RateInv
  <2>2. ASSUME NEW r \in Requests, Accept(r) \/ Requested(r) PROVE Inv'
    BY <1>3, <2>2, AcceptKept, LoadKept, ObserveKept, ReadPhaseKept, RespondKept DEF Requested
  <2>3. QED
    BY <1>3, <2>1, <2>2 DEF ServerStep
<1>4. CASE Recorded /\ StatusTick
  BY <1>4, ServerKept DEF StatusTick, Inv, RateInv
<1>5. QED
  BY <1>1, <1>2, <1>3, <1>4 DEF StatusNext

LEMMA InvAlways == StatusSpec => []Inv
  BY InitInv, StepInv, PTL DEF StatusSpec

-----------------------------------------------------------------------------

(* Every response of /status and /metrics is within what was true while it *)
(* was put together: its finished count between the true counts at its     *)
(* beginning and its end, no more URLs in progress than at its busiest     *)
(* moment, and no more than all URLs while it says "scanning", whatever    *)
(* the scan does between two loads (progress_snapshot).                    *)
THEOREM SnapshotsSound == StatusSpec => []SnapshotSound
<1>1. ASSUME Inv PROVE SnapshotSound
  <2>1. ASSUME NEW r \in Requests, Answered(r)
        PROVE  /\ before[r] <= Finished(view[r]) /\ Finished(view[r]) <= Finished(counter)
               /\ Active(view[r]) <= peak[r]
    <3>1. Mixed(r) = Finished(view[r])
      BY <2>1 DEF Answered, Mixed, Finished
    <3>2. /\ before[r] <= Finished(view[r]) /\ view[r].attempted <= peak[r] + Finished(view[r])
      BY <1>1, <2>1, <3>1 DEF Inv, ViewInv, ViewOf, Answered
    <3>3. Finished(view[r]) <= Finished(counter)
      BY <1>1, CountersTyped DEF Finished, Inv, ViewInv, ViewOf, Counters
    <3>4. peak[r] \in Nat
      BY <1>1 DEF Inv, Typed
    <3>5. Active(view[r]) <= peak[r]
      BY <1>1, <3>2, <3>4, CountersTyped DEF Active, Monus, Inv
    <3>6. QED
      BY <3>2, <3>3, <3>5
  <2>2. ScanningWithinTotal
    <3>1. ASSUME NEW i \in 1 .. 3, Phases[i] = "scanning" PROVE i = 1
      BY <3>1 DEF Phases
    <3>2. QED
      BY <1>1, <3>1 DEF ScanningWithinTotal, Answered, Inv, SaidInv, SaidOf
  <2>3. QED
    BY <2>1, <2>2 DEF SnapshotSound, SnapshotBracketed
<1>2. QED
  BY <1>1, InvAlways, PTL

(* Nothing is left, or the ETA is of some time: unless no rate is known,   *)
(* and then nothing has been seen to finish.                               *)
LEMMA EtaOf ==
    ASSUME NEW v, NEW w, NEW e \in Nat, e > 0, w[1] \in Nat, w[2] \in Nat, w[2] > 0,
           Total \in Nat, Finished(v) \in Nat, Finished(v) < Total
    PROVE  \/ Eta(v, w, e) = None /\ Finished(v) = 0
           \/ Eta(v, w, e) # None /\ Eta(v, w, e) # <<0, 1>>
<1> DEFINE remaining == Monus(Total, Finished(v))
<1>1. remaining \in Nat /\ remaining > 0
  BY DEF Monus
<1>2. Eta(v, w, e) = IF w[1] > 0 THEN <<remaining * w[2], w[1]>>
                     ELSE IF Finished(v) > 0 THEN <<remaining * e, Finished(v)>> ELSE None
  BY <1>1 DEF Eta, LifetimeEta
<1> HIDE DEF remaining
<1>3. remaining * w[2] \in Nat /\ remaining * w[2] > 0 /\ remaining * e \in Nat /\ remaining * e > 0
  BY <1>1
<1>4. CASE w[1] > 0
  <2>1. Eta(v, w, e) = <<remaining * w[2], w[1]>> /\ Eta(v, w, e) \in Nat \X Nat
    BY <1>2, <1>3, <1>4
  <2>2. QED
    BY <1>3, <2>1, StatusAssumption
<1>5. CASE ~(w[1] > 0) /\ Finished(v) > 0
  <2>1. Eta(v, w, e) = <<remaining * e, Finished(v)>> /\ Eta(v, w, e) \in Nat \X Nat
    BY <1>2, <1>3, <1>5
  <2>2. QED
    BY <1>3, <2>1, StatusAssumption
<1>6. CASE ~(w[1] > 0) /\ ~(Finished(v) > 0)
  BY <1>2, <1>6
<1>7. QED
  BY <1>4, <1>5, <1>6

(* While a response says "scanning", an ETA of zero of /status means that  *)
(* every URL of the input has ended, one of /metrics that or that nothing  *)
(* was seen to finish; only then is no ETA given (refine_eta,              *)
(* render_metrics).                                                        *)
THEOREM ZeroEtaMeansDone == StatusSpec => []DoneMeansDone
<1>1. ASSUME Inv PROVE DoneMeansDone
  <2> SUFFICES ASSUME NEW r \in Requests, Answered(r), Phases[said[r]] = "scanning"
               PROVE  LET done == \A u \in Urls : url[u] = "ended"
                          nothing == Finished(view[r]) = 0
                      IN /\ Eta(view[r], rate[r], elapsed[r]) = <<0, 1>> => done
                         /\ MetricsEta(view[r], rate[r], elapsed[r]) = <<0, 1>> => done \/ nothing
                         /\ Eta(view[r], rate[r], elapsed[r]) = None => nothing
    BY DEF DoneMeansDone
  <2> DEFINE eta == Eta(view[r], rate[r], elapsed[r])
             done == \A u \in Urls : url[u] = "ended"
  <2>1. said[r] = 1 /\ pc[r] = 7
    BY <1>1 DEF Phases, Answered, Inv, SaidInv, SaidOf
  <2>2. Total \in Nat /\ Finished(view[r]) \in Nat /\ Finished(view[r]) <= Total
    BY <1>1, <2>1, SomeUrls, CountersTyped DEF Inv, SaidInv, SaidOf
  <2>3. /\ rate[r][1] \in Nat /\ rate[r][2] \in Nat /\ rate[r][2] > 0
        /\ elapsed[r] \in Nat /\ elapsed[r] > 0
    BY <1>1, <2>1 DEF Inv, RateInv
  <2>4. CASE Finished(view[r]) = Total
    <3>1. done
      BY <1>1, <2>1, <2>4 DEF Inv, SaidInv, SaidOf
    <3>2. Total > 0 => eta = <<0, 1>>
      BY <2>2, <2>4 DEF Eta, Monus
    <3>3. None # <<0, 1>>
      BY StatusAssumption
    <3>4. QED
      BY <2>2, <2>4, <3>1, <3>2, <3>3 DEF MetricsEta
  <2>5. CASE Finished(view[r]) < Total
    <3>1. \/ eta = None /\ Finished(view[r]) = 0
          \/ eta # None /\ eta # <<0, 1>>
      BY <2>2, <2>3, <2>5, EtaOf
    <3>2. None # <<0, 1>>
      BY StatusAssumption
    <3>3. QED
      BY <3>1, <3>2 DEF MetricsEta
  <2>6. QED
    BY <2>2, <2>4, <2>5
<1>2. QED
  BY <1>1, InvAlways, PTL

----------------------------------------------------------------------------
(* The export.                                                             *)

Others == <<"analytics", "script_hosts", "social", "key_headers", "header_count", "all_headers", "partials",
            "geoip", "whois", "favicon", "contacts", "secrets">>

Named == {"redirects", "technologies", "sans", "oids", "dns", "cname", "ipv6", "caa", "analytics", "script_hosts",
          "social", "key_headers", "header_count", "all_headers", "partials", "geoip", "whois", "favicon",
          "contacts", "secrets"}

\* The queries of a row, one per table; WHOIS is stored by the second transaction.
LEMMA QueriesAre ==
    /\ Queries \in Seq(Named) /\ Len(Queries) = 20
    /\ \A i \in DOMAIN Queries : Queries[i] \in Tables
    /\ "whois" \in Tables /\ "whois" \notin CoreTables
<1>1. CoreQueries \in Seq(Named) /\ Len(CoreQueries) = 8
  BY DEF CoreQueries, Named
<1>2. Others \in Seq(Named) /\ Len(Others) = 12 /\ Others[9] = "whois"
  BY DEF Others, Named
<1>3. Queries = CoreQueries \o Others
  BY DEF Queries, Others
<1>4. Queries \in Seq(Named) /\ Len(Queries) = 20 /\ Queries[17] = "whois"
  <2>1. CoreQueries \o Others \in Seq(Named)
    BY <1>1, <1>2, ConcatProperties
  <2>2. Len(CoreQueries \o Others) = Len(CoreQueries) + Len(Others)
    BY <1>1, <1>2, ConcatProperties
  <2>3. (CoreQueries \o Others)[17] = Others[17 - Len(CoreQueries)]
    <3>1. 17 \in 1 .. Len(CoreQueries) + Len(Others) /\ ~(17 <= Len(CoreQueries))
      BY <1>1, <1>2
    <3> QED BY <1>1, <1>2, <3>1, ConcatProperties
  <2> QED BY <1>1, <1>2, <1>3, <2>1, <2>2, <2>3
<1>6. DOMAIN Queries = 1 .. 20
  BY <1>4
<1>7. "whois" \in Tables
  BY <1>4, <1>6 DEF Tables, ToSet
<1>8. DOMAIN CoreQueries = 1 .. 8 /\ \A i \in 1 .. 8 : CoreQueries[i] # "whois"
  <2>1. DOMAIN CoreQueries = 1 .. 8
    BY DEF CoreQueries
  <2>2. /\ CoreQueries[1] # "whois" /\ CoreQueries[2] # "whois" /\ CoreQueries[3] # "whois" /\ CoreQueries[4] # "whois"
        /\ CoreQueries[5] # "whois" /\ CoreQueries[6] # "whois" /\ CoreQueries[7] # "whois" /\ CoreQueries[8] # "whois"
    BY DEF CoreQueries
  <2> QED BY <2>1, <2>2
<1>9. "whois" \notin CoreTables
  BY <1>8 DEF CoreTables, ToSet
<1>10. \A i \in DOMAIN Queries : Queries[i] \in Tables
  BY DEF Tables, ToSet
<1> QED BY <1>4, <1>7, <1>9, <1>10
\* What an element more changes in a sequence.
LEMMA AppendAt ==
    ASSUME NEW S, NEW s \in Seq(S), NEW x \in S
    PROVE  /\ Append(s, x) \in Seq(S) /\ Len(Append(s, x)) = Len(s) + 1 /\ Append(s, x)[Len(s) + 1] = x
           /\ \A i \in 1 .. Len(s) : Append(s, x)[i] = s[i]
           /\ \A i \in 1 .. Len(s) + 1 : i = Len(s) + 1 \/ i \in 1 .. Len(s)
  OBVIOUS

\* What stands where in two sequences joined.
LEMMA ConcatAt ==
    ASSUME NEW S, NEW s \in Seq(S), NEW t \in Seq(S)
    PROVE  /\ s \o t \in Seq(S) /\ Len(s \o t) = Len(s) + Len(t)
           /\ \A i \in 1 .. Len(s) : (s \o t)[i] = s[i]
           /\ \A i \in 1 .. Len(s) + Len(t) : i \in 1 .. Len(s) \/ (i - Len(s) \in 1 .. Len(t) /\ (s \o t)[i] = t[i - Len(s)])
<1>1. /\ s \o t \in Seq(S) /\ Len(s \o t) = Len(s) + Len(t)
      /\ \A i \in 1 .. Len(s) + Len(t) : (s \o t)[i] = IF i <= Len(s) THEN s[i] ELSE t[i - Len(s)]
  BY ConcatProperties
<1>2. Len(s) \in Nat /\ Len(t) \in Nat
  OBVIOUS
<1> QED BY <1>1, <1>2
----------------------------------------------------------------------------
Rows == [key : Keys, main : Nat, parts : Seq(Nat)]
Entries == [key : Keys, main : Nat]
Assembling == exporting \in {"assemble", "write"}

\* What the database holds and held, as one value.
Bases == [Keys -> [main : Nat, part : [Tables -> Nat]]]
Worlds == [db : Bases, was : Bases, newer : [Keys -> SUBSET Nat], mark : [Keys -> Nat],
           enriched : [Keys -> Seq(Nat)], uncleaned : SUBSET (Nat \X CoreTables)]
World == [db |-> db, was |-> was, newer |-> newer, mark |-> mark, enriched |-> enriched, uncleaned |-> uncleaned]

ExportTyped ==
    /\ World \in Worlds
    /\ clock \in Nat /\ pending \in [Keys -> SUBSET Nat]
    /\ snapshot \in Seq(Entries)
    /\ taken \in Nat /\ taken <= Len(snapshot)
    /\ out \in Seq(Rows) /\ batch \in Seq(Rows)
    /\ count \in Nat
    /\ Assembling => row \in Rows

\* b, found in table t, is not behind a: unless the cleanup of a left t as it was.
Level(a, b, t, s) == a <= b \/ <<a, t>> \in s.uncleaned

\* The enrichments of a key were p and then q, since the cursor was opened or last before.
Followed(k, p, q, s) ==
    \E a, b \in s.mark[k] .. Len(s.enriched[k]) : a <= b /\ s.enriched[k][a] = p /\ s.enriched[k][b] = q

\* What the transactions of a key leave: core tables that are behind only where a
\* cleanup failed, and that changed since the cursor was opened only to what was
\* stored since; other tables of the enrichment that was stored last.
TablesOf(k, s) ==
    /\ \A t \in Tables : t \in CoreTables =>
          /\ s.db[k].part[t] \in s.newer[k] \cup {s.was[k].part[t]}
          /\ Level(s.db[k].main, s.db[k].part[t], t, s)
          /\ Level(s.was[k].main, s.db[k].part[t], t, s)
          /\ \A u \in Tables : u \in CoreTables => Level(s.db[k].part[t], s.db[k].part[u], u, s)
    /\ s.mark[k] \in 1 .. Len(s.enriched[k])
    /\ \A t \in Tables : t \notin CoreTables => s.db[k].part[t] = s.enriched[k][Len(s.enriched[k])]

TwoTransactions ==
    /\ \A k \in Keys : TablesOf(k, World)
    /\ \A k \in Keys : db[k].main <= clock /\ was[k].main <= clock
                       /\ \A t \in Tables : db[k].part[t] <= clock
    /\ \A k \in Keys : \A o \in pending[k] : o <= clock

\* Parquet is collected and goes to a file; a pipe alone is closed.
PipeRules ==
    /\ request.format = "parquet" /\ ~request.stdout => request.file # "-"
    /\ request.format = "parquet" /\ exporting \in {"cursor", "assemble", "write", "ok"} => ~request.stdout
    /\ closed => request.stdout
    /\ request.format # "parquet" => batch = <<>>
    /\ exporting = "start" => out = <<>> /\ batch = <<>> /\ taken = 0 /\ count = 0

ShownAt(r, n) == r.key = snapshot[n].key /\ r.main = snapshot[n].main

\* What is written, then what is collected, is the snapshot as far as it was read;
\* on a closed pipe what is written is a beginning of it.
Accounted ==
    /\ exporting # "failed" => taken = count + (IF Assembling THEN 1 ELSE 0)
    /\ Len(out) + Len(batch) <= count /\ count <= taken
    /\ \A i \in 1 .. Len(out) : ShownAt(out[i], i)
    /\ ~closed => /\ Len(out) + Len(batch) = count
                  /\ \A j \in 1 .. Len(batch) : ShownAt(batch[j], Len(out) + j)
    /\ Assembling => ShownAt(row, taken)
    /\ exporting = "write" => Len(row.parts) = Len(Queries)
    /\ exporting = "assemble" => Len(row.parts) < Len(Queries)
    /\ exporting = "ok" => batch = <<>> /\ taken = Len(snapshot)
    /\ \A i \in 1 .. Len(out) : Len(out[i].parts) = Len(Queries)
    /\ \A j \in 1 .. Len(batch) : Len(batch[j].parts) = Len(Queries)

\* The cursor returns the database as it was when it was opened.
SnapshotIs == \A n \in 1 .. Len(snapshot) : snapshot[n].main = was[snapshot[n].key].main

\* A row's queries read what was committed when they ran, and the tables that are
\* still to be read are not behind what it shows.
Read(r, s) ==
    /\ Len(r.parts) <= Len(Queries)
    /\ \A t \in Tables : t \in CoreTables => Level(r.main, s.db[r.key].part[t], t, s)
    /\ \A i \in 1 .. Len(r.parts) : Queries[i] \in CoreTables =>
          /\ r.parts[i] \in s.newer[r.key] \cup {s.was[r.key].part[Queries[i]]}
          /\ Level(r.main, r.parts[i], Queries[i], s)
          /\ \A t \in Tables : t \in CoreTables => Level(r.parts[i], s.db[r.key].part[t], t, s)
    /\ \A i, j \in 1 .. Len(r.parts) : i <= j =>
          /\ Queries[i] \in CoreTables /\ Queries[j] \in CoreTables => Level(r.parts[i], r.parts[j], Queries[j], s)
          /\ Queries[i] \notin CoreTables /\ Queries[j] \notin CoreTables => Followed(r.key, r.parts[i], r.parts[j], s)

RowsRead ==
    /\ \A i \in 1 .. Len(out) : Read(out[i], World)
    /\ \A j \in 1 .. Len(batch) : Read(batch[j], World)
    /\ Assembling => Read(row, World)

ExportInv == ExportTyped /\ TwoTransactions /\ PipeRules /\ Accounted /\ SnapshotIs /\ RowsRead

\* The parts of the one value.
LEMMA WorldIs ==
    /\ World.db = db /\ World.was = was /\ World.newer = newer /\ World.mark = mark
    /\ World.enriched = enriched /\ World.uncleaned = uncleaned
    /\ World' = [db |-> db', was |-> was', newer |-> newer', mark |-> mark', enriched |-> enriched', uncleaned |-> uncleaned']
  BY DEF World

LEMMA WorldKept == ASSUME UNCHANGED <<store, was, mark>> PROVE World' = World /\ UNCHANGED <<db, clock, pending>>
  BY DEF World, store

\* An export begins with nothing read and nothing written.
LEMMA ExportStarts == ExportInit => ExportInv
<1> SUFFICES ASSUME ExportInit PROVE ExportInv
  OBVIOUS
<1> USE DEF ExportInit
<1>0. out = <<>> /\ batch = <<>> /\ snapshot = <<>> /\ Len(out) = 0 /\ Len(batch) = 0 /\ Len(snapshot) = 0
  OBVIOUS
<1>1. ExportTyped
  <2>1. db \in Bases /\ was \in Bases
    BY DEF NoRows, Bases
  <2>2. <<0>> \in Seq(Nat)
    OBVIOUS
  <2>3. enriched \in [Keys -> Seq(Nat)]
    BY <2>2
  <2>4. World \in Worlds
    BY <2>1, <2>3 DEF World, Worlds
  <2> QED BY <1>0, <2>4 DEF ExportTyped, Assembling
<1>2. TwoTransactions
  <2>1. \A k \in Keys : /\ db[k].main = 0 /\ was[k].main = 0 /\ pending[k] = {} /\ mark[k] = 1 /\ enriched[k] = <<0>>
                        /\ \A t \in Tables : db[k].part[t] = 0 /\ was[k].part[t] = 0
    BY DEF NoRows
  <2>2. ASSUME NEW k \in Keys PROVE TablesOf(k, World)
    <3>1. Len(enriched[k]) = 1 /\ enriched[k][1] = 0
      BY <2>1
    <3> QED BY <2>1, <3>1, WorldIs DEF TablesOf, Level
  <2> QED BY <2>1, <2>2 DEF TwoTransactions
<1>3. PipeRules
  <2>1. PICK cmd \in Commands : request = execute_export_command(cmd)
    OBVIOUS
  <2>2. request.format = cmd.format /\ request.stdout = (cmd.output = "-")
        /\ request.file = CASE cmd.output = "-" -> "-" [] cmd.output = NoOutput -> cmd.format [] OTHER -> cmd.output
    BY <2>1 DEF execute_export_command
  <2>3. request.format = "parquet" /\ ~request.stdout => request.file # "-"
    BY <2>2
  <2> QED BY <2>3 DEF PipeRules
<1>4. Accounted
  BY <1>0 DEF Accounted, Assembling
<1>5. SnapshotIs
  BY <1>0 DEF SnapshotIs
<1>6. RowsRead
  BY <1>0 DEF RowsRead, Assembling
<1> QED BY <1>1, <1>2, <1>3, <1>4, <1>5, <1>6 DEF ExportInv

\* What a transaction does: core tables move on, enrichments are added, what is
\* remembered stays.
Grown(s, u) ==
    /\ u.was = s.was /\ u.mark = s.mark /\ s.uncleaned \subseteq u.uncleaned
    /\ \A k \in Keys :
          /\ s.newer[k] \subseteq u.newer[k]
          /\ \A t \in Tables : t \in CoreTables => s.db[k].part[t] <= u.db[k].part[t]
          /\ Len(s.enriched[k]) <= Len(u.enriched[k])
          /\ \A n \in 1 .. Len(s.enriched[k]) : u.enriched[k][n] = s.enriched[k][n]

LEMMA LevelKept ==
    ASSUME NEW s, NEW u, s.uncleaned \subseteq u.uncleaned, NEW t, NEW a \in Nat, NEW b \in Nat, NEW c \in Nat, b <= c,
           Level(a, b, t, s)
    PROVE  Level(a, c, t, u)
  BY DEF Level

LEMMA FollowedKept ==
    ASSUME NEW s \in Worlds, NEW u \in Worlds, Grown(s, u), NEW k \in Keys, 1 <= s.mark[k],
           NEW p, NEW q, Followed(k, p, q, s)
    PROVE  Followed(k, p, q, u)
<1>1. PICK a \in s.mark[k] .. Len(s.enriched[k]) : \E b \in s.mark[k] .. Len(s.enriched[k]) :
         a <= b /\ s.enriched[k][a] = p /\ s.enriched[k][b] = q
  BY DEF Followed
<1>2. PICK b \in s.mark[k] .. Len(s.enriched[k]) : a <= b /\ s.enriched[k][a] = p /\ s.enriched[k][b] = q
  BY <1>1
<1>3. s.mark[k] \in Nat /\ Len(s.enriched[k]) \in Nat /\ Len(u.enriched[k]) \in Nat
  BY DEF Worlds
<1>4. a \in 1 .. Len(s.enriched[k]) /\ b \in 1 .. Len(s.enriched[k])
  BY <1>1, <1>2, <1>3
<1>5. a \in u.mark[k] .. Len(u.enriched[k]) /\ b \in u.mark[k] .. Len(u.enriched[k])
  BY <1>1, <1>2, <1>3 DEF Grown
<1>6. u.enriched[k][a] = p /\ u.enriched[k][b] = q
  BY <1>2, <1>4 DEF Grown
<1> QED BY <1>2, <1>5, <1>6 DEF Followed

LEMMA ReadKept ==
    ASSUME NEW s \in Worlds, NEW u \in Worlds, Grown(s, u), NEW r \in Rows, 1 <= s.mark[r.key], Read(r, s)
    PROVE  Read(r, u)
<1>1. /\ r.key \in Keys /\ r.main \in Nat /\ r.parts \in Seq(Nat) /\ Len(r.parts) \in Nat
      /\ \A i \in 1 .. Len(r.parts) : r.parts[i] \in Nat
  BY DEF Rows
<1>2. \A t \in Tables : s.db[r.key].part[t] \in Nat /\ u.db[r.key].part[t] \in Nat
  BY <1>1 DEF Worlds, Bases
<1>3. s.uncleaned \subseteq u.uncleaned
  BY DEF Grown
<1>4. ASSUME NEW t \in Tables, t \in CoreTables PROVE Level(r.main, u.db[r.key].part[t], t, u)
  <2>1. Level(r.main, s.db[r.key].part[t], t, s) /\ s.db[r.key].part[t] <= u.db[r.key].part[t]
    BY <1>1, <1>4 DEF Read, Grown
  <2> QED BY <1>1, <1>2, <1>3, <2>1, LevelKept
<1>5. ASSUME NEW i \in 1 .. Len(r.parts), Queries[i] \in CoreTables
      PROVE  /\ r.parts[i] \in u.newer[r.key] \cup {u.was[r.key].part[Queries[i]]}
             /\ Level(r.main, r.parts[i], Queries[i], u)
             /\ \A t \in Tables : t \in CoreTables => Level(r.parts[i], u.db[r.key].part[t], t, u)
  <2>1. r.parts[i] \in u.newer[r.key] \cup {u.was[r.key].part[Queries[i]]}
    BY <1>1, <1>5 DEF Read, Grown
  <2>2. Level(r.main, r.parts[i], Queries[i], u)
    BY <1>3, <1>5 DEF Read, Level
  <2>3. ASSUME NEW t \in Tables, t \in CoreTables PROVE Level(r.parts[i], u.db[r.key].part[t], t, u)
    <3>1. Level(r.parts[i], s.db[r.key].part[t], t, s) /\ s.db[r.key].part[t] <= u.db[r.key].part[t]
      BY <1>1, <1>5, <2>3 DEF Read, Grown
    <3> QED BY <1>1, <1>2, <1>3, <3>1, LevelKept
  <2> QED BY <2>1, <2>2, <2>3
<1>6. ASSUME NEW i \in 1 .. Len(r.parts), NEW j \in 1 .. Len(r.parts), i <= j
      PROVE  /\ Queries[i] \in CoreTables /\ Queries[j] \in CoreTables => Level(r.parts[i], r.parts[j], Queries[j], u)
             /\ Queries[i] \notin CoreTables /\ Queries[j] \notin CoreTables => Followed(r.key, r.parts[i], r.parts[j], u)
  <2>1. ASSUME Queries[i] \in CoreTables, Queries[j] \in CoreTables PROVE Level(r.parts[i], r.parts[j], Queries[j], u)
    BY <1>3, <1>6, <2>1 DEF Read, Level
  <2>2. ASSUME Queries[i] \notin CoreTables, Queries[j] \notin CoreTables PROVE Followed(r.key, r.parts[i], r.parts[j], u)
    <3>1. Followed(r.key, r.parts[i], r.parts[j], s)
      BY <1>6, <2>2 DEF Read
    <3> QED BY <1>1, <3>1, FollowedKept
  <2> QED BY <2>1, <2>2
<1>7. Len(r.parts) <= Len(Queries)
  BY DEF Read
<1> QED BY <1>4, <1>5, <1>6, <1>7 DEF Read

\* What either transaction of the scan keeps.
LEMMA StoreStep ==
    ASSUME ExportInv, UNCHANGED <<request, exporting, output, closed, was, mark>>,
           World' \in Worlds, Grown(World, World'), clock' \in Nat, pending' \in [Keys -> SUBSET Nat], TwoTransactions'
    PROVE  ExportInv'
<1> USE DEF ExportInv
<1>0. UNCHANGED <<snapshot, taken, row, batch, out, count>>
  BY DEF output
<1>1. ExportTyped'
  BY <1>0 DEF ExportTyped, Assembling
<1>2. PipeRules'
  BY <1>0 DEF PipeRules
<1>3. Accounted'
  BY <1>0 DEF Accounted, ShownAt, Assembling
<1>4. SnapshotIs'
  BY <1>0 DEF SnapshotIs
<1>5. RowsRead'
  <2>0. World \in Worlds /\ \A k \in Keys : 1 <= World.mark[k]
    BY DEF ExportTyped, TwoTransactions, TablesOf
  <2>1. \A r \in Rows : Read(r, World) => Read(r, World')
    <3> DEFINE s == World  u == World'
    <3>1. s \in Worlds /\ u \in Worlds /\ Grown(s, u) /\ \A k \in Keys : 1 <= s.mark[k]
      BY <2>0
    <3> HIDE DEF s, u
    <3>2. \A r \in Rows : r.key \in Keys
      BY DEF Rows
    <3>3. \A r \in Rows : Read(r, s) => Read(r, u)
      BY <3>1, <3>2, ReadKept
    <3> QED BY <3>3 DEF s, u
  <2>2. \A i \in 1 .. Len(out) : out[i] \in Rows
    BY DEF ExportTyped
  <2>3. \A j \in 1 .. Len(batch) : batch[j] \in Rows
    BY DEF ExportTyped
  <2>4. Assembling => row \in Rows
    BY DEF ExportTyped
  <2>5. Assembling' = Assembling
    BY DEF Assembling
  <2> QED BY <1>0, <2>1, <2>2, <2>3, <2>4, <2>5 DEF RowsRead
<1> QED BY <1>1, <1>2, <1>3, <1>4, <1>5

LEMMA CommitCoreKeeps ==
    ASSUME ExportInv, NEW k \in Keys, CommitCore(k)
    PROVE  ExportInv'
<1> USE DEF ExportInv
<1>0. /\ db \in Bases /\ was \in Bases /\ newer \in [Keys -> SUBSET Nat] /\ mark \in [Keys -> Nat]
      /\ enriched \in [Keys -> Seq(Nat)] /\ uncleaned \in SUBSET (Nat \X CoreTables)
      /\ clock \in Nat /\ pending \in [Keys -> SUBSET Nat]
  BY WorldIs DEF ExportTyped, Worlds
<1>1. PICK kept \in LeftBehind :
         /\ db' = [db EXCEPT ![k] = [main |-> clock',
                       part |-> [t \in Tables |-> IF t \in CoreTables \ kept THEN clock' ELSE db[k].part[t]]]]
         /\ uncleaned' = uncleaned \cup ({clock'} \X kept)
  BY DEF CommitCore
<1>2. /\ clock' = clock + 1 /\ clock' \in Nat /\ kept \subseteq CoreTables
      /\ pending' = [pending EXCEPT ![k] = pending[k] \cup {clock'}]
      /\ newer' = [newer EXCEPT ![k] = newer[k] \cup {clock'}]
      /\ UNCHANGED <<enriched, request, exporting, output, closed, was, mark>>
  BY <1>0, ExportAssumption DEF CommitCore
<1>3. /\ db'[k].main = clock'
      /\ \A t \in Tables : db'[k].part[t] = IF t \in CoreTables \ kept THEN clock' ELSE db[k].part[t]
      /\ newer'[k] = newer[k] \cup {clock'} /\ pending'[k] = pending[k] \cup {clock'}
      /\ \A j \in Keys \ {k} : db'[j] = db[j] /\ newer'[j] = newer[j] /\ pending'[j] = pending[j]
  BY <1>0, <1>1, <1>2 DEF Bases
<1>4. /\ db' \in Bases /\ newer' \in [Keys -> SUBSET Nat] /\ pending' \in [Keys -> SUBSET Nat]
      /\ uncleaned' \in SUBSET (Nat \X CoreTables) /\ uncleaned \subseteq uncleaned'
  <2>1. [t \in Tables |-> IF t \in CoreTables \ kept THEN clock' ELSE db[k].part[t]] \in [Tables -> Nat]
    BY <1>0, <1>2 DEF Bases
  <2>2. db' \in Bases
    BY <1>0, <1>1, <1>2, <2>1 DEF Bases
  <2>3. uncleaned' \in SUBSET (Nat \X CoreTables) /\ uncleaned \subseteq uncleaned'
    BY <1>0, <1>1, <1>2
  <2> QED BY <1>0, <1>2, <2>2, <2>3
<1>5. World' \in Worlds
  BY <1>0, <1>2, <1>4, WorldIs DEF Worlds
<1>6. \A j \in Keys : /\ db[j].main \in Nat /\ was[j].main \in Nat
                      /\ \A t \in Tables : db[j].part[t] \in Nat /\ was[j].part[t] \in Nat
  BY <1>0 DEF Bases
<1>7. \A j \in Keys : /\ TablesOf(j, World) /\ db[j].main <= clock /\ was[j].main <= clock
                      /\ \A t \in Tables : db[j].part[t] <= clock
                      /\ \A o \in pending[j] : o <= clock
  BY DEF TwoTransactions
<1>8. Grown(World, World')
  <2> SUFFICES ASSUME NEW j \in Keys
               PROVE  /\ newer[j] \subseteq newer'[j]
                      /\ \A t \in Tables : t \in CoreTables => db[j].part[t] <= db'[j].part[t]
                      /\ Len(enriched[j]) <= Len(enriched'[j])
                      /\ \A n \in 1 .. Len(enriched[j]) : enriched'[j][n] = enriched[j][n]
    BY <1>2, <1>4, WorldIs DEF Grown
  <2>1. Len(enriched[j]) \in Nat
    BY <1>0
  <2>2. \A t \in Tables : db[j].part[t] <= db'[j].part[t]
    <3>1. CASE j = k
      <4> SUFFICES ASSUME NEW t \in Tables PROVE db[k].part[t] <= db'[k].part[t]
        BY <3>1
      <4>1. db[k].part[t] \in Nat /\ db[k].part[t] <= clock
        BY <1>6, <1>7
      <4>2. db'[k].part[t] = clock' \/ db'[k].part[t] = db[k].part[t]
        BY <1>3
      <4> QED BY <1>0, <1>2, <4>1, <4>2
    <3>2. CASE j # k
      <4>1. db'[j] = db[j]
        BY <1>3, <3>2
      <4> QED BY <1>6, <4>1
    <3> QED BY <3>1, <3>2
  <2> QED BY <1>2, <1>3, <2>1, <2>2
<1>9. ASSUME NEW j \in Keys PROVE TablesOf(j, World')
  <2>0. /\ \A t \in Tables : t \in CoreTables =>
              /\ db[j].part[t] \in newer[j] \cup {was[j].part[t]}
              /\ db[j].main <= db[j].part[t] \/ <<db[j].main, t>> \in uncleaned
              /\ was[j].main <= db[j].part[t] \/ <<was[j].main, t>> \in uncleaned
              /\ \A u \in Tables : u \in CoreTables => db[j].part[t] <= db[j].part[u] \/ <<db[j].part[t], u>> \in uncleaned
        /\ mark[j] \in 1 .. Len(enriched[j])
        /\ \A t \in Tables : t \notin CoreTables => db[j].part[t] = enriched[j][Len(enriched[j])]
    BY <1>7, WorldIs DEF TablesOf, Level
  <2>1. CASE j # k
    <3>1. db'[j] = db[j] /\ newer'[j] = newer[j] /\ was' = was /\ mark' = mark /\ enriched' = enriched
      BY <1>2, <1>3, <2>1
    <3> QED BY <1>4, <2>0, <3>1, WorldIs DEF TablesOf, Level
  <2>2. CASE j = k
    <3>1. ASSUME NEW t \in Tables, t \in CoreTables
          PROVE  /\ db'[k].part[t] \in newer'[k] \cup {was[k].part[t]}
                 /\ clock' <= db'[k].part[t] \/ <<clock', t>> \in uncleaned'
                 /\ was[k].main <= db'[k].part[t] \/ <<was[k].main, t>> \in uncleaned'
      <4>1. CASE t \in kept
        <5>1. db'[k].part[t] = db[k].part[t] /\ <<clock', t>> \in uncleaned'
          BY <1>1, <1>3, <4>1
        <5> QED BY <1>3, <1>4, <2>0, <2>2, <3>1, <5>1
      <4>2. CASE t \notin kept
        <5>1. db'[k].part[t] = clock'
          BY <1>3, <3>1, <4>2
        <5> QED BY <1>0, <1>2, <1>3, <1>6, <1>7, <5>1
      <4> QED BY <4>1, <4>2
    <3>2. ASSUME NEW t \in Tables, t \in CoreTables, NEW u \in Tables, u \in CoreTables
          PROVE  db'[k].part[t] <= db'[k].part[u] \/ <<db'[k].part[t], u>> \in uncleaned'
      <4>1. CASE t \notin kept
        <5>1. db'[k].part[t] = clock'
          BY <1>3, <3>2, <4>1
        <5> QED BY <3>1, <3>2, <5>1
      <4>2. CASE t \in kept /\ u \in kept
        <5>1. db'[k].part[t] = db[k].part[t] /\ db'[k].part[u] = db[k].part[u]
          BY <1>3, <4>2
        <5> QED BY <1>4, <2>0, <2>2, <3>2, <5>1
      <4>3. CASE t \in kept /\ u \notin kept
        <5>1. db'[k].part[t] = db[k].part[t] /\ db'[k].part[u] = clock'
          BY <1>3, <3>2, <4>3
        <5> QED BY <1>0, <1>2, <1>6, <1>7, <5>1
      <4> QED BY <4>1, <4>2, <4>3
    <3>3. \A t \in Tables : t \notin CoreTables => db'[k].part[t] = enriched[k][Len(enriched[k])]
      BY <1>3, <2>0, <2>2
    <3>4. was' = was /\ mark' = mark /\ enriched' = enriched /\ db'[k].main = clock'
      BY <1>2, <1>3
    <3> QED BY <2>0, <2>2, <3>1, <3>2, <3>3, <3>4, WorldIs DEF TablesOf, Level
  <2> QED BY <2>1, <2>2
<1>10. TwoTransactions'
  <2>1. ASSUME NEW j \in Keys PROVE /\ db'[j].main <= clock' /\ was'[j].main <= clock'
                                    /\ \A t \in Tables : db'[j].part[t] <= clock'
                                    /\ \A o \in pending'[j] : o <= clock'
    <3>1. /\ pending[j] \subseteq Nat /\ was'[j] = was[j]
      BY <1>0, <1>2
    <3>2. CASE j = k
      <4>1. \A t \in Tables : db'[k].part[t] <= clock'
        <5> SUFFICES ASSUME NEW t \in Tables PROVE db'[k].part[t] <= clock'
          OBVIOUS
        <5>1. db[k].part[t] \in Nat /\ db[k].part[t] <= clock
          BY <1>6, <1>7
        <5>2. db'[k].part[t] = clock' \/ db'[k].part[t] = db[k].part[t]
          BY <1>3
        <5> QED BY <1>0, <1>2, <5>1, <5>2
      <4>2. \A o \in pending[k] : o \in Nat /\ o <= clock
        BY <1>0, <1>7
      <4>3. was[k].main \in Nat /\ was[k].main <= clock
        BY <1>6, <1>7
      <4> QED BY <1>0, <1>2, <1>3, <3>1, <3>2, <4>1, <4>2, <4>3
    <3>3. CASE j # k
      <4>1. db'[j] = db[j] /\ pending'[j] = pending[j]
        BY <1>3, <3>3
      <4> QED BY <1>0, <1>2, <1>6, <1>7, <3>1, <4>1
    <3> QED BY <3>2, <3>3
  <2> QED BY <1>9, <2>1 DEF TwoTransactions
<1> QED BY <1>2, <1>4, <1>5, <1>8, <1>10, StoreStep

LEMMA CommitEnrichmentKeeps ==
    ASSUME ExportInv, NEW k \in Keys, CommitEnrichment(k)
    PROVE  ExportInv'
<1> USE DEF ExportInv
<1>0. /\ db \in Bases /\ was \in Bases /\ newer \in [Keys -> SUBSET Nat] /\ mark \in [Keys -> Nat]
      /\ enriched \in [Keys -> Seq(Nat)] /\ uncleaned \in SUBSET (Nat \X CoreTables)
      /\ clock \in Nat /\ pending \in [Keys -> SUBSET Nat]
  BY WorldIs DEF ExportTyped, Worlds
<1>1. PICK obs \in pending[k] :
         /\ db' = [db EXCEPT ![k].part = [t \in Tables |-> IF t \in CoreTables THEN db[k].part[t] ELSE obs]]
         /\ pending' = [pending EXCEPT ![k] = pending[k] \ {obs}]
         /\ enriched' = [enriched EXCEPT ![k] = Append(enriched[k], obs)]
  BY DEF CommitEnrichment
<1>2. /\ UNCHANGED <<clock, newer, uncleaned, request, exporting, output, closed, was, mark>>
      /\ obs \in Nat /\ obs <= clock
  BY <1>0, <1>1 DEF CommitEnrichment, TwoTransactions
<1>3. /\ db'[k].main = db[k].main
      /\ \A t \in Tables : db'[k].part[t] = IF t \in CoreTables THEN db[k].part[t] ELSE obs
      /\ enriched'[k] = Append(enriched[k], obs) /\ pending'[k] = pending[k] \ {obs}
      /\ \A j \in Keys \ {k} : db'[j] = db[j] /\ enriched'[j] = enriched[j] /\ pending'[j] = pending[j]
  BY <1>0, <1>1 DEF Bases
<1>4. /\ Append(enriched[k], obs) \in Seq(Nat) /\ Len(enriched[k]) \in Nat
      /\ Len(Append(enriched[k], obs)) = Len(enriched[k]) + 1
      /\ Append(enriched[k], obs)[Len(enriched[k]) + 1] = obs
      /\ \A n \in 1 .. Len(enriched[k]) : Append(enriched[k], obs)[n] = enriched[k][n]
  <2>1. enriched[k] \in Seq(Nat)
    BY <1>0
  <2> QED BY <1>2, <2>1, AppendAt
<1>5. db' \in Bases /\ enriched' \in [Keys -> Seq(Nat)] /\ pending' \in [Keys -> SUBSET Nat]
  <2>1. [t \in Tables |-> IF t \in CoreTables THEN db[k].part[t] ELSE obs] \in [Tables -> Nat]
    BY <1>0, <1>2 DEF Bases
  <2>2. db' \in Bases
    BY <1>0, <1>1, <2>1 DEF Bases
  <2>3. enriched' \in [Keys -> Seq(Nat)]
    BY <1>0, <1>1, <1>4
  <2> QED BY <1>0, <1>1, <2>2, <2>3
<1>6. World' \in Worlds
  BY <1>0, <1>2, <1>5, WorldIs DEF Worlds
<1>7. \A j \in Keys : \A t \in Tables : db[j].part[t] \in Nat
  BY <1>0 DEF Bases
<1>8. Grown(World, World')
  <2> SUFFICES ASSUME NEW j \in Keys
               PROVE  /\ newer[j] \subseteq newer'[j]
                      /\ \A t \in Tables : t \in CoreTables => db[j].part[t] <= db'[j].part[t]
                      /\ Len(enriched[j]) <= Len(enriched'[j])
                      /\ \A n \in 1 .. Len(enriched[j]) : enriched'[j][n] = enriched[j][n]
    BY <1>2, WorldIs DEF Grown
  <2>1. CASE j = k
    BY <1>2, <1>3, <1>4, <1>7, <2>1
  <2>2. CASE j # k
    <3>1. Len(enriched[j]) \in Nat
      BY <1>0
    <3> QED BY <1>2, <1>3, <1>7, <2>2, <3>1
  <2> QED BY <2>1, <2>2
<1>9. ASSUME NEW j \in Keys PROVE TablesOf(j, World')
  <2>0. TablesOf(j, World)
    BY DEF TwoTransactions
  <2>1. CASE j # k
    <3>1. db'[j] = db[j] /\ enriched'[j] = enriched[j] /\ UNCHANGED <<was, newer, mark, uncleaned>>
      BY <1>2, <1>3, <2>1
    <3> QED BY <2>0, <3>1, WorldIs DEF TablesOf, Level
  <2>2. CASE j = k
    <3>1. /\ mark[k] \in 1 .. Len(enriched'[k])
          /\ \A t \in Tables : t \notin CoreTables => db'[k].part[t] = enriched'[k][Len(enriched'[k])]
      BY <1>3, <1>4, <2>0, <2>2, WorldIs DEF TablesOf
    <3>2. \A t \in Tables : t \in CoreTables => db'[k].part[t] = db[k].part[t]
      BY <1>3
    <3>3. db'[k].main = db[k].main /\ UNCHANGED <<was, newer, mark, uncleaned>>
      BY <1>2, <1>3
    <3> QED BY <2>0, <2>2, <3>1, <3>2, <3>3, WorldIs DEF TablesOf, Level
  <2> QED BY <2>1, <2>2
<1>10. TwoTransactions'
  <2>1. ASSUME NEW j \in Keys PROVE /\ db'[j].main <= clock' /\ was'[j].main <= clock'
                                    /\ \A t \in Tables : db'[j].part[t] <= clock'
                                    /\ \A o \in pending'[j] : o <= clock'
    BY <1>2, <1>3 DEF TwoTransactions
  <2> QED BY <1>9, <2>1 DEF TwoTransactions
<1>11. clock' \in Nat
  BY <1>0, <1>2
<1> QED BY <1>2, <1>5, <1>6, <1>8, <1>10, <1>11, StoreStep

\* The cursor returns rows of the query, each of them, and none twice.
LEMMA CursorsAre ==
    ASSUME NEW rows, IsFiniteSet(rows), NEW s \in Cursors(rows)
    PROVE  /\ s \in Seq(rows)
           /\ \A x \in rows : \E i \in 1 .. Len(s) : s[i] = x
<1>1. Cardinality(rows) \in Nat
  BY FS_CardinalityType
<1>2. s \in [1 .. Cardinality(rows) -> rows]
  BY DEF Cursors
<1>3. s \in Seq(rows) /\ Len(s) = Cardinality(rows)
  BY <1>1, <1>2
<1>4. s \in Injection(1 .. Cardinality(rows), rows)
  <2>1. \A i, j \in 1 .. Cardinality(rows) : s[i] = s[j] => i = j
    <3> SUFFICES ASSUME NEW i \in 1 .. Cardinality(rows), NEW j \in 1 .. Cardinality(rows), i # j
                 PROVE s[i] # s[j]
      OBVIOUS
    <3>1. i < j \/ j < i
      BY <1>1
    <3>2. DOMAIN s = 1 .. Cardinality(rows)
      BY <1>2
    <3> QED BY <3>1, <3>2 DEF Cursors
  <2> QED BY <1>2, <2>1 DEF Injection, IsInjective
<1>5. Cardinality(1 .. Cardinality(rows)) = Cardinality(rows)
  BY <1>1, FS_Interval
<1>6. s \in Surjection(1 .. Cardinality(rows), rows)
  BY <1>4, <1>5, FS_Injection
<1> QED BY <1>3, <1>6 DEF Surjection

\* The steps of the export, one by one.
LEMMA OpenKeeps == ExportInv /\ Open => ExportInv'
<1> SUFFICES ASSUME ExportInv, Open PROVE ExportInv'
  OBVIOUS
<1> USE DEF ExportInv
<1>0. /\ exporting = "start" /\ out = <<>> /\ batch = <<>> /\ taken = 0 /\ count = 0
      /\ UNCHANGED <<db, clock, pending, enriched, uncleaned, request, taken, row, batch, out, count, closed>>
      /\ db \in Bases /\ enriched \in [Keys -> Seq(Nat)] /\ uncleaned \in SUBSET (Nat \X CoreTables) /\ clock \in Nat
      /\ World \in Worlds
      /\ Len(out) = 0 /\ Len(batch) = 0
  BY WorldIs DEF Open, PipeRules, ExportTyped, Worlds
<1>1. CASE request.format = "parquet" /\ request.stdout
  <2>1. exporting' = "failed" /\ UNCHANGED <<snapshot, was>> /\ World' = World
    BY <1>1, WorldKept DEF Open, store
  <2>2. ExportTyped'
    BY <1>0, <2>1 DEF ExportTyped, Assembling
  <2>3. TwoTransactions'
    BY <1>0, <2>1 DEF TwoTransactions
  <2>4. PipeRules'
    BY <1>0, <2>1 DEF PipeRules
  <2>5. Accounted'
    BY <1>0, <2>1 DEF Accounted, ShownAt, Assembling
  <2>6. SnapshotIs'
    BY <1>0, <2>1 DEF SnapshotIs
  <2>7. RowsRead'
    BY <1>0, <2>1 DEF RowsRead, Assembling
  <2> QED BY <2>2, <2>3, <2>4, <2>5, <2>6, <2>7
<1>2. CASE ~(request.format = "parquet" /\ request.stdout)
  <2> DEFINE chosen == {e \in Keys : db[e].main > 0 /\ Selected(e, db[e].main)}
             rows == {[key |-> d, main |-> db[d].main] : d \in chosen}
  <2>1. /\ exporting' = "cursor" /\ snapshot' \in Cursors(rows)
        /\ was' = db /\ mark' = [k \in Keys |-> Len(enriched[k])] /\ newer' = [k \in Keys |-> {}]
    BY <1>2 DEF Open
  <2>2. IsFiniteSet(rows)
    <3>1. IsFiniteSet(chosen)
      BY ExportAssumption, FS_Subset
    <3> HIDE DEF chosen
    <3> DEFINE F == [d \in chosen |-> [key |-> d, main |-> db[d].main]]
    <3>2. rows = {F[d] : d \in chosen}
      OBVIOUS
    <3>3. F \in Surjection(chosen, rows)
      BY DEF Surjection
    <3> HIDE DEF F, rows
    <3> QED BY <3>1, <3>3, FS_Surjection
  <2>3. snapshot' \in Seq(rows)
    <3> HIDE DEF rows
    <3> QED BY <2>1, <2>2, CursorsAre
  <2>4. \A x \in rows : x \in Entries /\ x.main = db[x.key].main
    BY <1>0 DEF Entries, Bases
  <2>5. snapshot' \in Seq(Entries) /\ Len(snapshot') \in Nat
        /\ \A k \in 1 .. Len(snapshot') : snapshot'[k].main = db[snapshot'[k].key].main
    <3> HIDE DEF rows
    <3> QED BY <2>3, <2>4
  <2> HIDE DEF rows, chosen
  <2>6. ExportTyped'
    <3>1. World' \in Worlds
      BY <1>0, <2>1, WorldIs DEF Worlds
    <3> QED BY <1>0, <2>1, <2>5, <3>1 DEF ExportTyped, Assembling
  <2>7. TwoTransactions'
    <3>1. ASSUME NEW k \in Keys PROVE TablesOf(k, World')
      <4>1. /\ TablesOf(k, World) /\ Len(enriched[k]) \in Nat
            /\ \A t \in Tables : db[k].part[t] \in Nat
        BY <1>0 DEF TwoTransactions, Bases
      <4>2. /\ db' = db /\ enriched' = enriched /\ uncleaned' = uncleaned /\ was'[k] = db[k]
            /\ mark'[k] = Len(enriched[k]) /\ newer'[k] = {}
        BY <1>0, <2>1
      <4>3. mark'[k] \in 1 .. Len(enriched'[k])
        BY <4>1, <4>2, WorldIs DEF TablesOf
      <4>4. \A t \in Tables : t \in CoreTables =>
               /\ db'[k].part[t] \in newer'[k] \cup {was'[k].part[t]}
               /\ db'[k].main <= db'[k].part[t] \/ <<db'[k].main, t>> \in uncleaned'
               /\ was'[k].main <= db'[k].part[t] \/ <<was'[k].main, t>> \in uncleaned'
               /\ \A u \in Tables : u \in CoreTables =>
                     db'[k].part[t] <= db'[k].part[u] \/ <<db'[k].part[t], u>> \in uncleaned'
        BY <4>1, <4>2, WorldIs DEF TablesOf, Level
      <4>5. \A t \in Tables : t \notin CoreTables => db'[k].part[t] = enriched'[k][Len(enriched'[k])]
        BY <4>1, <4>2, WorldIs DEF TablesOf
      <4> QED BY <4>3, <4>4, <4>5, WorldIs DEF TablesOf, Level
    <3>2. \A k \in Keys : was'[k].main <= clock'
      BY <1>0, <2>1 DEF TwoTransactions
    <3> QED BY <1>0, <3>1, <3>2 DEF TwoTransactions
  <2>8. PipeRules'
    BY <1>0, <1>2, <2>1 DEF PipeRules
  <2>9. Accounted'
    BY <1>0, <2>1 DEF Accounted, ShownAt, Assembling
  <2>10. SnapshotIs'
    BY <2>1, <2>5 DEF SnapshotIs
  <2>11. RowsRead'
    BY <1>0, <2>1 DEF RowsRead, Assembling
  <2> QED BY <2>6, <2>7, <2>8, <2>9, <2>10, <2>11
<1> QED BY <1>1, <1>2

LEMMA NextRowKeeps == ExportInv /\ NextRow => ExportInv'
<1> SUFFICES ASSUME ExportInv, NextRow PROVE ExportInv'
  OBVIOUS
<1> USE DEF ExportInv
<1>0. /\ exporting = "cursor" /\ taken < Len(snapshot) /\ taken' = taken + 1 /\ exporting' = "assemble"
      /\ row' = [key |-> snapshot[taken + 1].key, main |-> snapshot[taken + 1].main, parts |-> <<>>]
      /\ World' = World /\ UNCHANGED <<db, clock, pending, was, request, snapshot, batch, out, count, closed>>
  BY WorldKept DEF NextRow
<1>1. snapshot[taken + 1] \in Entries /\ taken \in Nat /\ Len(snapshot) \in Nat
  BY <1>0 DEF ExportTyped
<1>2. row' \in Rows /\ row'.parts = <<>> /\ Len(row'.parts) = 0
  BY <1>0, <1>1 DEF Rows, Entries
<1>3. ExportTyped'
  BY <1>0, <1>1, <1>2 DEF ExportTyped
<1>4. TwoTransactions'
  BY <1>0 DEF TwoTransactions
<1>5. PipeRules'
  BY <1>0 DEF PipeRules
<1>6. Accounted'
  <2>1. ShownAt(row, taken)'
    BY <1>0 DEF ShownAt
  <2>2. taken = count /\ count \in Nat
    BY <1>0 DEF Accounted, Assembling, ExportTyped
  <2> QED BY <1>0, <1>1, <1>2, <2>1, <2>2, QueriesAre DEF Accounted, ShownAt, Assembling
<1>7. SnapshotIs'
  BY <1>0 DEF SnapshotIs
<1>8. RowsRead'
  <2>1. row'.key \in Keys /\ row'.main = was[row'.key].main
    BY <1>0, <1>1, <1>2 DEF SnapshotIs, Rows
  <2>2. \A t \in Tables : t \in CoreTables => Level(row'.main, World.db[row'.key].part[t], t, World)
    BY <2>1, WorldIs DEF TwoTransactions, TablesOf
  <2>3. Read(row', World)
    BY <1>2, <2>2, QueriesAre DEF Read
  <2> QED BY <1>0, <2>3 DEF RowsRead
<1> QED BY <1>3, <1>4, <1>5, <1>6, <1>7, <1>8

LEMMA ExportErrorKeeps == ExportInv /\ ExportError => ExportInv'
<1> SUFFICES ASSUME ExportInv, ExportError PROVE ExportInv'
  OBVIOUS
<1> USE DEF ExportInv
<1>0. /\ exporting \in {"cursor", "assemble", "write"} /\ exporting' = "failed"
      /\ World' = World /\ UNCHANGED <<db, clock, pending, was, request, snapshot, taken, batch, out, count, closed>>
  BY WorldKept DEF ExportError
<1>1. ExportTyped'
  BY <1>0 DEF ExportTyped, Assembling
<1>2. TwoTransactions'
  BY <1>0 DEF TwoTransactions
<1>3. PipeRules'
  BY <1>0 DEF PipeRules
<1>4. Accounted'
  BY <1>0 DEF Accounted, ShownAt, Assembling
<1>5. SnapshotIs'
  BY <1>0 DEF SnapshotIs
<1>6. RowsRead'
  BY <1>0 DEF RowsRead, Assembling
<1> QED BY <1>1, <1>2, <1>3, <1>4, <1>5, <1>6

LEMMA ClosePipeKeeps == ExportInv /\ ClosePipe => ExportInv'
<1> SUFFICES ASSUME ExportInv, ClosePipe PROVE ExportInv'
  OBVIOUS
<1> USE DEF ExportInv
<1>0. /\ request.stdout /\ ~closed /\ closed' = TRUE
      /\ World' = World /\ UNCHANGED <<db, clock, pending, was, request, exporting, snapshot, taken, row, batch, out, count>>
  BY WorldKept DEF ClosePipe, output
<1>1. ExportTyped'
  BY <1>0 DEF ExportTyped, Assembling
<1>2. TwoTransactions'
  BY <1>0 DEF TwoTransactions
<1>3. PipeRules'
  BY <1>0 DEF PipeRules
<1>4. Accounted'
  BY <1>0 DEF Accounted, ShownAt, Assembling
<1>5. SnapshotIs'
  BY <1>0 DEF SnapshotIs
<1>6. RowsRead'
  BY <1>0 DEF RowsRead, Assembling
<1> QED BY <1>1, <1>2, <1>3, <1>4, <1>5, <1>6

\* A query reads what is committed: a core table that is level with what the row
\* shows, another as the last enrichment left it.
LEMMA QueryReads ==
    ASSUME ExportInv, Query
    PROVE  /\ row' \in Rows /\ Read(row', World) /\ ShownAt(row', taken)
           /\ Len(row'.parts) = Len(row.parts) + 1 /\ Len(row.parts) \in Nat
           /\ row.key \in Keys
<1> USE DEF ExportInv
<1> DEFINE n == Len(row.parts) + 1
           p == db[row.key].part[Queries[n]]
<1>0. /\ exporting = "assemble" /\ Len(row.parts) < Len(Queries)
      /\ row' = [row EXCEPT !.parts = Append(row.parts, p)]
      /\ row \in Rows /\ Assembling
      /\ World \in Worlds /\ db \in Bases
  BY WorldIs DEF Query, ExportTyped, Assembling, Worlds
<1>1. row.parts \in Seq(Nat) /\ Len(row.parts) \in Nat /\ row.key \in Keys /\ row.main \in Nat
  BY <1>0 DEF Rows
<1>2. n \in 1 .. 20 /\ DOMAIN Queries = 1 .. 20 /\ Len(Queries) = 20 /\ Queries[n] \in Tables
  <2>1. DOMAIN Queries = 1 .. 20 /\ Len(Queries) = 20
    BY QueriesAre
  <2>2. n \in 1 .. 20
    <3>1. Len(row.parts) < Len(Queries)
      BY <1>0
    <3>2. Len(row.parts) < 20
      BY <3>1, <2>1
    <3>3. Len(row.parts) \in Nat
      BY <1>1
    <3>4. \A m \in Nat : m < 20 => m + 1 \in 1 .. 20
      OBVIOUS
    <3> QED BY <3>2, <3>3, <3>4
  <2> QED BY <2>1, <2>2, QueriesAre
<1>3. p \in Nat
  BY <1>0, <1>1, <1>2 DEF Bases
<1>4. /\ row'.key = row.key /\ row'.main = row.main /\ row'.parts = Append(row.parts, p)
      /\ row' \in Rows
  <2> DEFINE longer == Append(row.parts, p)
  <2>1. longer \in Seq(Nat)
    BY <1>1, <1>3
  <2>2. row' = [row EXCEPT !.parts = longer]
    BY <1>0
  <2> HIDE DEF longer
  <2>3. row'.key = row.key /\ row'.main = row.main /\ row'.parts = longer /\ row' \in Rows
    BY <1>0, <2>1, <2>2 DEF Rows
  <2> QED BY <2>3 DEF longer
<1>5. /\ Len(row'.parts) = n /\ row'.parts[n] = p
      /\ \A i \in 1 .. Len(row.parts) : row'.parts[i] = row.parts[i]
  BY <1>1, <1>3, <1>4
<1>6. Read(row, World)
  BY <1>0 DEF RowsRead
<1>7. ShownAt(row', taken)
  BY <1>0, <1>4 DEF Accounted, ShownAt
<1>8. \A i \in 1 .. n : i = n \/ i \in 1 .. Len(row.parts)
  BY <1>1
<1>9. TablesOf(row.key, World) /\ World.db = db
  BY <1>1, WorldIs DEF TwoTransactions
<1>10. ASSUME NEW i \in 1 .. n, Queries[i] \in CoreTables
       PROVE  /\ row'.parts[i] \in World.newer[row.key] \cup {World.was[row.key].part[Queries[i]]}
              /\ Level(row.main, row'.parts[i], Queries[i], World)
              /\ \A t \in Tables : t \in CoreTables => Level(row'.parts[i], World.db[row.key].part[t], t, World)
  <2>1. CASE i = n
    <3>1. Queries[n] \in Tables /\ Queries[n] \in CoreTables /\ row'.parts[i] = World.db[row.key].part[Queries[n]]
      BY <1>2, <1>5, <1>9, <1>10, <2>1
    <3>2. Level(row.main, World.db[row.key].part[Queries[n]], Queries[n], World)
      BY <1>6, <3>1 DEF Read
    <3> HIDE DEF n
    <3> QED BY <1>9, <2>1, <3>1, <3>2 DEF TablesOf
  <2>2. CASE i \in 1 .. Len(row.parts)
    BY <1>5, <1>6, <1>10, <2>2 DEF Read
  <2> QED BY <1>8, <2>1, <2>2
<1>11. ASSUME NEW i \in 1 .. n, NEW j \in 1 .. n, i <= j
       PROVE  /\ Queries[i] \in CoreTables /\ Queries[j] \in CoreTables => Level(row'.parts[i], row'.parts[j], Queries[j], World)
              /\ Queries[i] \notin CoreTables /\ Queries[j] \notin CoreTables => Followed(row.key, row'.parts[i], row'.parts[j], World)
  <2>1. CASE j \in 1 .. Len(row.parts)
    <3>1. i \in 1 .. Len(row.parts)
      BY <1>1, <1>11, <2>1
    <3> QED BY <1>5, <1>6, <1>11, <2>1, <3>1 DEF Read
  <2>2. CASE j = n
    <3>1. ASSUME Queries[i] \in CoreTables, Queries[j] \in CoreTables
          PROVE  Level(row'.parts[i], row'.parts[j], Queries[j], World)
      <4>1. row'.parts[j] = World.db[row.key].part[Queries[j]] /\ Queries[j] \in Tables
        BY <1>2, <1>5, <1>9, <2>2
      <4> QED BY <1>10, <3>1, <4>1
    <3>2. ASSUME Queries[i] \notin CoreTables, Queries[j] \notin CoreTables
          PROVE  Followed(row.key, row'.parts[i], row'.parts[j], World)
      <4> DEFINE last == Len(World.enriched[row.key])
                 from == World.mark[row.key]
      <4>1. last \in Nat /\ from \in Nat /\ from \in 1 .. last
        BY <1>0, <1>1, <1>9 DEF TablesOf, Worlds
      <4>2. row'.parts[j] = World.enriched[row.key][last]
        <5>1. row'.parts[j] = World.db[row.key].part[Queries[j]] /\ Queries[j] \in Tables
          BY <1>2, <1>5, <1>9, <2>2
        <5> QED BY <1>9, <3>2, <5>1 DEF TablesOf
      <4>3. \E a \in from .. last : World.enriched[row.key][a] = row'.parts[i]
        <5>1. CASE i = n
          <6>1. last \in from .. last
            BY <4>1
          <6> QED BY <2>2, <4>2, <5>1, <6>1
        <5>2. CASE i \in 1 .. Len(row.parts)
          <6>1. Followed(row.key, row.parts[i], row.parts[i], World)
            BY <1>6, <3>2, <5>2 DEF Read
          <6> QED BY <1>5, <5>2, <6>1 DEF Followed
        <5> QED BY <1>8, <5>1, <5>2
      <4>4. PICK a \in from .. last : World.enriched[row.key][a] = row'.parts[i]
        BY <4>3
      <4>5. a <= last /\ last \in from .. last
        BY <4>1, <4>4
      <4> QED BY <4>2, <4>4, <4>5 DEF Followed
    <3> QED BY <3>1, <3>2
  <2> QED BY <1>8, <2>1, <2>2
<1>12. Read(row', World)
  <2>1. Len(row'.parts) <= Len(Queries)
    BY <1>2, <1>5
  <2>2. \A t \in Tables : t \in CoreTables => Level(row.main, World.db[row.key].part[t], t, World)
    BY <1>6 DEF Read
  <2> HIDE DEF n
  <2> QED BY <1>4, <1>5, <1>10, <1>11, <2>1, <2>2 DEF Read
<1> QED BY <1>1, <1>4, <1>5, <1>7, <1>12

LEMMA QueryKeeps == ExportInv /\ Query => ExportInv'
<1> SUFFICES ASSUME ExportInv, Query PROVE ExportInv'
  OBVIOUS
<1>0. /\ exporting = "assemble" /\ Len(row.parts) < Len(Queries)
      /\ exporting' = IF Len(row.parts) + 1 = Len(Queries) THEN "write" ELSE "assemble"
      /\ World' = World /\ UNCHANGED <<db, clock, pending, was, request, snapshot, taken, batch, out, count, closed>>
  BY WorldKept DEF Query
<1>1. /\ row' \in Rows /\ Read(row', World) /\ ShownAt(row', taken)
      /\ Len(row'.parts) = Len(row.parts) + 1 /\ Len(row.parts) \in Nat
  BY QueryReads
<1>2. Assembling /\ Assembling' /\ exporting' \notin {"start", "cursor", "ok", "failed"}
  BY <1>0 DEF Assembling
<1> USE DEF ExportInv
<1>3. ExportTyped'
  BY <1>0, <1>1 DEF ExportTyped
<1>4. TwoTransactions'
  BY <1>0 DEF TwoTransactions
<1>5. PipeRules'
  BY <1>0 DEF PipeRules
<1>6. Accounted'
  <2>1. /\ exporting' = "write" => Len(row'.parts) = Len(Queries)
        /\ exporting' = "assemble" => Len(row'.parts) < Len(Queries)
    BY <1>0, <1>1, QueriesAre
  <2>2. ShownAt(row, taken)'
    BY <1>0, <1>1 DEF ShownAt
  <2> QED BY <1>0, <1>2, <2>1, <2>2 DEF Accounted, ShownAt
<1>7. SnapshotIs'
  BY <1>0 DEF SnapshotIs
<1>8. RowsRead'
  BY <1>0, <1>1 DEF RowsRead
<1> QED BY <1>3, <1>4, <1>5, <1>6, <1>7, <1>8

LEMMA WriteKeeps == ExportInv /\ Write => ExportInv'
<1> SUFFICES ASSUME ExportInv, Write PROVE ExportInv'
  OBVIOUS
<1> USE DEF ExportInv
<1>0. /\ exporting = "write" /\ exporting' = "cursor" /\ count' = count + 1
      /\ World' = World /\ UNCHANGED <<db, clock, pending, was, request, snapshot, taken, closed>>
  BY WorldKept DEF Write
<1>1. /\ row \in Rows /\ out \in Seq(Rows) /\ batch \in Seq(Rows) /\ count \in Nat /\ taken \in Nat
      /\ Len(out) \in Nat /\ Len(batch) \in Nat /\ Assembling /\ ~Assembling'
  BY <1>0 DEF ExportTyped, Assembling
<1>2. /\ taken = count + 1 /\ ShownAt(row, taken) /\ Len(row.parts) = Len(Queries) /\ Read(row, World)
      /\ taken <= Len(snapshot)
  BY <1>0, <1>1 DEF Accounted, RowsRead, ExportTyped
<1>3. TwoTransactions'
  BY <1>0 DEF TwoTransactions
<1>4. SnapshotIs'
  BY <1>0 DEF SnapshotIs
<1> DEFINE Lands ==
              /\ out' \in Seq(Rows) /\ batch' \in Seq(Rows)
              /\ Len(out') \in Nat /\ Len(batch') \in Nat
              /\ Len(out') + Len(batch') <= count + 1
              /\ ~closed => Len(out') + Len(batch') = count + 1
              /\ \A i \in 1 .. Len(out') :
                    \/ i \in 1 .. Len(out) /\ out'[i] = out[i]
                    \/ ~closed /\ i - Len(out) \in 1 .. Len(batch) /\ out'[i] = batch[i - Len(out)]
                    \/ ~closed /\ i = count + 1 /\ out'[i] = row
              /\ \A j \in 1 .. Len(batch') :
                    \/ j \in 1 .. Len(batch) /\ out' = out /\ batch'[j] = batch[j]
                    \/ ~closed /\ out' = out /\ Len(out) + j = count + 1 /\ batch'[j] = row
<1>5. ASSUME request.format # "parquet" PROVE Lands /\ PipeRules'
  <2>1. batch = <<>> /\ Len(batch) = 0 /\ out' = Delivered(<<row>>) /\ batch' = batch
    BY <1>5, <1>0 DEF Write, PipeRules
  <2>2. Lands /\ PipeRules'
    <3>1. CASE closed
      BY <2>1, <3>1, <1>0, <1>1, <1>5 DEF Delivered, PipeRules, Accounted
    <3>2. CASE ~closed
      <4>1. out' = Append(out, row)
        BY <2>1, <3>2, <1>1 DEF Delivered
      <4>2. Len(out) = count
        BY <3>2, <2>1, <1>1 DEF Accounted
      <4>3. PipeRules'
        BY <1>0, <1>5, <2>1 DEF PipeRules
      <4>4. /\ out' \in Seq(Rows) /\ Len(out') = Len(out) + 1 /\ out'[Len(out) + 1] = row
            /\ \A i \in 1 .. Len(out) : out'[i] = out[i]
            /\ \A i \in 1 .. Len(out) + 1 : i = Len(out) + 1 \/ i \in 1 .. Len(out)
        BY <4>1, <1>1, AppendAt
      <4>5. \A i \in 1 .. Len(out') : \/ i \in 1 .. Len(out) /\ out'[i] = out[i]
                                      \/ i = count + 1 /\ out'[i] = row
        BY <4>4, <4>2
      <4>6. Len(out') + Len(batch') = count + 1 /\ Len(out') \in Nat /\ Len(batch') \in Nat
        BY <4>2, <4>4, <2>1, <1>1
      <4>7. \A j \in 1 .. Len(batch') : FALSE
        BY <2>1
      <4> QED BY <4>3, <4>4, <4>5, <4>6, <4>7, <3>2, <2>1, <1>1
    <3> QED BY <3>1, <3>2
  <2> QED BY <2>2
<1>6. ASSUME request.format = "parquet" PROVE Lands /\ PipeRules'
  <2>1. ~closed /\ Len(out) + Len(batch) = count
    BY <1>0, <1>6 DEF PipeRules, Accounted
  <2>2. PipeRules'
    BY <1>0, <1>6 DEF PipeRules
  <2>3. /\ Append(batch, row) \in Seq(Rows) /\ Len(Append(batch, row)) = Len(batch) + 1
        /\ Append(batch, row)[Len(batch) + 1] = row
        /\ \A i \in 1 .. Len(batch) : Append(batch, row)[i] = batch[i]
        /\ \A i \in 1 .. Len(batch) + 1 : i = Len(batch) + 1 \/ i \in 1 .. Len(batch)
    BY <1>1, AppendAt
  <2>4. CASE Len(batch) + 1 >= BATCH_SIZE
    <3>1. out' = out \o Append(batch, row) /\ batch' = <<>>
      BY <2>1, <2>4, <1>6 DEF Write, Delivered
    <3> DEFINE more == Append(batch, row)
    <3>2. /\ more \in Seq(Rows) /\ Len(more) = Len(batch) + 1 /\ more[Len(batch) + 1] = row
          /\ \A i \in 1 .. Len(batch) : more[i] = batch[i]
          /\ \A i \in 1 .. Len(batch) + 1 : i = Len(batch) + 1 \/ i \in 1 .. Len(batch)
      BY <2>3
    <3>3. out' = out \o more
      BY <3>1
    <3> HIDE DEF more
    <3>4. /\ out \o more \in Seq(Rows) /\ Len(out \o more) = Len(out) + Len(more)
          /\ \A i \in 1 .. Len(out) : (out \o more)[i] = out[i]
          /\ \A i \in 1 .. Len(out) + Len(more) :
                i \in 1 .. Len(out) \/ (i - Len(out) \in 1 .. Len(more) /\ (out \o more)[i] = more[i - Len(out)])
      BY <1>1, <3>2, ConcatAt
    <3>5. /\ out' \in Seq(Rows) /\ Len(out') = count + 1
          /\ \A i \in 1 .. Len(out) : out'[i] = out[i]
          /\ \A i \in 1 .. Len(out') :
                i \in 1 .. Len(out) \/ (i - Len(out) \in 1 .. Len(more) /\ out'[i] = more[i - Len(out)])
      BY <3>3, <3>4, <3>2, <2>1, <1>1
    <3>6. \A i \in 1 .. Len(out') :
             \/ i \in 1 .. Len(out) /\ out'[i] = out[i]
             \/ ~closed /\ i - Len(out) \in 1 .. Len(batch) /\ out'[i] = batch[i - Len(out)]
             \/ ~closed /\ i = count + 1 /\ out'[i] = row
      <4> SUFFICES ASSUME NEW i \in 1 .. Len(out'), i \notin 1 .. Len(out)
                   PROVE  \/ i - Len(out) \in 1 .. Len(batch) /\ out'[i] = batch[i - Len(out)]
                          \/ i = count + 1 /\ out'[i] = row
        BY <2>1, <3>5
      <4>1. i - Len(out) \in 1 .. Len(batch) + 1 /\ out'[i] = more[i - Len(out)]
        BY <3>5, <3>2
      <4>2. i - Len(out) = Len(batch) + 1 \/ i - Len(out) \in 1 .. Len(batch)
        BY <4>1, <1>1
      <4>3. CASE i - Len(out) = Len(batch) + 1
        <5>1. i = count + 1
          BY <4>3, <3>5, <1>1, <2>1
        <5> QED BY <5>1, <4>1, <4>3, <3>2
      <4>4. CASE i - Len(out) \in 1 .. Len(batch)
        BY <4>4, <4>1, <3>2
      <4> QED BY <4>2, <4>3, <4>4
    <3>7. batch' \in Seq(Rows) /\ Len(batch') = 0
      BY <3>1
    <3>8. Lands
      BY <3>5, <3>6, <3>7, <1>1
    <3> QED BY <3>8, <2>2
  <2>5. CASE ~(Len(batch) + 1 >= BATCH_SIZE)
    <3>1. out' = out /\ batch' = Append(batch, row)
      BY <2>5, <1>6 DEF Write
    <3>2. /\ batch' \in Seq(Rows) /\ Len(batch') = Len(batch) + 1 /\ batch'[Len(batch) + 1] = row
          /\ \A i \in 1 .. Len(batch) : batch'[i] = batch[i]
      BY <2>3, <3>1
    <3>3. \A j \in 1 .. Len(batch') : \/ j \in 1 .. Len(batch) /\ batch'[j] = batch[j]
                                      \/ Len(out) + j = count + 1 /\ batch'[j] = row
      <4> SUFFICES ASSUME NEW j \in 1 .. Len(batch'), j \notin 1 .. Len(batch)
                   PROVE Len(out) + j = count + 1 /\ batch'[j] = row
        BY <3>2
      <4>1. j = Len(batch) + 1
        BY <3>2, <1>1
      <4> QED BY <4>1, <3>2, <2>1, <1>1
    <3>4. Len(out') + Len(batch') = count + 1 /\ Len(out') \in Nat /\ Len(batch') \in Nat
      BY <3>1, <3>2, <2>1, <1>1
    <3>5. \A i \in 1 .. Len(out') : i \in 1 .. Len(out) /\ out'[i] = out[i]
      BY <3>1
    <3>6. Lands
      BY <3>1, <3>2, <3>3, <3>4, <3>5, <2>1, <1>1
    <3> QED BY <3>6, <2>2
  <2> QED BY <2>4, <2>5
<1>7. Lands /\ PipeRules'
  BY <1>5, <1>6
<1>8. ExportTyped'
  BY <1>0, <1>1, <1>7 DEF ExportTyped
<1>9. Accounted'
  <2>1. \A i \in 1 .. Len(out) : ShownAt(out[i], i) /\ Len(out[i].parts) = Len(Queries)
    BY DEF Accounted
  <2>2. \A j \in 1 .. Len(batch) : Len(batch[j].parts) = Len(Queries)
    BY DEF Accounted
  <2>3. ~closed => Len(out) + Len(batch) = count /\ \A j \in 1 .. Len(batch) : ShownAt(batch[j], Len(out) + j)
    BY DEF Accounted
  <2>4. \A i \in 1 .. Len(out') : ShownAt(out'[i], i) /\ Len(out'[i].parts) = Len(Queries)
    <3> SUFFICES ASSUME NEW i \in 1 .. Len(out') PROVE ShownAt(out'[i], i) /\ Len(out'[i].parts) = Len(Queries)
      OBVIOUS
    <3>1. CASE i \in 1 .. Len(out) /\ out'[i] = out[i]
      BY <3>1, <2>1
    <3>2. CASE ~closed /\ i - Len(out) \in 1 .. Len(batch) /\ out'[i] = batch[i - Len(out)]
      <4>1. Len(out) + (i - Len(out)) = i
        BY <1>1
      <4>2. ShownAt(batch[i - Len(out)], Len(out) + (i - Len(out))) /\ Len(batch[i - Len(out)].parts) = Len(Queries)
        BY <3>2, <2>2, <2>3
      <4> QED BY <4>1, <4>2, <3>2
    <3>3. CASE ~closed /\ i = count + 1 /\ out'[i] = row
      BY <3>3, <1>2
    <3> QED BY <1>7, <3>1, <3>2, <3>3
  <2>5. \A j \in 1 .. Len(batch') : /\ ~closed => ShownAt(batch'[j], Len(out') + j)
                                    /\ Len(batch'[j].parts) = Len(Queries)
    <3> SUFFICES ASSUME NEW j \in 1 .. Len(batch')
                 PROVE (~closed => ShownAt(batch'[j], Len(out') + j)) /\ Len(batch'[j].parts) = Len(Queries)
      OBVIOUS
    <3>1. CASE j \in 1 .. Len(batch) /\ out' = out /\ batch'[j] = batch[j]
      <4>1. ~closed => ShownAt(batch[j], Len(out) + j)
        BY <3>1, <2>3
      <4>2. Len(batch[j].parts) = Len(Queries)
        BY <3>1, <2>2
      <4> QED BY <3>1, <4>1, <4>2
    <3>2. CASE ~closed /\ out' = out /\ Len(out) + j = count + 1 /\ batch'[j] = row
      BY <3>2, <1>2
    <3> QED BY <1>7, <3>1, <3>2
  <2>6. \A r, k : ShownAt(r, k) => (r.key = snapshot'[k].key /\ r.main = snapshot'[k].main)
    BY <1>0 DEF ShownAt
  <2> QED BY <1>0, <1>1, <1>2, <1>7, <2>4, <2>5, <2>6 DEF Accounted, ShownAt
<1>10. RowsRead'
  <2>1. /\ \A i \in 1 .. Len(out) : Read(out[i], World)
        /\ \A j \in 1 .. Len(batch) : Read(batch[j], World)
    BY DEF RowsRead
  <2>2. \A i \in 1 .. Len(out') : Read(out'[i], World)
    BY <1>2, <1>7, <2>1
  <2>3. \A j \in 1 .. Len(batch') : Read(batch'[j], World)
    BY <1>2, <1>7, <2>1
  <2> QED BY <1>0, <1>1, <2>2, <2>3 DEF RowsRead
<1> QED BY <1>3, <1>4, <1>7, <1>8, <1>9, <1>10
LEMMA FinishKeeps == ExportInv /\ Finish => ExportInv'
<1> SUFFICES ASSUME ExportInv, Finish PROVE ExportInv'
  OBVIOUS
<1> USE DEF ExportInv
<1>0. /\ exporting = "cursor" /\ exporting' = "ok" /\ taken = Len(snapshot) /\ out' = Delivered(batch) /\ batch' = <<>>
      /\ World' = World /\ UNCHANGED <<db, clock, pending, was, request, snapshot, taken, row, count, closed>>
  BY WorldKept DEF Finish
<1>1. /\ out \in Seq(Rows) /\ batch \in Seq(Rows) /\ count \in Nat /\ taken \in Nat
      /\ Len(out) \in Nat /\ Len(batch) \in Nat /\ ~Assembling /\ ~Assembling'
      /\ batch' \in Seq(Rows) /\ Len(batch') = 0
  BY <1>0 DEF ExportTyped, Assembling
<1>2. /\ out' \in Seq(Rows) /\ Len(out') \in Nat /\ Len(out') <= count
      /\ ~closed => Len(out') = count
      /\ \A i \in 1 .. Len(out') :
            \/ i \in 1 .. Len(out) /\ out'[i] = out[i]
            \/ ~closed /\ i - Len(out) \in 1 .. Len(batch) /\ out'[i] = batch[i - Len(out)]
  <2>1. CASE closed
    BY <2>1, <1>0, <1>1 DEF Delivered, Accounted
  <2>2. CASE ~closed
    <3>1. out' = out \o batch /\ Len(out) + Len(batch) = count
      BY <2>2, <1>0 DEF Delivered, Accounted
    <3>2. /\ out \o batch \in Seq(Rows) /\ Len(out \o batch) = Len(out) + Len(batch)
          /\ \A i \in 1 .. Len(out) : (out \o batch)[i] = out[i]
          /\ \A i \in 1 .. Len(out) + Len(batch) :
                i \in 1 .. Len(out) \/ (i - Len(out) \in 1 .. Len(batch) /\ (out \o batch)[i] = batch[i - Len(out)])
      BY <1>1, ConcatAt
    <3>3. out' \in Seq(Rows) /\ Len(out') = count
      BY <3>1, <3>2
    <3> QED BY <2>2, <3>1, <3>2, <3>3, <1>1
  <2> QED BY <2>1, <2>2
<1>3. ExportTyped'
  BY <1>0, <1>1, <1>2 DEF ExportTyped
<1>4. TwoTransactions'
  BY <1>0 DEF TwoTransactions
<1>5. PipeRules'
  BY <1>0 DEF PipeRules
<1>6. Accounted'
  <2>1. \A i \in 1 .. Len(out') : ShownAt(out'[i], i) /\ Len(out'[i].parts) = Len(Queries)
    <3> SUFFICES ASSUME NEW i \in 1 .. Len(out') PROVE ShownAt(out'[i], i) /\ Len(out'[i].parts) = Len(Queries)
      OBVIOUS
    <3>1. CASE i \in 1 .. Len(out) /\ out'[i] = out[i]
      BY <3>1 DEF Accounted
    <3>2. CASE ~closed /\ i - Len(out) \in 1 .. Len(batch) /\ out'[i] = batch[i - Len(out)]
      <4>1. Len(out) + (i - Len(out)) = i
        BY <1>1
      <4>2. ShownAt(batch[i - Len(out)], Len(out) + (i - Len(out))) /\ Len(batch[i - Len(out)].parts) = Len(Queries)
        BY <3>2 DEF Accounted
      <4> QED BY <4>1, <4>2, <3>2
    <3> QED BY <1>2, <3>1, <3>2
  <2>2. taken = count
    BY <1>0, <1>1 DEF Accounted
  <2>3. Len(out') + Len(batch') <= count /\ (~closed => Len(out') + Len(batch') = count)
    BY <1>1, <1>2
  <2> QED BY <1>0, <1>1, <2>1, <2>2, <2>3 DEF Accounted, ShownAt
<1>7. SnapshotIs'
  BY <1>0 DEF SnapshotIs
<1>8. RowsRead'
  <2>1. \A i \in 1 .. Len(out') : Read(out'[i], World)
    BY <1>2 DEF RowsRead
  <2> QED BY <1>0, <1>1, <2>1 DEF RowsRead
<1> QED BY <1>3, <1>4, <1>5, <1>6, <1>7, <1>8

\* A step of others.
LEMMA ExportIdle == ExportInv /\ UNCHANGED xvars => ExportInv'
<1> SUFFICES ASSUME ExportInv, UNCHANGED xvars PROVE ExportInv'
  OBVIOUS
<1>1. World' = World /\ UNCHANGED <<db, clock, pending, was, request, exporting, snapshot, taken, row, batch, out, count, closed>>
  BY WorldKept DEF xvars, output
<1> QED BY <1>1 DEF ExportInv, ExportTyped, TwoTransactions, PipeRules, Accounted, SnapshotIs, RowsRead, ShownAt, Assembling

\* The invariant says what is to be shown.
LEMMA ExportInvSound == ExportInv => ExportSound
<1> SUFFICES ASSUME ExportInv PROVE ExportSound
  OBVIOUS
<1> USE DEF ExportInv
<1>0. /\ out \in Seq(Rows) /\ Len(out) \in Nat /\ DOMAIN out = 1 .. Len(out) /\ snapshot \in Seq(Entries)
      /\ Len(snapshot) \in Nat
      /\ \A i \in 1 .. Len(out) : out[i] \in Rows /\ Read(out[i], World) /\ Len(out[i].parts) = Len(Queries)
  BY DEF ExportTyped, RowsRead, Accounted
<1>1. RowMixExplained
  <2> SUFFICES ASSUME NEW i \in DOMAIN out, NEW q \in DOMAIN Queries
               PROVE  /\ Queries[q] \in CoreTables =>
                            /\ out[i].parts[q] \in newer[out[i].key] \cup {was[out[i].key].part[Queries[q]]}
                            /\ out[i].main <= out[i].parts[q] \/ <<out[i].main, Queries[q]>> \in uncleaned
                      /\ \A r \in q .. Len(Queries) :
                            /\ Queries[q] \in CoreTables /\ Queries[r] \in CoreTables =>
                                  out[i].parts[q] <= out[i].parts[r] \/ <<out[i].parts[q], Queries[r]>> \in uncleaned
                            /\ ~(Queries[q] \in CoreTables) /\ ~(Queries[r] \in CoreTables) =>
                                  \E a, b \in mark[out[i].key] .. Len(enriched[out[i].key]) :
                                     a <= b /\ enriched[out[i].key][a] = out[i].parts[q]
                                            /\ enriched[out[i].key][b] = out[i].parts[r]
    BY DEF RowMixExplained
  <2>1. PICK w : w = out[i]
    OBVIOUS
  <2>2. w \in Rows /\ Read(w, World) /\ Len(w.parts) = 20 /\ DOMAIN Queries = 1 .. 20 /\ Len(Queries) = 20
    BY <1>0, <2>1, QueriesAre
  <2>3. q \in 1 .. Len(w.parts) /\ \A r \in q .. Len(Queries) : r \in 1 .. Len(w.parts) /\ q <= r
    BY <2>2
  <2>4. Queries[q] \in CoreTables =>
           /\ w.parts[q] \in newer[w.key] \cup {was[w.key].part[Queries[q]]}
           /\ w.main <= w.parts[q] \/ <<w.main, Queries[q]>> \in uncleaned
    BY <2>2, <2>3, WorldIs DEF Read, Level
  <2>5. ASSUME NEW r \in q .. Len(Queries), Queries[q] \in CoreTables, Queries[r] \in CoreTables
        PROVE  w.parts[q] <= w.parts[r] \/ <<w.parts[q], Queries[r]>> \in uncleaned
    BY <2>2, <2>3, <2>5, WorldIs DEF Read, Level
  <2>6. ASSUME NEW r \in q .. Len(Queries), ~(Queries[q] \in CoreTables), ~(Queries[r] \in CoreTables)
        PROVE  \E a, b \in mark[w.key] .. Len(enriched[w.key]) :
                  a <= b /\ enriched[w.key][a] = w.parts[q] /\ enriched[w.key][b] = w.parts[r]
    <3>1. Followed(w.key, w.parts[q], w.parts[r], World)
      BY <2>2, <2>3, <2>6 DEF Read
    <3> QED BY <3>1, WorldIs DEF Followed
  <2> QED BY <2>1, <2>4, <2>5, <2>6
<1>2. ExportComplete
  <2> SUFFICES ASSUME exporting = "ok"
               PROVE  LET shown == [i \in DOMAIN out |-> [key |-> out[i].key, main |-> out[i].main]]
                      IN /\ count = Len(snapshot)
                         /\ request.format = "parquet" => ~request.stdout /\ request.file # "-"
                         /\ IF closed THEN IsPrefix(shown, snapshot) ELSE shown = snapshot
    BY DEF ExportComplete
  <2> DEFINE shown == [i \in DOMAIN out |-> [key |-> out[i].key, main |-> out[i].main]]
  <2>1. request.format = "parquet" => ~request.stdout /\ request.file # "-"
    BY DEF PipeRules
  <2>2. count = Len(snapshot)
    BY DEF Accounted, Assembling, ExportTyped
  <2>8. Len(out) <= Len(snapshot)
    <3>1. Len(batch) \in Nat /\ count \in Nat /\ Len(out) + Len(batch) <= count
      BY DEF ExportTyped, Accounted
    <3> QED BY <1>0, <2>2, <3>1
  <2>3. \A i \in 1 .. Len(out) : shown[i] = snapshot[i]
    <3> SUFFICES ASSUME NEW i \in 1 .. Len(out) PROVE shown[i] = snapshot[i]
      OBVIOUS
    <3>1. Len(out) <= Len(snapshot)
      BY <2>8
    <3>2. snapshot[i] \in Entries
      BY <1>0, <3>1
    <3>3. out[i].key = snapshot[i].key /\ out[i].main = snapshot[i].main
      BY DEF Accounted, ShownAt
    <3>4. shown[i] = [key |-> snapshot[i].key, main |-> snapshot[i].main]
      BY <3>3, <1>0
    <3> QED BY <3>2, <3>4 DEF Entries
  <2>4. shown \in Seq(Entries) /\ Len(shown) = Len(out) /\ DOMAIN shown = 1 .. Len(out)
    <3>1. \A i \in 1 .. Len(out) : [key |-> out[i].key, main |-> out[i].main] \in Entries
      BY <1>0 DEF Rows, Entries
    <3> QED BY <3>1, <1>0
  <2> HIDE DEF shown
  <2>6. CASE closed
    <3>1. \A i \in 1 .. Len(shown) : shown[i] = snapshot[i]
      BY <2>3, <2>4
    <3>2. SubSeq(shown, 1, Len(shown)) = SubSeq(snapshot, 1, Len(shown))
      BY <3>1, <2>4, <2>8, <1>0
    <3> QED BY <2>1, <2>2, <2>4, <2>6, <2>8, <3>2 DEF IsPrefix, shown
  <2>7. CASE ~closed
    <3>1. Len(out) = Len(snapshot)
      BY <2>2, <2>7, <1>0 DEF Accounted
    <3>2. shown = snapshot
      BY <3>1, <2>3, <2>4, <1>0
    <3> QED BY <2>1, <2>2, <2>7, <3>2 DEF shown
  <2> QED BY <2>6, <2>7
<1> QED BY <1>1, <1>2 DEF ExportSound

\* Every step keeps the invariant.
LEMMA ExportStepKeeps == ExportInv /\ [ExportNext]_xvars => ExportInv'
<1> SUFFICES ASSUME ExportInv, [ExportNext]_xvars PROVE ExportInv'
  OBVIOUS
<1>1. CASE Open
  BY <1>1, OpenKeeps
<1>2. CASE NextRow
  BY <1>2, NextRowKeeps
<1>3. CASE Query
  BY <1>3, QueryKeeps
<1>4. CASE Write
  BY <1>4, WriteKeeps
<1>5. CASE Finish
  BY <1>5, FinishKeeps
<1>6. CASE ExportError
  BY <1>6, ExportErrorKeeps
<1>7. CASE ClosePipe
  BY <1>7, ClosePipeKeeps
<1>8. CASE \E k \in Keys : CommitCore(k)
  BY <1>8, CommitCoreKeeps
<1>9. CASE \E k \in Keys : CommitEnrichment(k)
  BY <1>9, CommitEnrichmentKeeps
<1>10. CASE UNCHANGED xvars
  BY <1>10, ExportIdle
<1> QED BY <1>1, <1>2, <1>3, <1>4, <1>5, <1>6, <1>7, <1>8, <1>9, <1>10 DEF ExportNext

\* An export that reports success has written every row of its snapshot, newest
\* first and once each (bootstrap.rs:38, parquet.rs:957), and a row that shows
\* several observations shows them as the transactions of its own key were
\* committed: for every batch size, every number of keys and observations, however
\* the tasks of a scan interleave and wherever their transactions fall between the
\* queries of a row.
THEOREM ExportIsSound == ExportSpec => []ExportSound
<1>1. ExportInit => ExportInv
  BY ExportStarts
<1>2. ExportInv /\ [ExportNext]_xvars => ExportInv'
  BY ExportStepKeeps
<1>3. ExportInv => ExportSound
  BY ExportInvSound
<1> QED BY <1>1, <1>2, <1>3, PTL DEF ExportSpec

----------------------------------------------------------------------------
(* Induction over the naturals, from the order of finite subsets.          *)

\* A set of naturals that is not empty has a least element: among the intervals
\* from 0 one is least for inclusion.
LEMMA LeastElement ==
    ASSUME NEW T, T \subseteq Nat, T # {}
    PROVE  \E x \in T : \A y \in T : x <= y
<1>1. PICK n \in T : TRUE
  OBVIOUS
<1> DEFINE S == 0 .. n
           R == StrictSubsetOrdering(S)
           F == {0 .. k : k \in {j \in T : j <= n}}
<1>2. \A k \in T : k <= n => 0 .. k \in FiniteSubsetsOf(S)
  <2> SUFFICES ASSUME NEW k \in T, k <= n PROVE 0 .. k \in FiniteSubsetsOf(S)
    OBVIOUS
  <2>1. 0 .. k \subseteq S
    OBVIOUS
  <2>2. IsFiniteSet(0 .. k)
    BY FS_Interval
  <2> QED BY <2>1, <2>2 DEF FiniteSubsetsOf
<1>3. F \subseteq FiniteSubsetsOf(S) /\ F # {}
  BY <1>2
<1>4. IsWellFoundedOn(R, FiniteSubsetsOf(S))
  BY FS_StrictSubsetOrderingWellFounded
<1> HIDE DEF R, S
<1>5. \E f \in F : \A g \in F : ~ (<<g, f>> \in R)
  <2> HIDE DEF F
  <2> QED BY <1>3, <1>4, WFMin
<1>6. PICK x \in T : x <= n /\ \A g \in F : ~ (<<g, 0 .. x>> \in R)
  BY <1>5
<1>7. ASSUME NEW y \in T PROVE x <= y
  <2>1. CASE y > n
    BY <1>6, <2>1
  <2>2. CASE y <= n /\ y < x
    <3>1. 0 .. y \in F
      BY <2>2
    <3>2. 0 .. y \in SUBSET S /\ 0 .. x \in SUBSET S
      BY <1>2, <1>6, <2>2 DEF FiniteSubsetsOf
    <3>3. 0 .. y \subseteq 0 .. x /\ x \in 0 .. x /\ x \notin 0 .. y
      BY <2>2
    <3>4. <<0 .. y, 0 .. x>> \in R
      BY <3>2, <3>3 DEF R, StrictSubsetOrdering
    <3> QED BY <1>6, <3>1, <3>4
  <2> QED BY <2>1, <2>2
<1> QED BY <1>7

\* Induction over the naturals, for a set that holds 0 and every successor.
LEMMA NaturalInduction ==
    ASSUME NEW H, 0 \in H, \A n \in Nat : n \in H => n + 1 \in H
    PROVE  Nat \subseteq H
<1> SUFFICES ASSUME Nat \ H # {} PROVE FALSE
  OBVIOUS
<1>1. PICK x \in Nat \ H : \A y \in Nat \ H : x <= y
  BY LeastElement
<1>2. x # 0 /\ x - 1 \in Nat /\ x - 1 + 1 = x
  BY <1>1
<1>3. x - 1 \in H
  BY <1>1, <1>2
<1> QED BY <1>1, <1>2, <1>3

----------------------------------------------------------------------------
(* Technology detection.                                                   *)

\* The rounds of apply_technology_requires, as far as round m.
Rounds(names, m, f) == f = [n \in 0 .. m |-> IF n = 0 THEN names ELSE Retained(f[n - 1])]

\* The equation of the rounds has a solution for every number of rounds.
LEMMA RoundsExist ==
    ASSUME NEW names
    PROVE  \A m \in Nat : \E f : Rounds(names, m, f)
<1> DEFINE H == {m \in Nat : \E f : Rounds(names, m, f)}
<1>1. 0 \in H
  <2>1. Rounds(names, 0, [n \in 0 .. 0 |-> names])
    BY DEF Rounds
  <2> QED BY <2>1
<1>2. \A m \in Nat : m \in H => m + 1 \in H
  <2> SUFFICES ASSUME NEW m \in Nat, m \in H PROVE m + 1 \in H
    OBVIOUS
  <2>1. PICK f : Rounds(names, m, f)
    OBVIOUS
  <2> DEFINE g == [n \in 0 .. m + 1 |-> IF n = m + 1 THEN Retained(f[m]) ELSE f[n]]
  <2>2. \A n \in 0 .. m : f[n] = IF n = 0 THEN names ELSE Retained(f[n - 1])
    BY <2>1 DEF Rounds
  <2>3. \A n \in 0 .. m : g[n] = f[n]
    OBVIOUS
  <2>4. \A n \in 0 .. m + 1 : g[n] = IF n = 0 THEN names ELSE Retained(g[n - 1])
    <3> SUFFICES ASSUME NEW n \in 0 .. m + 1 PROVE g[n] = IF n = 0 THEN names ELSE Retained(g[n - 1])
      OBVIOUS
    <3>1. CASE n = m + 1
      <4>1. g[n] = Retained(f[m]) /\ n # 0 /\ n - 1 = m /\ m \in 0 .. m
        BY <3>1
      <4>2. g[m] = f[m]
        BY <4>1, <2>3
      <4> HIDE DEF g
      <4> QED BY <4>1, <4>2
    <3>2. CASE n # m + 1
      <4>1. n \in 0 .. m /\ (n # 0 => n - 1 \in 0 .. m)
        BY <3>2
      <4>2. g[n] = f[n] /\ (n # 0 => g[n - 1] = f[n - 1])
        BY <4>1, <2>3
      <4> HIDE DEF g
      <4> QED BY <4>1, <4>2, <2>2
    <3> QED BY <3>1, <3>2
  <2>5. Rounds(names, m + 1, g)
    <3>1. g = [n \in 0 .. m + 1 |-> g[n]]
      OBVIOUS
    <3> HIDE DEF g
    <3> QED BY <3>1, <2>4 DEF Rounds
  <2> QED BY <2>5
<1>3. Nat \subseteq H
  <2> HIDE DEF H
  <2> QED BY <1>1, <1>2, NaturalInduction
<1> QED BY <1>3

\* So the recursive function has the values its equation gives.
LEMMA RequiresByRounds ==
    ASSUME NEW names
    PROVE  \E f : Rounds(names, MAX_REQUIRES_DEPTH, f) /\ apply_technology_requires(names) = f[MAX_REQUIRES_DEPTH]
<1>1. \E f : Rounds(names, MAX_REQUIRES_DEPTH, f)
  BY RoundsExist, DepthsPositive
<1> DEFINE kept == CHOOSE f : f = [n \in 0 .. MAX_REQUIRES_DEPTH |-> IF n = 0 THEN names ELSE Retained(f[n - 1])]
<1>2. apply_technology_requires(names) = kept[MAX_REQUIRES_DEPTH]
  BY DEF apply_technology_requires
<1>3. Rounds(names, MAX_REQUIRES_DEPTH, kept)
  BY <1>1 DEF Rounds
<1> QED BY <1>2, <1>3
\* A requirement that is met is met among more names.
LEMMA RequiresMonotone ==
    ASSUME NEW few, NEW many, few \subseteq many, NEW t, technology_requires_satisfied(t, few)
    PROVE  technology_requires_satisfied(t, many)
  BY DEF technology_requires_satisfied

\* Names that sustain each other survive a round.
LEMMA SelfsufficientStays ==
    ASSUME NEW names, NEW s, s \subseteq names, Selfsufficient(s)
    PROVE  s \subseteq Retained(names)
  BY RequiresMonotone DEF Selfsufficient, Retained

\* A round drops nothing exactly when the names sustain each other.
LEMMA RetainedFixed ==
    ASSUME NEW names
    PROVE  Retained(names) \subseteq names /\ (Selfsufficient(names) <=> Retained(names) = names)
  BY DEF Retained, Selfsufficient

\* Each round keeps what sustains itself, and drops a name or has come to the end.
LEMMA RoundsKeep ==
    ASSUME NEW names, IsFiniteSet(names), NEW f, NEW m \in Nat, Rounds(names, m, f)
    PROVE  \A n \in 0 .. m :
              /\ f[n] \subseteq names
              /\ \A s \in SUBSET names : Selfsufficient(s) => s \subseteq f[n]
              /\ Selfsufficient(f[n]) \/ Cardinality(f[n]) + n <= Cardinality(names)
<1> DEFINE Holds(n) == /\ f[n] \subseteq names
                       /\ \A s \in SUBSET names : Selfsufficient(s) => s \subseteq f[n]
                       /\ Selfsufficient(f[n]) \/ Cardinality(f[n]) + n <= Cardinality(names)
           H == {n \in Nat : n <= m => Holds(n)}
<1>0. \A n \in 0 .. m : f[n] = IF n = 0 THEN names ELSE Retained(f[n - 1])
  BY DEF Rounds
<1>1. 0 \in H
  <2>1. f[0] = names /\ Cardinality(names) \in Nat
    BY <1>0, FS_CardinalityType
  <2> QED BY <2>1
<1>2. \A n \in Nat : n \in H => n + 1 \in H
  <2> SUFFICES ASSUME NEW n \in Nat, n \in H, n + 1 <= m PROVE Holds(n + 1)
    OBVIOUS
  <2>1. Holds(n) /\ f[n + 1] = Retained(f[n])
    <3>1. n + 1 \in 0 .. m /\ n + 1 # 0 /\ (n + 1) - 1 = n /\ n <= m
      OBVIOUS
    <3>2. f[n + 1] = Retained(f[(n + 1) - 1])
      BY <1>0, <3>1
    <3> QED BY <3>1, <3>2
  <2> DEFINE old == f[n]  new == f[n + 1]
  <2>2. /\ old \subseteq names /\ new = Retained(old)
        /\ \A s \in SUBSET names : Selfsufficient(s) => s \subseteq old
        /\ Selfsufficient(old) \/ Cardinality(old) + n <= Cardinality(names)
    BY <2>1
  <2> HIDE DEF old, new
  <2>3. new \subseteq old /\ (Selfsufficient(old) => new = old) /\ (~Selfsufficient(old) => new # old)
    BY <2>2, RetainedFixed
  <2>4. \A s \in SUBSET names : Selfsufficient(s) => s \subseteq new
    BY <2>2, SelfsufficientStays
  <2>5. Selfsufficient(new) \/ Cardinality(new) + (n + 1) <= Cardinality(names)
    <3>1. CASE Selfsufficient(old)
      BY <3>1, <2>3
    <3>2. CASE ~Selfsufficient(old)
      <4>1. IsFiniteSet(old) /\ IsFiniteSet(new) /\ Cardinality(names) \in Nat
        BY <2>2, <2>3, FS_Subset, FS_CardinalityType
      <4>2. Cardinality(new) \in Nat /\ Cardinality(old) \in Nat /\ Cardinality(new) < Cardinality(old)
        BY <4>1, <2>3, <3>2, FS_Subset, FS_CardinalityType
      <4> QED BY <4>1, <4>2, <3>2, <2>2
    <3> QED BY <3>1, <3>2
  <2>6. new \subseteq names
    BY <2>2, <2>3
  <2> QED BY <2>4, <2>5, <2>6 DEF new
<1>3. Nat \subseteq H
  <2> HIDE DEF H
  <2> QED BY <1>1, <1>2, NaturalInduction
<1> QED BY <1>3

\* What the bounded rounds keep: nothing foreign, all that sustains itself, and
\* exactly that when the rounds were enough.
LEMMA RequiresKeeps ==
    ASSUME NEW names, IsFiniteSet(names)
    PROVE  /\ apply_technology_requires(names) \subseteq names
           /\ Sustained(names) \subseteq apply_technology_requires(names)
           /\ Selfsufficient(apply_technology_requires(names)) => apply_technology_requires(names) = Sustained(names)
           /\ Cardinality(names) <= MAX_REQUIRES_DEPTH => Selfsufficient(apply_technology_requires(names))
<1>1. PICK f : Rounds(names, MAX_REQUIRES_DEPTH, f) /\ apply_technology_requires(names) = f[MAX_REQUIRES_DEPTH]
  BY RequiresByRounds
<1> DEFINE kept == apply_technology_requires(names)
<1>2. MAX_REQUIRES_DEPTH \in Nat /\ MAX_REQUIRES_DEPTH \in 0 .. MAX_REQUIRES_DEPTH /\ MAX_REQUIRES_DEPTH # 0
  BY DepthsPositive
<1>3. /\ kept \subseteq names
      /\ \A s \in SUBSET names : Selfsufficient(s) => s \subseteq kept
      /\ Selfsufficient(kept) \/ Cardinality(kept) + MAX_REQUIRES_DEPTH <= Cardinality(names)
  BY <1>1, <1>2, RoundsKeep
<1> HIDE DEF kept
<1>4. Sustained(names) \subseteq kept
  BY <1>3 DEF Sustained
<1>5. Selfsufficient(kept) => kept = Sustained(names)
  BY <1>3, <1>4 DEF Sustained
<1>6. Cardinality(names) <= MAX_REQUIRES_DEPTH => Selfsufficient(kept)
  <2> SUFFICES ASSUME Cardinality(names) <= MAX_REQUIRES_DEPTH, ~Selfsufficient(kept) PROVE FALSE
    OBVIOUS
  <2>1. IsFiniteSet(kept) /\ Cardinality(kept) \in Nat /\ Cardinality(names) \in Nat
    BY <1>3, FS_Subset, FS_CardinalityType
  <2>2. Cardinality(kept) = 0
    BY <1>2, <1>3, <2>1
  <2>3. kept = {}
    BY <2>1, <2>2, FS_EmptySet
  <2> QED BY <2>3 DEF Selfsufficient
<1> QED BY <1>3, <1>4, <1>5, <1>6 DEF kept
----------------------------------------------------------------------------
\* The stored word of a source gives the source back (source.rs, parse_detection_source).
LEMMA SourcesParse ==
    \A s \in Observable \cup {"Implied"} :
        /\ parse_detection_source(as_str(s)) = s /\ s # Unknown
        /\ as_str(s) = "implied" <=> s = "Implied"
<1> DEFINE All == Observable \cup {"Implied"}
<1>1. DOMAIN DetectionSource = All
  BY DEF DetectionSource
<1>2. \A s, r \in All : DetectionSource[s] = DetectionSource[r] => s = r
  BY DEF DetectionSource, Observable
<1>3. \A s \in All : s # Unknown /\ (DetectionSource[s] = "implied" <=> s = "Implied")
  BY DEF DetectionSource, Observable, Unknown
<1> SUFFICES ASSUME NEW s \in All
             PROVE /\ parse_detection_source(as_str(s)) = s /\ s # Unknown
                   /\ as_str(s) = "implied" <=> s = "Implied"
  OBVIOUS
<1>4. \E r \in DOMAIN DetectionSource : DetectionSource[r] = DetectionSource[s]
  BY <1>1
<1>5. (CHOOSE r \in DOMAIN DetectionSource : DetectionSource[r] = DetectionSource[s]) = s
  <2> HIDE DEF All
  <2> QED BY <1>1, <1>2, <1>4
<1>6. parse_detection_source(as_str(s)) = s
  BY <1>4, <1>5 DEF parse_detection_source, as_str
<1> QED BY <1>3, <1>6 DEF as_str

----------------------------------------------------------------------------
\* A channel or a script id of this page showed the technology, under this source.
Witnessed(t, source) ==
    /\ source \in Observable
    /\ \/ Js(t).matched /\ source = "Js"
       \/ \E c \in DOMAIN page.signals : Matched(Signals(t, c)).matched /\ source = Matched(Signals(t, c)).source

Sane(version) == version # NoVersion => ~Blank(version) /\ ~Digest(version)

\* What sanitize_technology_version lets through is no blank and no digest.
LEMMA SanitizedSane == ASSUME NEW v PROVE Sane(sanitize_technology_version(v))
  BY DEF Sane, sanitize_technology_version

LEMMA NothingSane == Sane(NoVersion)
  BY DEF Sane

Honest(t, info) ==
    /\ info.is_implied \in BOOLEAN
    /\ info.is_implied = TRUE <=> info.source = "Implied"
    /\ info.is_implied = FALSE => Witnessed(t, info.source)
    /\ Sane(info.version)

AllHonest(found) == DOMAIN found \subseteq Techs /\ \A t \in DOMAIN found : Honest(t, found[t])

\* A channel that matched is the witness of its own source.
LEMMA MatchedWitnessed ==
    ASSUME page \in Pages, Catalog \subseteq Techs, NEW t \in Catalog, NEW c \in DOMAIN page.signals,
           Matched(Signals(t, c)).matched
    PROVE  Witnessed(t, Matched(Signals(t, c)).source)
<1> DEFINE signals == page.signals[c][t]
           seen == {i \in LookedAt(signals) : signals[i].matched}
<1>1. Signals(t, c) = signals
  BY DEF Signals
<1>2. DOMAIN signals \subseteq Nat /\ \A i \in DOMAIN signals : signals[i].channel \in Observable
  BY PagesAssumption
<1>3. seen \subseteq DOMAIN signals
  BY DEF LookedAt
<1> HIDE DEF signals
<1>4. seen # {}
  BY <1>1 DEF Matched, Miss
<1>5. Matched(signals) = [matched |-> TRUE, version |-> signals[Max(seen)].version, source |-> signals[Min(seen)].channel]
  BY <1>4 DEF Matched
<1>6. Min(seen) \in seen
  <2> HIDE DEF seen
  <2>1. \E x \in seen : \A y \in seen : x <= y
    BY <1>2, <1>3, <1>4, LeastElement
  <2> QED BY <2>1 DEF Min
<1>7. Matched(signals).source = signals[Min(seen)].channel
  BY <1>5
<1>8. Matched(signals).source \in Observable
  <2> HIDE DEF seen
  <2> QED BY <1>2, <1>3, <1>6, <1>7
<1> QED BY <1>1, <1>8 DEF Witnessed

\* merge_observed keeps every entry honest.
LEMMA MergeHonest ==
    ASSUME NEW found, AllHonest(found), Catalog \subseteq Techs, NEW matches, DOMAIN matches = Catalog,
           \A t \in Catalog : matches[t].matched => Witnessed(t, matches[t].source)
    PROVE  AllHonest(merge_observed(found, matches))
<1> DEFINE hits == {t \in DOMAIN matches : matches[t].matched}
           all == DOMAIN found \cup hits
           merged == [t \in all |-> IF t \in hits THEN Merged(found, t, matches[t]) ELSE found[t]]
<1>1. merge_observed(found, matches) = merged
  BY DEF merge_observed
<1>2. all \subseteq Techs
  BY DEF AllHonest
<1>3. ASSUME NEW t \in all PROVE Honest(t, merged[t])
  <2>1. CASE t \notin hits
    BY <2>1 DEF AllHonest
  <2>2. CASE t \in hits
    <3>1. merged[t] = Merged(found, t, matches[t]) /\ t \in Catalog
      BY <2>2
    <3>2. Witnessed(t, matches[t].source) /\ matches[t].source # "Implied"
      BY <2>2, <3>1 DEF Witnessed, Observable
    <3>3. Sane(sanitize_technology_version(matches[t].version))
      BY SanitizedSane
    <3>4. CASE t \notin DOMAIN found
      BY <3>1, <3>2, <3>3, <3>4 DEF Merged, Honest
    <3>5. CASE t \in DOMAIN found
      <4>1. Honest(t, found[t])
        BY <3>5 DEF AllHonest
      <4>2. Merged(found, t, matches[t]) =
              [version |-> IF found[t].version = NoVersion
                           THEN sanitize_technology_version(matches[t].version) ELSE found[t].version,
               is_implied |-> FALSE,
               source |-> IF found[t].is_implied THEN matches[t].source ELSE found[t].source]
        BY <3>5 DEF Merged
      <4>3. merged[t].is_implied = FALSE /\ Sane(merged[t].version)
        BY <3>1, <3>3, <4>1, <4>2 DEF Honest
      <4>4. merged[t].source = IF found[t].is_implied THEN matches[t].source ELSE found[t].source
        BY <3>1, <4>2
      <4>5. CASE found[t].is_implied = TRUE
        <5>1. merged[t].source = matches[t].source
          BY <4>4, <4>5
        <5> HIDE DEF merged
        <5> QED BY <3>2, <4>3, <5>1 DEF Honest
      <4>6. CASE found[t].is_implied = FALSE
        BY <4>1, <4>3, <4>4, <4>6 DEF Honest
      <4> QED BY <4>1, <4>5, <4>6 DEF Honest
    <3> QED BY <3>4, <3>5
  <2> QED BY <2>1, <2>2
<1>4. DOMAIN merged = all
  OBVIOUS
<1> HIDE DEF merged, all
<1>5. AllHonest(merged)
  BY <1>2, <1>3, <1>4 DEF AllHonest
<1> QED BY <1>1, <1>5
\* So do all channels of a pass.
LEMMA SignalsHonest ==
    ASSUME NEW found, AllHonest(found), page \in Pages, Catalog \subseteq Techs, NEW s
    PROVE  AllHonest(MergeSignals(s, found))
<1>1. ASSUME NEW g, AllHonest(g), NEW c \in {"header", "cookie", "body", "dns", "fetched"}
      PROVE  AllHonest(MergeChannel(g, c))
  <2> DEFINE matches == [t \in Catalog |-> Matched(Signals(t, c))]
  <2>1. c \in DOMAIN page.signals
    BY PagesAssumption
  <2>2. DOMAIN matches = Catalog /\ \A t \in Catalog : matches[t] = Matched(Signals(t, c))
    OBVIOUS
  <2>3. MergeChannel(g, c) = merge_observed(g, matches)
    BY DEF MergeChannel
  <2> HIDE DEF matches
  <2>4. \A t \in Catalog : matches[t].matched => Witnessed(t, matches[t].source)
    BY <2>1, <2>2, MatchedWitnessed
  <2>5. AllHonest(merge_observed(g, matches))
    BY <1>1, <2>2, <2>4, MergeHonest
  <2> QED BY <2>3, <2>5
<1>2. ASSUME NEW g, AllHonest(g) PROVE AllHonest(MergeJs(g))
  <2> DEFINE matches == [t \in Catalog |-> Js(t)]
  <2>2. DOMAIN matches = Catalog /\ \A t \in Catalog : matches[t] = Js(t)
    OBVIOUS
  <2>3. MergeJs(g) = merge_observed(g, matches)
    BY DEF MergeJs
  <2> HIDE DEF matches
  <2>4. \A t \in Catalog : Js(t).matched => Js(t).source = "Js"
    BY DEF Js, Miss
  <2>5. \A t \in Catalog : matches[t].matched => Witnessed(t, matches[t].source)
    BY <2>2, <2>4 DEF Witnessed, Observable
  <2>6. AllHonest(merge_observed(g, matches))
    BY <1>2, <2>2, <2>5, MergeHonest
  <2> QED BY <2>3, <2>6
<1>3. CASE s = "page"
  <2>1. AllHonest(MergeChannel(found, "header"))
    BY <1>1
  <2>2. AllHonest(MergeChannel(MergeChannel(found, "header"), "cookie"))
    BY <1>1, <2>1
  <2>3. AllHonest(MergeChannel(MergeChannel(MergeChannel(found, "header"), "cookie"), "body"))
    BY <1>1, <2>2
  <2> QED BY <1>2, <1>3, <2>3 DEF MergeSignals
<1>4. CASE s # "page"
  BY <1>1, <1>4 DEF MergeSignals, LateChannel
<1> QED BY <1>3, <1>4

----------------------------------------------------------------------------
\* The report says of each technology what the map says.
ReportedHonest(t, tech) ==
    \E source \in Observable \cup {"Implied"} :
        /\ tech.detection_source = as_str(source)
        /\ Honest(t, [version |-> tech.version, is_implied |-> tech.is_implied, source |-> source])

ReportsHonest(techs) == DOMAIN techs \subseteq Techs /\ \A t \in DOMAIN techs : ReportedHonest(t, techs[t])

\* An honest entry has a source that can be stored.
LEMMA HonestSource ==
    ASSUME NEW t, NEW info, Honest(t, info)
    PROVE  info.source \in Observable \cup {"Implied"}
  BY DEF Honest, Witnessed

\* The report of honest entries is honest.
LEMMA FinalizeHonest ==
    ASSUME NEW found, AllHonest(found), NEW names, names \subseteq DOMAIN found
    PROVE  ReportsHonest([t \in names |-> [version |-> found[t].version, is_implied |-> found[t].is_implied,
                                           detection_source |-> as_str(found[t].source)]])
<1> DEFINE techs == [t \in names |-> [version |-> found[t].version, is_implied |-> found[t].is_implied,
                                      detection_source |-> as_str(found[t].source)]]
<1>1. ASSUME NEW t \in names PROVE ReportedHonest(t, techs[t])
  <2>1. Honest(t, found[t]) /\ found[t].source \in Observable \cup {"Implied"}
    BY HonestSource DEF AllHonest
  <2>2. /\ techs[t].version = found[t].version /\ techs[t].is_implied = found[t].is_implied
        /\ techs[t].detection_source = as_str(found[t].source)
    OBVIOUS
  <2> DEFINE info == [version |-> techs[t].version, is_implied |-> techs[t].is_implied, source |-> found[t].source]
  <2>3. info.version = found[t].version /\ info.is_implied = found[t].is_implied /\ info.source = found[t].source
    BY <2>2
  <2> HIDE DEF info, techs
  <2>4. Honest(t, info)
    BY <2>1, <2>3 DEF Honest
  <2> QED BY <2>1, <2>2, <2>4 DEF ReportedHonest, info
<1>2. DOMAIN techs = names /\ names \subseteq Techs
  BY DEF AllHonest
<1> HIDE DEF techs
<1>3. ReportsHonest(techs)
  BY <1>1, <1>2 DEF ReportsHonest
<1> QED BY <1>3 DEF techs

\* A report read back is what was reported.
LEMMA MapHonest ==
    ASSUME NEW techs, ReportsHonest(techs)
    PROVE  AllHonest(detected_to_map(techs))
<1> DEFINE Source(t) == parse_detection_source(techs[t].detection_source)
           default(t) == IF techs[t].is_implied THEN "Implied" ELSE "Html"
           map == [t \in DOMAIN techs |->
                     [version |-> techs[t].version, is_implied |-> techs[t].is_implied,
                      source |-> IF Source(t) = Unknown THEN default(t) ELSE Source(t)]]
<1>1. detected_to_map(techs) = map
  BY DEF detected_to_map
<1>2. ASSUME NEW t \in DOMAIN techs PROVE Honest(t, map[t])
  <2>1. PICK source \in Observable \cup {"Implied"} :
           /\ techs[t].detection_source = as_str(source)
           /\ Honest(t, [version |-> techs[t].version, is_implied |-> techs[t].is_implied, source |-> source])
    BY DEF ReportsHonest, ReportedHonest
  <2>2. Source(t) = source /\ source # Unknown
    BY <2>1, SourcesParse
  <2>3. map[t] = [version |-> techs[t].version, is_implied |-> techs[t].is_implied, source |-> source]
    BY <2>2
  <2> QED BY <2>1, <2>3
<1>3. DOMAIN map = DOMAIN techs
  OBVIOUS
<1> HIDE DEF map
<1>4. AllHonest(map)
  BY <1>2, <1>3 DEF AllHonest, ReportsHonest
<1> QED BY <1>1, <1>4
----------------------------------------------------------------------------
\* Between a pass's start and its end: nothing is held that the start does not
\* imply, a round that is not the last has added a name, and a catalog within the
\* limit is closed.
Expanding ==
    /\ step \in {"imply", "finalize"} =>
          /\ start \subseteq DOMAIN detected
          /\ \A s \in SUBSET Techs : start \subseteq s /\ Closed(s) => DOMAIN detected \subseteq s
    /\ step = "imply" => rounds \in Nat /\ rounds <= Cardinality(DOMAIN detected)
    /\ step = "finalize" /\ Cardinality(Techs) <= MAX_IMPLIES_DEPTH => Closed(DOMAIN detected)

\* What Finalize reports, and what it is computed from.
FinalNames == Shown(apply_technology_requires(apply_technology_exclusions(DOMAIN detected)))

Finalized ==
    /\ Catalog \subseteq Techs /\ DOMAIN detected \subseteq Techs
    /\ start \subseteq DOMAIN detected
    /\ \A s \in SUBSET Techs : start \subseteq s /\ Closed(s) => DOMAIN detected \subseteq s
    /\ Cardinality(Techs) <= MAX_IMPLIES_DEPTH => Closed(DOMAIN detected)
    /\ DOMAIN report = FinalNames

Concluded == step = "reported" /\ (stage = "page" \/ Supplemental(stage)) => Finalized

DetectInv ==
    /\ Catalog \subseteq Techs /\ page \in Pages
    /\ AllHonest(detected) /\ ReportsHonest(report)
    /\ Expanding
    /\ Concluded

\* Ruleset and page stay, and with them what is said of names and entries.
LEMMA PassFrame ==
    ASSUME UNCHANGED <<rules, page>>
    PROVE  /\ Catalog' = Catalog
           /\ \A found : AllHonest(found) => AllHonest(found)'
           /\ \A techs : ReportsHonest(techs) => ReportsHonest(techs)'
           /\ \A s : Closed(s)' <=> Closed(s)
<1>1. Catalog' = Catalog
  BY DEF Catalog
<1>2. \A t, source : Witnessed(t, source)' <=> Witnessed(t, source)
  BY <1>1 DEF Witnessed, Js, Signals
<1>3. \A t, info : Honest(t, info)' <=> Honest(t, info)
  BY <1>2 DEF Honest
<1>4. \A found : AllHonest(found) => AllHonest(found)'
  BY <1>3 DEF AllHonest
<1>5. \A techs : ReportsHonest(techs) => ReportsHonest(techs)'
  BY <1>3 DEF ReportsHonest, ReportedHonest
<1>6. \A s : Closed(s)' <=> Closed(s)
  BY <1>1 DEF Closed
<1> QED BY <1>1, <1>4, <1>5, <1>6

\* Nothing is detected at first.
LEMMA DetectStarts == Init => DetectInv
<1> SUFFICES ASSUME Init PROVE DetectInv
  OBVIOUS
<1>1. Catalog \subseteq Techs
  <2>1. PICK r \in Rulesets : rules = [tech |-> ingest(r.raw), denylist |-> r.denylist, categories |-> r.categories]
    BY DEF Init
  <2>2. DOMAIN rules.tech = Ingested(r.raw)
    BY <2>1 DEF ingest
  <2> QED BY <2>2 DEF Catalog, Ingested
<1>2. page \in Pages /\ step = "observe" /\ DOMAIN detected = {} /\ DOMAIN report = {}
  BY DEF Init, Empty
<1> QED BY <1>1, <1>2 DEF DetectInv, AllHonest, ReportsHonest, Expanding, Concluded

\* The steps of a pass, one by one.
LEMMA ObserveKeeps == DetectInv /\ Detect => DetectInv'
<1> SUFFICES ASSUME DetectInv, Detect PROVE DetectInv'
  OBVIOUS
<1>0. UNCHANGED <<rules, page, stage>> /\ step = "observe" /\ Catalog' = Catalog /\ UNCHANGED report
  BY PassFrame DEF Detect
<1>1. Catalog' \subseteq Techs /\ page' \in Pages /\ ReportsHonest(report)'
  <2>1. ReportsHonest(report)
    BY DEF DetectInv
  <2>2. \A techs : ReportsHonest(techs) => ReportsHonest(techs)'
    BY <1>0, PassFrame
  <2>3. PICK techs : techs = report
    OBVIOUS
  <2>4. ReportsHonest(techs)'
    BY <2>1, <2>2, <2>3
  <2>5. ReportsHonest(report)'
    BY <2>3, <2>4, <1>0 DEF ReportsHonest
  <2> QED BY <1>0, <2>5 DEF DetectInv
<1>2. CASE stage = "page" \/ Supplemental(stage)
  <2> DEFINE earlier == IF stage = "page" THEN Empty ELSE detected_to_map(report)
  <2>1. /\ detected' = MergeSignals(stage, earlier) /\ step' = "imply" /\ rounds' = 0
        /\ start' = DOMAIN detected'
    BY <1>2 DEF Detect
  <2>2. AllHonest(earlier)
    <3>1. AllHonest(Empty)
      BY DEF AllHonest, Empty
    <3>2. AllHonest(detected_to_map(report))
      BY MapHonest DEF DetectInv
    <3> QED BY <3>1, <3>2
  <2>3. AllHonest(detected')
    <3> HIDE DEF earlier
    <3>1. AllHonest(MergeSignals(stage, earlier))
      BY <2>2, SignalsHonest DEF DetectInv
    <3> QED BY <2>1, <3>1
  <2>4. AllHonest(detected)'
    <3>1. \A found : AllHonest(found) => AllHonest(found)'
      BY <1>0, PassFrame
    <3>2. PICK found : found = detected'
      OBVIOUS
    <3>3. AllHonest(found)'
      BY <2>3, <3>1, <3>2
    <3> QED BY <3>2, <3>3 DEF AllHonest
  <2>5. Expanding'
    <3>1. Cardinality(DOMAIN detected') \in Nat
      BY <2>3, CatalogFinite, FS_Subset, FS_CardinalityType DEF AllHonest
    <3> QED BY <2>1, <3>1 DEF Expanding
  <2>6. Concluded'
    BY <2>1 DEF Concluded
  <2> QED BY <1>1, <2>4, <2>5, <2>6 DEF DetectInv
<1>3. CASE ~(stage = "page" \/ Supplemental(stage))
  <2>1. step' = "reported" /\ UNCHANGED <<detected, rounds, start>>
    BY <1>3 DEF Detect
  <2>2. AllHonest(detected)'
    <3>1. \A found : AllHonest(found) => AllHonest(found)'
      BY <1>0, PassFrame
    <3>2. PICK found : found = detected
      OBVIOUS
    <3>3. AllHonest(found)'
      BY <3>1, <3>2 DEF DetectInv
    <3> QED BY <2>1, <3>2, <3>3 DEF AllHonest
  <2>3. ~(stage' = "page" \/ Supplemental(stage)')
    BY <1>0, <1>3 DEF Supplemental, Signals
  <2> QED BY <1>1, <2>1, <2>2, <2>3 DEF DetectInv, Expanding, Concluded
<1> QED BY <1>2, <1>3
\* The names a round adds.
Newly == {t \in Catalog \ DOMAIN detected : Implying(t) # {}}

\* A round that adds nothing has found a closed set.
LEMMA ClosedIffNothingNew == Closed(DOMAIN detected) <=> Newly = {}
  BY DEF Closed, Newly, Implying

\* A round of expand_implies adds the names implied, as implied.
LEMMA RoundHonest ==
    ASSUME DetectInv, ExpandImplies
    PROVE  DOMAIN detected' = DOMAIN detected \cup Newly /\ AllHonest(detected')
<1> DEFINE given(t) == IF t \in DOMAIN detected /\ detected[t].version # NoVersion
                       THEN {detected[t].version}
                       ELSE IF t \in Catalog /\ ImpliedVersions(t) # {} THEN ImpliedVersions(t)
                       ELSE {NoVersion}
           all == DOMAIN detected \cup Newly
<1>1. PICK version \in [all -> UNION {given(t) : t \in all}] :
         /\ \A t \in all : version[t] \in given(t)
         /\ detected' = [t \in all |->
                           [version |-> version[t],
                            is_implied |-> IF t \in Newly THEN TRUE ELSE detected[t].is_implied,
                            source |-> IF t \in Newly THEN "Implied" ELSE detected[t].source]]
  BY Zenon DEF ExpandImplies, Newly
<1>2. \A t \in DOMAIN detected : Honest(t, detected[t])
  BY DEF DetectInv, AllHonest
<1>3. ASSUME NEW t \in all PROVE Sane(version[t])
  <2>1. version[t] \in given(t)
    BY <1>1
  <2>2. \A v \in ImpliedVersions(t) : Sane(v)
    BY SanitizedSane DEF ImpliedVersions
  <2>3. CASE t \in DOMAIN detected /\ detected[t].version # NoVersion
    BY <2>1, <2>3, <1>2 DEF Honest
  <2>4. CASE ~(t \in DOMAIN detected /\ detected[t].version # NoVersion)
    BY <2>1, <2>2, <2>4, NothingSane
  <2> QED BY <2>3, <2>4
<1>4. ASSUME NEW t \in all PROVE Honest(t, detected'[t])
  <2>1. /\ detected'[t].version = version[t]
        /\ detected'[t].is_implied = (IF t \in Newly THEN TRUE ELSE detected[t].is_implied)
        /\ detected'[t].source = (IF t \in Newly THEN "Implied" ELSE detected[t].source)
    BY <1>1
  <2>2. Sane(detected'[t].version)
    BY <1>3, <2>1
  <2>3. CASE t \in Newly
    BY <2>1, <2>2, <2>3 DEF Honest
  <2>4. CASE t \notin Newly
    <3>1. Honest(t, detected[t])
      BY <1>2, <2>4
    <3> QED BY <2>1, <2>2, <2>4, <3>1 DEF Honest
  <2> QED BY <2>3, <2>4
<1>5. DOMAIN detected' = all
  BY <1>1
<1>6. all \subseteq Techs
  BY DEF DetectInv, AllHonest, Newly
<1> QED BY <1>4, <1>5, <1>6 DEF AllHonest

LEMMA ExpandKeeps == DetectInv /\ ExpandImplies => DetectInv'
<1> SUFFICES ASSUME DetectInv, ExpandImplies PROVE DetectInv'
  OBVIOUS
<1>0. /\ UNCHANGED <<rules, page, stage, report, start>> /\ step = "imply" /\ rounds' = rounds + 1
      /\ step' = IF Newly = {} \/ rounds' = MAX_IMPLIES_DEPTH THEN "finalize" ELSE "imply"
  BY DEF ExpandImplies, Newly
<1>1. DOMAIN detected' = DOMAIN detected \cup Newly /\ AllHonest(detected')
  BY RoundHonest
<1>2. Catalog' = Catalog /\ \A s : Closed(s)' <=> Closed(s)
  BY <1>0, PassFrame
<1>3. AllHonest(detected)' /\ ReportsHonest(report)'
  <2>1. \A found : AllHonest(found) => AllHonest(found)'
    BY <1>0, PassFrame
  <2>2. \A techs : ReportsHonest(techs) => ReportsHonest(techs)'
    BY <1>0, PassFrame
  <2>3. PICK found : found = detected'
    OBVIOUS
  <2>4. AllHonest(found)'
    BY <1>1, <2>1, <2>3
  <2>5. PICK techs : techs = report
    OBVIOUS
  <2>6. ReportsHonest(techs)'
    BY <2>2, <2>5 DEF DetectInv
  <2>7. AllHonest(detected)'
    BY <2>3, <2>4 DEF AllHonest
  <2>8. ReportsHonest(report)'
    BY <1>0, <2>5, <2>6 DEF ReportsHonest
  <2> QED BY <2>7, <2>8
<1>4. /\ start \subseteq DOMAIN detected /\ rounds \in Nat /\ rounds <= Cardinality(DOMAIN detected)
      /\ \A s \in SUBSET Techs : start \subseteq s /\ Closed(s) => DOMAIN detected \subseteq s
      /\ Catalog \subseteq Techs /\ page \in Pages
  BY <1>0 DEF DetectInv, Expanding
<1>5. \A s \in SUBSET Techs : start \subseteq s /\ Closed(s) => DOMAIN detected' \subseteq s
  <2> SUFFICES ASSUME NEW s \in SUBSET Techs, start \subseteq s, Closed(s) PROVE DOMAIN detected' \subseteq s
    OBVIOUS
  <2>1. DOMAIN detected \subseteq s
    BY <1>4
  <2>2. Newly \subseteq s
    BY <2>1 DEF Newly, Implying, Closed
  <2> QED BY <1>1, <2>1, <2>2
<1>6. /\ IsFiniteSet(DOMAIN detected) /\ IsFiniteSet(DOMAIN detected') /\ DOMAIN detected' \subseteq Techs
      /\ Cardinality(DOMAIN detected) \in Nat /\ Cardinality(DOMAIN detected') \in Nat /\ Cardinality(Techs) \in Nat
  BY <1>1, CatalogFinite, FS_Subset, FS_CardinalityType DEF AllHonest, DetectInv
<1>7. Newly # {} => Cardinality(DOMAIN detected) < Cardinality(DOMAIN detected')
  <2> SUFFICES ASSUME Newly # {} PROVE Cardinality(DOMAIN detected) < Cardinality(DOMAIN detected')
    OBVIOUS
  <2>1. DOMAIN detected \subseteq DOMAIN detected' /\ DOMAIN detected # DOMAIN detected'
    BY <1>1 DEF Newly
  <2> QED BY <2>1, <1>6, FS_Subset
<1>8. Newly # {} => rounds' <= Cardinality(DOMAIN detected')
  BY <1>0, <1>4, <1>6, <1>7
<1>9. step' = "finalize" /\ Cardinality(Techs) <= MAX_IMPLIES_DEPTH => Closed(DOMAIN detected')
  <2> SUFFICES ASSUME step' = "finalize", Cardinality(Techs) <= MAX_IMPLIES_DEPTH PROVE Closed(DOMAIN detected')
    OBVIOUS
  <2>1. CASE Newly = {}
    BY <2>1, <1>1, ClosedIffNothingNew
  <2>2. CASE Newly # {}
    <3>1. rounds' = MAX_IMPLIES_DEPTH
      BY <2>2, <1>0
    <3>2. Cardinality(Techs) <= Cardinality(DOMAIN detected')
      BY <2>2, <3>1, <1>6, <1>8, DepthsPositive
    <3>3. DOMAIN detected' = Techs
      BY <3>2, <1>6, CatalogFinite, FS_Subset
    <3> QED BY <3>3, <1>4 DEF Closed
  <2> QED BY <2>1, <2>2
<1>10. Expanding'
  <2>1. rounds' \in Nat /\ start' = start /\ start \subseteq DOMAIN detected'
    BY <1>0, <1>1, <1>4
  <2>2. \A s \in SUBSET Techs : start' \subseteq s /\ Closed(s)' => DOMAIN detected' \subseteq s
    BY <2>1, <1>2, <1>5
  <2>3. Closed(DOMAIN detected)' <=> Closed(DOMAIN detected')
    BY <1>2 DEF Closed, Catalog
  <2>4. step' = "imply" => rounds' <= Cardinality(DOMAIN detected')
    BY <1>0, <1>8
  <2> QED BY <2>1, <2>2, <2>3, <2>4, <1>9 DEF Expanding
<1>11. Concluded'
  BY <1>0 DEF Concluded
<1> QED BY <1>0, <1>2, <1>3, <1>4, <1>10, <1>11 DEF DetectInv
\* What Finalize computes is what the definition asks for.
LEMMA FinalizedByDefinition == Finalized => ReportByDefinition
<1> SUFFICES ASSUME Finalized PROVE ReportByDefinition
  OBVIOUS
<1> USE DEF Finalized
<1> DEFINE left == apply_technology_exclusions(DOMAIN detected)
           kept == apply_technology_requires(left)
<1>1. left \subseteq DOMAIN detected /\ IsFiniteSet(left) /\ Cardinality(left) \in Nat
      /\ Cardinality(Techs) \in Nat /\ Cardinality(left) <= Cardinality(Techs)
  <2>1. left \subseteq Techs /\ left \subseteq DOMAIN detected
    BY DEF apply_technology_exclusions
  <2> QED BY <2>1, CatalogFinite, FS_Subset, FS_CardinalityType
<1>2. /\ kept \subseteq left /\ Sustained(left) \subseteq kept
      /\ Selfsufficient(kept) => kept = Sustained(left)
      /\ Cardinality(left) <= MAX_REQUIRES_DEPTH => Selfsufficient(kept)
  <2> HIDE DEF left
  <2> QED BY <1>1, RequiresKeeps
<1>3. DOMAIN report = Shown(kept)
  BY DEF FinalNames
<1>4. Settled <=> Closed(DOMAIN detected) /\ Selfsufficient(kept)
  BY DEF Settled
<1> HIDE DEF left, kept
<1>5. \A a, b : a \subseteq b => Shown(a) \subseteq Shown(b)
  BY DEF Shown
<1>6. DOMAIN detected \subseteq Closure(start)
  BY DEF Closure
<1>7. Closed(DOMAIN detected) => Closure(start) = DOMAIN detected
  BY <1>6 DEF Closure
<1>8. Shown(Sustained(left)) \subseteq DOMAIN report /\ DOMAIN report \subseteq Shown(left)
  BY <1>2, <1>3, <1>5
<1>9. ASSUME Settled \/ (Cardinality(Techs) <= MAX_IMPLIES_DEPTH /\ Cardinality(Techs) <= MAX_REQUIRES_DEPTH)
      PROVE  DOMAIN report = Shown(Sustained(apply_technology_exclusions(Closure(start))))
  <2>1. Closed(DOMAIN detected)
    BY <1>4, <1>9
  <2>2. Selfsufficient(kept)
    <3>1. CASE Settled
      BY <1>4, <3>1
    <3>2. CASE ~Settled
      <4>1. Cardinality(Techs) <= MAX_REQUIRES_DEPTH
        BY <1>9, <3>2
      <4>2. Cardinality(left) <= MAX_REQUIRES_DEPTH
        BY <1>1, <4>1, DepthsPositive
      <4> QED BY <1>2, <4>2
    <3> QED BY <3>1, <3>2
  <2>3. kept = Sustained(left) /\ Closure(start) = DOMAIN detected
    BY <1>2, <1>7, <2>1, <2>2
  <2> QED BY <1>3, <2>3 DEF left
<1> QED BY <1>6, <1>8, <1>9 DEF ReportByDefinition, left

LEMMA FinalizeKeeps == DetectInv /\ Finalize => DetectInv'
<1> SUFFICES ASSUME DetectInv, Finalize PROVE DetectInv'
  OBVIOUS
<1>0. UNCHANGED <<rules, page, stage, rounds, detected, start>> /\ step = "finalize" /\ step' = "reported"
  BY DEF Finalize
<1> DEFINE kept == apply_technology_requires(apply_technology_exclusions(DOMAIN detected))
           named == {u \in kept : ~is_denylisted_technology(u)}
           line(t) == [version |-> detected[t].version, is_implied |-> detected[t].is_implied,
                       detection_source |-> as_str(detected[t].source)]
<1>1. finalize_detections(detected) = [t \in named |-> line(t)]
  BY DEF finalize_detections
<1>2. kept \subseteq DOMAIN detected
  <2> DEFINE left == apply_technology_exclusions(DOMAIN detected)
  <2>1. left \subseteq DOMAIN detected /\ IsFiniteSet(left)
    <3>1. left \subseteq DOMAIN detected /\ left \subseteq Techs
      BY DEF apply_technology_exclusions, DetectInv, AllHonest
    <3> QED BY <3>1, CatalogFinite, FS_Subset
  <2> HIDE DEF left
  <2>2. apply_technology_requires(left) \subseteq left
    BY <2>1, RequiresKeeps
  <2> QED BY <2>1, <2>2 DEF left
<1> DEFINE names == IF stage = "page" /\ page.on_github THEN named \ {GitHubPages} ELSE named
<1>3. report' = [t \in names |-> line(t)]
  <2> HIDE DEF named
  <2>1. DOMAIN finalize_detections(detected) = named
    BY <1>1
  <2>2. CASE stage = "page"
    BY <2>1, <2>2, <1>1 DEF Finalize, DropGitHubPages
  <2>3. CASE stage # "page"
    BY <2>3, <1>1 DEF Finalize
  <2> QED BY <2>2, <2>3
<1>4. names = FinalNames
  BY DEF FinalNames, Shown
<1>5. names \subseteq DOMAIN detected
  BY <1>2
<1>6. ReportsHonest(report')
  <2> HIDE DEF names
  <2> QED BY <1>3, <1>5, FinalizeHonest DEF DetectInv
<1> HIDE DEF names, kept, named
<1>7. AllHonest(detected)' /\ ReportsHonest(report)' /\ Catalog' = Catalog
  <2>1. \A found : AllHonest(found) => AllHonest(found)'
    BY <1>0, PassFrame
  <2>2. \A techs : ReportsHonest(techs) => ReportsHonest(techs)'
    BY <1>0, PassFrame
  <2>3. PICK found : found = detected
    OBVIOUS
  <2>4. AllHonest(found)'
    BY <2>1, <2>3 DEF DetectInv
  <2>5. PICK techs : techs = report'
    OBVIOUS
  <2>6. ReportsHonest(techs)'
    BY <2>2, <2>5, <1>6
  <2>7. AllHonest(detected)'
    BY <1>0, <2>3, <2>4 DEF AllHonest
  <2>8. ReportsHonest(report)'
    BY <2>5, <2>6 DEF ReportsHonest
  <2> QED BY <2>7, <2>8, <1>0, PassFrame
<1>8. Finalized'
  <2>1. FinalNames' = FinalNames
    BY <1>0 DEF FinalNames, Shown, is_denylisted_technology, technology_in_category, apply_technology_requires, Retained,
                technology_requires_satisfied, apply_technology_exclusions, Catalog
  <2>2. DOMAIN report' = FinalNames
    BY <1>3, <1>4
  <2>3. /\ Catalog \subseteq Techs /\ DOMAIN detected \subseteq Techs
        /\ start \subseteq DOMAIN detected
        /\ \A s \in SUBSET Techs : start \subseteq s /\ Closed(s) => DOMAIN detected \subseteq s
        /\ Cardinality(Techs) <= MAX_IMPLIES_DEPTH => Closed(DOMAIN detected)
    BY <1>0 DEF DetectInv, AllHonest, Expanding
  <2>4. \A s : Closed(s)' <=> Closed(s)
    BY <1>0, PassFrame
  <2>5. Closed(DOMAIN detected)' <=> Closed(DOMAIN detected)
    BY <1>0 DEF Closed, Catalog
  <2> QED BY <1>0, <1>7, <2>1, <2>2, <2>3, <2>4, <2>5 DEF Finalized
<1>9. Concluded'
  BY <1>8 DEF Concluded
<1>10. Expanding'
  BY <1>0 DEF Expanding
<1> QED BY <1>0, <1>7, <1>9, <1>10 DEF DetectInv

LEMMA SupplementKeeps == DetectInv /\ Supplement => DetectInv'
<1> SUFFICES ASSUME DetectInv, Supplement PROVE DetectInv'
  OBVIOUS
<1>0. UNCHANGED <<rules, page, detected, report>> /\ step' = "observe"
  BY DEF Supplement
<1>1. AllHonest(detected)' /\ ReportsHonest(report)' /\ Catalog' = Catalog
  BY <1>0 DEF DetectInv, AllHonest, ReportsHonest, ReportedHonest, Honest, Witnessed, Js, Signals, Catalog
<1> QED BY <1>0, <1>1 DEF DetectInv, Expanding, Concluded

LEMMA DetectIdle == DetectInv /\ UNCHANGED vars => DetectInv'
<1> SUFFICES ASSUME DetectInv, UNCHANGED vars PROVE DetectInv'
  OBVIOUS
<1>0. UNCHANGED <<rules, page, stage, step, rounds, detected, report, start>>
  BY DEF vars
<1>1. AllHonest(detected)' /\ ReportsHonest(report)' /\ Catalog' = Catalog
  BY <1>0 DEF DetectInv, AllHonest, ReportsHonest, ReportedHonest, Honest, Witnessed, Js, Signals, Catalog
<1>2. Expanding'
  BY <1>0 DEF DetectInv, Expanding, Closed, Catalog
<1>3. Concluded'
  <2>1. FinalNames' = FinalNames
    BY <1>0 DEF FinalNames, Shown, is_denylisted_technology, technology_in_category, apply_technology_requires, Retained,
                technology_requires_satisfied, apply_technology_exclusions, Catalog
  <2>2. Finalized => Finalized'
    BY <1>0, <1>1, <2>1 DEF Finalized, Closed
  <2>3. Supplemental(stage)' => Supplemental(stage)
    BY <1>0 DEF Supplemental, Signals, Catalog
  <2> QED BY <1>0, <2>2, <2>3 DEF DetectInv, Concluded
<1> QED BY <1>0, <1>1, <1>2, <1>3 DEF DetectInv

\* The invariant says what is to be shown.
LEMMA DetectInvSound == DetectInv => DetectionSound
<1> SUFFICES ASSUME DetectInv PROVE DetectionSound
  OBVIOUS
<1>0. ReportByDefinition
  BY FinalizedByDefinition DEF DetectInv, Concluded, ReportByDefinition
<1> SUFFICES ReportHonest
  BY <1>0 DEF DetectionSound
<1> SUFFICES ASSUME NEW t \in DOMAIN report
             PROVE  /\ report[t].is_implied <=> report[t].detection_source = "implied"
                    /\ ~report[t].is_implied =>
                          \/ Js(t).matched /\ report[t].detection_source = "js"
                          \/ \E c \in DOMAIN page.signals :
                                /\ Matched(Signals(t, c)).matched
                                /\ report[t].detection_source = as_str(Matched(Signals(t, c)).source)
                    /\ report[t].version # NoVersion => ~Blank(report[t].version) /\ ~Digest(report[t].version)
  BY DEF ReportHonest
<1> DEFINE tech == report[t]
<1>1. PICK source \in Observable \cup {"Implied"} :
         /\ tech.detection_source = as_str(source)
         /\ Honest(t, [version |-> tech.version, is_implied |-> tech.is_implied, source |-> source])
  BY DEF DetectInv, ReportsHonest, ReportedHonest
<1> HIDE DEF tech
<1>2. /\ tech.is_implied \in BOOLEAN /\ (tech.is_implied = TRUE <=> source = "Implied")
      /\ tech.is_implied = FALSE => Witnessed(t, source)
      /\ Sane(tech.version)
  BY <1>1 DEF Honest
<1>3. as_str(source) = "implied" <=> source = "Implied"
  BY SourcesParse
<1>4. as_str("Js") = "js"
  BY DEF as_str, DetectionSource, Observable
<1>5. tech.is_implied <=> tech.detection_source = "implied"
  BY <1>1, <1>2, <1>3
<1>6. ~tech.is_implied =>
         \/ Js(t).matched /\ tech.detection_source = "js"
         \/ \E c \in DOMAIN page.signals :
               Matched(Signals(t, c)).matched /\ tech.detection_source = as_str(Matched(Signals(t, c)).source)
  BY <1>1, <1>2, <1>4 DEF Witnessed
<1>7. tech.version # NoVersion => ~Blank(tech.version) /\ ~Digest(tech.version)
  BY <1>2 DEF Sane
<1> QED BY <1>5, <1>6, <1>7 DEF tech

\* After every pass the technologies reported are those the definition gives, with
\* the source that showed them (detection/mod.rs:127, 221, matching.rs:53): for
\* every catalog and page.  Where the chains fit the limits, or both expansions
\* came to rest, exactly those; where a limit cuts a chain, none that the start
\* does not imply and all that sustain themselves.
THEOREM DetectionIsSound == Spec => []DetectionSound
<1>1. Init => DetectInv
  BY DetectStarts
<1>2. DetectInv /\ [Next]_vars => DetectInv'
  BY ObserveKeeps, ExpandKeeps, FinalizeKeeps, SupplementKeeps, DetectIdle DEF Next
<1>3. DetectInv => DetectionSound
  BY DetectInvSound
<1> QED BY <1>1, <1>2, <1>3, PTL DEF Spec
=============================================================================
