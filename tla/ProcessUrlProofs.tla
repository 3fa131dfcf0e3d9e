------------------------- MODULE ProcessUrlProofs -------------------------
(***************************************************************************)
(* Proofs about ProcessUrl: for every set of URLs, every policy, every     *)
(* bound on hops and every number of retries.                              *)
(***************************************************************************)
EXTENDS ProcessUrl, TLAPS

(* RequestsAllowed is not inductive: between the hop that ends the chain   *)
(* and the fallback request the URL is held at "resolved".                 *)
CurrentAllowed ==
    pc \in {"hop", "resolved", "fallback"} =>
        current \in Safe /\ (url \in Https => current \in Https)

(* Actions after the chain is resolved leave the URL alone and never lead  *)
(* back to a request, except through a new attempt.                        *)
LEMMA LaterStages ==
    ASSUME StatusFails \/ StatusAccepted \/ Extract \/ Parse \/ EnrichTech \/ EnrichTls
           \/ EnrichForward \/ EnrichReverse \/ EnrichRecords \/ EnrichFavicon
           \/ EnrichScripts \/ EnrichWellKnown \/ Supplement \/ Prepare \/ Persist
           \/ Return \/ ExecuteWithRetry \/ Wake \/ RecordFailure \/ Timeout \/ Cancel \/ Abort
           \/ HopFails \/ HopUnparsable \/ FallbackFails \/ FallbackAnswers
    PROVE  pc' \notin {"hop", "resolved", "fallback"}
  BY DEF StatusFails, StatusAccepted, Extract, Parse, EnrichTech, EnrichTls,
         EnrichForward, EnrichReverse, EnrichRecords, EnrichFavicon, EnrichScripts,
         EnrichWellKnown, BestEffort, Enriching, Supplement, Prepare, Persist, Return,
         ExecuteWithRetry, Wake, RecordFailure, Timeout, Cancel, Abort, HopFails,
         HopUnparsable, FallbackFails, FallbackAnswers, Fail

LEMMA AllowedStep == CurrentAllowed /\ [Next]_vars => CurrentAllowed'
<1> SUFFICES ASSUME CurrentAllowed, [Next]_vars PROVE CurrentAllowed'
  OBVIOUS
<1>1. CASE Attempt
  BY <1>1 DEF CurrentAllowed, Attempt, StartChain, Fail
<1>2. CASE HopFinal
  BY <1>2 DEF CurrentAllowed, HopFinal, HopAnswers, taskVars
<1>3. CASE HopFollows
  BY <1>3 DEF CurrentAllowed, HopFollows, HopAnswers, validate_redirect_target, taskVars
<1>4. CASE HopStops
  BY <1>4 DEF CurrentAllowed, HopStops, HopAnswers, taskVars
<1>5. CASE Resolved
  BY <1>5 DEF CurrentAllowed, Resolved, taskVars, fetchVars
<1>6. CASE UNCHANGED vars
  BY <1>6 DEF CurrentAllowed, vars, taskVars, fetchVars
<1>7. QED
  BY <1>1, <1>2, <1>3, <1>4, <1>5, <1>6, LaterStages DEF Next, Step, CurrentAllowed

(* No request for the page, at any hop or as the fallback after a chain    *)
(* that ended early, goes to a URL the policy rejects or drops from https  *)
(* to http (redirects.rs, request.rs).                                     *)
THEOREM PageRequestsAllowed == Spec => []RequestsAllowed
<1>1. Init => CurrentAllowed
  BY DEF Init, CurrentAllowed
<1>2. CurrentAllowed => RequestsAllowed
  BY DEF CurrentAllowed, RequestsAllowed
<1>3. QED
  BY <1>1, <1>2, AllowedStep, PTL DEF Spec

-----------------------------------------------------------------------------

Ready == {"attempt", "sleep"}
Final == {"failed", "returned", "dropped"}

CountersTyped ==
    /\ delays \in Nat /\ retried \in Nat /\ attempt_count \in Nat
    /\ nonRetriable \in Nat

(* Every retry counted has used up a delay, and every attempt but the      *)
(* first has been counted as a retry before it began.                      *)
AttemptsCounted ==
    /\ delays + retried = RETRY_MAX_ATTEMPTS
    /\ attempt_count <= retried + 1
    /\ pc \in Ready => attempt_count = retried
    /\ pc \notin Ready \cup {"dropped"} => attempt_count = retried + 1

(* The metric is written in the step that gives up on such an error.       *)
GivesUpOnce ==
    /\ pc \notin Final => nonRetriable = 0
    /\ pc = "failed" => (nonRetriable = 1 /\ ~is_retriable_error(error))
                       \/ (nonRetriable = 0 /\ delays = 0 /\ is_retriable_error(error))

RetryInv == CountersTyped /\ AttemptsCounted /\ GivesUpOnce

(* Steps within one attempt, and the two that drop the future, leave the   *)
(* counters alone.                                                         *)
Within ==
    \/ HopFails \/ HopFinal \/ HopFollows \/ HopStops \/ HopUnparsable
    \/ Resolved \/ FallbackFails \/ FallbackAnswers \/ StatusFails \/ StatusAccepted
    \/ Extract \/ Parse
    \/ EnrichTech \/ EnrichTls \/ EnrichForward \/ EnrichReverse \/ EnrichRecords
    \/ EnrichFavicon \/ EnrichScripts \/ EnrichWellKnown
    \/ Supplement \/ Prepare \/ Persist \/ Return

LEMMA WithinAttempt ==
    ASSUME Within
    PROVE  /\ UNCHANGED taskVars
           /\ pc \notin Ready \cup Final
           /\ pc' \notin Ready \cup {"failed", "dropped"}
  BY DEF Within, StatusFails, StatusAccepted, Extract, Parse, EnrichTech, EnrichTls,
         EnrichForward, EnrichReverse, EnrichRecords, EnrichFavicon, EnrichScripts,
         EnrichWellKnown, BestEffort, Enriching, Supplement, Prepare, Persist, Return,
         HopFails, HopFinal, HopFollows, HopStops, HopUnparsable, HopAnswers, Resolved,
         FallbackFails, FallbackAnswers, Fail, taskVars, Ready, Final

LEMMA RetryStep == RetryInv /\ [Next]_vars => RetryInv'
<1> SUFFICES ASSUME RetryInv, [Next]_vars PROVE RetryInv'
  OBVIOUS
<1> USE DEF RetryInv, CountersTyped, AttemptsCounted, GivesUpOnce, Ready, Final
<1>1. CASE Attempt
  <2>1. /\ pc = "attempt" /\ attempt_count' = attempt_count + 1
        /\ UNCHANGED <<delays, retried, nonRetriable>>
        /\ pc' \in {"hop", "error"}
    BY <1>1 DEF Attempt, StartChain, Fail
  <2>2. QED
    BY <2>1
<1>2. CASE Within
  BY <1>2, WithinAttempt DEF taskVars
<1>3. CASE ExecuteWithRetry
  <2>1. pc = "error" /\ UNCHANGED <<attempt_count, error>>
    BY <1>3 DEF ExecuteWithRetry
  <2>2. CASE ~is_retriable_error(error)
    <3>1. /\ nonRetriable' = nonRetriable + 1 /\ pc' = "failed"
          /\ UNCHANGED <<delays, retried>>
      BY <1>3, <2>2 DEF ExecuteWithRetry
    <3>2. ~is_retriable_error(error)'
      BY <2>1, <2>2 DEF is_retriable_error
    <3>3. QED
      BY <2>1, <3>1, <3>2
  <2>3. CASE is_retriable_error(error) /\ delays = 0
    <3>1. pc' = "failed" /\ UNCHANGED <<delays, retried, nonRetriable>>
      BY <1>3, <2>3 DEF ExecuteWithRetry
    <3>2. is_retriable_error(error)'
      BY <2>1, <2>3 DEF is_retriable_error
    <3>3. QED
      BY <2>1, <2>3, <3>1, <3>2
  <2>4. CASE is_retriable_error(error) /\ delays # 0
    <3>1. /\ delays > 0 /\ delays' = delays - 1 /\ retried' = retried + 1
          /\ pc' = "sleep" /\ UNCHANGED nonRetriable
      BY <1>3, <2>4 DEF ExecuteWithRetry
    <3>2. QED
      BY <2>1, <3>1
  <2>5. QED
    BY <2>2, <2>3, <2>4
<1>4. CASE Wake
  BY <1>4 DEF Wake, taskVars
<1>5. CASE RecordFailure
  BY <1>5 DEF RecordFailure, taskVars
<1>6. CASE Timeout \/ Cancel \/ Abort
  BY <1>6 DEF Timeout, Cancel, Abort, taskVars
<1>7. CASE UNCHANGED vars
  <2>1. is_retriable_error(error)' <=> is_retriable_error(error)
    BY <1>7 DEF is_retriable_error, vars
  <2>2. QED
    BY <1>7, <2>1 DEF vars, taskVars
<1>8. QED
  BY <1>1, <1>2, <1>3, <1>4, <1>5, <1>6, <1>7 DEF Next, Step, Within

(* The retry metrics and the retry count agree with the attempts made, and *)
(* a task gives up only on a non-retriable error or with every delay used  *)
(* (process.rs), whatever the number of retries configured.                *)
THEOREM RetriesAccounted == Spec => []RetryAccounting
<1>1. Init => RetryInv
  BY RetryAssumption
  DEF Init, RetryInv, CountersTyped, AttemptsCounted, GivesUpOnce, Ready, Final
<1>2. RetryInv => RetryAccounting
  <2> SUFFICES ASSUME RetryInv PROVE RetryAccounting
    OBVIOUS
  <2>1. delays + retried = RETRY_MAX_ATTEMPTS
    BY DEF RetryInv, AttemptsCounted
  <2>2. ASSUME pc = "failed" PROVE retried = attempt_count - 1
    BY <2>2 DEF RetryInv, AttemptsCounted, CountersTyped, Ready
  <2>3. ASSUME pc = "failed"
        PROVE /\ (nonRetriable = 1) <=> ~is_retriable_error(error)
              /\ nonRetriable = 0 => delays = 0
    BY <2>3 DEF RetryInv, GivesUpOnce
  <2>4. attempt_count <= RETRY_MAX_ATTEMPTS + 1
    BY <2>1 DEF RetryInv, AttemptsCounted, CountersTyped
  <2>5. ASSUME pc = "failed", nonRetriable = 0 PROVE attempt_count = RETRY_MAX_ATTEMPTS + 1
    BY <2>1, <2>2, <2>3, <2>5 DEF RetryInv, CountersTyped
  <2>6. QED
    BY <2>1, <2>2, <2>3, <2>4, <2>5 DEF RetryAccounting
<1>3. QED
  BY <1>1, <1>2, RetryStep, PTL DEF Spec


-----------------------------------------------------------------------------

(* What the fetching stages hold has its type.                             *)
FetchTyped ==
    /\ url \in Url /\ current \in Url
    /\ chain \in Seq(Url \X Status)
    /\ response \in Status \cup {None}
    /\ age \in Nat /\ elapsed \in Nat

LEMMA FetchTypedStep == FetchTyped /\ [Next]_vars => FetchTyped'
<1> SUFFICES ASSUME FetchTyped, [Next]_vars PROVE FetchTyped'
  OBVIOUS
<1> USE DEF FetchTyped, taskVars, fetchVars
<1>1. CASE Attempt
  BY <1>1 DEF Attempt, StartChain
<1>2. ASSUME NEW s \in Status, HopAnswers(s)
      PROVE  url' = url /\ chain' \in Seq(Url \X Status) /\ age' \in Nat /\ elapsed' \in Nat
  <2>1. <<current, s>> \in Url \X Status
    BY <1>2
  <2>2. QED
    BY <1>2, <2>1 DEF HopAnswers
<1>3. CASE HopFinal \/ HopFollows \/ HopStops \/ HopUnparsable
  <2>1. "redirect" \in Status
    BY DEF Status
  <2>2. current' \in Url /\ response' \in Status \cup {None}
    BY <1>3 DEF HopFinal, HopFollows, HopStops, HopUnparsable
  <2>3. PICK s \in Status : HopAnswers(s)
    BY <1>3, <2>1 DEF HopFinal, HopFollows, HopStops, HopUnparsable
  <2>4. QED
    BY <1>2, <2>2, <2>3
<1>4. CASE HopFails \/ FallbackFails \/ FallbackAnswers
  BY <1>4 DEF HopFails, FallbackFails, FallbackAnswers
<1>5. CASE StatusAccepted
  BY <1>5 DEF StatusAccepted
<1>6. CASE Wake
  BY <1>6, BackoffAssumption DEF Wake
<1>7. CASE ExecuteWithRetry
  BY <1>7 DEF ExecuteWithRetry
<1>8. CASE UNCHANGED vars
  BY <1>8 DEF vars
<1>9. CASE Resolved \/ StatusFails \/ Extract \/ Parse \/ EnrichTech \/ EnrichTls
           \/ EnrichForward \/ EnrichReverse \/ EnrichRecords \/ EnrichFavicon
           \/ EnrichScripts \/ EnrichWellKnown \/ Supplement \/ Prepare \/ Persist
           \/ Return \/ RecordFailure \/ Timeout \/ Cancel \/ Abort
  <2>1. UNCHANGED <<taskVars, fetchVars>>
    BY <1>9 DEF Resolved, StatusFails, Extract, Parse, EnrichTech, EnrichTls,
         EnrichForward, EnrichReverse, EnrichRecords, EnrichFavicon, EnrichScripts,
         EnrichWellKnown, BestEffort, Enriching, Supplement, Prepare, Persist, Return,
         RecordFailure, Timeout, Cancel, Abort
  <2>2. QED
    BY <2>1
<1>10. QED
  BY <1>1, <1>3, <1>4, <1>5, <1>6, <1>7, <1>8, <1>9 DEF Next, Step

(* The chain between the first hop and the row.                            *)
Redirects(c, n) == \A i \in 1 .. n : c[i][2] = "redirect"
Fetched == {"resolved", "fallback", "classify", "extract", "parse", "enrich", "prepare",
            "persist"}
Accepted == {"extract", "parse", "enrich", "prepare", "persist"}

(* A chain that has been resolved: it begins at the URL of the task, ends  *)
(* at the URL fetched last, and all before its end are redirects.          *)
ChainEnds ==
    /\ chain # <<>> /\ chain[1][1] = url
    /\ chain[Len(chain)][1] = current
    /\ Redirects(chain, Len(chain) - 1)

(* The response at hand after the time t: the answer of the last hop, or   *)
(* that of one more request after a chain that ended with a redirect.      *)
Answered(t) ==
    \/ chain[Len(chain)][2] = response /\ t = Len(chain)
    \/ chain[Len(chain)][2] = "redirect" /\ t = Len(chain) + 1

ChainInv ==
    /\ pc = "hop" =>
         /\ response = None /\ age = Len(chain)
         /\ Redirects(chain, Len(chain))
         /\ IF chain = <<>> THEN current = url ELSE chain[1][1] = url
    /\ pc \in Fetched => ChainEnds
    /\ pc \in {"resolved", "fallback"} =>
         /\ age = Len(chain)
         /\ chain[Len(chain)][2] = IF response = None THEN "redirect" ELSE response
    /\ pc = "fallback" => response = None
    /\ pc = "classify" => Answered(age)
    /\ pc \in Accepted => Answered(elapsed)

(* One more entry leaves those before it as they are.                      *)
LEMMA AppendChain ==
    ASSUME NEW S, NEW c \in Seq(S), NEW e \in S
    PROVE  /\ Append(c, e) # <<>> /\ Append(c, e) \in Seq(S)
           /\ Len(Append(c, e)) = Len(c) + 1
           /\ Append(c, e)[Len(c) + 1] = e
           /\ \A i \in 1 .. Len(c) : Append(c, e)[i] = c[i]
  OBVIOUS

LEMMA ChainStep == FetchTyped /\ ChainInv /\ [Next]_vars => ChainInv'
<1> SUFFICES ASSUME FetchTyped, ChainInv, [Next]_vars PROVE ChainInv'
  OBVIOUS
<1> USE DEF taskVars, fetchVars
<1>1. CASE Attempt
  <2>1. /\ pc' \in {"hop", "error"} /\ chain' = <<>> /\ response' = None /\ age' = 0
        /\ current' = url /\ url' = url
    BY <1>1 DEF Attempt, StartChain, Fail
  <2>2. Redirects(chain', Len(chain'))
    BY <2>1 DEF Redirects
  <2>3. QED
    BY <2>1, <2>2 DEF ChainInv, Fetched, Accepted, Redirects
<1>2. ASSUME NEW s \in Status, HopAnswers(s)
      PROVE  /\ url' = url /\ age' = Len(chain') /\ Len(chain') = Len(chain) + 1
             /\ chain' # <<>> /\ chain' \in Seq(Url \X Status)
             /\ chain'[1][1] = url
             /\ chain'[Len(chain')] = <<current, s>>
             /\ Redirects(chain', Len(chain') - 1)
             /\ response = None
  <2>1. <<current, s>> \in Url \X Status /\ chain' = Append(chain, <<current, s>>)
    BY <1>2 DEF HopAnswers, FetchTyped
  <2>2. /\ chain' # <<>> /\ chain' \in Seq(Url \X Status)
        /\ Len(chain') = Len(chain) + 1 /\ chain'[Len(chain) + 1] = <<current, s>>
        /\ \A i \in 1 .. Len(chain) : chain'[i] = chain[i]
    BY <2>1, AppendChain DEF FetchTyped
  <2>3. pc = "hop" /\ age' = age + 1 /\ url' = url
    BY <1>2 DEF HopAnswers
  <2>4. Len(chain) \in Nat
    BY DEF FetchTyped
  <2>5. Redirects(chain', Len(chain') - 1)
    <3>1. Redirects(chain, Len(chain))
      BY <2>3 DEF ChainInv
    <3>2. QED
      BY <2>2, <2>4, <3>1 DEF Redirects
  <2>6. chain'[1][1] = url
    <3>1. CASE chain = <<>>
      BY <2>2, <2>3, <3>1 DEF ChainInv
    <3>2. CASE chain # <<>>
      <4>1. 1 \in 1 .. Len(chain)
        BY <3>2 DEF FetchTyped
      <4>2. QED
        BY <2>2, <2>3, <3>2, <4>1 DEF ChainInv
    <3>3. QED
      BY <3>1, <3>2
  <2>7. QED
    BY <2>2, <2>3, <2>4, <2>5, <2>6 DEF ChainInv
<1>3. CASE HopFinal
  <2>1. PICK s \in Status : HopAnswers(s) /\ response' = s
    BY <1>3 DEF HopFinal
  <2>2. pc' = "resolved" /\ current' = current
    BY <1>3 DEF HopFinal
  <2>3. ChainEnds'
    BY <1>2, <2>1, <2>2 DEF ChainEnds
  <2>4. QED
    BY <1>2, <2>1, <2>2, <2>3, NoneAssumption DEF ChainInv, Accepted
<1>4. CASE HopFollows
  <2>0. "redirect" \in Status
    BY DEF Status
  <2>1. HopAnswers("redirect") /\ pc' = pc /\ response' = response /\ pc = "hop"
    BY <1>4 DEF HopFollows, HopAnswers
  <2>2. Redirects(chain', Len(chain'))
    BY <1>2, <2>0, <2>1 DEF Redirects
  <2>3. QED
    BY <1>2, <2>0, <2>1, <2>2 DEF ChainInv, Fetched, Accepted
<1>5. CASE HopStops
  <2>0. "redirect" \in Status
    BY DEF Status
  <2>1. /\ HopAnswers("redirect") /\ pc' = "resolved"
        /\ response' = response /\ current' = current
    BY <1>5 DEF HopStops
  <2>3. ChainEnds'
    BY <1>2, <2>0, <2>1 DEF ChainEnds
  <2>4. QED
    BY <1>2, <2>0, <2>1, <2>3, NoneAssumption DEF ChainInv, Accepted
<1>6. ASSUME pc' \notin Fetched \cup {"hop"} PROVE ChainInv'
  BY <1>6 DEF ChainInv, Fetched, Accepted
<1>7. CASE Resolved
  <2>1. /\ pc = "resolved" /\ UNCHANGED <<url, fetchVars>>
        /\ pc' = IF response = None THEN "fallback" ELSE "classify"
    BY <1>7 DEF Resolved
  <2>2. QED
    BY <2>1 DEF ChainInv, ChainEnds, Answered, Redirects, Fetched, Accepted
<1>8. CASE FallbackAnswers
  <2>1. /\ pc = "fallback" /\ pc' = "classify" /\ age' = age + 1
        /\ UNCHANGED <<url, current, chain>>
    BY <1>8 DEF FallbackAnswers
  <2>2. QED
    BY <2>1 DEF ChainInv, ChainEnds, Answered, Redirects, Fetched, Accepted
<1>9. CASE StatusAccepted
  <2>1. /\ pc = "classify" /\ pc' = "extract" /\ elapsed' = age
        /\ UNCHANGED <<url, current, chain, response>>
    BY <1>9 DEF StatusAccepted
  <2>2. QED
    BY <2>1 DEF ChainInv, ChainEnds, Answered, Redirects, Fetched, Accepted
<1>10. ASSUME pc \in Accepted, pc' \in Accepted, UNCHANGED <<url, fetchVars>>
       PROVE  ChainInv'
  BY <1>10 DEF ChainInv, ChainEnds, Answered, Redirects, Fetched, Accepted
<1>11. CASE EnrichTech \/ EnrichTls \/ EnrichForward \/ EnrichReverse \/ EnrichRecords
            \/ EnrichFavicon \/ EnrichScripts \/ EnrichWellKnown \/ Supplement \/ Prepare
  <2>1. pc \in Accepted /\ pc' \in Accepted /\ UNCHANGED <<url, fetchVars>>
    BY <1>11 DEF EnrichTech, EnrichTls, EnrichForward, EnrichReverse, EnrichRecords,
         EnrichFavicon, EnrichScripts, EnrichWellKnown, BestEffort, Enriching, Supplement,
         Prepare, Accepted
  <2>2. QED
    BY <1>10, <2>1
<1>12. CASE Extract \/ Parse
  <2>1. /\ pc \in Accepted /\ UNCHANGED <<url, fetchVars>>
        /\ pc' \in {"error", "returned", "parse", "enrich"}
    BY <1>12 DEF Extract, Parse, Fail, Accepted
  <2>2. QED
    BY <1>6, <1>10, <2>1 DEF Fetched, Accepted
<1>13. CASE HopFails \/ HopUnparsable \/ FallbackFails \/ StatusFails \/ Persist \/ Return
            \/ ExecuteWithRetry \/ Wake \/ RecordFailure \/ Timeout \/ Cancel \/ Abort
  <2>1. pc' \notin Fetched \cup {"hop"}
    BY <1>13 DEF HopFails, HopUnparsable, FallbackFails, StatusFails, Persist, Return,
         ExecuteWithRetry, Wake, RecordFailure, Timeout, Cancel, Abort, Fail, Fetched
  <2>2. QED
    BY <1>6, <2>1
<1>14. CASE UNCHANGED vars
  BY <1>14 DEF vars, ChainInv, ChainEnds, Answered, Redirects
<1>15. QED
  BY <1>1, <1>3, <1>4, <1>5, <1>7, <1>8, <1>9, <1>11, <1>12, <1>13, <1>14 DEF Next, Step

-----------------------------------------------------------------------------

(* The steps up to the acceptance of a response, and the errors after it.  *)
Early == {"attempt", "hop", "resolved", "fallback", "classify", "sleep"}

(* The response time is taken when a response is accepted, and no error of *)
(* a later stage is retriable.                                             *)
AcceptInv ==
    /\ pc \in Early => elapsed = 0
    /\ pc = "error" /\ is_retriable_error(error) => elapsed = 0

LEMMA AcceptStep == AcceptInv /\ [Next]_vars => AcceptInv'
<1> SUFFICES ASSUME AcceptInv, [Next]_vars PROVE AcceptInv'
  OBVIOUS
<1> USE DEF Early, fetchVars
<1>1. ASSUME pc \in Early, UNCHANGED elapsed PROVE AcceptInv'
  BY <1>1 DEF AcceptInv
<1>2. ASSUME pc' \notin Early \cup {"error"} PROVE AcceptInv'
  BY <1>2 DEF AcceptInv
<1>3. CASE Attempt \/ HopFails \/ HopFinal \/ HopFollows \/ HopStops \/ HopUnparsable
           \/ Resolved \/ FallbackFails \/ FallbackAnswers \/ StatusFails \/ Wake
  <2>1. pc \in Early /\ UNCHANGED elapsed
    BY <1>3 DEF Attempt, HopFails, HopFinal, HopFollows, HopStops, HopUnparsable,
         HopAnswers, Resolved, FallbackFails, FallbackAnswers, StatusFails, Wake
  <2>2. QED
    BY <1>1, <2>1
<1>4. CASE StatusAccepted \/ EnrichTech \/ EnrichTls \/ EnrichForward \/ EnrichReverse
           \/ EnrichRecords \/ EnrichFavicon \/ EnrichScripts \/ EnrichWellKnown
           \/ Supplement \/ Prepare \/ Return \/ RecordFailure \/ Timeout \/ Cancel \/ Abort
  <2>1. pc' \notin Early \cup {"error"}
    BY <1>4 DEF StatusAccepted, EnrichTech, EnrichTls, EnrichForward, EnrichReverse,
         EnrichRecords, EnrichFavicon, EnrichScripts, EnrichWellKnown, BestEffort,
         Enriching, Supplement, Prepare, Return, RecordFailure, Timeout, Cancel, Abort
  <2>2. QED
    BY <1>2, <2>1
<1>5. ASSUME NEW k \in {"domain", "html", "database"}, Fail(Plain(k)) PROVE AcceptInv'
  BY <1>5 DEF AcceptInv, Fail, Plain, is_retriable_error, is_retriable, Failing
<1>6. CASE Extract \/ Parse \/ Persist
  BY <1>2, <1>5, <1>6 DEF Extract, Parse, Persist
<1>7. CASE ExecuteWithRetry
  BY <1>7 DEF ExecuteWithRetry, AcceptInv
<1>8. CASE UNCHANGED vars
  BY <1>8 DEF vars, AcceptInv, is_retriable_error
<1>9. QED
  BY <1>3, <1>4, <1>6, <1>7, <1>8 DEF Next, Step

(* Once a response has been accepted the task never starts over: no later  *)
(* stage has a retriable error, so a page is enriched, counted and written *)
(* at most once per task (process.rs, request.rs).                         *)
THEOREM AcceptedNeverRepeats == Spec => AcceptedOnce
<1>1. Init => AcceptInv
  BY DEF Init, AcceptInv
<1>2. AcceptInv /\ [Next]_vars => [attempt_count' # attempt_count => elapsed = 0]_vars
  <2> SUFFICES ASSUME AcceptInv, [Next]_vars, attempt_count' # attempt_count
               PROVE  elapsed = 0
    BY DEF vars, taskVars
  <2>1. Attempt
    <3>1. CASE Within
      BY <3>1, WithinAttempt DEF taskVars
    <3>2. CASE ExecuteWithRetry \/ Wake \/ RecordFailure \/ Timeout \/ Cancel \/ Abort
      BY <3>2 DEF ExecuteWithRetry, Wake, RecordFailure, Timeout, Cancel, Abort, taskVars
    <3>3. QED
      BY <3>1, <3>2 DEF Next, Step, Within, vars, taskVars
  <2>2. QED
    BY <2>1 DEF Attempt, AcceptInv, Early
<1>3. QED
  BY <1>1, <1>2, AcceptStep, PTL DEF Spec, AcceptedOnce

-----------------------------------------------------------------------------

Unsettled == Early \cup {"extract", "parse"}
Enriched == {"enrich", "prepare", "persist"}

CountedAs(s) == \A k \in Lookup : stats[k] = IF k \in s THEN 1 ELSE 0

(* The counters of lookups are untouched until the page is enriched, and   *)
(* after that they are the partial failures of this one enrichment.        *)
StatsInv ==
    /\ stats \in [Stat -> Nat]
    /\ pc \in Unsettled => CountedAs({})
    /\ pc = "error" /\ is_retriable_error(error) => CountedAs({})
    /\ pc \in Enriched => CountedAs(partials)

(* What the branches still running leave open: the certificate, the        *)
(* address, whose two lookups never run at once, and the records.          *)
BranchInv ==
    pc \in Enriched =>
        /\ got \cap partials = {} /\ partials \subseteq Lookup
        /\ IF "tls" \in running THEN "tls" \notin got \cup partials
             ELSE current \in Https => "tls" \in got \cup partials
        /\ IF {"forward", "reverse"} \cap running # {}
             THEN "dns" \notin got \cup partials
             ELSE "dns" \in got \cup partials
        /\ ~("forward" \in running /\ "reverse" \in running)
        /\ "records" \in running => RecordType \cap (got \cup partials) = {}
        /\ "geo" \in got => "dns" \in got
        /\ skip_tech => "tech" \notin got
        /\ pc # "enrich" => running = {}

EnrichInv == StatsInv /\ BranchInv

(* What Count does to the lookups: those in s gain one, the others none.   *)
LEMMA CountEffect ==
    ASSUME stats \in [Stat -> Nat], NEW s, Count(s)
    PROVE  /\ stats' \in [Stat -> Nat]
           /\ \A k \in Lookup : stats'[k] = IF k \in s THEN stats[k] + 1 ELSE stats[k]
           /\ s \cap Lookup = {} => \A k \in Lookup : stats'[k] = stats[k]
  BY DEF Count, Stat

LEMMA OtherLookups ==
    /\ {"http", "tech", "timeout", "cancelled", "HttpRedirect", "HttpsRedirect",
        "MultipleRedirects", "BotDetection403", "geo"} \cap Lookup = {}
    /\ RecordType \cap {"tls", "dns", "geo", "tech"} = {}
  BY RecordAssumption DEF Lookup, Other

LEMMA EnrichStep == EnrichInv /\ AcceptInv /\ [Next]_vars => EnrichInv'
<1> SUFFICES ASSUME EnrichInv, AcceptInv, [Next]_vars PROVE EnrichInv'
  OBVIOUS
<1> USE DEF Early, Unsettled, Enriched
<1>0. stats \in [Stat -> Nat]
  BY DEF EnrichInv, StatsInv
(* Steps before the enrichment count nothing that is looked up.            *)
<1>1. ASSUME pc \in Unsettled, pc' \notin Enriched,
             \A k \in Lookup : stats'[k] = stats[k], stats' \in [Stat -> Nat]
      PROVE  EnrichInv'
  BY <1>1 DEF EnrichInv, StatsInv, BranchInv, CountedAs
(* Steps to where nothing is claimed any more.                             *)
<1>2. ASSUME pc' \notin Enriched \cup Unsettled, stats' \in [Stat -> Nat],
             pc' = "error" => ~is_retriable_error(error)'
      PROVE  EnrichInv'
  BY <1>2 DEF EnrichInv, StatsInv, BranchInv
<1>3. CASE Attempt \/ HopFails \/ HopFinal \/ HopFollows \/ HopStops \/ HopUnparsable
           \/ FallbackAnswers \/ Wake
  <2>1. pc \in Unsettled /\ pc' \notin Enriched /\ UNCHANGED stats
    BY <1>3 DEF Attempt, StartChain, Fail, HopFails, HopFinal, HopFollows, HopStops,
         HopUnparsable, HopAnswers, FallbackAnswers, Wake
  <2>2. QED
    BY <1>0, <1>1, <2>1
<1>4. CASE Resolved \/ FallbackFails \/ StatusFails \/ StatusAccepted
  <2>1. pc \in Unsettled /\ pc' \notin Enriched
    BY <1>4 DEF Resolved, FallbackFails, StatusFails, StatusAccepted, Fail
  <2>2. PICK s : Count(s) /\ s \cap Lookup = {}
    BY <1>4, OtherLookups DEF Resolved, FallbackFails, StatusFails, StatusAccepted
  <2>3. QED
    BY <1>0, <1>1, <2>1, <2>2, CountEffect
<1>5. ASSUME NEW k \in {"domain", "html", "database"}, Fail(Plain(k)), UNCHANGED stats
      PROVE  EnrichInv'
  <2>1. pc' = "error" /\ ~is_retriable_error(error)'
    BY <1>5 DEF Fail, Plain, is_retriable_error, is_retriable, Failing
  <2>2. QED
    BY <1>0, <1>2, <1>5, <2>1
<1>6. CASE Extract
  <2>1. UNCHANGED stats
    BY <1>6 DEF Extract
  <2>2. CASE Fail(Plain("domain"))
    BY <1>5, <2>1, <2>2
  <2>3. CASE pc' \in {"returned", "parse"}
    BY <1>0, <1>1, <1>6, <2>1, <2>3 DEF Extract
  <2>4. QED
    BY <1>6, <2>2, <2>3 DEF Extract
<1>7. CASE Parse
  <2>1. UNCHANGED <<stats, current>> /\ pc = "parse"
    BY <1>7 DEF Parse, fetchVars
  <2>2. CASE Fail(Plain("html"))
    BY <1>5, <2>1, <2>2
  <2>3. CASE pc' = "enrich" /\ running' = Branch \ {"reverse"} /\ got' = {} /\ partials' = {}
    <3>1. StatsInv'
      BY <2>1, <2>3 DEF EnrichInv, StatsInv, CountedAs
    <3>2. BranchInv'
      BY <2>3 DEF BranchInv, Branch, DnsFirst
    <3>3. QED
      BY <3>1, <3>2 DEF EnrichInv
  <2>4. QED
    BY <1>7, <2>2, <2>3 DEF Parse
(* A branch that fails in s: none of s had been counted before.            *)
<1>8. ASSUME pc = "enrich", pc' = "enrich", NEW s \in SUBSET Lookup,
             PartialFailures(s), s \cap partials = {}
      PROVE  StatsInv'
  <2>1. /\ partials' = partials \cup s
        /\ stats' \in [Stat -> Nat]
        /\ \A k \in Lookup : stats'[k] = IF k \in s THEN stats[k] + 1 ELSE stats[k]
    BY <1>0, <1>8, CountEffect DEF PartialFailures
  <2>2. \A k \in Lookup : stats[k] = IF k \in partials THEN 1 ELSE 0
    BY <1>8 DEF EnrichInv, StatsInv, CountedAs
  <2>3. QED
    BY <1>8, <2>1, <2>2 DEF StatsInv, CountedAs
<1>9. ASSUME pc \in Enriched, pc' \in Enriched, UNCHANGED partials,
             \A k \in Lookup : stats'[k] = stats[k], stats' \in [Stat -> Nat]
      PROVE  StatsInv'
  BY <1>9 DEF EnrichInv, StatsInv, CountedAs
<1>10. ASSUME NEW b, Enriching(b)
       PROVE  /\ pc = "enrich" /\ pc' = "enrich" /\ b \in running
              /\ UNCHANGED <<current, skip_tech>>
  BY <1>10 DEF Enriching, fetchVars
<1>11. CASE EnrichTech
  <2>1. /\ pc = "enrich" /\ pc' = "enrich" /\ UNCHANGED <<current, skip_tech, partials>>
        /\ running' = running \ {"tech"}
        /\ got' = got \/ (~skip_tech /\ got' = got \cup {"tech"})
    BY <1>10, <1>11 DEF EnrichTech
  <2>2. stats' \in [Stat -> Nat] /\ \A k \in Lookup : stats'[k] = stats[k]
    BY <1>0, <1>11, CountEffect, OtherLookups DEF EnrichTech
  <2>3. BranchInv'
    BY <2>1, OtherLookups DEF EnrichInv, BranchInv
  <2>4. QED
    BY <1>9, <2>1, <2>2, <2>3 DEF EnrichInv
<1>12. CASE EnrichTls
  <2>1. /\ pc = "enrich" /\ pc' = "enrich" /\ UNCHANGED <<current, skip_tech>>
        /\ running' = running \ {"tls"} /\ "tls" \in running /\ "tls" \in Lookup
        /\ "tls" \notin got \cup partials
    BY <1>10, <1>12 DEF EnrichTls, EnrichInv, BranchInv, Lookup
  <2>2. CASE current \in Https /\ PartialFailures({"tls"}) /\ UNCHANGED got
    <3>1. StatsInv'
      BY <1>8, <2>1, <2>2
    <3>2. BranchInv'
      BY <2>1, <2>2, OtherLookups DEF EnrichInv, BranchInv, PartialFailures
    <3>3. QED
      BY <3>1, <3>2 DEF EnrichInv
  <2>3. CASE /\ UNCHANGED <<partials, stats>>
             /\ \/ current \in Https /\ got' = got \cup {"tls"}
                \/ current \notin Https /\ UNCHANGED got
    <3>1. StatsInv'
      BY <1>0, <1>9, <2>1, <2>3
    <3>2. BranchInv'
      BY <2>1, <2>3, OtherLookups DEF EnrichInv, BranchInv
    <3>3. QED
      BY <3>1, <3>2 DEF EnrichInv
  <2>4. QED
    BY <1>12, <2>2, <2>3 DEF EnrichTls
<1>13. CASE EnrichForward
  <2>1. /\ pc = "enrich" /\ pc' = "enrich" /\ UNCHANGED <<current, skip_tech, got>>
        /\ "forward" \in running /\ "reverse" \notin running /\ "dns" \in Lookup
        /\ "dns" \notin got \cup partials
    BY <1>10, <1>13 DEF EnrichForward, EnrichInv, BranchInv, Lookup
  <2>2. CASE running' = running \ {"forward"} /\ PartialFailures({"dns"})
    <3>1. StatsInv'
      BY <1>8, <2>1, <2>2
    <3>2. BranchInv'
      BY <2>1, <2>2, OtherLookups DEF EnrichInv, BranchInv, PartialFailures
    <3>3. QED
      BY <3>1, <3>2 DEF EnrichInv
  <2>3. CASE /\ running' = (running \ {"forward"}) \cup {"reverse"}
             /\ UNCHANGED <<partials, stats>>
    <3>1. StatsInv'
      BY <1>0, <1>9, <2>1, <2>3
    <3>2. BranchInv'
      BY <2>1, <2>3 DEF EnrichInv, BranchInv
    <3>3. QED
      BY <3>1, <3>2 DEF EnrichInv
  <2>4. QED
    BY <1>13, <2>2, <2>3 DEF EnrichForward
<1>14. CASE EnrichReverse
  <2>1. /\ pc = "enrich" /\ pc' = "enrich" /\ UNCHANGED <<current, skip_tech>>
        /\ "reverse" \in running /\ "forward" \notin running /\ "dns" \in Lookup
        /\ running' = running \ {"reverse"}
        /\ "dns" \notin got \cup partials
    BY <1>10, <1>14 DEF EnrichReverse, EnrichInv, BranchInv, Lookup
  <2>2. CASE PartialFailures({"dns"}) /\ UNCHANGED got
    <3>1. StatsInv'
      BY <1>8, <2>1, <2>2
    <3>2. BranchInv'
      BY <2>1, <2>2, OtherLookups DEF EnrichInv, BranchInv, PartialFailures
    <3>3. QED
      BY <3>1, <3>2 DEF EnrichInv
  <2>3. CASE got' = got \cup {"dns"} /\ UNCHANGED <<partials, stats>>
    <3>1. StatsInv'
      BY <1>0, <1>9, <2>1, <2>3
    <3>2. BranchInv'
      BY <2>1, <2>3, OtherLookups DEF EnrichInv, BranchInv
    <3>3. QED
      BY <3>1, <3>2 DEF EnrichInv
  <2>4. QED
    BY <1>14, <2>2, <2>3 DEF EnrichReverse
<1>15. CASE EnrichRecords
  <2>1. /\ pc = "enrich" /\ pc' = "enrich" /\ UNCHANGED <<current, skip_tech>>
        /\ "records" \in running /\ running \cap DnsFirst = {}
        /\ running' = running \ {"records"}
    BY <1>10, <1>15 DEF EnrichRecords
  <2>2. PICK found, failed \in SUBSET RecordType :
          /\ found \cap failed = {}
          /\ got' = got \cup found
          /\ PartialFailures(failed)
    BY <1>15 DEF EnrichRecords
  <2>3. /\ failed \in SUBSET Lookup /\ failed \cap partials = {}
        /\ found \cap partials = {} /\ failed \cap got = {}
    BY <2>1 DEF Lookup, EnrichInv, BranchInv
  <2>4. StatsInv'
    BY <1>8, <2>1, <2>2, <2>3
  <2>5. partials' = partials \cup failed
    BY <2>2 DEF PartialFailures
  <2>6. /\ "tls" \notin found \cup failed /\ "dns" \notin found \cup failed
        /\ "geo" \notin found \cup failed /\ "tech" \notin found \cup failed
    BY OtherLookups
  <2>7. BranchInv'
    BY <2>1, <2>2, <2>3, <2>5, <2>6 DEF EnrichInv, BranchInv, DnsFirst
  <2>8. QED
    BY <2>4, <2>7 DEF EnrichInv
<1>16. CASE EnrichFavicon \/ EnrichScripts \/ EnrichWellKnown
  <2>1. PICK b \in {"favicon", "scripts", "well_known"} :
          /\ pc = "enrich" /\ pc' = "enrich" /\ UNCHANGED <<current, skip_tech>>
          /\ running' = running \ {b} /\ UNCHANGED <<got, partials, stats>>
    BY <1>10, <1>16 DEF EnrichFavicon, EnrichScripts, EnrichWellKnown, BestEffort
  <2>2. BranchInv'
    BY <2>1 DEF EnrichInv, BranchInv
  <2>3. QED
    BY <1>0, <1>9, <2>1, <2>2 DEF EnrichInv
<1>17. CASE Supplement
  <2>1. /\ pc = "enrich" /\ pc' = "prepare" /\ running = {}
        /\ UNCHANGED <<current, skip_tech, running, partials, stats>>
        /\ got' = got \/ (~skip_tech /\ got' = got \cup {"tech"})
    BY <1>17 DEF Supplement, fetchVars
  <2>2. BranchInv'
    BY <2>1, OtherLookups DEF EnrichInv, BranchInv
  <2>3. QED
    BY <1>0, <1>9, <2>1, <2>2 DEF EnrichInv
<1>18. CASE Prepare
  <2>1. /\ pc = "prepare" /\ pc' = "persist"
        /\ UNCHANGED <<current, skip_tech, running, partials, stats>>
        /\ got' = got \/ ("dns" \in got /\ got' = got \cup {"geo"})
    BY <1>18 DEF Prepare, fetchVars
  <2>2. BranchInv'
    BY <2>1, OtherLookups DEF EnrichInv, BranchInv
  <2>3. QED
    BY <1>0, <1>9, <2>1, <2>2 DEF EnrichInv
<1>19. CASE Persist
  <2>1. UNCHANGED stats
    BY <1>19 DEF Persist
  <2>2. CASE pc' = "stored"
    BY <1>0, <1>2, <2>1, <2>2
  <2>3. CASE Fail(Plain("database"))
    BY <1>5, <2>1, <2>3
  <2>4. QED
    BY <1>19, <2>2, <2>3 DEF Persist
<1>20. CASE Return \/ RecordFailure \/ Timeout \/ Cancel \/ Abort
  <2>1. pc' \in {"returned", "dropped"}
    BY <1>20 DEF Return, RecordFailure, Timeout, Cancel, Abort
  <2>2. stats' \in [Stat -> Nat]
    BY <1>0, <1>20, CountEffect DEF Return, RecordFailure, Timeout, Cancel, Abort
  <2>3. QED
    BY <1>2, <2>1, <2>2
<1>21. CASE ExecuteWithRetry
  <2>1. UNCHANGED stats /\ pc = "error"
        /\ (pc' = "failed" \/ (pc' = "sleep" /\ is_retriable_error(error)))
    BY <1>21 DEF ExecuteWithRetry
  <2>2. QED
    BY <1>0, <2>1 DEF EnrichInv, StatsInv, BranchInv, CountedAs
<1>22. CASE UNCHANGED vars
  BY <1>22 DEF vars, fetchVars, enrichVars, EnrichInv, StatsInv, BranchInv, CountedAs,
       is_retriable_error
<1>23. QED
  BY <1>3, <1>4, <1>6, <1>7, <1>11, <1>12, <1>13, <1>14, <1>15, <1>16, <1>17, <1>18,
     <1>19, <1>20, <1>21, <1>22 DEF Next, Step

-----------------------------------------------------------------------------

(* An error on its way to the failure row: it carries no context or that   *)
(* of the attempt that ended with it, and it carries the latter when a     *)
(* server answered.  No failure row is written before the task has ended.  *)
ErrorInv ==
    /\ pc \in {"error", "failed"} =>
         /\ error.context \in {NoContext, Context}
         /\ error.kind \in Failing =>
              error.context = Context /\ chain # <<>> /\ chain[Len(chain)][1] = current
    /\ pc \notin {"returned", "dropped"} => failure = None

LEMMA PlainError ==
    ASSUME NEW k, k \notin Failing
    PROVE  /\ Plain(k).context = NoContext /\ Plain(k).kind = k
           /\ NoContext \in {NoContext, Context'}
  BY DEF Plain

LEMMA ErrorStep == ErrorInv /\ ChainInv /\ [Next]_vars => ErrorInv'
<1> SUFFICES ASSUME ErrorInv, ChainInv, [Next]_vars PROVE ErrorInv'
  OBVIOUS
<1> USE DEF fetchVars, rowVars
<1>1. ASSUME pc' \notin {"error", "failed", "returned", "dropped"},
             pc \notin {"returned", "dropped"}, UNCHANGED failure
      PROVE  ErrorInv'
  BY <1>1 DEF ErrorInv
<1>2. ASSUME pc' \in {"returned", "dropped"} PROVE ErrorInv'
  BY <1>2 DEF ErrorInv
<1>3. ASSUME NEW k, k \notin Failing, Fail(Plain(k)),
             pc \notin {"returned", "dropped"}, UNCHANGED failure
      PROVE  ErrorInv'
  BY <1>3, PlainError DEF ErrorInv, Fail
<1>4. CASE Attempt
  <2>1. pc = "attempt" /\ UNCHANGED failure
    BY <1>4 DEF Attempt
  <2>2. CASE pc' = "hop"
    BY <1>1, <2>1, <2>2
  <2>3. CASE Fail(Plain("unsafe"))
    BY <1>3, <2>1, <2>3 DEF Failing
  <2>4. QED
    BY <1>4, <2>2, <2>3 DEF Attempt, StartChain
<1>5. CASE HopFails \/ HopUnparsable
  <2>1. pc = "hop" /\ UNCHANGED failure
    BY <1>5 DEF HopFails, HopUnparsable, HopAnswers
  <2>2. PICK k : k \in Transport \cup {"parse"} /\ Fail(Plain(k))
    BY <1>5 DEF HopFails, HopUnparsable
  <2>3. QED
    BY <1>3, <2>1, <2>2 DEF Transport, Failing
<1>6. CASE HopFinal \/ HopFollows \/ HopStops \/ Resolved \/ FallbackAnswers \/ StatusAccepted
           \/ EnrichTech \/ EnrichTls \/ EnrichForward \/ EnrichReverse
           \/ EnrichRecords \/ EnrichFavicon \/ EnrichScripts \/ EnrichWellKnown
           \/ Supplement \/ Prepare \/ Wake
  <2>1. /\ pc' \notin {"error", "failed", "returned", "dropped"}
        /\ pc \notin {"returned", "dropped"} /\ UNCHANGED failure
    BY <1>6 DEF HopFinal, HopFollows, HopStops, HopAnswers, Resolved, FallbackAnswers,
         StatusAccepted, EnrichTech, EnrichTls, EnrichForward, EnrichReverse,
         EnrichRecords, EnrichFavicon, EnrichScripts, EnrichWellKnown, BestEffort,
         Enriching, Supplement, Prepare, Wake
  <2>2. QED
    BY <1>1, <2>1
<1>7. CASE FallbackFails
  <2>1. pc = "fallback" /\ UNCHANGED <<failure, current, chain>>
    BY <1>7 DEF FallbackFails
  <2>2. PICK k \in Transport : Fail(attach_failure_context(k, Context))
    BY <1>7 DEF FallbackFails
  <2>3. /\ pc' = "error" /\ error'.kind = k /\ error'.context = Context
    BY <2>2 DEF Fail, attach_failure_context
  <2>4. Context' = Context
    BY <2>1 DEF Context, Urls
  <2>5. QED
    BY <2>1, <2>3, <2>4 DEF ErrorInv, Transport, Failing
<1>8. CASE StatusFails
  <2>1. pc = "classify" /\ UNCHANGED <<failure, current, chain>>
    BY <1>8 DEF StatusFails
  <2>2. Fail(attach_failure_context(response, Context))
    BY <1>8 DEF StatusFails
  <2>3. /\ pc' = "error" /\ error'.context = Context
    BY <2>2 DEF Fail, attach_failure_context
  <2>4. Context' = Context
    BY <2>1 DEF Context, Urls
  <2>5. chain # <<>> /\ chain[Len(chain)][1] = current
    BY <2>1 DEF ChainInv, Fetched, ChainEnds
  <2>6. QED
    BY <2>1, <2>3, <2>4, <2>5 DEF ErrorInv
<1>9. CASE Extract
  <2>1. pc = "extract" /\ UNCHANGED failure
    BY <1>9 DEF Extract
  <2>2. CASE Fail(Plain("domain"))
    BY <1>3, <2>1, <2>2 DEF Failing
  <2>3. CASE pc' \in {"returned", "parse"}
    BY <1>1, <1>2, <2>1, <2>3
  <2>4. QED
    BY <1>9, <2>2, <2>3 DEF Extract
<1>10. CASE Parse
  <2>1. pc = "parse" /\ UNCHANGED failure
    BY <1>10 DEF Parse
  <2>2. CASE Fail(Plain("html"))
    BY <1>3, <2>1, <2>2 DEF Failing
  <2>3. CASE pc' = "enrich"
    BY <1>1, <2>1, <2>3
  <2>4. QED
    BY <1>10, <2>2, <2>3 DEF Parse
<1>11. CASE Persist
  <2>1. pc = "persist" /\ UNCHANGED failure
    BY <1>11 DEF Persist
  <2>2. CASE Fail(Plain("database"))
    BY <1>3, <2>1, <2>2 DEF Failing
  <2>3. CASE pc' = "stored"
    BY <1>1, <2>1, <2>3
  <2>4. QED
    BY <1>11, <2>2, <2>3 DEF Persist
<1>12. CASE Return \/ RecordFailure \/ Timeout \/ Cancel \/ Abort
  BY <1>2, <1>12 DEF Return, RecordFailure, Timeout, Cancel, Abort
<1>13. CASE ExecuteWithRetry
  <2>1. /\ pc = "error" /\ pc' \in {"failed", "sleep"}
        /\ UNCHANGED <<current, chain, error, failure>>
    BY <1>13 DEF ExecuteWithRetry
  <2>2. Context' = Context
    BY <2>1 DEF Context, Urls
  <2>3. QED
    BY <2>1, <2>2 DEF ErrorInv
<1>14. CASE UNCHANGED vars
  <2>1. UNCHANGED <<pc, current, chain, error, failure>>
    BY <1>14 DEF vars
  <2>2. Context' = Context
    BY <2>1 DEF Context, Urls
  <2>3. QED
    BY <2>1, <2>2 DEF ErrorInv
<1>15. QED
  BY <1>4, <1>5, <1>6, <1>7, <1>8, <1>9, <1>10, <1>11, <1>12, <1>13, <1>14 DEF Next, Step

(* A row exists only once it is stored.                                    *)
RowLast == row # None => pc \in {"stored", "returned", "dropped"}

LEMMA RowLastStep == RowLast /\ [Next]_vars => RowLast'
<1> SUFFICES ASSUME RowLast, [Next]_vars PROVE RowLast'
  OBVIOUS
<1> USE DEF RowLast, rowVars
<1>1. CASE Within /\ ~Persist /\ ~Return
  <2>1. UNCHANGED row /\ pc \notin {"stored", "returned", "dropped"}
    BY <1>1 DEF Within, HopFails, HopFinal, HopFollows, HopStops, HopUnparsable, HopAnswers,
         Resolved, FallbackFails, FallbackAnswers, StatusFails, StatusAccepted, Extract,
         Parse, EnrichTech, EnrichTls, EnrichForward, EnrichReverse, EnrichRecords,
         EnrichFavicon, EnrichScripts, EnrichWellKnown, BestEffort, Enriching,
         Supplement, Prepare
  <2>2. QED
    BY <2>1
<1>2. CASE Persist \/ Return
  BY <1>2 DEF Persist, Return, Fail
<1>3. CASE Attempt \/ ExecuteWithRetry \/ Wake \/ RecordFailure \/ Timeout \/ Cancel \/ Abort
  BY <1>3 DEF Attempt, ExecuteWithRetry, Wake, RecordFailure, Timeout, Cancel, Abort
<1>4. CASE UNCHANGED vars
  BY <1>4 DEF vars
<1>5. QED
  BY <1>1, <1>2, <1>3, <1>4 DEF Next, Step, Within

RowInv == RowLast /\ RowTellsOneAttempt /\ RowGapsExplained /\ StatsMatchRow

LEMMA RowStep ==
    FetchTyped /\ ChainInv /\ EnrichInv /\ RowInv /\ [Next]_vars => RowInv'
<1> SUFFICES ASSUME FetchTyped, ChainInv, EnrichInv, RowInv, [Next]_vars PROVE RowInv'
  OBVIOUS
<1> USE DEF taskVars, fetchVars, enrichVars, rowVars
<1>1. RowLast'
  BY RowLastStep DEF RowInv
(* Once there is a row, only steps that end the task are left.             *)
<1>2. ASSUME row # None, UNCHANGED <<row, url, skip_tech>>,
             \A k \in Lookup : stats'[k] = stats[k]
      PROVE  RowInv'
  <2>1. RowTellsOneAttempt' /\ RowGapsExplained' /\ StatsMatchRow'
    BY <1>2 DEF RowInv, RowTellsOneAttempt, RowGapsExplained, StatsMatchRow
  <2>2. QED
    BY <1>1, <2>1 DEF RowInv
<1>3. ASSUME row' = None PROVE RowInv'
  BY <1>1, <1>3 DEF RowInv, RowTellsOneAttempt, RowGapsExplained, StatsMatchRow
<1>4. CASE Persist /\ row' # row
  <2>1. /\ pc = "persist" /\ UNCHANGED <<url, skip_tech, stats>>
        /\ row' = [final_url |-> current, chain |-> chain, status |-> response,
                   elapsed |-> elapsed, got |-> got, partials |-> partials]
    BY <1>4 DEF Persist
  <2>2. /\ row'.final_url = current /\ row'.chain = chain /\ row'.status = response
        /\ row'.elapsed = elapsed /\ row'.got = got /\ row'.partials = partials
    BY <2>1
  <2>3. ChainEnds /\ Answered(elapsed)
    BY <2>1 DEF ChainInv, Fetched, Accepted
  <2>4. RowTellsOneAttempt'
    BY <2>1, <2>2, <2>3 DEF RowTellsOneAttempt, ChainEnds, Answered, Redirects
  <2>5. RowGapsExplained'
    BY <2>1, <2>2 DEF RowGapsExplained, EnrichInv, BranchInv, Enriched
  <2>6. StatsMatchRow'
    BY <2>1, <2>2 DEF StatsMatchRow, EnrichInv, StatsInv, CountedAs, Enriched
  <2>7. QED
    BY <1>1, <2>4, <2>5, <2>6 DEF RowInv
<1>5. CASE row = None /\ ~(Persist /\ row' # row)
  <2>1. row' = row
    <3>1. CASE Persist
      BY <1>5, <3>1
    <3>2. CASE UNCHANGED vars
      BY <3>2 DEF vars
    <3>3. CASE Next /\ ~Persist
      BY <3>3 DEF Next, Step, Attempt, HopFails, HopFinal, HopFollows, HopStops,
         HopUnparsable, HopAnswers,
         Resolved, FallbackFails, FallbackAnswers, StatusFails, StatusAccepted, Extract,
         Parse, EnrichTech, EnrichTls, EnrichForward, EnrichReverse, EnrichRecords,
         EnrichFavicon, EnrichScripts, EnrichWellKnown, BestEffort, Enriching,
         Supplement, Prepare, Return, ExecuteWithRetry, Wake, RecordFailure, Timeout, Cancel,
         Abort
    <3>4. QED
      BY <3>1, <3>2, <3>3
  <2>2. QED
    BY <1>3, <1>5, <2>1
<1>6. CASE row # None
  <2>1. pc \in {"stored", "returned", "dropped"}
    BY <1>6 DEF RowInv, RowLast
  <2>2. Return \/ Timeout \/ Cancel \/ Abort \/ UNCHANGED vars
    BY <2>1 DEF Next, Step, Attempt, HopFails, HopFinal, HopFollows, HopStops,
         HopUnparsable, HopAnswers,
         Resolved, FallbackFails, FallbackAnswers, StatusFails, StatusAccepted, Extract,
         Parse, EnrichTech, EnrichTls, EnrichForward, EnrichReverse, EnrichRecords,
         EnrichFavicon, EnrichScripts, EnrichWellKnown, BestEffort, Enriching,
         Supplement, Prepare, Persist, ExecuteWithRetry, Wake, RecordFailure
  <2>3. UNCHANGED <<row, url, skip_tech>>
    BY <2>2 DEF Return, Timeout, Cancel, Abort, vars
  <2>4. \A k \in Lookup : stats'[k] = stats[k]
    <3>1. CASE Timeout \/ Cancel
      BY <3>1, CountEffect, OtherLookups DEF Timeout, Cancel, EnrichInv, StatsInv
    <3>2. CASE Return \/ Abort \/ UNCHANGED vars
      BY <3>2 DEF Return, Abort, vars
    <3>3. QED
      BY <2>2, <3>1, <3>2
  <2>5. QED
    BY <1>2, <1>6, <2>3, <2>4
<1>7. QED
  BY <1>4, <1>5, <1>6 DEF RowInv

LEMMA FailureRowStep ==
    FetchTyped /\ ErrorInv /\ RetryInv /\ FailureRowFaithful /\ [Next]_vars
        => FailureRowFaithful'
<1> SUFFICES ASSUME FetchTyped, ErrorInv, RetryInv, FailureRowFaithful, [Next]_vars,
                    pc' = "returned", failure' # None
             PROVE  /\ failure'.retry_count = retried'
                    /\ failure'.context \in {NoContext, Context'}
                    /\ error'.kind \in Failing =>
                         /\ failure'.context.final_url = chain'[Len(chain')][1]
                         /\ Len(failure'.context.redirect_chain) = Len(chain')
  BY DEF FailureRowFaithful, NoContext
<1> USE DEF taskVars, fetchVars, enrichVars, rowVars
<1>1. CASE RecordFailure
  <2>1. /\ pc = "failed" /\ UNCHANGED <<error, chain, current, retried>>
        /\ failure' = [retry_count |-> attempt_count - 1, context |-> error.context]
    BY <1>1 DEF RecordFailure
  <2>2. failure'.retry_count = attempt_count - 1 /\ failure'.context = error.context
    BY <2>1
  <2>3. attempt_count = retried + 1 /\ retried \in Nat
    BY <2>1 DEF RetryInv, AttemptsCounted, CountersTyped, Ready
  <2>4. Context' = Context
    BY <2>1 DEF Context, Urls
  <2>5. error.context \in {NoContext, Context}
    BY <2>1 DEF ErrorInv
  <2>6. ASSUME error.kind \in Failing
        PROVE  /\ error.context.final_url = chain[Len(chain)][1]
               /\ Len(error.context.redirect_chain) = Len(chain)
    <3>1. error.context = Context /\ chain[Len(chain)][1] = current
      BY <2>1, <2>6 DEF ErrorInv
    <3>2. Context.final_url = current /\ Context.redirect_chain = Urls(chain)
      BY DEF Context
    <3>3. Len(Urls(chain)) = Len(chain)
      BY DEF Urls, FetchTyped
    <3>4. QED
      BY <3>1, <3>2, <3>3
  <2>7. QED
    BY <2>1, <2>2, <2>3, <2>4, <2>5, <2>6
<1>2. CASE UNCHANGED vars
  <2>1. UNCHANGED <<pc, error, chain, current, retried, failure>>
    BY <1>2 DEF vars
  <2>2. Context' = Context
    BY <2>1 DEF Context, Urls
  <2>3. QED
    BY <2>1, <2>2 DEF FailureRowFaithful
<1>3. CASE Extract \/ Return
  <2>1. pc \in {"extract", "stored"} /\ UNCHANGED failure
    BY <1>3 DEF Extract, Return
  <2>2. QED
    BY <2>1 DEF ErrorInv
<1>4. CASE Next /\ ~RecordFailure /\ ~Extract /\ ~Return
  <2>1. pc' # "returned"
    BY <1>4 DEF Next, Step, Attempt, StartChain, Fail, HopFails, HopFinal, HopFollows, HopStops,
         HopUnparsable, HopAnswers,
         Resolved, FallbackFails, FallbackAnswers, StatusFails, StatusAccepted,
         Parse, EnrichTech, EnrichTls, EnrichForward, EnrichReverse, EnrichRecords,
         EnrichFavicon, EnrichScripts, EnrichWellKnown, BestEffort, Enriching,
         Supplement, Prepare, Persist, ExecuteWithRetry, Wake, Timeout, Cancel, Abort
  <2>2. QED
    BY <2>1
<1>5. QED
  BY <1>1, <1>2, <1>3, <1>4

(* The rows of a task are faithful for every page, chain and number of     *)
(* retries: the stored row tells the attempt that succeeded and no other,  *)
(* with the time of its own requests only; what it lacks is a counted      *)
(* partial failure; and a failure row tells the last attempt (process.rs,  *)
(* tls_dns.rs, storage/failure/record.rs).                                 *)
THEOREM TaskRowsFaithful == Spec => []RowsFaithful
<1> DEFINE IInv == /\ FetchTyped /\ ChainInv /\ AcceptInv /\ EnrichInv /\ ErrorInv
                   /\ RetryInv /\ RowInv /\ FailureRowFaithful
<1>1. Init => IInv
  <2> SUFFICES ASSUME Init PROVE IInv
    OBVIOUS
  <2>1. FetchTyped /\ ChainInv /\ AcceptInv /\ ErrorInv
    BY DEF Init, FetchTyped, ChainInv, AcceptInv, ErrorInv, Fetched, Accepted
  <2>2. EnrichInv
    BY DEF Init, EnrichInv, StatsInv, BranchInv, CountedAs, Stat, Enriched
  <2>3. RowInv /\ FailureRowFaithful
    BY DEF Init, RowInv, RowLast, RowTellsOneAttempt, RowGapsExplained, StatsMatchRow,
           FailureRowFaithful
  <2>4. RetryInv
    BY RetryAssumption
    DEF Init, RetryInv, CountersTyped, AttemptsCounted, GivesUpOnce, Ready, Final
  <2>5. QED
    BY <2>1, <2>2, <2>3, <2>4
<1>2. IInv /\ [Next]_vars => IInv'
  BY FetchTypedStep, ChainStep, AcceptStep, EnrichStep, ErrorStep, RetryStep, RowStep,
     FailureRowStep
<1>3. IInv => RowsFaithful
  BY DEF RowsFaithful, RowInv
<1>4. QED
  BY <1>1, <1>2, <1>3, PTL DEF Spec
=============================================================================
