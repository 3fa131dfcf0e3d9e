---------------------------- MODULE ProcessUrl ----------------------------
(***************************************************************************)
(* What one task does with one URL: process_url and its retry loop, the    *)
(* resolution of redirects, the request, the response, the enrichment      *)
(* branches that run concurrently, the record and its insertion, and the   *)
(* failure row.  The scan around it is module ScanRun; the transactions of *)
(* the insertion are module UrlStore.                                      *)
(*                                                                         *)
(* A step is what happens between two await points.  The whole future may  *)
(* be dropped at any of them: the task wraps it in a timeout and in a      *)
(* select with the cancellation token.                                     *)
(***************************************************************************)
EXTENDS Naturals, Sequences, FiniteSets

CONSTANTS
    Url,                \* the URLs that occur
    Https,              \* those with the scheme https
    Safe,               \* those validate_url_safe accepts
    RecordType,         \* NS, TXT, MX, ...: the additional DNS lookups
    MAX_REDIRECT_HOPS,
    RETRY_MAX_ATTEMPTS, \* the number of delays the retry strategy yields
    BACKOFF,            \* one sleep, in units of one request
    None

ASSUME UrlAssumption == Https \subseteq Url /\ Safe \subseteq Url
ASSUME HopsAssumption == MAX_REDIRECT_HOPS \in Nat \ {0}
ASSUME RetryAssumption == RETRY_MAX_ATTEMPTS \in Nat \ {0}
ASSUME BackoffAssumption == BACKOFF \in Nat \ {0}

VARIABLES
    url,           \* the URL of the task
    pc,            \* where the future is suspended
    attempt_count, \* attempts begun
    delays,        \* delays left in the retry strategy
    retried,       \* what the task added to the retry metric
    nonRetriable,  \* what it added to the metric of non-retriable failures
    age,           \* time since start_time
    current,       \* the URL fetched last or to be fetched next
    chain,         \* redirect_chain: pairs of a URL and the status it answered
    response,      \* status of the response at hand, None without one
    elapsed,       \* the time handed to handle_response
    error,         \* the error operation() returned
    running,       \* enrichment branches not finished
    got,           \* what the enrichment has found
    partials,      \* partial_failures
    skip_tech,     \* the page is a challenge interstitial
    stats,         \* what the task added to error_stats
    row,           \* the url_status row with its satellites
    failure        \* the url_failures row

taskVars == <<url, attempt_count, delays, retried, nonRetriable>>
fetchVars == <<age, current, chain, response, elapsed>>
enrichVars == <<running, got, partials, skip_tech>>
rowVars == <<row, failure>>
vars == <<taskVars, fetchVars, enrichVars, rowVars, pc, error, stats>>

-----------------------------------------------------------------------------

(* Statuses, by what the code does with them: ok stands for every status   *)
(* that has no treatment of its own.                                       *)
Failing == {"429", "5xx"}
Status == Failing \cup {"ok", "403", "redirect"}

(* The branches joined by parallel_enrich; the DNS branch is itself a join *)
(* (tls beside forward and reverse) followed by the additional records.    *)
DnsFirst == {"tls", "forward", "reverse"}
Branch == DnsFirst \cup {"tech", "records", "favicon", "scripts", "well_known"}

Lookup == {"tls", "dns"} \cup RecordType
Stat == Lookup \cup {"http", "tech", "timeout", "cancelled", "HttpRedirect", "HttpsRedirect",
                     "MultipleRedirects", "BotDetection403"}
Piece == Lookup \cup {"tech", "geo"}

(* The record types are none of the other things that are looked up or     *)
(* counted, and None stands for no response, not for a status.             *)
Other == {"tls", "dns", "geo", "http", "tech", "timeout", "cancelled", "HttpRedirect", "HttpsRedirect",
          "MultipleRedirects", "BotDetection403"}
ASSUME RecordAssumption == RecordType \cap Other = {}
ASSUME NoneAssumption == None \notin Status

Transport == {"transient", "permanent"}
ErrorKind == Transport \cup Failing \cup {"unsafe", "parse", "domain", "html", "database"}

NoContext == [final_url |-> None, redirect_chain |-> <<>>]
Urls(c) == [i \in 1..Len(c) |-> c[i][1]]
Context == [final_url |-> current, redirect_chain |-> Urls(chain)]

Plain(k) == [kind |-> k, context |-> NoContext, wrapped |-> FALSE]
(* attach_failure_context makes FailureContextError the root of the chain  *)
(* and the original error a mere context value, which chain() never visits *)
attach_failure_context(k, ctx) == [kind |-> k, context |-> ctx, wrapped |-> TRUE]

(* What reqwest says of its own errors.                                    *)
is_retriable(k) == k \in {"transient"} \cup Failing

(* Mutated form: errors are retried unless they are known to be permanent. *)
RetriableByDefault(e) == e.kind \notin {"permanent", "parse"}

(* Walks error.chain() for a reqwest::Error and asks it; any other error,  *)
(* and a reqwest::Error that is not in the chain, is not retriable.        *)
is_retriable_error(e) == ~e.wrapped /\ is_retriable(e.kind)

Count(s) == stats' = [k \in Stat |-> IF k \in s THEN stats[k] + 1 ELSE stats[k]]

-----------------------------------------------------------------------------

Init ==
    /\ url \in Url
    /\ pc = "attempt"
    /\ attempt_count = 0 /\ delays = RETRY_MAX_ATTEMPTS
    /\ retried = 0 /\ nonRetriable = 0
    /\ age = 0 /\ current = url /\ chain = <<>> /\ response = None /\ elapsed = 0
    /\ error = None
    /\ running = {} /\ got = {} /\ partials = {} /\ skip_tech = FALSE
    /\ stats = [k \in Stat |-> 0]
    /\ row = None /\ failure = None

(* The operation returns an error to execute_with_retry.                   *)
Fail(e) == pc' = "error" /\ error' = e

(* resolve_redirect_chain validates the initial URL before any request.    *)
StartChain ==
    /\ current' = url /\ chain' = <<>> /\ response' = None
    /\ \/ url \in Safe /\ pc' = "hop" /\ UNCHANGED error
       \/ url \notin Safe /\ Fail(Plain("unsafe"))

(* Mutated form: start_time is taken once, before the retry loop.          *)
AttemptKeepsStart ==
    /\ pc = "attempt"
    /\ attempt_count' = attempt_count + 1
    /\ StartChain
    /\ UNCHANGED <<url, delays, retried, nonRetriable, age, elapsed, enrichVars, rowVars, stats>>

(* execute_with_retry calls the closure: it takes start_time and enters    *)
(* handle_http_request, which resolves redirects first.                    *)
Attempt ==
    /\ pc = "attempt"
    /\ attempt_count' = attempt_count + 1
    /\ age' = 0
    /\ StartChain
    /\ UNCHANGED <<url, delays, retried, nonRetriable, elapsed, enrichVars, rowVars, stats>>

-----------------------------------------------------------------------------
(* resolve_redirect_chain                                                  *)

(* Mutated form: an inner retry starts the chain over.                     *)
HopStartsOver ==
    /\ pc = "hop"
    /\ age' = 0 /\ current' = url /\ chain' = <<>>
    /\ UNCHANGED <<taskVars, response, elapsed, enrichVars, rowVars, stats, pc, error>>

(* send() of a hop fails; ? hands the bare reqwest::Error up.              *)
HopFails ==
    /\ pc = "hop"
    /\ age' = age + 1
    /\ \E k \in Transport : Fail(Plain(k))
    /\ UNCHANGED <<taskVars, current, chain, response, elapsed, enrichVars, rowVars, stats>>

(* The hop answers with status s, which is recorded in the chain.          *)
HopAnswers(s) ==
    /\ pc = "hop"
    /\ age' = age + 1
    /\ chain' = Append(chain, <<current, s>>)
    /\ UNCHANGED <<taskVars, elapsed, enrichVars, rowVars, stats>>

validate_redirect_target(target) ==
    /\ ~(url \in Https /\ target \notin Https)
    /\ target \in Safe

(* Not a redirect: the response is kept for the caller.                    *)
HopFinal ==
    /\ \E s \in Status \ {"redirect"} : HopAnswers(s) /\ response' = s
    /\ pc' = "resolved"
    /\ UNCHANGED <<current, error>>

(* A redirect to a valid target that is not the last hop allowed.          *)
HopFollows ==
    /\ HopAnswers("redirect")
    /\ Len(chain) + 1 < MAX_REDIRECT_HOPS
    /\ \E target \in Url : validate_redirect_target(target) /\ current' = target
    /\ UNCHANGED <<response, error, pc>>

(* Mutated form: the chain ends at the Location that was not fetched.      *)
HopStopsAtTarget ==
    /\ HopAnswers("redirect")
    /\ \E location \in Url :
         /\ ~validate_redirect_target(location) \/ Len(chain) + 1 = MAX_REDIRECT_HOPS
         /\ current' = location
    /\ pc' = "resolved"
    /\ UNCHANGED <<response, error>>

(* A redirect that is not followed: no usable Location (None), a blocked   *)
(* target, or the last hop.  The chain ends at the URL fetched last and    *)
(* there is no response to reuse.                                          *)
HopStops ==
    /\ HopAnswers("redirect")
    /\ \E location \in Url \cup {None} :
         \/ location = None
         \/ ~validate_redirect_target(location)
         \/ Len(chain) + 1 = MAX_REDIRECT_HOPS
    /\ pc' = "resolved"
    /\ UNCHANGED <<current, response, error>>

(* A Location that is neither absolute nor relative: url::ParseError.      *)
HopUnparsable ==
    /\ HopAnswers("redirect")
    /\ Fail(Plain("parse"))
    /\ UNCHANGED <<current, response>>

-----------------------------------------------------------------------------
(* handle_http_request                                                     *)

(* Redirect metrics, then either the kept response or a fresh request.     *)
Resolved ==
    /\ pc = "resolved"
    /\ Count({k \in {"HttpRedirect", "HttpsRedirect", "MultipleRedirects"} :
                /\ Len(chain) > 1
                /\ k = "HttpsRedirect" => url \notin Https /\ current \in Https
                /\ k = "MultipleRedirects" => Len(chain) > 2})
    /\ pc' = IF response = None THEN "fallback" ELSE "classify"
    /\ UNCHANGED <<taskVars, fetchVars, enrichVars, rowVars, error>>

FallbackFails ==
    /\ pc = "fallback"
    /\ age' = age + 1
    /\ Count({"http"})
    /\ \E k \in Transport : Fail(attach_failure_context(k, Context))
    /\ UNCHANGED <<taskVars, current, chain, response, elapsed, enrichVars, rowVars>>

(* The client follows no redirect: any status may come back, a redirect    *)
(* too, and it need not be the one the chain recorded.                     *)
FallbackAnswers ==
    /\ pc = "fallback"
    /\ age' = age + 1
    /\ response' \in Status
    /\ pc' = "classify"
    /\ UNCHANGED <<taskVars, current, chain, elapsed, enrichVars, rowVars, stats, error>>

StatusFails ==
    /\ pc = "classify" /\ response \in Failing
    /\ Count({"http"})
    /\ Fail(attach_failure_context(response, Context))
    /\ UNCHANGED <<taskVars, fetchVars, enrichVars, rowVars>>

StatusAccepted ==
    /\ pc = "classify" /\ response \notin Failing
    /\ Count({"BotDetection403"} \cap {k \in Stat : response = "403"})
    /\ elapsed' = age
    /\ pc' = "extract"
    /\ UNCHANGED <<taskVars, age, current, chain, response, enrichVars, rowVars, error>>

-----------------------------------------------------------------------------
(* handle_response: extract_and_parse                                      *)

(* A URL without a domain fails, a content type that is not text is        *)
(* skipped; a body that cannot be read is an empty body.                   *)
Extract ==
    /\ pc = "extract"
    /\ \/ Fail(Plain("domain"))
       \/ pc' \in {"returned", "parse"} /\ UNCHANGED error
    /\ UNCHANGED <<taskVars, fetchVars, enrichVars, rowVars, stats>>

(* The HTML is parsed on a blocking thread; a JoinError ends the attempt.  *)
Parse ==
    /\ pc = "parse"
    /\ \/ /\ Fail(Plain("html"))
          /\ UNCHANGED enrichVars
       \/ /\ pc' = "enrich"
          /\ skip_tech' \in BOOLEAN
          /\ running' = Branch \ {"reverse"}
          /\ got' = {} /\ partials' = {}
          /\ UNCHANGED error
    /\ UNCHANGED <<taskVars, fetchVars, rowVars, stats>>

-----------------------------------------------------------------------------
(* handle_response: parallel_enrich                                        *)

Enriching(b) ==
    /\ pc = "enrich" /\ b \in running
    /\ UNCHANGED <<taskVars, fetchVars, rowVars, skip_tech, pc, error>>

(* The first pass over the page, unless it is a challenge interstitial; a  *)
(* failure is counted and otherwise means no technologies.                 *)
EnrichTech ==
    /\ Enriching("tech")
    /\ running' = running \ {"tech"}
    /\ \/ ~skip_tech /\ got' = got \cup {"tech"} /\ UNCHANGED stats
       \/ UNCHANGED <<got, stats>>
       \/ ~skip_tech /\ Count({"tech"}) /\ UNCHANGED got
    /\ UNCHANGED partials

(* A failed lookup is counted and becomes a partial failure.               *)
PartialFailures(s) ==
    /\ partials' = partials \cup s
    /\ Count(s)

(* The certificate, only of an https URL.                                  *)
EnrichTls ==
    /\ Enriching("tls")
    /\ running' = running \ {"tls"}
    /\ \/ current \in Https /\ got' = got \cup {"tls"} /\ UNCHANGED <<partials, stats>>
       \/ current \in Https /\ PartialFailures({"tls"}) /\ UNCHANGED got
       \/ current \notin Https /\ UNCHANGED <<got, partials, stats>>

EnrichForward ==
    /\ Enriching("forward")
    /\ \/ /\ running' = (running \ {"forward"}) \cup {"reverse"}
          /\ UNCHANGED <<partials, stats>>
       \/ /\ running' = running \ {"forward"}
          /\ PartialFailures({"dns"})
    /\ UNCHANGED got

(* The address is kept only when the reverse lookup succeeds too; its      *)
(* failure is reported as one of the forward lookup.                       *)
EnrichReverse ==
    /\ Enriching("reverse")
    /\ running' = running \ {"reverse"}
    /\ \/ got' = got \cup {"dns"} /\ UNCHANGED <<partials, stats>>
       \/ PartialFailures({"dns"}) /\ UNCHANGED got

(* The additional records, once certificate and address are settled: each  *)
(* lookup finds records, finds none, or fails.                             *)
EnrichRecords ==
    /\ Enriching("records")
    /\ running \cap DnsFirst = {}
    /\ running' = running \ {"records"}
    /\ \E found, failed \in SUBSET RecordType :
         /\ found \cap failed = {}
         /\ got' = got \cup found
         /\ PartialFailures(failed)

(* A branch whose only outcomes are data and no data, neither of which any *)
(* other part of the task looks at: timeouts, statuses, sizes and broken   *)
(* bodies all mean that the item is absent.                                *)
BestEffort(b) ==
    /\ Enriching(b)
    /\ running' = running \ {b}
    /\ UNCHANGED <<got, partials, stats>>

EnrichFavicon == BestEffort("favicon")
EnrichScripts == BestEffort("scripts")
EnrichWellKnown == BestEffort("well_known")

(* All branches are joined; late signals may add technologies, and the     *)
(* secrets of scripts and headers are merged.                              *)
Supplement ==
    /\ pc = "enrich" /\ running = {}
    /\ \/ ~skip_tech /\ got' = got \cup {"tech"}
       \/ UNCHANGED got
    /\ pc' = "prepare"
    /\ UNCHANGED <<taskVars, fetchVars, rowVars, running, partials, skip_tech, stats, error>>

(* prepare_record_for_insertion: the GeoIP lookup needs an address.        *)
Prepare ==
    /\ pc = "prepare"
    /\ \/ "dns" \in got /\ got' = got \cup {"geo"}
       \/ UNCHANGED got
    /\ pc' = "persist"
    /\ UNCHANGED <<taskVars, fetchVars, rowVars, running, partials, skip_tech, stats, error>>

(* insert_persisted_url_record; its error is turned into a message.        *)
Persist ==
    /\ pc = "persist"
    /\ \/ /\ row' = [final_url |-> current, chain |-> chain, status |-> response,
                     elapsed |-> elapsed, got |-> got, partials |-> partials]
          /\ pc' = "stored"
          /\ UNCHANGED error
       \/ /\ Fail(Plain("database"))
          /\ UNCHANGED row
    /\ UNCHANGED <<taskVars, fetchVars, enrichVars, failure, stats>>

Return ==
    /\ pc = "stored"
    /\ pc' = "returned"
    /\ UNCHANGED <<taskVars, fetchVars, enrichVars, rowVars, stats, error>>

-----------------------------------------------------------------------------
(* execute_with_retry                                                      *)

(* Mutated form: the retry is counted before a delay is asked for.         *)
RetryCountedFirst ==
    /\ pc = "error"
    /\ IF ~is_retriable_error(error)
         THEN /\ nonRetriable' = nonRetriable + 1
              /\ pc' = "failed"
              /\ UNCHANGED <<delays, retried>>
         ELSE /\ retried' = retried + 1
              /\ \/ delays = 0 /\ pc' = "failed" /\ UNCHANGED delays
                 \/ delays > 0 /\ pc' = "sleep" /\ delays' = delays - 1
              /\ UNCHANGED nonRetriable
    /\ UNCHANGED <<url, attempt_count, fetchVars, enrichVars, rowVars, stats, error>>

(* What becomes of an error: final, out of delays, or one more attempt.    *)
ExecuteWithRetry ==
    /\ pc = "error"
    /\ \/ /\ ~is_retriable_error(error)
          /\ nonRetriable' = nonRetriable + 1
          /\ pc' = "failed"
          /\ UNCHANGED <<delays, retried>>
       \/ /\ is_retriable_error(error) /\ delays = 0
          /\ pc' = "failed"
          /\ UNCHANGED <<delays, retried, nonRetriable>>
       \/ /\ is_retriable_error(error) /\ delays > 0
          /\ delays' = delays - 1
          /\ retried' = retried + 1
          /\ pc' = "sleep"
          /\ UNCHANGED nonRetriable
    /\ UNCHANGED <<url, attempt_count, fetchVars, enrichVars, rowVars, stats, error>>

Wake ==
    /\ pc = "sleep"
    /\ age' = age + BACKOFF
    /\ pc' = "attempt"
    /\ UNCHANGED <<taskVars, current, chain, response, elapsed, enrichVars, rowVars, stats, error>>

(* handle_error records the failure; the insertion itself may fail.        *)
RecordFailure ==
    /\ pc = "failed"
    /\ failure' \in {None, [retry_count |-> attempt_count - 1, context |-> error.context]}
    /\ pc' = "returned"
    /\ UNCHANGED <<taskVars, fetchVars, enrichVars, row, stats, error>>

-----------------------------------------------------------------------------
(* The future is dropped while it is suspended.                            *)

Suspended == pc \in {"hop", "fallback", "extract", "parse", "enrich", "prepare",
                     "persist", "stored", "sleep"}

(* URL_PROCESSING_TIMEOUT: the row has no context and a fixed retry count. *)
Timeout ==
    /\ Suspended
    /\ failure' \in {None, [retry_count |-> RETRY_MAX_ATTEMPTS - 1, context |-> NoContext]}
    /\ Count({"timeout"})
    /\ pc' = "dropped"
    /\ UNCHANGED <<taskVars, fetchVars, enrichVars, row, error>>

(* Ctrl-C: handle_cancelled writes a row that never has a retry count.     *)
Cancel ==
    /\ Suspended
    /\ failure' \in {None, [retry_count |-> 0, context |-> NoContext]}
    /\ Count({"cancelled"})
    /\ pc' = "dropped"
    /\ UNCHANGED <<taskVars, fetchVars, enrichVars, row, error>>

(* abort_all, after the drain deadline.                                    *)
Abort ==
    /\ Suspended
    /\ pc' = "dropped"
    /\ UNCHANGED <<taskVars, fetchVars, enrichVars, rowVars, stats, error>>

Ended == pc \in {"returned", "dropped"}

Step ==
    \/ Attempt
    \/ HopFails \/ HopFinal \/ HopFollows \/ HopStops \/ HopUnparsable
    \/ Resolved \/ FallbackFails \/ FallbackAnswers \/ StatusFails \/ StatusAccepted
    \/ Extract \/ Parse
    \/ EnrichTech \/ EnrichTls \/ EnrichForward \/ EnrichReverse \/ EnrichRecords
    \/ EnrichFavicon \/ EnrichScripts \/ EnrichWellKnown
    \/ Supplement \/ Prepare \/ Persist \/ Return
    \/ ExecuteWithRetry \/ Wake \/ RecordFailure

Next == Step \/ Timeout \/ Cancel \/ Abort

Spec == Init /\ [][Next]_vars

(* The future is polled whenever it can go on, and every await in it ends: *)
(* requests and lookups have timeouts of their own, sleeps end.  Neither   *)
(* the overall timeout nor a cancellation is assumed to happen.            *)
FairSpec == Spec /\ WF_vars(Step)

-----------------------------------------------------------------------------

Row == [final_url : Url, chain : Seq(Url \X Status), status : Status, elapsed : Nat,
        got : SUBSET Piece, partials : SUBSET Lookup]
ContextType == [final_url : Url \cup {None}, redirect_chain : Seq(Url)]

(* Every variable has its type; the chain never outgrows the hops allowed, *)
(* and the attempts never outnumber the delays by more than the first.     *)
TypeOK ==
    /\ url \in Url /\ current \in Url
    /\ pc \in {"attempt", "hop", "resolved", "fallback", "classify", "extract", "parse",
              "enrich", "prepare", "persist", "stored", "error", "sleep", "failed",
              "returned", "dropped"}
    /\ attempt_count \in 0 .. RETRY_MAX_ATTEMPTS + 1
    /\ delays \in 0 .. RETRY_MAX_ATTEMPTS
    /\ retried \in Nat /\ nonRetriable \in {0, 1}
    /\ age \in Nat /\ elapsed \in Nat
    /\ chain \in Seq(Url \X Status) /\ Len(chain) <= MAX_REDIRECT_HOPS
    /\ response \in Status \cup {None}
    /\ error = None \/ error \in [kind : ErrorKind, context : ContextType, wrapped : BOOLEAN]
    /\ running \subseteq Branch /\ got \subseteq Piece /\ partials \subseteq Lookup
    /\ skip_tech \in BOOLEAN
    /\ stats \in [Stat -> Nat]
    /\ row = None \/ row \in Row
    /\ failure = None \/ failure \in [retry_count : Nat, context : ContextType]

(* No request of the page goes to a URL the policy rejects, and none in    *)
(* clear text when the task started on https: not at any hop, and not in   *)
(* the fallback request either, whose URL is the one fetched last even     *)
(* when a blocked redirect ended the chain (redirects.rs, request.rs).     *)
RequestsAllowed ==
    pc \in {"hop", "fallback"} => current \in Safe /\ (url \in Https => current \in Https)

(* The stored row tells what was fetched in the attempt that succeeded:    *)
(* the chain starts at the URL of the task, ends at final_url, only its    *)
(* last entry may be something else than a redirect, and its status is     *)
(* that of the row unless the page had to be requested again.  The stored  *)
(* response time is that of these requests: neither failed attempts nor    *)
(* the backoff between them (the comment on retry timing poisoning in      *)
(* process.rs).                                                            *)
RowTellsOneAttempt ==
    row # None =>
        LET last == row.chain[Len(row.chain)] IN
        /\ row.chain # <<>> /\ row.chain[1][1] = url
        /\ last[1] = row.final_url
        /\ \A i \in 1 .. Len(row.chain) - 1 : row.chain[i][2] = "redirect"
        /\ \/ last[2] = row.status /\ row.elapsed = Len(row.chain)
           \/ last[2] = "redirect" /\ row.elapsed = Len(row.chain) + 1

(* What a row lacks is explained: no address or no certificate of an https *)
(* page without a partial failure, and nothing is both stored and failed.  *)
(* Challenge pages carry no technologies, rows without an address no       *)
(* location.                                                               *)
RowGapsExplained ==
    row # None =>
        /\ row.final_url \in Https => "tls" \in row.got \cup row.partials
        /\ "dns" \in row.got \cup row.partials
        /\ row.got \cap row.partials = {}
        /\ "geo" \in row.got => "dns" \in row.got
        /\ skip_tech => "tech" \notin row.got

(* The error statistics of the scan and the partial failures of the row    *)
(* agree: every failed lookup is counted once and recorded, whatever       *)
(* attempts and branches came before.                                      *)
StatsMatchRow ==
    row # None => \A k \in Lookup : stats[k] = IF k \in row.partials THEN 1 ELSE 0

(* The metrics and the retry count of the failure row agree with what      *)
(* happened, and a task gives up only on a non-retriable error or with no  *)
(* delay left, never both.  A task that keeps failing is tried             *)
(* RETRY_MAX_ATTEMPTS + 1 times: the strategy yields that many delays      *)
(* (categorization.rs:47), although constants.rs:106 counts attempts       *)
(* "(including initial attempt)".                                          *)
RetryAccounting ==
    /\ delays + retried = RETRY_MAX_ATTEMPTS
    /\ attempt_count <= RETRY_MAX_ATTEMPTS + 1
    /\ pc = "failed" =>
         /\ nonRetriable = 0 => attempt_count = RETRY_MAX_ATTEMPTS + 1
         /\ retried = attempt_count - 1
         /\ (nonRetriable = 1) <=> ~is_retriable_error(error)
         /\ nonRetriable = 0 => delays = 0

(* A failure row written when process_url returned an error carries no     *)
(* context or that of the last attempt, and it carries one whenever a      *)
(* server answered with 429 or 5xx (attach and extract_failure_context).   *)
FailureRowFaithful ==
    pc = "returned" /\ failure # None =>
        /\ failure.retry_count = retried
        /\ failure.context \in {NoContext, Context}
        /\ error.kind \in Failing =>
             /\ failure.context.final_url = chain[Len(chain)][1]
             /\ Len(failure.context.redirect_chain) = Len(chain)

(* The rows of a task are faithful: the stored one tells one attempt, its  *)
(* gaps are explained and counted, and a failure row tells the last        *)
(* attempt (process.rs:101, tls_dns.rs:62, storage/failure/record.rs:67).  *)
RowsFaithful ==
    RowTellsOneAttempt /\ RowGapsExplained /\ StatsMatchRow /\ FailureRowFaithful

(* Once a response has been accepted the task never starts over: a page is *)
(* enriched and written at most once, because no error of the later stages *)
(* is retriable.                                                           *)
AcceptedOnce ==
    [][attempt_count' # attempt_count => elapsed = 0]_vars

(* process_url returns or is dropped: redirects and retries are finite.    *)
ProcessEnds == <>Ended

(* request.rs: "Only send to the failure path for 429 (rate limit) and 5xx *)
(* (server error) which should trigger retries": a task that gives up on   *)
(* such an answer has used its retries.                                    *)
ServerErrorsRetried ==
    pc = "failed" /\ error.kind \in Failing => delays = 0

=============================================================================
