---------------------------- MODULE ErrorReport ----------------------------
(***************************************************************************)
(* What a failure is called, how it is counted and how long things took    *)
(* (error_handling, storage/failure, utils/timing.rs, utils/sanitize.rs,   *)
(* and the counts the status server shows), what the rows of a run add up  *)
(* to (summary/mod.rs and the queries of storage/insert/run.rs) and the    *)
(* lines a scan prints about itself (app/logging.rs, app/statistics.rs).   *)
(*                                                                         *)
(* An error is a chain of causes, the outermost first, and the context     *)
(* that downcasting its root finds.  A cause is [class, kind, status, msg, *)
(* words]: its Rust type ("reqwest", "net", "parse", "sqlx" or "text"),    *)
(* what that type says of itself, its message and the words the code looks *)
(* for in it.  runs maps a run's id to its row; the other tables are those *)
(* of UrlRow.  Names of technologies are numbers where their order is      *)
(* asked for.                                                              *)
(***************************************************************************)
EXTENDS UrlRow

CONSTANTS
    MAX_HEADER_VALUE_LENGTH,
    MAX_ERROR_MESSAGE_LENGTH,
    RETRY_INITIAL_DELAY_MS,
    RETRY_FACTOR,
    RETRY_MAX_DELAY_MS,
    RETRY_ATTEMPTS

----------------------------------------------------------------------------
(* error_handling/types.rs and stats.rs.                                   *)

HttpErrors ==
    {"HttpRequestStatusError", "HttpRequestTooManyRequests", "HttpRequestBadRequest", "HttpRequestUnauthorized",
     "HttpRequestNotFound", "HttpRequestInternalServerError", "HttpRequestBadGateway",
     "HttpRequestServiceUnavailable", "HttpRequestGatewayTimeout", "HttpRequestBotDetectionError"}
DnsErrors ==
    {"DnsForwardLookupError", "DnsNsLookupError", "DnsTxtLookupError", "DnsMxLookupError", "DnsCnameLookupError",
     "DnsAaaaLookupError", "DnsCaaLookupError"}
OtherErrors ==
    {"HttpRequestOtherError", "HttpRequestBuilderError", "HttpRequestRedirectError", "HttpRequestRequestError",
     "HttpRequestBodyError", "TechnologyDetectionError"}
ErrorType ==
    HttpErrors \cup DnsErrors \cup OtherErrors
    \cup {"ProcessUrlTimeout", "HttpRequestTimeoutError", "HttpRequestConnectError", "TlsCertificateError",
          "HttpRequestDecodeError", "ScanCancelled", "SatelliteInsertError"}
WarningType == {"MissingMetaDescription", "MissingTitle"}
InfoType == {"HttpRedirect", "HttpsRedirect", "BotDetection403", "MultipleRedirects"}
warning_as_str == [MissingMetaDescription |-> "Missing meta description", MissingTitle |-> "Missing title"]
info_as_str == [HttpRedirect |-> "HTTP redirect", HttpsRedirect |-> "HTTP to HTTPS redirect",
                BotDetection403 |-> "Bot detection (403)", MultipleRedirects |-> "Multiple redirects"]

\* The text a type is stored and printed as.
as_str ==
    [HttpRequestBuilderError |-> "HTTP request builder error", HttpRequestRedirectError |-> "HTTP request redirect error",
     HttpRequestStatusError |-> "HTTP request status error", HttpRequestTimeoutError |-> "HTTP request timeout error",
     HttpRequestRequestError |-> "HTTP request error", HttpRequestConnectError |-> "HTTP request connect error",
     HttpRequestBodyError |-> "HTTP request body error", HttpRequestDecodeError |-> "HTTP request decode error",
     HttpRequestOtherError |-> "HTTP request other error", HttpRequestTooManyRequests |-> "Too many requests",
     HttpRequestBotDetectionError |-> "Bot detection (403 Forbidden)", HttpRequestBadRequest |-> "Bad Request (400)",
     HttpRequestUnauthorized |-> "Unauthorized (401)", HttpRequestNotFound |-> "Not Found (404)",
     HttpRequestInternalServerError |-> "Internal Server Error (500)", HttpRequestBadGateway |-> "Bad Gateway (502)",
     HttpRequestServiceUnavailable |-> "Service Unavailable (503)", HttpRequestGatewayTimeout |-> "Gateway Timeout (504)",
     ProcessUrlTimeout |-> "Process URL timeout", ScanCancelled |-> "Scan cancelled",
     DnsForwardLookupError |-> "DNS forward lookup error", DnsNsLookupError |-> "DNS NS lookup error",
     DnsTxtLookupError |-> "DNS TXT lookup error", DnsMxLookupError |-> "DNS MX lookup error",
     DnsCnameLookupError |-> "DNS CNAME lookup error", DnsAaaaLookupError |-> "DNS AAAA lookup error",
     DnsCaaLookupError |-> "DNS CAA lookup error", TlsCertificateError |-> "TLS certificate error",
     TechnologyDetectionError |-> "Technology detection error", SatelliteInsertError |-> "Satellite insert error"]

\* A map from type to count; it starts at zero.
Increment(counts, type) == [counts EXCEPT ![type] = @ + 1]
Sum(counts, types) == SumFunctionOnSet(counts, types)
total_errors(counts) == Sum(counts, ErrorType)
total_warnings(counts) == Sum(counts, WarningType)
total_info(counts) == Sum(counts, InfoType)

----------------------------------------------------------------------------
(* categorization.rs, reqwest_ext.rs, resolve_ext.rs and utils/retry.rs.   *)

StatusType ==
    400 :> "HttpRequestBadRequest" @@ 401 :> "HttpRequestUnauthorized" @@ 403 :> "HttpRequestBotDetectionError"
    @@ 404 :> "HttpRequestNotFound" @@ 429 :> "HttpRequestTooManyRequests"
    @@ 500 :> "HttpRequestInternalServerError" @@ 502 :> "HttpRequestBadGateway"
    @@ 503 :> "HttpRequestServiceUnavailable" @@ 504 :> "HttpRequestGatewayTimeout"
\* The kinds of a reqwest error, in the order they are asked for; an error may
\* be of several: a failed connection is a failed request as well.
KindType ==
    <<<<"builder", "HttpRequestBuilderError">>, <<"redirect", "HttpRequestRedirectError">>,
      <<"status", "HttpRequestStatusError">>, <<"timeout", "HttpRequestTimeoutError">>,
      <<"request", "HttpRequestRequestError">>, <<"connect", "HttpRequestConnectError">>,
      <<"body", "HttpRequestBodyError">>, <<"decode", "HttpRequestDecodeError">>>>
OfKind(e) ==
    LET hits == {i \in DOMAIN KindType : KindType[i][1] \in e.kind}
    IN IF hits = {} THEN "HttpRequestOtherError" ELSE KindType[Min(hits)][2]
categorize_reqwest_error(e) ==
    CASE e.status \in DOMAIN StatusType -> StatusType[e.status]
      [] e.status # Null /\ e.status \in 400 .. 599 -> "HttpRequestOtherError"
      [] OTHER -> OfKind(e)
is_retriable(e) ==
    CASE e.status = 429 -> TRUE
      [] e.status # Null /\ e.status \in 400 .. 499 -> FALSE
      [] e.status # Null /\ e.status \in 500 .. 599 -> TRUE
      [] OTHER -> e.kind \cap {"timeout", "connect", "request"} # {}

\* The first cause of a class, Null where the chain has none.
FirstCause(error, classes) == FirstOf(SelectSeq(error.chain, LAMBDA c : c.class \in classes))
is_retriable_error(error) ==
    LET c == FirstCause(error, {"reqwest", "parse", "sqlx", "net"})
    IN c # Null /\ (c.class = "net" \/ (c.class = "reqwest" /\ is_retriable(c)))

\* The delays between attempts.
get_retry_strategy ==
    [i \in 1 .. RETRY_ATTEMPTS |->
        LET grown == RETRY_INITIAL_DELAY_MS * RETRY_FACTOR ^ (i - 1)
        IN IF grown > RETRY_MAX_DELAY_MS THEN RETRY_MAX_DELAY_MS ELSE grown]

categorize_resolve_error(c) ==
    CASE "nx_domain" \in c.kind -> "NxDomain"
      [] "no_records" \in c.kind -> "NoRecords"
      [] "timeout" \in c.kind -> "Timeout"
      [] OTHER -> "Other"

----------------------------------------------------------------------------
(* storage/failure: the type, status and message of a failure's row.       *)

\* anyhow's Error::context: a message on top; the causes stay.
Layered(error, msg, words) ==
    [error EXCEPT !.chain = <<[class |-> "text", kind |-> {}, status |-> Null, msg |-> msg, words |-> words]>> \o @]
NoFailureContext == [final_url |-> Null, redirect_chain |-> <<>>, response_headers |-> <<>>]
\* The context's own error becomes the root and the original one its context
\* value: its message stays on top, its causes are no longer in the chain.
attach_failure_context(error, context) ==
    [chain |-> <<[error.chain[1] EXCEPT !.class = "text", !.kind = {}, !.status = Null],
                 [class |-> "text", kind |-> {}, status |-> Null, msg |-> "Request failed", words |-> {}]>>,
     context |-> context]
extract_failure_context(error) == Or(error.context, NoFailureContext)
\* What handle_http_request makes of a refused request and of an answer it treats
\* as a failure: a message that names the URL, then the context.  mentioned are the
\* words that stand in the URL's own text.
RequestFailed(cause, context, mentioned) ==
    attach_failure_context(
        Layered([chain |-> <<cause>>, context |-> Null], "HTTP request failed", {"http"} \cup mentioned), context)

mentions_nameserver_record(words) == {"nameserver", "ns"} \cap words # {}
dns_error_type_from_message(words) ==
    CASE "txt" \in words -> "DnsTxtLookupError"
      [] {"mx", "mail"} \cap words # {} -> "DnsMxLookupError"
      [] mentions_nameserver_record(words) -> "DnsNsLookupError"
      [] OTHER -> "DnsNsLookupError"
TlsWords == {"tls", "ssl", "certificate", "handshake"}
OfReqwest(c) ==
    LET base == categorize_reqwest_error(c)
    IN CASE TlsWords \cap c.words # {} -> "TlsCertificateError"
         [] base \in {"HttpRequestRequestError", "HttpRequestConnectError"} /\ "timeout" \in c.words -> "HttpRequestTimeoutError"
         [] OTHER -> base
OfMessage(words) ==
    CASE "request timeout" \in words \/ {"http", "timeout"} \subseteq words -> "HttpRequestTimeoutError"
      [] "timeout" \in words -> "ProcessUrlTimeout"
      [] "connect" \in words /\ {"dns", "name resolution", "failed to resolve"} \cap words # {} -> "HttpRequestConnectError"
      [] {"dns", "resolve", "failed to resolve", "lookup failed"} \cap words # {} -> dns_error_type_from_message(words)
      [] TlsWords \cap words # {} -> "TlsCertificateError"
      [] OTHER -> "HttpRequestOtherError"
\* A resolver's error anywhere in the chain goes before a request's, and the
\* outermost message is read only where there is neither.
extract_error_type(error) ==
    LET net == FirstCause(error, {"net"})
        reqwest == FirstCause(error, {"reqwest"})
    IN CASE net # Null -> IF categorize_resolve_error(net) = "Timeout" THEN "ProcessUrlTimeout"
                          ELSE dns_error_type_from_message(net.words)
         [] net = Null /\ reqwest # Null -> OfReqwest(reqwest)
         [] OTHER -> OfMessage(error.chain[1].words)
\* Mutated form: only the outermost error is looked at.
StatusOfOutermost(error) == error.chain[1].status
extract_http_status(error) ==
    LET found == SelectSeq(error.chain, LAMBDA c : c.class = "reqwest" /\ c.status # Null)
    IN IF found = <<>> THEN Null ELSE found[1].status

\* utils/sanitize.rs.  A text is a sequence of bytes "a", control characters
\* and the two bytes <<"e", Cont>> of a longer character.
Cont == "~"
sanitize_error_message(text) == SelectSeq(text, LAMBDA b : b # "ctl")
truncate_at_char_boundary(text, n) ==
    IF Len(text) <= n THEN text
    ELSE SubSeq(text, 1, Max({k \in 0 .. n : k = 0 \/ text[k + 1] # Cont}))
truncate_utf8_with_suffix(text, n, suffix) ==
    CASE Len(text) <= n -> text
      [] n = 0 -> <<>>
      [] Len(suffix) >= n -> truncate_at_char_boundary(suffix, n)
      [] OTHER -> truncate_at_char_boundary(text, n - Len(suffix)) \o suffix
TruncationMark == <<".", ".">>
truncate_header_value(value) == truncate_utf8_with_suffix(value, MAX_HEADER_VALUE_LENGTH, TruncationMark)
sanitize_and_truncate_error_message(text) ==
    truncate_utf8_with_suffix(sanitize_error_message(text), MAX_ERROR_MESSAGE_LENGTH, TruncationMark)

\* The parts of the message: a request's error first, else all of the chain.
error_message_parts(error) ==
    LET reqwest == FirstCause(error, {"reqwest"})
        others == SelectSeq(Mapped(error.chain, LAMBDA c : c.msg), LAMBDA m : m # reqwest.msg)
    IN CASE reqwest = Null -> Mapped(error.chain, LAMBDA c : c.msg)
         [] Len(error.chain) <= 3 -> <<reqwest.msg>>
         [] OTHER -> <<reqwest.msg>> \o FirstN(others, 3)
\* p: [url, error, context, retry_count, elapsed, run_id, timestamp].
record_url_failure(p) ==
    LET attached == extract_failure_context(p.error)
        final_url == Or(p.context.final_url, attached.final_url)
        headers == IF p.context.response_headers = <<>> THEN attached.response_headers ELSE p.context.response_headers
    IN [url |-> p.url, final_url |-> final_url, domain |-> Or(extract_domain(p.url), <<"unknown">>),
        final_domain |-> extract_domain(final_url), error_type |-> extract_error_type(p.error),
        error_message |-> error_message_parts(p.error), http_status |-> extract_http_status(p.error),
        retry_count |-> p.retry_count, elapsed_time_seconds |-> p.elapsed, timestamp |-> p.timestamp,
        run_id |-> p.run_id,
        redirect_chain |-> IF p.context.redirect_chain = <<>> THEN attached.redirect_chain ELSE p.context.redirect_chain,
        response_headers |-> Mapped(headers, LAMBDA h : <<h[1], truncate_header_value(h[2])>>)]

----------------------------------------------------------------------------
(* utils/timing.rs.                                                        *)

\* The parts of html_parsing and of the script pass are shown beside it.
Breakdown == {"body_read", "html_parse", "secret_scan", "external_script_fetch", "external_script_analysis"}
AccountedStages ==
    {"http_request", "dns_forward", "dns_reverse", "dns_additional", "tls_handshake", "html_parsing",
     "tech_detection", "late_tech", "sqlite_write", "geoip_lookup", "whois_lookup"}
Stages == Breakdown \cup AccountedStages
UrlTimingMetrics == Stages \cup {"total"}
TimingStats == [count |-> 0, sum |-> [s \in UrlTimingMetrics |-> 0]]
\* count first, then each sum.
record(stats, metrics) ==
    [count |-> stats.count + 1, sum |-> [s \in UrlTimingMetrics |-> stats.sum[s] + metrics[s]]]
averages(stats) ==
    IF stats.count = 0 THEN [s \in UrlTimingMetrics |-> 0] ELSE [s \in UrlTimingMetrics |-> stats.sum[s] \div stats.count]
micros_to_ms(micros) == (micros + 500) \div 1000
DisplayMs(avg) == [s \in UrlTimingMetrics |-> micros_to_ms(avg[s])]
\* Mutated form: the breakdown is added to what contains it.
AccountedWithBreakdown(ms) == Sum(ms, Stages)
accounted_ms(ms) == Sum(ms, AccountedStages)
\* In tenths of a percent.
stage_percentage(part, total) == IF total = 0 THEN 0 ELSE (part * 1000) \div total
duration_to_us(ns) == ns \div 1000
\* A line of the summary: whether it is marked disabled, or shown in microseconds.
log_stage(sum, ms, total, disabled) ==
    [ms |-> ms, share |-> stage_percentage(ms, total), disabled |-> disabled,
     micros |-> IF ~disabled /\ ms = 0 /\ sum > 0 THEN sum ELSE Null]
log_fixed_stages(stats, ms) ==
    [s \in Stages \ {"geoip_lookup", "whois_lookup", "sqlite_write"} |-> log_stage(stats.sum[s], ms[s], ms["total"], FALSE)]
log_toggle_stage(stats, ms, s, enabled) == log_stage(stats.sum[s], ms[s], ms["total"], enabled = FALSE)
log_summary(stats, geoip, whois) ==
    LET ms == DisplayMs(averages(stats))
        other == IF accounted_ms(ms) > ms["total"] THEN 0 ELSE ms["total"] - accounted_ms(ms)
    IN IF stats.count = 0 THEN Null
       ELSE [lines |-> log_fixed_stages(stats, ms)
                       @@ "geoip_lookup" :> log_toggle_stage(stats, ms, "geoip_lookup", geoip)
                       @@ "whois_lookup" :> log_toggle_stage(stats, ms, "whois_lookup", whois)
                       @@ "sqlite_write" :> log_stage(stats.sum["sqlite_write"], ms["sqlite_write"], ms["total"], FALSE),
             other |-> other, total |-> ms["total"], all |-> micros_to_ms(stats.sum["total"])]

----------------------------------------------------------------------------
(* What /status and /metrics show of them.  c: [errors, warnings, info,    *)
(* timing, metrics], timing Null or the statistics.                        *)

ErrorCounts(errors) ==
    [total |-> total_errors(errors), timeout |-> Sum(errors, {"ProcessUrlTimeout", "HttpRequestTimeoutError"}),
     connection_error |-> errors["HttpRequestConnectError"], http_error |-> Sum(errors, HttpErrors),
     dns_error |-> Sum(errors, DnsErrors), tls_error |-> errors["TlsCertificateError"],
     parse_error |-> errors["HttpRequestDecodeError"], other_error |-> Sum(errors, OtherErrors)]
WarningCounts(warnings) == [total |-> total_warnings(warnings), each |-> warnings]
InfoCounts(info) == [total |-> total_info(info), each |-> info]
TimingSummary(timing) ==
    IF timing = Null THEN Null
    ELSE IF timing.count = 0 THEN Null ELSE [count |-> timing.count, averages |-> DisplayMs(averages(timing))]
build_status_response(c) ==
    [errors |-> ErrorCounts(c.errors), warnings |-> WarningCounts(c.warnings), info |-> InfoCounts(c.info),
     timing |-> TimingSummary(c.timing), metrics |-> c.metrics]

\* runtime_metrics.rs
record_retry(m) == [m EXCEPT !.retried_requests = @ + 1]
record_non_retriable_failure(m) == [m EXCEPT !.non_retriable_failures = @ + 1]
record_partial_failures(m, rows, satellite) ==
    [m EXCEPT !.partial_failure_rows = @ + rows, !.satellite_insert_errors = @ + satellite]

timing_metrics(timing) == IF TimingSummary(timing) = Null THEN <<>> ELSE TimingSummary(timing).averages
phase_num(label) == CASE label = "draining" -> 2 [] label = "finalizing" -> 3 [] OTHER -> 1
\* An unknown estimate is shown as 0.
metrics_eta(remaining, total, rate, lifetime) ==
    CASE remaining = 0 /\ total > 0 -> 0
      [] remaining > 0 /\ rate > 0 -> remaining \div rate
      [] OTHER -> Or(lifetime, 0)
concurrency_in_use(max, available) ==
    IF max = Null \/ available = Null THEN Null ELSE IF available > max THEN 0 ELSE max - available
escape_prometheus_label_value(text) ==
    FlattenSeq(Mapped(text, LAMBDA t : CASE t = "\\" -> <<"\\", "\\">>
                                         [] t = "quote" -> <<"\\", "quote">>
                                         [] t = "newline" -> <<"\\", "n">>
                                         [] OTHER -> <<t>>))
render_metrics(c, snap, label, permits) ==
    [run_id |-> escape_prometheus_label_value(c.run_id), snap |-> snap, phase |-> phase_num(label),
     eta |-> metrics_eta(IF snap.finished > snap.total THEN 0 ELSE snap.total - snap.finished, snap.total,
                         snap.windowed_rate, snap.lifetime_eta),
     concurrency_limit |-> Or(permits.max, 0), concurrency_in_use |-> Or(concurrency_in_use(permits.max, permits.available), 0),
     errors_total |-> total_errors(c.errors), warnings_total |-> total_warnings(c.warnings),
     info_total |-> total_info(c.info), metrics |-> c.metrics, timing |-> timing_metrics(c.timing)]

----------------------------------------------------------------------------
(* storage/insert/run.rs.                                                  *)

RunSummary(runs, id) == runs[id] @@ [run_id |-> id]
\* Only runs that have ended, the latest start first.
query_run_history(runs, limit) ==
    LET ended == {id \in DOMAIN runs : runs[id].end_time_ms # Null}
        latest == SetToSortSeq(ended, LAMBDA a, b : runs[a].start_time_ms > runs[b].start_time_ms)
    IN Mapped(IF limit = Null THEN latest ELSE FirstN(latest, limit), LAMBDA id : RunSummary(runs, id))
\* With or without an end.
query_run_by_id(runs, id) == IF id \in DOMAIN runs THEN RunSummary(runs, id) ELSE Null

count_run_fact_rows(db, run) ==
    [successful_urls |-> Cardinality({i \in DOMAIN db.rows : db.rows[i].run_id = run}),
     failed_urls |-> Cardinality({i \in DOMAIN db.failures : db.failures[i].run_id = run})]
\* A row of url_partial_failures is <<failure, observed at, run>>.
count_run_partial_failures(db, run) ==
    LET rows == db.child["url_partial_failures"]
        own == {k \in DOMAIN rows : rows[k][3] = run}
    IN [total |-> Cardinality(own),
        satellite_insert_errors |->
            Cardinality({k \in own : as_str[rows[k][1].error_type] = as_str["SatelliteInsertError"]})]
saturating_i32_count(count) == IF count < 0 THEN 0 ELSE IF count > I32_MAX THEN I32_MAX ELSE count

----------------------------------------------------------------------------
(* summary/mod.rs.                                                         *)

\* By id, or the last run that has ended; Null stands for the error.
resolve_run(runs, id) == IF id # Null THEN query_run_by_id(runs, id) ELSE FirstOf(query_run_history(runs, 1))

\* COUNT( * ) of each group, the largest first and then by name.
CountedBy(ids, Key(_)) ==
    LET groups == {[name |-> Key(i), count |-> Cardinality({j \in ids : Key(j) = Key(i)})] : i \in ids}
    IN SetToSortSeq(groups, LAMBDA a, b : a.count > b.count \/ (a.count = b.count /\ a.name < b.name))
OfRun(db, run, table) == {k \in DOMAIN db.child[table] : db.rows[k[1]].run_id = run}

query_status_counts(db, run) ==
    CountedBy({i \in DOMAIN db.rows : db.rows[i].run_id = run}, LAMBDA i : db.rows[i].http_status)
\* Mutated form: implied technologies are counted too.
TopWithImplied(db, run, limit) == FirstN(CountedBy(OfRun(db, run, "url_technologies"), LAMBDA k : k[2][1]), limit)
\* A row is keyed by name and version; one from before is_implied has Null there.
query_top_technologies(db, run, limit) ==
    LET observed == {k \in OfRun(db, run, "url_technologies") : Or(db.child["url_technologies"][k][2], FALSE) = FALSE}
    IN FirstN(CountedBy(observed, LAMBDA k : k[2][1]), limit)
query_secret_stats(db, run) ==
    LET own == OfRun(db, run, "url_exposed_secrets")
    IN [secret_count |-> Cardinality(own), urls_with_secrets |-> Cardinality({k[1] : k \in own})]

DefaultTop == 15
query_scan_summary(db, runs, options) ==
    LET run == resolve_run(runs, options.run_id)
        top == IF options.top_technologies = 0 THEN DefaultTop ELSE options.top_technologies
    IN IF run = Null THEN Null
       ELSE [run |-> run, status_counts |-> query_status_counts(db, run.run_id),
             top_technologies |-> query_top_technologies(db, run.run_id, top)]
            @@ query_secret_stats(db, run.run_id)

\* A line is its label and what it shows.
OrNone(lines) == IF lines = <<>> THEN <<<<"(none)">>>> ELSE lines
Labelled(label, value) == IF value = Null THEN <<>> ELSE <<<<label, value>>>>
format_scan_summary(s) ==
    Labelled("Run", s.run.run_id) \o Labelled("Version", s.run.version) \o Labelled("Elapsed", s.run.elapsed_seconds)
    \o Labelled("URLs", <<s.run.total_urls, s.run.successful_urls, s.run.failed_urls, s.run.skipped_urls>>)
    \o <<<<"HTTP status">>>> \o OrNone(Mapped(s.status_counts, LAMBDA c : <<c.name, c.count>>))
    \o <<<<"Top technologies">>>> \o OrNone(Mapped(s.top_technologies, LAMBDA c : <<c.count, c.name>>))
    \o Labelled("Exposed secrets", <<s.secret_count, s.urls_with_secrets>>)

\* cli.rs: what `summary` prints.
execute_summary_command(db, runs, cmd) ==
    LET summary == query_scan_summary(db, runs, [run_id |-> cmd.run_id, top_technologies |-> cmd.top])
    IN IF summary = Null THEN Failed ELSE Ok(format_scan_summary(summary))

----------------------------------------------------------------------------
(* app/logging.rs and app/statistics.rs.                                   *)

\* A text of numbers with their units.
format_duration(secs) ==
    LET hours == secs \div 3600
        minutes == (secs % 3600) \div 60
        seconds == secs % 60
    IN CASE secs = 0 -> <<"< 1s">>
         [] hours = 0 /\ minutes = 0 -> <<seconds, "s">>
         [] hours = 0 /\ minutes > 0 -> <<minutes, "m", seconds, "s">>
         [] hours > 0 /\ seconds = 0 -> IF minutes = 0 THEN <<hours, "h">> ELSE <<hours, "h", minutes, "m">>
         [] OTHER -> <<hours, "h", minutes, "m", seconds, "s">>
\* The rate is finished over elapsed; percentages are tenths.
log_progress(successful, failed, skipped, total, elapsed) ==
    LET finished == successful + failed + skipped
        remaining == IF finished > total THEN 0 ELSE total - finished
        line == [finished |-> finished, successful |-> successful, failed |-> failed, skipped |-> skipped]
    IN IF total = Null \/ total = 0 THEN line
       ELSE line @@ [percentage |-> (finished * 1000) \div total,
                     eta |-> format_duration(IF finished > 0 /\ elapsed > 0 /\ remaining > 0
                                             THEN (remaining * elapsed) \div finished ELSE 0)]

CountLines(title, counts, types, Text(_)) ==
    IF Sum(counts, types) = 0 THEN {}
    ELSE {<<title, Sum(counts, types)>>} \cup {<<Text(t), counts[t]>> : t \in {u \in types : counts[u] > 0}}
print_error_statistics(errors, warnings, info) ==
    CountLines("Error Counts", errors, ErrorType, LAMBDA t : as_str[t])
    \cup CountLines("Warning Counts", warnings, WarningType, LAMBDA t : warning_as_str[t])
    \cup CountLines("Info Counts", info, InfoType, LAMBDA t : info_as_str[t])

----------------------------------------------------------------------------
(* cli.rs: the progress bar.                                               *)

DefaultCols == 80
MIN_PROGRESS_COLS == 56
\* COLUMNS, Null when it is not set or no number.
stderr_cols(columns) == IF columns = Null THEN DefaultCols ELSE IF columns > 0 THEN columns ELSE DefaultCols
should_show_progress_bar(no_progress, terminal, columns) ==
    ~no_progress /\ terminal /\ stderr_cols(columns) >= MIN_PROGRESS_COLS

\* slot is empty until the first call.
NoBar == [shown |-> FALSE, unknown_length |-> FALSE, length_set |-> FALSE, style |-> "bar", length |-> 0, position |-> 0,
          message |-> <<>>]
create_progress_bar == [NoBar EXCEPT !.shown = TRUE]
progress_status_message(call) == <<call.completed, call.failed, call.skipped>>
progress_wide_message(call, finished) ==
    IF call.total = 0 THEN <<finished>> \o progress_status_message(call)
    ELSE <<finished, call.total, (finished * 100) \div call.total>> \o progress_status_message(call)
apply_unknown_length_progress_style(bar) == [bar EXCEPT !.style = "spinner"]
\* One call.  The style and the length are set by the first call they concern.
create_progress_callback(slot, call) ==
    LET pb == IF slot.shown THEN slot ELSE create_progress_bar
        finished == call.completed + call.failed + call.skipped
        sized == CASE call.total = 0 /\ pb.unknown_length -> pb
                   [] call.total = 0 /\ ~pb.unknown_length ->
                        [apply_unknown_length_progress_style(pb) EXCEPT !.unknown_length = TRUE]
                   [] call.total > 0 -> [pb EXCEPT !.length_set = TRUE, !.length = IF pb.length_set THEN @ ELSE call.total]
    IN [sized EXCEPT !.position = finished, !.message = progress_wide_message(call, finished)]
=============================================================================
