------------------------------- MODULE Export -------------------------------
(***************************************************************************)
(* domain-status export (export/): the rows of url_status that the filters *)
(* select are read through one cursor; for each, the satellite tables are  *)
(* queried one after the other on other connections of the pool; the row   *)
(* is written.  A scan may be storing observations into the same database  *)
(* (WAL) meanwhile, each in two transactions that those of other tasks may *)
(* come between.                                                           *)
(*                                                                         *)
(* A row or a satellite table is the number of the observation it was last *)
(* written for, counted in the order of the core transactions.             *)
(***************************************************************************)
EXTENDS Integers, FiniteSets, SequencesExt

CONSTANTS
    Keys,         \* [run, domain]: a row of url_status is that of a run and an initial domain
    Facts,        \* of each observation: [status, final, at], what the filters and the order read
    Commands,     \* [format, output, run, domain, status, since]: the ways `export` is called
    LeftBehind,   \* bound: the core tables that a failed cleanup may leave as they were
    BATCH_SIZE,
    MaxObservations,
    NoFilter

\* The queries of build_export_row, in order.
CoreQueries == <<"redirects", "technologies", "sans", "oids", "dns", "cname", "ipv6", "caa">>
Queries == CoreQueries \o <<"analytics", "script_hosts", "social", "key_headers", "header_count", "all_headers", "partials",
                            "geoip", "whois", "favicon", "contacts", "secrets">>
CoreTables == ToSet(CoreQueries) \cup {"script_hosts", "key_headers", "header_count", "all_headers"}
Tables == ToSet(Queries)

\* A database holds finitely many rows; a failed cleanup keeps core tables.
ASSUME ExportAssumption == IsFiniteSet(Keys) /\ LeftBehind \subseteq SUBSET CoreTables

VARIABLES
    db,        \* of each key: the observation in url_status and in each table
    clock,     \* the observations so far
    pending,   \* of each key: the observations whose enrichment is not stored (yet)
    request,   \* the options of the call
    exporting, \* "start", "cursor", "assemble", "write", "ok", "failed"
    snapshot,  \* what the cursor will return
    taken,     \* rows taken from the cursor
    row,       \* the row being assembled: its queries so far
    batch,     \* Parquet: rows not yet written
    out,       \* rows the reader of the output has
    count,     \* record_count
    closed,    \* has the reader closed the pipe?
    was,       \* history: the database when the cursor was opened
    mark,      \* history, of each key: how many enrichments were stored then
    newer,     \* history, of each key: the observations stored since
    enriched,  \* history, of each key: the observations in the order of their enrichments
    uncleaned  \* history: <<observation, table>> of the core tables left as they were

store == <<db, clock, pending, newer, enriched, uncleaned>>
output == <<snapshot, taken, row, batch, out, count>>
xvars == <<store, request, exporting, output, closed, was, mark>>

NoOutput == "none"
NoRow == [key |-> NoFilter, main |-> 0, parts |-> <<>>]
NoRows == [k \in Keys |-> [main |-> 0, part |-> [t \in Tables |-> 0]]]

\* execute_export_command: "-" is stdout; without an output a file is named after
\* the format.
execute_export_command(cmd) ==
    [format |-> cmd.format, stdout |-> cmd.output = "-",
     run |-> cmd.run, domain |-> cmd.domain, status |-> cmd.status, since |-> cmd.since,
     file |-> CASE cmd.output = "-" -> "-" [] cmd.output = NoOutput -> cmd.format [] OTHER -> cmd.output]

\* build_where_clause, of the row of a key that shows an observation.
Selected(k, obs) ==
    /\ request.run # NoFilter => k.run = request.run
    /\ request.domain # NoFilter => request.domain \in {k.domain, Facts[obs].final}
    /\ request.status # NoFilter => Facts[obs].status = request.status
    /\ request.since # NoFilter => Facts[obs].at >= request.since

ExportInit ==
    /\ db = NoRows /\ clock = 0
    /\ pending = [k \in Keys |-> {}]
    /\ \E cmd \in Commands : request = execute_export_command(cmd)
    /\ exporting = "start"
    /\ snapshot = <<>> /\ taken = 0 /\ row = NoRow /\ batch = <<>> /\ out = <<>> /\ count = 0
    /\ closed = FALSE
    /\ was = NoRows /\ mark = [k \in Keys |-> 1]
    /\ newer = [k \in Keys |-> {}] /\ enriched = [k \in Keys |-> <<0>>] /\ uncleaned = {}

----------------------------------------------------------------------------
(* The scan, external to the export.  An observation is stored in two      *)
(* transactions; several tasks may store one key at a time.                *)

\* url_status and the core tables, but those a failed cleanup has not reached.
CommitCore(k) ==
    /\ clock < MaxObservations
    /\ clock' = clock + 1
    /\ \E kept \in LeftBehind :
          /\ db' = [db EXCEPT ![k] = [main |-> clock',
                        part |-> [t \in Tables |-> IF t \in CoreTables \ kept THEN clock' ELSE @.part[t]]]]
          /\ uncleaned' = uncleaned \cup ({clock'} \X kept)
    /\ pending' = [pending EXCEPT ![k] = @ \cup {clock'}]
    /\ newer' = [newer EXCEPT ![k] = @ \cup {clock'}]
    /\ UNCHANGED <<enriched, request, exporting, output, closed, was, mark>>

\* The other tables, of any observation that waits for it: one may also be dropped,
\* or fail, and wait forever.
CommitEnrichment(k) ==
    /\ \E obs \in pending[k] :
          /\ db' = [db EXCEPT ![k].part = [t \in Tables |-> IF t \in CoreTables THEN @[t] ELSE obs]]
          /\ pending' = [pending EXCEPT ![k] = @ \ {obs}]
          /\ enriched' = [enriched EXCEPT ![k] = Append(@, obs)]
    /\ UNCHANGED <<clock, newer, uncleaned, request, exporting, output, closed, was, mark>>

----------------------------------------------------------------------------
(* The export.                                                             *)

\* The orders in which the cursor may return the rows: the newest first, each once.
Cursors(rows) ==
    {s \in [1 .. Cardinality(rows) -> rows] :
        \A i, j \in DOMAIN s : i < j => s[i] # s[j] /\ Facts[s[i].main].at >= Facts[s[j].main].at}

\* Parquet cannot go to stdout; otherwise the output is created and the query
\* opened.  The cursor reads the database as it is now.
Open ==
    /\ exporting = "start"
    /\ IF request.format = "parquet" /\ request.stdout
       THEN exporting' = "failed" /\ UNCHANGED <<snapshot, was, mark, newer>>
       ELSE /\ exporting' = "cursor"
            /\ snapshot' \in Cursors({[key |-> k, main |-> db[k].main] :
                                         k \in {j \in Keys : db[j].main > 0 /\ Selected(j, db[j].main)}})
            /\ was' = db /\ mark' = [k \in Keys |-> Len(enriched[k])]
            /\ newer' = [k \in Keys |-> {}]
    /\ UNCHANGED <<db, clock, pending, enriched, uncleaned, request, taken, row, batch, out, count, closed>>

NextRow ==
    /\ exporting = "cursor" /\ taken < Len(snapshot)
    /\ taken' = taken + 1
    /\ row' = [key |-> snapshot[taken + 1].key, main |-> snapshot[taken + 1].main, parts |-> <<>>]
    /\ exporting' = "assemble"
    /\ UNCHANGED <<store, request, snapshot, batch, out, count, closed, was, mark>>

\* One query; each sees what is committed when it runs.
Query ==
    /\ exporting = "assemble" /\ Len(row.parts) < Len(Queries)
    /\ row' = [row EXCEPT !.parts = Append(@, db[row.key].part[Queries[Len(row.parts) + 1]])]
    /\ exporting' = IF Len(row.parts) + 1 = Len(Queries) THEN "write" ELSE "assemble"
    /\ UNCHANGED <<store, request, snapshot, taken, batch, out, count, closed, was, mark>>

\* IgnoreBrokenPipe: what is written to a closed pipe is lost, without an error.
Delivered(rows) == IF closed THEN out ELSE out \o rows

\* CSV and JSONL write the row; Parquet collects a batch.
Write ==
    /\ exporting = "write"
    /\ LET full == Len(batch) + 1 >= BATCH_SIZE
       IN IF request.format = "parquet"
          THEN /\ out' = IF full THEN Delivered(Append(batch, row)) ELSE out
               /\ batch' = IF full THEN <<>> ELSE Append(batch, row)
          ELSE out' = Delivered(<<row>>) /\ UNCHANGED batch
    /\ count' = count + 1
    /\ row' = NoRow
    /\ exporting' = "cursor"
    /\ UNCHANGED <<store, request, snapshot, taken, closed, was, mark>>

\* Mutated form: the last batch is written only when it is full.
FinishFullOnly ==
    /\ exporting = "cursor" /\ taken = Len(snapshot)
    /\ out' = IF Len(batch) >= BATCH_SIZE THEN Delivered(batch) ELSE out
    /\ batch' = <<>>
    /\ exporting' = "ok"
    /\ UNCHANGED <<store, request, snapshot, taken, row, count, closed, was, mark>>

\* The cursor is empty: flush, or write the last batch and close the file.
Finish ==
    /\ exporting = "cursor" /\ taken = Len(snapshot)
    /\ out' = Delivered(batch)
    /\ batch' = <<>>
    /\ exporting' = "ok"
    /\ UNCHANGED <<store, request, snapshot, taken, row, count, closed, was, mark>>

\* A query or a write returns an error: what is written so far stays.
ExportError ==
    /\ exporting \in {"cursor", "assemble", "write"}
    /\ exporting' = "failed"
    /\ row' = NoRow
    /\ UNCHANGED <<store, request, snapshot, taken, batch, out, count, closed, was, mark>>

ClosePipe ==
    /\ request.stdout /\ ~closed /\ exporting \notin {"ok", "failed"}
    /\ closed' = TRUE
    /\ UNCHANGED <<store, request, exporting, output, was, mark>>

ExportNext ==
    \/ Open \/ NextRow \/ Query \/ Write \/ Finish \/ ExportError \/ ClosePipe
    \/ \E k \in Keys : CommitCore(k) \/ CommitEnrichment(k)

ExportSpec == ExportInit /\ [][ExportNext]_xvars

----------------------------------------------------------------------------
\* An export that reports success has written every row its filters selected when
\* it began, newest first and once each, and reports their number, whatever the
\* batch size leaves over and whatever a scan stores meanwhile; on a closed pipe it
\* has written a prefix, and Parquet is never written to a pipe.
ExportComplete ==
    exporting = "ok" =>
        LET shown == [i \in DOMAIN out |-> [key |-> out[i].key, main |-> out[i].main]]
        IN /\ count = Len(snapshot)
           /\ request.format = "parquet" => ~request.stdout /\ request.file # "-"
           /\ IF closed THEN IsPrefix(shown, snapshot) ELSE shown = snapshot

\* A row may show several observations, but only as the transactions of its own key
\* make it: a core table shows what it showed when the cursor was opened or an
\* observation stored since; read one after the other, neither the core tables nor
\* url_status before them go back, unless a cleanup failed; and the other tables
\* follow the order in which enrichments were stored, from the last one before the
\* cursor was opened, although that may go back to an older observation.
RowMixExplained ==
    \A i \in DOMAIN out :
        LET k == out[i].key
            parts == out[i].parts
            Core(q) == Queries[q] \in CoreTables
            Follows(a, q) == a <= parts[q] \/ <<a, Queries[q]>> \in uncleaned
        IN \A q \in DOMAIN Queries :
              /\ Core(q) => /\ parts[q] \in newer[k] \cup {was[k].part[Queries[q]]}
                            /\ Follows(out[i].main, q)
              /\ \A r \in q .. Len(Queries) :
                    /\ Core(q) /\ Core(r) => Follows(parts[q], r)
                    /\ ~Core(q) /\ ~Core(r) =>
                          \E a, b \in mark[k] .. Len(enriched[k]) :
                             a <= b /\ enriched[k][a] = parts[q] /\ enriched[k][b] = parts[r]

\* A successful export is complete and each of its rows explained
\* (bootstrap.rs:38, parquet.rs:957).
ExportSound == ExportComplete /\ RowMixExplained
=============================================================================
