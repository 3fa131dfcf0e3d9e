------------------------------- MODULE Launch -------------------------------
(***************************************************************************)
(* The program from its command line to its exit code: the settings are    *)
(* merged, the log is opened, the resources of a scan are set up in order, *)
(* a run row is written, the scan runs and is closed, and the outcome is   *)
(* turned into an exit code.  Several processes share one database, and a  *)
(* `summary` reads what the others leave there.  The scan itself is the    *)
(* subject of ScanRun; here it adds fact rows under its run id and may     *)
(* fail.                                                                   *)
(***************************************************************************)
EXTENDS Settings, TLC

CONSTANTS
    Procs,          \* processes started on one database
    Starts,         \* the ways the processes may be started together
    Policies,       \* the failure policies tried: <<fail_on, threshold>>
    Outcomes,       \* the scans tried: <<URLs attempted, URLs failed>>
    MaxMs,          \* bound on the clock, in milliseconds
    MaxCrashes      \* bound on the number of processes killed

ASSUME LaunchAssumption ==
    /\ Starts \subseteq [Procs -> Invocation]
    /\ Policies \subseteq {"never", "any-failure", "pct>"} \X Nat
    /\ Outcomes \subseteq Nat \X Nat
    /\ MaxMs \in Nat \ {0} /\ MaxCrashes \in Nat

VARIABLES
    pc,             \* process -> its next step
    inv,            \* process -> its invocation, with the policy asked for
    conf,           \* process -> the merged configuration
    without,        \* process -> the optional resources it goes without
    stamp,          \* process -> the millisecond in its run id
    report,         \* process -> the counts its exit code is decided on
    code,           \* process -> exit code, Running before that
    clock,          \* milliseconds
    runs,           \* the runs table: millisecond -> row
    facts,          \* millisecond -> failure rows under that run id
    agent,          \* the cached Chrome version
    crashes         \* processes killed so far

vars == <<pc, inv, conf, without, stamp, report, code, clock, runs, facts,
          agent, crashes>>

Running == 99

Killed == 98

NoRun == [by |-> {}, ended |-> FALSE, total |-> 0, failed |-> 0]

Row == [by : SUBSET Procs, ended : BOOLEAN, total : 0 .. 100,
        failed : 0 .. 200]

Blank == [cli |-> {}, env |-> {}, toml |-> {},
          class |-> [l \in Layers |-> "ok"], matches |-> TRUE]

\* A policy and a threshold matter where some layer gives one.
Asked(i) ==
    IF {"fail_on", "fail_on_pct_threshold"} \cap (i.cli \cup i.env \cup i.toml)
            = {}
    THEN {<<"never", 10>>} ELSE Policies

Init ==
    /\ pc = [p \in Procs |-> "start"]
    /\ \E s \in Starts :
         inv = [p \in Procs |-> [args |-> s[p], policy |-> "never", pct |-> 10]]
    /\ conf = [p \in Procs |-> ConfigDefault]
    /\ without = [p \in Procs |-> {}]
    /\ stamp = [p \in Procs |-> 0]
    /\ report = [p \in Procs |-> <<0, 0>>]
    /\ code = [p \in Procs |-> Running]
    /\ clock = 1
    /\ runs = [m \in 1 .. MaxMs |-> NoRun]
    /\ facts = [m \in 1 .. MaxMs |-> 0]
    /\ agent = "none"
    /\ crashes = 0

-----------------------------------------------------------------------------
Goto(p, step) == pc' = [pc EXCEPT ![p] = step]

Leave(p, c) == Goto(p, "end") /\ code' = [code EXCEPT ![p] = c]

\* An error that reaches main: the process prints it and exits with 1.
RuntimeError(p) ==
    /\ Leave(p, 1)
    /\ UNCHANGED <<inv, conf, without, stamp, report, clock, runs, facts,
                   agent, crashes>>

\* A step of the start-up that touches only the process's own place in it.
Pass(p, from, to) ==
    /\ pc[p] = from
    /\ Goto(p, to)
    /\ UNCHANGED <<inv, conf, without, stamp, report, code, clock, runs,
                   facts, agent, crashes>>

Fail(p, from) == pc[p] = from /\ RuntimeError(p)

-----------------------------------------------------------------------------
(* Command line.                                                           *)

\* run_cli_from_args: clap prints its own errors and their exit code is
\* returned as a success of the runner, 2 for a usage error.
ParseScan(p) ==
    /\ pc[p] = "start"
    /\ "file" \in inv[p].args.cli
    /\ \E q \in Asked(inv[p].args) :
        inv' = [inv EXCEPT ![p] = [args |-> @.args, policy |-> q[1],
                                   pct |-> q[2]]]
    /\ IF UsageError(inv[p].args) THEN Leave(p, 2)
       ELSE Goto(p, "config") /\ UNCHANGED code
    /\ UNCHANGED <<conf, without, stamp, report, clock, runs, facts, agent,
                   crashes>>

\* build_config_from_scan_command: a requested file that is missing or does
\* not deserialise is an error.
BuildConfig(p) ==
    /\ pc[p] = "config"
    /\ ~FileUnreadable(inv[p].args)
    /\ conf' = [conf EXCEPT ![p] = merge_file_and_cli(inv[p].args)]
    /\ Goto(p, "log")
    /\ UNCHANGED <<inv, without, stamp, report, code, clock, runs, facts,
                   agent, crashes>>

\* load_file_config fails: unreadable overlay, or a named file is missing.
LoadFileFails(p) == Fail(p, "config")

\* execute_scan_with_reporting: without a log file there is no scan.
InitLogging(p) == conf[p]["log_file"] # None /\ Pass(p, "log", "validate")

\* No log file is set, or it cannot be created.
LoggingFails(p) == Fail(p, "log")

-----------------------------------------------------------------------------
(* init_scan_resources, in its order.                                      *)

Validate(p) ==
    IF validate(conf[p]) THEN Pass(p, "validate", "agent")
    ELSE Fail(p, "validate")

\* Two sources are asked in turn; when both fail the built-in version is used.
fetch_latest_chrome_version == {"latest", "fallback"}

\* The version file, while it is younger than 30 days; a torn or unreadable
\* one counts as absent.
CachedAgent == IF agent \in {"latest", "fallback"} THEN {agent} ELSE {}

\* get_chrome_version: what was fetched is cached, the built-in version too;
\* that the file cannot be written changes nothing else.
get_chrome_version ==
    IF CachedAgent # {} THEN UNCHANGED agent
    ELSE agent' \in fetch_latest_chrome_version \cup {"none"}

\* Only the default User-Agent is brought up to date.
UserAgent(p) ==
    /\ pc[p] = "agent"
    /\ Goto(p, "input")
    /\ IF conf[p]["user_agent"].from = "default" THEN get_chrome_version
       ELSE UNCHANGED agent
    /\ UNCHANGED <<inv, conf, without, stamp, report, code, clock, runs,
                   facts, crashes>>

\* The input file is opened twice, once to be counted.
OpenInput(p) == Pass(p, "input", "pool")

InputFails(p) == Fail(p, "input")

\* init_db_pool_with_path creates the file unless it exists, opens the pool
\* and switches the database to WAL.
InitPool(p) == Pass(p, "pool", "clients")

PoolFails(p) == Fail(p, "pool")

\* The resolver, then the page client, then the redirect client.
InitClients(p) == Pass(p, "clients", "migrate")

ClientsFail(p) == Fail(p, "clients")

RunMigrations(p) == Pass(p, "migrate", "whois")

MigrationsFail(p) == Fail(p, "migrate")

\* An optional resource that cannot be set up is gone without.
Optional(p, from, to) ==
    /\ pc[p] = from
    /\ Goto(p, to)
    /\ \/ UNCHANGED without
       \/ without' = [without EXCEPT ![p] = @ \cup {from}]
    /\ UNCHANGED <<inv, conf, stamp, report, code, clock, runs, facts, agent,
                   crashes>>

InitWhois(p) ==
    IF conf[p]["enable_whois"] = Off
    THEN /\ pc[p] = "whois"
         /\ Goto(p, "rules")
         /\ without' = [without EXCEPT ![p] = @ \cup {"whois"}]
         /\ UNCHANGED <<inv, conf, stamp, report, code, clock, runs, facts,
                        agent, crashes>>
    ELSE Optional(p, "whois", "rules")

\* init_ruleset: an incomplete catalogue is an error. A launch cannot allow one:
\* merge_file_and_cli never copies allow_degraded_fingerprints.
InitRuleset(p) == Pass(p, "rules", "gitleaks")

RulesetFails(p) == Fail(p, "rules")

InitGitleaks(p) == Pass(p, "gitleaks", "geoip")

\* The bundled secret rules do not compile.
GitleaksFails(p) == Fail(p, "gitleaks")

InitGeoip(p) == Optional(p, "geoip", "stamp")

\* The run id is the clock's millisecond.
StampRun(p) ==
    /\ pc[p] = "stamp"
    /\ stamp' = [stamp EXCEPT ![p] = clock]
    /\ Goto(p, "insert")
    /\ UNCHANGED <<inv, conf, without, report, code, clock, runs, facts,
                   agent, crashes>>

\* insert_run_metadata: an upsert that leaves the counts and the end alone.
InsertRunMetadata(p) ==
    /\ pc[p] = "insert"
    /\ runs' = [runs EXCEPT ![stamp[p]].by = @ \cup {p}]
    /\ Goto(p, "server")
    /\ UNCHANGED <<inv, conf, without, stamp, report, code, clock, facts,
                   agent, crashes>>

InsertRunFails(p) == Fail(p, "insert")

\* The status server binds its port after the run row is written.
StatusServer(p) == Pass(p, "server", "scan")

BindFails(p) ==
    conf[p]["status_port"].from \in Layers /\ Fail(p, "server")

-----------------------------------------------------------------------------
(* The scan and its end.                                                   *)

Scan(p) ==
    /\ pc[p] = "scan"
    /\ \E o \in Outcomes :
        /\ report' = [report EXCEPT ![p] = <<o[1], 0>>]
        /\ facts' = [facts EXCEPT ![stamp[p]] = @ + o[2]]
    /\ Goto(p, "count")
    /\ UNCHANGED <<inv, conf, without, stamp, code, clock, runs, agent,
                   crashes>>

\* The input cannot be read any further: before any row is stored, or with the
\* rows of the URLs read so far left behind.
ScanFails(p) == \E s \in {"scan", "count"} : Fail(p, s)

\* count_run_fact_rows: the failures are the rows under the run id.
CountFactRows(p) ==
    /\ pc[p] = "count"
    /\ report' = [report EXCEPT ![p] = <<@[1], facts[stamp[p]]>>]
    /\ Goto(p, "stats")
    /\ UNCHANGED <<inv, conf, without, stamp, code, clock, runs, facts,
                   agent, crashes>>

Ended(row, r) == [row EXCEPT !.ended = TRUE, !.total = r[1], !.failed = r[2]]

\* Mutated form: the update has no WHERE.
UpdateEveryRun(p) ==
    /\ pc[p] = "stats"
    /\ runs' = [m \in 1 .. MaxMs |->
                  IF runs[m] = NoRun THEN NoRun ELSE Ended(runs[m], report[p])]
    /\ Goto(p, "policy")
    /\ UNCHANGED <<inv, conf, without, stamp, report, code, clock, facts,
                   agent, crashes>>

UpdateRunStats(p) ==
    /\ pc[p] = "stats"
    /\ runs' = [runs EXCEPT ![stamp[p]] = Ended(@, report[p])]
    /\ Goto(p, "policy")
    /\ UNCHANGED <<inv, conf, without, stamp, report, code, clock, facts,
                   agent, crashes>>

\* A statement of the finalisation fails: the counts, the update, or the
\* count of partial failures after it.
FinalizeFails(p) == \E s \in {"count", "stats", "policy"} : Fail(p, s)

\* Percentages of at most 100 URLs that a double rounds up past the exact
\* value: failed / total * 100.0 exceeds the whole number it equals.
RoundedUp ==
    {<<11, 20>>, <<7, 25>>, <<14, 25>>, <<22, 40>>, <<7, 50>>, <<14, 50>>,
     <<28, 50>>, <<33, 60>>, <<21, 75>>, <<42, 75>>, <<44, 80>>, <<7, 100>>,
     <<14, 100>>, <<28, 100>>, <<55, 100>>, <<56, 100>>}

PctExceeds(failed, total, pct) ==
    \/ 100 * failed > pct * total
    \/ 100 * failed = pct * total /\ <<failed, total>> \in RoundedUp

\* Mutated form: a scan of nothing satisfies the percentage.
EmptyScanPasses(policy, pct, total, failed) ==
    CASE policy = "any-failure" -> IF failed > 0 THEN 2 ELSE 0
      [] policy = "pct>" -> IF total > 0 /\ PctExceeds(failed, total, pct)
                            THEN 2 ELSE 0
      [] OTHER -> 0

evaluate_exit_code(policy, pct, total, failed) ==
    CASE policy = "any-failure" -> IF failed > 0 THEN 2 ELSE 0
      [] policy = "pct>" -> IF total = 0 THEN 3
                            ELSE IF PctExceeds(failed, total, pct) THEN 2
                            ELSE 0
      [] OTHER -> 0

\* The policy and the threshold that the merged configuration holds.
FailOn(p) ==
    IF conf[p]["fail_on"].from \in Layers THEN inv[p].policy ELSE "never"

Threshold(p) ==
    IF conf[p]["fail_on_pct_threshold"].from \in Layers THEN inv[p].pct
    ELSE 10

Exit(p) ==
    /\ pc[p] = "policy"
    /\ Leave(p, evaluate_exit_code(FailOn(p), Threshold(p), report[p][1],
                                   report[p][2]))
    /\ UNCHANGED <<inv, conf, without, stamp, report, clock, runs, facts,
                   agent, crashes>>

-----------------------------------------------------------------------------
(* The other commands, the clock and crashes.                              *)

Completed == {m \in 1 .. MaxMs : runs[m].ended}

\* execute_summary_command: the most recent completed run, or an error.
Summary(p) ==
    /\ pc[p] = "start"
    /\ "file" \notin inv[p].args.cli
    /\ IF Completed = {} THEN Leave(p, 1) /\ UNCHANGED report
       ELSE LET m == CHOOSE m \in Completed : \A n \in Completed : n <= m
            IN  /\ Leave(p, 0)
                /\ report' = [report EXCEPT ![p] =
                                 <<runs[m].total, runs[m].failed>>]
    /\ UNCHANGED <<inv, conf, without, stamp, clock, runs, facts, agent,
                   crashes>>

Tick ==
    /\ clock < MaxMs
    /\ \E p \in Procs : pc[p] = "stamp"
    /\ clock' = clock + 1
    /\ UNCHANGED <<pc, inv, conf, without, stamp, report, code, runs, facts,
                   agent, crashes>>

Crash(p) ==
    /\ crashes < MaxCrashes
    /\ pc[p] \notin {"start", "end"}
    /\ Leave(p, Killed)
    /\ crashes' = crashes + 1
    /\ UNCHANGED <<inv, conf, without, stamp, report, clock, runs, facts,
                   agent>>

Startup(p) ==
    \/ ParseScan(p) \/ BuildConfig(p) \/ LoadFileFails(p)
    \/ InitLogging(p) \/ LoggingFails(p)
    \/ Validate(p) \/ UserAgent(p) \/ OpenInput(p) \/ InputFails(p)
    \/ InitPool(p) \/ PoolFails(p) \/ InitClients(p) \/ ClientsFail(p)
    \/ RunMigrations(p) \/ MigrationsFail(p) \/ InitWhois(p)
    \/ InitRuleset(p) \/ RulesetFails(p) \/ InitGitleaks(p) \/ GitleaksFails(p)
    \/ InitGeoip(p)

RunAndReport(p) ==
    \/ StampRun(p) \/ InsertRunMetadata(p) \/ InsertRunFails(p)
    \/ StatusServer(p) \/ BindFails(p) \/ Scan(p) \/ ScanFails(p)
    \/ CountFactRows(p) \/ UpdateRunStats(p) \/ FinalizeFails(p) \/ Exit(p)

Next ==
    \/ \E p \in Procs : Startup(p) \/ RunAndReport(p) \/ Summary(p) \/ Crash(p)
    \/ Tick

Spec == Init /\ [][Next]_vars

-----------------------------------------------------------------------------
TypeOK ==
    /\ conf \in [Procs -> [Fields -> Values]]
    /\ stamp \in [Procs -> 0 .. MaxMs]
    /\ runs \in [1 .. MaxMs -> Row]
    /\ code \in [Procs -> {0, 1, 2, 3, Killed, Running}]

\* A setting that some layer gives and the file may give too has the value of
\* the highest layer that gives it, through clap, the overlay and the merge.
ExplicitSettingWins ==
    \A p \in Procs :
        pc[p] \notin {"start", "config", "end"} /\ inv[p].args.matches =>
            \A k \in FILE_CONFIG_OVERLAY_KEYS :
                Documented(inv[p].args, k) # Default =>
                    conf[p][k] = Documented(inv[p].args, k)

\* What the start-up computes from an accepted configuration can work: there
\* is a permit to hand out, the global limiter can admit a URL, and the pool
\* has a writer and a reader and stays within its cap.
LimitsWorkable ==
    \A p \in Procs :
        pc[p] \notin {"start", "config", "log", "validate", "end"} =>
            /\ Concurrency(conf[p]["max_concurrency"]) > 0
            /\ rate_burst(conf[p]) > 0
            /\ sqlite_pool_size(Concurrency(conf[p]["max_concurrency"]))
                    \in 2 .. 32

\* A scan starts with what was asked for, and with limits it can run under
\* (config/merge.rs:385, run/init.rs:116).
SettingsSound == ExplicitSettingWins /\ LimitsWorkable

\* A run that the history lists as completed is complete: each scan that
\* wrote under its id has counted its rows, unless two scans were stamped
\* with the same millisecond and share the id.
CompletedRunComplete ==
    \A p \in Procs :
        /\ stamp[p] > 0
        /\ runs[stamp[p]].ended
        /\ p \in runs[stamp[p]].by
        /\ \A q \in Procs \ {p} : stamp[q] # stamp[p]
        => pc[p] \in {"policy", "end"} /\ runs[stamp[p]].failed = facts[stamp[p]]

\* The exit code of a finished scan is fixed by its policy and by the counts
\* the database keeps for its run: 0 under never, 2 for any failure under
\* any-failure, and under pct> 3 for a scan of no URLs, 2 above the threshold
\* and 0 below it (cli.rs:641).  At the threshold it is 0 but for the rates that
\* the division rounds up (11 of 20 exceeds 55 %), where it is 2 although
\* docs/EXIT_CODES.md:16 asks for a rate "greater than" the threshold.
ExitCodeMatchesRun ==
    \A p \in Procs :
        /\ code[p] \in {0, 2, 3} /\ stamp[p] > 0
        /\ \A q \in Procs \ {p} : stamp[q] # stamp[p]
        => LET row == runs[stamp[p]]
               failed == facts[stamp[p]]
               limit == Threshold(p) * row.total
           IN  /\ row.ended /\ row.failed = failed
               /\ FailOn(p) = "never" => code[p] = 0
               /\ FailOn(p) = "any-failure" => code[p] = IF failed > 0 THEN 2 ELSE 0
               /\ FailOn(p) = "pct>" =>
                    /\ code[p] = 3 <=> row.total = 0
                    /\ row.total > 0 /\ 100 * failed > limit => code[p] = 2
                    /\ row.total > 0 /\ 100 * failed < limit => code[p] = 0
                    /\ row.total > 0 /\ 100 * failed = limit =>
                         code[p] = IF <<failed, row.total>> \in RoundedUp THEN 2 ELSE 0

\* Violated.  config/merge.rs:3, docs/CLI.md: "CLI > env > config file >
\* defaults", for every setting of a scan started from the command line.
PrecedenceHolds ==
    \A p \in Procs :
        pc[p] \notin {"start", "config", "end"} =>
            \A k \in Fields : conf[p][k] = Documented(inv[p].args, k)

=============================================================================
