---------------------------- MODULE LaunchProofs ----------------------------
(***************************************************************************)
(* Proofs about Launch: for every number of processes on one database,     *)
(* every way of starting them, every policy and every outcome of a scan.   *)
(***************************************************************************)
EXTENDS Launch, TLAPS

(* Before the run id is drawn, and after.                                  *)
Early == {"start", "config", "log", "validate", "agent", "input", "pool", "clients",
          "migrate", "whois", "rules", "gitleaks", "geoip", "stamp"}
Late == {"insert", "server", "scan", "count", "stats", "policy"}

LaunchTyped ==
    /\ pc \in [Procs -> Early \cup Late \cup {"end"}]
    /\ inv \in [Procs -> [args : Invocation, policy : {"never", "any-failure", "pct>"}, pct : Nat]]
    /\ conf \in [Procs -> [Fields -> Values]]
    /\ stamp \in [Procs -> 0 .. MaxMs]
    /\ report = [p \in Procs |-> report[p]]
    /\ \A p \in Procs : pc[p] # "end" => report[p] \in Nat \X Nat
    /\ code \in [Procs -> {0, 1, 2, 3, Killed, Running}]
    /\ clock \in 1 .. MaxMs
    /\ runs \in [1 .. MaxMs -> [by : SUBSET Procs, ended : BOOLEAN, total : Nat, failed : Nat]]
    /\ facts \in [1 .. MaxMs -> Nat]

(* A run id is drawn once, between the start-up and the run.               *)
PlaceInv ==
    \A p \in Procs : /\ pc[p] \in Early => stamp[p] = 0
                     /\ pc[p] \in Late => stamp[p] > 0
                     /\ pc[p] # "end" => code[p] = Running

Alone(p) == \A q \in Procs \ {p} : stamp[q] # stamp[p]

(* The row of a run whose id only this scan has drawn.                     *)
RunOf(p) ==
    /\ runs[stamp[p]].ended => /\ pc[p] \in {"policy", "end"}
                               /\ runs[stamp[p]].failed = facts[stamp[p]]
    /\ pc[p] = "stats" => report[p][2] = facts[stamp[p]]
    /\ pc[p] = "policy" => /\ runs[stamp[p]].ended
                           /\ runs[stamp[p]].total = report[p][1]
                           /\ runs[stamp[p]].failed = report[p][2]
    /\ code[p] \in {0, 2, 3} =>
         /\ runs[stamp[p]].ended
         /\ code[p] = evaluate_exit_code(FailOn(p), Threshold(p), runs[stamp[p]].total,
                                         runs[stamp[p]].failed)
RunInv ==
    /\ \A m \in 1 .. MaxMs : runs[m].ended => \E q \in Procs : stamp[q] = m
    /\ \A p \in Procs : stamp[p] > 0 /\ Alone(p) => RunOf(p)

(* The merged configuration, once it is there, and once it is accepted.    *)
ConfInv ==
    \A p \in Procs :
        /\ pc[p] \notin {"start", "config", "end"} => conf[p] = merge_file_and_cli(inv[p].args)
        /\ pc[p] \notin {"start", "config", "log", "validate", "end"} => validate(conf[p])

Inv == LaunchTyped /\ PlaceInv /\ RunInv /\ ConfInv

-----------------------------------------------------------------------------
(* The merge.                                                              *)

LEMMA MergeTyped == \A i \in Invocation : merge_file_and_cli(i) \in [Fields -> Values]
<1> SUFFICES ASSUME NEW i \in Invocation, NEW k \in Fields
             PROVE  merge_file_and_cli(i)[k] \in Values
  BY DEF merge_file_and_cli
<1>1. Default \in Values /\ None \in Values /\ Off \in Values /\ \A l \in Layers : Given(i, l) \in Values
  BY DEF Default, None, Off, Given, Values, Invocation, Classes, Layers
<1>2. value_source(i, k) = "default" \/ value_source(i, k) \in Layers
  BY DEF value_source, Layers
<1>3. config_from_scan_command(i)[k] \in Values
  <2>1. Given(i, "cli") \in Values
    BY <1>1 DEF Layers
  <2>2. QED
    BY <1>1, <1>2, <2>1 DEF config_from_scan_command
<1>4. apply_file_config(ConfigDefault, i)[k] \in Values
  <2>1. Given(i, "toml") \in Values /\ ConfigDefault[k] \in Values
    BY <1>1 DEF Layers, ConfigDefault
  <2>2. QED
    BY <2>1 DEF apply_file_config
<1>5. QED
  BY <1>1, <1>3, <1>4 DEF merge_file_and_cli

(* clap's sources and the overlay together give the documented value of    *)
(* every setting that some layer gives, for the keys the file may hold.    *)
LEMMA MergePrecedence ==
    ASSUME NEW i \in Invocation, i.matches, NEW k \in FILE_CONFIG_OVERLAY_KEYS,
           Documented(i, k) # Default
    PROVE  merge_file_and_cli(i)[k] = Documented(i, k)
<1> DEFINE explicit == get_explicit_config_keys(i)
           c == config_from_scan_command(i)
           base == apply_file_config(ConfigDefault, i)
<1>1. k \in Fields /\ k \in SCAN_CONFIG_ARG_IDS /\ k # "log_level_filter_override" /\ k # "no_whois"
  BY DEF Fields, SCAN_CONFIG_ARG_IDS, FILE_CONFIG_OVERLAY_KEYS
<1>2. merge_file_and_cli(i)[k] = IF k = "enable_whois" /\ "no_whois" \in explicit THEN Off
                                 ELSE IF k \in explicit THEN c[k] ELSE base[k]
  BY <1>1 DEF merge_file_and_cli
<1>3. "no_whois" \in explicit <=> "no_whois" \in i.cli
  <2>1. "no_whois" \in SCAN_CONFIG_ARG_IDS /\ "no_whois" \notin i.env
    BY DEF SCAN_CONFIG_ARG_IDS, Invocation, EnvArgs
  <2>2. QED
    BY <2>1 DEF get_explicit_config_keys, value_source
<1>4. k \in explicit <=> k \in i.cli \/ k \in i.env
  BY <1>1 DEF get_explicit_config_keys, value_source
<1> HIDE DEF explicit
<1>5. CASE k = "enable_whois" /\ "no_whois" \in i.cli
  BY <1>2, <1>3, <1>5 DEF Documented
<1>6. CASE ~(k = "enable_whois" /\ "no_whois" \in i.cli) /\ (k \in i.cli \/ k \in i.env)
  <2>1. merge_file_and_cli(i)[k] = c[k]
    BY <1>2, <1>3, <1>4, <1>6
  <2>2. c[k] = Given(i, value_source(i, k))
    BY <1>1, <1>6 DEF config_from_scan_command, value_source
  <2>3. Documented(i, k) = IF k \in i.cli THEN Given(i, "cli") ELSE Given(i, "env")
    BY <1>1, <1>6 DEF Documented
  <2>4. QED
    BY <1>6, <2>1, <2>2, <2>3 DEF value_source
<1>7. CASE ~(k = "enable_whois" /\ "no_whois" \in i.cli) /\ k \notin i.cli /\ k \notin i.env
  <2>1. merge_file_and_cli(i)[k] = base[k]
    BY <1>2, <1>3, <1>4, <1>7
  <2>2. Documented(i, k) = IF k \in i.toml THEN Given(i, "toml") ELSE Default
    BY <1>1, <1>7 DEF Documented
  <2>3. QED
    BY <1>1, <2>1, <2>2 DEF apply_file_config
<1>8. QED
  BY <1>5, <1>6, <1>7

(* An accepted configuration leaves limits a scan can run under.           *)
LEMMA ValidWorkable ==
    ASSUME NEW c \in [Fields -> Values], validate(c)
    PROVE  /\ Concurrency(c["max_concurrency"]) > 0
           /\ rate_burst(c) > 0
           /\ sqlite_pool_size(Concurrency(c["max_concurrency"])) \in 2 .. 32
<1>1. Concurrency(c["max_concurrency"]) \in 1 .. 500
  BY DEF validate, MAX_CONCURRENCY
<1>2. Rps(c["rate_limit_rps"]) \in Nat
  BY DEF Rps, MAX_RATE_LIMIT_RPS
<1>3. rate_burst(c) > 0
  BY <1>1, <1>2 DEF rate_burst
<1>4. sqlite_pool_size(Concurrency(c["max_concurrency"])) \in 2 .. 32
  BY <1>1 DEF sqlite_pool_size, SQLITE_POOL_CONNECTION_FLOOR, SQLITE_POOL_CONNECTION_CAP
<1>5. QED
  BY <1>1, <1>3, <1>4

-----------------------------------------------------------------------------
(* The steps.                                                              *)

LEMMA InitInv == ASSUME Init PROVE Inv
<1>1. ConfigDefault \in [Fields -> Values]
  BY DEF ConfigDefault, Values, Default, None, Classes
<1>2. LaunchTyped
  <2>1. inv \in [Procs -> [args : Invocation, policy : {"never", "any-failure", "pct>"}, pct : Nat]]
    BY LaunchAssumption DEF Init
  <2>2. code \in [Procs -> {0, 1, 2, 3, Killed, Running}] /\ pc \in [Procs -> Early \cup Late \cup {"end"}]
    BY DEF Init, Early
  <2>3. runs \in [1 .. MaxMs -> [by : SUBSET Procs, ended : BOOLEAN, total : Nat, failed : Nat]]
    BY DEF Init, NoRun
  <2>4. QED
    BY <1>1, <2>1, <2>2, <2>3, LaunchAssumption DEF Init, LaunchTyped
<1>3. PlaceInv /\ ConfInv
  BY DEF Init, PlaceInv, ConfInv, Late
<1>4. RunInv
  BY DEF Init, RunInv, NoRun
<1>5. QED
  BY <1>2, <1>3, <1>4 DEF Inv

(* Another process's step leaves the row of a lone run alone: it touches   *)
(* at most the row and the facts under its own run id.                     *)
LEMMA OthersKept ==
    ASSUME Inv, NEW p \in Procs, NEW q \in Procs, p # q,
           pc'[p] = pc[p], inv'[p] = inv[p], conf'[p] = conf[p], report'[p] = report[p],
           code'[p] = code[p], stamp'[p] = stamp[p],
           stamp'[q] = stamp[q] \/ stamp[q] = 0,
           \A x \in Procs \ {q} : stamp'[x] = stamp[x],
           \A m \in 1 .. MaxMs : m # stamp[q] => runs'[m] = runs[m] /\ facts'[m] = facts[m],
           stamp'[p] > 0, Alone(p)'
    PROVE  RunOf(p)'
<1>1. stamp[p] > 0 /\ stamp[p] \in 1 .. MaxMs
  BY DEF Inv, LaunchTyped
<1>2. Alone(p)
  BY <1>1 DEF Alone
<1>3. RunOf(p)
  BY <1>1, <1>2 DEF Inv, RunInv
<1>4. stamp[q] # stamp[p]
  BY <1>2 DEF Alone
<1>5. runs'[stamp'[p]] = runs[stamp[p]] /\ facts'[stamp'[p]] = facts[stamp[p]]
  BY <1>1, <1>4
<1>6. FailOn(p)' = FailOn(p) /\ Threshold(p)' = Threshold(p)
  BY DEF FailOn, Threshold
<1>7. QED
  BY <1>3, <1>5, <1>6 DEF RunOf

(* What a step of process q may leave, to keep the invariant of the runs.  *)
Owner(q) ==
    /\ \A p \in Procs \ {q} : /\ pc'[p] = pc[p] /\ inv'[p] = inv[p] /\ conf'[p] = conf[p]
                              /\ report'[p] = report[p] /\ code'[p] = code[p]
                              /\ stamp'[p] = stamp[p]
    /\ stamp'[q] = stamp[q] \/ stamp[q] = 0
    /\ \A m \in 1 .. MaxMs : m # stamp[q] => runs'[m] = runs[m] /\ facts'[m] = facts[m]

LEMMA OwnStep ==
    ASSUME Inv, NEW q \in Procs, Owner(q), LaunchTyped',
           stamp[q] \in 1 .. MaxMs /\ runs'[stamp[q]].ended => stamp'[q] = stamp[q],
           stamp'[q] > 0 /\ Alone(q)' => RunOf(q)',
           /\ pc'[q] \in Early => stamp'[q] = 0
           /\ pc'[q] \in Late => stamp'[q] > 0
           /\ pc'[q] # "end" => code'[q] = Running,
           /\ pc'[q] \notin {"start", "config", "end"} => conf'[q] = merge_file_and_cli(inv'[q].args)
           /\ pc'[q] \notin {"start", "config", "log", "validate", "end"} => validate(conf'[q])
    PROVE  Inv'
<1>1. PlaceInv' /\ ConfInv'
  BY DEF Inv, PlaceInv, ConfInv, Owner
<1>2. ASSUME NEW m \in 1 .. MaxMs, runs'[m].ended PROVE \E x \in Procs : stamp'[x] = m
  <2>1. CASE m = stamp[q]
    BY <1>2, <2>1
  <2>2. CASE m # stamp[q]
    <3>1. PICK x \in Procs : stamp[x] = m
      BY <1>2, <2>2 DEF Owner, Inv, RunInv
    <3>2. x # q /\ stamp'[x] = stamp[x]
      BY <2>2, <3>1 DEF Owner
    <3>3. QED
      BY <3>1, <3>2
  <2>3. QED
    BY <2>1, <2>2
<1>3. ASSUME NEW p \in Procs, stamp'[p] > 0, Alone(p)' PROVE RunOf(p)'
  <2>1. CASE p = q
    BY <1>3, <2>1
  <2>2. CASE p # q
    BY <1>3, <2>2, OthersKept DEF Owner
  <2>3. QED
    BY <2>1, <2>2
<1>4. RunInv'
  BY <1>2, <1>3 DEF RunInv
<1>5. QED
  BY <1>1, <1>4 DEF Inv

(* A step that stays before the run id, or that leaves the program there.  *)
LEMMA StartupKept ==
    ASSUME Inv, NEW q \in Procs, NEW step \in Early \cup {"end"}, pc[q] \in Early,
           pc' = [pc EXCEPT ![q] = step],
           UNCHANGED <<stamp, report, clock, runs, facts>>,
           inv' \in [Procs -> [args : Invocation, policy : {"never", "any-failure", "pct>"}, pct : Nat]],
           conf' \in [Procs -> [Fields -> Values]],
           code' \in [Procs -> {0, 1, 2, 3, Killed, Running}],
           \A p \in Procs \ {q} : inv'[p] = inv[p] /\ conf'[p] = conf[p] /\ code'[p] = code[p],
           step # "end" => code'[q] = Running,
           step \notin {"start", "config", "end"} => conf'[q] = merge_file_and_cli(inv'[q].args),
           step \notin {"start", "config", "log", "validate", "end"} => validate(conf'[q])
    PROVE  Inv'
<1>1. stamp[q] = 0 /\ step \notin Late /\ pc'[q] = step
  BY DEF Inv, PlaceInv, LaunchTyped, Early, Late
<1>2. LaunchTyped'
  <2>1. \A p \in Procs : pc'[p] # "end" => report[p] \in Nat \X Nat
    BY DEF Inv, LaunchTyped, Early
  <2>2. pc' \in [Procs -> Early \cup Late \cup {"end"}]
    BY DEF Inv, LaunchTyped
  <2>3. QED
    BY <2>1, <2>2 DEF Inv, LaunchTyped
<1>3. Owner(q)
  BY DEF Owner, Inv, LaunchTyped
<1>4. stamp'[q] = 0 /\ stamp'[q] = stamp[q] /\ ~(stamp'[q] > 0)
  BY <1>1
<1>5. pc'[q] = step /\ (pc'[q] # "end" => code'[q] = Running) /\ pc'[q] \notin Late
  BY <1>1
<1>6. /\ pc'[q] \notin {"start", "config", "end"} => conf'[q] = merge_file_and_cli(inv'[q].args)
      /\ pc'[q] \notin {"start", "config", "log", "validate", "end"} => validate(conf'[q])
  BY <1>5
<1>7. QED
  BY <1>2, <1>3, <1>4, <1>5, <1>6, OwnStep

(* Leaving with an error, or killed: the row is left as it is.             *)
LEMMA LeaveKept ==
    ASSUME Inv, NEW q \in Procs, pc[q] # "end", NEW c \in {1, Killed}, Leave(q, c),
           UNCHANGED <<inv, conf, stamp, report, clock, runs, facts>>
    PROVE  Inv'
<1>1. /\ pc' = [pc EXCEPT ![q] = "end"] /\ code' = [code EXCEPT ![q] = c]
      /\ pc'[q] = "end" /\ code'[q] = c
  BY DEF Leave, Goto, Inv, LaunchTyped
<1>2. LaunchTyped'
  BY <1>1 DEF Inv, LaunchTyped
<1>3. Owner(q)
  BY <1>1 DEF Owner, Inv, LaunchTyped
<1>4. ASSUME stamp'[q] > 0, Alone(q)' PROVE RunOf(q)'
  <2>1. Alone(q) /\ stamp[q] > 0
    BY <1>4 DEF Alone
  <2>2. RunOf(q)
    BY <2>1 DEF Inv, RunInv
  <2>3. code'[q] \notin {0, 2, 3}
    BY <1>1 DEF Killed
  <2>4. QED
    BY <1>1, <2>2, <2>3 DEF RunOf
<1>5. "end" \notin Early /\ "end" \notin Late
  BY DEF Early, Late
<1>6. QED
  BY <1>1, <1>2, <1>3, <1>4, <1>5, OwnStep

LEMMA FailKept == ASSUME Inv, NEW q \in Procs, NEW from, from # "end", Fail(q, from) PROVE Inv'
  BY LeaveKept DEF Fail, RuntimeError

(* A step of the start-up that only moves on.                              *)
LEMMA PassKept ==
    ASSUME Inv, NEW q \in Procs, NEW from \in Early, NEW to \in Early,
           from \notin {"start", "config"}, to \notin {"start", "config", "log", "validate"} => validate(conf[q]),
           pc[q] = from, pc' = [pc EXCEPT ![q] = to],
           UNCHANGED <<inv, conf, stamp, report, code, clock, runs, facts>>
    PROVE  Inv'
<1>1. code[q] = Running /\ from # "end"
  BY DEF Inv, PlaceInv, Early
<1>2. conf[q] = merge_file_and_cli(inv[q].args)
  BY <1>1 DEF Inv, ConfInv
<1>3. QED
  BY <1>1, <1>2, StartupKept DEF Inv, LaunchTyped

LEMMA ParseScanKept == ASSUME Inv, NEW q \in Procs, ParseScan(q) PROVE Inv'
<1>1. pc[q] = "start" /\ pc[q] \in Early /\ code[q] = Running
      /\ UNCHANGED <<conf, stamp, report, clock, runs, facts>>
  BY DEF ParseScan, Early, Inv, PlaceInv
<1>2. PICK w \in Asked(inv[q].args) :
         inv' = [inv EXCEPT ![q] = [args |-> @.args, policy |-> w[1], pct |-> w[2]]]
  BY DEF ParseScan
<1>3. w[1] \in {"never", "any-failure", "pct>"} /\ w[2] \in Nat
  BY <1>2, LaunchAssumption DEF Asked
<1>4. /\ inv' \in [Procs -> [args : Invocation, policy : {"never", "any-failure", "pct>"}, pct : Nat]]
      /\ \A p \in Procs \ {q} : inv'[p] = inv[p]
  BY <1>2, <1>3 DEF Inv, LaunchTyped
<1>5. CASE Leave(q, 2)
  BY <1>1, <1>4, <1>5, StartupKept DEF Leave, Goto, Inv, LaunchTyped
<1>6. CASE Goto(q, "config") /\ UNCHANGED code
  <2>1. "config" \in Early
    BY DEF Early
  <2>2. QED
    BY <1>1, <1>4, <1>6, <2>1, StartupKept DEF Goto, Inv, LaunchTyped
<1>7. QED
  BY <1>5, <1>6 DEF ParseScan

LEMMA BuildConfigKept == ASSUME Inv, NEW q \in Procs, BuildConfig(q) PROVE Inv'
<1>1. /\ pc[q] = "config" /\ pc[q] \in Early /\ code[q] = Running /\ "log" \in Early
      /\ pc' = [pc EXCEPT ![q] = "log"]
      /\ conf' = [conf EXCEPT ![q] = merge_file_and_cli(inv[q].args)]
      /\ UNCHANGED <<inv, code, stamp, report, clock, runs, facts>>
  BY DEF BuildConfig, Goto, Early, Inv, PlaceInv
<1>2. merge_file_and_cli(inv[q].args) \in [Fields -> Values]
  BY MergeTyped DEF Inv, LaunchTyped
<1>3. /\ conf' \in [Procs -> [Fields -> Values]] /\ conf'[q] = merge_file_and_cli(inv'[q].args)
      /\ \A p \in Procs \ {q} : conf'[p] = conf[p]
  BY <1>1, <1>2 DEF Inv, LaunchTyped
<1>4. QED
  BY <1>1, <1>3, StartupKept DEF Inv, LaunchTyped

(* The start-up, in its order.                                             *)
LEMMA StartupInv == ASSUME Inv, NEW q \in Procs, Startup(q) PROVE Inv'
<1>1. ASSUME NEW from \in {"agent", "input", "pool", "clients", "migrate", "whois", "rules",
                           "gitleaks", "geoip"},
             NEW to \in Early, pc[q] = from, pc' = [pc EXCEPT ![q] = to],
             to \notin {"start", "config", "log", "validate"},
             UNCHANGED <<inv, conf, stamp, report, code, clock, runs, facts>>
      PROVE  Inv'
  <2>1. from \in Early /\ from \notin {"start", "config"} /\ validate(conf[q])
    BY <1>1 DEF Early, Inv, ConfInv
  <2>2. QED
    BY <1>1, <2>1, PassKept
<1>2. CASE ParseScan(q) \/ BuildConfig(q)
  BY <1>2, ParseScanKept, BuildConfigKept
<1>3. CASE \/ LoadFileFails(q) \/ LoggingFails(q) \/ InputFails(q) \/ PoolFails(q) \/ ClientsFail(q)
           \/ MigrationsFail(q) \/ RulesetFails(q) \/ GitleaksFails(q)
  BY <1>3, FailKept DEF LoadFileFails, LoggingFails, InputFails, PoolFails, ClientsFail,
                        MigrationsFail, RulesetFails, GitleaksFails
<1>4. CASE InitLogging(q)
  <2>1. pc[q] = "log" /\ pc' = [pc EXCEPT ![q] = "validate"] /\ "log" \in Early /\ "validate" \in Early
    BY <1>4 DEF InitLogging, Pass, Goto, Early
  <2>2. QED
    BY <1>4, <2>1, PassKept DEF InitLogging, Pass
<1>5. CASE Validate(q)
  <2>1. CASE validate(conf[q])
    <3>1. pc[q] = "validate" /\ pc' = [pc EXCEPT ![q] = "agent"] /\ "validate" \in Early /\ "agent" \in Early
      BY <1>5, <2>1 DEF Validate, Pass, Goto, Early
    <3>2. QED
      BY <1>5, <2>1, <3>1, PassKept DEF Validate, Pass
  <2>2. CASE ~validate(conf[q])
    BY <1>5, <2>2, FailKept DEF Validate
  <2>3. QED
    BY <2>1, <2>2
<1>6. CASE \/ UserAgent(q) \/ OpenInput(q) \/ InitPool(q) \/ InitClients(q) \/ RunMigrations(q)
  <2>1. {"input", "pool", "clients", "migrate", "whois"} \subseteq Early
    BY DEF Early
  <2>2. QED
    BY <1>1, <1>6, <2>1 DEF UserAgent, OpenInput, InitPool, InitClients, RunMigrations, Pass, Goto
<1>7. CASE \/ InitWhois(q) \/ InitRuleset(q) \/ InitGitleaks(q) \/ InitGeoip(q)
  <2>1. {"rules", "gitleaks", "geoip", "stamp"} \subseteq Early
    BY DEF Early
  <2>2. QED
    BY <1>1, <1>7, <2>1 DEF InitWhois, InitRuleset, InitGitleaks, InitGeoip, Optional, Pass, Goto
<1>8. QED
  BY <1>2, <1>3, <1>4, <1>5, <1>6, <1>7 DEF Startup

(* The run id is drawn.  A completed run under the same millisecond would  *)
(* be another process's, so a lone run starts on a row that has not ended. *)
LEMMA StampRunKept == ASSUME Inv, NEW q \in Procs, StampRun(q) PROVE Inv'
<1>1. /\ pc[q] = "stamp" /\ pc' = [pc EXCEPT ![q] = "insert"]
      /\ stamp' = [stamp EXCEPT ![q] = clock]
      /\ UNCHANGED <<inv, conf, report, code, clock, runs, facts>>
  BY DEF StampRun, Goto
<1>2. /\ stamp[q] = 0 /\ code[q] = Running /\ validate(conf[q])
      /\ conf[q] = merge_file_and_cli(inv[q].args)
  BY <1>1 DEF Inv, PlaceInv, ConfInv, Early
<1>3. /\ pc'[q] = "insert" /\ stamp'[q] = clock /\ clock \in 1 .. MaxMs /\ clock > 0
      /\ "insert" \in Late /\ "insert" \notin Early
  BY <1>1, LaunchAssumption DEF Inv, LaunchTyped, Early, Late
<1>4. LaunchTyped'
  BY <1>1, <1>3, LaunchAssumption DEF Inv, LaunchTyped
<1>5. Owner(q)
  BY <1>1, <1>2 DEF Owner, Inv, LaunchTyped
<1>6. ASSUME Alone(q)' PROVE RunOf(q)'
  <2>1. ~runs[clock].ended
    <3>1. SUFFICES ASSUME runs[clock].ended PROVE FALSE
      OBVIOUS
    <3>2. PICK x \in Procs : stamp[x] = clock
      BY <1>3, <3>1 DEF Inv, RunInv
    <3>3. x # q /\ stamp'[x] = stamp'[q]
      BY <1>1, <1>2, <1>3, <3>2 DEF Inv, LaunchTyped
    <3>4. QED
      BY <1>6, <3>3 DEF Alone
  <2>2. code'[q] \notin {0, 2, 3}
    BY <1>1, <1>2 DEF Running
  <2>3. QED
    BY <1>1, <1>3, <2>1, <2>2 DEF RunOf
<1>7. ~(stamp[q] \in 1 .. MaxMs)
  BY <1>2
<1>8. /\ conf'[q] = merge_file_and_cli(inv'[q].args) /\ validate(conf'[q]) /\ code'[q] = Running
  BY <1>1, <1>2
<1>9. QED
  BY <1>3, <1>4, <1>5, <1>6, <1>7, <1>8, OwnStep

(* A step of the run before its row is closed: it moves on and may add to  *)
(* the row's writers, to the facts under its id and to its own report.     *)
LEMMA RunStep ==
    ASSUME Inv, NEW q \in Procs, pc[q] \in Late, pc[q] # "policy",
           NEW step \in Late, pc' = [pc EXCEPT ![q] = step],
           UNCHANGED <<inv, conf, stamp, code, clock>>,
           report' = [p \in Procs |-> report'[p]], report'[q] \in Nat \X Nat, facts' \in [1 .. MaxMs -> Nat],
           runs' \in [1 .. MaxMs -> [by : SUBSET Procs, ended : BOOLEAN, total : Nat, failed : Nat]],
           \A p \in Procs \ {q} : report'[p] = report[p],
           \A m \in 1 .. MaxMs : m # stamp[q] => runs'[m] = runs[m] /\ facts'[m] = facts[m],
           \/ step \in {"insert", "server", "scan", "count"} /\ runs'[stamp[q]].ended = runs[stamp[q]].ended
           \/ /\ step = "stats" /\ runs' = runs /\ report'[q][2] = facts'[stamp[q]]
           \/ /\ step = "policy" /\ pc[q] = "stats" /\ UNCHANGED <<report, facts>>
              /\ runs'[stamp[q]].ended /\ runs'[stamp[q]].total = report[q][1]
              /\ runs'[stamp[q]].failed = report[q][2]
    PROVE  Inv'
<1>1. /\ stamp[q] > 0 /\ stamp[q] \in 1 .. MaxMs /\ code[q] = Running
      /\ conf[q] = merge_file_and_cli(inv[q].args) /\ validate(conf[q])
  <2>1. pc[q] \notin {"start", "config", "log", "validate", "end"}
    BY DEF Late
  <2>2. stamp[q] > 0 /\ code[q] = Running
    BY <2>1 DEF Inv, PlaceInv
  <2>3. stamp[q] \in 1 .. MaxMs
    BY <2>2 DEF Inv, LaunchTyped
  <2>4. conf[q] = merge_file_and_cli(inv[q].args) /\ validate(conf[q])
    BY <2>1 DEF Inv, ConfInv
  <2>5. QED
    BY <2>2, <2>3, <2>4
<1>2. pc'[q] = step /\ step \notin Early /\ step # "end" /\ step \in Late
  BY DEF Inv, LaunchTyped, Early, Late
<1>3. LaunchTyped'
  BY DEF Inv, LaunchTyped
<1>4. Owner(q)
  BY DEF Owner, Inv, LaunchTyped
<1>5. ASSUME Alone(q)' PROVE RunOf(q)'
  <2>1. RunOf(q)
    BY <1>1, <1>5 DEF Inv, RunInv, Alone
  <2>2. ~runs[stamp[q]].ended
    BY <2>1 DEF RunOf, Late
  <2>3. code'[q] \notin {0, 2, 3} /\ stamp'[q] = stamp[q]
    BY <1>1 DEF Running
  <2>4. CASE step \in {"insert", "server", "scan", "count"} /\ runs'[stamp[q]].ended = runs[stamp[q]].ended
    BY <1>2, <2>2, <2>3, <2>4 DEF RunOf
  <2>5. CASE step = "stats" /\ runs' = runs /\ report'[q][2] = facts'[stamp[q]]
    BY <1>2, <2>2, <2>3, <2>5 DEF RunOf
  <2>6. CASE /\ step = "policy" /\ pc[q] = "stats" /\ UNCHANGED <<report, facts>>
             /\ runs'[stamp[q]].ended /\ runs'[stamp[q]].total = report[q][1]
             /\ runs'[stamp[q]].failed = report[q][2]
    <3>1. report[q][2] = facts[stamp[q]]
      BY <2>1, <2>6 DEF RunOf
    <3>2. QED
      BY <1>2, <2>3, <2>6, <3>1 DEF RunOf
  <2>7. QED
    BY <2>4, <2>5, <2>6
<1>6. QED
  BY <1>1, <1>2, <1>3, <1>4, <1>5, OwnStep

LEMMA InsertRunMetadataKept == ASSUME Inv, NEW q \in Procs, InsertRunMetadata(q) PROVE Inv'
<1>1. /\ pc[q] = "insert" /\ pc' = [pc EXCEPT ![q] = "server"] /\ pc[q] \in Late /\ "server" \in Late
      /\ runs' = [runs EXCEPT ![stamp[q]].by = @ \cup {q}]
      /\ UNCHANGED <<inv, conf, stamp, report, code, clock, facts>>
  BY DEF InsertRunMetadata, Goto, Late
<1>2. stamp[q] \in 1 .. MaxMs
  BY <1>1 DEF Inv, PlaceInv, LaunchTyped
<1>3. /\ runs' \in [1 .. MaxMs -> [by : SUBSET Procs, ended : BOOLEAN, total : Nat, failed : Nat]]
      /\ \A m \in 1 .. MaxMs : m # stamp[q] => runs'[m] = runs[m]
      /\ runs'[stamp[q]].ended = runs[stamp[q]].ended
  BY <1>1, <1>2 DEF Inv, LaunchTyped
<1>4. QED
  BY <1>1, <1>3, RunStep DEF Inv, LaunchTyped

LEMMA ScanKept == ASSUME Inv, NEW q \in Procs, Scan(q) PROVE Inv'
<1>1. /\ pc[q] = "scan" /\ pc' = [pc EXCEPT ![q] = "count"] /\ pc[q] \in Late /\ "count" \in Late
      /\ UNCHANGED <<inv, conf, stamp, code, clock, runs>>
  BY DEF Scan, Goto, Late
<1>2. PICK o \in Outcomes : /\ report' = [report EXCEPT ![q] = <<o[1], 0>>]
                            /\ facts' = [facts EXCEPT ![stamp[q]] = @ + o[2]]
  BY DEF Scan
<1>3. o[1] \in Nat /\ o[2] \in Nat
  BY LaunchAssumption
<1>4. stamp[q] \in 1 .. MaxMs
  BY <1>1 DEF Inv, PlaceInv, LaunchTyped
<1>5. /\ report' = [p \in Procs |-> report'[p]] /\ report'[q] \in Nat \X Nat /\ facts' \in [1 .. MaxMs -> Nat]
      /\ \A p \in Procs \ {q} : report'[p] = report[p]
      /\ \A m \in 1 .. MaxMs : m # stamp[q] => facts'[m] = facts[m]
  <2>1. facts' \in [1 .. MaxMs -> Nat] /\ \A m \in 1 .. MaxMs : m # stamp[q] => facts'[m] = facts[m]
    BY <1>2, <1>3, <1>4 DEF Inv, LaunchTyped
  <2>2. report' = [p \in Procs |-> report'[p]] /\ report'[q] = <<o[1], 0>>
        /\ \A p \in Procs \ {q} : report'[p] = report[p]
    BY <1>2 DEF Inv, LaunchTyped
  <2>3. QED
    BY <1>3, <2>1, <2>2
<1>6. QED
  BY <1>1, <1>5, RunStep DEF Inv, LaunchTyped

LEMMA CountFactRowsKept == ASSUME Inv, NEW q \in Procs, CountFactRows(q) PROVE Inv'
<1>1. /\ pc[q] = "count" /\ pc' = [pc EXCEPT ![q] = "stats"] /\ pc[q] \in Late /\ "stats" \in Late
      /\ report' = [report EXCEPT ![q] = <<@[1], facts[stamp[q]]>>]
      /\ UNCHANGED <<inv, conf, stamp, code, clock, runs, facts>>
  BY DEF CountFactRows, Goto, Late
<1>2. stamp[q] \in 1 .. MaxMs
  BY <1>1 DEF Inv, PlaceInv, LaunchTyped
<1>3. facts[stamp[q]] \in Nat /\ report[q] \in Nat \X Nat
  BY <1>1, <1>2 DEF Inv, LaunchTyped
<1>4. /\ report' = [p \in Procs |-> report'[p]] /\ report'[q] \in Nat \X Nat /\ report'[q][2] = facts'[stamp[q]]
      /\ \A p \in Procs \ {q} : report'[p] = report[p]
  BY <1>1, <1>3 DEF Inv, LaunchTyped
<1>5. QED
  BY <1>1, <1>4, RunStep DEF Inv, LaunchTyped

LEMMA UpdateRunStatsKept == ASSUME Inv, NEW q \in Procs, UpdateRunStats(q) PROVE Inv'
<1>1. /\ pc[q] = "stats" /\ pc' = [pc EXCEPT ![q] = "policy"] /\ pc[q] \in Late /\ "policy" \in Late
      /\ runs' = [runs EXCEPT ![stamp[q]] = Ended(@, report[q])]
      /\ UNCHANGED <<inv, conf, stamp, code, clock, report, facts>>
  BY DEF UpdateRunStats, Goto, Late
<1>2. stamp[q] \in 1 .. MaxMs /\ report[q] \in Nat \X Nat
  BY <1>1 DEF Inv, PlaceInv, LaunchTyped
<1>3. /\ Ended(runs[stamp[q]], report[q]) \in [by : SUBSET Procs, ended : BOOLEAN, total : Nat, failed : Nat]
      /\ Ended(runs[stamp[q]], report[q]).ended
      /\ Ended(runs[stamp[q]], report[q]).total = report[q][1]
      /\ Ended(runs[stamp[q]], report[q]).failed = report[q][2]
  BY <1>2 DEF Ended, Inv, LaunchTyped
<1>4. /\ runs' \in [1 .. MaxMs -> [by : SUBSET Procs, ended : BOOLEAN, total : Nat, failed : Nat]]
      /\ runs'[stamp[q]] = Ended(runs[stamp[q]], report[q])
      /\ \A m \in 1 .. MaxMs : m # stamp[q] => runs'[m] = runs[m]
  BY <1>1, <1>2, <1>3 DEF Inv, LaunchTyped
<1>5. /\ report' = [p \in Procs |-> report'[p]] /\ report'[q] \in Nat \X Nat
      /\ facts' \in [1 .. MaxMs -> Nat] /\ \A p \in Procs \ {q} : report'[p] = report[p]
      /\ \A m \in 1 .. MaxMs : m # stamp[q] => runs'[m] = runs[m] /\ facts'[m] = facts[m]
  BY <1>1, <1>2, <1>4 DEF Inv, LaunchTyped
<1>6. /\ runs'[stamp[q]].ended /\ runs'[stamp[q]].total = report[q][1]
      /\ runs'[stamp[q]].failed = report[q][2] /\ pc[q] # "policy"
  BY <1>1, <1>3, <1>4
<1>7. QED
  BY <1>1, <1>4, <1>5, <1>6, RunStep

LEMMA ExitKept == ASSUME Inv, NEW q \in Procs, Exit(q) PROVE Inv'
<1> DEFINE c == evaluate_exit_code(FailOn(q), Threshold(q), report[q][1], report[q][2])
<1>1. /\ pc[q] = "policy" /\ pc' = [pc EXCEPT ![q] = "end"] /\ code' = [code EXCEPT ![q] = c]
      /\ UNCHANGED <<inv, conf, stamp, report, clock, runs, facts>>
  BY DEF Exit, Leave, Goto
<1>2. c \in {0, 2, 3}
  BY DEF evaluate_exit_code
<1> HIDE DEF c
<1>3. pc'[q] = "end" /\ code'[q] = c /\ "end" \notin Early /\ "end" \notin Late
  BY <1>1 DEF Inv, LaunchTyped, Early, Late
<1>4. LaunchTyped'
  BY <1>1, <1>2 DEF Inv, LaunchTyped
<1>5. Owner(q)
  BY <1>1 DEF Owner, Inv, LaunchTyped
<1>6. ASSUME stamp'[q] > 0, Alone(q)' PROVE RunOf(q)'
  <2>1. RunOf(q)
    BY <1>1, <1>6 DEF Inv, RunInv, Alone
  <2>2. /\ runs[stamp[q]].ended /\ runs[stamp[q]].failed = facts[stamp[q]]
        /\ runs[stamp[q]].total = report[q][1] /\ runs[stamp[q]].failed = report[q][2]
    BY <1>1, <2>1 DEF RunOf
  <2>3. code'[q] = evaluate_exit_code(FailOn(q), Threshold(q), runs[stamp[q]].total, runs[stamp[q]].failed)
    BY <1>3, <2>2 DEF c
  <2>4. FailOn(q)' = FailOn(q) /\ Threshold(q)' = Threshold(q)
    BY <1>1 DEF FailOn, Threshold
  <2>5. QED
    BY <1>1, <1>3, <2>2, <2>3, <2>4 DEF RunOf
<1>7. QED
  BY <1>1, <1>3, <1>4, <1>5, <1>6, OwnStep

LEMMA RunAndReportInv == ASSUME Inv, NEW q \in Procs, RunAndReport(q) PROVE Inv'
<1>1. CASE InsertRunFails(q) \/ BindFails(q) \/ ScanFails(q) \/ FinalizeFails(q)
  BY <1>1, FailKept DEF InsertRunFails, BindFails, ScanFails, FinalizeFails
<1>2. CASE StatusServer(q)
  <2>1. /\ pc[q] = "server" /\ pc' = [pc EXCEPT ![q] = "scan"] /\ pc[q] \in Late /\ "scan" \in Late
        /\ UNCHANGED <<inv, conf, stamp, report, code, clock, runs, facts>>
    BY <1>2 DEF StatusServer, Pass, Goto, Late
  <2>2. QED
    BY <2>1, RunStep DEF Inv, LaunchTyped
<1>3. QED
  BY <1>1, <1>2, StampRunKept, InsertRunMetadataKept, ScanKept, CountFactRowsKept,
     UpdateRunStatsKept, ExitKept DEF RunAndReport


LEMMA SummaryKept == ASSUME Inv, NEW q \in Procs, Summary(q) PROVE Inv'
<1>1. /\ pc[q] = "start" /\ pc[q] \in Early /\ pc' = [pc EXCEPT ![q] = "end"]
      /\ UNCHANGED <<inv, conf, stamp, clock, runs, facts>>
      /\ \E c \in {0, 1} : code' = [code EXCEPT ![q] = c]
      /\ report' = report \/ \E x : report' = [report EXCEPT ![q] = x]
  BY DEF Summary, Leave, Goto, Early
<1>2. stamp[q] = 0 /\ pc'[q] = "end" /\ "end" \notin Early /\ "end" \notin Late
  BY <1>1 DEF Inv, PlaceInv, LaunchTyped, Early, Late
<1>3. /\ report' = [p \in Procs |-> report'[p]]
      /\ \A p \in Procs \ {q} : report'[p] = report[p] /\ pc'[p] = pc[p] /\ code'[p] = code[p]
  BY <1>1 DEF Inv, LaunchTyped
<1>4. code' \in [Procs -> {0, 1, 2, 3, Killed, Running}]
      /\ pc' \in [Procs -> Early \cup Late \cup {"end"}]
  BY <1>1 DEF Inv, LaunchTyped
<1>5. LaunchTyped'
  BY <1>1, <1>2, <1>3, <1>4 DEF Inv, LaunchTyped
<1>6. Owner(q)
  BY <1>1, <1>3 DEF Owner
<1>7. stamp'[q] = stamp[q] /\ ~(stamp'[q] > 0)
  BY <1>1, <1>2
<1>8. QED
  BY <1>2, <1>5, <1>6, <1>7, OwnStep

LEMMA TickKept == ASSUME Inv, Tick PROVE Inv'
<1>1. clock' \in 1 .. MaxMs /\ UNCHANGED <<pc, inv, conf, stamp, report, code, runs, facts>>
  BY LaunchAssumption DEF Tick, Inv, LaunchTyped
<1>2. LaunchTyped' /\ PlaceInv' /\ ConfInv'
  BY <1>1 DEF Inv, LaunchTyped, PlaceInv, ConfInv
<1>3. RunInv'
  BY <1>1 DEF Inv, RunInv, RunOf, Alone, FailOn, Threshold
<1>4. QED
  BY <1>2, <1>3 DEF Inv

LEMMA StepInv == ASSUME Inv, [Next]_vars PROVE Inv'
<1>1. CASE UNCHANGED vars
  <2>1. LaunchTyped' /\ PlaceInv' /\ ConfInv'
    BY <1>1 DEF vars, Inv, LaunchTyped, PlaceInv, ConfInv
  <2>2. RunInv'
    BY <1>1 DEF vars, Inv, RunInv, RunOf, Alone, FailOn, Threshold
  <2>3. QED
    BY <2>1, <2>2 DEF Inv
<1>2. ASSUME NEW p \in Procs, Crash(p) PROVE Inv'
  BY <1>2, LeaveKept DEF Crash
<1>3. QED
  BY <1>1, <1>2, StartupInv, RunAndReportInv, SummaryKept, TickKept DEF Next

LEMMA InvAlways == Spec => []Inv
  BY InitInv, StepInv, PTL DEF Spec

-----------------------------------------------------------------------------

(* Every scan starts with the settings of the highest layer that gives     *)
(* them, for each key of the configuration file, and under limits it can   *)
(* run with (merge_file_and_cli, init_scan_resources).                     *)
THEOREM SettingsAlwaysSound == Spec => []SettingsSound
<1>1. ASSUME Inv PROVE ExplicitSettingWins
  <2> SUFFICES ASSUME NEW p \in Procs, pc[p] \notin {"start", "config", "end"}, inv[p].args.matches,
                      NEW k \in FILE_CONFIG_OVERLAY_KEYS, Documented(inv[p].args, k) # Default
               PROVE  conf[p][k] = Documented(inv[p].args, k)
    BY DEF ExplicitSettingWins
  <2>1. inv[p].args \in Invocation /\ conf[p] = merge_file_and_cli(inv[p].args)
    BY <1>1 DEF Inv, LaunchTyped, ConfInv
  <2>2. QED
    BY <2>1, MergePrecedence
<1>2. ASSUME Inv PROVE LimitsWorkable
  <2> SUFFICES ASSUME NEW p \in Procs, pc[p] \notin {"start", "config", "log", "validate", "end"}
               PROVE  /\ Concurrency(conf[p]["max_concurrency"]) > 0
                      /\ rate_burst(conf[p]) > 0
                      /\ sqlite_pool_size(Concurrency(conf[p]["max_concurrency"])) \in 2 .. 32
    BY DEF LimitsWorkable
  <2>1. conf[p] \in [Fields -> Values] /\ validate(conf[p])
    BY <1>2 DEF Inv, LaunchTyped, ConfInv
  <2>2. QED
    BY <2>1, ValidWorkable
<1>3. QED
  BY <1>1, <1>2, InvAlways, PTL DEF SettingsSound

(* A run that the history lists as completed has counted the rows of the   *)
(* scan that wrote it, however scans, failures and crashes of processes on *)
(* one database interleave, as long as no other scan drew the same         *)
(* millisecond (update_run_stats, count_run_fact_rows).                    *)
THEOREM CompletedRunsComplete == Spec => []CompletedRunComplete
<1>1. ASSUME Inv PROVE CompletedRunComplete
  BY <1>1 DEF Inv, RunInv, RunOf, Alone, CompletedRunComplete
<1>2. QED
  BY <1>1, InvAlways, PTL

(* The verdict of the policy on a run's counts.                            *)
Verdict(c, policy, pct, total, failed) ==
    /\ policy = "never" => c = 0
    /\ policy = "any-failure" => c = IF failed > 0 THEN 2 ELSE 0
    /\ policy = "pct>" =>
         /\ c = 3 <=> total = 0
         /\ total > 0 /\ 100 * failed > pct * total => c = 2
         /\ total > 0 /\ 100 * failed < pct * total => c = 0
         /\ total > 0 /\ 100 * failed = pct * total =>
              c = IF <<failed, total>> \in RoundedUp THEN 2 ELSE 0

LEMMA VerdictMeaning ==
    ASSUME NEW policy \in {"never", "any-failure", "pct>"}, NEW pct \in Nat,
           NEW total \in Nat, NEW failed \in Nat
    PROVE  Verdict(evaluate_exit_code(policy, pct, total, failed), policy, pct, total, failed)
<1>1. CASE policy \in {"never", "any-failure"}
  BY <1>1 DEF evaluate_exit_code, Verdict
<1>2. CASE policy = "pct>"
  <2> DEFINE rate == 100 * failed
             limit == pct * total
  <2>1. rate \in Nat /\ limit \in Nat
    OBVIOUS
  <2>2. /\ rate > limit => PctExceeds(failed, total, pct)
        /\ rate < limit => ~PctExceeds(failed, total, pct)
        /\ rate = limit => (PctExceeds(failed, total, pct) <=> <<failed, total>> \in RoundedUp)
    BY <2>1 DEF PctExceeds
  <2>3. evaluate_exit_code(policy, pct, total, failed) =
          IF total = 0 THEN 3 ELSE IF PctExceeds(failed, total, pct) THEN 2 ELSE 0
    BY <1>2 DEF evaluate_exit_code
  <2> HIDE DEF rate, limit
  <2>4. total > 0 => total # 0
    OBVIOUS
  <2>5. LET c == evaluate_exit_code(policy, pct, total, failed) IN
          /\ c = 3 <=> total = 0
          /\ total > 0 /\ rate > limit => c = 2
          /\ total > 0 /\ rate < limit => c = 0
          /\ total > 0 /\ rate = limit => c = IF <<failed, total>> \in RoundedUp THEN 2 ELSE 0
    BY <2>2, <2>3, <2>4
  <2>6. QED
    BY <1>2, <2>5 DEF Verdict, rate, limit
<1>3. QED
  BY <1>1, <1>2

(* The exit code of a finished scan is fixed by the policy and the counts  *)
(* the database keeps for its run; at the threshold by the rates that the  *)
(* division rounds up (evaluate_exit_code).                                *)
THEOREM ExitCodesMatch == Spec => []ExitCodeMatchesRun
<1>1. ASSUME Inv PROVE ExitCodeMatchesRun
  <2> SUFFICES ASSUME NEW p \in Procs, code[p] \in {0, 2, 3}, stamp[p] > 0,
                      \A q \in Procs \ {p} : stamp[q] # stamp[p]
               PROVE  /\ runs[stamp[p]].ended /\ runs[stamp[p]].failed = facts[stamp[p]]
                      /\ Verdict(code[p], FailOn(p), Threshold(p), runs[stamp[p]].total,
                                 facts[stamp[p]])
    BY DEF ExitCodeMatchesRun, Verdict
  <2> DEFINE row == runs[stamp[p]]
  <2>1. RunOf(p)
    BY <1>1 DEF Inv, RunInv, Alone
  <2>2. /\ row.ended /\ row.failed = facts[stamp[p]]
        /\ code[p] = evaluate_exit_code(FailOn(p), Threshold(p), row.total, row.failed)
    BY <2>1 DEF RunOf
  <2>3. stamp[p] \in 1 .. MaxMs
    BY <1>1 DEF Inv, LaunchTyped
  <2>4. row.total \in Nat /\ row.failed \in Nat
    BY <1>1, <2>3 DEF Inv, LaunchTyped
  <2>5. FailOn(p) \in {"never", "any-failure", "pct>"} /\ Threshold(p) \in Nat
    BY <1>1 DEF Inv, LaunchTyped, FailOn, Threshold
  <2> HIDE DEF row
  <2>6. Verdict(code[p], FailOn(p), Threshold(p), row.total, row.failed)
    BY <2>2, <2>4, <2>5, VerdictMeaning
  <2>7. QED
    BY <2>2, <2>6 DEF row
<1>2. QED
  BY <1>1, InvAlways, PTL
=============================================================================
