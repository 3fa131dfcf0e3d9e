------------------------------ MODULE Settings ------------------------------
(***************************************************************************)
(* How a scan's settings are put together: clap's view of the command line *)
(* and the environment, the TOML overlay, the defaults of the library, and *)
(* the merge of the three.  A setting's value is where it came from and a  *)
(* class of its content (a proper value, zero or empty, beyond the limit,  *)
(* not parsable); the text itself does not matter to any decision.         *)
(***************************************************************************)
EXTENDS Naturals, FiniteSets

FILE_CONFIG_OVERLAY_KEYS ==
    {"file", "log_level", "log_format", "db_path", "max_concurrency",
     "timeout_seconds", "user_agent", "rate_limit_rps", "fingerprints",
     "geoip", "status_port", "enable_whois", "cache_dir",
     "scan_external_scripts", "fail_on", "fail_on_pct_threshold", "log_file",
     "drain_timeout_secs"}

SCAN_CONFIG_ARG_IDS == FILE_CONFIG_OVERLAY_KEYS \cup {"no_whois"}

\* Every argument of `scan` that carries a setting; all but the positional
\* file, --no-whois and -v/-q can also be given in the environment.
ScanArgs ==
    SCAN_CONFIG_ARG_IDS \cup {"verbosity", "allow_degraded_fingerprints"}

EnvArgs == ScanArgs \ {"file", "no_whois", "verbosity"}

\* The fields of Config that a user can set.
Fields ==
    FILE_CONFIG_OVERLAY_KEYS
        \cup {"log_level_filter_override", "allow_degraded_fingerprints"}

\* Settings whose text can be wrong: names out of a fixed list, switches
\* (true, 1, yes, on and their opposites) and numbers.
Enumerated == {"log_level", "log_format", "fail_on"}

Switches == {"enable_whois", "scan_external_scripts"}

Numeric == {"max_concurrency", "timeout_seconds", "rate_limit_rps",
            "status_port", "fail_on_pct_threshold", "drain_timeout_secs"}

Typed == Enumerated \cup Switches \cup Numeric

Layers == {"cli", "env", "toml"}

Classes == {"ok", "zero", "huge", "junk"}

\* One run of the program: which arguments each layer gives, what class of
\* value it gives them, and whether the caller hands over clap's matches.
Invocation ==
    [cli : SUBSET ScanArgs, env : SUBSET EnvArgs,
     toml : SUBSET FILE_CONFIG_OVERLAY_KEYS, class : [Layers -> Classes],
     matches : BOOLEAN]

Values == [from : Layers \cup {"default", "none", "off"}, class : Classes]

Default == [from |-> "default", class |-> "ok"]

None == [from |-> "none", class |-> "ok"]

Off == [from |-> "off", class |-> "ok"]

Given(i, layer) == [from |-> layer, class |-> i.class[layer]]

\* clap: the command line beats the environment, which beats the default.
value_source(i, k) ==
    IF k \in i.cli THEN "cli" ELSE IF k \in i.env THEN "env" ELSE "default"

\* clap refuses a typed argument whose text does not parse, a threshold past
\* 100 percent, and --no-whois next to an explicit --enable-whois.
UsageError(i) ==
    \/ \E k \in Typed : /\ value_source(i, k) # "default"
                        /\ i.class[value_source(i, k)] = "junk"
    \/ /\ value_source(i, "fail_on_pct_threshold") # "default"
       /\ i.class[value_source(i, "fail_on_pct_threshold")] = "huge"
    \/ "no_whois" \in i.cli /\ value_source(i, "enable_whois") # "default"

\* The overlay is deserialised as a whole: one value of the wrong type is an
\* error even when a higher layer overrides that key.
FileUnreadable(i) == i.class["toml"] = "junk" /\ i.toml \cap Typed # {}

config_from_scan_command(i) ==
    [k \in Fields |->
        CASE k = "enable_whois" /\ "no_whois" \in i.cli -> Off
          [] k = "log_level_filter_override" ->
                IF "verbosity" \in i.cli THEN Given(i, "cli") ELSE None
          [] OTHER ->
                IF value_source(i, k) = "default" THEN Default
                ELSE Given(i, value_source(i, k))]

\* Config::default: the same defaults as clap's, except that no log file is
\* named.
ConfigDefault ==
    [k \in Fields |->
        IF k \in {"log_file", "log_level_filter_override"} THEN None
        ELSE Default]

apply_file_config(c, i) ==
    [k \in Fields |-> IF k \in i.toml THEN Given(i, "toml") ELSE c[k]]

\* Mutated form: only the command line counts as explicit.
ExplicitCliOnly(i) ==
    {k \in SCAN_CONFIG_ARG_IDS : value_source(i, k) = "cli"}
        \cup (IF "verbosity" \in i.cli THEN {"log_level_filter_override"}
              ELSE {})

get_explicit_config_keys(i) ==
    {k \in SCAN_CONFIG_ARG_IDS : value_source(i, k) # "default"}
        \cup (IF "verbosity" \in i.cli THEN {"log_level_filter_override"}
              ELSE {})

\* Without clap's matches every key counts as explicit, --no-whois included.
\* allow_degraded_fingerprints is in neither list and is never copied.
merge_file_and_cli(i) ==
    LET base     == apply_file_config(ConfigDefault, i)
        cli      == config_from_scan_command(i)
        explicit == IF i.matches THEN get_explicit_config_keys(i)
                    ELSE SCAN_CONFIG_ARG_IDS
                            \cup {"log_level_filter_override"}
    IN  [k \in Fields |->
            IF k = "enable_whois" /\ "no_whois" \in explicit THEN Off
            ELSE IF k \in explicit THEN cli[k] ELSE base[k]]

-----------------------------------------------------------------------------
(* The numbers the limits are computed from.                               *)

MAX_CONCURRENCY == 500

MAX_RATE_LIMIT_RPS == 100

Concurrency(v) ==
    CASE v.class = "zero" -> 0
      [] v.class = "huge" -> MAX_CONCURRENCY + 1
      [] OTHER -> IF v.from = "default" THEN 30 ELSE 1

Rps(v) ==
    CASE v.class = "zero" -> 0
      [] v.class = "huge" -> MAX_RATE_LIMIT_RPS + 1
      [] OTHER -> IF v.from = "default" THEN 15 ELSE 1

validate(c) ==
    /\ Concurrency(c["max_concurrency"]) \in 1 .. MAX_CONCURRENCY
    /\ Rps(c["rate_limit_rps"]) <= MAX_RATE_LIMIT_RPS
    /\ c["timeout_seconds"].class # "zero"
    /\ c["fail_on_pct_threshold"].class # "huge"
    /\ c["user_agent"].class # "zero"

\* The burst of the global limiter; 0 requests per second disable it.
rate_burst(c) ==
    LET n == Concurrency(c["max_concurrency"])
        r == Rps(c["rate_limit_rps"])
    IN  IF r > 0 /\ 2 * r < n THEN 2 * r ELSE n

SQLITE_POOL_CONNECTION_FLOOR == 2

SQLITE_POOL_CONNECTION_CAP == 32

sqlite_pool_size(n) ==
    IF n < SQLITE_POOL_CONNECTION_FLOOR THEN SQLITE_POOL_CONNECTION_FLOOR
    ELSE IF n > SQLITE_POOL_CONNECTION_CAP THEN SQLITE_POOL_CONNECTION_CAP
    ELSE n

\* The value the documented precedence gives a setting: command line, then
\* environment, then file, then the documented default.
Documented(i, k) ==
    IF k = "enable_whois" /\ "no_whois" \in i.cli THEN Off
    ELSE IF k = "log_level_filter_override"
    THEN IF "verbosity" \in i.cli THEN Given(i, "cli") ELSE None
    ELSE IF k \in i.cli THEN Given(i, "cli")
    ELSE IF k \in i.env THEN Given(i, "env")
    ELSE IF k \in i.toml THEN Given(i, "toml") ELSE Default
=============================================================================
