------------------------------ MODULE MCLaunch ------------------------------
(* Instances of Launch: one process started in every way that concerns one  *)
(* setting at a time, and a second one on the same database.                *)
EXTENDS Launch

CONSTANTS p1, p2

Validated == {"max_concurrency", "rate_limit_rps", "timeout_seconds",
              "fail_on_pct_threshold", "user_agent"}

AllOk == [l \in Layers |-> "ok"]

ClassesOf(k) ==
    {AllOk} \cup
    {[AllOk EXCEPT ![l] = v] : l \in Layers,
        v \in IF k \in Validated THEN Classes ELSE {"junk"}}

\* Setting k in each combination of layers, next to the arguments a scan
\* cannot do without.
About(k) ==
    {[cli |-> {"file", "log_file"} \cup c, env |-> e, toml |-> t,
      class |-> v, matches |-> TRUE] :
        c \in SUBSET ({k} \cap ScanArgs), e \in SUBSET ({k} \cap EnvArgs),
        t \in SUBSET ({k} \cap FILE_CONFIG_OVERLAY_KEYS), v \in ClassesOf(k)}

Whois ==
    {[cli |-> {"file", "log_file"} \cup c, env |-> e, toml |-> t,
      class |-> AllOk, matches |-> m] :
        c \in SUBSET {"no_whois", "enable_whois"},
        e \in SUBSET {"enable_whois"}, t \in SUBSET {"enable_whois"},
        m \in BOOLEAN}

Bare == [Blank EXCEPT !.cli = {"file"}]

Strict == [Blank EXCEPT !.cli = {"file", "log_file", "fail_on",
                                 "fail_on_pct_threshold"}]

Plain == [Blank EXCEPT !.cli = {"file", "log_file"}]

Wide == UNION {About(k) : k \in ScanArgs} \cup Whois \cup {Bare, Strict}

\* One process alone in each way, or two scans, or a scan and a summary.
EachAlone == {(p1 :> i @@ p2 :> Blank) : i \in Wide}
                \cup {(p1 :> Strict @@ p2 :> Strict)}

OnePlain == {(p1 :> Plain), (p1 :> Bare)}

\* With these outcomes a rate lies below, at and above a threshold, and at one
\* that the division rounds up.
PolicySet == {<<"any-failure", 10>>, <<"pct>", 50>>, <<"pct>", 55>>}

OutcomeSet == {<<0, 0>>, <<2, 1>>, <<20, 11>>}

=============================================================================
