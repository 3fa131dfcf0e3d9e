----------------------------- MODULE Detection -----------------------------
(***************************************************************************)
(* Technology detection (fingerprint/detection): what is observed on the   *)
(* page is merged and completed by implication, then exclusions, unmet     *)
(* requirements and the denylist take technologies out.  Signals that are  *)
(* only known later (DNS and certificate, fetched scripts) are merged into *)
(* the report and the same steps run again.                                *)
(*                                                                         *)
(* The ruleset's maps are iterated in no particular order: the order of a  *)
(* technology's signals is part of the input, and which of two implying    *)
(* technologies gives the version is a choice.                             *)
(***************************************************************************)
EXTENDS Patterns

CONSTANTS
    Techs,
    Rulesets,    \* see Init
    Pages,       \* what the signals of a page yield: see Init
    GitHubPages, \* the technology of that name
    CertificateAuthorities, \* the category of that name
    MAX_IMPLIES_DEPTH, MAX_REQUIRES_DEPTH

\* A catalog is finite, and both expansions are allowed a round.
ASSUME CatalogFinite == IsFiniteSet(Techs)
ASSUME DepthsPositive == MAX_IMPLIES_DEPTH \in Nat \ {0} /\ MAX_REQUIRES_DEPTH \in Nat \ {0}

VARIABLES
    rules,     \* the ingested ruleset
    page,      \* the results of matching each technology's patterns
    stage,     \* the pass: "page", "dns", "scripts"
    step,      \* "observe", "imply", "finalize", "reported"
    rounds,
    detected,  \* HashMap<String, TechInfo>
    report,    \* the Vec<DetectedTechnology>
    start      \* history: the names the pass started from

vars == <<rules, page, stage, step, rounds, detected, report, start>>

Empty == [t \in {} |-> Miss]

----------------------------------------------------------------------------
(* ruleset/mod.rs: what is kept of a technology when it is loaded.         *)
(*                                                                         *)
(* A technology is [fields, js, ...]: the signal fields that are not empty, *)
(* and its js keys, "id" for one that looks like a script id.              *)

is_script_id_js_key(key) == key = "id"
is_js_only_technology(tech) == tech.js # {} /\ tech.fields = {}

\* prune_technology_for_static_detection.
Ingested(raw) ==
    {t \in Techs : LET js == {k \in raw[t].js : is_script_id_js_key(k)}
                   IN ~(is_js_only_technology(raw[t]) /\ js = {})}

\* ingest_technology, for a catalog.
ingest(raw) ==
    [t \in Ingested(raw) |-> [raw[t] EXCEPT !.js = {k \in @ : is_script_id_js_key(k)}]]

----------------------------------------------------------------------------
(* source.rs: how a technology was seen, and the word that is stored.      *)

Observable == {"Header", "Cookie", "Html", "ScriptSrc", "Scripts", "Url", "Js", "Ns", "Cname", "Cert"}
DetectionSource ==
    [s \in Observable \cup {"Implied"} |->
        CASE s = "Header" -> "header" [] s = "Cookie" -> "cookie" [] s = "Html" -> "html"
          [] s = "ScriptSrc" -> "scriptSrc" [] s = "Scripts" -> "scripts" [] s = "Url" -> "url" [] s = "Js" -> "js"
          [] s = "Ns" -> "ns" [] s = "Cname" -> "cname" [] s = "Cert" -> "cert" [] s = "Implied" -> "implied"]
as_str(source) == DetectionSource[source]
Unknown == "unknown"
parse_detection_source(word) ==
    IF \E s \in DOMAIN DetectionSource : DetectionSource[s] = word
    THEN CHOOSE s \in DOMAIN DetectionSource : DetectionSource[s] = word ELSE Unknown

----------------------------------------------------------------------------
(* The signals of one technology: headers.rs, cookies.rs, body.rs,         *)
(* dns_cert.rs.                                                            *)

\* What each channel yields for a technology is a sequence of signals of channels
\* that observe.
ASSUME PagesAssumption ==
    \A p \in Pages :
        /\ {"header", "cookie", "body", "dns", "fetched"} \subseteq DOMAIN p.signals
        /\ \A c \in DOMAIN p.signals : \A t \in Techs :
              /\ DOMAIN p.signals[c][t] \subseteq Nat
              /\ \A i \in DOMAIN p.signals[c][t] : p.signals[c][t][i].channel \in Observable

\* A signal is the result of a pattern with the channel it is of; a pattern that
\* asks for presence only ends the search.
Stops(signal) == signal.presence \/ signal.version # NoVersion

\* The signals that are looked at.
LookedAt(signals) == {i \in DOMAIN signals : \A j \in DOMAIN signals : j < i => ~Stops(signals[j])}

\* match_string_map_signal, check_cookies_with_ruleset, check_body_with_ruleset,
\* check_dns_and_cert_with_ruleset: the first version, and the channel that
\* matched first.
Matched(signals) ==
    LET seen == {i \in LookedAt(signals) : signals[i].matched} IN
    IF seen = {} THEN Miss
    ELSE [matched |-> TRUE, version |-> signals[Max(seen)].version, source |-> signals[Min(seen)].channel]

\* sanitize_technology_version: no blanks, no digests.
Blank(version) == \A i \in 1 .. Len(version) : version[i] = " "
Digest(version) == version = <<"deadbeef">>
sanitize_technology_version(version) ==
    IF version = NoVersion THEN NoVersion
    ELSE IF Blank(version) \/ Digest(version) THEN NoVersion ELSE version

\* merge_observed, for one technology that matched.
Merged(found, t, match) ==
    LET version == sanitize_technology_version(match.version) IN
    IF t \in DOMAIN found
    THEN [version |-> IF found[t].version = NoVersion THEN version ELSE found[t].version,
          is_implied |-> FALSE,
          source |-> IF found[t].is_implied THEN match.source ELSE found[t].source]
    ELSE [version |-> version, is_implied |-> FALSE, source |-> match.source]

\* merge_observed for the results of a channel: no technology sees another's, so
\* the order among them is of no account.
merge_observed(found, matches) ==
    LET hits == {t \in DOMAIN matches : matches[t].matched}
    IN [t \in DOMAIN found \cup hits |-> IF t \in hits THEN Merged(found, t, matches[t]) ELSE found[t]]

\* Static script ids against the js keys.
Js(t) == IF "id" \in rules.tech[t].js /\ t \in page.ids
         THEN [matched |-> TRUE, version |-> NoVersion, source |-> "Js"] ELSE Miss

\* The channels of a late pass.
LateChannel(s) == IF s = "dns" THEN "dns" ELSE "fetched"

Catalog == DOMAIN rules.tech
Signals(t, channel) == IF t \in Catalog THEN page.signals[channel][t] ELSE <<>>

MergeChannel(found, channel) == merge_observed(found, [t \in Catalog |-> Matched(Signals(t, channel))])
MergeJs(found) == merge_observed(found, [t \in Catalog |-> Js(t)])
MergeSignals(s, found) ==
    IF s = "page" THEN MergeJs(MergeChannel(MergeChannel(MergeChannel(found, "header"), "cookie"), "body"))
    ELSE MergeChannel(found, LateChannel(s))

\* Does the pass find anything at all?
Supplemental(s) == \E t \in Catalog : Matched(Signals(t, LateChannel(s))).matched

----------------------------------------------------------------------------
(* matching.rs and the rest of mod.rs.                                     *)

\* apply_technology_exclusions: every exclusion counts, also an excluded one's.
apply_technology_exclusions(names) ==
    {t \in names : ~\E o \in names \ {t} : o \in Catalog /\ t \in rules.tech[o].excludes}

technology_requires_satisfied(t, names) ==
    \/ t \notin Catalog
    \/ /\ rules.tech[t].requires \subseteq names
       /\ \/ rules.tech[t].requires_category = {}
          \/ \E o \in (names \cap Catalog) \ {t} :
                rules.tech[o].cats \cap rules.tech[t].requires_category # {}

\* The names whose requirements are met, one round.
Retained(names) == {t \in names : technology_requires_satisfied(t, names)}
\* Mutated form: one round only.
RequiresOnce(names) == Retained(names)

\* apply_technology_requires: rounds until nothing is dropped, at most so many.
apply_technology_requires(names) ==
    LET kept[n \in 0 .. MAX_REQUIRES_DEPTH] == IF n = 0 THEN names ELSE Retained(kept[n - 1])
    IN kept[MAX_REQUIRES_DEPTH]

technology_in_category(t, category) ==
    t \in Catalog /\ \E id \in rules.tech[t].cats : id \in DOMAIN rules.categories /\ rules.categories[id] = category
is_denylisted_technology(t) == t \in rules.denylist \/ technology_in_category(t, CertificateAuthorities)

\* finalize_detections.
finalize_detections(found) ==
    LET kept == apply_technology_requires(apply_technology_exclusions(DOMAIN found))
    IN [t \in {u \in kept : ~is_denylisted_technology(u)} |->
          [version |-> found[t].version, is_implied |-> found[t].is_implied, detection_source |-> as_str(found[t].source)]]

\* drop_github_pages_on_github_dot_com.
DropGitHubPages(techs) ==
    [t \in DOMAIN techs \ (IF page.on_github THEN {GitHubPages} ELSE {}) |-> techs[t]]

\* detected_to_map, parse_detection_source: the report as a map again.
detected_to_map(techs) ==
    LET Source(t) == parse_detection_source(techs[t].detection_source)
        default(t) == IF techs[t].is_implied THEN "Implied" ELSE "Html"
    IN [t \in DOMAIN techs |->
          [version |-> techs[t].version, is_implied |-> techs[t].is_implied,
           source |-> IF Source(t) = Unknown THEN default(t) ELSE Source(t)]]

----------------------------------------------------------------------------
(* Actions.                                                                *)

Init ==
    /\ rules \in {[tech |-> ingest(r.raw), denylist |-> r.denylist, categories |-> r.categories] : r \in Rulesets}
    /\ page \in Pages
    /\ stage = "page" /\ step = "observe" /\ rounds = 0
    /\ detected = Empty /\ report = Empty /\ start = {}

\* detect_technologies_blocking, and the two supplements: a late pass without
\* a match leaves the report as it is.
Detect ==
    /\ step = "observe"
    /\ IF stage = "page" \/ Supplemental(stage)
       THEN /\ detected' = MergeSignals(stage, IF stage = "page" THEN Empty ELSE detected_to_map(report))
            /\ step' = "imply" /\ rounds' = 0
            /\ start' = DOMAIN detected'
            /\ UNCHANGED report
       ELSE /\ step' = "reported"
            /\ UNCHANGED <<detected, report, rounds, start>>
    /\ UNCHANGED <<rules, page, stage>>

\* The versions the detected technologies give one that they imply.
Implying(t) == {o \in DOMAIN detected \cap Catalog : t \in DOMAIN rules.tech[o].implies}
ImpliedVersions(t) ==
    {sanitize_technology_version(rules.tech[o].implies[t]) : o \in Implying(t)} \ {NoVersion}

\* One round of expand_implies.
ExpandImplies ==
    LET new == {t \in Catalog \ DOMAIN detected : Implying(t) # {}}
        given(t) == IF t \in DOMAIN detected /\ detected[t].version # NoVersion
                    THEN {detected[t].version}
                    ELSE IF t \in Catalog /\ ImpliedVersions(t) # {} THEN ImpliedVersions(t)
                    ELSE {NoVersion}
        all == DOMAIN detected \cup new
    IN
    /\ step = "imply"
    /\ \E version \in [all -> UNION {given(t) : t \in all}] :
          /\ \A t \in all : version[t] \in given(t)
          /\ detected' = [t \in all |->
                            [version |-> version[t],
                             is_implied |-> IF t \in new THEN TRUE ELSE detected[t].is_implied,
                             source |-> IF t \in new THEN "Implied" ELSE detected[t].source]]
    /\ rounds' = rounds + 1
    /\ step' = IF new = {} \/ rounds' = MAX_IMPLIES_DEPTH THEN "finalize" ELSE "imply"
    /\ UNCHANGED <<rules, page, stage, report, start>>

Finalize ==
    /\ step = "finalize"
    /\ report' = IF stage = "page" THEN DropGitHubPages(finalize_detections(detected))
                 ELSE finalize_detections(detected)
    /\ step' = "reported"
    /\ UNCHANGED <<rules, page, stage, rounds, detected, start>>

\* supplement_technologies_after_enrichment: DNS and certificate, then scripts.
Supplement ==
    /\ step = "reported" /\ stage # "scripts"
    /\ stage' = IF stage = "page" THEN "dns" ELSE "scripts"
    /\ step' = "observe"
    /\ UNCHANGED <<rules, page, rounds, detected, report, start>>

Next == Detect \/ ExpandImplies \/ Finalize \/ Supplement

Spec == Init /\ [][Next]_vars

----------------------------------------------------------------------------
(* Properties.                                                             *)

\* The least set with the given names that is closed under implication.
Closed(names) == \A o \in names \cap Catalog : DOMAIN rules.tech[o].implies \cap Catalog \subseteq names
Closure(names) == {t \in Techs : \A s \in SUBSET Techs : names \subseteq s /\ Closed(s) => t \in s}

\* The greatest set of the given names whose requirements it meets.
Selfsufficient(names) == \A t \in names : technology_requires_satisfied(t, names)
Sustained(names) == UNION {s \in SUBSET names : Selfsufficient(s)}

\* What finalize_detections and the pass leave of the names kept.
Shown(names) ==
    {t \in names : ~is_denylisted_technology(t)} \ (IF stage = "page" /\ page.on_github THEN {GitHubPages} ELSE {})

\* Both expansions came to their fixed point within the rounds allowed.
Settled ==
    /\ Closed(DOMAIN detected)
    /\ Selfsufficient(apply_technology_requires(apply_technology_exclusions(DOMAIN detected)))

\* "Iterates to a fixed point so a dropped parent can cause children to drop", and
\* implication likewise: after each pass the names reported are exactly those
\* implied by what the pass started from that nothing else excludes, whose
\* requirements are met among themselves, and that are not denylisted, in
\* whatever order the maps were iterated.  A catalog no larger than the limits
\* always comes that far; a longer chain may be cut, and then nothing foreign is
\* added and nothing is dropped that could stay.
ReportByDefinition ==
    step = "reported" /\ (stage = "page" \/ Supplemental(stage)) =>
        /\ start \subseteq DOMAIN detected /\ DOMAIN detected \subseteq Closure(start)
        /\ Shown(Sustained(apply_technology_exclusions(DOMAIN detected))) \subseteq DOMAIN report
        /\ DOMAIN report \subseteq Shown(apply_technology_exclusions(DOMAIN detected))
        /\ Settled \/ (Cardinality(Techs) <= MAX_IMPLIES_DEPTH /\ Cardinality(Techs) <= MAX_REQUIRES_DEPTH) =>
              DOMAIN report = Shown(Sustained(apply_technology_exclusions(Closure(start))))

\* A technology is reported as observed only if a signal of this page or a script
\* id showed it in a pass so far, and with the source that showed it, through the
\* late passes that rebuild the map from the report; and no version is a blank or a digest.
ReportHonest ==
    \A t \in DOMAIN report :
        /\ report[t].is_implied <=> report[t].detection_source = "implied"
        /\ ~report[t].is_implied =>
              \/ Js(t).matched /\ report[t].detection_source = "js"
              \/ \E c \in DOMAIN page.signals :
                    Matched(Signals(t, c)).matched /\ report[t].detection_source = as_str(Matched(Signals(t, c)).source)
        /\ report[t].version # NoVersion => ~Blank(report[t].version) /\ ~Digest(report[t].version)

\* The report is complete and honest after every pass (detection/mod.rs:127, 221).
DetectionSound == ReportByDefinition /\ ReportHonest
============================================================================
