---------------------------- MODULE RulesetCache ----------------------------
(***************************************************************************)
(* The fingerprint ruleset (fingerprint/ruleset/): init_ruleset's double-  *)
(* checked load into the process-wide RULESET, the disk cache with its     *)
(* three files, the download and merge of the sources, the refusal of an   *)
(* incomplete catalogue, and the clean-up of superseded cache directories. *)
(* Several calls, of one process or of processes that share a cache root,  *)
(* interleave; a process may end at any step and be started again.         *)
(*                                                                         *)
(* A set of rules is abstracted to the names of its technologies, the      *)
(* sources its categories come from, and its metadata: the kind of source, *)
(* the time of the merge and the sources whose commit is known.            *)
(***************************************************************************)
EXTENDS AtomicFile, FiniteSets, Sequences

CONSTANTS
    Callers, Procs,     \* calls of init_ruleset, and the processes they run in
    Homes,              \* how the calls may be spread over the processes
    None, Pending, Failed,
    Options,            \* what a call may ask for: [explicit, degraded]
    DEFAULT_FINGERPRINTS_URLS,  \* the default sources, in merge order
    ExplicitSource,     \* the source of --fingerprints
    Provides,           \* of each source: the technologies it offers
    Kind,               \* of each source: "github" (a directory there), "url" or "path"
    Overlay, Vendored,  \* technologies of the overlay and of the built-in rules
    MIN_FULL_TECHNOLOGIES,
    FINGERPRINT_CACHE_TTL,
    MaxTime,            \* bound: the clock
    MaxTroubles         \* bound: downloads and disk writes that fail, and process ends

Sources == DOMAIN Provides
Names == (UNION {Provides[s] : s \in Sources}) \cup Overlay \cup Vendored
Keys == BOOLEAN                       \* fingerprint_cache_key: explicit or default
FileNames == <<"metadata", "technologies", "categories">>
Paths == Keys \X {FileNames[i] : i \in 1 .. 3}
Time == 0 .. MaxTime

ASSUME RulesetAssumption ==
    /\ None \notin {Pending, Failed} \cup Callers /\ Pending # Failed
    /\ Options \subseteq [explicit : BOOLEAN, degraded : BOOLEAN]
    /\ DEFAULT_FINGERPRINTS_URLS \in Seq(Sources)
    /\ ExplicitSource \in Sources
    /\ MIN_FULL_TECHNOLOGIES \in Nat /\ FINGERPRINT_CACHE_TTL \in Nat
    /\ MaxTime \in Nat /\ MaxTroubles \in Nat
    /\ Homes \subseteq [Callers -> Procs]

VARIABLES
    home,     \* of each call: its process
    opt,      \* of each call: its options
    pc,       \* of each call: where it is
    loc,      \* of each call: its local values
    outcome,  \* of each call: Pending, Failed or the ruleset it returned
    ruleset,  \* of each process: RULESET
    holder,   \* of each process: who holds RULESET_INIT
    disk,     \* the fingerprints cache directory
    now, troubles

vars == <<home, opt, pc, loc, outcome, ruleset, holder, disk, now, troubles>>

\* FingerprintMetadata: the source label, last_updated and the version.
Metadata == [source : {"default", "explicit", "vendored"}, at : Time, version : SUBSET Sources]
Rules == [names : SUBSET Names, cats : SUBSET Sources, metadata : Metadata]

ASSUME NoneAssumption == None \notin Rules

\* Local values: when the cache was judged fresh; the merge so far, of how many
\* sources; the next source; the file being saved.
Locals == [checked : Time, rules : Rules, good : Nat, src : Nat, file : Nat]
NoRules == [names |-> {}, cats |-> {}, metadata |-> [source |-> "default", at |-> 0, version |-> {}]]
NoLocals == [checked |-> 0, rules |-> NoRules, good |-> 0, src |-> 1, file |-> 1]

\* Steps at which a call holds RULESET_INIT.
Locked == {"metadata", "technologies", "categories", "fetch", "describe",
           "open", "write", "rename", "removed", "prune"}
Steps == Locked \cup {"start", "lock", "done"}

TypeOK ==
    /\ home \in [Callers -> Procs]
    /\ opt \in [Callers -> Options]
    /\ pc \in [Callers -> Steps]
    /\ loc \in [Callers -> Locals]
    /\ outcome \in [Callers -> {Pending, Failed} \cup Rules]
    /\ ruleset \in [Procs -> {None} \cup Rules]
    /\ holder \in [Procs -> {None} \cup Callers]
    /\ \A d \in {"file", "temp"}, p \in Paths :
          Parses(disk[d][p]) => CASE p[2] = "metadata" -> disk[d][p] \in Metadata
                                  [] p[2] = "technologies" -> disk[d][p] \in SUBSET Names
                                  [] p[2] = "categories" -> disk[d][p] \in SUBSET Sources
    /\ now \in Time /\ troubles \in 0 .. MaxTroubles

Init ==
    /\ home \in Homes
    /\ opt \in [Callers -> Options]
    /\ pc = [c \in Callers |-> "start"]
    /\ loc = [c \in Callers |-> NoLocals]
    /\ outcome = [c \in Callers |-> Pending]
    /\ ruleset = [p \in Procs |-> None]
    /\ holder = [p \in Procs |-> None]
    /\ disk = [file |-> [p \in Paths |-> Absent], temp |-> [p \in Paths |-> Absent]]
    /\ now = 0 /\ troubles = 0

----------------------------------------------------------------------------
(* Helpers.                                                                *)

Key(c) == opt[c].explicit
SourcesOf(c) == IF opt[c].explicit THEN <<ExplicitSource>> ELSE DEFAULT_FINGERPRINTS_URLS

\* finish_ruleset: the overlay wins on every load path.
apply_first_party_overlay(names) == names \cup Overlay
Finish(rules) == [rules EXCEPT !["names"] = apply_first_party_overlay(rules.names)]

Enough(names) == Cardinality(names) >= MIN_FULL_TECHNOLOGIES
IsFull(rules) == Enough(rules.names)

\* How good a set of rules says it is, in the log of the start.
is_default_remote_source(source) == source = "default"
ruleset_quality_label(rules) ==
    IF rules.metadata.source = "vendored" THEN "degraded: bundled-minimal"
    ELSE IF IsFull(rules) THEN "full"
    ELSE IF is_default_remote_source(rules.metadata.source) THEN "thin" ELSE "explicit"

Goto(c, step) == pc' = [pc EXCEPT ![c] = step]
Trouble == troubles < MaxTroubles /\ troubles' = troubles + 1

\* Mutated form: the guard outlives a call that fails.
ReturnFailedLocked(c, result) ==
    /\ outcome' = [outcome EXCEPT ![c] = result]
    /\ pc' = [pc EXCEPT ![c] = "done"]
    /\ holder' = IF result = Failed THEN holder ELSE [holder EXCEPT ![home[c]] = None]
    /\ loc' = [loc EXCEPT ![c] = NoLocals]

\* The call ends: RULESET_INIT is released (its guard is dropped).
Return(c, result) ==
    /\ outcome' = [outcome EXCEPT ![c] = result]
    /\ pc' = [pc EXCEPT ![c] = "done"]
    /\ holder' = [holder EXCEPT ![home[c]] = None]
    /\ loc' = [loc EXCEPT ![c] = NoLocals]

Publish(c, rules) ==
    /\ Return(c, rules)
    /\ ruleset' = [ruleset EXCEPT ![home[c]] = rules]

GiveUp(c) == Return(c, Failed) /\ UNCHANGED ruleset

----------------------------------------------------------------------------
(* init_ruleset: the fast path, the lock, the second look.                 *)

FastPath(c) ==
    /\ pc[c] = "start"
    /\ IF ruleset[home[c]] # None
       THEN /\ outcome' = [outcome EXCEPT ![c] = ruleset[home[c]]]
            /\ loc' = [loc EXCEPT ![c] = NoLocals]
            /\ Goto(c, "done")
       ELSE Goto(c, "lock") /\ UNCHANGED <<outcome, loc>>
    /\ UNCHANGED <<home, opt, ruleset, holder, disk, now, troubles>>

\* Mutated form: the value is not looked at again under the lock.
LockNoRecheck(c) ==
    /\ pc[c] = "lock"
    /\ holder[home[c]] = None
    /\ Goto(c, "metadata")
    /\ holder' = [holder EXCEPT ![home[c]] = c]
    /\ UNCHANGED <<home, opt, loc, outcome, ruleset, disk, now, troubles>>

Lock(c) ==
    /\ pc[c] = "lock"
    /\ holder[home[c]] = None
    /\ IF ruleset[home[c]] # None
       THEN Return(c, ruleset[home[c]])
       ELSE /\ Goto(c, "metadata")
            /\ holder' = [holder EXCEPT ![home[c]] = c]
            /\ UNCHANGED <<loc, outcome>>
    /\ UNCHANGED <<home, opt, ruleset, disk, now, troubles>>

----------------------------------------------------------------------------
(* load_from_cache: three files, read one after the other.                 *)

LoadMetadata(c) ==
    LET meta == disk.file[<<Key(c), "metadata">>] IN
    /\ pc[c] = "metadata"
    /\ IF /\ Parses(meta)
          /\ disk.file[<<Key(c), "technologies">>] # Absent
          /\ ~Expired(meta.at, now, FINGERPRINT_CACHE_TTL, FALSE)
       THEN /\ loc' = [loc EXCEPT ![c] = [loc[c] EXCEPT !["checked"] = now,
                                                       !["rules"] = [NoRules EXCEPT !["metadata"] = meta]]]
            /\ Goto(c, "technologies")
       ELSE Goto(c, "fetch") /\ UNCHANGED loc
    /\ UNCHANGED <<home, opt, outcome, ruleset, holder, disk, now, troubles>>

LoadTechnologies(c) ==
    LET techs == disk.file[<<Key(c), "technologies">>] IN
    /\ pc[c] = "technologies"
    /\ IF Parses(techs)
       THEN /\ loc' = [loc EXCEPT ![c] = [loc[c] EXCEPT !["rules"] = [loc[c].rules EXCEPT !["names"] = techs]]]
            /\ Goto(c, "categories")
       ELSE /\ loc' = [loc EXCEPT ![c] = NoLocals]
            /\ Goto(c, "fetch")
    /\ UNCHANGED <<home, opt, outcome, ruleset, holder, disk, now, troubles>>

\* The floor a cached default catalogue must still meet.
AcceptCached(c, rules) == opt[c].explicit \/ IsFull(rules)

\* Categories are optional.  The loaded rules are published, or fetched anew.
LoadCategories(c) ==
    LET stored == disk.file[<<Key(c), "categories">>]
        rules == Finish([loc[c].rules EXCEPT !["cats"] = IF Parses(stored) THEN stored ELSE {}])
    IN
    /\ pc[c] = "categories"
    /\ IF AcceptCached(c, rules)
       THEN Publish(c, rules)
       ELSE /\ loc' = [loc EXCEPT ![c] = NoLocals]
            /\ Goto(c, "fetch")
            /\ UNCHANGED <<outcome, ruleset, holder>>
    /\ UNCHANGED <<home, opt, disk, now, troubles>>

----------------------------------------------------------------------------
(* fetch_ruleset_from_multiple_sources.                                    *)

\* Merge one source into what is there: a later source overwrites.
Merge(l, names) ==
    [l EXCEPT !["rules"] = [l.rules EXCEPT !["names"] = l.rules.names \cup names],
              !["good"] = l.good + 1]

NextSource(l) == [l EXCEPT !["src"] = l.src + 1]

\* What a request to GitHub or elsewhere may bring: what was asked for, nothing in
\* it, something else, a refused token, a refusal for another reason, no answer.  A
\* refused token is left out of a second request.
Answers == {"ok", "empty", "garbage", "unauthorized", "refused", "lost"}
github_api_get(token, first, again) == IF first = "unauthorized" /\ token THEN again ELSE first
Answered == {github_api_get(token, first, again) : token \in BOOLEAN, first \in Answers, again \in Answers}

\* What a source may yield.  Without the listing a directory yields nothing; files of
\* it that cannot be had or parsed are logged and left out; a single file is had or
\* the source fails.
directory_listing(answer) == answer \in {"ok", "empty"}
fetch_from_github_directory(s, answer) ==
    IF ~directory_listing(answer) THEN {} ELSE IF answer = "empty" THEN {{}} ELSE SUBSET Provides[s]
load_from_path(s, answer) == IF answer = "lost" THEN {} ELSE SUBSET Provides[s]
fetch_single_file_with_size_limit(s, answer) == IF answer = "ok" THEN {Provides[s]} ELSE {}
fetch_from_url(s, answer) ==
    IF Kind[s] = "github" THEN fetch_from_github_directory(s, answer) ELSE fetch_single_file_with_size_limit(s, answer)
Yields(s, answer) == IF Kind[s] = "path" THEN load_from_path(s, answer) ELSE fetch_from_url(s, answer)

\* A source yields its technologies, or fails and is skipped.
FetchTechnologies(c) ==
    /\ pc[c] = "fetch"
    /\ loc[c].src <= Len(SourcesOf(c))
    /\ \E answer \in Answered : LET s == SourcesOf(c)[loc[c].src] IN
       \/ \E names \in Yields(s, answer) :
             /\ loc' = [loc EXCEPT ![c] = Merge(loc[c], names)]
             /\ Goto(c, "describe")
             /\ IF names = Provides[s] THEN UNCHANGED troubles ELSE Trouble
       \/ /\ Yields(s, answer) = {}
          /\ Trouble
          /\ loc' = [loc EXCEPT ![c] = NextSource(loc[c])]
          /\ UNCHANGED pc
    /\ UNCHANGED <<home, opt, outcome, ruleset, holder, disk, now>>

\* The newest commit of a directory on GitHub, if it can be had.
get_latest_commit_sha(s, answer) == IF answer = "ok" THEN {s} ELSE {}

Describe(rules, cats, version) ==
    [rules EXCEPT !["cats"] = rules.cats \cup cats,
                  !["metadata"] = [rules.metadata EXCEPT !["version"] = @ \cup version]]

\* fetch_categories_from_url, load_categories_from_path, and the commit of a
\* GitHub source: both optional.
DescribeSource(c) ==
    LET s == SourcesOf(c)[loc[c].src] IN
    /\ pc[c] = "describe"
    /\ \E cats \in {{}, {s}}, answer \in Answered :
          LET version == IF Kind[s] = "github" THEN get_latest_commit_sha(s, answer) ELSE {} IN
          /\ loc' = [loc EXCEPT ![c] = NextSource([loc[c] EXCEPT !["rules"] = Describe(loc[c].rules, cats, version)])]
          /\ IF cats = {s} /\ (Kind[s] = "github" => version = {s}) THEN UNCHANGED troubles ELSE Trouble
    /\ Goto(c, "fetch")
    /\ UNCHANGED <<home, opt, outcome, ruleset, holder, disk, now>>

\* Mutated form: every source answered, however little it offered.
CompleteBySources(l, expected, rules) == l.good = expected

catalog_is_complete(l, expected, rules) == l.good = expected /\ IsFull(rules)

\* What becomes of the merged rules: vendored_or_err when no source answered;
\* an incomplete default catalogue is refused or used unsaved; a thin one is
\* never saved.
Verdict(c, l, rules) ==
    IF l.good = 0 THEN IF opt[c].degraded THEN "vendored" ELSE "refuse"
    ELSE IF ~opt[c].explicit /\ ~catalog_is_complete(l, Len(SourcesOf(c)), rules)
         THEN IF opt[c].degraded THEN "use" ELSE "refuse"
         ELSE IF opt[c].explicit \/ IsFull(rules) THEN "save" ELSE "use"

\* load_vendored_ruleset: never written to the cache.
VendoredRules == Finish([names |-> Vendored, cats |-> {},
                         metadata |-> [source |-> "vendored", at |-> now, version |-> {}]])

fingerprint_source_label(c) == IF opt[c].explicit THEN "explicit" ELSE "default"
Stamped(c) == [loc[c].rules EXCEPT !["metadata"] = [@ EXCEPT !["source"] = fingerprint_source_label(c), !["at"] = now]]

\* All sources have been tried.
Decide(c) ==
    LET rules == Finish(Stamped(c))
        verdict == Verdict(c, loc[c], rules)
    IN
    /\ pc[c] = "fetch"
    /\ loc[c].src > Len(SourcesOf(c))
    /\ \/ verdict = "refuse" /\ GiveUp(c)
       \/ verdict = "vendored" /\ Publish(c, VendoredRules)
       \/ verdict = "use" /\ Publish(c, rules)
       \/ /\ verdict = "save"
          /\ loc' = [loc EXCEPT ![c] = [loc[c] EXCEPT !["rules"] = rules]]
          /\ Goto(c, "open")
          /\ UNCHANGED <<outcome, ruleset, holder>>
    /\ UNCHANGED <<home, opt, disk, now, troubles>>

----------------------------------------------------------------------------
(* save_to_cache: metadata, technologies and categories, each by           *)
(* write_atomic; any error fails the call.                                 *)

File(c) == <<Key(c), FileNames[loc[c].file]>>
Content(c) == CASE loc[c].file = 1 -> loc[c].rules.metadata
                [] loc[c].file = 2 -> loc[c].rules.names
                [] loc[c].file = 3 -> loc[c].rules.cats

OpenFile(c) ==
    /\ pc[c] = "open"
    /\ disk' = OpenTemp(disk, File(c))
    /\ Goto(c, "write")
    /\ UNCHANGED <<home, opt, loc, outcome, ruleset, holder, now, troubles>>

WriteFile(c) ==
    /\ pc[c] = "write"
    /\ disk' \in WriteTemp(disk, File(c), Content(c))
    /\ Goto(c, "rename")
    /\ UNCHANGED <<home, opt, loc, outcome, ruleset, holder, now, troubles>>

WriteError(c) ==
    /\ pc[c] \in {"open", "write"}
    /\ Trouble
    /\ GiveUp(c)
    /\ UNCHANGED <<home, opt, disk, now>>

\* After the last file the superseded directories are dropped.
NextFile(c) ==
    IF loc[c].file < Len(FileNames)
    THEN /\ loc' = [loc EXCEPT ![c] = [loc[c] EXCEPT !["file"] = loc[c].file + 1]]
         /\ Goto(c, "open")
    ELSE Goto(c, "prune") /\ UNCHANGED loc

RenameFile(c) ==
    /\ pc[c] = "rename"
    /\ IF Renames(disk, File(c))
       THEN /\ disk' = Rename(disk, File(c))
            /\ NextFile(c)
            /\ UNCHANGED <<outcome, ruleset, holder>>
       ELSE IF disk.file[File(c)] # Absent
       THEN /\ disk' = Remove(disk, File(c))
            /\ Goto(c, "removed")
            /\ UNCHANGED <<loc, outcome, ruleset, holder>>
       ELSE GiveUp(c) /\ UNCHANGED disk
    /\ UNCHANGED <<home, opt, now, troubles>>

RenameAgain(c) ==
    /\ pc[c] = "removed"
    /\ IF Renames(disk, File(c))
       THEN /\ disk' = Rename(disk, File(c))
            /\ NextFile(c)
            /\ UNCHANGED <<outcome, ruleset, holder>>
       ELSE GiveUp(c) /\ UNCHANGED disk
    /\ UNCHANGED <<home, opt, now, troubles>>

\* prune_superseded_fingerprint_dirs removes the other directories, file by file.
PruneFile(c) ==
    /\ pc[c] = "prune"
    /\ \E p \in Paths :
          /\ p[1] # Key(c)
          /\ disk.file[p] # Absent \/ disk.temp[p] # Absent
          /\ disk' = [file |-> [disk.file EXCEPT ![p] = Absent], temp |-> [disk.temp EXCEPT ![p] = Absent]]
    /\ UNCHANGED <<home, opt, now, pc, loc, outcome, ruleset, holder, troubles>>

\* A removal that fails is only logged: whatever is left stays, and the value
\* becomes RULESET.
Prune(c) ==
    /\ pc[c] = "prune"
    /\ Publish(c, loc[c].rules)
    /\ UNCHANGED <<home, opt, now, disk, troubles>>

----------------------------------------------------------------------------
(* The environment.                                                        *)

Tick ==
    /\ now < MaxTime
    /\ now' = now + 1
    /\ UNCHANGED <<home, opt, pc, loc, outcome, ruleset, holder, disk, troubles>>

\* The process ends, in the middle of a call or after it, and starts again.
Stop(p) ==
    /\ Trouble
    /\ pc' = [c \in Callers |-> IF home[c] = p THEN "start" ELSE pc[c]]
    /\ loc' = [c \in Callers |-> IF home[c] = p THEN NoLocals ELSE loc[c]]
    /\ outcome' = [c \in Callers |-> IF home[c] = p THEN Pending ELSE outcome[c]]
    /\ ruleset' = [ruleset EXCEPT ![p] = None]
    /\ holder' = [holder EXCEPT ![p] = None]
    /\ UNCHANGED <<home, opt, disk, now>>

Step(c) ==
    \/ FastPath(c) \/ Lock(c)
    \/ LoadMetadata(c) \/ LoadTechnologies(c) \/ LoadCategories(c)
    \/ FetchTechnologies(c) \/ DescribeSource(c) \/ Decide(c)
    \/ OpenFile(c) \/ WriteFile(c) \/ WriteError(c)
    \/ RenameFile(c) \/ RenameAgain(c) \/ PruneFile(c) \/ Prune(c)

Next == \/ \E c \in Callers : Step(c)
        \/ Tick
        \/ \E p \in Procs : Stop(p)

Spec == Init /\ [][Next]_vars

\* A running process schedules its tasks, and the mutex is a fair queue.
FairSpec == Spec /\ \A c \in Callers : WF_vars(Step(c)) /\ SF_vars(Lock(c))

----------------------------------------------------------------------------
(* Properties.                                                             *)

\* The double-checked load (RULESET, RULESET_INIT) keeps the promise of
\* InitOnce: one ruleset in the life of a process, the same for all calls, and
\* no failure once it is there.
Once == INSTANCE InitOnce WITH resource <- ruleset
LoadedOnce == Once!Spec

Returned(c) == outcome[c] \notin {Pending, Failed}

\* A process that no call allows to run degraded (--allow-degraded-fingerprints)
\* and that only asks for the default catalogue never works with fewer
\* technologies than the floor and says so, whatever the cache, a crash or a
\* concurrent save has left on the disk.
RulesMeetFloor ==
    \A p \in Procs :
        (/\ ruleset[p] # None
         /\ \A c \in Callers : home[c] = p => ~opt[c].explicit /\ ~opt[c].degraded)
            => ruleset_quality_label(ruleset[p]) = "full"

\* The default directory of the cache only ever receives a full catalogue:
\* neither the built-in rules nor a degraded merge reach it
\* ("Never persist a thin default merge under the remote cache key").
CachedCatalogFull ==
    LET techs == disk.file[<<FALSE, "technologies">>] IN Parses(techs) => Enough(techs)

\* What a set of rules says of itself is true of it, also when date, technologies and
\* categories were read from the files of different saves: it never passes as the
\* default catalogue with rules of one's own source, and names no commit of a source
\* that is none of its own.
IdentityHonest ==
    \A c \in Callers : Returned(c) =>
        LET rules == outcome[c] IN
        /\ rules.metadata.source = "explicit" => \E d \in Callers : home[d] = home[c] /\ opt[d].explicit
        /\ rules.metadata.source = "vendored" => \E d \in Callers : home[d] = home[c] /\ opt[d].degraded
        /\ rules.metadata.version \cup rules.cats \subseteq
              CASE rules.metadata.source = "default" -> {DEFAULT_FINGERPRINTS_URLS[i] : i \in DOMAIN DEFAULT_FINGERPRINTS_URLS}
                [] rules.metadata.source = "explicit" -> {ExplicitSource}
                [] OTHER -> {}

\* Thin rules neither reach a scan that did not ask for them nor the cache, whatever
\* sources fail, calls race and processes stop (ruleset/mod.rs:370, cache.rs:119).
CatalogSound == RulesMeetFloor /\ CachedCatalogFull /\ IdentityHonest

\* Every call of init_ruleset returns, whatever fails: RULESET_INIT is released
\* on each way out.
InitReturns == \A c \in Callers : <>[](pc[c] = "done")
============================================================================
