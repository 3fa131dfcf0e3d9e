----------------------------- MODULE WhoisCache -----------------------------
(***************************************************************************)
(* WHOIS lookups (whois/): lookup_whois_with_lookup with its on-disk cache *)
(* of one file per domain, and the quota of that cache, kept by a          *)
(* process-wide count of saves.  The lookups of a scan run in parallel, the *)
(* URL timeout may drop one at any await, and the process may end and start *)
(* again over the directory it left.                                       *)
(*                                                                         *)
(* A cached answer is abstracted to the time of its save and to whether    *)
(* whois_result_is_usable; the file's mtime is that time too.              *)
(***************************************************************************)
EXTENDS AtomicFile, FiniteSets

CONSTANTS
    Lookups,         \* lookups that may be in flight
    Domains,
    NoDomain,
    Oversized,       \* a file beyond MAX_WHOIS_CACHE_FILE_SIZE
    Scenes,          \* [files, asks]: the directory found, and the domains each lookup may be asked for
    CACHE_TTL, MAX_ENTRIES,
    ENFORCE_INTERVAL,  \* ENFORCE_INTERVAL_WHEN_OVER_LIMIT
    MaxTime,         \* bound: the clock
    MaxLookups,      \* bound: lookups begun
    MaxTroubles      \* bound: disk errors, dropped lookups, process ends

Time == 0 .. MaxTime
Entries == [at : Time, usable : BOOLEAN]
Contents == Entries \cup {Absent, Torn, Oversized}

\* What the directory and the constants may be; no file is torn and the quota is kept
\* to begin with, as `shared` and `skipped` start empty.
WhoisConstants ==
    /\ NoDomain \notin Domains /\ IsFiniteSet(Domains) /\ IsFiniteSet(Lookups)
    /\ Absent # Torn /\ Oversized \notin {Absent, Torn}
    /\ {Absent, Torn, Oversized} \cap Entries = {}
    /\ Scenes \subseteq [files : [Domains -> Contents], asks : [Lookups -> SUBSET Domains]]
    /\ \A s \in Scenes, d \in Domains : s.files[d] # Torn
    /\ \A s \in Scenes : Cardinality({d \in Domains : s.files[d] # Absent}) <= MAX_ENTRIES + ENFORCE_INTERVAL
    /\ MAX_ENTRIES \in Nat \ {0} /\ ENFORCE_INTERVAL \in Nat \ {0}
    /\ CACHE_TTL \in Nat /\ MaxTime \in Nat
    /\ MaxLookups \in Nat /\ MaxTroubles \in Nat

VARIABLES
    asks,         \* of each lookup: the domains its URLs belong to
    pc, dom,      \* of each lookup: where it is, and its domain
    count,        \* of each lookup: its local `count`
    doomed,       \* of each lookup: the files enforce_cache_limit has yet to delete
    outcome,      \* of each lookup: how the last call ended
    saves,        \* WHOIS_SAVE_COUNT
    disk, now, begun, troubles,
    disturbed,    \* history: was the lookup's own file touched from outside, or did the disk fail it?
    skipped,      \* history: enforcements that did not complete, or that a count that is off may put
                  \* off; entries that were renamed but not counted, or that could not be removed
    shared        \* history: domains whose staging file two lookups have used at once

vars == <<asks, pc, dom, count, doomed, outcome, saves, disk, now, begun, troubles,
          disturbed, skipped, shared>>

LateSteps == {"late_write", "late_rename"}          \* of a dropped lookup, still in the blocking pool
WriteSteps == {"open", "write", "rename", "removed"} \cup LateSteps
Counting == {"add", "list_dir", "store", "judge"}   \* no await in between
Steps == {"idle", "exists", "read", "expire", "fetch", "list", "evict"}
           \cup WriteSteps \cup Counting

TypeOK ==
    /\ asks \in [Lookups -> SUBSET Domains]
    /\ pc \in [Lookups -> Steps] /\ dom \in [Lookups -> Domains \cup {NoDomain}]
    /\ count \in [Lookups -> Nat] /\ doomed \in [Lookups -> SUBSET Domains]
    /\ outcome \in [Lookups -> {"none", "hit", "answer", "nothing", "error", "dropped"}]
    /\ saves \in Nat
    /\ disk \in [file : [Domains -> Contents], temp : [Domains -> Contents]]
    /\ now \in Time /\ begun \in 0 .. MaxLookups /\ troubles \in 0 .. MaxTroubles
    /\ disturbed \in [Lookups -> BOOLEAN] /\ skipped \in Nat /\ shared \subseteq Domains

Init ==
    /\ pc = [l \in Lookups |-> "idle"] /\ dom = [l \in Lookups |-> NoDomain]
    /\ count = [l \in Lookups |-> 0] /\ doomed = [l \in Lookups |-> {}]
    /\ outcome = [l \in Lookups |-> "none"]
    /\ saves = 0
    /\ \E s \in Scenes :
          /\ disk = [file |-> s.files, temp |-> [d \in Domains |-> Absent]]
          /\ asks = s.asks
    /\ now = 0 /\ begun = 0 /\ troubles = 0
    /\ disturbed = [l \in Lookups |-> FALSE] /\ skipped = 0 /\ shared = {}

----------------------------------------------------------------------------
(* Helpers.                                                                *)

\* Each lookup owns its local values; the rest of a step says what it shares.
GoesTo(l, step) == pc' = [pc EXCEPT ![l] = step] /\ UNCHANGED <<asks, dom, outcome>>
End(l, how) ==
    /\ pc' = [pc EXCEPT ![l] = "idle"]
    /\ dom' = [dom EXCEPT ![l] = NoDomain]
    /\ outcome' = [outcome EXCEPT ![l] = how]
    /\ UNCHANGED asks

LocalsKept == UNCHANGED <<count, doomed, saves, now, begun, skipped>>

\* Who is told that the files of its domain have changed under its hands.
Disturb(l) ==
    disturbed' = [m \in Lookups |->
        disturbed[m] \/ (/\ m # l /\ dom[m] # NoDomain
                         /\ \/ disk'.file[dom[m]] # disk.file[dom[m]]
                            \/ disk'.temp[dom[m]] # disk.temp[dom[m]])]
Quiet == UNCHANGED <<disk, disturbed, shared>>
NoTrouble == UNCHANGED troubles
Trouble == troubles < MaxTroubles /\ troubles' = troubles + 1

Files == {d \in Domains : disk.file[d] # Absent}
Stale(entry) == Expired(entry.at, now, CACHE_TTL, FALSE)

----------------------------------------------------------------------------
(* lookup_whois_with_lookup and WhoisCacheStore::load.                     *)

Begin(l) ==
    /\ pc[l] = "idle" /\ begun < MaxLookups
    /\ \E d \in asks[l] : dom' = [dom EXCEPT ![l] = d]
    /\ pc' = [pc EXCEPT ![l] = "exists"]
    /\ outcome' = [outcome EXCEPT ![l] = "none"]
    /\ disturbed' = [disturbed EXCEPT ![l] = FALSE]
    /\ begun' = begun + 1
    /\ UNCHANGED <<asks, count, doomed, saves, disk, now, troubles, skipped, shared>>

\* try_exists: an I/O error counts as a miss.
Exists(l) ==
    /\ pc[l] = "exists"
    /\ \/ GoesTo(l, IF disk.file[dom[l]] = Absent THEN "fetch" ELSE "read") /\ NoTrouble
       \/ GoesTo(l, "fetch") /\ Trouble
    /\ LocalsKept /\ Quiet

\* stat, read and parse: a file that has gone by now, and one that does not
\* parse, fail the whole lookup; an unusable answer is looked up again.
Read(l) ==
    LET content == disk.file[dom[l]] IN
    /\ pc[l] = "read"
    /\ IF content \in {Absent, Torn} THEN End(l, "error")
       ELSE IF content = Oversized \/ Stale(content) THEN GoesTo(l, "expire")
       ELSE IF content.usable THEN End(l, "hit")
       ELSE GoesTo(l, "fetch")
    /\ disturbed' = [disturbed EXCEPT ![l] = disturbed[l] \/ dom[l] \in shared]
    /\ NoTrouble /\ LocalsKept /\ UNCHANGED <<disk, shared>>

\* remove_file of an expired or oversized entry; its failure is only logged.
Expire(l) ==
    /\ pc[l] = "expire"
    /\ GoesTo(l, "fetch")
    /\ \/ disk' = Remove(disk, dom[l]) /\ NoTrouble
       \/ disk' = disk /\ Trouble
    /\ Disturb(l)
    /\ LocalsKept /\ UNCHANGED shared

\* The WHOIS client, external: an answer that may be saved, or none (timeout,
\* error, not found, rate limited, nothing usable in it).
Fetch(l) ==
    /\ pc[l] = "fetch"
    /\ GoesTo(l, "open") \/ End(l, "nothing")
    /\ NoTrouble /\ LocalsKept /\ Quiet

----------------------------------------------------------------------------
(* WhoisCacheStore::save: write_atomic, then the count.                    *)

OpenFile(l) ==
    /\ pc[l] = "open"
    /\ \/ /\ disk' = OpenTemp(disk, dom[l])
          /\ shared' = IF \E m \in Lookups \ {l} : dom[m] = dom[l] /\ pc[m] \in WriteSteps
                       THEN shared \cup {dom[l]} ELSE shared
          /\ GoesTo(l, "write") /\ NoTrouble /\ Disturb(l)
       \/ /\ Trouble
          /\ End(l, "error")
          /\ disturbed' = [disturbed EXCEPT ![l] = TRUE]
          /\ UNCHANGED <<disk, shared>>
    /\ LocalsKept

WriteFile(l) ==
    /\ pc[l] = "write"
    /\ disk' \in WriteTemp(disk, dom[l], [at |-> now, usable |-> TRUE])
    /\ GoesTo(l, "rename")
    /\ Disturb(l)
    /\ NoTrouble /\ LocalsKept /\ UNCHANGED shared

RenameFile(l) ==
    /\ pc[l] \in {"rename", "removed"}
    /\ IF Renames(disk, dom[l])
       THEN disk' = Rename(disk, dom[l]) /\ GoesTo(l, "add")
       ELSE IF pc[l] = "rename" /\ disk.file[dom[l]] # Absent
       THEN disk' = Remove(disk, dom[l]) /\ GoesTo(l, "removed")
       ELSE disk' = disk /\ End(l, "error")
    /\ Disturb(l)
    /\ NoTrouble /\ LocalsKept /\ UNCHANGED shared

\* fetch_add; what is added while the first save of the process counts is overwritten by it.
AddCount(l) ==
    /\ pc[l] = "add"
    /\ saves' = saves + 1
    /\ count' = [count EXCEPT ![l] = saves + 1]
    /\ GoesTo(l, IF saves = 0 THEN "list_dir" ELSE "judge")
    /\ skipped' = IF \E m \in Lookups : pc[m] \in {"list_dir", "store"} THEN skipped + 1 ELSE skipped
    /\ NoTrouble /\ Quiet /\ UNCHANGED <<doomed, now, begun>>

\* The first save of a process counts what is there, staging files included.
ListDir(l) ==
    LET staged == {d \in Domains : disk.temp[d] # Absent}
        existing == Cardinality(Files) + Cardinality(staged)
    IN
    /\ pc[l] = "list_dir"
    /\ IF existing > 1
       THEN count' = [count EXCEPT ![l] = existing] /\ GoesTo(l, "store")
       ELSE GoesTo(l, "judge") /\ UNCHANGED count
    /\ skipped' = IF staged # {} \/ \E m \in Lookups \ {l} : pc[m] \in WriteSteps \cup Counting
                  THEN skipped + 1 ELSE skipped
    /\ NoTrouble /\ Quiet /\ UNCHANGED <<doomed, saves, now, begun>>

StoreCount(l) ==
    /\ pc[l] = "store"
    /\ saves' = count[l]
    /\ GoesTo(l, "judge")
    /\ NoTrouble /\ Quiet /\ UNCHANGED <<count, doomed, now, begun, skipped>>

\* Mutated form: enforced when the limit is first passed, and never again.
EnforceOnce(n) == n = 1 \/ (n >= MAX_ENTRIES /\ n - MAX_ENTRIES <= 1)

ShouldEnforce(n) ==
    \/ n = 1
    \/ n >= MAX_ENTRIES /\ n - MAX_ENTRIES <= 1
    \/ n > MAX_ENTRIES /\ (n - MAX_ENTRIES - 1) % ENFORCE_INTERVAL = 0

Judge(l) ==
    /\ pc[l] = "judge"
    /\ IF ShouldEnforce(count[l]) THEN GoesTo(l, "list") ELSE End(l, "answer")
    /\ count' = [count EXCEPT ![l] = 0]
    /\ NoTrouble /\ Quiet /\ UNCHANGED <<doomed, saves, now, begun, skipped>>

----------------------------------------------------------------------------
(* enforce_cache_limit: list, then delete the oldest by path.              *)

Age(d) == IF disk.file[d] \in Entries THEN disk.file[d].at ELSE 0
Oldest(n) == {ds \in SUBSET Files : /\ Cardinality(ds) = n
                                    /\ \A d \in ds, e \in Files \ ds : Age(d) <= Age(e)}

List(l) ==
    /\ pc[l] = "list"
    /\ \/ /\ Cardinality(Files) <= MAX_ENTRIES
          /\ End(l, "answer") /\ NoTrouble /\ UNCHANGED <<doomed, skipped, disturbed>>
       \/ /\ Cardinality(Files) > MAX_ENTRIES
          /\ \E ds \in Oldest(Cardinality(Files) - MAX_ENTRIES) : doomed' = [doomed EXCEPT ![l] = ds]
          /\ GoesTo(l, "evict") /\ NoTrouble /\ UNCHANGED <<skipped, disturbed>>
       \/ /\ Trouble
          /\ End(l, "error") /\ skipped' = skipped + 1
          /\ disturbed' = [disturbed EXCEPT ![l] = TRUE]
          /\ UNCHANGED doomed
    /\ UNCHANGED <<count, saves, disk, now, begun, shared>>

\* remove_file of the next one; its failure is only logged, and the entry stays.
Evict(l) ==
    /\ pc[l] = "evict"
    /\ \E d \in doomed[l] :
          /\ doomed' = [doomed EXCEPT ![l] = @ \ {d}]
          /\ \/ disk' = Remove(disk, d) /\ NoTrouble /\ UNCHANGED skipped
             \/ disk' = disk /\ Trouble /\ skipped' = skipped + 1
          /\ IF doomed[l] = {d} THEN End(l, "answer") ELSE GoesTo(l, "evict")
    /\ Disturb(l)
    /\ UNCHANGED <<count, saves, now, begun, shared>>

----------------------------------------------------------------------------
(* The environment.                                                        *)

\* The URL's timeout drops the lookup at an await.  A write or a rename that was handed to
\* the blocking pool by then is not taken back.
Drop(l) ==
    /\ pc[l] \notin {"idle"} \cup Counting \cup LateSteps
    /\ Trouble
    /\ \/ End(l, "dropped")
       \/ /\ pc[l] \in {"write", "rename", "removed"}
          /\ pc' = [pc EXCEPT ![l] = IF pc[l] = "write" THEN "late_write" ELSE "late_rename"]
          /\ outcome' = [outcome EXCEPT ![l] = "dropped"]
          /\ UNCHANGED <<asks, dom>>
    /\ doomed' = [doomed EXCEPT ![l] = {}]
    /\ skipped' = IF pc[l] \in {"list", "evict"} THEN skipped + 1 ELSE skipped
    /\ Quiet /\ UNCHANGED <<count, saves, now, begun>>

\* What the pool does for a lookup that has gone: an entry it renames is in no count.
Late(l) ==
    /\ pc[l] \in LateSteps
    /\ End(l, "dropped")
    /\ \/ /\ pc[l] = "late_write" /\ UNCHANGED skipped
          /\ disk' \in WriteTemp(disk, dom[l], [at |-> now, usable |-> TRUE])
       \/ /\ pc[l] = "late_rename" /\ Renames(disk, dom[l])
          /\ disk' = Rename(disk, dom[l]) /\ skipped' = skipped + 1
       \/ /\ pc[l] = "late_rename" /\ ~Renames(disk, dom[l])
          /\ UNCHANGED <<disk, skipped>>
    /\ Disturb(l)
    /\ NoTrouble /\ UNCHANGED <<count, doomed, saves, now, begun, shared>>

\* The process ends and is started again: only the directory is left.
Restart ==
    /\ Trouble
    /\ pc' = [l \in Lookups |-> "idle"] /\ dom' = [l \in Lookups |-> NoDomain]
    /\ outcome' = [l \in Lookups |-> "none"]
    /\ doomed' = [l \in Lookups |-> {}]
    /\ skipped' = skipped + Cardinality({l \in Lookups : pc[l] \in Counting \cup {"list", "evict"}})
    /\ saves' = 0
    /\ disturbed' = [l \in Lookups |-> FALSE]
    /\ count' = [l \in Lookups |-> 0]
    /\ UNCHANGED <<asks, disk, now, begun, shared>>

Tick == now < MaxTime /\ now' = now + 1
          /\ UNCHANGED <<asks, pc, dom, count, doomed, outcome, saves, disk, begun, troubles,
                         disturbed, skipped, shared>>

Step(l) == \/ Exists(l) \/ Read(l) \/ Expire(l) \/ Fetch(l)
           \/ OpenFile(l) \/ WriteFile(l) \/ RenameFile(l)
           \/ AddCount(l) \/ ListDir(l) \/ StoreCount(l) \/ Judge(l)
           \/ List(l) \/ Evict(l) \/ Late(l)

Next == \/ \E l \in Lookups : Begin(l) \/ Step(l) \/ Drop(l)
        \/ Restart \/ Tick

Spec == Init /\ [][Next]_vars

\* The runtime polls every task, and WHOIS_TIMEOUT_SECS bounds the one step that waits for a server.
FairSpec == Spec /\ \A l \in Lookups : WF_vars(Step(l))

----------------------------------------------------------------------------
(* Properties.                                                             *)

\* An enforcement is due or under way.
Enforcing(l) == pc[l] \in {"list", "evict"} \/ (pc[l] = "judge" /\ ShouldEnforce(count[l]))

\* "so the quota isn't bypassed after a restart": unless an enforcement is under way, the
\* entries never exceed the quota by more than the saves between two enforcements, one more
\* interval for each enforcement cut short, each first count that is off (it takes staging
\* files for entries, and another save may be counted twice or not at all), each save
\* whose count the first one overwrites, each entry that a dropped lookup's rename has put
\* there uncounted and each one that could not be removed, and one entry for each lookup
\* in flight.
QuotaHolds ==
    (\A l \in Lookups : ~Enforcing(l)) =>
        Cardinality(Files) <= MAX_ENTRIES + ENFORCE_INTERVAL * (1 + skipped)
                                + Cardinality({l \in Lookups : asks[l] # {}})

\* A lookup returns an error only if the disk failed it, if another lookup of the
\* same domain or the eviction changed its file between two of its steps, or if
\* its file was torn before: neither an expired entry nor a failing server does it.
ErrorExplained ==
    \A l \in Lookups : outcome[l] = "error" => disturbed[l]

\* write_atomic ("crash-safe replace"): whatever is dropped or ends in the middle
\* of a save, a cache file is only ever torn by two saves that overlapped.
TornByOverlapOnly == \A d \in Domains : disk.file[d] = Torn => d \in shared

\* The cache keeps to its quota, fails no lookup of its own and tears no file, under
\* concurrent, dropped and restarted lookups (whois/cache.rs:69-137, utils/cache.rs:22).
WhoisCacheSound == QuotaHolds /\ ErrorExplained /\ TornByOverlapOnly
============================================================================
