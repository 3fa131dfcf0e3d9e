------------------------------- MODULE GeoIp -------------------------------
(***************************************************************************)
(* GeoIP databases (geoip/): init_geoip, called once by every scan, loads  *)
(* the City and then the ASN database from a local file, from the cache    *)
(* directory or from a download, and puts them into process-wide readers.  *)
(* Several scans of a process, and several processes, share the directory. *)
(*                                                                         *)
(* A database is abstracted to its build number; its metadata to where it  *)
(* came from, the build it describes and the time it was read.             *)
(***************************************************************************)
EXTENDS AtomicFile, FiniteSets

CONSTANTS
    Calls,           \* calls of init_geoip that may be in flight
    Processes,
    None,
    GeoScenes,       \* [home, asks, key, files]: see GeoInit
    GEOIP_TTL,       \* CACHE_TTL_SECS
    MaxGeoTime,      \* bound: the clock, and the builds published
    MaxGeoCalls,     \* bound: calls begun
    MaxGeoTroubles   \* bound: disk errors, dropped calls, process ends

VARIABLES
    scene,     \* the scenario: each call's process and arguments, each process's license key
    call,      \* of each call: its step and its local values
    mem,       \* of each process: GEOIP_CITY_READER and GEOIP_ASN_READER
    gdisk,     \* the cache directory
    gtime,
    gbegun, gtroubles,
    overlapped \* history: databases that two calls wrote, or cleaned up and wrote, at once

gvars == <<scene, call, mem, gdisk, gtime, gbegun, gtroubles, overlapped>>

Dbs == {"City", "ASN"}
Paths == Dbs \X {"db", "meta"}

\* A build number is the time at which MaxMind published it.
Published == gtime

Idle == [pc |-> "idle", db |-> "City", source |-> None, got |-> None, kind |-> "db",
         outcome |-> "none", result |-> None]

\* What a scan finds: metadata that its database backs, and nothing of the future.
BackedFiles(files) ==
    \A db \in Dbs :
        Parses(files[<<db, "meta">>]) =>
            /\ files[<<db, "meta">>].build \in Int /\ files[<<db, "meta">>].build <= 0
            /\ \/ files[<<db, "db">>] = Absent
               \/ /\ Parses(files[<<db, "db">>])
                  /\ files[<<db, "db">>] >= files[<<db, "meta">>].build

ScenesFound == \A s \in GeoScenes : /\ s.home \in [Calls -> Processes]
                                    /\ s.files = [p \in Paths |-> s.files[p]]
                                    /\ BackedFiles(s.files)

GeoInit ==
    /\ scene \in GeoScenes
    /\ call = [c \in Calls |-> Idle]
    /\ mem = [p \in Processes |-> [City |-> None, ASN |-> None]]
    /\ gdisk = [file |-> scene.files, temp |-> [p \in Paths |-> Absent]]
    /\ gtime = 0 /\ gbegun = 0 /\ gtroubles = 0
    /\ overlapped = {}

----------------------------------------------------------------------------
(* Helpers.                                                                *)

Home(c) == scene.home[c]
LicenseKey(c) == scene.key[Home(c)]
At(c, step) == call[c].pc = step
Goto(c, step) == call' = [call EXCEPT ![c].pc = step]
GotoWith(c, step, got) == call' = [call EXCEPT ![c].pc = step, ![c].got = got]

\* The call returns: metadata ("ready"), nothing ("disabled") or an error.
Return(c, outcome) ==
    call' = [call EXCEPT ![c] = [Idle EXCEPT !.outcome = outcome, !.source = call[c].source, !.result = call[c].result]]

\* An ASN database that cannot be had is only logged: init_geoip returns the
\* City metadata it has.
Fail(c) == Return(c, IF call[c].db = "City" THEN "error" ELSE "ready")

NoGeoTrouble == UNCHANGED gtroubles
GeoTrouble == gtroubles < MaxGeoTroubles /\ gtroubles' = gtroubles + 1
Shared == UNCHANGED <<scene, gtime, gbegun>>
ReadsOnly == Shared /\ UNCHANGED <<mem, gdisk, overlapped>>

\* geoip_cache_paths.
geoip_cache_paths(db) == [db |-> <<db, "db">>, meta |-> <<db, "meta">>]
CacheFile(db) == gdisk.file[geoip_cache_paths(db).db]
Metadata(db) == gdisk.file[geoip_cache_paths(db).meta]

\* load_metadata and cache_ttl_exceeded: a date in the future has expired.
Fresh(db) == /\ Parses(Metadata(db))
             /\ ~Expired(Metadata(db).at, gtime, GEOIP_TTL, TRUE)
NeedsDownload(db) == ~Fresh(db) \/ CacheFile(db) = Absent

extract_metadata(build, source) == [source |-> source, build |-> build, at |-> gtime]

Writing(c) == call[c].pc \in {"open", "write", "rename", "removed"}

----------------------------------------------------------------------------
(* init_geoip: the City database.                                          *)

GeoBegin(c) ==
    /\ At(c, "idle") /\ gbegun < MaxGeoCalls
    /\ call' = [call EXCEPT ![c].pc = "cleanup", ![c].outcome = "none",
                            ![c].result = None, ![c].source = None]
    /\ gbegun' = gbegun + 1
    /\ UNCHANGED <<scene, mem, gdisk, gtime, gtroubles, overlapped>>

\* cleanup_geoip_tmp_orphans: every staging file, whoever is writing it.
Cleanup(c) ==
    /\ At(c, "cleanup")
    /\ gdisk' = [gdisk EXCEPT !.temp = [p \in Paths |-> Absent]]
    /\ overlapped' = overlapped \cup {call[d].db : d \in {x \in Calls : Writing(x)}}
    /\ Goto(c, "resolve")
    /\ NoGeoTrouble /\ Shared /\ UNCHANGED mem

\* resolve_from_license_key: the cached file while it is fresh, else the URL.
resolve_from_license_key == IF NeedsDownload("City") THEN "maxmind" ELSE "cached"

\* resolve_geoip_source; a path that is missing is kept for its error message.
resolve_geoip_source(c, ask) ==
    CASE ask \in {"url", "file"} -> ask
      [] ask \in {"missing", "none"} /\ LicenseKey(c) -> resolve_from_license_key
      [] ask = "missing" /\ ~LicenseKey(c) -> "missing"
      [] ask = "none" /\ ~LicenseKey(c) -> None

Resolve(c) ==
    /\ At(c, "resolve")
    /\ LET source == resolve_geoip_source(c, scene.asks[c]) IN
         IF source = None THEN Return(c, "disabled")
         ELSE call' = [call EXCEPT ![c].pc = "check", ![c].source = source]
    /\ NoGeoTrouble /\ ReadsOnly

\* Under the read lock: is a database of this source loaded?
Check(c) ==
    LET city == mem[Home(c)].City
        loaded == city # None /\ city.meta.source = call[c].source
    IN
    /\ At(c, "check")
    /\ Goto(c, IF loaded THEN "again"
               ELSE IF call[c].source \in {"url", "maxmind"} THEN "meta" ELSE "file")
    /\ NoGeoTrouble /\ ReadsOnly

\* Under the lock once more: the metadata of whatever is loaded by now.
Again(c) ==
    /\ At(c, "again")
    /\ call' = [call EXCEPT ![c].pc = "asn", ![c].result = mem[Home(c)].City.meta]
    /\ NoGeoTrouble /\ ReadsOnly

----------------------------------------------------------------------------
(* loader.rs, for either database.                                         *)

\* The bytes under a path that is not a URL: the operator's own file may parse or not.
FileContents(c) ==
    IF call[c].source = "cached" \/ call[c].db = "ASN" THEN {CacheFile(call[c].db)}
    ELSE IF call[c].source = "file" THEN {0, Torn}
    ELSE {Absent}

\* load_from_file: read and parse, or fail.
load_from_file(c) ==
    /\ At(c, "file")
    /\ \E content \in FileContents(c) :
          IF Parses(content)
          THEN GotoWith(c, "store", [build |-> content,
                                     meta |-> extract_metadata(content, call[c].source)])
          ELSE Fail(c)
    /\ NoGeoTrouble /\ ReadsOnly

\* try_load_from_cache, first the metadata, then the file: whatever URL is
\* asked for; a file that does not parse is a miss.
ReadMeta(c) ==
    /\ At(c, "meta")
    /\ IF NeedsDownload(call[c].db) THEN Goto(c, "download")
       ELSE GotoWith(c, "cached", Metadata(call[c].db))
    /\ NoGeoTrouble /\ ReadsOnly

ReadCached(c) ==
    LET content == CacheFile(call[c].db) IN
    /\ At(c, "cached")
    /\ IF Parses(content)
       THEN GotoWith(c, "store", [build |-> content, meta |-> call[c].got])
       ELSE GotoWith(c, "download", None)
    /\ NoGeoTrouble /\ ReadsOnly

\* Mutated form: the metadata is written first.
MetaFirst == <<"meta", "db">>

\* process_downloaded_geoip: the database, then its metadata.
WriteOrder == <<"db", "meta">>
First == WriteOrder[1]
Last == WriteOrder[2]

\* Mutated form: a failed download ends the ASN initialisation.
DownloadOrEnd(c) ==
    /\ At(c, "download")
    /\ \/ call' = [call EXCEPT
                      ![c].pc = "open", ![c].kind = First,
                      ![c].got = [build |-> Published,
                                  meta |-> extract_metadata(Published, call[c].source)]]
       \/ Fail(c)
    /\ NoGeoTrouble /\ ReadsOnly

\* with_network_download_retry, download_geoip_with_size_limit and the parsing
\* half of process_downloaded_geoip: nothing is written before the database has
\* parsed.  A failed ASN download falls back on any cached file.
Download(c) ==
    /\ At(c, "download")
    /\ \/ call' = [call EXCEPT
                      ![c].pc = "open", ![c].kind = First,
                      ![c].got = [build |-> Published,
                                  meta |-> extract_metadata(Published, call[c].source)]]
       \/ IF call[c].db = "ASN" THEN Goto(c, "fallback") ELSE Fail(c)
    /\ NoGeoTrouble /\ ReadsOnly

\* A write that fails is a failed load_from_url.
WriteFails(c) == IF call[c].db = "ASN" THEN Goto(c, "fallback") ELSE Fail(c)
Target(c) == <<call[c].db, call[c].kind>>

Open(c) ==
    /\ At(c, "open")
    /\ \/ /\ gdisk' = OpenTemp(gdisk, Target(c))
          /\ overlapped' = IF \E d \in Calls \ {c} : Writing(d) /\ call[d].db = call[c].db
                           THEN overlapped \cup {call[c].db} ELSE overlapped
          /\ Goto(c, "write") /\ NoGeoTrouble
       \/ GeoTrouble /\ WriteFails(c) /\ UNCHANGED <<gdisk, overlapped>>
    /\ Shared /\ UNCHANGED mem

\* What the two files of a download hold.
Bytes(c) == IF call[c].kind = "db" THEN call[c].got.build ELSE call[c].got.meta

Write(c) ==
    /\ At(c, "write")
    /\ gdisk' \in WriteTemp(gdisk, Target(c), Bytes(c))
    /\ Goto(c, "rename")
    /\ NoGeoTrouble /\ Shared /\ UNCHANGED <<mem, overlapped>>

RenameTemp(c) ==
    /\ call[c].pc \in {"rename", "removed"}
    /\ IF Renames(gdisk, Target(c))
       THEN /\ gdisk' = Rename(gdisk, Target(c))
            /\ IF call[c].kind = Last THEN Goto(c, "store")
               ELSE call' = [call EXCEPT ![c].pc = "open", ![c].kind = Last]
       ELSE IF At(c, "rename") /\ gdisk.file[Target(c)] # Absent
       THEN gdisk' = Remove(gdisk, Target(c)) /\ Goto(c, "removed")
       ELSE gdisk' = gdisk /\ WriteFails(c)
    /\ NoGeoTrouble /\ Shared /\ UNCHANGED <<mem, overlapped>>

\* The reader is replaced under the write lock.
Store(c) ==
    /\ At(c, "store")
    /\ mem' = [mem EXCEPT ![Home(c)][call[c].db] = call[c].got]
    /\ IF call[c].db = "City"
       THEN call' = [call EXCEPT ![c].pc = "asn", ![c].result = call[c].got.meta, ![c].got = None]
       ELSE Return(c, "ready")
    /\ NoGeoTrouble /\ Shared /\ UNCHANGED <<gdisk, overlapped>>

----------------------------------------------------------------------------
(* asn.rs: init_asn_database.                                              *)

InitAsn(c) ==
    /\ At(c, "asn")
    /\ IF mem[Home(c)].ASN # None THEN Return(c, "ready")
       ELSE call' = [call EXCEPT
                       ![c].pc = IF LicenseKey(c) /\ NeedsDownload("ASN") THEN "meta" ELSE "fallback",
                       ![c].db = "ASN"]
    /\ NoGeoTrouble /\ ReadsOnly

\* The cached file, however old.
Fallback(c) ==
    /\ At(c, "fallback")
    /\ IF CacheFile("ASN") = Absent THEN Return(c, "ready") ELSE Goto(c, "file")
    /\ NoGeoTrouble /\ ReadsOnly

----------------------------------------------------------------------------
(* The environment.                                                        *)

\* The call is dropped at an await; a write under way may still be completed.
GeoDrop(c) ==
    /\ call[c].pc \notin {"idle", "check", "again", "store"}
    /\ GeoTrouble
    /\ call' = [call EXCEPT ![c] = Idle]
    /\ \/ gdisk' = gdisk
       \/ At(c, "write") /\ gdisk' \in WriteTemp(gdisk, Target(c), Bytes(c))
    /\ Shared /\ UNCHANGED <<mem, overlapped>>

GeoRestart(p) ==
    /\ GeoTrouble
    /\ call' = [c \in Calls |-> IF Home(c) = p THEN Idle ELSE call[c]]
    /\ mem' = [mem EXCEPT ![p] = [City |-> None, ASN |-> None]]
    /\ Shared /\ UNCHANGED <<gdisk, overlapped>>

GeoTick == gtime < MaxGeoTime /\ gtime' = gtime + 1
             /\ UNCHANGED <<scene, call, mem, gdisk, gbegun, gtroubles, overlapped>>

GeoStep(c) ==
    \/ GeoBegin(c) \/ Cleanup(c) \/ Resolve(c) \/ Check(c) \/ Again(c)
    \/ load_from_file(c) \/ ReadMeta(c) \/ ReadCached(c) \/ Download(c)
    \/ Open(c) \/ Write(c) \/ RenameTemp(c) \/ Store(c)
    \/ InitAsn(c) \/ Fallback(c) \/ GeoDrop(c)

GeoNext == \/ \E c \in Calls : GeoStep(c)
           \/ \E p \in Processes : GeoRestart(p)
           \/ GeoTick

GeoSpec == GeoInit /\ [][GeoNext]_gvars

----------------------------------------------------------------------------
(* Properties.                                                             *)

\* The metadata file vouches for the cache file for a whole TTL.  Whatever call
\* is dropped, fails or dies half way, it never vouches for a database older than
\* the one it describes, nor for one that does not parse, unless two calls wrote
\* at once.
MetadataBacked ==
    \A db \in Dbs \ overlapped :
        Parses(Metadata(db)) =>
            CacheFile(db) = Absent \/ (Parses(CacheFile(db)) /\ CacheFile(db) >= Metadata(db).build)

\* "Uses a cached GeoLite2-ASN.mmdb even when MAXMIND_LICENSE_KEY is unset": a call
\* that returns City metadata leaves the process without ASN data only when there
\* is no cached file that could be read, also after a failed download.
AsnFromCache ==
    [][\A c \in Calls :
         (call[c].pc # "idle" /\ call'[c].outcome = "ready") =>
            (mem'[Home(c)].ASN # None \/ ~Parses(CacheFile("ASN")))]_gvars
============================================================================
