---------------------------- MODULE AtomicFile ----------------------------
(***************************************************************************)
(* utils/cache.rs: write_atomic (a staging file, then a rename) and the    *)
(* age test shared by the on-disk caches.                                  *)
(*                                                                         *)
(* A disk is a pair of functions over paths: what is stored under the      *)
(* path, and what is stored under its staging name .{file_name}.tmp.  All  *)
(* writers of a path share that staging name.  tokio::fs::write opens and  *)
(* truncates first and writes afterwards, so a file can be seen Torn; a    *)
(* rename moves the open file along with its name.                         *)
(***************************************************************************)
EXTENDS Integers

CONSTANTS
    Absent,  \* no such file
    Torn     \* a truncated or mixed file: its JSON (or MMDB) does not parse

Parses(content) == content \notin {Absent, Torn}

\* tokio::fs::write, first half: open with truncation.
OpenTemp(disk, p) == [disk EXCEPT !["temp"][p] = Torn]

\* tokio::fs::write, second half: the bytes go to the file opened before,
\* wherever its name is by now.  If another writer has used the staging name
\* in between, the two contents may end up mixed.
WriteTemp(disk, p, content) ==
    IF disk.temp[p] = Torn THEN {[disk EXCEPT !["temp"][p] = content]}
    ELSE IF Parses(disk.temp[p])
         THEN {[disk EXCEPT !["temp"][p] = c] : c \in {content, Torn}}
         ELSE IF disk.file[p] = Torn THEN {[disk EXCEPT !["file"][p] = content]}
              ELSE {disk}

\* Can the staging file be renamed?
Renames(disk, p) == disk.temp[p] # Absent
Rename(disk, p) == [disk EXCEPT !["file"][p] = disk.temp[p], !["temp"][p] = Absent]

\* The fallback after a failed rename: the destination is removed, and the
\* rename is tried once more.
Remove(disk, p) == [disk EXCEPT !["file"][p] = Absent]

\* duration_exceeds_ttl, cache_ttl_exceeded: expired from ttl on; an entry from
\* the future counts as the caller says.
Expired(at, now, ttl, skew) == IF at > now THEN skew ELSE now - at >= ttl
============================================================================
