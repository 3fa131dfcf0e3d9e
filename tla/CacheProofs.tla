---------------------------- MODULE CacheProofs ----------------------------
(***************************************************************************)
(* Proofs about the on-disk caches, for every set of calls, processes,     *)
(* lookups and domains and every number of faults.                         *)
(*                                                                         *)
(* GeoIP: MetadataBacked is not inductive, as the metadata file never      *)
(* running ahead of the database rests on who is writing.  As long as no   *)
(* two calls have written a database at once, one call at most is between  *)
(* its first open and its last rename (OneWriter), the staging file is its *)
(* own (StagedFile), the database it has renamed is still there when it    *)
(* comes to the metadata (StoredFirst), and nobody is about to write a     *)
(* build older than what is on the disk (NoneOlder).                       *)
(*                                                                         *)
(* WHOIS, in the second half: the files and the errors, then the quota.    *)
(***************************************************************************)
EXTENDS GeoIp, WhoisCache, FiniteSetTheorems, TLAPS

----------------------------------------------------------------------------
(* The inductive invariant.                                                *)

IsMeta(m) == \E s, b, t : m = [source |-> s, build |-> b, at |-> t]

\* What the model asks of its constants: markers are told apart from contents, and the
\* directory is one that earlier scans may have left.
GeoAssumption ==
    /\ \A b \in Int : Parses(b)
    /\ \A m : IsMeta(m) => Parses(m)
    /\ ~Parses(Torn) /\ ~Parses(Absent) /\ Torn # Absent
    /\ \A b, m : [build |-> b, meta |-> m] # None
    /\ ScenesFound

\* The shape of the state.
CallShape(r) ==
    r = [pc |-> r.pc, db |-> r.db, source |-> r.source, got |-> r.got, kind |-> r.kind,
         outcome |-> r.outcome, result |-> r.result]

Shaped ==
    /\ scene \in GeoScenes /\ gtime \in Nat
    /\ call = [c \in Calls |-> call[c]] /\ \A c \in Calls : CallShape(call[c])
    /\ gdisk = [file |-> gdisk.file, temp |-> gdisk.temp]
    /\ gdisk.file = [p \in Paths |-> gdisk.file[p]]
    /\ gdisk.temp = [p \in Paths |-> gdisk.temp[p]]
    /\ mem = [p \in Processes |-> mem[p]]
    /\ \A p \in Processes : mem[p] = [City |-> mem[p].City, ASN |-> mem[p].ASN]

\* A download in hand: the build and metadata that describe it.
Downloaded(got) ==
    /\ got = [build |-> got.build, meta |-> got.meta]
    /\ got.build \in Int /\ IsMeta(got.meta) /\ got.meta.build = got.build

CallKept(c) ==
    /\ call[c].db \in Dbs /\ call[c].kind \in {"db", "meta"}
    /\ call[c].pc # "idle" => call[c].outcome = "none"
    /\ call[c].pc = "store" => call[c].got # None
    /\ Writing(c) => Downloaded(call[c].got) /\ call[c].got.build <= gtime

\* The calls that are writing a database; of these, the ones that have not opened a file yet.
Writer(c, db) == c \in Calls /\ Writing(c) /\ call[c].db = db
Poised(c, db) == Writer(c, db) /\ call[c].pc = "open" /\ call[c].kind = "db"
Begun(c, db) == Writer(c, db) /\ ~Poised(c, db)

OneWriter(db) == \A c, d \in Calls : Begun(c, db) /\ Begun(d, db) => c = d

NoneOlder(db) ==
    /\ \A c, d \in Calls : Begun(c, db) /\ Poised(d, db) =>
                              call[c].got.build <= call[d].got.build
    /\ \A c \in Calls : Writer(c, db) /\ Parses(Metadata(db)) =>
                              Metadata(db).build <= call[c].got.build

StagedFile(db) ==
    \A c \in Calls : Writer(c, db) =>
        /\ call[c].pc = "write" => gdisk.temp[Target(c)] = Torn
        /\ call[c].pc = "rename" => gdisk.temp[Target(c)] = Bytes(c)
        /\ call[c].pc # "removed"

StoredFirst(db) ==
    \A c \in Calls : Writer(c, db) /\ call[c].kind = "meta" =>
        CacheFile(db) = call[c].got.build

Backed(db) ==
    Parses(Metadata(db)) =>
        /\ Metadata(db).build \in Int /\ Metadata(db).build <= gtime
        /\ \/ CacheFile(db) = Absent
           \/ Parses(CacheFile(db)) /\ CacheFile(db) >= Metadata(db).build

DbKept(db) ==
    OneWriter(db) /\ NoneOlder(db) /\ StagedFile(db) /\ StoredFirst(db) /\ Backed(db)

GeoInv ==
    /\ Shaped
    /\ \A c \in Calls : CallKept(c)
    /\ \A db \in Dbs \ overlapped : DbKept(db)

----------------------------------------------------------------------------
(* Steps in general.                                                       *)

\* A step that leaves alone the files of a database, and of the calls that write it all
\* those that go on, with the staging files they use, keeps what is known of it.
LEMMA DbElsewhere ==
    ASSUME NEW db \in Dbs, DbKept(db), gtime \in Nat, gtime' \in Nat, gtime <= gtime',
           CacheFile(db)' = CacheFile(db), Metadata(db)' = Metadata(db),
           \A c \in Calls : Writer(c, db)' =>
                call'[c] = call[c] /\ gdisk'.temp[Target(c)'] = gdisk.temp[Target(c)]
    PROVE  DbKept(db)'
<1>1. ASSUME NEW c \in Calls, Writer(c, db)'
      PROVE  /\ call'[c] = call[c] /\ Writer(c, db)
             /\ gdisk'.temp[Target(c)'] = gdisk.temp[Target(c)]
             /\ Poised(c, db)' <=> Poised(c, db)
             /\ Begun(c, db)' <=> Begun(c, db)
             /\ Bytes(c)' = Bytes(c)
  BY <1>1 DEF Writer, Writing, Poised, Begun, Bytes
<1>2. OneWriter(db)'
  BY <1>1 DEF DbKept, OneWriter, Begun
<1>3. NoneOlder(db)'
  BY <1>1 DEF DbKept, NoneOlder, Begun, Poised
<1>4. StagedFile(db)'
  BY <1>1 DEF DbKept, StagedFile
<1>5. StoredFirst(db)'
  BY <1>1 DEF DbKept, StoredFirst
<1>6. Backed(db)'
  BY DEF DbKept, Backed
<1> QED BY <1>2, <1>3, <1>4, <1>5, <1>6 DEF DbKept

\* One call moves, to a state of the right shape.
Moves(c) ==
    /\ call' = [d \in Calls |-> call'[d]]
    /\ CallShape(call'[c])
    /\ \A d \in Calls \ {c} : call'[d] = call[d]

\* A call moves on without writing, or ends.
LEMMA CallLeaves ==
    ASSUME GeoAssumption, GeoInv, NEW c \in Calls, Moves(c),
           call'[c].db \in Dbs, call'[c].kind \in {"db", "meta"},
           call'[c].pc \notin {"open", "write", "rename", "removed"},
           call'[c].pc # "idle" => call'[c].outcome = "none",
           call'[c].pc = "store" => call'[c].got # None,
           UNCHANGED <<scene, gtime, gdisk, overlapped>>,
           mem' = [p \in Processes |-> mem'[p]],
           \A p \in Processes : mem'[p] = [City |-> mem'[p].City, ASN |-> mem'[p].ASN]
    PROVE  GeoInv'
<1>1. ASSUME NEW d \in Calls PROVE CallShape(call'[d])
  BY DEF Moves, GeoInv, Shaped
<1>2. Shaped'
  BY <1>1 DEF GeoInv, Shaped, CallShape, Moves
<1>3. ASSUME NEW d \in Calls PROVE CallKept(d)'
  <2>1. CASE d = c
    BY <2>1 DEF CallKept, Writing
  <2>2. CASE d # c
    BY <2>2 DEF GeoInv, CallKept, Writing, Moves
  <2> QED BY <2>1, <2>2
<1>4. ASSUME NEW db \in Dbs \ overlapped PROVE DbKept(db)'
  <2>1. ~Writer(c, db)'
    BY DEF Writer, Writing
  <2>2. \A d \in Calls : Writer(d, db)' => call'[d] = call[d] /\ Target(d)' = Target(d)
    BY <2>1 DEF Writer, Target, Moves
  <2>3. DbKept(db) /\ gtime \in Nat
    BY DEF GeoInv, Shaped
  <2> QED BY <2>2, <2>3, DbElsewhere DEF CacheFile, Metadata
<1> QED BY <1>2, <1>3, <1>4 DEF GeoInv

----------------------------------------------------------------------------
(* The steps that write nothing.                                           *)

\* A call moves on, changing its local values, and nothing else changes.
LEMMA LocalStep ==
    ASSUME GeoAssumption, GeoInv, NEW c \in Calls, Moves(c), call[c].pc # "idle",
           call'[c].pc \notin {"idle", "open", "write", "rename", "removed"},
           call'[c].db \in Dbs, call'[c].kind = call[c].kind,
           call'[c].outcome = call[c].outcome,
           call'[c].pc = "store" => call'[c].got # None,
           UNCHANGED <<scene, gtime, gdisk, overlapped, mem>>
    PROVE  GeoInv'
<1>1. CallKept(c) /\ Shaped
  BY DEF GeoInv
<1>2. call'[c].kind \in {"db", "meta"} /\ call'[c].outcome = "none"
  BY <1>1 DEF CallKept
<1>3. mem' = [p \in Processes |-> mem'[p]] /\ \A p \in Processes : mem'[p] = [City |-> mem'[p].City, ASN |-> mem'[p].ASN]
  BY <1>1 DEF Shaped
<1> QED BY <1>2, <1>3, CallLeaves

\* What Goto, GotoWith and Return do to the record of a call.
LEMMA GotoMoves ==
    ASSUME Shaped, NEW c \in Calls, NEW step, Goto(c, step)
    PROVE  /\ Moves(c) /\ call'[c].pc = step /\ call'[c].db = call[c].db
           /\ call'[c].kind = call[c].kind /\ call'[c].outcome = call[c].outcome
           /\ call'[c].got = call[c].got /\ call'[c].source = call[c].source
  BY DEF Shaped, Goto, Moves, CallShape

LEMMA GotoWithMoves ==
    ASSUME Shaped, NEW c \in Calls, NEW step, NEW got, GotoWith(c, step, got)
    PROVE  /\ Moves(c) /\ call'[c].pc = step /\ call'[c].db = call[c].db
           /\ call'[c].kind = call[c].kind /\ call'[c].outcome = call[c].outcome
           /\ call'[c].got = got
<1>1. CallShape(call[c]) /\ call = [d \in Calls |-> call[d]]
  BY DEF Shaped
<1>2. /\ call' = [d \in Calls |-> call'[d]] /\ \A d \in Calls \ {c} : call'[d] = call[d]
      /\ call'[c] = [call[c] EXCEPT !.pc = step, !.got = got]
  BY <1>1 DEF GotoWith
<1>3. /\ call'[c].pc = step /\ call'[c].db = call[c].db
      /\ call'[c].kind = call[c].kind /\ call'[c].outcome = call[c].outcome
      /\ call'[c].got = got
  BY <1>1, <1>2 DEF CallShape
<1>4. CallShape(call'[c])
  BY <1>1, <1>2 DEF CallShape
<1> QED BY <1>2, <1>3, <1>4 DEF Moves

LEMMA ReturnMoves ==
    ASSUME Shaped, NEW c \in Calls, NEW how, Return(c, how)
    PROVE  /\ Moves(c) /\ call'[c].pc = "idle" /\ call'[c].db = "City"
           /\ call'[c].kind = "db" /\ call'[c].outcome = how
  BY DEF Shaped, Return, Idle, Moves, CallShape

LEMMA ReturnStep ==
    ASSUME GeoAssumption, GeoInv, NEW c \in Calls, NEW how, Return(c, how),
           UNCHANGED <<scene, gtime, gdisk, overlapped>>,
           mem' = [p \in Processes |-> mem'[p]],
           \A p \in Processes : mem'[p] = [City |-> mem'[p].City, ASN |-> mem'[p].ASN]
    PROVE  GeoInv'
<1>1. Shaped
  BY DEF GeoInv
<1> QED BY <1>1, ReturnMoves, CallLeaves DEF Dbs

LEMMA FailStep ==
    ASSUME GeoAssumption, GeoInv, NEW c \in Calls, Fail(c),
           UNCHANGED <<scene, gtime, gdisk, overlapped, mem>>
    PROVE  GeoInv'
<1>1. mem' = [p \in Processes |-> mem'[p]] /\ \A p \in Processes : mem'[p] = [City |-> mem'[p].City, ASN |-> mem'[p].ASN]
  BY DEF GeoInv, Shaped
<1> QED BY <1>1, ReturnStep DEF Fail

LEMMA GotoStep ==
    ASSUME GeoAssumption, GeoInv, NEW c \in Calls, call[c].pc # "idle",
           NEW step, step \notin {"idle", "open", "write", "rename", "removed"},
           \/ Goto(c, step) /\ step # "store"
           \/ \E got : GotoWith(c, step, got) /\ (step = "store" => got # None),
           UNCHANGED <<scene, gtime, gdisk, overlapped, mem>>
    PROVE  GeoInv'
<1>1. Shaped /\ call[c].db \in Dbs
  BY DEF GeoInv, CallKept
<1>2. CASE Goto(c, step) /\ step # "store"
  BY <1>1, <1>2, GotoMoves, LocalStep
<1>3. CASE \E got : GotoWith(c, step, got) /\ (step = "store" => got # None)
  BY <1>1, <1>3, GotoWithMoves, LocalStep
<1> QED BY <1>2, <1>3

LEMMA BeginStep == ASSUME GeoAssumption, GeoInv, NEW c \in Calls, GeoBegin(c) PROVE GeoInv'
<1>1. /\ CallShape(call[c]) /\ call = [d \in Calls |-> call[d]]
      /\ call[c].db \in Dbs /\ call[c].kind \in {"db", "meta"}
      /\ mem = [p \in Processes |-> mem[p]]
      /\ \A p \in Processes : mem[p] = [City |-> mem[p].City, ASN |-> mem[p].ASN]
  BY DEF GeoInv, Shaped, CallKept
<1>2. /\ call' = [d \in Calls |-> call'[d]] /\ \A d \in Calls \ {c} : call'[d] = call[d]
      /\ call'[c] = [call[c] EXCEPT !.pc = "cleanup", !.outcome = "none", !.result = None,
                                    !.source = None]
      /\ UNCHANGED <<scene, gtime, gdisk, overlapped, mem>>
  BY <1>1 DEF GeoBegin
<1>3. /\ call'[c].pc = "cleanup" /\ call'[c].db = call[c].db
      /\ call'[c].kind = call[c].kind /\ call'[c].outcome = "none"
  BY <1>1, <1>2 DEF CallShape
<1>4. CallShape(call'[c])
  BY <1>1, <1>2 DEF CallShape
<1> QED BY <1>1, <1>2, <1>3, <1>4, CallLeaves DEF Moves

LEMMA ResolveStep == ASSUME GeoAssumption, GeoInv, NEW c \in Calls, Resolve(c) PROVE GeoInv'
<1>1. /\ CallShape(call[c]) /\ call = [d \in Calls |-> call[d]] /\ call[c].db \in Dbs
      /\ mem = [p \in Processes |-> mem[p]]
      /\ \A p \in Processes : mem[p] = [City |-> mem[p].City, ASN |-> mem[p].ASN]
  BY DEF GeoInv, Shaped, CallKept
<1>2. UNCHANGED <<scene, gtime, gdisk, overlapped, mem>> /\ call[c].pc # "idle"
  BY DEF Resolve, At, ReadsOnly, Shared
<1>3. PICK source : IF source = None THEN Return(c, "disabled")
                    ELSE call' = [call EXCEPT ![c].pc = "check", ![c].source = source]
  BY DEF Resolve
<1>4. CASE Return(c, "disabled")
  BY <1>1, <1>2, <1>4, ReturnStep
<1>5. CASE call' = [call EXCEPT ![c].pc = "check", ![c].source = source]
  <2>1. /\ call' = [d \in Calls |-> call'[d]] /\ \A d \in Calls \ {c} : call'[d] = call[d]
        /\ call'[c] = [call[c] EXCEPT !.pc = "check", !.source = source]
    BY <1>1, <1>5
  <2>2. /\ call'[c].pc = "check" /\ call'[c].db = call[c].db
        /\ call'[c].kind = call[c].kind /\ call'[c].outcome = call[c].outcome
    BY <1>1, <2>1 DEF CallShape
  <2>3. CallShape(call'[c])
    BY <1>1, <2>1 DEF CallShape
  <2> QED BY <1>1, <1>2, <2>1, <2>2, <2>3, LocalStep DEF Moves
<1> QED BY <1>3, <1>4, <1>5

LEMMA AgainStep == ASSUME GeoAssumption, GeoInv, NEW c \in Calls, Again(c) PROVE GeoInv'
<1>1. CallShape(call[c]) /\ call = [d \in Calls |-> call[d]] /\ call[c].db \in Dbs
  BY DEF GeoInv, Shaped, CallKept
<1>2. UNCHANGED <<scene, gtime, gdisk, overlapped, mem>> /\ call[c].pc # "idle"
  BY DEF Again, At, ReadsOnly, Shared
<1>3. PICK result : call' = [call EXCEPT ![c].pc = "asn", ![c].result = result]
  BY DEF Again
<1>4. /\ call' = [d \in Calls |-> call'[d]] /\ \A d \in Calls \ {c} : call'[d] = call[d]
      /\ call'[c] = [call[c] EXCEPT !.pc = "asn", !.result = result]
  BY <1>1, <1>3
<1>5. /\ call'[c].pc = "asn" /\ call'[c].db = call[c].db
      /\ call'[c].kind = call[c].kind /\ call'[c].outcome = call[c].outcome
  BY <1>1, <1>4 DEF CallShape
<1>6. CallShape(call'[c])
  BY <1>1, <1>4 DEF CallShape
<1> QED BY <1>1, <1>2, <1>4, <1>5, <1>6, LocalStep DEF Moves

LEMMA InitAsnStep == ASSUME GeoAssumption, GeoInv, NEW c \in Calls, InitAsn(c) PROVE GeoInv'
<1>1. /\ CallShape(call[c]) /\ call = [d \in Calls |-> call[d]]
      /\ mem = [p \in Processes |-> mem[p]]
      /\ \A p \in Processes : mem[p] = [City |-> mem[p].City, ASN |-> mem[p].ASN]
  BY DEF GeoInv, Shaped
<1>2. UNCHANGED <<scene, gtime, gdisk, overlapped, mem>> /\ call[c].pc # "idle"
  BY DEF InitAsn, At, ReadsOnly, Shared
<1>3. \/ Return(c, "ready")
      \/ \E step \in {"meta", "fallback"} : call' = [call EXCEPT ![c].pc = step, ![c].db = "ASN"]
  BY DEF InitAsn
<1>4. CASE Return(c, "ready")
  BY <1>1, <1>2, <1>4, ReturnStep
<1>5. ASSUME NEW step \in {"meta", "fallback"},
             call' = [call EXCEPT ![c].pc = step, ![c].db = "ASN"]
      PROVE  GeoInv'
  <2>1. /\ call' = [d \in Calls |-> call'[d]] /\ \A d \in Calls \ {c} : call'[d] = call[d]
        /\ call'[c] = [call[c] EXCEPT !.pc = step, !.db = "ASN"]
    BY <1>1, <1>5
  <2>2. /\ call'[c].pc = step /\ call'[c].db = "ASN"
        /\ call'[c].kind = call[c].kind /\ call'[c].outcome = call[c].outcome
    BY <1>1, <2>1 DEF CallShape
  <2>3. CallShape(call'[c])
    BY <1>1, <2>1 DEF CallShape
  <2> QED BY <1>2, <2>1, <2>2, <2>3, LocalStep DEF Moves, Dbs
<1> QED BY <1>3, <1>4, <1>5

LEMMA ReadSteps ==
    ASSUME GeoAssumption, GeoInv, NEW c \in Calls,
           Check(c) \/ load_from_file(c) \/ ReadMeta(c) \/ ReadCached(c) \/ Fallback(c)
    PROVE  GeoInv'
<1>1. /\ mem = [p \in Processes |-> mem[p]]
      /\ \A p \in Processes : mem[p] = [City |-> mem[p].City, ASN |-> mem[p].ASN]
      /\ \A b, m : [build |-> b, meta |-> m] # None
  BY DEF GeoInv, Shaped, GeoAssumption
<1>2. UNCHANGED <<scene, gtime, gdisk, overlapped, mem>> /\ call[c].pc # "idle"
  BY DEF Check, load_from_file, ReadMeta, ReadCached, Fallback, At, ReadsOnly, Shared
<1>3. ASSUME NEW b, NEW m, GotoWith(c, "store", [build |-> b, meta |-> m]) PROVE GeoInv'
  BY <1>1, <1>2, <1>3, GotoStep
<1>4. CASE Check(c)
  <2>1. \E step \in {"again", "meta", "file"} : Goto(c, step)
    BY <1>4 DEF Check
  <2> QED BY <1>2, <2>1, GotoStep
<1>5. CASE load_from_file(c)
  <2>1. Fail(c) \/ \E b, m : GotoWith(c, "store", [build |-> b, meta |-> m])
    BY <1>5 DEF load_from_file
  <2> QED BY <1>2, <1>3, <2>1, FailStep
<1>6. CASE ReadMeta(c)
  <2>1. Goto(c, "download") \/ \E m : GotoWith(c, "cached", m)
    BY <1>6 DEF ReadMeta
  <2>2. CASE Goto(c, "download")
    BY <1>2, <2>2, GotoStep
  <2>3. ASSUME NEW m, GotoWith(c, "cached", m) PROVE GeoInv'
    BY <1>2, <2>3, GotoStep
  <2> QED BY <2>1, <2>2, <2>3
<1>7. CASE ReadCached(c)
  <2>1. \/ GotoWith(c, "download", None)
        \/ \E b, m : GotoWith(c, "store", [build |-> b, meta |-> m])
    BY <1>7 DEF ReadCached
  <2>2. CASE GotoWith(c, "download", None)
    BY <1>2, <2>2, GotoStep
  <2> QED BY <1>3, <2>1, <2>2
<1>8. CASE Fallback(c)
  <2>1. Goto(c, "file") \/ Return(c, "ready")
    BY <1>8 DEF Fallback
  <2> QED BY <1>1, <1>2, <2>1, GotoStep, ReturnStep
<1> QED BY <1>4, <1>5, <1>6, <1>7, <1>8

\* The reader is replaced.
LEMMA StoreStep == ASSUME GeoAssumption, GeoInv, NEW c \in Calls, Store(c) PROVE GeoInv'
<1>1. /\ CallShape(call[c]) /\ call = [d \in Calls |-> call[d]] /\ call[c].db \in Dbs
      /\ mem = [p \in Processes |-> mem[p]]
      /\ \A p \in Processes : mem[p] = [City |-> mem[p].City, ASN |-> mem[p].ASN]
      /\ call[c].pc = "store" /\ call[c].outcome = "none" /\ call[c].kind \in {"db", "meta"}
  BY DEF GeoInv, Shaped, CallKept, Store, At
<1>2. UNCHANGED <<scene, gtime, gdisk, overlapped>>
  BY DEF Store, Shared
<1>3. mem' = [p \in Processes |-> mem'[p]] /\ \A p \in Processes : mem'[p] = [City |-> mem'[p].City, ASN |-> mem'[p].ASN]
  <2>1. CASE call[c].db = "City"
    <3>1. mem' = [mem EXCEPT ![Home(c)]["City"] = call[c].got]
      BY <2>1 DEF Store
    <3> QED BY <1>1, <3>1
  <2>2. CASE call[c].db = "ASN"
    <3>1. mem' = [mem EXCEPT ![Home(c)]["ASN"] = call[c].got]
      BY <2>2 DEF Store
    <3>2. mem' = [p \in Processes |-> mem'[p]]
      BY <1>1, <3>1
    <3>3. ASSUME NEW p \in Processes PROVE mem'[p] = [City |-> mem'[p].City, ASN |-> mem'[p].ASN]
      <4>1. CASE p = Home(c)
        <5>1. mem'[p] = [mem[p] EXCEPT !["ASN"] = call[c].got]
          BY <1>1, <3>1, <4>1
        <5> QED BY <1>1, <5>1
      <4>2. CASE p # Home(c)
        BY <1>1, <3>1, <4>2
      <4> QED BY <4>1, <4>2
    <3> QED BY <3>2, <3>3
  <2> QED BY <1>1, <2>1, <2>2 DEF Dbs
<1>4. CASE Return(c, "ready")
  BY <1>2, <1>3, <1>4, ReturnStep
<1>5. CASE call' = [call EXCEPT ![c].pc = "asn", ![c].result = call[c].got.meta, ![c].got = None]
  <2>1. /\ call' = [d \in Calls |-> call'[d]] /\ \A d \in Calls \ {c} : call'[d] = call[d]
        /\ call'[c] = [call[c] EXCEPT !.pc = "asn", !.result = call[c].got.meta, !.got = None]
    BY <1>1, <1>5
  <2>2. /\ call'[c].pc = "asn" /\ call'[c].db = call[c].db
        /\ call'[c].kind = call[c].kind /\ call'[c].outcome = call[c].outcome
    BY <1>1, <2>1 DEF CallShape
  <2>3. CallShape(call'[c])
    BY <1>1, <2>1 DEF CallShape
  <2> QED BY <1>1, <1>2, <1>3, <2>1, <2>2, <2>3, CallLeaves DEF Moves
<1> QED BY <1>4, <1>5 DEF Store

----------------------------------------------------------------------------
(* The steps that write.                                                   *)

DiskShape(fs) ==
    /\ fs = [file |-> fs.file, temp |-> fs.temp]
    /\ fs.file = [p \in Paths |-> fs.file[p]]
    /\ fs.temp = [p \in Paths |-> fs.temp[p]]

\* The disk after a change of one path.
SetTemp(fs, p, x) == [fs EXCEPT !["temp"][p] = x]
SetFile(fs, p, x) == [fs EXCEPT !["file"][p] = x]

LEMMA TempSet ==
    ASSUME NEW fs, DiskShape(fs), NEW p \in Paths, NEW x, NEW new,
           new = SetTemp(fs, p, x)
    PROVE  /\ DiskShape(new) /\ new.file = fs.file
           /\ new.temp[p] = x /\ \A q \in Paths \ {p} : new.temp[q] = fs.temp[q]
  BY DEF DiskShape, SetTemp

LEMMA FileSet ==
    ASSUME NEW fs, DiskShape(fs), NEW p \in Paths, NEW x, NEW new,
           new = SetFile(fs, p, x)
    PROVE  /\ DiskShape(new) /\ new.temp = fs.temp
           /\ new.file[p] = x /\ \A q \in Paths \ {p} : new.file[q] = fs.file[q]
  BY DEF DiskShape, SetFile

LEMMA RenameFacts ==
    ASSUME NEW fs, DiskShape(fs), NEW p \in Paths, NEW new, new = Rename(fs, p)
    PROVE  /\ DiskShape(new) /\ new.file[p] = fs.temp[p] /\ new.temp[p] = Absent
           /\ \A q \in Paths \ {p} : new.file[q] = fs.file[q] /\ new.temp[q] = fs.temp[q]
<1>1. PICK mid : mid = SetFile(fs, p, fs.temp[p])
  OBVIOUS
<1>2. /\ DiskShape(mid) /\ mid.temp = fs.temp
      /\ mid.file[p] = fs.temp[p] /\ \A q \in Paths \ {p} : mid.file[q] = fs.file[q]
  BY <1>1, FileSet
<1>3. new = SetTemp(mid, p, Absent)
  BY <1>1 DEF Rename, SetFile, SetTemp
<1>4. /\ DiskShape(new) /\ new.file = mid.file
      /\ new.temp[p] = Absent /\ \A q \in Paths \ {p} : new.temp[q] = mid.temp[q]
  BY <1>2, <1>3, TempSet
<1> QED BY <1>2, <1>4

LEMMA WriteFacts ==
    ASSUME NEW fs, DiskShape(fs), NEW p \in Paths, NEW content,
           NEW new \in WriteTemp(fs, p, content)
    PROVE  /\ DiskShape(new)
           /\ \A q \in Paths \ {p} : new.file[q] = fs.file[q] /\ new.temp[q] = fs.temp[q]
           /\ fs.temp[p] = Torn => new.temp[p] = content /\ new.file[p] = fs.file[p]
<1>1. CASE fs.temp[p] = Torn
  <2>1. new = SetTemp(fs, p, content)
    BY <1>1 DEF WriteTemp, SetTemp
  <2> QED BY <2>1, TempSet
<1>2. CASE fs.temp[p] # Torn
  <2>1. \/ \E x : new = SetTemp(fs, p, x)
        \/ \E x : new = SetFile(fs, p, x)
        \/ new = fs
    BY <1>2 DEF WriteTemp, SetTemp, SetFile
  <2> QED BY <1>2, <2>1, TempSet, FileSet
<1> QED BY <1>1, <1>2

\* A call whose step touches at most the files of the database that it writes.
LEMMA CallWrites ==
    ASSUME GeoAssumption, GeoInv, NEW c \in Calls, Moves(c), NEW own \in Dbs, call[c].db = own,
           \/ call'[c].db = own
           \/ call'[c].pc \notin {"open", "write", "rename", "removed"},
           UNCHANGED <<scene, gtime, mem>>, overlapped \subseteq overlapped',
           DiskShape(gdisk'),
           \A db \in Dbs \ {own}, k \in {"db", "meta"} :
               /\ gdisk'.file[<<db, k>>] = gdisk.file[<<db, k>>]
               /\ gdisk'.temp[<<db, k>>] = gdisk.temp[<<db, k>>],
           CallKept(c)',
           own \notin overlapped' => DbKept(own)'
    PROVE  GeoInv'
<1>1. ASSUME NEW d \in Calls PROVE CallShape(call'[d])
  BY DEF Moves, GeoInv, Shaped
<1>2. Shaped'
  BY <1>1 DEF GeoInv, Shaped, CallShape, Moves, DiskShape
<1>3. ASSUME NEW d \in Calls PROVE CallKept(d)'
  <2>1. CASE d # c
    BY <2>1 DEF GeoInv, CallKept, Writing, Moves
  <2> QED BY <2>1
<1>4. ASSUME NEW db \in Dbs \ overlapped', db # own PROVE DbKept(db)'
  <2>1. DbKept(db) /\ gtime \in Nat
    BY DEF GeoInv, Shaped
  <2>2. CacheFile(db)' = CacheFile(db) /\ Metadata(db)' = Metadata(db)
    BY <1>4 DEF CacheFile, Metadata, geoip_cache_paths
  <2>3. ASSUME NEW d \in Calls, Writer(d, db)'
        PROVE  call'[d] = call[d] /\ gdisk'.temp[Target(d)'] = gdisk.temp[Target(d)]
    <3>1. d # c
      BY <1>4, <2>3 DEF Writer, Writing
    <3>2. call'[d] = call[d] /\ call[d].db = db /\ call[d].kind \in {"db", "meta"}
      BY <2>3, <3>1 DEF Moves, Writer, GeoInv, CallKept
    <3>3. PICK k \in {"db", "meta"} : k = call[d].kind
      BY <3>2
    <3>4. Target(d) = <<db, k>> /\ Target(d)' = <<db, k>>
      BY <3>2, <3>3 DEF Target
    <3>5. gdisk'.temp[<<db, k>>] = gdisk.temp[<<db, k>>]
      BY <1>4
    <3> QED BY <3>2, <3>4, <3>5
  <2> QED BY <2>1, <2>2, <2>3, DbElsewhere
<1> QED BY <1>2, <1>3, <1>4 DEF GeoInv

\* What is known of a call that writes.
LEMMA WriterTypes ==
    ASSUME GeoAssumption, GeoInv, NEW c \in Calls
    PROVE  /\ DiskShape(gdisk) /\ gtime \in Nat /\ call = [d \in Calls |-> call[d]]
           /\ CallShape(call[c]) /\ call[c].db \in Dbs /\ call[c].kind \in {"db", "meta"}
           /\ Target(c) \in Paths
  BY DEF GeoInv, Shaped, DiskShape, CallKept, Target, Paths

LEMMA DownloadStep == ASSUME GeoAssumption, GeoInv, NEW c \in Calls, Download(c) PROVE GeoInv'
<1>1. /\ DiskShape(gdisk) /\ gtime \in Nat /\ call = [d \in Calls |-> call[d]]
      /\ CallShape(call[c]) /\ call[c].pc = "download" /\ CallKept(c)
      /\ UNCHANGED <<scene, gtime, gdisk, overlapped, mem>>
  BY WriterTypes DEF Download, At, ReadsOnly, Shared, GeoInv
<1>2. CASE IF call[c].db = "ASN" THEN Goto(c, "fallback") ELSE Fail(c)
  BY <1>1, <1>2, GotoStep, FailStep
<1>3. ASSUME call' = [call EXCEPT
                        ![c].pc = "open", ![c].kind = First,
                        ![c].got = [build |-> Published,
                                    meta |-> extract_metadata(Published, call[c].source)]]
      PROVE  GeoInv'
  <2>1. PICK own \in Dbs : own = call[c].db
    BY <1>1 DEF CallKept
  <2>2. PICK meta : meta = extract_metadata(Published, call[c].source)
    OBVIOUS
  <2>3. IsMeta(meta) /\ meta.build = gtime
    BY <2>2 DEF extract_metadata, IsMeta, Published
  <2>4. PICK got : got = [build |-> gtime, meta |-> meta]
    OBVIOUS
  <2>5. /\ call' = [d \in Calls |-> call'[d]] /\ \A d \in Calls \ {c} : call'[d] = call[d]
        /\ call'[c] = [call[c] EXCEPT !.pc = "open", !.kind = "db", !.got = got]
    BY <1>1, <1>3, <2>2, <2>4 DEF First, WriteOrder, Published
  <2>6. /\ call'[c].pc = "open" /\ call'[c].kind = "db" /\ call'[c].got = got
        /\ call'[c].db = own /\ call'[c].outcome = call[c].outcome
    BY <1>1, <2>1, <2>5 DEF CallShape
  <2>7. CallShape(call'[c])
    BY <1>1, <2>5 DEF CallShape
  <2>8. Downloaded(got) /\ got.build = gtime
    BY <1>1, <2>3, <2>4 DEF Downloaded
  <2>9. CallKept(c)'
    BY <1>1, <2>6, <2>8 DEF CallKept
  <2>10. ASSUME own \notin overlapped PROVE DbKept(own)'
    <3>1. DbKept(own)
      BY <2>10 DEF GeoInv
    <3>2. ~Writer(c, own) /\ Poised(c, own)' /\ ~Begun(c, own)'
      BY <1>1, <2>6 DEF Writer, Writing, Poised, Begun
    <3>3. ASSUME NEW d \in Calls \ {c}
          PROVE  /\ call'[d] = call[d] /\ Target(d)' = Target(d) /\ Bytes(d)' = Bytes(d)
                 /\ Writer(d, own)' <=> Writer(d, own)
                 /\ Poised(d, own)' <=> Poised(d, own)
                 /\ Begun(d, own)' <=> Begun(d, own)
      BY <2>5 DEF Writer, Writing, Poised, Begun, Target, Bytes
    <3>4. OneWriter(own)'
      BY <3>1, <3>2, <3>3 DEF DbKept, OneWriter
    <3>5. Metadata(own)' = Metadata(own) /\ CacheFile(own)' = CacheFile(own)
      BY <1>1 DEF Metadata, CacheFile
    <3>6. NoneOlder(own)'
      <4>1. ASSUME NEW e \in Calls, Begun(e, own)' PROVE call'[e].got.build <= gtime
        BY <3>2, <3>3, <4>1 DEF GeoInv, CallKept, Begun, Writer
      <4>2. Parses(Metadata(own)) => Metadata(own).build <= gtime
        BY <3>1 DEF DbKept, Backed
      <4> QED BY <2>6, <2>8, <3>1, <3>2, <3>3, <3>5, <4>1, <4>2 DEF DbKept, NoneOlder
    <3>7. StagedFile(own)'
      BY <1>1, <2>6, <3>1, <3>3 DEF DbKept, StagedFile
    <3>8. StoredFirst(own)'
      BY <2>6, <3>1, <3>3, <3>5 DEF DbKept, StoredFirst
    <3>9. Backed(own)'
      BY <1>1, <3>1, <3>5 DEF DbKept, Backed
    <3> QED BY <3>4, <3>6, <3>7, <3>8, <3>9 DEF DbKept
  <2> QED BY <1>1, <2>1, <2>5, <2>6, <2>7, <2>9, <2>10, CallWrites DEF Moves
<1> QED BY <1>2, <1>3 DEF Download

\* A path of another database is another path.
LEMMA OtherPaths ==
    ASSUME NEW own \in Dbs, NEW kind \in {"db", "meta"}
    PROVE  /\ \A db \in Dbs \ {own}, k \in {"db", "meta"} : <<db, k>> \in Paths \ {<<own, kind>>}
           /\ <<own, kind>> \in Paths
           /\ \A k \in {"db", "meta"} \ {kind} : <<own, k>> \in Paths \ {<<own, kind>>}
  BY DEF Paths

LEMMA OpenStep == ASSUME GeoAssumption, GeoInv, NEW c \in Calls, Open(c) PROVE GeoInv'
<1>1. /\ DiskShape(gdisk) /\ gtime \in Nat /\ call = [d \in Calls |-> call[d]] /\ Shaped
      /\ CallShape(call[c]) /\ call[c].pc = "open" /\ CallKept(c)
      /\ UNCHANGED <<scene, gtime, mem>>
  BY WriterTypes DEF Open, At, Shared, GeoInv
<1>2. CASE WriteFails(c) /\ UNCHANGED <<gdisk, overlapped>>
  BY <1>1, <1>2, GotoStep, FailStep DEF WriteFails
<1>3. ASSUME gdisk' = OpenTemp(gdisk, Target(c)), Goto(c, "write"),
             overlapped' = IF \E d \in Calls \ {c} : Writing(d) /\ call[d].db = call[c].db
                           THEN overlapped \cup {call[c].db} ELSE overlapped
      PROVE  GeoInv'
  <2>1. PICK own \in Dbs, kind \in {"db", "meta"} :
            own = call[c].db /\ kind = call[c].kind /\ Target(c) = <<own, kind>>
    BY <1>1 DEF CallKept, Target
  <2>2. /\ Moves(c) /\ call'[c].pc = "write" /\ call'[c].db = own
        /\ call'[c].kind = kind /\ call'[c].outcome = call[c].outcome
        /\ call'[c].got = call[c].got
    BY <1>1, <1>3, <2>1, GotoMoves
  <2>3. /\ DiskShape(gdisk') /\ gdisk'.file = gdisk.file /\ gdisk'.temp[<<own, kind>>] = Torn
        /\ \A q \in Paths \ {<<own, kind>>} : gdisk'.temp[q] = gdisk.temp[q]
    <3>1. gdisk' = SetTemp(gdisk, <<own, kind>>, Torn)
      BY <1>3, <2>1 DEF OpenTemp, SetTemp
    <3>2. <<own, kind>> \in Paths
      BY OtherPaths
    <3> QED BY <1>1, <3>1, <3>2, TempSet
  <2>4. CallKept(c)'
    BY <1>1, <2>1, <2>2 DEF CallKept, Writing
  <2>5. ASSUME own \notin overlapped' PROVE DbKept(own)'
    <3>1. DbKept(own) /\ \A d \in Calls \ {c} : ~Writer(d, own)
      BY <1>3, <2>1, <2>5 DEF GeoInv, Writer
    <3>2. \A d \in Calls \ {c} : ~Writer(d, own)'
      BY <2>2, <3>1 DEF Moves, Writer, Writing
    <3>3. OneWriter(own)'
      BY <3>2 DEF OneWriter, Begun
    <3>4. Metadata(own)' = Metadata(own) /\ CacheFile(own)' = CacheFile(own)
      BY <2>3 DEF Metadata, CacheFile
    <3>5. Writer(c, own) /\ ~Poised(c, own)'
      BY <1>1, <2>1, <2>2 DEF Writer, Writing, Poised
    <3>6. NoneOlder(own)'
      BY <2>2, <3>1, <3>2, <3>4, <3>5 DEF DbKept, NoneOlder, Poised
    <3>7. StagedFile(own)'
      BY <2>2, <2>3, <3>2 DEF StagedFile, Target
    <3>8. StoredFirst(own)'
      BY <2>1, <2>2, <3>1, <3>2, <3>4, <3>5 DEF DbKept, StoredFirst
    <3>9. Backed(own)'
      BY <1>1, <3>1, <3>4 DEF DbKept, Backed
    <3> QED BY <3>3, <3>6, <3>7, <3>8, <3>9 DEF DbKept
  <2>6. overlapped \subseteq overlapped'
    BY <1>3
  <2> QED BY <1>1, <2>1, <2>2, <2>3, <2>4, <2>5, <2>6, OtherPaths, CallWrites
<1> QED BY <1>2, <1>3 DEF Open

\* What holds of the staging file when its one writer comes to use it.
LEMMA OwnStaging ==
    ASSUME GeoAssumption, GeoInv, NEW c \in Calls, NEW own \in Dbs \ overlapped,
           call[c].db = own, call[c].pc \in {"write", "rename", "removed"}
    PROVE  /\ DbKept(own) /\ Begun(c, own)
           /\ \A d \in Calls \ {c} : ~Begun(d, own)
           /\ call[c].pc = "write" => gdisk.temp[Target(c)] = Torn
           /\ call[c].pc = "rename" => gdisk.temp[Target(c)] = Bytes(c)
           /\ call[c].pc # "removed"
<1>1. DbKept(own)
  BY DEF GeoInv
<1>2. Begun(c, own)
  BY DEF Begun, Poised, Writer, Writing
<1> QED BY <1>1, <1>2 DEF DbKept, OneWriter, StagedFile, Begun

LEMMA WriteStep == ASSUME GeoAssumption, GeoInv, NEW c \in Calls, Write(c) PROVE GeoInv'
<1>1. /\ DiskShape(gdisk) /\ gtime \in Nat /\ call = [d \in Calls |-> call[d]] /\ Shaped
      /\ CallShape(call[c]) /\ call[c].pc = "write" /\ CallKept(c)
      /\ UNCHANGED <<scene, gtime, mem, overlapped>>
      /\ gdisk' \in WriteTemp(gdisk, Target(c), Bytes(c)) /\ Goto(c, "rename")
  BY WriterTypes DEF Write, At, Shared, GeoInv
<1>2. PICK own \in Dbs, kind \in {"db", "meta"} :
          own = call[c].db /\ kind = call[c].kind /\ Target(c) = <<own, kind>>
  BY <1>1 DEF CallKept, Target
<1>3. /\ Moves(c) /\ call'[c].pc = "rename" /\ call'[c].db = own
      /\ call'[c].kind = kind /\ call'[c].outcome = call[c].outcome
      /\ call'[c].got = call[c].got
  BY <1>1, <1>2, GotoMoves
<1>4. /\ DiskShape(gdisk')
      /\ \A q \in Paths \ {<<own, kind>>} :
            gdisk'.file[q] = gdisk.file[q] /\ gdisk'.temp[q] = gdisk.temp[q]
      /\ gdisk.temp[<<own, kind>>] = Torn =>
            /\ gdisk'.temp[<<own, kind>>] = Bytes(c)
            /\ gdisk'.file[<<own, kind>>] = gdisk.file[<<own, kind>>]
  <2>1. gdisk' \in WriteTemp(gdisk, <<own, kind>>, Bytes(c)) /\ <<own, kind>> \in Paths
    BY <1>1, <1>2, OtherPaths
  <2> QED BY <1>1, <2>1, WriteFacts
<1>5. CallKept(c)'
  BY <1>1, <1>2, <1>3 DEF CallKept, Writing
<1>6. ASSUME own \notin overlapped PROVE DbKept(own)'
  <2>1. DbKept(own) /\ Begun(c, own) /\ gdisk.temp[<<own, kind>>] = Torn
        /\ \A d \in Calls \ {c} : ~Begun(d, own)
    BY <1>1, <1>2, <1>6, OwnStaging
  <2>2. Metadata(own)' = Metadata(own) /\ CacheFile(own)' = CacheFile(own)
    BY <1>4, <2>1, OtherPaths DEF Metadata, CacheFile, geoip_cache_paths
  <2>3. Begun(c, own)' /\ ~Poised(c, own)' /\ Writer(c, own)
    BY <1>3, <2>1 DEF Writer, Writing, Poised, Begun
  <2>4. ASSUME NEW d \in Calls \ {c}
        PROVE  /\ call'[d] = call[d]
               /\ Writer(d, own)' <=> Poised(d, own)
               /\ Poised(d, own)' <=> Poised(d, own)
               /\ ~Begun(d, own)'
    BY <1>3, <2>1 DEF Moves, Writer, Writing, Poised, Begun
  <2>5. OneWriter(own)'
    BY <2>4 DEF OneWriter
  <2>6. NoneOlder(own)'
    BY <1>3, <2>1, <2>2, <2>3, <2>4 DEF DbKept, NoneOlder, Poised, Begun
  <2>7. StagedFile(own)'
    <3>1. gdisk'.temp[Target(c)'] = Bytes(c)'
      BY <1>2, <1>3, <1>4, <2>1 DEF Target, Bytes
    <3> QED BY <1>3, <2>4, <3>1 DEF StagedFile, Poised
  <2>8. StoredFirst(own)'
    BY <1>2, <1>3, <2>1, <2>2, <2>3, <2>4 DEF DbKept, StoredFirst, Poised
  <2>9. Backed(own)'
    BY <1>1, <2>1, <2>2 DEF DbKept, Backed
  <2> QED BY <2>5, <2>6, <2>7, <2>8, <2>9 DEF DbKept
<1> QED BY <1>1, <1>2, <1>3, <1>4, <1>5, <1>6, OtherPaths, CallWrites

\* What a writer has in hand parses: both the build and its metadata.
LEMMA BytesParse ==
    ASSUME GeoAssumption, GeoInv, NEW c \in Calls, Writing(c)
    PROVE  /\ Parses(Bytes(c)) /\ Bytes(c) # Absent
           /\ call[c].got.build \in Int /\ call[c].got.build <= gtime
           /\ Parses(call[c].got.build) /\ Parses(call[c].got.meta)
           /\ call[c].got.meta.build = call[c].got.build
<1>1. Downloaded(call[c].got) /\ call[c].got.build <= gtime
  BY DEF GeoInv, CallKept
<1>2. Parses(call[c].got.build) /\ Parses(call[c].got.meta)
  BY <1>1 DEF Downloaded, GeoAssumption
<1> QED BY <1>1, <1>2 DEF Downloaded, Bytes, Parses

\* The database is in place: its writer goes on to the metadata.
LEMMA RenameDatabase ==
    ASSUME GeoAssumption, GeoInv, NEW c \in Calls, call[c].pc \in {"rename", "removed"},
           call[c].kind = "db", gdisk' = Rename(gdisk, Target(c)),
           Moves(c), call'[c].pc = "open", call'[c].kind = "meta", call'[c].db = call[c].db,
           call'[c].outcome = call[c].outcome, call'[c].got = call[c].got,
           UNCHANGED <<scene, gtime, mem, overlapped>>
    PROVE  GeoInv'
<1>1. DiskShape(gdisk) /\ gtime \in Nat /\ CallKept(c)
  BY WriterTypes DEF GeoInv
<1>2. PICK own \in Dbs : own = call[c].db /\ Target(c) = <<own, "db">>
  BY <1>1 DEF CallKept, Target
<1>3. /\ DiskShape(gdisk') /\ gdisk'.file[<<own, "db">>] = gdisk.temp[<<own, "db">>]
      /\ \A q \in Paths \ {<<own, "db">>} :
            gdisk'.file[q] = gdisk.file[q] /\ gdisk'.temp[q] = gdisk.temp[q]
  <2>1. gdisk' = Rename(gdisk, <<own, "db">>) /\ <<own, "db">> \in Paths
    BY <1>2, OtherPaths
  <2> QED BY <1>1, <2>1, RenameFacts
<1>4. CallKept(c)'
  BY <1>1 DEF CallKept, Writing
<1>5. ASSUME own \notin overlapped PROVE DbKept(own)'
  <2>1. /\ DbKept(own) /\ Begun(c, own) /\ gdisk.temp[<<own, "db">>] = Bytes(c)
        /\ \A d \in Calls \ {c} : ~Begun(d, own)
    BY <1>2, <1>5, OwnStaging
  <2>2. /\ Writer(c, own) /\ Bytes(c) = call[c].got.build /\ call[c].got.build \in Int
        /\ Parses(call[c].got.build)
    BY <2>1, BytesParse DEF Begun, Writer, Bytes
  <2>3. Metadata(own)' = Metadata(own) /\ CacheFile(own)' = call[c].got.build
    BY <1>3, <2>1, <2>2, OtherPaths DEF Metadata, CacheFile, geoip_cache_paths
  <2>4. Begun(c, own)' /\ ~Poised(c, own)'
    BY <1>2 DEF Writer, Writing, Poised, Begun
  <2>5. ASSUME NEW d \in Calls \ {c}
        PROVE  /\ call'[d] = call[d]
               /\ Writer(d, own)' <=> Poised(d, own)
               /\ Poised(d, own)' <=> Poised(d, own)
               /\ ~Begun(d, own)'
    BY <2>1 DEF Moves, Writer, Writing, Poised, Begun
  <2>6. OneWriter(own)'
    BY <2>5 DEF OneWriter
  <2>7. NoneOlder(own)'
    <3>1. ASSUME NEW d \in Calls, NEW e \in Calls, Begun(d, own)', Poised(e, own)'
          PROVE  call'[d].got.build <= call'[e].got.build
      <4>1. d = c /\ e # c
        BY <2>4, <2>5, <3>1
      <4> QED BY <2>1, <2>5, <3>1, <4>1 DEF DbKept, NoneOlder
    <3>2. ASSUME NEW d \in Calls, Writer(d, own)', Parses(Metadata(own))
          PROVE  Metadata(own).build <= call'[d].got.build
      <4>1. Writer(d, own) /\ call'[d].got = call[d].got
        BY <2>2, <2>5, <3>2 DEF Poised
      <4> QED BY <2>1, <3>2, <4>1 DEF DbKept, NoneOlder
    <3> QED BY <2>3, <3>1, <3>2 DEF NoneOlder
  <2>8. StagedFile(own)'
    BY <2>5 DEF StagedFile, Poised
  <2>9. StoredFirst(own)'
    BY <2>3, <2>5 DEF StoredFirst, Poised
  <2>10. Backed(own)'
    <3>1. ASSUME Parses(Metadata(own))
          PROVE  /\ Metadata(own).build \in Int /\ Metadata(own).build <= gtime
                 /\ Metadata(own).build <= call[c].got.build
      BY <2>1, <2>2, <3>1 DEF DbKept, Backed, NoneOlder
    <3> QED BY <2>2, <2>3, <3>1 DEF Backed
  <2> QED BY <2>6, <2>7, <2>8, <2>9, <2>10 DEF DbKept
<1> QED BY <1>2, <1>3, <1>4, <1>5, OtherPaths, CallWrites

\* The metadata is in place: it describes the database that was renamed before it.
LEMMA RenameMetadata ==
    ASSUME GeoAssumption, GeoInv, NEW c \in Calls, call[c].pc \in {"rename", "removed"},
           call[c].kind = "meta", gdisk' = Rename(gdisk, Target(c)), Goto(c, "store"),
           UNCHANGED <<scene, gtime, mem, overlapped>>
    PROVE  GeoInv'
<1>1. DiskShape(gdisk) /\ gtime \in Nat /\ Shaped /\ CallKept(c) /\ Writing(c)
  BY WriterTypes DEF GeoInv, Writing
<1>2. PICK own \in Dbs : own = call[c].db /\ Target(c) = <<own, "meta">>
  BY <1>1 DEF CallKept, Target
<1>3. /\ Moves(c) /\ call'[c].pc = "store" /\ call'[c].db = own /\ call'[c].kind = "meta"
      /\ call'[c].outcome = call[c].outcome /\ call'[c].got = call[c].got
  BY <1>1, <1>2, GotoMoves
<1>4. /\ DiskShape(gdisk') /\ gdisk'.file[<<own, "meta">>] = gdisk.temp[<<own, "meta">>]
      /\ \A q \in Paths \ {<<own, "meta">>} :
            gdisk'.file[q] = gdisk.file[q] /\ gdisk'.temp[q] = gdisk.temp[q]
  <2>1. gdisk' = Rename(gdisk, <<own, "meta">>) /\ <<own, "meta">> \in Paths
    BY <1>2, OtherPaths
  <2> QED BY <1>1, <2>1, RenameFacts
<1>5. CallKept(c)'
  <2>1. call[c].got # None
    BY <1>1 DEF CallKept, Downloaded, GeoAssumption
  <2> QED BY <1>1, <1>3, <2>1 DEF CallKept, Writing
<1>6. ASSUME own \notin overlapped PROVE DbKept(own)'
  <2>1. /\ DbKept(own) /\ Begun(c, own) /\ gdisk.temp[<<own, "meta">>] = Bytes(c)
        /\ \A d \in Calls \ {c} : ~Begun(d, own)
    BY <1>2, <1>6, OwnStaging
  <2>2. /\ Bytes(c) = call[c].got.meta /\ call[c].got.build \in Int
        /\ call[c].got.meta.build = call[c].got.build /\ call[c].got.build <= gtime
        /\ Parses(call[c].got.build) /\ Writer(c, own)
    BY <1>1, <2>1, BytesParse DEF Begun, Bytes
  <2>3. Metadata(own)' = call[c].got.meta /\ CacheFile(own)' = CacheFile(own)
    BY <1>4, <2>1, <2>2, OtherPaths DEF Metadata, CacheFile, geoip_cache_paths
  <2>4. CacheFile(own) = call[c].got.build
    BY <2>1, <2>2 DEF DbKept, StoredFirst
  <2>5. ~Writer(c, own)'
    BY <1>3 DEF Writer, Writing
  <2>6. ASSUME NEW d \in Calls, Writer(d, own)'
        PROVE  d # c /\ call'[d] = call[d] /\ Poised(d, own) /\ Poised(d, own)'
    BY <1>3, <2>1, <2>5, <2>6 DEF Moves, Writer, Writing, Poised, Begun
  <2>7. OneWriter(own)' /\ StagedFile(own)' /\ StoredFirst(own)'
    BY <2>6 DEF OneWriter, Begun, StagedFile, StoredFirst, Poised
  <2>8. NoneOlder(own)'
    <3>1. \A d \in Calls : Writer(d, own)' => call[c].got.build <= call'[d].got.build
      BY <2>1, <2>6 DEF DbKept, NoneOlder
    <3> QED BY <2>2, <2>3, <2>6, <3>1 DEF NoneOlder, Begun
  <2>9. Backed(own)'
    BY <2>2, <2>3, <2>4 DEF Backed
  <2> QED BY <2>7, <2>8, <2>9 DEF DbKept
<1> QED BY <1>2, <1>3, <1>4, <1>5, <1>6, OtherPaths, CallWrites

LEMMA RenameStep == ASSUME GeoAssumption, GeoInv, NEW c \in Calls, RenameTemp(c) PROVE GeoInv'
<1>1. /\ DiskShape(gdisk) /\ gtime \in Nat /\ Shaped /\ CallKept(c)
      /\ call[c].pc \in {"rename", "removed"} /\ call[c].pc # "idle"
      /\ UNCHANGED <<scene, gtime, mem, overlapped>>
  BY WriterTypes DEF RenameTemp, Shared, GeoInv
<1>2. CASE Renames(gdisk, Target(c))
  <2>1. /\ gdisk' = Rename(gdisk, Target(c))
        /\ IF call[c].kind = Last THEN Goto(c, "store")
           ELSE call' = [call EXCEPT ![c].pc = "open", ![c].kind = Last]
    BY <1>2 DEF RenameTemp
  <2>2. Last = "meta"
    BY DEF Last, WriteOrder
  <2>3. call[c].kind = "db" \/ call[c].kind = "meta"
    BY <1>1 DEF CallKept
  <2>4. CASE call[c].kind = "db"
    <3>1. call = [d \in Calls |-> call[d]] /\ CallShape(call[c])
      BY <1>1 DEF Shaped
    <3>2. call' = [call EXCEPT ![c].pc = "open", ![c].kind = "meta"]
      BY <2>1, <2>2, <2>4
    <3>3. /\ call' = [d \in Calls |-> call'[d]] /\ \A d \in Calls \ {c} : call'[d] = call[d]
          /\ call'[c] = [call[c] EXCEPT !.pc = "open", !.kind = "meta"]
      BY <3>1, <3>2
    <3>4. /\ call'[c].pc = "open" /\ call'[c].db = call[c].db /\ call'[c].kind = "meta"
          /\ call'[c].outcome = call[c].outcome /\ call'[c].got = call[c].got
      BY <3>1, <3>3 DEF CallShape
    <3>5. CallShape(call'[c])
      BY <3>1, <3>3 DEF CallShape
    <3>6. Moves(c)
      BY <3>3, <3>5 DEF Moves
    <3> QED BY <1>1, <2>1, <2>4, <3>4, <3>6, RenameDatabase
  <2>5. CASE call[c].kind = "meta"
    BY <1>1, <2>1, <2>2, <2>5, RenameMetadata
  <2> QED BY <2>3, <2>4, <2>5
<1>3. CASE ~Renames(gdisk, Target(c)) /\ gdisk' = Remove(gdisk, Target(c)) /\ Goto(c, "removed")
  <2>1. PICK own \in Dbs, kind \in {"db", "meta"} :
            own = call[c].db /\ kind = call[c].kind /\ Target(c) = <<own, kind>>
    BY <1>1 DEF CallKept, Target
  <2>2. /\ Moves(c) /\ call'[c].pc = "removed" /\ call'[c].db = own
        /\ call'[c].kind = kind /\ call'[c].outcome = call[c].outcome
        /\ call'[c].got = call[c].got
    BY <1>1, <1>3, <2>1, GotoMoves
  <2>3. /\ DiskShape(gdisk') /\ gdisk'.temp = gdisk.temp
        /\ \A q \in Paths \ {<<own, kind>>} : gdisk'.file[q] = gdisk.file[q]
    <3>1. gdisk' = SetFile(gdisk, <<own, kind>>, Absent)
      BY <1>3, <2>1 DEF Remove, SetFile
    <3>2. <<own, kind>> \in Paths
      BY OtherPaths
    <3> QED BY <1>1, <3>1, <3>2, FileSet
  <2>4. CallKept(c)'
    BY <1>1, <2>1, <2>2 DEF CallKept, Writing
  <2>5. own \in overlapped
    <3>1. gdisk.temp[Target(c)] = Absent /\ Writing(c)
      BY <1>1, <1>3 DEF Renames, Writing
    <3> QED BY <1>1, <2>1, <3>1, OwnStaging, BytesParse
  <2> QED BY <1>1, <2>1, <2>2, <2>3, <2>4, <2>5, OtherPaths, CallWrites
<1>4. CASE gdisk' = gdisk /\ WriteFails(c)
  BY <1>1, <1>4, GotoStep, FailStep DEF WriteFails
<1> QED BY <1>2, <1>3, <1>4 DEF RenameTemp

----------------------------------------------------------------------------
(* Dropped calls, dead processes, cleaning up and the clock.               *)

\* A call that is dropped leaves its staging file as it is, or completes the write that
\* was under way: the file of its own database, which nobody else is using.
LEMMA DropStep == ASSUME GeoAssumption, GeoInv, NEW c \in Calls, GeoDrop(c) PROVE GeoInv'
<1>1. /\ DiskShape(gdisk) /\ gtime \in Nat /\ Shaped /\ CallKept(c)
      /\ call = [d \in Calls |-> call[d]]
      /\ mem = [p \in Processes |-> mem[p]]
      /\ \A p \in Processes : mem[p] = [City |-> mem[p].City, ASN |-> mem[p].ASN]
  BY WriterTypes DEF GeoInv, Shaped
<1>2. /\ UNCHANGED <<scene, gtime, mem, overlapped>>
      /\ call' = [d \in Calls |-> call'[d]] /\ \A d \in Calls \ {c} : call'[d] = call[d]
      /\ call'[c] = Idle
  BY <1>1 DEF GeoDrop, Shared
<1>3. /\ CallShape(call'[c]) /\ call'[c].pc = "idle" /\ call'[c].db = "City"
      /\ call'[c].kind = "db"
  BY <1>2 DEF Idle, CallShape
<1>4. Moves(c)
  BY <1>2, <1>3 DEF Moves
<1>5. CASE gdisk' = gdisk
  BY <1>1, <1>2, <1>3, <1>4, <1>5, CallLeaves DEF Dbs
<1>6. CASE At(c, "write") /\ gdisk' \in WriteTemp(gdisk, Target(c), Bytes(c))
  <2>1. PICK own \in Dbs, kind \in {"db", "meta"} :
            own = call[c].db /\ kind = call[c].kind /\ Target(c) = <<own, kind>>
    BY <1>1 DEF CallKept, Target
  <2>2. /\ DiskShape(gdisk')
        /\ \A q \in Paths \ {<<own, kind>>} :
              gdisk'.file[q] = gdisk.file[q] /\ gdisk'.temp[q] = gdisk.temp[q]
        /\ gdisk.temp[<<own, kind>>] = Torn =>
              gdisk'.file[<<own, kind>>] = gdisk.file[<<own, kind>>]
    <3>1. gdisk' \in WriteTemp(gdisk, <<own, kind>>, Bytes(c)) /\ <<own, kind>> \in Paths
      BY <1>6, <2>1, OtherPaths
    <3> QED BY <1>1, <3>1, WriteFacts
  <2>3. CallKept(c)'
    BY <1>3 DEF CallKept, Writing, Dbs
  <2>4. ASSUME own \notin overlapped PROVE DbKept(own)'
    <3>1. DbKept(own) /\ gdisk.temp[<<own, kind>>] = Torn
          /\ \A d \in Calls \ {c} : ~Begun(d, own)
      BY <1>6, <2>1, <2>4, OwnStaging DEF At
    <3>2. Metadata(own)' = Metadata(own) /\ CacheFile(own)' = CacheFile(own)
      BY <2>2, <3>1, OtherPaths DEF Metadata, CacheFile, geoip_cache_paths
    <3>3. ASSUME NEW d \in Calls, Writer(d, own)'
          PROVE  d # c /\ call'[d] = call[d] /\ Poised(d, own) /\ Poised(d, own)'
      BY <1>3, <1>4, <3>1, <3>3 DEF Moves, Writer, Writing, Poised, Begun
    <3>4. OneWriter(own)' /\ StagedFile(own)' /\ StoredFirst(own)'
      BY <3>3 DEF OneWriter, Begun, StagedFile, StoredFirst, Poised
    <3>5. NoneOlder(own)'
      BY <3>1, <3>2, <3>3 DEF DbKept, NoneOlder, Begun, Poised
    <3>6. Backed(own)'
      BY <1>2, <3>1, <3>2 DEF DbKept, Backed
    <3> QED BY <3>4, <3>5, <3>6 DEF DbKept
  <2>5. call'[c].pc \notin {"open", "write", "rename", "removed"}
    BY <1>3
  <2> QED BY <1>2, <1>4, <2>1, <2>2, <2>3, <2>4, <2>5, OtherPaths, CallWrites
<1> QED BY <1>5, <1>6 DEF GeoDrop

\* A process dies with all its calls, and leaves the disk as it is.
LEMMA RestartStep ==
    ASSUME GeoAssumption, GeoInv, NEW p \in Processes, GeoRestart(p) PROVE GeoInv'
<1>1. /\ Shaped /\ gtime \in Nat /\ call = [d \in Calls |-> call[d]]
      /\ mem = [q \in Processes |-> mem[q]]
      /\ \A q \in Processes : mem[q] = [City |-> mem[q].City, ASN |-> mem[q].ASN]
  BY DEF GeoInv, Shaped
<1>2. /\ UNCHANGED <<scene, gtime, gdisk, overlapped>>
      /\ call' = [d \in Calls |-> call'[d]]
      /\ \A d \in Calls : call'[d] = Idle \/ call'[d] = call[d]
      /\ mem' = [q \in Processes |-> mem'[q]]
      /\ \A q \in Processes : mem'[q] = mem[q] \/ mem'[q] = [City |-> None, ASN |-> None]
  BY <1>1 DEF GeoRestart, Shared
<1>3. \A q \in Processes : mem'[q] = [City |-> mem'[q].City, ASN |-> mem'[q].ASN]
  BY <1>1, <1>2
<1>4. CallShape(Idle) /\ Idle.pc = "idle" /\ Idle.db = "City" /\ Idle.kind = "db"
  BY DEF CallShape, Idle
<1>5. ASSUME NEW d \in Calls PROVE CallShape(call'[d]) /\ CallKept(d)'
  <2>1. CASE call'[d] = Idle
    BY <1>4, <2>1 DEF CallKept, Writing, Dbs
  <2>2. CASE call'[d] = call[d]
    BY <1>2, <2>2 DEF GeoInv, Shaped, CallKept, Writing
  <2> QED BY <1>2, <2>1, <2>2
<1>6. Shaped'
  BY <1>1, <1>2, <1>3, <1>5 DEF Shaped
<1>7. ASSUME NEW db \in Dbs \ overlapped PROVE DbKept(db)'
  <2>1. DbKept(db) /\ CacheFile(db)' = CacheFile(db) /\ Metadata(db)' = Metadata(db)
    BY <1>2 DEF GeoInv, CacheFile, Metadata
  <2>2. \A d \in Calls : Writer(d, db)' => call'[d] = call[d] /\ Target(d)' = Target(d)
    BY <1>2, <1>4 DEF Writer, Writing, Target
  <2> QED BY <1>1, <1>2, <2>1, <2>2, DbElsewhere
<1> QED BY <1>2, <1>5, <1>6, <1>7 DEF GeoInv

\* Cleaning up takes the staging file away from whoever is writing: such a database counts
\* as written by two at once.
LEMMA CleanupStep == ASSUME GeoAssumption, GeoInv, NEW c \in Calls, Cleanup(c) PROVE GeoInv'
<1>1. DiskShape(gdisk) /\ Shaped /\ gtime \in Nat /\ CallKept(c) /\ At(c, "cleanup")
  BY WriterTypes DEF GeoInv, Cleanup
<1>2. /\ UNCHANGED <<scene, gtime, mem>>
      /\ gdisk' = [gdisk EXCEPT !.temp = [q \in Paths |-> Absent]]
      /\ overlapped' = overlapped \cup {call[d].db : d \in {x \in Calls : Writing(x)}}
      /\ Goto(c, "resolve")
  BY DEF Cleanup, Shared
<1>3. DiskShape(gdisk') /\ gdisk'.file = gdisk.file
  BY <1>1, <1>2 DEF DiskShape
<1>4. /\ Moves(c) /\ call'[c].pc = "resolve" /\ call'[c].db = call[c].db
      /\ call'[c].kind = call[c].kind /\ call'[c].outcome = call[c].outcome
  BY <1>1, <1>2, GotoMoves
<1>5. ASSUME NEW d \in Calls PROVE CallShape(call'[d]) /\ CallKept(d)'
  <2>1. CASE d = c
    BY <1>1, <1>4, <2>1 DEF Moves, CallKept, Writing, At
  <2>2. CASE d # c
    BY <1>2, <1>4, <2>2 DEF Moves, GeoInv, Shaped, CallKept, Writing
  <2> QED BY <2>1, <2>2
<1>6. Shaped'
  BY <1>1, <1>2, <1>3, <1>4, <1>5 DEF Shaped, DiskShape, Moves
<1>7. ASSUME NEW db \in Dbs \ overlapped' PROVE DbKept(db)'
  <2>1. DbKept(db) /\ CacheFile(db)' = CacheFile(db) /\ Metadata(db)' = Metadata(db)
    BY <1>2, <1>3 DEF GeoInv, CacheFile, Metadata
  <2>2. \A d \in Calls : ~Writer(d, db)
    BY <1>2, <1>7 DEF Writer
  <2>3. \A d \in Calls : ~Writer(d, db)'
    BY <1>4, <2>2 DEF Moves, Writer, Writing
  <2> QED BY <1>1, <1>2, <2>1, <2>3, DbElsewhere
<1> QED BY <1>5, <1>6, <1>7 DEF GeoInv

LEMMA TickStep == ASSUME GeoAssumption, GeoInv, GeoTick PROVE GeoInv'
<1>1. /\ UNCHANGED <<scene, call, mem, gdisk, overlapped>>
      /\ gtime \in Nat /\ gtime' \in Nat /\ gtime <= gtime'
  BY DEF GeoTick, GeoInv, Shaped
<1>2. Shaped'
  BY <1>1 DEF GeoInv, Shaped, CallShape
<1>3. ASSUME NEW d \in Calls PROVE CallKept(d)'
  BY <1>1 DEF GeoInv, CallKept, Writing, Downloaded
<1>4. ASSUME NEW db \in Dbs \ overlapped PROVE DbKept(db)'
  <2>1. DbKept(db) /\ CacheFile(db)' = CacheFile(db) /\ Metadata(db)' = Metadata(db)
    BY <1>1 DEF GeoInv, CacheFile, Metadata
  <2>2. \A d \in Calls : call'[d] = call[d] /\ Target(d)' = Target(d)
    BY <1>1 DEF Target
  <2> QED BY <1>1, <2>1, <2>2, DbElsewhere
<1> QED BY <1>1, <1>2, <1>3, <1>4 DEF GeoInv

----------------------------------------------------------------------------
(* The theorems.                                                           *)

LEMMA GeoInitKept == ASSUME GeoAssumption, GeoInit PROVE GeoInv
<1>1. /\ scene \in GeoScenes /\ call = [c \in Calls |-> Idle]
      /\ gdisk = [file |-> scene.files, temp |-> [p \in Paths |-> Absent]]
      /\ gtime = 0
      /\ mem = [p \in Processes |-> [City |-> None, ASN |-> None]]
  BY DEF GeoInit
<1>2. CallShape(Idle) /\ Idle.pc = "idle" /\ Idle.db = "City" /\ Idle.kind = "db"
  BY DEF CallShape, Idle
<1>3. scene.files = [p \in Paths |-> scene.files[p]] /\ BackedFiles(scene.files)
  BY <1>1 DEF GeoAssumption, ScenesFound
<1>4. \A c \in Calls : call[c] = Idle
  BY <1>1
<1>5. Shaped
  BY <1>1, <1>2, <1>3, <1>4 DEF Shaped
<1>6. ASSUME NEW c \in Calls PROVE CallKept(c)
  BY <1>2, <1>4 DEF CallKept, Writing, Dbs
<1>7. ASSUME NEW db \in Dbs PROVE DbKept(db)
  <2>1. \A c \in Calls : ~Writer(c, db)
    BY <1>2, <1>4 DEF Writer, Writing
  <2>2. /\ Metadata(db) = scene.files[<<db, "meta">>]
        /\ CacheFile(db) = scene.files[<<db, "db">>]
    BY <1>1 DEF Metadata, CacheFile, geoip_cache_paths
  <2>3. Backed(db)
    BY <1>1, <1>3, <2>2 DEF Backed, BackedFiles
  <2> QED BY <2>1, <2>3 DEF DbKept, OneWriter, Begun, NoneOlder, StagedFile, StoredFirst
<1> QED BY <1>5, <1>6, <1>7 DEF GeoInv

LEMMA GeoInvKept == ASSUME GeoAssumption, GeoInv, [GeoNext]_gvars PROVE GeoInv'
<1>1. ASSUME NEW c \in Calls, GeoStep(c) PROVE GeoInv'
  BY <1>1, BeginStep, CleanupStep, ResolveStep, AgainStep, ReadSteps, DownloadStep, OpenStep,
     WriteStep, RenameStep, StoreStep, InitAsnStep, DropStep DEF GeoStep
<1>2. CASE UNCHANGED gvars
  <2>1. /\ UNCHANGED <<scene, call, mem, gdisk, gtime, overlapped>>
    BY <1>2 DEF gvars
  <2>2. Shaped'
    BY <2>1 DEF GeoInv, Shaped, CallShape
  <2>3. ASSUME NEW d \in Calls PROVE CallKept(d)'
    BY <2>1 DEF GeoInv, CallKept, Writing, Downloaded
  <2>4. ASSUME NEW db \in Dbs \ overlapped PROVE DbKept(db)'
    <3>1. /\ DbKept(db) /\ CacheFile(db)' = CacheFile(db) /\ Metadata(db)' = Metadata(db)
          /\ gtime \in Nat
      BY <2>1 DEF GeoInv, Shaped, CacheFile, Metadata
    <3>2. \A d \in Calls : call'[d] = call[d] /\ Target(d)' = Target(d)
      BY <2>1 DEF Target
    <3> QED BY <2>1, <3>1, <3>2, DbElsewhere
  <2> QED BY <2>1, <2>2, <2>3, <2>4 DEF GeoInv
<1> QED BY <1>1, <1>2, RestartStep, TickStep DEF GeoNext

\* For every number of calls, processes and faults: a call of init_geoip that is dropped,
\* fails or dies half way never leaves metadata that vouches for a database older than
\* the one it describes, or for one that does not parse, unless two calls wrote the same
\* database at once or one cleaned up under another that was writing it.
THEOREM MetadataAlwaysBacked == ASSUME GeoAssumption PROVE GeoSpec => []MetadataBacked
<1>1. GeoInit => GeoInv
  BY GeoInitKept
<1>2. GeoInv /\ [GeoNext]_gvars => GeoInv'
  BY GeoInvKept
<1>3. GeoInv => MetadataBacked
  BY DEF GeoInv, DbKept, Backed, MetadataBacked
<1> QED BY <1>1, <1>2, <1>3, PTL DEF GeoSpec

\* What a step must not do to a call: see AsnFromCache.
AsnKept(c) ==
    (call[c].pc # "idle" /\ call'[c].outcome = "ready") =>
        (mem'[Home(c)].ASN # None \/ ~Parses(CacheFile("ASN")))

\* Whoever returns does it with one of three outcomes, "ready" only from these steps.
LEMMA ReadyStep ==
    ASSUME GeoAssumption, GeoInv, NEW c \in Calls, GeoStep(c), call[c].pc # "idle",
           call'[c].outcome = "ready"
    PROVE  \/ Store(c) \/ InitAsn(c) \/ Fallback(c) \/ load_from_file(c)
<1>1. /\ Shaped /\ call[c].outcome = "none" /\ call[c].db \in Dbs /\ CallShape(call[c])
      /\ call = [d \in Calls |-> call[d]]
  BY DEF GeoInv, CallKept, Shaped
<1>2. ~(\E step : Goto(c, step)) /\ ~(\E step, got : GotoWith(c, step, got))
  BY <1>1, GotoMoves, GotoWithMoves
<1>3. ~Return(c, "disabled") /\ ~Return(c, "error") /\ call'[c] # Idle
  BY <1>1, ReturnMoves DEF Idle
<1>4. ASSUME call[c].db # "ASN" PROVE ~Fail(c)
  BY <1>1, <1>3, <1>4 DEF Fail, Dbs
<1>5. ~WriteFails(c)
  BY <1>2, <1>4 DEF WriteFails
<1>6. ASSUME NEW step, NEW x PROVE ~(call' = [call EXCEPT ![c].pc = step, ![c].source = x])
  BY <1>1 DEF CallShape
<1>7. ASSUME NEW step, NEW x PROVE ~(call' = [call EXCEPT ![c].pc = step, ![c].result = x])
  BY <1>1 DEF CallShape
<1>8. ASSUME NEW step, NEW x PROVE ~(call' = [call EXCEPT ![c].pc = step, ![c].kind = x])
  BY <1>1 DEF CallShape
<1>9. ASSUME NEW step, NEW x, NEW y
      PROVE  ~(call' = [call EXCEPT ![c].pc = step, ![c].kind = x, ![c].got = y])
  BY <1>1 DEF CallShape
<1>10. ~GeoBegin(c) /\ ~Cleanup(c) /\ ~Resolve(c) /\ ~Check(c) /\ ~Again(c)
  BY <1>2, <1>3, <1>6, <1>7 DEF GeoBegin, At, Cleanup, Resolve, Check, Again
<1>11. ~ReadMeta(c) /\ ~ReadCached(c) /\ ~Open(c) /\ ~Write(c)
  BY <1>2, <1>5 DEF ReadMeta, ReadCached, Open, Write
<1>12. ~Download(c)
  <2>1. ~(IF call[c].db = "ASN" THEN Goto(c, "fallback") ELSE Fail(c))
    BY <1>2, <1>4
  <2>2. ASSUME Download(c)
        PROVE  \E x, y : call' = [call EXCEPT ![c].pc = "open", ![c].kind = x, ![c].got = y]
    BY <2>1, <2>2 DEF Download
  <2> QED BY <1>9, <2>2
<1>13. ~RenameTemp(c)
  BY <1>2, <1>5, <1>8 DEF RenameTemp
<1>14. ~GeoDrop(c)
  <2>1. call' # [call EXCEPT ![c] = Idle]
    BY <1>1, <1>3
  <2> QED BY <2>1 DEF GeoDrop
<1> QED BY <1>10, <1>11, <1>12, <1>13, <1>14 DEF GeoStep

LEMMA AsnStep ==
    ASSUME GeoAssumption, GeoInv, NEW c \in Calls, GeoStep(c) PROVE AsnKept(c)
<1> SUFFICES ASSUME call[c].pc # "idle", call'[c].outcome = "ready"
             PROVE  mem'[Home(c)].ASN # None \/ ~Parses(CacheFile("ASN"))
  BY DEF AsnKept
<1>1. /\ Shaped /\ CallShape(call[c]) /\ call = [d \in Calls |-> call[d]] /\ CallKept(c)
      /\ Home(c) \in Processes /\ mem = [p \in Processes |-> mem[p]]
      /\ mem[Home(c)] = [City |-> mem[Home(c)].City, ASN |-> mem[Home(c)].ASN]
  BY DEF GeoInv, Shaped, GeoAssumption, ScenesFound, Home
<1>2. CASE Store(c)
  <2>1. ~(call' = [call EXCEPT ![c].pc = "asn", ![c].result = call[c].got.meta, ![c].got = None])
    BY <1>1 DEF CallKept, CallShape
  <2>2. call[c].db = "ASN" /\ call[c].got # None
    BY <1>1, <1>2, <2>1 DEF Store, At, CallKept, Dbs
  <2>3. mem' = [mem EXCEPT ![Home(c)]["ASN"] = call[c].got]
    BY <1>2, <2>2 DEF Store
  <2>4. mem'[Home(c)] = [mem[Home(c)] EXCEPT !["ASN"] = call[c].got]
    BY <1>1, <2>3
  <2> QED BY <1>1, <2>2, <2>4
<1>3. CASE InitAsn(c)
  <2>1. ASSUME NEW step PROVE ~(call' = [call EXCEPT ![c].pc = step, ![c].db = "ASN"])
    BY <1>1 DEF CallKept, CallShape
  <2>2. mem[Home(c)].ASN # None /\ mem' = mem
    BY <1>3, <2>1 DEF InitAsn, ReadsOnly
  <2> QED BY <2>2
<1>4. CASE Fallback(c)
  <2>1. ~Goto(c, "file")
    BY <1>1, GotoMoves DEF CallKept
  <2> QED BY <1>4, <2>1 DEF Fallback, GeoAssumption
<1>5. CASE load_from_file(c)
  <2>1. ~(\E got : GotoWith(c, "store", got))
    BY <1>1, GotoWithMoves DEF CallKept
  <2>2. PICK content \in FileContents(c) : ~Parses(content) /\ Fail(c)
    BY <1>5, <2>1 DEF load_from_file
  <2>3. call[c].db = "ASN"
    <3>1. ~Return(c, "error")
      BY <1>1, ReturnMoves
    <3> QED BY <1>1, <2>2, <3>1 DEF Fail, CallKept, Dbs
  <2> QED BY <2>2, <2>3 DEF FileContents
<1> QED BY <1>2, <1>3, <1>4, <1>5, ReadyStep

\* For every number of calls, processes and faults: a call that returns City metadata leaves
\* its process without ASN data only when no cached ASN file can be read, also after a
\* download or a write that failed.
THEOREM AsnAlwaysFromCache == ASSUME GeoAssumption PROVE GeoSpec => AsnFromCache
<1>1. GeoInit => GeoInv
  BY GeoInitKept
<1>2. GeoInv /\ [GeoNext]_gvars => GeoInv'
  BY GeoInvKept
<1>3. ASSUME GeoInv, GeoNext, NEW c \in Calls PROVE AsnKept(c)
  <2>1. call[c].pc # "idle" => call[c].outcome = "none"
    BY <1>3 DEF GeoInv, CallKept
  <2>2. CASE call'[c] = call[c] \/ call'[c] = Idle
    BY <2>1, <2>2 DEF AsnKept, Idle
  <2>3. ASSUME NEW d \in Calls, GeoStep(d), d # c PROVE call'[c] = call[c]
    BY <1>3, <2>3 DEF GeoInv, Shaped, GeoStep, GeoBegin, Cleanup, Resolve, Check, Again,
       load_from_file, ReadMeta, ReadCached, Download, Open, Write, RenameTemp, Store, InitAsn,
       Fallback, GeoDrop, Goto, GotoWith, Return, Fail, WriteFails
  <2>4. ASSUME NEW p \in Processes, GeoRestart(p) PROVE call'[c] = call[c] \/ call'[c] = Idle
    BY <2>4 DEF GeoRestart
  <2>5. CASE GeoTick
    BY <2>2, <2>5 DEF GeoTick
  <2>6. CASE GeoStep(c)
    BY <1>3, <2>6, AsnStep
  <2> QED BY <1>3, <2>2, <2>3, <2>4, <2>5, <2>6 DEF GeoNext
<1>4. GeoInv /\ GeoNext => \A c \in Calls : AsnKept(c)
  BY <1>3
<1>5. GeoInv /\ [GeoNext]_gvars =>
        [\A c \in Calls :
           (call[c].pc # "idle" /\ call'[c].outcome = "ready") =>
              (mem'[Home(c)].ASN # None \/ ~Parses(CacheFile("ASN")))]_gvars
  BY <1>4 DEF AsnKept
<1> QED BY <1>1, <1>2, <1>5, PTL DEF GeoSpec, AsnFromCache

----------------------------------------------------------------------------
(* The WHOIS cache: of the three parts of WhoisCacheSound, first the two   *)
(* that are about files and errors.  That a file is torn only by two saves *)
(* that overlapped needs to know, of a domain no two saves have shared,    *)
(* that one lookup at most is between its open and its rename and that the *)
(* staging file is its own (Clean).  That an error is explained needs the  *)
(* same of a lookup between two of its steps: what it has seen is still    *)
(* there, or it has been told (Told).                                      *)

WDisk(d) ==
    /\ d = [file |-> d.file, temp |-> d.temp]
    /\ d.file = [x \in Domains |-> d.file[x]]
    /\ d.temp = [x \in Domains |-> d.temp[x]]

WShaped ==
    /\ asks \in [Lookups -> SUBSET Domains]
    /\ pc = [l \in Lookups |-> pc[l]] /\ dom = [l \in Lookups |-> dom[l]]
    /\ outcome = [l \in Lookups |-> outcome[l]] /\ disturbed = [l \in Lookups |-> disturbed[l]]
    /\ \A l \in Lookups : doomed[l] \subseteq Domains
    /\ doomed = [l \in Lookups |-> doomed[l]]
    /\ \A l \in Lookups : pc[l] # "idle" => dom[l] \in Domains
    /\ WDisk(disk) /\ now \in Time

Saving(l, d) == dom[l] = d /\ pc[l] \in {"write", "rename", "removed", "late_write", "late_rename"}

Clean(d) ==
    /\ \A l, m \in Lookups : Saving(l, d) /\ Saving(m, d) => l = m
    /\ \A l \in Lookups : Saving(l, d) =>
          /\ pc[l] \in {"write", "late_write"} => disk.temp[d] = Torn
          /\ pc[l] \in {"rename", "late_rename"} => disk.temp[d] \notin {Torn, Absent}
          /\ pc[l] # "removed"
    /\ disk.file[d] # Torn

Told(l) ==
    /\ outcome[l] = "error" => disturbed[l]
    /\ pc[l] = "read" /\ disk.file[dom[l]] = Absent => disturbed[l]
    /\ pc[l] \in {"write", "rename", "removed"} /\ disk.temp[dom[l]] = Absent => disturbed[l]

WhoisInv ==
    /\ WShaped
    /\ \A l \in Lookups : Told(l)
    /\ \A d \in Domains \ shared : Clean(d)

\* A step of one lookup: the others stay where they are, and are told of what changes
\* under their hands.
Acts(l) ==
    /\ asks' = asks /\ now' = now
    /\ pc' = [m \in Lookups |-> pc'[m]] /\ dom' = [m \in Lookups |-> dom'[m]]
    /\ outcome' = [m \in Lookups |-> outcome'[m]]
    /\ disturbed' = [m \in Lookups |-> disturbed'[m]]
    /\ \A m \in Lookups \ {l} : pc'[m] = pc[m] /\ dom'[m] = dom[m] /\ outcome'[m] = outcome[m]
    /\ \A m \in Lookups : disturbed[m] => disturbed'[m] \/ (m = l /\ outcome'[l] = "none")
    /\ \A m \in Lookups \ {l} :
          \/ disturbed'[m] \/ dom[m] \notin Domains
          \/ /\ disk'.file[dom[m]] = disk.file[dom[m]]
             /\ disk'.temp[dom[m]] = disk.temp[dom[m]]
    /\ pc'[l] # "idle" => dom'[l] \in Domains
    /\ doomed' = [m \in Lookups |-> doomed'[m]] /\ \A m \in Lookups : doomed'[m] \subseteq Domains
    /\ shared \subseteq shared' /\ WDisk(disk')

LEMMA ActsKeep ==
    ASSUME WhoisInv, NEW l \in Lookups, Acts(l), Told(l)',
           \A d \in Domains \ shared' : Clean(d)'
    PROVE  WhoisInv'
<1>1. WShaped'
  BY DEF WhoisInv, WShaped, Acts, Time
<1>2. ASSUME NEW m \in Lookups PROVE Told(m)'
  <2>1. CASE m # l
    <3>1. /\ Told(m) /\ pc'[m] = pc[m] /\ dom'[m] = dom[m] /\ outcome'[m] = outcome[m]
          /\ disturbed[m] => disturbed'[m]
      BY <2>1 DEF WhoisInv, Acts
    <3>2. CASE disturbed'[m]
      BY <3>2 DEF Told
    <3>3. CASE pc[m] = "idle"
      BY <3>1, <3>3 DEF Told
    <3>4. CASE ~disturbed'[m] /\ pc[m] # "idle"
      <4>1. dom[m] \in Domains
        BY <3>4 DEF WhoisInv, WShaped
      <4>2. /\ disk'.file[dom[m]] = disk.file[dom[m]]
            /\ disk'.temp[dom[m]] = disk.temp[dom[m]]
        BY <2>1, <3>4, <4>1 DEF Acts
      <4> QED BY <3>1, <4>2 DEF Told
    <3> QED BY <3>2, <3>3, <3>4
  <2> QED BY <2>1
<1> QED BY <1>1, <1>2 DEF WhoisInv

\* A domain that the step of a lookup leaves alone, or only deletes the file of.
LEMMA CleanElsewhere ==
    ASSUME WhoisInv, NEW l \in Lookups, Acts(l), NEW d \in Domains \ shared,
           disk'.file[d] = disk.file[d] \/ disk'.file[d] = Absent,
           ~Saving(l, d)', disk'.temp[d] = disk.temp[d] \/ \A m \in Lookups \ {l} : ~Saving(m, d),
           Torn # Absent
    PROVE  Clean(d)'
<1>1. Clean(d)
  BY DEF WhoisInv
<1>2. ASSUME NEW m \in Lookups, Saving(m, d)' PROVE m # l /\ Saving(m, d) /\ pc'[m] = pc[m]
  BY <1>2 DEF Acts, Saving
<1> QED BY <1>1, <1>2 DEF Clean

\* What Disturb tells the other lookups.
LEMMA DisturbTells ==
    ASSUME WhoisConstants, WhoisInv, NEW l \in Lookups, Disturb(l)
    PROVE  /\ disturbed' = [m \in Lookups |-> disturbed'[m]]
           /\ \A m \in Lookups : disturbed[m] => disturbed'[m]
           /\ \A m \in Lookups \ {l} :
                 \/ disturbed'[m] \/ dom[m] \notin Domains
                 \/ /\ disk'.file[dom[m]] = disk.file[dom[m]]
                    /\ disk'.temp[dom[m]] = disk.temp[dom[m]]
<1>1. NoDomain \notin Domains
  BY DEF WhoisConstants
<1> QED BY <1>1 DEF Disturb

\* Goto and End move one lookup.
LEMMA MovesOne ==
    ASSUME WShaped, NEW l \in Lookups,
           \/ \E step : GoesTo(l, step)
           \/ \E how : End(l, how)
    PROVE  /\ asks' = asks
           /\ pc' = [m \in Lookups |-> pc'[m]] /\ dom' = [m \in Lookups |-> dom'[m]]
           /\ outcome' = [m \in Lookups |-> outcome'[m]]
           /\ \A m \in Lookups \ {l} : pc'[m] = pc[m] /\ dom'[m] = dom[m] /\ outcome'[m] = outcome[m]
           /\ \A step : GoesTo(l, step) => pc'[l] = step /\ dom'[l] = dom[l] /\ outcome'[l] = outcome[l]
           /\ \A how : End(l, how) => pc'[l] = "idle" /\ outcome'[l] = how
  BY DEF WShaped, GoesTo, End

\* A step that changes no file.
LEMMA LookupMoves ==
    ASSUME WhoisConstants, WhoisInv, NEW l \in Lookups, pc[l] # "idle",
           disk' = disk, shared' = shared, now' = now,
           \/ \E step : /\ GoesTo(l, step) /\ step \notin {"idle", "write", "rename", "removed"} \cup LateSteps
                        /\ step = "read" => disk.file[dom[l]] # Absent
           \/ \E how : End(l, how) /\ (how = "error" => disturbed'[l]),
           disturbed' = [m \in Lookups |-> disturbed'[m]],
           \A m \in Lookups : disturbed[m] => disturbed'[m],
           doomed' = [m \in Lookups |-> doomed'[m]], \A m \in Lookups : doomed'[m] \subseteq Domains
    PROVE  WhoisInv'
<1>1. WShaped /\ dom[l] \in Domains /\ Torn # Absent /\ Told(l) /\ WDisk(disk')
  BY DEF WhoisInv, WShaped, WhoisConstants
<1>2. /\ asks' = asks
      /\ pc' = [m \in Lookups |-> pc'[m]] /\ dom' = [m \in Lookups |-> dom'[m]]
      /\ outcome' = [m \in Lookups |-> outcome'[m]]
      /\ \A m \in Lookups \ {l} : pc'[m] = pc[m] /\ dom'[m] = dom[m] /\ outcome'[m] = outcome[m]
  BY <1>1, MovesOne
<1>3. /\ pc'[l] \notin {"write", "rename", "removed"} \cup LateSteps
      /\ pc'[l] # "idle" => dom'[l] = dom[l]
      /\ pc'[l] = "read" => disk.file[dom[l]] # Absent
      /\ outcome'[l] = "error" => disturbed'[l]
  BY <1>1, MovesOne DEF Told, LateSteps
<1>4. Acts(l)
  BY <1>1, <1>2, <1>3 DEF Acts
<1>5. Told(l)'
  BY <1>3 DEF Told
<1>6. ASSUME NEW d \in Domains \ shared PROVE Clean(d)'
  <2>1. ~Saving(l, d)'
    BY <1>3 DEF Saving, LateSteps
  <2> QED BY <1>1, <1>4, <2>1, CleanElsewhere
<1> QED BY <1>4, <1>5, <1>6, ActsKeep

LEMMA LookupSteps ==
    ASSUME WhoisConstants, WhoisInv, NEW l \in Lookups,
           \/ Exists(l) \/ Read(l) \/ Fetch(l) \/ AddCount(l) \/ ListDir(l)
           \/ StoreCount(l) \/ Judge(l) \/ List(l)
    PROVE  WhoisInv'
<1>1. WShaped /\ Told(l)
  BY DEF WhoisInv
<1>2. /\ disturbed = [m \in Lookups |-> disturbed[m]]
      /\ doomed = [m \in Lookups |-> doomed[m]] /\ \A m \in Lookups : doomed[m] \subseteq Domains
  BY <1>1 DEF WShaped
<1>3. CASE Exists(l)
  <2>1. /\ pc[l] # "idle" /\ UNCHANGED <<disk, shared, disturbed, doomed, now>>
        /\ \E step : /\ GoesTo(l, step) /\ step \notin {"idle", "write", "rename", "removed"} \cup LateSteps
                     /\ step = "read" => disk.file[dom[l]] # Absent
    BY <1>3 DEF Exists, LocalsKept, Quiet, LateSteps
  <2> QED BY <1>2, <2>1, LookupMoves
<1>4. CASE Read(l)
  <2>1. /\ pc[l] = "read" /\ UNCHANGED <<disk, shared, doomed, now>>
        /\ disturbed' = [disturbed EXCEPT ![l] = disturbed[l] \/ dom[l] \in shared]
    BY <1>4 DEF Read, LocalsKept
  <2>2. /\ disturbed' = [m \in Lookups |-> disturbed'[m]]
        /\ \A m \in Lookups : disturbed[m] => disturbed'[m]
        /\ disturbed'[l] = (disturbed[l] \/ dom[l] \in shared)
    BY <1>2, <2>1
  <2>3. disk.file[dom[l]] \in {Absent, Torn} => disturbed'[l]
    <3>1. dom[l] \in Domains
      BY <1>1, <2>1 DEF WShaped
    <3>2. CASE disk.file[dom[l]] = Absent
      BY <1>1, <2>1, <2>2, <3>2 DEF Told
    <3>3. CASE disk.file[dom[l]] = Torn
      BY <2>2, <3>1, <3>3 DEF WhoisInv, Clean
    <3> QED BY <3>2, <3>3
  <2>4. \/ End(l, "error") /\ disk.file[dom[l]] \in {Absent, Torn}
        \/ GoesTo(l, "expire") \/ GoesTo(l, "fetch") \/ End(l, "hit")
    BY <1>4 DEF Read
  <2> QED BY <1>2, <2>1, <2>2, <2>3, <2>4, LookupMoves DEF LateSteps
<1>5. CASE Fetch(l) \/ AddCount(l) \/ ListDir(l) \/ StoreCount(l) \/ Judge(l)
  <2>1. /\ pc[l] # "idle" /\ UNCHANGED <<disk, shared, disturbed, doomed, now>>
        /\ \/ \E step \in {"open", "list_dir", "store", "judge", "list"} : GoesTo(l, step)
           \/ \E how \in {"nothing", "answer"} : End(l, how)
    BY <1>5 DEF Fetch, AddCount, ListDir, StoreCount, Judge, LocalsKept, Quiet
  <2> QED BY <1>2, <2>1, LookupMoves DEF LateSteps
<1>6. CASE List(l)
  <2>1. pc[l] # "idle" /\ UNCHANGED <<disk, shared, now>>
    BY <1>6 DEF List
  <2>2. CASE UNCHANGED <<disturbed, doomed>> /\ End(l, "answer")
    BY <1>2, <2>1, <2>2, LookupMoves
  <2>3. ASSUME NEW n, NEW ds \in Oldest(n), doomed' = [doomed EXCEPT ![l] = ds],
               GoesTo(l, "evict"), disturbed' = disturbed
        PROVE  WhoisInv'
    <3>1. ds \subseteq Domains
      BY DEF Oldest, Files
    <3>2. /\ doomed' = [m \in Lookups |-> doomed'[m]]
          /\ \A m \in Lookups : doomed'[m] \subseteq Domains
      BY <1>2, <2>3, <3>1
    <3> QED BY <1>2, <2>1, <2>3, <3>2, LookupMoves DEF LateSteps
  <2>4. CASE /\ End(l, "error") /\ disturbed' = [disturbed EXCEPT ![l] = TRUE]
             /\ UNCHANGED doomed
    <3>1. /\ disturbed' = [m \in Lookups |-> disturbed'[m]] /\ disturbed'[l]
          /\ \A m \in Lookups : disturbed[m] => disturbed'[m]
      BY <1>2, <2>4
    <3> QED BY <1>2, <2>1, <2>4, <3>1, LookupMoves
  <2> QED BY <1>6, <2>2, <2>3, <2>4 DEF List
<1> QED BY <1>3, <1>4, <1>5, <1>6

\* The disk after each of write_atomic's steps.
LEMMA WOpened ==
    ASSUME NEW s, WDisk(s), NEW d \in Domains, NEW new, new = OpenTemp(s, d)
    PROVE  /\ WDisk(new) /\ new.file = s.file /\ new.temp[d] = Torn
           /\ \A e \in Domains \ {d} : new.temp[e] = s.temp[e]
  BY DEF WDisk, OpenTemp

LEMMA WRemoved ==
    ASSUME NEW s, WDisk(s), NEW d \in Domains, NEW new, new = Remove(s, d)
    PROVE  /\ WDisk(new) /\ new.temp = s.temp /\ new.file[d] = Absent
           /\ \A e \in Domains \ {d} : new.file[e] = s.file[e]
  BY DEF WDisk, Remove

LEMMA WRenamed ==
    ASSUME NEW s, WDisk(s), NEW d \in Domains, NEW new, new = Rename(s, d)
    PROVE  /\ WDisk(new) /\ new.file[d] = s.temp[d]
           /\ \A e \in Domains \ {d} : new.file[e] = s.file[e] /\ new.temp[e] = s.temp[e]
  BY DEF WDisk, Rename

LEMMA WWriteFacts ==
    ASSUME NEW s, WDisk(s), NEW d \in Domains, NEW content, content \notin {Absent, Torn},
           NEW new \in WriteTemp(s, d, content)
    PROVE  /\ WDisk(new)
           /\ \A e \in Domains \ {d} : new.file[e] = s.file[e] /\ new.temp[e] = s.temp[e]
           /\ s.temp[d] = Torn => new.temp[d] = content /\ new.file[d] = s.file[d]
           /\ new.temp[d] = Absent => s.temp[d] = Absent \/ Torn = Absent
<1>1. CASE s.temp[d] = Torn
  <2>1. new = [s EXCEPT !["temp"][d] = content]
    BY <1>1 DEF WriteTemp
  <2> QED BY <2>1 DEF WDisk
<1>2. ASSUME s.temp[d] # Torn, NEW x \in {content, Torn}, new = [s EXCEPT !["temp"][d] = x]
      PROVE  /\ WDisk(new) /\ new.temp[d] = x /\ new.file = s.file
             /\ \A e \in Domains \ {d} : new.temp[e] = s.temp[e]
  BY <1>2 DEF WDisk
<1>3. ASSUME s.temp[d] # Torn, new = [s EXCEPT !["file"][d] = content]
      PROVE  /\ WDisk(new) /\ new.temp = s.temp
             /\ \A e \in Domains \ {d} : new.file[e] = s.file[e]
  BY <1>3 DEF WDisk
<1>4. CASE s.temp[d] # Torn
  <2>1. \/ \E x \in {content, Torn} : new = [s EXCEPT !["temp"][d] = x]
        \/ new = [s EXCEPT !["file"][d] = content]
        \/ new = s
    BY <1>4 DEF WriteTemp
  <2> QED BY <1>2, <1>3, <1>4, <2>1
<1> QED BY <1>1, <1>4

LEMMA WBeginStep ==
    ASSUME WhoisConstants, WhoisInv, NEW l \in Lookups, Begin(l) PROVE WhoisInv'
<1>1. WShaped /\ Torn # Absent /\ WDisk(disk) /\ WDisk(disk')
  BY DEF WhoisInv, WShaped, WhoisConstants, Begin
<1>2. PICK d \in Domains : dom' = [dom EXCEPT ![l] = d]
  BY <1>1 DEF Begin, WShaped
<1>3. /\ pc'[l] = "exists" /\ dom'[l] = d /\ outcome'[l] = "none" /\ disk' = disk
      /\ shared' = shared
  BY <1>1, <1>2 DEF Begin, WShaped
<1>4. Acts(l)
  <2>1. /\ pc' = [m \in Lookups |-> pc'[m]] /\ dom' = [m \in Lookups |-> dom'[m]]
        /\ outcome' = [m \in Lookups |-> outcome'[m]]
        /\ disturbed' = [m \in Lookups |-> disturbed'[m]]
        /\ \A m \in Lookups \ {l} : pc'[m] = pc[m] /\ dom'[m] = dom[m] /\ outcome'[m] = outcome[m]
        /\ \A m \in Lookups \ {l} : disturbed'[m] = disturbed[m]
    BY <1>1, <1>2 DEF Begin, WShaped
  <2>2. /\ asks' = asks /\ now' = now /\ doomed' = [m \in Lookups |-> doomed'[m]]
        /\ \A m \in Lookups : doomed'[m] \subseteq Domains
    BY <1>1 DEF Begin, WShaped
  <2> QED BY <1>1, <1>2, <1>3, <2>1, <2>2 DEF Acts
<1>5. Told(l)'
  BY <1>3 DEF Told
<1>6. ASSUME NEW e \in Domains \ shared PROVE Clean(e)'
  <2>1. ~Saving(l, e)'
    BY <1>3 DEF Saving
  <2> QED BY <1>1, <1>3, <1>4, <2>1, CleanElsewhere
<1> QED BY <1>3, <1>4, <1>5, <1>6, ActsKeep

\* Expire and Evict: a file is removed.
LEMMA WRemoveStep ==
    ASSUME WhoisConstants, WhoisInv, NEW l \in Lookups, pc[l] # "idle",
           NEW d \in Domains, disk' = Remove(disk, d), Disturb(l), shared' = shared, now' = now,
           (\E step \in {"fetch", "evict"} : GoesTo(l, step)) \/ End(l, "answer"),
           doomed' = [m \in Lookups |-> doomed'[m]], \A m \in Lookups : doomed'[m] \subseteq Domains
    PROVE  WhoisInv'
<1>1. WShaped /\ dom[l] \in Domains /\ Torn # Absent /\ Told(l) /\ WDisk(disk)
  BY DEF WhoisInv, WShaped, WhoisConstants
<1>2. /\ WDisk(disk') /\ disk'.temp = disk.temp
      /\ \A e \in Domains : disk'.file[e] = disk.file[e] \/ disk'.file[e] = Absent
  <2>1. /\ WDisk(disk') /\ disk'.temp = disk.temp /\ disk'.file[d] = Absent
        /\ \A e \in Domains \ {d} : disk'.file[e] = disk.file[e]
    BY <1>1, WRemoved
  <2> QED BY <2>1
<1>3. /\ pc'[l] \notin {"read", "write", "rename", "removed", "late_write", "late_rename"}
      /\ pc'[l] # "idle" => dom'[l] = dom[l]
      /\ outcome'[l] = "error" => disturbed[l]
  BY <1>1, MovesOne DEF Told
<1>4. Acts(l)
  <2>1. /\ asks' = asks
        /\ pc' = [m \in Lookups |-> pc'[m]] /\ dom' = [m \in Lookups |-> dom'[m]]
        /\ outcome' = [m \in Lookups |-> outcome'[m]]
        /\ \A m \in Lookups \ {l} : pc'[m] = pc[m] /\ dom'[m] = dom[m] /\ outcome'[m] = outcome[m]
    BY <1>1, MovesOne
  <2> QED BY <1>1, <1>2, <1>3, <2>1, DisturbTells DEF Acts
<1>5. Told(l)'
  BY <1>3, DisturbTells DEF Told
<1>6. ASSUME NEW e \in Domains \ shared PROVE Clean(e)'
  <2>1. ~Saving(l, e)'
    BY <1>3 DEF Saving
  <2> QED BY <1>1, <1>2, <1>4, <2>1, CleanElsewhere
<1> QED BY <1>4, <1>5, <1>6, ActsKeep

LEMMA WDeleteSteps ==
    ASSUME WhoisConstants, WhoisInv, NEW l \in Lookups, Expire(l) \/ Evict(l)
    PROVE  WhoisInv'
<1>1. /\ pc[l] # "idle" /\ dom[l] \in Domains /\ doomed[l] \subseteq Domains
      /\ doomed = [m \in Lookups |-> doomed[m]] /\ \A m \in Lookups : doomed[m] \subseteq Domains
      /\ disturbed = [m \in Lookups |-> disturbed[m]]
  BY DEF Expire, Evict, WhoisInv, WShaped
<1>2. CASE Expire(l)
  <2>1. GoesTo(l, "fetch") /\ Disturb(l) /\ UNCHANGED <<doomed, shared, now>>
    BY <1>2 DEF Expire, LocalsKept
  <2>2. CASE disk' = Remove(disk, dom[l])
    BY <1>1, <2>1, <2>2, WRemoveStep
  <2>3. CASE disk' = disk
    BY <1>1, <2>1, <2>3, DisturbTells, LookupMoves DEF LateSteps
  <2> QED BY <1>2, <2>2, <2>3 DEF Expire
<1>3. CASE Evict(l)
  <2>1. PICK d \in doomed[l] :
            /\ doomed' = [doomed EXCEPT ![l] = @ \ {d}]
            /\ disk' = Remove(disk, d) \/ disk' = disk
            /\ IF doomed[l] = {d} THEN End(l, "answer") ELSE GoesTo(l, "evict")
    BY <1>3 DEF Evict
  <2>2. Disturb(l) /\ shared' = shared /\ now' = now /\ d \in Domains
    BY <1>1, <1>3 DEF Evict
  <2>3. /\ doomed' = [m \in Lookups |-> doomed'[m]]
        /\ \A m \in Lookups : doomed'[m] \subseteq Domains
    BY <1>1, <2>1
  <2>4. CASE disk' = Remove(disk, d)
    BY <1>1, <2>1, <2>2, <2>3, <2>4, WRemoveStep
  <2>5. CASE disk' = disk
    BY <1>1, <2>1, <2>2, <2>3, <2>5, DisturbTells, LookupMoves DEF LateSteps
  <2> QED BY <2>1, <2>4, <2>5
<1> QED BY <1>2, <1>3

\* The content of a save is neither of the two markers.
LEMMA SavedContent ==
    ASSUME WhoisConstants, WhoisInv
    PROVE  [at |-> now, usable |-> TRUE] \notin {Absent, Torn}
<1>1. PICK content \in Entries : content = [at |-> now, usable |-> TRUE]
  BY DEF WhoisInv, WShaped, Entries
<1> QED BY <1>1 DEF WhoisConstants

LEMMA WOpenStep ==
    ASSUME WhoisConstants, WhoisInv, NEW l \in Lookups, OpenFile(l) PROVE WhoisInv'
<1>1. /\ WShaped /\ dom[l] \in Domains /\ Torn # Absent /\ Told(l) /\ WDisk(disk)
      /\ pc[l] = "open" /\ UNCHANGED <<doomed, now>>
      /\ doomed = [m \in Lookups |-> doomed[m]] /\ \A m \in Lookups : doomed[m] \subseteq Domains
      /\ disturbed = [m \in Lookups |-> disturbed[m]]
  BY DEF WhoisInv, WShaped, WhoisConstants, OpenFile, LocalsKept
<1>2. CASE /\ End(l, "error") /\ disturbed' = [disturbed EXCEPT ![l] = TRUE]
           /\ UNCHANGED <<disk, shared>>
  <2>1. /\ disturbed' = [m \in Lookups |-> disturbed'[m]] /\ disturbed'[l]
        /\ \A m \in Lookups : disturbed[m] => disturbed'[m]
    BY <1>1, <1>2
  <2> QED BY <1>1, <1>2, <2>1, LookupMoves
<1>3. ASSUME disk' = OpenTemp(disk, dom[l]), GoesTo(l, "write"), Disturb(l),
             shared' = IF \E m \in Lookups \ {l} : dom[m] = dom[l] /\ pc[m] \in WriteSteps
                       THEN shared \cup {dom[l]} ELSE shared
      PROVE  WhoisInv'
  <2>1. PICK d \in Domains : d = dom[l]
    BY <1>1
  <2>2. /\ WDisk(disk') /\ disk'.file = disk.file /\ disk'.temp[d] = Torn
        /\ \A e \in Domains \ {d} : disk'.temp[e] = disk.temp[e]
    BY <1>1, <1>3, <2>1, WOpened
  <2>3. /\ pc'[l] = "write" /\ dom'[l] = d /\ outcome'[l] = outcome[l] /\ asks' = asks
        /\ pc' = [m \in Lookups |-> pc'[m]] /\ dom' = [m \in Lookups |-> dom'[m]]
        /\ outcome' = [m \in Lookups |-> outcome'[m]]
        /\ \A m \in Lookups \ {l} : pc'[m] = pc[m] /\ dom'[m] = dom[m] /\ outcome'[m] = outcome[m]
    BY <1>1, <1>3, <2>1, MovesOne
  <2>4. Acts(l)
    BY <1>1, <1>3, <2>2, <2>3, DisturbTells DEF Acts
  <2>5. Told(l)'
    BY <1>1, <1>3, <2>2, <2>3, DisturbTells DEF Told
  <2>6. ASSUME NEW e \in Domains \ shared' PROVE Clean(e)'
    <3>1. CASE e = d
      <4>1. \A m \in Lookups \ {l} : ~Saving(m, d)'
        BY <1>3, <2>1, <2>3, <3>1 DEF Saving, WriteSteps, LateSteps
      <4>2. Clean(d)
        BY <1>3, <3>1 DEF WhoisInv
      <4> QED BY <2>2, <2>3, <3>1, <4>1, <4>2 DEF Clean
    <3>2. CASE e # d
      <4>1. ~Saving(l, e)' /\ e \in Domains \ shared
        BY <1>3, <2>3, <3>2 DEF Saving
      <4> QED BY <1>1, <2>2, <2>4, <3>2, <4>1, CleanElsewhere
    <3> QED BY <3>1, <3>2
  <2> QED BY <2>4, <2>5, <2>6, ActsKeep
<1> QED BY <1>2, <1>3 DEF OpenFile

\* The bytes are written: by a lookup that goes on to the rename, or for one that is dropped.
LEMMA WWriteStep ==
    ASSUME WhoisConstants, WhoisInv, NEW l \in Lookups,
           disk' \in WriteTemp(disk, dom[l], [at |-> now, usable |-> TRUE]),
           \/ pc[l] = "write" /\ GoesTo(l, "rename")
           \/ pc[l] = "late_write" /\ End(l, "dropped"),
           Disturb(l), shared' = shared, now' = now,
           doomed' = [m \in Lookups |-> doomed'[m]], \A m \in Lookups : doomed'[m] \subseteq Domains
    PROVE  WhoisInv'
<1>1. WShaped /\ Torn # Absent /\ Told(l) /\ WDisk(disk)
  BY DEF WhoisInv, WShaped, WhoisConstants
<1>2. PICK d \in Domains : d = dom[l]
  BY DEF WhoisInv, WShaped
<1>3. PICK content : content = [at |-> now, usable |-> TRUE] /\ content \notin {Absent, Torn}
  BY SavedContent
<1>4. /\ WDisk(disk')
      /\ \A e \in Domains \ {d} : disk'.file[e] = disk.file[e] /\ disk'.temp[e] = disk.temp[e]
      /\ disk.temp[d] = Torn => disk'.temp[d] = content /\ disk'.file[d] = disk.file[d]
      /\ disk'.temp[d] = Absent => disk.temp[d] = Absent
  <2>1. disk' \in WriteTemp(disk, d, content)
    BY <1>2, <1>3
  <2> QED BY <1>1, <1>3, <2>1, WWriteFacts
<1>5. /\ \/ pc[l] = "write" /\ pc'[l] = "rename" /\ dom'[l] = d
         \/ pc'[l] = "idle"
      /\ outcome'[l] \in {outcome[l], "dropped"} /\ asks' = asks
      /\ pc' = [m \in Lookups |-> pc'[m]] /\ dom' = [m \in Lookups |-> dom'[m]]
      /\ outcome' = [m \in Lookups |-> outcome'[m]]
      /\ \A m \in Lookups \ {l} : pc'[m] = pc[m] /\ dom'[m] = dom[m] /\ outcome'[m] = outcome[m]
  BY <1>1, <1>2, MovesOne
<1>6. Acts(l)
  BY <1>1, <1>4, <1>5, DisturbTells DEF Acts
<1>7. Told(l)'
  BY <1>1, <1>2, <1>4, <1>5, DisturbTells DEF Told
<1>8. ASSUME NEW e \in Domains \ shared PROVE Clean(e)'
  <2>1. CASE e = d
    <3>1. Clean(d) /\ Saving(l, d)
      BY <1>2, <2>1 DEF WhoisInv, Saving
    <3>2. disk.temp[d] = Torn /\ \A m \in Lookups \ {l} : ~Saving(m, d)
      BY <3>1 DEF Clean
    <3>3. \A m \in Lookups \ {l} : ~Saving(m, d)'
      BY <1>5, <3>2 DEF Saving
    <3> QED BY <1>3, <1>4, <1>5, <2>1, <3>1, <3>2, <3>3 DEF Clean, Saving
  <2>2. CASE e # d
    <3>1. ~Saving(l, e)'
      BY <1>5, <2>2 DEF Saving
    <3> QED BY <1>1, <1>4, <1>6, <2>2, <3>1, CleanElsewhere
  <2> QED BY <2>1, <2>2
<1> QED BY <1>6, <1>7, <1>8, ActsKeep

\* The staging file takes its place: for a lookup that goes on to count it, or for one that
\* has been dropped.
LEMMA WMoved ==
    ASSUME WhoisConstants, WhoisInv, NEW l \in Lookups, NEW d \in Domains, d = dom[l],
           \/ pc[l] \in {"rename", "removed"} /\ GoesTo(l, "add")
           \/ pc[l] = "late_rename" /\ End(l, "dropped"),
           disk.temp[d] # Absent, disk' = Rename(disk, d),
           Disturb(l), shared' = shared, now' = now,
           doomed' = [m \in Lookups |-> doomed'[m]], \A m \in Lookups : doomed'[m] \subseteq Domains
    PROVE  WhoisInv'
<1>1. WShaped /\ Torn # Absent /\ Told(l) /\ WDisk(disk)
  BY DEF WhoisInv, WShaped, WhoisConstants
<1>2. /\ WDisk(disk') /\ disk'.file[d] = disk.temp[d]
      /\ \A e \in Domains \ {d} : disk'.file[e] = disk.file[e] /\ disk'.temp[e] = disk.temp[e]
  BY <1>1, WRenamed
<1>3. /\ (pc'[l] = "add" /\ dom'[l] = d) \/ pc'[l] = "idle"
      /\ outcome'[l] \in {outcome[l], "dropped"} /\ asks' = asks
      /\ pc' = [m \in Lookups |-> pc'[m]] /\ dom' = [m \in Lookups |-> dom'[m]]
      /\ outcome' = [m \in Lookups |-> outcome'[m]]
      /\ \A m \in Lookups \ {l} : pc'[m] = pc[m] /\ dom'[m] = dom[m] /\ outcome'[m] = outcome[m]
  BY <1>1, MovesOne
<1>4. Acts(l)
  BY <1>1, <1>2, <1>3, DisturbTells DEF Acts
<1>5. Told(l)'
  BY <1>1, <1>3, DisturbTells DEF Told
<1>6. ASSUME NEW e \in Domains \ shared PROVE Clean(e)'
  <2>1. CASE e = d
    <3>1. Clean(d) /\ Saving(l, d)
      BY <2>1 DEF WhoisInv, Saving
    <3>2. disk.temp[d] # Torn /\ \A m \in Lookups \ {l} : ~Saving(m, d)
      BY <3>1 DEF Clean
    <3>3. \A m \in Lookups : ~Saving(m, d)'
      BY <1>3, <3>2 DEF Saving
    <3> QED BY <1>2, <2>1, <3>2, <3>3 DEF Clean
  <2>2. CASE e # d
    <3>1. ~Saving(l, e)'
      BY <1>3 DEF Saving
    <3> QED BY <1>1, <1>2, <1>4, <2>2, <3>1, CleanElsewhere
  <2> QED BY <2>1, <2>2
<1> QED BY <1>4, <1>5, <1>6, ActsKeep

LEMMA WRenameStep ==
    ASSUME WhoisConstants, WhoisInv, NEW l \in Lookups, RenameFile(l) PROVE WhoisInv'
<1>1. /\ WShaped /\ Torn # Absent /\ Told(l) /\ WDisk(disk)
      /\ pc[l] \in {"rename", "removed"} /\ UNCHANGED <<doomed, now, shared>> /\ Disturb(l)
      /\ doomed = [m \in Lookups |-> doomed[m]] /\ \A m \in Lookups : doomed[m] \subseteq Domains
  BY DEF WhoisInv, WShaped, WhoisConstants, RenameFile, LocalsKept
<1>2. PICK d \in Domains : d = dom[l]
  BY <1>1 DEF WShaped
<1>3. CASE /\ disk.temp[d] # Absent
           /\ disk' = Rename(disk, d) /\ GoesTo(l, "add")
  BY <1>1, <1>2, <1>3, WMoved
<1>4. CASE /\ disk.temp[d] = Absent
           /\ disk' = Remove(disk, d) /\ GoesTo(l, "removed")
  <2>1. /\ WDisk(disk') /\ disk'.temp = disk.temp
        /\ \A e \in Domains \ {d} : disk'.file[e] = disk.file[e]
    BY <1>1, <1>4, WRemoved
  <2>2. /\ pc'[l] = "removed" /\ dom'[l] = d /\ outcome'[l] = outcome[l] /\ asks' = asks
        /\ pc' = [m \in Lookups |-> pc'[m]] /\ dom' = [m \in Lookups |-> dom'[m]]
        /\ outcome' = [m \in Lookups |-> outcome'[m]]
        /\ \A m \in Lookups \ {l} : pc'[m] = pc[m] /\ dom'[m] = dom[m] /\ outcome'[m] = outcome[m]
    BY <1>1, <1>2, <1>4, MovesOne
  <2>3. Acts(l)
    BY <1>1, <2>1, <2>2, DisturbTells DEF Acts
  <2>4. Told(l)'
    BY <1>1, <1>2, <1>4, <2>2, DisturbTells DEF Told
  <2>5. d \in shared
    BY <1>1, <1>2, <1>4 DEF WhoisInv, Clean, Saving
  <2>6. ASSUME NEW e \in Domains \ shared PROVE Clean(e)'
    <3>1. ~Saving(l, e)' /\ e # d
      BY <2>2, <2>5 DEF Saving
    <3> QED BY <1>1, <2>1, <2>3, <3>1, CleanElsewhere
  <2> QED BY <1>1, <2>3, <2>4, <2>6, ActsKeep
<1>5. CASE disk.temp[d] = Absent /\ disk' = disk /\ End(l, "error")
  <2>1. disturbed'[l]
    BY <1>1, <1>2, <1>5, DisturbTells DEF Told
  <2> QED BY <1>1, <1>5, <2>1, DisturbTells, LookupMoves
<1> QED BY <1>2, <1>3, <1>4, <1>5 DEF RenameFile, Renames

LEMMA WDropStep ==
    ASSUME WhoisConstants, WhoisInv, NEW l \in Lookups, Drop(l) PROVE WhoisInv'
<1>1. /\ pc[l] # "idle" /\ UNCHANGED <<disk, shared, disturbed, now>>
      /\ doomed' = [doomed EXCEPT ![l] = {}]
      /\ WShaped /\ Torn # Absent /\ Told(l) /\ WDisk(disk) /\ dom[l] \in Domains
      /\ disturbed = [m \in Lookups |-> disturbed[m]]
  BY DEF Drop, Quiet, WhoisInv, WShaped, WhoisConstants
<1>2. /\ doomed' = [m \in Lookups |-> doomed'[m]]
      /\ \A m \in Lookups : doomed'[m] \subseteq Domains
  BY <1>1 DEF WShaped
<1>3. CASE End(l, "dropped")
  <2>1. \E how : End(l, how) /\ (how = "error" => disturbed'[l])
    BY <1>3
  <2>2. /\ disturbed' = [m \in Lookups |-> disturbed'[m]]
        /\ \A m \in Lookups : disturbed[m] => disturbed'[m]
    BY <1>1
  <2> QED BY <1>1, <1>2, <2>1, <2>2, LookupMoves
<1>4. CASE /\ pc[l] \in {"write", "rename", "removed"}
           /\ pc' = [pc EXCEPT ![l] = IF pc[l] = "write" THEN "late_write" ELSE "late_rename"]
           /\ outcome' = [outcome EXCEPT ![l] = "dropped"]
           /\ UNCHANGED <<asks, dom>>
  <2>1. /\ pc'[l] = IF pc[l] = "write" THEN "late_write" ELSE "late_rename"
        /\ outcome'[l] = "dropped" /\ dom' = dom
        /\ \A m \in Lookups \ {l} : pc'[m] = pc[m] /\ outcome'[m] = outcome[m]
        /\ pc' = [m \in Lookups |-> pc'[m]] /\ outcome' = [m \in Lookups |-> outcome'[m]]
        /\ dom' = [m \in Lookups |-> dom'[m]]
    BY <1>1, <1>4 DEF WShaped
  <2>2. Acts(l)
    BY <1>1, <1>2, <1>4, <2>1 DEF Acts
  <2>3. Told(l)'
    BY <2>1 DEF Told
  <2>4. ASSUME NEW d \in Domains \ shared PROVE Clean(d)'
    <3>1. Clean(d)
      BY DEF WhoisInv
    <3>2. \A m \in Lookups : Saving(m, d)' <=> Saving(m, d)
      BY <1>4, <2>1 DEF Saving
    <3> QED BY <1>1, <1>4, <2>1, <3>1, <3>2 DEF Clean
  <2> QED BY <1>1, <2>2, <2>3, <2>4, ActsKeep
<1> QED BY <1>3, <1>4 DEF Drop

LEMMA WLateStep ==
    ASSUME WhoisConstants, WhoisInv, NEW l \in Lookups, Late(l) PROVE WhoisInv'
<1>1. /\ pc[l] # "idle" /\ End(l, "dropped") /\ Disturb(l) /\ UNCHANGED <<shared, now, doomed>>
      /\ doomed = [m \in Lookups |-> doomed[m]] /\ \A m \in Lookups : doomed[m] \subseteq Domains
      /\ dom[l] \in Domains
  BY DEF Late, LateSteps, WhoisInv, WShaped
<1>2. CASE /\ pc[l] = "late_write"
           /\ disk' \in WriteTemp(disk, dom[l], [at |-> now, usable |-> TRUE])
  BY <1>1, <1>2, WWriteStep
<1>3. CASE pc[l] = "late_rename" /\ Renames(disk, dom[l]) /\ disk' = Rename(disk, dom[l])
  BY <1>1, <1>3, WMoved DEF Renames
<1>4. CASE disk' = disk
  BY <1>1, <1>4, DisturbTells, LookupMoves
<1> QED BY <1>2, <1>3, <1>4 DEF Late

LEMMA WLookupStep ==
    ASSUME WhoisConstants, WhoisInv, NEW l \in Lookups, Begin(l) \/ Step(l) \/ Drop(l)
    PROVE  WhoisInv'
<1>1. CASE WriteFile(l)
  <2>1. /\ pc[l] = "write"
        /\ disk' \in WriteTemp(disk, dom[l], [at |-> now, usable |-> TRUE])
        /\ GoesTo(l, "rename") /\ Disturb(l) /\ UNCHANGED <<shared, now, doomed>>
        /\ doomed = [m \in Lookups |-> doomed[m]] /\ \A m \in Lookups : doomed[m] \subseteq Domains
    BY <1>1 DEF WriteFile, LocalsKept, WhoisInv, WShaped
  <2> QED BY <2>1, WWriteStep
<1> QED BY <1>1, WBeginStep, LookupSteps, WDeleteSteps, WOpenStep, WRenameStep, WDropStep, WLateStep
    DEF Step

\* The end of the process, and the clock: no file changes.
LEMMA WEnvironmentStep ==
    ASSUME WhoisConstants, WhoisInv, Restart \/ Tick \/ UNCHANGED vars
    PROVE  WhoisInv'
<1>1. /\ WShaped /\ MaxTime \in Nat /\ WDisk(disk)
      /\ \A d \in Domains \ shared : Clean(d)
      /\ \A l \in Lookups : Told(l)
  BY DEF WhoisInv, WShaped, WhoisConstants
<1>2. CASE Restart
  <2>1. /\ UNCHANGED <<asks, disk, now, shared>>
        /\ \A l \in Lookups : /\ pc'[l] = "idle" /\ outcome'[l] = "none" /\ ~disturbed'[l]
                              /\ doomed'[l] = {}
    BY <1>2 DEF Restart
  <2>2. /\ pc' = [l \in Lookups |-> pc'[l]] /\ dom' = [l \in Lookups |-> dom'[l]]
        /\ outcome' = [l \in Lookups |-> outcome'[l]]
        /\ disturbed' = [l \in Lookups |-> disturbed'[l]]
        /\ doomed' = [l \in Lookups |-> doomed'[l]]
    BY <1>2 DEF Restart
  <2>3. WShaped'
    BY <1>1, <2>1, <2>2 DEF WShaped, Time
  <2>4. \A l \in Lookups : Told(l)'
    BY <2>1 DEF Told
  <2>5. \A d \in Domains \ shared : Clean(d)'
    BY <1>1, <2>1 DEF Clean, Saving
  <2> QED BY <2>1, <2>3, <2>4, <2>5 DEF WhoisInv
<1>3. CASE Tick \/ UNCHANGED vars
  <2>1. /\ UNCHANGED <<asks, pc, dom, outcome, disturbed, doomed, disk, shared>>
        /\ now' \in Time
    BY <1>1, <1>3 DEF Tick, vars, Time, WShaped
  <2>2. WShaped'
    BY <1>1, <2>1 DEF WShaped, Time
  <2>3. \A l \in Lookups : Told(l)'
    BY <1>1, <2>1 DEF Told
  <2>4. \A d \in Domains \ shared : Clean(d)'
    BY <1>1, <2>1 DEF Clean, Saving
  <2> QED BY <2>1, <2>2, <2>3, <2>4 DEF WhoisInv
<1> QED BY <1>2, <1>3

LEMMA WhoisInitKept == ASSUME WhoisConstants, Init PROVE WhoisInv
<1>1. PICK s \in Scenes : /\ disk = [file |-> s.files, temp |-> [d \in Domains |-> Absent]]
                          /\ asks = s.asks
  BY DEF Init
<1>2. /\ s.files \in [Domains -> Contents] /\ s.asks \in [Lookups -> SUBSET Domains]
      /\ \A d \in Domains : s.files[d] # Torn
      /\ MaxTime \in Nat
  BY DEF WhoisConstants
<1>3. WDisk(disk) /\ \A d \in Domains : disk.file[d] # Torn
  BY <1>1, <1>2 DEF WDisk
<1>4. /\ pc = [l \in Lookups |-> "idle"] /\ dom = [l \in Lookups |-> NoDomain]
      /\ outcome = [l \in Lookups |-> "none"] /\ disturbed = [l \in Lookups |-> FALSE]
      /\ doomed = [l \in Lookups |-> {}] /\ now = 0 /\ shared = {}
  BY DEF Init
<1>5. WShaped
  BY <1>1, <1>2, <1>3, <1>4 DEF WShaped, Time
<1>6. \A l \in Lookups : Told(l)
  BY <1>4 DEF Told
<1>7. \A d \in Domains : Clean(d)
  BY <1>3, <1>4 DEF Clean, Saving
<1> QED BY <1>5, <1>6, <1>7 DEF WhoisInv

\* The two parts of WhoisCacheSound that are about files and errors.
LEMMA WhoisFilesFollow == ASSUME WhoisInv PROVE TornByOverlapOnly /\ ErrorExplained
  BY DEF WhoisInv, Clean, Told, TornByOverlapOnly, ErrorExplained

----------------------------------------------------------------------------
(* The quota.  QuotaHolds speaks of the states in which no enforcement is  *)
(* due, so it is far from inductive: what the entries may grow to depends  *)
(* on where the counter stands (TopOf), and on enforcements that have yet  *)
(* to delete what they listed.                                             *)

\* Span(n): the saves of n intervals between two enforcements.
Span(n) == ENFORCE_INTERVAL * n

\* top is the last count, from s on, that does not yet call for an enforcement.
TopOf(s, top) ==
    \/ s < MAX_ENTRIES /\ top = MAX_ENTRIES - 1
    \/ s = MAX_ENTRIES /\ top = MAX_ENTRIES
    \/ \E q \in Nat : /\ top = MAX_ENTRIES + Span(q + 1)
                      /\ MAX_ENTRIES + Span(q) < s /\ s <= top

\* The entries allowed after k enforcements skipped, with n lookups between rename and count.
Room(k, n) == MAX_ENTRIES + Span(1 + k) + n

\* Multiples of the interval.
LEMMA SpanFacts ==
    ASSUME WhoisConstants, NEW n \in Nat
    PROVE  /\ Span(n) \in Nat /\ Span(n) >= n /\ Span(n + 1) = Span(n) + ENFORCE_INTERVAL
           /\ Span(n) % ENFORCE_INTERVAL = 0
<1>1. PICK i \in Nat \ {0} : i = ENFORCE_INTERVAL
  BY DEF WhoisConstants
<1>2. i * n \in Nat /\ i * n >= n /\ i * (n + 1) = i * n + i
  OBVIOUS
<1>3. (i * n) % i = 0
  OBVIOUS
<1> QED BY <1>1, <1>2, <1>3 DEF Span

\* More intervals hold more saves.
LEMMA SpanGrows ==
    ASSUME WhoisConstants, NEW j \in Nat, NEW n \in Nat, j <= n
    PROVE  Span(j) <= Span(n)
<1>1. PICK i \in Nat \ {0} : i = ENFORCE_INTERVAL
  BY DEF WhoisConstants
<1>2. i * j <= i * n
  OBVIOUS
<1> QED BY <1>1, <1>2 DEF Span

\* More intervals and more lookups in flight make more room, an interval at least as much
\* as a lookup.
LEMMA RoomFacts ==
    ASSUME WhoisConstants, NEW k \in Nat, NEW n \in Nat
    PROVE  /\ Room(k, n) \in Nat /\ Room(k, n) = MAX_ENTRIES + Span(1 + k) + n
           /\ Room(k + 1, n) = Room(k, n) + ENFORCE_INTERVAL
           /\ Room(k, n) >= MAX_ENTRIES + ENFORCE_INTERVAL + n
<1>1. MAX_ENTRIES \in Nat \ {0} /\ ENFORCE_INTERVAL \in Nat \ {0}
  BY DEF WhoisConstants
<1>2. /\ Span(1 + k) \in Nat /\ Span(1 + (k + 1)) = Span(1 + k) + ENFORCE_INTERVAL
      /\ Span(1) = Span(0) + ENFORCE_INTERVAL /\ Span(0) \in Nat
  <2>1. Span(1 + k) \in Nat /\ Span((1 + k) + 1) = Span(1 + k) + ENFORCE_INTERVAL
    BY SpanFacts
  <2>2. Span(0) \in Nat /\ Span(0 + 1) = Span(0) + ENFORCE_INTERVAL
    BY SpanFacts
  <2> QED BY <2>1, <2>2
<1>3. Span(1) <= Span(1 + k)
  BY SpanGrows
<1> QED BY <1>1, <1>2, <1>3 DEF Room

\* An enforcement skipped makes room.
LEMMA RoomGrows ==
    ASSUME WhoisConstants, NEW j \in Nat, NEW k \in Nat, NEW n \in Nat, j <= k
    PROVE  Room(j, n) <= Room(k, n)
<1>1. Span(1 + j) <= Span(1 + k)
  BY SpanGrows
<1>2. Span(1 + j) \in Nat /\ Span(1 + k) \in Nat
  BY SpanFacts
<1>3. MAX_ENTRIES \in Nat
  BY DEF WhoisConstants
<1> QED BY <1>1, <1>2, <1>3 DEF Room

\* A lookup in flight takes no more room than an enforcement skipped.
LEMMA RoomForLookups ==
    ASSUME WhoisConstants, NEW k \in Nat, NEW a \in Nat, NEW n \in Nat
    PROVE  Room(k, n + a) <= Room(k + a, n)
<1>1. PICK i \in Nat \ {0} : i = ENFORCE_INTERVAL
  BY DEF WhoisConstants
<1>2. i * (1 + (k + a)) = i * (1 + k) + i * a /\ i * a >= a /\ i * (1 + k) \in Nat
  OBVIOUS
<1>3. Room(k, n + a) = MAX_ENTRIES + i * (1 + k) + (n + a)
      /\ Room(k + a, n) = MAX_ENTRIES + i * (1 + (k + a)) + n
  BY <1>1 DEF Room, Span
<1>4. MAX_ENTRIES \in Nat
  BY DEF WhoisConstants
<1> HIDE DEF Room
<1> QED BY <1>2, <1>3, <1>4

\* Where the counter stands between two enforcements.
LEMMA TopExists ==
    ASSUME WhoisConstants, NEW s \in Nat
    PROVE  \E top \in Nat : TopOf(s, top)
<1>1. MAX_ENTRIES \in Nat \ {0}
  BY DEF WhoisConstants
<1>2. PICK i \in Nat \ {0} : i = ENFORCE_INTERVAL
  BY DEF WhoisConstants
<1>3. CASE s > MAX_ENTRIES
  <2>1. PICK n \in Nat : n = s - MAX_ENTRIES - 1
    BY <1>1, <1>3
  <2>2. n = i * (n \div i) + (n % i) /\ n % i \in 0 .. (i - 1) /\ n \div i \in Nat
    OBVIOUS
  <2>3. PICK q \in Nat : q = n \div i
    BY <2>2
  <2>4. i * (q + 1) = i * q + i /\ i * q \in Nat
    OBVIOUS
  <2>5. i * q <= n /\ n < i * q + i
    BY <2>2, <2>3, <2>4
  <2>6. MAX_ENTRIES + Span(q) < s /\ s <= MAX_ENTRIES + Span(q + 1) /\ MAX_ENTRIES + Span(q + 1) \in Nat
    <3>1. Span(q) = i * q /\ Span(q + 1) = i * q + i
      BY <1>2, <2>4 DEF Span
    <3> QED BY <1>1, <2>1, <2>4, <2>5, <3>1
  <2> QED BY <2>6 DEF TopOf
<1> QED BY <1>1, <1>3 DEF TopOf

\* The counter stays below its top, and passing it is due.
LEMMA TopFacts ==
    ASSUME WhoisConstants, NEW s \in Nat, NEW top, TopOf(s, top)
    PROVE  /\ top \in Nat /\ s <= top
           /\ s < MAX_ENTRIES => top = MAX_ENTRIES - 1
           /\ s >= MAX_ENTRIES => top <= s + ENFORCE_INTERVAL - 1
           /\ s < top => TopOf(s + 1, top)
           /\ s = top => ShouldEnforce(s + 1) /\ s + 1 >= MAX_ENTRIES
<1>1. MAX_ENTRIES \in Nat \ {0} /\ ENFORCE_INTERVAL \in Nat \ {0}
  BY DEF WhoisConstants
<1>2. CASE s <= MAX_ENTRIES
  <2>1. \A q \in Nat : Span(q) \in Nat
    BY SpanFacts
  <2> QED BY <1>1, <1>2, <2>1 DEF TopOf, ShouldEnforce
<1>3. CASE s > MAX_ENTRIES
  <2>1. PICK q \in Nat : /\ top = MAX_ENTRIES + Span(q + 1)
                         /\ MAX_ENTRIES + Span(q) < s /\ s <= top
    BY <1>1, <1>3 DEF TopOf
  <2>2. /\ Span(q) \in Nat /\ Span(q + 1) = Span(q) + ENFORCE_INTERVAL
        /\ Span(q + 1) % ENFORCE_INTERVAL = 0
    BY SpanFacts
  <2>3. s < top => TopOf(s + 1, top)
    <3>1. ASSUME s < top PROVE TopOf(s + 1, top)
      <4>1. MAX_ENTRIES + Span(q) < s + 1 /\ s + 1 <= top
        BY <1>1, <2>1, <2>2, <3>1
      <4> QED BY <2>1, <4>1 DEF TopOf
    <3> QED BY <3>1
  <2>4. s = top => ShouldEnforce(s + 1)
    <3>1. ASSUME s = top PROVE ShouldEnforce(s + 1)
      <4>1. (s + 1) - MAX_ENTRIES - 1 = Span(q + 1) /\ s + 1 > MAX_ENTRIES
        BY <1>1, <2>1, <2>2, <3>1
      <4> QED BY <2>2, <4>1 DEF ShouldEnforce
    <3> QED BY <3>1
  <2> QED BY <1>1, <1>3, <2>1, <2>2, <2>3, <2>4
<1> QED BY <1>1, <1>2, <1>3

\* A count within so many intervals has its top within them.
LEMMA TopWithin ==
    ASSUME WhoisConstants, NEW s \in Nat, NEW top, TopOf(s, top), NEW k \in Nat \ {0},
           s <= MAX_ENTRIES + Span(k)
    PROVE  top <= MAX_ENTRIES + Span(k)
<1>1. MAX_ENTRIES \in Nat \ {0} /\ Span(k) \in Nat
  BY SpanFacts DEF WhoisConstants
<1>2. ASSUME NEW q \in Nat, top = MAX_ENTRIES + Span(q + 1), MAX_ENTRIES + Span(q) < s
      PROVE  top <= MAX_ENTRIES + Span(k)
  <2>1. Span(q) \in Nat /\ Span(q + 1) \in Nat
    BY SpanFacts
  <2>2. q + 1 <= k
    <3>1. CASE k <= q
      <4>1. Span(k) <= Span(q)
        BY <3>1, SpanGrows
      <4> QED BY <1>1, <1>2, <2>1, <4>1
    <3> QED BY <3>1
  <2>3. Span(q + 1) <= Span(k)
    BY <2>2, SpanGrows
  <2> QED BY <1>1, <1>2, <2>1, <2>3
<1> QED BY <1>1, <1>2 DEF TopOf

\* The count beyond so many intervals is due.
LEMMA DueBeyond ==
    ASSUME WhoisConstants, NEW k \in Nat
    PROVE  ShouldEnforce(MAX_ENTRIES + Span(k) + 1)
<1>1. MAX_ENTRIES \in Nat /\ Span(k) \in Nat /\ Span(k) % ENFORCE_INTERVAL = 0
  BY SpanFacts DEF WhoisConstants
<1>2. /\ MAX_ENTRIES + Span(k) + 1 - MAX_ENTRIES - 1 = Span(k)
      /\ MAX_ENTRIES + Span(k) + 1 > MAX_ENTRIES
  BY <1>1
<1> QED BY <1>1, <1>2 DEF ShouldEnforce
----------------------------------------------------------------------------
(* The inductive invariant of the quota.                                   *)

\* The lookups between rename and count, and the one that counts the directory.
Adding == {l \in Lookups : pc[l] = "add"}
Firsts == {l \in Lookups : pc[l] \in {"list_dir", "store"}}

QuotaTyped ==
    /\ pc \in [Lookups -> Steps] /\ count \in [Lookups -> Nat]
    /\ saves \in Nat /\ skipped \in Nat
    /\ \A l \in Lookups : pc[l] # "idle" => asks[l] # {}

\* WHOIS_SAVE_COUNT is 1 for one save of a process, so only one counts the directory.
OneFirst ==
    /\ \A l, m \in Firsts : l = m
    /\ Firsts # {} => saves >= 1

\* Until the counter is set, the directory is what the last process left.
FirstRoom ==
    saves = 0 \/ Firsts # {} =>
        Cardinality(Files) <= Room(skipped, Cardinality(Adding \cup Firsts))

\* The count about to be stored: what it lets in before the next enforcement.
StoreRoom(l) ==
    pc[l] = "store" =>
        /\ count[l] >= 2
        /\ \E top \in Nat :
              /\ TopOf(count[l], top)
              /\ Cardinality(Files) + top - count[l]
                   <= Room(skipped + (IF ShouldEnforce(count[l]) THEN 1 ELSE 0), Cardinality(Adding))

\* Once it is set: waiting are the enforcements that are relied on.  One that is deleting has its own
\* account of the directory as it will be: the enforcements that became due after it listed
\* it (after), and the ones that were skipped since (missed).
Deleting(l, top, waiting, after, missed) ==
    /\ after[l] \subseteq waiting \ {l} /\ missed[l] <= skipped
    /\ Cardinality(Files \ doomed[l]) + top - saves
         <= Room(missed[l] + Cardinality(after[l]), Cardinality(Adding))
    /\ \A m \in after[l] : pc[m] = "evict" => after[m] \subseteq after[l] \ {m}

Plan(top, waiting, after, missed) ==
    /\ TopOf(saves, top)
    /\ waiting \subseteq Lookups /\ \A l \in waiting : Enforcing(l)
    /\ waiting # {} => saves >= MAX_ENTRIES
    /\ after \in [Lookups -> SUBSET Lookups] /\ missed \in [Lookups -> Nat]
    /\ Cardinality(Files) + top - saves
         <= Room(skipped + Cardinality(waiting), Cardinality(Adding))
    /\ \A l \in waiting : pc[l] = "evict" => Deleting(l, top, waiting, after, missed)

Planned ==
    saves > 0 /\ Firsts = {} => \E top, waiting, after, missed : Plan(top, waiting, after, missed)

QuotaInv ==
    QuotaTyped /\ OneFirst /\ FirstRoom /\ (\A l \in Lookups : StoreRoom(l)) /\ Planned

\* Sets of lookups and of entries are finite.
LEMMA CountsAre ==
    ASSUME WhoisConstants
    PROVE  /\ \A s \in SUBSET Lookups : IsFiniteSet(s) /\ Cardinality(s) \in Nat
           /\ \A s \in SUBSET Domains : IsFiniteSet(s) /\ Cardinality(s) \in Nat
           /\ \A s \in SUBSET Lookups : \A t \in SUBSET s : Cardinality(t) <= Cardinality(s)
           /\ \A s \in SUBSET Domains : \A t \in SUBSET s : Cardinality(t) <= Cardinality(s)
           /\ MAX_ENTRIES \in Nat \ {0} /\ ENFORCE_INTERVAL \in Nat \ {0}
<1>1. IsFiniteSet(Lookups) /\ IsFiniteSet(Domains)
  BY DEF WhoisConstants
<1>2. \A s \in SUBSET Lookups : IsFiniteSet(s)
  BY <1>1, FS_Subset
<1>3. \A s \in SUBSET Domains : IsFiniteSet(s)
  BY <1>1, FS_Subset
<1>4. \A s \in SUBSET Lookups : \A t \in SUBSET s : Cardinality(t) <= Cardinality(s)
  BY <1>2, FS_Subset
<1>5. \A s \in SUBSET Domains : \A t \in SUBSET s : Cardinality(t) <= Cardinality(s)
  BY <1>3, FS_Subset
<1> QED BY <1>2, <1>3, <1>4, <1>5, FS_CardinalityType DEF WhoisConstants

\* The numbers the invariant is about.
LEMMA StateCounts ==
    ASSUME WhoisConstants
    PROVE  /\ Files \in SUBSET Domains /\ Cardinality(Files) \in Nat
           /\ Adding \in SUBSET Lookups /\ Cardinality(Adding) \in Nat
           /\ Firsts \in SUBSET Lookups /\ Adding \cup Firsts \in SUBSET Lookups
           /\ Cardinality(Adding \cup Firsts) \in Nat
           /\ Files' \in SUBSET Domains /\ Cardinality(Files') \in Nat
           /\ Adding' \in SUBSET Lookups /\ Cardinality(Adding') \in Nat
           /\ Firsts' \in SUBSET Lookups /\ Adding' \cup Firsts' \in SUBSET Lookups
           /\ Cardinality(Adding' \cup Firsts') \in Nat
<1>1. /\ Files \in SUBSET Domains /\ Adding \in SUBSET Lookups /\ Firsts \in SUBSET Lookups
      /\ Files' \in SUBSET Domains /\ Adding' \in SUBSET Lookups /\ Firsts' \in SUBSET Lookups
  BY DEF Files, Adding, Firsts
<1> QED BY <1>1, CountsAre

\* The quota follows.
LEMMA QuotaFollows ==
    ASSUME WhoisConstants, WhoisInv, QuotaInv PROVE QuotaHolds
<1> DEFINE busy == {l \in Lookups : asks[l] # {}}
<1>1. SUFFICES ASSUME \A l \in Lookups : ~Enforcing(l)
      PROVE  Cardinality(Files) <= Room(skipped, Cardinality(busy))
  BY DEF QuotaHolds, Room, Span
<1>2. Adding \cup Firsts \subseteq busy /\ busy \in SUBSET Lookups
  BY DEF QuotaInv, QuotaTyped, Adding, Firsts
<1>3. /\ Cardinality(Adding \cup Firsts) <= Cardinality(busy) /\ Cardinality(busy) \in Nat
      /\ Cardinality(Adding) <= Cardinality(busy)
  BY <1>2, CountsAre
<1>4. skipped \in Nat /\ saves \in Nat
  BY DEF QuotaInv, QuotaTyped
<1> HIDE DEF busy
<1>5. \A n \in Nat : n <= Cardinality(busy) => Room(skipped, n) <= Room(skipped, Cardinality(busy))
  <2>1. Span(1 + skipped) \in Nat
    BY <1>4, SpanFacts
  <2>2. MAX_ENTRIES \in Nat
    BY DEF WhoisConstants
  <2> QED BY <1>3, <2>1, <2>2 DEF Room
<1>6. CASE saves = 0 \/ Firsts # {}
  <2>1. Cardinality(Files) <= Room(skipped, Cardinality(Adding \cup Firsts))
    BY <1>6 DEF QuotaInv, FirstRoom
  <2>2. /\ Room(skipped, Cardinality(Adding \cup Firsts)) <= Room(skipped, Cardinality(busy))
        /\ Room(skipped, Cardinality(Adding \cup Firsts)) \in Nat
        /\ Room(skipped, Cardinality(busy)) \in Nat
    BY <1>3, <1>4, <1>5, StateCounts, RoomFacts
  <2> QED BY <2>1, <2>2, StateCounts
<1>7. CASE saves > 0 /\ Firsts = {}
  <2>1. PICK top, waiting, after, missed : Plan(top, waiting, after, missed)
    BY <1>7 DEF QuotaInv, Planned
  <2>2. waiting = {} /\ TopOf(saves, top)
        /\ Cardinality(Files) + top - saves <= Room(skipped + Cardinality(waiting), Cardinality(Adding))
    BY <1>1, <2>1 DEF Plan
  <2>3. Cardinality(waiting) = 0
    BY <2>2, FS_EmptySet
  <2>4. top \in Nat /\ saves <= top
    BY <1>4, <2>2, TopFacts
  <2>5. /\ Room(skipped, Cardinality(Adding)) <= Room(skipped, Cardinality(busy))
        /\ Room(skipped, Cardinality(Adding)) \in Nat
        /\ Room(skipped, Cardinality(busy)) \in Nat
    BY <1>3, <1>4, <1>5, StateCounts, RoomFacts
  <2> QED BY <1>4, <2>2, <2>3, <2>4, <2>5, StateCounts
<1> QED BY <1>4, <1>6, <1>7

\* Room for what is added, where as many lookups have yet to count it.
LEMMA RoomMore ==
    ASSUME WhoisConstants, NEW j \in Nat, NEW k \in Nat, NEW n \in Nat, NEW m \in Nat,
           NEW a \in Nat, j <= k, m = n + a
    PROVE  Room(j, n) + a <= Room(k, m) /\ Room(j, n) \in Nat /\ Room(k, m) \in Nat
<1>1. Room(j, n) <= Room(k, n)
  BY RoomGrows
<1>2. Room(k, n) = MAX_ENTRIES + Span(1 + k) + n /\ Room(k, m) = MAX_ENTRIES + Span(1 + k) + m
  BY DEF Room
<1>3. Room(j, n) \in Nat /\ Room(k, m) \in Nat /\ Room(k, n) \in Nat
  BY RoomFacts
<1>4. Span(1 + k) \in Nat
  BY SpanFacts
<1>5. MAX_ENTRIES \in Nat
  BY DEF WhoisConstants
<1> QED BY <1>1, <1>2, <1>3, <1>4, <1>5

\* The two accounts of a process that has not set its counter, through a step that is not
\* about them: for each entry that is added there is a lookup that has yet to count it.
LEMMA RoomsKept ==
    ASSUME WhoisConstants, QuotaInv, QuotaTyped', NEW a \in Nat,
           Cardinality(Files') <= Cardinality(Files) + a,
           Cardinality(Adding') = Cardinality(Adding) + a,
           Cardinality(Adding' \cup Firsts') = Cardinality(Adding \cup Firsts) + a,
           skipped <= skipped', saves' = saves, Firsts' = Firsts,
           \A l \in Firsts : pc'[l] = pc[l] /\ count'[l] = count[l]
    PROVE  OneFirst' /\ FirstRoom' /\ \A l \in Lookups : StoreRoom(l)'
<1>1. skipped \in Nat /\ skipped' \in Nat /\ saves \in Nat /\ count \in [Lookups -> Nat]
  BY DEF QuotaInv, QuotaTyped
<1>2. OneFirst'
  BY DEF QuotaInv, OneFirst
<1>3. FirstRoom'
  <2>1. ASSUME saves = 0 \/ Firsts # {}
        PROVE  Cardinality(Files') <= Room(skipped', Cardinality(Adding' \cup Firsts'))
    <3>1. Cardinality(Files) <= Room(skipped, Cardinality(Adding \cup Firsts))
      BY <2>1 DEF QuotaInv, FirstRoom
    <3>2. /\ Room(skipped, Cardinality(Adding \cup Firsts)) + a
               <= Room(skipped', Cardinality(Adding' \cup Firsts'))
          /\ Room(skipped, Cardinality(Adding \cup Firsts)) \in Nat
          /\ Room(skipped', Cardinality(Adding' \cup Firsts')) \in Nat
      BY <1>1, StateCounts, RoomMore
    <3> QED BY <3>1, <3>2, StateCounts
  <2> QED BY <2>1 DEF FirstRoom
<1>4. ASSUME NEW l \in Lookups PROVE StoreRoom(l)'
  <2>1. ASSUME pc'[l] = "store" PROVE StoreRoom(l)'
    <3>1. l \in Firsts
      BY <2>1 DEF Firsts
    <3>2. pc[l] = "store" /\ count'[l] = count[l] /\ count[l] \in Nat
      BY <1>1, <2>1, <3>1
    <3>3. PICK due \in {0, 1} : due = IF ShouldEnforce(count[l]) THEN 1 ELSE 0
      OBVIOUS
    <3>4. PICK top \in Nat :
             /\ TopOf(count[l], top) /\ count[l] >= 2
             /\ Cardinality(Files) + top - count[l] <= Room(skipped + due, Cardinality(Adding))
      BY <3>2, <3>3 DEF QuotaInv, StoreRoom
    <3>5. /\ Room(skipped + due, Cardinality(Adding)) + a <= Room(skipped' + due, Cardinality(Adding'))
          /\ Room(skipped + due, Cardinality(Adding)) \in Nat
          /\ Room(skipped' + due, Cardinality(Adding')) \in Nat
      <4>1. PICK j \in Nat, k \in Nat : j = skipped + due /\ k = skipped' + due /\ j <= k
        BY <1>1
      <4>2. /\ Room(j, Cardinality(Adding)) + a <= Room(k, Cardinality(Adding'))
            /\ Room(j, Cardinality(Adding)) \in Nat /\ Room(k, Cardinality(Adding')) \in Nat
        BY <4>1, StateCounts, RoomMore
      <4> QED BY <4>1, <4>2
    <3>6. Cardinality(Files') + top - count[l] <= Room(skipped' + due, Cardinality(Adding'))
      BY <3>2, <3>4, <3>5, StateCounts
    <3>7. due = IF ShouldEnforce(count'[l]) THEN 1 ELSE 0
      BY <3>2, <3>3
    <3> QED BY <3>2, <3>4, <3>6, <3>7 DEF StoreRoom, ShouldEnforce
  <2> QED BY <2>1 DEF StoreRoom
<1> QED BY <1>2, <1>3, <1>4

\* A plan holds on through a step that adds an entry for each lookup that has yet to count
\* one, and that moves no enforcement but one on its way.
LEMMA PlanKept ==
    ASSUME WhoisConstants, QuotaTyped, QuotaTyped', NEW a \in Nat,
           NEW top, NEW waiting, NEW after, NEW missed, Plan(top, waiting, after, missed),
           Cardinality(Files') <= Cardinality(Files) + a,
           Cardinality(Adding') = Cardinality(Adding) + a,
           skipped' = skipped, saves' = saves,
           \A l \in waiting :
              /\ Enforcing(l)'
              /\ pc'[l] = "evict" => /\ pc[l] = "evict"
                                     /\ Cardinality((Files \ doomed[l])') <= Cardinality(Files \ doomed[l]) + a
    PROVE  Plan(top, waiting, after, missed)'
<1>1. /\ skipped \in Nat /\ saves \in Nat /\ TopOf(saves, top) /\ waiting \in SUBSET Lookups
      /\ after \in [Lookups -> SUBSET Lookups] /\ missed \in [Lookups -> Nat]
  BY DEF QuotaTyped, Plan
<1>2. top \in Nat /\ Cardinality(waiting) \in Nat
  BY <1>1, TopFacts, CountsAre
<1>3. Cardinality(Files') + top - saves <= Room(skipped + Cardinality(waiting), Cardinality(Adding'))
  <2>1. Cardinality(Files) + top - saves <= Room(skipped + Cardinality(waiting), Cardinality(Adding))
    BY DEF Plan
  <2>2. /\ Room(skipped + Cardinality(waiting), Cardinality(Adding)) + a
             <= Room(skipped + Cardinality(waiting), Cardinality(Adding'))
        /\ Room(skipped + Cardinality(waiting), Cardinality(Adding)) \in Nat
        /\ Room(skipped + Cardinality(waiting), Cardinality(Adding')) \in Nat
    <3>1. PICK k \in Nat : k = skipped + Cardinality(waiting)
      BY <1>1, <1>2
    <3>2. /\ Room(k, Cardinality(Adding)) + a <= Room(k, Cardinality(Adding'))
          /\ Room(k, Cardinality(Adding)) \in Nat /\ Room(k, Cardinality(Adding')) \in Nat
      BY <3>1, StateCounts, RoomMore
    <3> QED BY <3>1, <3>2
  <2> QED BY <1>1, <1>2, <2>1, <2>2, StateCounts
<1>4. ASSUME NEW l \in waiting, pc'[l] = "evict"
      PROVE  Deleting(l, top, waiting, after, missed)'
  <2>1. pc[l] = "evict" /\ Deleting(l, top, waiting, after, missed) /\ l \in Lookups
    BY <1>1, <1>4 DEF Plan
  <2>2. /\ after[l] \subseteq waiting \ {l} /\ missed[l] <= skipped
        /\ \A m \in after[l] : pc'[m] = "evict" => after[m] \subseteq after[l] \ {m}
    BY <2>1 DEF Deleting
  <2>3. missed[l] \in Nat /\ Cardinality(after[l]) \in Nat
    BY <1>1, <2>1, CountsAre
  <2>4. Cardinality((Files \ doomed[l])') + top - saves
          <= Room(missed[l] + Cardinality(after[l]), Cardinality(Adding'))
    <3>1. Cardinality(Files \ doomed[l]) + top - saves
            <= Room(missed[l] + Cardinality(after[l]), Cardinality(Adding))
      BY <2>1 DEF Deleting
    <3>2. /\ Room(missed[l] + Cardinality(after[l]), Cardinality(Adding)) + a
               <= Room(missed[l] + Cardinality(after[l]), Cardinality(Adding'))
          /\ Room(missed[l] + Cardinality(after[l]), Cardinality(Adding)) \in Nat
          /\ Room(missed[l] + Cardinality(after[l]), Cardinality(Adding')) \in Nat
      <4>1. PICK k \in Nat : k = missed[l] + Cardinality(after[l])
        BY <2>3
      <4>2. /\ Room(k, Cardinality(Adding)) + a <= Room(k, Cardinality(Adding'))
            /\ Room(k, Cardinality(Adding)) \in Nat /\ Room(k, Cardinality(Adding')) \in Nat
        BY <4>1, StateCounts, RoomMore
      <4> QED BY <4>1, <4>2
    <3>3. Cardinality(Files \ doomed[l]) \in Nat /\ Cardinality((Files \ doomed[l])') \in Nat
      <4>1. Files \ doomed[l] \in SUBSET Domains /\ (Files \ doomed[l])' \in SUBSET Domains
        BY StateCounts
      <4> QED BY <4>1, CountsAre
    <3>4. Cardinality((Files \ doomed[l])') <= Cardinality(Files \ doomed[l]) + a
      BY <1>4
    <3> QED BY <1>1, <1>2, <3>1, <3>2, <3>3, <3>4
  <2> QED BY <2>2, <2>4 DEF Deleting
<1> QED BY <1>1, <1>3, <1>4 DEF Plan

\* A step that is about none of the accounts.
LEMMA QuotaDrifts ==
    ASSUME WhoisConstants, QuotaInv, QuotaTyped', NEW a \in Nat,
           Cardinality(Files') <= Cardinality(Files) + a,
           Cardinality(Adding') = Cardinality(Adding) + a,
           Cardinality(Adding' \cup Firsts') = Cardinality(Adding \cup Firsts) + a,
           skipped' = skipped, saves' = saves, Firsts' = Firsts,
           \A l \in Firsts : pc'[l] = pc[l] /\ count'[l] = count[l],
           \A l \in Lookups : Enforcing(l) =>
              /\ Enforcing(l)'
              /\ pc'[l] = "evict" => /\ pc[l] = "evict"
                                     /\ Cardinality((Files \ doomed[l])') <= Cardinality(Files \ doomed[l]) + a
    PROVE  QuotaInv'
<1>1. OneFirst' /\ FirstRoom' /\ \A l \in Lookups : StoreRoom(l)'
  <2>1. skipped <= skipped'
    BY DEF QuotaInv, QuotaTyped
  <2> QED BY <2>1, RoomsKept
<1>2. ASSUME saves > 0, Firsts = {}
      PROVE  \E top, waiting, after, missed : Plan(top, waiting, after, missed)'
  <2>1. PICK top, waiting, after, missed : Plan(top, waiting, after, missed)
    BY <1>2 DEF QuotaInv, Planned
  <2>2. \A l \in waiting : l \in Lookups /\ Enforcing(l)
    BY <2>1 DEF Plan
  <2>3. Plan(top, waiting, after, missed)'
    BY <2>1, <2>2, PlanKept DEF QuotaInv
  <2> QED BY <2>3
<1> QED BY <1>1, <1>2 DEF QuotaInv, Planned

\* A step that adds no entry, and moves no enforcement but on its way.
LEMMA QuotaCalm ==
    ASSUME WhoisConstants, QuotaInv, QuotaTyped',
           Files' \subseteq Files, Adding' = Adding, Firsts' = Firsts,
           skipped' = skipped, saves' = saves,
           \A l \in Firsts : pc'[l] = pc[l] /\ count'[l] = count[l],
           \A l \in Lookups : Enforcing(l) =>
              /\ Enforcing(l)'
              /\ pc'[l] = "evict" => pc[l] = "evict" /\ (Files \ doomed[l])' \subseteq Files \ doomed[l]
    PROVE  QuotaInv'
<1>1. Cardinality(Files') <= Cardinality(Files) + 0
  BY StateCounts, CountsAre
<1>2. Cardinality(Adding') = Cardinality(Adding) + 0
  BY StateCounts
<1>3. Cardinality(Adding' \cup Firsts') = Cardinality(Adding \cup Firsts) + 0
  BY StateCounts
<1>4. ASSUME NEW l \in Lookups, Enforcing(l)
      PROVE  /\ Enforcing(l)'
             /\ pc'[l] = "evict" => /\ pc[l] = "evict"
                                    /\ Cardinality((Files \ doomed[l])') <= Cardinality(Files \ doomed[l]) + 0
  <2>1. ASSUME pc'[l] = "evict"
        PROVE  Cardinality((Files \ doomed[l])') <= Cardinality(Files \ doomed[l]) + 0
    <3>1. (Files \ doomed[l])' \subseteq Files \ doomed[l]
      BY <1>4, <2>1
    <3>2. Files \ doomed[l] \in SUBSET Domains
      BY StateCounts
    <3>3. PICK s, t : s = Files \ doomed[l] /\ t = (Files \ doomed[l])'
      OBVIOUS
    <3>4. s \in SUBSET Domains /\ t \in SUBSET s
      BY <3>1, <3>2, <3>3
    <3>5. Cardinality(t) <= Cardinality(s) /\ Cardinality(s) \in Nat
      BY <3>4, CountsAre
    <3> QED BY <3>3, <3>5
  <2> QED BY <1>4, <2>1
<1> HIDE DEF QuotaInv
<1> QED BY <1>1, <1>2, <1>3, <1>4, QuotaDrifts

\* A domain more is an entry more at most.
LEMMA OneMore ==
    ASSUME WhoisConstants, NEW s \in SUBSET Domains, NEW t \in SUBSET Domains, NEW d \in Domains,
           t \subseteq s \cup {d}
    PROVE  Cardinality(t) <= Cardinality(s) + 1
<1>1. /\ IsFiniteSet(s) /\ s \cup {d} \in SUBSET Domains
      /\ Cardinality(s) \in Nat /\ Cardinality(t) \in Nat
  BY CountsAre
<1>2. Cardinality(s \cup {d}) <= Cardinality(s) + 1 /\ Cardinality(t) <= Cardinality(s \cup {d})
  BY <1>1, FS_AddElement, CountsAre
<1> QED BY <1>1, <1>2, CountsAre

\* A rename: an entry more, and a lookup that has yet to count it.
LEMMA QuotaSaved ==
    ASSUME WhoisConstants, QuotaInv, QuotaTyped', NEW l \in Lookups, NEW d \in Domains,
           Files' \subseteq Files \cup {d}, l \notin Adding \cup Firsts,
           Adding' = Adding \cup {l}, Firsts' = Firsts, skipped' = skipped, saves' = saves,
           \A m \in Firsts : pc'[m] = pc[m] /\ count'[m] = count[m],
           doomed' = doomed,
           \A m \in Lookups : Enforcing(m) => Enforcing(m)' /\ pc'[m] = pc[m]
    PROVE  QuotaInv'
<1>1. ASSUME NEW s \in SUBSET Domains, NEW t \in SUBSET Domains, t \subseteq s \cup {d}
      PROVE  Cardinality(t) <= Cardinality(s) + 1
  BY <1>1, OneMore
<1>2. ASSUME NEW s \in SUBSET Lookups, l \notin s
      PROVE  Cardinality(s \cup {l}) = Cardinality(s) + 1
  BY <1>2, CountsAre, FS_AddElement
<1>3. Cardinality(Files') <= Cardinality(Files) + 1
  BY <1>1, StateCounts
<1>4. Cardinality(Adding') = Cardinality(Adding) + 1
  BY <1>2, StateCounts
<1>5. Cardinality(Adding' \cup Firsts') = Cardinality(Adding \cup Firsts) + 1
  <2>1. Adding' \cup Firsts' = (Adding \cup Firsts) \cup {l}
    OBVIOUS
  <2> QED BY <1>2, <2>1, StateCounts
<1>6. ASSUME NEW m \in Lookups, Enforcing(m)
      PROVE  /\ Enforcing(m)'
             /\ pc'[m] = "evict" => /\ pc[m] = "evict"
                                    /\ Cardinality((Files \ doomed[m])') <= Cardinality(Files \ doomed[m]) + 1
  <2>1. /\ Files \ doomed[m] \in SUBSET Domains /\ (Files \ doomed[m])' \in SUBSET Domains
        /\ (Files \ doomed[m])' \subseteq (Files \ doomed[m]) \cup {d}
    BY StateCounts
  <2>2. Cardinality((Files \ doomed[m])') <= Cardinality(Files \ doomed[m]) + 1
    BY <1>1, <2>1
  <2> QED BY <1>6, <2>2
<1> QED BY <1>3, <1>4, <1>5, <1>6, QuotaDrifts

\* All lookups but one stay with what the accounts know of them.
OthersStay(l) ==
    /\ Adding' = Adding /\ Firsts' = Firsts /\ l \notin Adding \cup Firsts
    /\ saves' = saves
    /\ \A m \in Lookups \ {l} : pc'[m] = pc[m] /\ count'[m] = count[m] /\ doomed'[m] = doomed[m]

\* Their enforcements stay due.
LEMMA OthersEnforce ==
    ASSUME NEW l \in Lookups, OthersStay(l)
    PROVE  /\ \A m \in Firsts : pc'[m] = pc[m] /\ count'[m] = count[m]
           /\ \A m \in Lookups \ {l} : Enforcing(m) => Enforcing(m)'
<1>1. \A m \in Lookups \ {l} : Enforcing(m) => Enforcing(m)'
  BY DEF OthersStay, Enforcing, ShouldEnforce
<1> QED BY <1>1 DEF OthersStay, Firsts

\* An enforcement is cut short: an interval more.
LEMMA QuotaSkips ==
    ASSUME WhoisConstants, QuotaInv, QuotaTyped', NEW l \in Lookups, OthersStay(l),
           Files' = Files, skipped' = skipped + 1
    PROVE  QuotaInv'
<1>1. skipped \in Nat /\ saves \in Nat /\ skipped <= skipped' /\ skipped' \in Nat
  BY DEF QuotaInv, QuotaTyped
<1>2. OneFirst' /\ FirstRoom' /\ \A m \in Lookups : StoreRoom(m)'
  <2>1. /\ Cardinality(Files') <= Cardinality(Files) + 0
        /\ Cardinality(Adding') = Cardinality(Adding) + 0
        /\ Cardinality(Adding' \cup Firsts') = Cardinality(Adding \cup Firsts) + 0
        /\ saves' = saves /\ Firsts' = Firsts
    BY StateCounts DEF OthersStay
  <2> QED BY <1>1, <2>1, OthersEnforce, RoomsKept
<1>3. ASSUME saves > 0, Firsts = {}
      PROVE  \E top, waiting, after, missed : Plan(top, waiting, after, missed)'
  <2>1. PICK top, waiting, after, missed : Plan(top, waiting, after, missed)
    BY <1>3 DEF QuotaInv, Planned
  <2>2. /\ TopOf(saves, top) /\ waiting \in SUBSET Lookups
        /\ after \in [Lookups -> SUBSET Lookups] /\ missed \in [Lookups -> Nat]
    BY <2>1 DEF Plan
  <2>3. top \in Nat
    BY <1>1, <2>2, TopFacts
  <2>4. ASSUME NEW s \in SUBSET Lookups, NEW k \in Nat
        PROVE  /\ Room(k + Cardinality(s), Cardinality(Adding))
                    <= Room((k + 1) + Cardinality(s \ {l}), Cardinality(Adding))
               /\ Room(k + Cardinality(s), Cardinality(Adding)) \in Nat
               /\ Room((k + 1) + Cardinality(s \ {l}), Cardinality(Adding)) \in Nat
    <3>1. /\ Cardinality(s) \in Nat /\ Cardinality(s \ {l}) \in Nat
          /\ Cardinality(s) <= Cardinality(s \ {l}) + 1
      BY CountsAre, FS_RemoveElement
    <3>2. PICK i \in Nat, j \in Nat : i = k + Cardinality(s) /\ j = (k + 1) + Cardinality(s \ {l}) /\ i <= j
      BY <3>1
    <3>3. /\ Room(i, Cardinality(Adding)) <= Room(j, Cardinality(Adding))
          /\ Room(i, Cardinality(Adding)) \in Nat /\ Room(j, Cardinality(Adding)) \in Nat
      BY <3>2, StateCounts, RoomGrows, RoomFacts
    <3> QED BY <3>2, <3>3
  <2>5. PICK waiting2, after2, missed2 :
           /\ waiting2 = waiting \ {l}
           /\ after2 = [m \in Lookups |-> after[m] \ {l}]
           /\ missed2 = [m \in Lookups |-> missed[m] + 1]
    OBVIOUS
  <2>6. Cardinality(Files') + top - saves <= Room(skipped' + Cardinality(waiting2), Cardinality(Adding))
    <3>1. Cardinality(Files) + top - saves <= Room(skipped + Cardinality(waiting), Cardinality(Adding))
      BY <2>1 DEF Plan
    <3>2. /\ Room(skipped + Cardinality(waiting), Cardinality(Adding))
               <= Room(skipped' + Cardinality(waiting2), Cardinality(Adding))
          /\ Room(skipped + Cardinality(waiting), Cardinality(Adding)) \in Nat
          /\ Room(skipped' + Cardinality(waiting2), Cardinality(Adding)) \in Nat
      BY <1>1, <2>2, <2>4, <2>5
    <3> QED BY <1>1, <2>3, <3>1, <3>2, StateCounts
  <2>7. ASSUME NEW m \in waiting2, pc'[m] = "evict"
        PROVE  Deleting(m, top, waiting2, after2, missed2)'
    <3>1. m \in Lookups \ {l} /\ m \in waiting /\ pc[m] = "evict" /\ doomed'[m] = doomed[m]
      BY <2>2, <2>5, <2>7 DEF OthersStay
    <3>2. Deleting(m, top, waiting, after, missed)
      BY <2>1, <3>1 DEF Plan
    <3>3. /\ after2[m] = after[m] \ {l} /\ missed2[m] = missed[m] + 1
          /\ after[m] \in SUBSET Lookups /\ missed[m] \in Nat
      BY <2>2, <2>5, <3>1
    <3>4. after2[m] \subseteq waiting2 \ {m} /\ missed2[m] <= skipped'
      BY <1>1, <2>5, <3>2, <3>3 DEF Deleting
    <3>5. ASSUME NEW n \in after2[m], pc'[n] = "evict" PROVE after2[n] \subseteq after2[m] \ {n}
      <4>1. n \in Lookups \ {l} /\ n \in after[m] /\ pc[n] = "evict" /\ after2[n] = after[n] \ {l}
        BY <2>5, <3>3, <3>5 DEF OthersStay
      <4> QED BY <3>2, <3>3, <4>1 DEF Deleting
    <3>6. Cardinality((Files \ doomed[m])') + top - saves'
            <= Room(missed2[m] + Cardinality(after2[m]), Cardinality(Adding'))
      <4>1. Cardinality(Files \ doomed[m]) + top - saves
              <= Room(missed[m] + Cardinality(after[m]), Cardinality(Adding))
        BY <3>2 DEF Deleting
      <4>2. /\ Room(missed[m] + Cardinality(after[m]), Cardinality(Adding))
                 <= Room(missed2[m] + Cardinality(after2[m]), Cardinality(Adding))
            /\ Room(missed[m] + Cardinality(after[m]), Cardinality(Adding)) \in Nat
            /\ Room(missed2[m] + Cardinality(after2[m]), Cardinality(Adding)) \in Nat
        BY <2>4, <3>3
      <4>3. Cardinality(Files \ doomed[m]) \in Nat
        BY StateCounts, CountsAre
      <4>4. (Files \ doomed[m])' = Files \ doomed[m] /\ saves' = saves /\ Adding' = Adding
        BY <3>1 DEF OthersStay
      <4> QED BY <1>1, <2>3, <4>1, <4>2, <4>3, <4>4
    <3> QED BY <3>4, <3>5, <3>6 DEF Deleting
  <2>8. /\ waiting2 \subseteq Lookups /\ \A m \in waiting2 : Enforcing(m)'
        /\ waiting2 # {} => saves' >= MAX_ENTRIES
        /\ after2 \in [Lookups -> SUBSET Lookups] /\ missed2 \in [Lookups -> Nat]
        /\ TopOf(saves', top)
    <3>1. \A m \in waiting2 : m \in waiting /\ m \in Lookups \ {l} /\ Enforcing(m)
      BY <2>1, <2>2, <2>5 DEF Plan
    <3>2. saves' = saves
      BY DEF OthersStay
    <3>3. after2 \in [Lookups -> SUBSET Lookups] /\ missed2 \in [Lookups -> Nat]
      BY <2>2, <2>5
    <3>4. waiting2 # {} => saves >= MAX_ENTRIES
      BY <2>1, <3>1 DEF Plan
    <3> QED BY <2>2, <3>1, <3>2, <3>3, <3>4, OthersEnforce
  <2>9. Plan(top, waiting2, after2, missed2)'
    BY <2>6, <2>7, <2>8 DEF Plan, OthersStay
  <2> QED BY <2>9
<1> QED BY <1>2, <1>3 DEF QuotaInv, Planned, OthersStay

\* An entry that no account has room for, be it renamed uncounted or not to be removed: an
\* interval more makes it.
LEMMA QuotaOneMore ==
    ASSUME WhoisConstants, QuotaInv, QuotaTyped', Cardinality(Files') <= Cardinality(Files) + 1,
           Adding' = Adding, Firsts' = Firsts, skipped' = skipped + 1, saves' = saves,
           \A l \in Firsts : pc'[l] = pc[l] /\ count'[l] = count[l],
           \A l \in Lookups : Enforcing(l) =>
              /\ Enforcing(l)'
              /\ pc'[l] = "evict" => /\ pc[l] = "evict"
                                     /\ Cardinality((Files \ doomed[l])') <= Cardinality(Files \ doomed[l]) + 1
    PROVE  QuotaInv'
<1>1. /\ skipped \in Nat /\ saves \in Nat /\ skipped' \in Nat /\ count \in [Lookups -> Nat]
  BY DEF QuotaInv, QuotaTyped
<1>2. ASSUME NEW k \in Nat, NEW n \in Nat, NEW j, j = k + 1
      PROVE  Room(k, n) + 1 <= Room(j, n) /\ Room(k, n) \in Nat /\ Room(j, n) \in Nat
  <2>1. j \in Nat
    BY <1>2
  <2>2. Room(j, n) = Room(k, n) + ENFORCE_INTERVAL /\ Room(k, n) \in Nat /\ Room(j, n) \in Nat
    BY <1>2, <2>1, RoomFacts
  <2> QED BY <2>2, CountsAre
<1>3. OneFirst'
  BY DEF QuotaInv, OneFirst
<1>4. FirstRoom'
  <2>1. ASSUME saves = 0 \/ Firsts # {}
        PROVE  Cardinality(Files') <= Room(skipped', Cardinality(Adding' \cup Firsts'))
    <3>1. Cardinality(Files) <= Room(skipped, Cardinality(Adding \cup Firsts))
      BY <2>1 DEF QuotaInv, FirstRoom
    <3>2. /\ Room(skipped, Cardinality(Adding \cup Firsts)) + 1
               <= Room(skipped', Cardinality(Adding \cup Firsts))
          /\ Room(skipped, Cardinality(Adding \cup Firsts)) \in Nat
          /\ Room(skipped', Cardinality(Adding \cup Firsts)) \in Nat
      BY <1>1, <1>2, StateCounts
    <3> QED BY <3>1, <3>2, StateCounts
  <2> QED BY <2>1 DEF FirstRoom
<1>5. ASSUME NEW l \in Lookups, pc'[l] = "store" PROVE StoreRoom(l)'
  <2>1. l \in Firsts
    BY <1>5 DEF Firsts
  <2>2. pc[l] = "store" /\ count'[l] = count[l] /\ count[l] \in Nat
    BY <1>1, <1>5, <2>1
  <2>3. PICK due \in {0, 1} : due = IF ShouldEnforce(count[l]) THEN 1 ELSE 0
    OBVIOUS
  <2>4. PICK top \in Nat :
           /\ TopOf(count[l], top) /\ count[l] >= 2
           /\ Cardinality(Files) + top - count[l] <= Room(skipped + due, Cardinality(Adding))
    BY <2>2, <2>3 DEF QuotaInv, StoreRoom
  <2>5. PICK k \in Nat : k = skipped + due /\ skipped' + due = k + 1
    BY <1>1, <2>3
  <2>6. /\ Room(k, Cardinality(Adding)) + 1 <= Room(k + 1, Cardinality(Adding))
        /\ Room(k, Cardinality(Adding)) \in Nat /\ Room(k + 1, Cardinality(Adding)) \in Nat
    BY <1>2, <2>5, StateCounts
  <2>7. Cardinality(Files') + top - count[l] <= Room(skipped' + due, Cardinality(Adding'))
    BY <2>2, <2>4, <2>5, <2>6, StateCounts
  <2>8. due = IF ShouldEnforce(count'[l]) THEN 1 ELSE 0
    BY <2>2, <2>3
  <2> QED BY <2>2, <2>4, <2>7, <2>8 DEF StoreRoom, ShouldEnforce
<1>6. ASSUME saves > 0, Firsts = {}
      PROVE  \E top, waiting, after, missed : Plan(top, waiting, after, missed)'
  <2>1. PICK top, waiting, after, missed : Plan(top, waiting, after, missed)
    BY <1>6 DEF QuotaInv, Planned
  <2>2. /\ TopOf(saves, top) /\ waiting \in SUBSET Lookups /\ Cardinality(waiting) \in Nat
        /\ after \in [Lookups -> SUBSET Lookups] /\ missed \in [Lookups -> Nat]
        /\ waiting # {} => saves >= MAX_ENTRIES
        /\ \A l \in waiting : Enforcing(l)'
    BY <2>1, CountsAre DEF Plan
  <2>3. top \in Nat
    BY <1>1, <2>2, TopFacts
  <2>4. PICK missed2 : missed2 = [l \in Lookups |-> missed[l] + 1]
    OBVIOUS
  <2>5. Cardinality(Files') + top - saves' <= Room(skipped' + Cardinality(waiting), Cardinality(Adding'))
    <3>1. PICK k \in Nat : k = skipped + Cardinality(waiting) /\ skipped' + Cardinality(waiting) = k + 1
      BY <1>1, <2>2
    <3>2. Cardinality(Files) + top - saves <= Room(k, Cardinality(Adding))
      BY <2>1, <3>1 DEF Plan
    <3>3. /\ Room(k, Cardinality(Adding)) + 1 <= Room(k + 1, Cardinality(Adding))
          /\ Room(k, Cardinality(Adding)) \in Nat /\ Room(k + 1, Cardinality(Adding)) \in Nat
      BY <1>2, <3>1, StateCounts
    <3>4. Cardinality(Files') + top - saves <= Room(k + 1, Cardinality(Adding))
      BY <1>1, <2>3, <3>2, <3>3, StateCounts
    <3> QED BY <3>1, <3>4
  <2>6. ASSUME NEW l \in waiting, pc'[l] = "evict"
        PROVE  Deleting(l, top, waiting, after, missed2)'
    <3>1. l \in Lookups /\ Enforcing(l)
      BY <2>1, <2>2 DEF Plan
    <3>2. /\ pc[l] = "evict"
          /\ Cardinality((Files \ doomed[l])') <= Cardinality(Files \ doomed[l]) + 1
      BY <2>6, <3>1
    <3>3. Deleting(l, top, waiting, after, missed)
      BY <2>1, <3>2 DEF Plan
    <3>4. missed2[l] = missed[l] + 1 /\ missed[l] \in Nat /\ after[l] \in SUBSET Lookups
      BY <2>2, <2>4, <3>1
    <3>5. after[l] \subseteq waiting \ {l} /\ missed2[l] <= skipped'
      BY <1>1, <3>3, <3>4 DEF Deleting
    <3>6. ASSUME NEW m \in after[l], pc'[m] = "evict" PROVE after[m] \subseteq after[l] \ {m}
      <4>1. m \in Lookups /\ Enforcing(m)
        BY <2>1, <3>4, <3>5 DEF Plan
      <4>2. pc[m] = "evict"
        BY <3>6, <4>1
      <4> QED BY <3>3, <4>2 DEF Deleting
    <3>7. PICK k \in Nat : /\ k = missed[l] + Cardinality(after[l])
                           /\ missed2[l] + Cardinality(after[l]) = k + 1
      BY <3>4, CountsAre
    <3>8. Cardinality(Files \ doomed[l]) + top - saves <= Room(k, Cardinality(Adding))
      BY <3>3, <3>7 DEF Deleting
    <3>9. /\ Room(k, Cardinality(Adding)) + 1 <= Room(k + 1, Cardinality(Adding))
          /\ Room(k, Cardinality(Adding)) \in Nat /\ Room(k + 1, Cardinality(Adding)) \in Nat
      BY <1>2, <3>7, StateCounts
    <3>10. Cardinality(Files \ doomed[l]) \in Nat /\ Cardinality((Files \ doomed[l])') \in Nat
      <4>1. Files \ doomed[l] \in SUBSET Domains /\ (Files \ doomed[l])' \in SUBSET Domains
        BY StateCounts
      <4> QED BY <4>1, CountsAre
    <3>11. Cardinality((Files \ doomed[l])') + top - saves <= Room(k + 1, Cardinality(Adding))
      BY <1>1, <2>3, <3>2, <3>8, <3>9, <3>10
    <3> QED BY <3>5, <3>6, <3>7, <3>11 DEF Deleting
  <2>7. missed2 \in [Lookups -> Nat]
    BY <2>2, <2>4
  <2>8. Plan(top, waiting, after, missed2)'
    BY <2>2, <2>5, <2>6, <2>7 DEF Plan
  <2> QED BY <2>8
<1> QED BY <1>3, <1>4, <1>5, <1>6 DEF QuotaInv, Planned, StoreRoom

\* A step of an enforcement: what is to be shown is the plan that relied on it.
LEMMA QuotaEnforces ==
    ASSUME WhoisConstants, QuotaInv, QuotaTyped', NEW l \in Lookups, OthersStay(l),
           Files' \subseteq Files, skipped' = skipped,
           ASSUME NEW top, NEW waiting, NEW after, NEW missed,
                  Plan(top, waiting, after, missed), l \in waiting
           PROVE  \E w, a, m : Plan(top, w, a, m)'
    PROVE  QuotaInv'
<1>1. skipped \in Nat /\ saves \in Nat /\ skipped <= skipped' /\ saves' = saves /\ Firsts' = Firsts
  BY DEF QuotaInv, QuotaTyped, OthersStay
<1>2. /\ Cardinality(Files') <= Cardinality(Files) + 0
      /\ Cardinality(Adding') = Cardinality(Adding) + 0
      /\ Cardinality(Adding' \cup Firsts') = Cardinality(Adding \cup Firsts) + 0
  BY StateCounts, CountsAre DEF OthersStay
<1>3. OneFirst' /\ FirstRoom' /\ \A m \in Lookups : StoreRoom(m)'
  BY <1>1, <1>2, OthersEnforce, RoomsKept
<1>4. ASSUME saves > 0, Firsts = {}
      PROVE  \E top, waiting, after, missed : Plan(top, waiting, after, missed)'
  <2>1. PICK top, waiting, after, missed : Plan(top, waiting, after, missed)
    BY <1>4 DEF QuotaInv, Planned
  <2>2. CASE l \in waiting
    BY <2>1, <2>2
  <2>3. CASE l \notin waiting
    <3>1. \A m \in waiting : m \in Lookups \ {l} /\ Enforcing(m)
      BY <2>1, <2>3 DEF Plan
    <3>2. ASSUME NEW m \in waiting
          PROVE  /\ Enforcing(m)'
                 /\ pc'[m] = "evict" => /\ pc[m] = "evict"
                                        /\ Cardinality((Files \ doomed[m])') <= Cardinality(Files \ doomed[m]) + 0
      <4>1. m \in Lookups \ {l} /\ Enforcing(m)' /\ pc'[m] = pc[m] /\ doomed'[m] = doomed[m]
        BY <3>1, OthersEnforce DEF OthersStay
      <4>2. PICK s, t : s = Files \ doomed[m] /\ t = (Files \ doomed[m])'
        OBVIOUS
      <4>3. s \in SUBSET Domains /\ t \in SUBSET s
        BY <4>1, <4>2, StateCounts
      <4>4. Cardinality(t) <= Cardinality(s) /\ Cardinality(s) \in Nat
        BY <4>3, CountsAre
      <4> QED BY <4>1, <4>2, <4>4
    <3>3. Plan(top, waiting, after, missed)'
      BY <1>1, <1>2, <2>1, <3>2, PlanKept DEF QuotaInv
    <3> QED BY <3>3
  <2> QED BY <2>2, <2>3
<1> QED BY <1>1, <1>3, <1>4 DEF QuotaInv, Planned

\* From the quota itself, the next interval fits in.
LEMMA FromQuota ==
    ASSUME WhoisConstants, NEW s \in Nat, s >= MAX_ENTRIES, NEW top, TopOf(s, top),
           NEW n \in Nat, n <= MAX_ENTRIES, NEW k \in Nat, NEW a \in Nat
    PROVE  n + top - s <= Room(k, a)
<1>1. top \in Nat /\ top <= s + ENFORCE_INTERVAL - 1
  BY TopFacts
<1>2. Room(k, a) >= MAX_ENTRIES + ENFORCE_INTERVAL + a /\ Room(k, a) \in Nat
  BY RoomFacts
<1>3. MAX_ENTRIES \in Nat \ {0} /\ ENFORCE_INTERVAL \in Nat \ {0}
  BY CountsAre
<1> QED BY <1>1, <1>2, <1>3

\* The directory is within the quota: nothing is left to wait for.
LEMMA QuotaListed ==
    ASSUME WhoisConstants, QuotaInv, QuotaTyped', NEW l \in Lookups, OthersStay(l),
           Files' = Files, skipped' = skipped, Cardinality(Files) <= MAX_ENTRIES
    PROVE  QuotaInv'
<1>1. ASSUME NEW top, NEW waiting, NEW after, NEW missed,
             Plan(top, waiting, after, missed), l \in waiting
      PROVE  \E w, a, m : Plan(top, w, a, m)'
  <2>1. /\ skipped \in Nat /\ saves \in Nat /\ saves' = saves /\ TopOf(saves, top)
        /\ saves >= MAX_ENTRIES
        /\ after \in [Lookups -> SUBSET Lookups] /\ missed \in [Lookups -> Nat]
    BY <1>1 DEF QuotaInv, QuotaTyped, OthersStay, Plan
  <2>2. Cardinality({}) = 0
    BY FS_EmptySet
  <2>3. Cardinality(Files') + top - saves' <= Room(skipped' + Cardinality({}), Cardinality(Adding'))
    BY <2>1, <2>2, StateCounts, FromQuota
  <2>4. Plan(top, {}, after, missed)'
    BY <2>1, <2>3 DEF Plan
  <2> QED BY <2>4
<1> QED BY <1>1, QuotaEnforces

\* The enforcement has listed what it will delete: its account begins.
LEMMA QuotaDooms ==
    ASSUME WhoisConstants, QuotaInv, QuotaTyped', NEW l \in Lookups, OthersStay(l),
           Files' = Files, skipped' = skipped, Enforcing(l)',
           Cardinality((Files \ doomed[l])') <= MAX_ENTRIES
    PROVE  QuotaInv'
<1>1. ASSUME NEW top, NEW waiting, NEW after, NEW missed,
             Plan(top, waiting, after, missed), l \in waiting
      PROVE  \E w, a, m : Plan(top, w, a, m)'
  <2>1. /\ skipped \in Nat /\ saves \in Nat /\ saves' = saves /\ Adding' = Adding /\ TopOf(saves, top)
        /\ saves >= MAX_ENTRIES /\ waiting \in SUBSET Lookups
        /\ after \in [Lookups -> SUBSET Lookups] /\ missed \in [Lookups -> Nat]
    BY <1>1 DEF QuotaInv, QuotaTyped, OthersStay, Plan
  <2>2. PICK after2, missed2 : /\ after2 = [after EXCEPT ![l] = {}]
                               /\ missed2 = [missed EXCEPT ![l] = 0]
    OBVIOUS
  <2>3. /\ after2 \in [Lookups -> SUBSET Lookups] /\ missed2 \in [Lookups -> Nat]
        /\ after2[l] = {} /\ missed2[l] = 0
        /\ \A m \in Lookups \ {l} : after2[m] = after[m] /\ missed2[m] = missed[m]
    BY <2>1, <2>2
  <2>4. Deleting(l, top, waiting, after2, missed2)'
    <3>1. Cardinality(after2[l]) = 0
      BY <2>3, FS_EmptySet
    <3>2. Cardinality((Files \ doomed[l])') \in Nat
      BY StateCounts, CountsAre
    <3>3. Cardinality((Files \ doomed[l])') + top - saves'
            <= Room(missed2[l] + Cardinality(after2[l]), Cardinality(Adding'))
      BY <2>1, <2>3, <3>1, <3>2, StateCounts, FromQuota
    <3> QED BY <2>1, <2>3, <3>3 DEF Deleting
  <2>5. ASSUME NEW m \in waiting \ {l}, pc'[m] = "evict"
        PROVE  Deleting(m, top, waiting, after2, missed2)'
    <3>1. m \in Lookups \ {l} /\ pc[m] = "evict" /\ doomed'[m] = doomed[m]
      BY <2>1, <2>5 DEF OthersStay
    <3>2. Deleting(m, top, waiting, after, missed) /\ after2[m] = after[m] /\ missed2[m] = missed[m]
      BY <1>1, <2>3, <2>5, <3>1 DEF Plan
    <3>3. ASSUME NEW n \in after2[m], pc'[n] = "evict" PROVE after2[n] \subseteq after2[m] \ {n}
      <4>1. n \in Lookups /\ n \in after[m]
        BY <2>1, <3>1, <3>2, <3>3
      <4>2. CASE n = l
        BY <2>3, <4>2
      <4>3. CASE n # l
        BY <2>3, <3>2, <3>3, <4>1, <4>3 DEF Deleting, OthersStay
      <4> QED BY <4>2, <4>3
    <3>4. (Files \ doomed[m])' = Files \ doomed[m]
      BY <3>1
    <3> QED BY <2>1, <3>2, <3>3, <3>4 DEF Deleting
  <2>6. \A m \in waiting : Enforcing(m)'
    BY <1>1, <2>1, OthersEnforce DEF Plan
  <2>7. Cardinality(Files') + top - saves' <= Room(skipped' + Cardinality(waiting), Cardinality(Adding'))
    BY <1>1, <2>1 DEF Plan
  <2>8. Plan(top, waiting, after2, missed2)'
    BY <2>1, <2>3, <2>4, <2>5, <2>6, <2>7 DEF Plan
  <2> QED BY <2>8
<1> QED BY <1>1, QuotaEnforces

\* The last of its files is deleted: its account is the plan from now on.
LEMMA QuotaEvicted ==
    ASSUME WhoisConstants, QuotaInv, QuotaTyped', NEW l \in Lookups, OthersStay(l),
           pc[l] = "evict", Files' \subseteq Files \ doomed[l], skipped' = skipped
    PROVE  QuotaInv'
<1>1. ASSUME NEW top, NEW waiting, NEW after, NEW missed,
             Plan(top, waiting, after, missed), l \in waiting
      PROVE  \E w, a, m : Plan(top, w, a, m)'
  <2>1. /\ skipped \in Nat /\ saves \in Nat /\ saves' = saves /\ Adding' = Adding /\ TopOf(saves, top)
        /\ saves >= MAX_ENTRIES /\ waiting \in SUBSET Lookups
        /\ after \in [Lookups -> SUBSET Lookups] /\ missed \in [Lookups -> Nat]
        /\ Deleting(l, top, waiting, after, missed)
    BY <1>1 DEF QuotaInv, QuotaTyped, OthersStay, Plan
  <2>2. /\ top \in Nat /\ after[l] \subseteq waiting \ {l} /\ missed[l] <= skipped
        /\ missed[l] \in Nat /\ Cardinality(after[l]) \in Nat /\ after[l] \in SUBSET Lookups
    BY <2>1, TopFacts, CountsAre DEF Deleting
  <2>3. Cardinality(Files') + top - saves' <= Room(skipped' + Cardinality(after[l]), Cardinality(Adding'))
    <3>1. /\ Cardinality(Files \ doomed[l]) + top - saves
               <= Room(missed[l] + Cardinality(after[l]), Cardinality(Adding))
      BY <2>1 DEF Deleting
    <3>2. PICK i \in Nat, j \in Nat : /\ i = missed[l] + Cardinality(after[l])
                                      /\ j = skipped + Cardinality(after[l]) /\ i <= j
      BY <2>1, <2>2
    <3>3. /\ Room(i, Cardinality(Adding)) <= Room(j, Cardinality(Adding))
          /\ Room(i, Cardinality(Adding)) \in Nat /\ Room(j, Cardinality(Adding)) \in Nat
      BY <3>2, StateCounts, RoomGrows, RoomFacts
    <3>4. /\ Cardinality(Files') <= Cardinality(Files \ doomed[l])
          /\ Cardinality(Files \ doomed[l]) \in Nat
      <4>1. Files \ doomed[l] \in SUBSET Domains
        BY StateCounts
      <4> QED BY <4>1, CountsAre
    <3> QED BY <2>1, <2>2, <3>1, <3>2, <3>3, <3>4, StateCounts
  <2>4. ASSUME NEW m \in after[l], pc'[m] = "evict"
        PROVE  Deleting(m, top, after[l], after, missed)'
    <3>1. /\ m \in Lookups \ {l} /\ m \in waiting /\ pc[m] = "evict" /\ doomed'[m] = doomed[m]
      BY <2>1, <2>2, <2>4 DEF OthersStay
    <3>2. Deleting(m, top, waiting, after, missed)
      BY <1>1, <3>1 DEF Plan
    <3>3. after[m] \subseteq after[l] \ {m} /\ missed[m] <= skipped'
      BY <2>1, <2>4, <3>1, <3>2 DEF Deleting
    <3>4. ASSUME NEW n \in after[m], pc'[n] = "evict" PROVE after[n] \subseteq after[m] \ {n}
      <4>1. n \in after[l] /\ n \in Lookups \ {l}
        BY <2>1, <2>2, <3>3, <3>4
      <4>2. pc[n] = "evict"
        BY <3>4, <4>1 DEF OthersStay
      <4> QED BY <3>2, <3>4, <4>2 DEF Deleting
    <3>5. Cardinality((Files \ doomed[m])') + top - saves'
            <= Room(missed[m] + Cardinality(after[m]), Cardinality(Adding'))
      <4>1. Cardinality(Files \ doomed[m]) + top - saves
              <= Room(missed[m] + Cardinality(after[m]), Cardinality(Adding))
        BY <3>2 DEF Deleting
      <4>2. PICK s, t : s = Files \ doomed[m] /\ t = (Files \ doomed[m])'
        OBVIOUS
      <4>3. s \in SUBSET Domains /\ t \in SUBSET s
        BY <3>1, <4>2, StateCounts
      <4>4. Cardinality(t) <= Cardinality(s) /\ Cardinality(s) \in Nat /\ Cardinality(t) \in Nat
        BY <4>3, CountsAre
      <4>5. missed[m] + Cardinality(after[m]) \in Nat
        BY <2>1, <3>1, CountsAre
      <4>6. Room(missed[m] + Cardinality(after[m]), Cardinality(Adding)) \in Nat
        BY <4>5, StateCounts, RoomFacts
      <4> QED BY <2>1, <2>2, <4>1, <4>2, <4>4, <4>6
    <3> QED BY <3>3, <3>4, <3>5 DEF Deleting
  <2>5. \A m \in after[l] : Enforcing(m)'
    <3>1. \A m \in after[l] : m \in Lookups \ {l} /\ Enforcing(m)
      BY <1>1, <2>1, <2>2 DEF Plan
    <3> QED BY <3>1, OthersEnforce
  <2>6. Plan(top, after[l], after, missed)'
    BY <2>1, <2>2, <2>3, <2>4, <2>5 DEF Plan
  <2> QED BY <2>6
<1> QED BY <1>1, QuotaEnforces

\* The first save of a process is counted: it goes on to count the directory.
LEMMA QuotaFirst ==
    ASSUME WhoisConstants, QuotaInv, QuotaTyped', NEW l \in Lookups, saves = 0, saves' = 1,
           l \in Adding, Adding' = Adding \ {l}, Firsts' = {l}, pc'[l] = "list_dir",
           Files' = Files, skipped' = skipped
    PROVE  QuotaInv'
<1>1. OneFirst'
  BY DEF OneFirst
<1>2. FirstRoom'
  <2>1. Firsts = {} /\ Adding' \cup Firsts' = Adding \cup Firsts
    BY DEF QuotaInv, OneFirst
  <2> QED BY <2>1 DEF QuotaInv, FirstRoom
<1>3. \A m \in Lookups : StoreRoom(m)'
  <2>1. \A m \in Lookups : pc'[m] = "store" => m \in Firsts'
    BY DEF Firsts
  <2> QED BY <2>1 DEF StoreRoom
<1>4. Planned'
  BY DEF Planned
<1> QED BY <1>1, <1>2, <1>3, <1>4 DEF QuotaInv

\* A save is counted while another counts the directory: an interval more.
LEMMA QuotaLost ==
    ASSUME WhoisConstants, QuotaInv, QuotaTyped', NEW l \in Lookups, Firsts # {}, saves' = saves + 1,
           l \in Adding, l \notin Firsts, Adding' = Adding \ {l}, Firsts' = Firsts,
           \A m \in Firsts : pc'[m] = pc[m] /\ count'[m] = count[m],
           Files' = Files, skipped' = skipped + 1
    PROVE  QuotaInv'
<1>1. skipped \in Nat /\ saves \in Nat /\ count \in [Lookups -> Nat] /\ skipped' \in Nat
  BY DEF QuotaInv, QuotaTyped
<1>2. ASSUME NEW k \in Nat, NEW s \in SUBSET Lookups, l \in s
      PROVE  /\ Room(k, Cardinality(s)) <= Room(k + 1, Cardinality(s \ {l}))
             /\ Room(k, Cardinality(s)) \in Nat /\ Room(k + 1, Cardinality(s \ {l})) \in Nat
  <2>1. /\ Cardinality(s) \in Nat /\ Cardinality(s \ {l}) \in Nat
        /\ Cardinality(s) = Cardinality(s \ {l}) + 1
    BY <1>2, CountsAre, FS_RemoveElement
  <2>2. PICK n \in Nat : n = Cardinality(s \ {l})
    BY <2>1
  <2>3. Room(k, n + 1) <= Room(k + 1, n) /\ Room(k, n + 1) \in Nat /\ Room(k + 1, n) \in Nat
    <3> DEFINE a == 1 j == k + 1 m == n + 1
    <3>1. a \in Nat /\ j \in Nat /\ m \in Nat
      BY <1>2, <2>2
    <3>2. Room(k, n + a) <= Room(k + a, n)
      BY <2>2, <3>1, RoomForLookups
    <3>3. Room(k, m) \in Nat /\ Room(j, n) \in Nat
      <4> HIDE DEF j, m
      <4> QED BY <1>2, <2>2, <3>1, RoomFacts
    <3> QED BY <3>2, <3>3
  <2> QED BY <2>1, <2>2, <2>3
<1>3. OneFirst'
  BY <1>1 DEF QuotaInv, OneFirst
<1>4. FirstRoom'
  <2>1. Adding' \cup Firsts' = (Adding \cup Firsts) \ {l} /\ l \in Adding \cup Firsts
    OBVIOUS
  <2>2. Cardinality(Files) <= Room(skipped, Cardinality(Adding \cup Firsts))
    BY DEF QuotaInv, FirstRoom
  <2>3. /\ Room(skipped, Cardinality(Adding \cup Firsts)) <= Room(skipped', Cardinality(Adding' \cup Firsts'))
        /\ Room(skipped, Cardinality(Adding \cup Firsts)) \in Nat
        /\ Room(skipped', Cardinality(Adding' \cup Firsts')) \in Nat
    BY <1>1, <1>2, <2>1, StateCounts
  <2> QED BY <2>2, <2>3, StateCounts DEF FirstRoom
<1>5. ASSUME NEW m \in Lookups, pc'[m] = "store" PROVE StoreRoom(m)'
  <2>1. m \in Firsts
    BY <1>5 DEF Firsts
  <2>2. pc[m] = "store" /\ count'[m] = count[m] /\ count[m] \in Nat
    BY <1>1, <1>5, <2>1
  <2>3. PICK due \in {0, 1} : due = IF ShouldEnforce(count[m]) THEN 1 ELSE 0
    OBVIOUS
  <2>4. PICK top \in Nat :
           /\ TopOf(count[m], top) /\ count[m] >= 2
           /\ Cardinality(Files) + top - count[m] <= Room(skipped + due, Cardinality(Adding))
    BY <2>2, <2>3 DEF QuotaInv, StoreRoom
  <2>5. PICK k \in Nat : k = skipped + due /\ skipped' + due = k + 1
    BY <1>1, <2>3
  <2>6. /\ Room(k, Cardinality(Adding)) <= Room(k + 1, Cardinality(Adding'))
        /\ Room(k, Cardinality(Adding)) \in Nat /\ Room(k + 1, Cardinality(Adding')) \in Nat
    BY <1>2, <2>5, StateCounts
  <2>7. Cardinality(Files') + top - count[m] <= Room(skipped' + due, Cardinality(Adding'))
    BY <2>2, <2>4, <2>5, <2>6, StateCounts
  <2>8. due = IF ShouldEnforce(count'[m]) THEN 1 ELSE 0
    BY <2>2, <2>3
  <2> QED BY <2>2, <2>4, <2>7, <2>8 DEF StoreRoom, ShouldEnforce
<1>6. Planned'
  BY DEF Planned
<1> QED BY <1>3, <1>4, <1>5, <1>6 DEF QuotaInv, StoreRoom

\* Once the counter is set, the plan is all there is to show.
LEMMA PlanSuffices ==
    ASSUME QuotaTyped', saves' > 0, Firsts' = {},
           \E top, waiting, after, missed : Plan(top, waiting, after, missed)'
    PROVE  QuotaInv'
<1>1. OneFirst' /\ FirstRoom' /\ Planned'
  BY DEF OneFirst, FirstRoom, Planned, QuotaTyped
<1>2. \A l \in Lookups : StoreRoom(l)'
  BY DEF Firsts, StoreRoom
<1> QED BY <1>1, <1>2 DEF QuotaInv

\* A save is counted: towards the next enforcement, or it is the one that enforces.
LEMMA QuotaCounts ==
    ASSUME WhoisConstants, QuotaInv, QuotaTyped', NEW l \in Lookups,
           saves > 0, Firsts = {}, Firsts' = {}, saves' = saves + 1,
           l \in Adding, Adding' = Adding \ {l}, pc'[l] = "judge", count'[l] = saves + 1,
           \A m \in Lookups \ {l} : pc'[m] = pc[m] /\ count'[m] = count[m],
           doomed' = doomed, Files' = Files, skipped' = skipped
    PROVE  QuotaInv'
<1>1. skipped \in Nat /\ saves \in Nat /\ saves' \in Nat
  BY DEF QuotaInv, QuotaTyped
<1>2. /\ Cardinality(Adding) \in Nat /\ Cardinality(Adding') \in Nat
      /\ Cardinality(Adding) = Cardinality(Adding') + 1
  BY StateCounts, CountsAre, FS_RemoveElement
<1>3. PICK top, waiting, after, missed : Plan(top, waiting, after, missed)
  BY DEF QuotaInv, Planned
<1>4. /\ TopOf(saves, top) /\ waiting \in SUBSET Lookups
      /\ after \in [Lookups -> SUBSET Lookups] /\ missed \in [Lookups -> Nat]
      /\ Cardinality(waiting) \in Nat
  BY <1>3, CountsAre DEF Plan
<1>5. top \in Nat /\ saves <= top
  BY <1>1, <1>4, TopFacts
<1>6. l \notin waiting /\ \A m \in waiting : m \in Lookups \ {l} /\ Enforcing(m)' /\ pc'[m] = pc[m]
  <2>1. \A m \in waiting : Enforcing(m) /\ m \in Lookups
    BY <1>3 DEF Plan
  <2>2. l \notin waiting
    BY <2>1 DEF Enforcing, Adding
  <2> QED BY <2>1, <2>2 DEF Enforcing, ShouldEnforce
<1>7. /\ Cardinality(Files) + top - saves <= Room(skipped + Cardinality(waiting), Cardinality(Adding))
      /\ \A m \in waiting : pc[m] = "evict" => Deleting(m, top, waiting, after, missed)
  BY <1>3 DEF Plan
<1>8. ASSUME NEW k \in Nat
      PROVE  /\ Room(k, Cardinality(Adding)) = Room(k, Cardinality(Adding')) + 1
             /\ Room(k + 1, Cardinality(Adding')) = Room(k, Cardinality(Adding')) + ENFORCE_INTERVAL
             /\ Room(k, Cardinality(Adding)) \in Nat /\ Room(k, Cardinality(Adding')) \in Nat
  <2>1. Span(1 + k) \in Nat
    BY SpanFacts
  <2>2. Room(k, Cardinality(Adding)) = Room(k, Cardinality(Adding')) + 1
    BY <1>2, <2>1, CountsAre DEF Room
  <2> QED BY <1>2, <2>2, RoomFacts
<1>9. \A m \in Lookups : Cardinality(Files \ doomed[m]) \in Nat /\ Cardinality(Files) \in Nat
  BY StateCounts, CountsAre
<1>10. CASE saves < top
  <2>1. TopOf(saves', top)
    BY <1>1, <1>4, <1>10, TopFacts
  <2>2. Cardinality(Files') + top - saves' <= Room(skipped' + Cardinality(waiting), Cardinality(Adding'))
    <3>1. PICK k \in Nat : k = skipped + Cardinality(waiting)
      BY <1>1, <1>4
    <3>2. /\ Room(k, Cardinality(Adding)) = Room(k, Cardinality(Adding')) + 1
          /\ Room(k + 1, Cardinality(Adding')) = Room(k, Cardinality(Adding')) + ENFORCE_INTERVAL
          /\ Room(k, Cardinality(Adding)) \in Nat /\ Room(k, Cardinality(Adding')) \in Nat
      BY <1>8, <3>1
    <3>3. Cardinality(Files) + top - saves <= Room(k, Cardinality(Adding))
      BY <1>7, <3>1
    <3>4. Cardinality(Files) + top - (saves + 1) <= Room(k, Cardinality(Adding'))
      BY <1>1, <1>5, <3>2, <3>3, StateCounts
    <3> QED BY <3>1, <3>4
  <2>3. ASSUME NEW m \in waiting, pc'[m] = "evict" PROVE Deleting(m, top, waiting, after, missed)'
    <3>1. m \in Lookups /\ pc[m] = "evict" /\ Deleting(m, top, waiting, after, missed)
      BY <1>6, <1>7, <2>3
    <3>2. PICK k \in Nat : k = missed[m] + Cardinality(after[m])
      BY <1>4, <3>1, CountsAre
    <3>3. Cardinality(Files \ doomed[m]) + top - saves' <= Room(k, Cardinality(Adding'))
      <4>1. Cardinality(Files \ doomed[m]) + top - saves <= Room(k, Cardinality(Adding))
        BY <3>1, <3>2 DEF Deleting
      <4>2. /\ Room(k, Cardinality(Adding)) = Room(k, Cardinality(Adding')) + 1
            /\ Room(k + 1, Cardinality(Adding')) = Room(k, Cardinality(Adding')) + ENFORCE_INTERVAL
            /\ Room(k, Cardinality(Adding)) \in Nat /\ Room(k, Cardinality(Adding')) \in Nat
        BY <1>8, <3>2
      <4>3. Cardinality(Files \ doomed[m]) \in Nat
        BY <1>9, <3>1
      <4> QED BY <1>1, <1>5, <4>1, <4>2, <4>3
    <3>4. \A n \in after[m] : n \in waiting
      BY <3>1 DEF Deleting
    <3> QED BY <1>6, <3>1, <3>2, <3>3, <3>4 DEF Deleting
  <2>4. waiting # {} => saves' >= MAX_ENTRIES
    BY <1>1, <1>3, CountsAre DEF Plan
  <2>5. Plan(top, waiting, after, missed)'
    BY <1>4, <1>6, <2>1, <2>2, <2>3, <2>4 DEF Plan
  <2> QED BY <1>1, <2>5, PlanSuffices
<1>11. CASE saves = top
  <2>1. ShouldEnforce(saves') /\ saves' >= MAX_ENTRIES
    BY <1>1, <1>4, <1>11, TopFacts
  <2>2. PICK top2 \in Nat : TopOf(saves', top2)
    BY <1>1, TopExists
  <2>3. top2 <= saves' + ENFORCE_INTERVAL - 1 /\ ENFORCE_INTERVAL \in Nat
    BY <1>1, <2>1, <2>2, TopFacts, CountsAre
  <2>4. PICK waiting2, after2 : /\ waiting2 = waiting \cup {l}
                                /\ after2 = [m \in Lookups |-> after[m] \cup {l}]
    OBVIOUS
  <2>5. /\ waiting2 \in SUBSET Lookups /\ after2 \in [Lookups -> SUBSET Lookups]
        /\ Cardinality(waiting2) = Cardinality(waiting) + 1
    BY <1>4, <1>6, <2>4, CountsAre, FS_AddElement
  <2>6. Cardinality(Files') + top2 - saves' <= Room(skipped' + Cardinality(waiting2), Cardinality(Adding'))
    <3>1. PICK k \in Nat : k = skipped + Cardinality(waiting) /\ skipped' + Cardinality(waiting2) = k + 1
      BY <1>1, <1>4, <2>5
    <3>2. /\ Room(k, Cardinality(Adding)) = Room(k, Cardinality(Adding')) + 1
          /\ Room(k + 1, Cardinality(Adding')) = Room(k, Cardinality(Adding')) + ENFORCE_INTERVAL
          /\ Room(k, Cardinality(Adding)) \in Nat /\ Room(k, Cardinality(Adding')) \in Nat
      BY <1>8, <3>1
    <3>3. Cardinality(Files) + top - saves <= Room(k, Cardinality(Adding))
      BY <1>7, <3>1
    <3>4. Cardinality(Files) + top2 - (saves + 1) <= Room(k + 1, Cardinality(Adding'))
      BY <1>1, <1>11, <2>2, <2>3, <3>2, <3>3, StateCounts
    <3> QED BY <3>1, <3>4
  <2>7. ASSUME NEW m \in waiting, pc'[m] = "evict" PROVE Deleting(m, top2, waiting2, after2, missed)'
    <3>1. m \in Lookups \ {l} /\ pc[m] = "evict" /\ Deleting(m, top, waiting, after, missed)
      BY <1>6, <1>7, <2>7
    <3>2. /\ after2[m] = after[m] \cup {l} /\ after[m] \subseteq waiting \ {m}
          /\ after[m] \in SUBSET Lookups /\ l \notin after[m] /\ missed[m] \in Nat
      BY <1>4, <1>6, <2>4, <3>1 DEF Deleting
    <3>3. Cardinality(after2[m]) = Cardinality(after[m]) + 1 /\ Cardinality(after[m]) \in Nat
      BY <3>2, CountsAre, FS_AddElement
    <3>4. PICK k \in Nat : k = missed[m] + Cardinality(after[m]) /\ missed[m] + Cardinality(after2[m]) = k + 1
      BY <3>2, <3>3
    <3>5. Cardinality(Files \ doomed[m]) + top2 - saves' <= Room(k + 1, Cardinality(Adding'))
      <4>1. Cardinality(Files \ doomed[m]) + top - saves <= Room(k, Cardinality(Adding))
        BY <3>1, <3>4 DEF Deleting
      <4>2. /\ Room(k, Cardinality(Adding)) = Room(k, Cardinality(Adding')) + 1
            /\ Room(k + 1, Cardinality(Adding')) = Room(k, Cardinality(Adding')) + ENFORCE_INTERVAL
            /\ Room(k, Cardinality(Adding)) \in Nat /\ Room(k, Cardinality(Adding')) \in Nat
        BY <1>8, <3>4
      <4>3. Cardinality(Files \ doomed[m]) \in Nat
        BY <1>9, <3>1
      <4> QED BY <1>1, <1>11, <2>2, <2>3, <4>1, <4>2, <4>3
    <3>6. ASSUME NEW n \in after2[m], pc'[n] = "evict" PROVE after2[n] \subseteq after2[m] \ {n}
      <4>1. n \in after[m] /\ n \in waiting /\ n \in Lookups \ {l}
        BY <1>6, <3>2, <3>6
      <4>2. pc[n] = "evict" /\ after2[n] = after[n] \cup {l}
        BY <2>4, <3>6, <4>1
      <4> QED BY <3>1, <3>2, <4>1, <4>2 DEF Deleting
    <3>7. after2[m] \subseteq waiting2 \ {m} /\ missed[m] <= skipped'
      BY <2>4, <3>1, <3>2 DEF Deleting
    <3> QED BY <3>4, <3>5, <3>6, <3>7 DEF Deleting
  <2>8. \A m \in waiting2 : Enforcing(m)' /\ (pc'[m] = "evict" => m \in waiting)
    <3>1. Enforcing(l)' /\ pc'[l] # "evict"
      BY <2>1 DEF Enforcing, ShouldEnforce
    <3> QED BY <1>6, <2>4, <3>1
  <2>9. Plan(top2, waiting2, after2, missed)'
    BY <1>4, <2>1, <2>2, <2>5, <2>6, <2>7, <2>8 DEF Plan
  <2> QED BY <1>1, <2>9, PlanSuffices
<1> QED BY <1>1, <1>5, <1>10, <1>11

\* Sums, for the leaves that are not about arithmetic.
LEMMA SumOfNats == \A i, j \in Nat : i + j \in Nat
OBVIOUS

\* The first save of a process has counted the directory.
LEMMA QuotaSeeds ==
    ASSUME WhoisConstants, QuotaInv, QuotaTyped', NEW l \in Lookups, pc[l] = "list_dir",
           NEW staged \in SUBSET Domains, pc'[l] = "store",
           count'[l] = Cardinality(Files) + Cardinality(staged), count'[l] > 1,
           Firsts' = Firsts, Adding' = Adding, Files' = Files, saves' = saves,
           \/ skipped' = skipped + 1
           \/ skipped' = skipped /\ staged = {} /\ Adding = {}
    PROVE  QuotaInv'
<1>1. /\ skipped \in Nat /\ saves \in Nat /\ skipped' \in Nat /\ skipped <= skipped'
      /\ count'[l] \in Nat /\ l \in Firsts
  BY DEF QuotaInv, QuotaTyped, Firsts
<1>2. Firsts = {l}
  BY <1>1 DEF QuotaInv, OneFirst
<1>3. Cardinality(Adding \cup Firsts) = Cardinality(Adding) + 1
  <2>1. l \notin Adding
    BY DEF Adding
  <2> QED BY <1>2, <2>1, StateCounts, CountsAre, FS_AddElement
<1>4. PICK n \in Nat, f \in Nat, a \in Nat :
         n = count'[l] /\ f = Cardinality(Files) /\ a = Cardinality(Adding)
  BY <1>1, StateCounts
<1>5. f <= Room(skipped, a + 1)
  BY <1>1, <1>3, <1>4 DEF QuotaInv, FirstRoom
<1>6. OneFirst'
  BY DEF QuotaInv, OneFirst
<1>7. FirstRoom'
  <2>1. PICK b \in Nat : b = Cardinality(Adding \cup Firsts)
    BY StateCounts
  <2>2. Room(skipped, b) <= Room(skipped', b) /\ Room(skipped, b) \in Nat /\ Room(skipped', b) \in Nat
    BY <1>1, <2>1, RoomGrows, RoomFacts
  <2>3. f <= Room(skipped, b)
    BY <1>1, <1>4, <2>1 DEF QuotaInv, FirstRoom
  <2>4. f <= Room(skipped', b)
    BY <1>4, <2>2, <2>3
  <2> QED BY <1>4, <2>1, <2>4 DEF FirstRoom
<1>8. PICK top \in Nat : TopOf(n, top)
  BY <1>4, TopExists
<1>9. /\ MAX_ENTRIES \in Nat \ {0} /\ ENFORCE_INTERVAL \in Nat \ {0} /\ n <= top
      /\ n < MAX_ENTRIES => top = MAX_ENTRIES - 1
      /\ n >= MAX_ENTRIES => top <= n + ENFORCE_INTERVAL - 1
  BY <1>4, <1>8, TopFacts, CountsAre
<1>10. f <= n
  BY <1>4, CountsAre
<1>11. PICK due \in {0, 1} : due = IF ShouldEnforce(n) THEN 1 ELSE 0
  OBVIOUS
<1>12. f + top - n <= Room(skipped' + due, a)
  <2>1. PICK k \in Nat : k = skipped' + due
    <3>1. due \in Nat
      BY <1>11
    <3>2. skipped' \in Nat
      BY <1>1
    <3>3. skipped' + due \in Nat
      BY <3>1, <3>2, SumOfNats, Zenon
    <3> QED BY <3>3
  <2>2. Room(k, a) \in Nat /\ Room(k, a) >= MAX_ENTRIES + ENFORCE_INTERVAL + a
    BY <1>4, <2>1, RoomFacts
  <2>3. CASE n < MAX_ENTRIES
    BY <1>4, <1>8, <1>9, <1>10, <2>1, <2>2, <2>3
  <2>4. CASE n >= MAX_ENTRIES /\ skipped + 1 <= k
    <3>1. PICK j \in Nat : j = skipped + 1
      BY <1>1
    <3>2. Room(j, a) <= Room(k, a)
      BY <1>4, <2>1, <2>4, <3>1, RoomGrows
    <3>3. Room(j, a) = Room(skipped, a) + ENFORCE_INTERVAL /\ Room(skipped, a) \in Nat
      BY <1>1, <1>4, <3>1, RoomFacts
    <3>4. Room(skipped, a + 1) = Room(skipped, a) + 1
      <4>1. Span(1 + skipped) \in Nat
        BY <1>1, SpanFacts
      <4> QED BY <1>4, <1>9, <4>1 DEF Room
    <3>5. f + top - n <= Room(k, a)
      BY <1>4, <1>5, <1>8, <1>9, <2>2, <2>4, <3>2, <3>3, <3>4
    <3> QED BY <2>1, <3>5
  <2>5. CASE k = skipped
    <3>1. skipped' = skipped /\ due = 0 /\ staged = {} /\ Adding = {} /\ ~ShouldEnforce(n)
      BY <1>1, <1>11, <2>1, <2>5
    <3>2. n = f /\ a = 0
      BY <1>4, <3>1, FS_EmptySet
    <3>3. PICK j \in Nat \ {0} : j = 1 + skipped
      BY <1>1
    <3>4. Span(j) \in Nat
      BY <3>3, SpanFacts
    <3>5. Room(skipped, a + 1) = MAX_ENTRIES + Span(j) + 1 /\ Room(k, a) = MAX_ENTRIES + Span(j)
      BY <1>9, <2>5, <3>2, <3>3, <3>4 DEF Room
    <3>6. n # MAX_ENTRIES + Span(j) + 1
      BY <3>1, <3>3, DueBeyond
    <3>7. n <= MAX_ENTRIES + Span(j)
      BY <1>4, <1>5, <1>9, <3>2, <3>4, <3>5, <3>6
    <3>8. top <= MAX_ENTRIES + Span(j)
      BY <1>4, <1>8, <3>3, <3>7, TopWithin
    <3>9. f + top - n <= Room(k, a)
      BY <1>4, <1>8, <3>2, <3>5, <3>8
    <3> QED BY <2>1, <3>9
  <2>6. k = skipped \/ skipped + 1 <= k
    BY <1>1, <1>11, <2>1
  <2> QED BY <1>4, <1>9, <2>3, <2>4, <2>5, <2>6
<1>13. ASSUME NEW m \in Lookups, pc'[m] = "store" PROVE StoreRoom(m)'
  <2>1. m = l
    <3>1. m \in Firsts'
      BY <1>13 DEF Firsts
    <3> QED BY <1>2, <3>1
  <2>2. Cardinality(Files') + top - count'[m] <= Room(skipped' + due, Cardinality(Adding'))
    BY <1>4, <1>12, <2>1
  <2>3. due = (IF ShouldEnforce(count[m]) THEN 1 ELSE 0)'
    BY <1>4, <1>11, <2>1 DEF ShouldEnforce
  <2> QED BY <1>4, <1>8, <2>1, <2>2, <2>3 DEF StoreRoom
<1>14. Planned'
  BY <1>1 DEF Planned
<1> QED BY <1>6, <1>7, <1>13, <1>14 DEF QuotaInv, StoreRoom

\* There was nothing but what it has saved itself.
LEMMA QuotaAlone ==
    ASSUME WhoisConstants, QuotaInv, QuotaTyped', NEW l \in Lookups, l \in Firsts,
           Cardinality(Files) <= 1, Firsts' = {}, Adding' = Adding, Files' = Files, saves' = saves,
           skipped' \in {skipped, skipped + 1}
    PROVE  QuotaInv'
<1>1. skipped' \in Nat /\ saves \in Nat /\ saves >= 1
  BY DEF QuotaInv, QuotaTyped, OneFirst
<1>2. PICK top \in Nat : TopOf(saves, top)
  BY <1>1, TopExists
<1>3. /\ MAX_ENTRIES \in Nat \ {0} /\ ENFORCE_INTERVAL \in Nat \ {0}
      /\ saves < MAX_ENTRIES => top = MAX_ENTRIES - 1
      /\ saves >= MAX_ENTRIES => top <= saves + ENFORCE_INTERVAL - 1
  BY <1>1, <1>2, TopFacts, CountsAre
<1>4. /\ Room(skipped', Cardinality(Adding)) >= MAX_ENTRIES + ENFORCE_INTERVAL + Cardinality(Adding)
      /\ Room(skipped', Cardinality(Adding)) \in Nat
  BY <1>1, StateCounts, RoomFacts
<1>5. Cardinality(Files) + top - saves <= Room(skipped', Cardinality(Adding))
  BY <1>1, <1>2, <1>3, <1>4, StateCounts
<1>6. Cardinality(Files') + top - saves' <= Room(skipped' + Cardinality({}), Cardinality(Adding'))
  BY <1>1, <1>5, FS_EmptySet
<1> DEFINE after == [m \in Lookups |-> {}]
<1> DEFINE missed == [m \in Lookups |-> 0]
<1>7. after \in [Lookups -> SUBSET Lookups] /\ missed \in [Lookups -> Nat]
  OBVIOUS
<1> HIDE DEF after, missed
<1>8. Plan(top, {}, after, missed)'
  BY <1>2, <1>6, <1>7 DEF Plan
<1> QED BY <1>1, <1>8, PlanSuffices

\* The count is stored: the plan begins.
LEMMA QuotaStores ==
    ASSUME WhoisConstants, QuotaInv, QuotaTyped', NEW l \in Lookups, pc[l] = "store", pc'[l] = "judge",
           count' = count, saves' = count[l],
           Firsts' = {}, Adding' = Adding, Files' = Files, skipped' = skipped
    PROVE  QuotaInv'
<1>1. skipped \in Nat /\ saves' \in Nat /\ count[l] >= 2
  BY DEF QuotaInv, QuotaTyped, StoreRoom
<1>2. PICK due \in {0, 1} : due = IF ShouldEnforce(count[l]) THEN 1 ELSE 0
  OBVIOUS
<1>3. PICK top \in Nat :
         /\ TopOf(count[l], top)
         /\ Cardinality(Files) + top - count[l] <= Room(skipped + due, Cardinality(Adding))
  BY <1>2 DEF QuotaInv, StoreRoom
<1>4. PICK waiting : waiting = IF ShouldEnforce(count[l]) THEN {l} ELSE {}
  OBVIOUS
<1>5. Cardinality(waiting) = due
  BY <1>2, <1>4, FS_EmptySet, FS_Singleton
<1>6. waiting \subseteq Lookups /\ \A m \in waiting : Enforcing(m)' /\ pc'[m] # "evict"
  BY <1>4 DEF Enforcing, ShouldEnforce
<1>7. waiting # {} => saves' >= MAX_ENTRIES
  <2>1. MAX_ENTRIES \in Nat \ {0}
    BY CountsAre
  <2> QED BY <1>1, <1>4, <2>1 DEF ShouldEnforce
<1> DEFINE after == [m \in Lookups |-> {}]
<1> DEFINE missed == [m \in Lookups |-> 0]
<1>8. after \in [Lookups -> SUBSET Lookups] /\ missed \in [Lookups -> Nat]
  OBVIOUS
<1> HIDE DEF after, missed
<1>9. Plan(top, waiting, after, missed)'
  BY <1>3, <1>5, <1>6, <1>7, <1>8 DEF Plan
<1> QED BY <1>1, <1>9, PlanSuffices

\* The process ends: what was under way may never be counted or enforced.
LEMMA QuotaRestarts ==
    ASSUME WhoisConstants, QuotaInv, Restart, Files' = Files, QuotaTyped' PROVE QuotaInv'
<1> DEFINE lost == {l \in Lookups : pc[l] \in Counting \cup {"list", "evict"}}
<1>1. /\ skipped \in Nat /\ saves \in Nat /\ saves' = 0 /\ skipped' = skipped + Cardinality(lost)
      /\ \A l \in Lookups : pc'[l] = "idle"
  BY DEF QuotaInv, QuotaTyped, Restart
<1>2. /\ lost \in SUBSET Lookups /\ Cardinality(lost) \in Nat /\ IsFiniteSet(lost)
      /\ Adding \cup Firsts \subseteq lost
  BY CountsAre DEF Adding, Firsts, Counting
<1>3. Adding' = {} /\ Firsts' = {}
  BY <1>1 DEF Adding, Firsts
<1>4. ASSUME NEW k \in Nat, NEW n \in Nat, NEW r \in Nat, k + n <= r
      PROVE  Room(k, n) <= Room(r, 0) /\ Room(k, n) \in Nat /\ Room(r, 0) \in Nat
  <2>1. PICK j \in Nat : j = k + n /\ j <= r
    BY <1>4
  <2>2. Room(k, 0 + n) <= Room(k + n, 0)
    BY <1>4, RoomForLookups
  <2>3. Room(j, 0) <= Room(r, 0) /\ Room(j, 0) \in Nat /\ Room(r, 0) \in Nat /\ Room(k, n) \in Nat
    BY <1>4, <2>1, RoomGrows, RoomFacts
  <2> QED BY <1>4, <2>1, <2>2, <2>3
<1>5. Cardinality(Files) <= Room(skipped', 0)
  <2>1. CASE saves = 0 \/ Firsts # {}
    <3>1. Cardinality(Adding \cup Firsts) <= Cardinality(lost)
      BY <1>2, CountsAre
    <3>2. Cardinality(Files) <= Room(skipped, Cardinality(Adding \cup Firsts))
      BY <2>1 DEF QuotaInv, FirstRoom
    <3> DEFINE n == Cardinality(Adding \cup Firsts)
    <3> DEFINE r == skipped'
    <3>3. n \in Nat /\ r \in Nat /\ skipped + n <= r
      BY <1>1, <1>2, <3>1, StateCounts
    <3>4. Room(skipped, n) <= Room(r, 0) /\ Room(skipped, n) \in Nat /\ Room(r, 0) \in Nat
      <4> HIDE DEF n, r
      <4> QED BY <1>1, <1>4, <3>3
    <3> QED BY <3>2, <3>4, StateCounts
  <2>2. CASE saves > 0 /\ Firsts = {}
    <3>1. PICK top, waiting, after, missed : Plan(top, waiting, after, missed)
      BY <2>2 DEF QuotaInv, Planned
    <3>2. /\ TopOf(saves, top) /\ waiting \in SUBSET Lookups
          /\ Cardinality(Files) + top - saves <= Room(skipped + Cardinality(waiting), Cardinality(Adding))
          /\ \A l \in waiting : Enforcing(l)
      BY <3>1 DEF Plan
    <3>3. top \in Nat /\ saves <= top
      BY <1>1, <3>2, TopFacts
    <3>4. waiting \cup Adding \subseteq lost /\ waiting \cap Adding = {}
      BY <1>2, <3>2 DEF Enforcing, Counting, Adding
    <3>5. Cardinality(waiting) + Cardinality(Adding) <= Cardinality(lost)
      <4>1. /\ IsFiniteSet(waiting) /\ IsFiniteSet(Adding) /\ Cardinality(waiting) \in Nat
            /\ Cardinality(Adding) \in Nat
        BY <3>2, StateCounts, CountsAre
      <4>2. Cardinality(waiting \cup Adding) = Cardinality(waiting) + Cardinality(Adding) - Cardinality(waiting \cap Adding)
        BY <4>1, FS_Union
      <4>3. Cardinality(waiting \cup Adding) <= Cardinality(lost)
        BY <1>2, <3>4, CountsAre
      <4>4. Cardinality(waiting \cap Adding) = 0
        BY <3>4, FS_EmptySet
      <4> QED BY <4>1, <4>2, <4>3, <4>4
    <3>6. Cardinality(waiting) \in Nat
      BY <3>2, CountsAre
    <3> DEFINE k == skipped + Cardinality(waiting)
    <3> DEFINE n == Cardinality(Adding)
    <3> DEFINE r == skipped'
    <3>7. k \in Nat /\ n \in Nat /\ r \in Nat /\ k + n <= r
      BY <1>1, <1>2, <3>5, <3>6, StateCounts
    <3>8. Room(k, n) <= Room(r, 0) /\ Room(k, n) \in Nat /\ Room(r, 0) \in Nat
      <4> HIDE DEF k, n, r
      <4> QED BY <1>4, <3>7
    <3> QED BY <1>1, <3>2, <3>3, <3>8, StateCounts
  <2> QED BY <1>1, <2>1, <2>2
<1>6. Adding' \cup Firsts' = {} /\ Cardinality({}) = 0
  BY <1>3, FS_EmptySet
<1> HIDE DEF lost
<1>7. FirstRoom'
  BY <1>5, <1>6 DEF FirstRoom
<1>8. OneFirst' /\ Planned'
  BY <1>1, <1>3 DEF OneFirst, Planned
<1>9. \A l \in Lookups : StoreRoom(l)'
  BY <1>1 DEF StoreRoom
<1> QED BY <1>7, <1>8, <1>9 DEF QuotaInv

----------------------------------------------------------------------------
(* Every step keeps the invariant of the quota.                            *)

\* What a step of one lookup leaves of the types.
LEMMA QuotaTypes ==
    ASSUME QuotaTyped, NEW l \in Lookups, NEW step \in Steps, pc' = [pc EXCEPT ![l] = step],
           asks' = asks, pc[l] # "idle" \/ asks[l] # {},
           count' = [m \in Lookups |-> count'[m]], count'[l] \in Nat,
           \A m \in Lookups \ {l} : count'[m] = count[m],
           saves' \in Nat, skipped' \in Nat
    PROVE  QuotaTyped' /\ pc'[l] = step /\ \A m \in Lookups \ {l} : pc'[m] = pc[m]
<1>1. pc'[l] = step /\ \A m \in Lookups \ {l} : pc'[m] = pc[m]
  BY DEF QuotaTyped
<1>2. pc' \in [Lookups -> Steps]
  BY DEF QuotaTyped
<1>3. ASSUME NEW m \in Lookups PROVE count'[m] \in Nat
  BY <1>3 DEF QuotaTyped
<1>4. \A m \in Lookups : pc'[m] # "idle" => asks'[m] # {}
  BY <1>1 DEF QuotaTyped
<1> QED BY <1>1, <1>2, <1>3, <1>4 DEF QuotaTyped

\* A step that neither saves nor counts, and gives up no enforcement.
LEMMA QuotaQuiet ==
    ASSUME WhoisConstants, QuotaInv, NEW l \in Lookups, NEW step \in Steps,
           pc' = [pc EXCEPT ![l] = step], asks' = asks, pc[l] # "idle" \/ asks[l] # {},
           count' = [m \in Lookups |-> count'[m]], count'[l] \in Nat,
           \A m \in Lookups \ {l} : count'[m] = count[m] /\ doomed'[m] = doomed[m],
           saves' = saves, skipped' = skipped, Files' \subseteq Files,
           pc[l] \notin {"add", "list_dir", "store"}, step \notin {"add", "list_dir", "store"},
           Enforcing(l) =>
              /\ Enforcing(l)'
              /\ step = "evict" => pc[l] = "evict" /\ (Files \ doomed[l])' \subseteq Files \ doomed[l]
    PROVE  QuotaInv'
<1>1. QuotaTyped' /\ pc'[l] = step /\ \A m \in Lookups \ {l} : pc'[m] = pc[m]
  BY QuotaTypes DEF QuotaInv, QuotaTyped
<1>2. Adding' = Adding /\ Firsts' = Firsts
  BY <1>1 DEF Adding, Firsts
<1>3. \A m \in Firsts : pc'[m] = pc[m] /\ count'[m] = count[m]
  BY <1>1 DEF Firsts
<1>4. ASSUME NEW m \in Lookups, Enforcing(m)
      PROVE  /\ Enforcing(m)'
             /\ pc'[m] = "evict" => pc[m] = "evict" /\ (Files \ doomed[m])' \subseteq Files \ doomed[m]
  <2>1. CASE m = l
    BY <1>1, <1>4, <2>1
  <2>2. CASE m # l
    <3>1. pc'[m] = pc[m] /\ count'[m] = count[m] /\ doomed'[m] = doomed[m]
      BY <1>1, <2>2
    <3>2. Enforcing(m)'
      BY <1>4, <3>1 DEF Enforcing, ShouldEnforce
    <3> QED BY <3>1, <3>2
  <2> QED BY <2>1, <2>2
<1> QED BY <1>1, <1>2, <1>3, <1>4, QuotaCalm

\* What the steps of the disk do to the entries.
LEMMA FilesChange ==
    ASSUME WhoisConstants, WhoisInv, NEW d \in Domains
    PROVE  /\ disk' = disk => Files' = Files
           /\ disk' = OpenTemp(disk, d) => Files' = Files
           /\ disk' = Remove(disk, d) => Files' = Files \ {d}
           /\ disk' = Rename(disk, d) => Files' \subseteq Files \cup {d}
           /\ disk' \in WriteTemp(disk, d, [at |-> now, usable |-> TRUE]) => Files' = Files
<1>1. WDisk(disk)
  BY DEF WhoisInv, WShaped
<1>2. disk' = disk => Files' = Files
  BY DEF Files
<1>3. disk' = OpenTemp(disk, d) => Files' = Files
  BY <1>1, WOpened DEF Files
<1>4. disk' = Remove(disk, d) => Files' = Files \ {d}
  <2> SUFFICES ASSUME disk' = Remove(disk, d) PROVE Files' = Files \ {d}
    OBVIOUS
  <2>1. disk'.file[d] = Absent /\ \A e \in Domains \ {d} : disk'.file[e] = disk.file[e]
    BY <1>1, WRemoved
  <2> QED BY <2>1 DEF Files
<1>5. disk' = Rename(disk, d) => Files' \subseteq Files \cup {d}
  <2> SUFFICES ASSUME disk' = Rename(disk, d) PROVE Files' \subseteq Files \cup {d}
    OBVIOUS
  <2>1. \A e \in Domains \ {d} : disk'.file[e] = disk.file[e]
    BY <1>1, WRenamed
  <2> QED BY <2>1 DEF Files
<1>6. disk' \in WriteTemp(disk, d, [at |-> now, usable |-> TRUE]) => Files' = Files
  <2> SUFFICES ASSUME disk' \in WriteTemp(disk, d, [at |-> now, usable |-> TRUE]) PROVE Files' = Files
    OBVIOUS
  <2> DEFINE content == [at |-> now, usable |-> TRUE]
  <2>1. content \notin {Absent, Torn} /\ Torn # Absent
    BY SavedContent DEF WhoisConstants
  <2>2. \A e \in Domains \ {d} : disk'.file[e] = disk.file[e]
    BY <1>1, <2>1, WWriteFacts
  <2>3. disk'.file[d] = Absent <=> disk.file[d] = Absent
    <3>1. CASE disk'.file = disk.file
      BY <3>1
    <3>2. CASE disk.file[d] = Torn /\ disk' = [disk EXCEPT !["file"][d] = content]
      BY <1>1, <2>1, <3>2 DEF WDisk
    <3>3. \/ \E x : disk' = [disk EXCEPT !["temp"][d] = x]
          \/ disk.file[d] = Torn /\ disk' = [disk EXCEPT !["file"][d] = content]
          \/ disk' = disk
      BY DEF WriteTemp
    <3>4. (\E x : disk' = [disk EXCEPT !["temp"][d] = x]) => disk'.file = disk.file
      BY <1>1 DEF WDisk
    <3> QED BY <3>1, <3>2, <3>3, <3>4
  <2> QED BY <2>2, <2>3 DEF Files
<1> QED BY <1>2, <1>3, <1>4, <1>5, <1>6

\* The steps of a lookup outside save: none counts.
LEMMA QuotaLookupSteps ==
    ASSUME WhoisConstants, WhoisInv, QuotaInv, NEW l \in Lookups,
           Begin(l) \/ Exists(l) \/ Read(l) \/ Fetch(l) \/ Expire(l)
    PROVE  QuotaInv'
<1>1. /\ count \in [Lookups -> Nat] /\ count = [m \in Lookups |-> count[m]]
      /\ asks \in [Lookups -> SUBSET Domains]
  BY DEF QuotaInv, QuotaTyped, WhoisInv, WShaped
<1>2. ASSUME NEW step \in Steps, pc' = [pc EXCEPT ![l] = step], asks' = asks,
             pc[l] # "idle" \/ asks[l] # {}, UNCHANGED <<count, doomed, saves, skipped>>,
             Files' \subseteq Files, pc[l] \notin {"list", "evict", "judge"} \cup {"add", "list_dir", "store"},
             step \notin {"add", "list_dir", "store"}
      PROVE  QuotaInv'
  <2>1. ~Enforcing(l)
    BY <1>2 DEF Enforcing
  <2> QED BY <1>1, <1>2, <2>1, QuotaQuiet
<1>3. disk' = disk => Files' = Files
  BY DEF Files
<1>4. CASE Begin(l)
  <2>1. asks[l] # {} /\ disk' = disk /\ "exists" \in Steps
    BY <1>4 DEF Begin, Steps
  <2> QED BY <1>2, <1>3, <1>4, <2>1 DEF Begin
<1>5. CASE Exists(l)
  <2>1. PICK step \in {"fetch", "read"} : pc' = [pc EXCEPT ![l] = step]
    BY <1>5 DEF Exists, GoesTo
  <2>2. step \in Steps /\ disk' = disk /\ asks' = asks
    BY <1>5, <2>1 DEF Exists, GoesTo, Quiet, Steps
  <2> QED BY <1>2, <1>3, <1>5, <2>1, <2>2 DEF Exists, LocalsKept
<1>6. CASE Read(l)
  <2>1. PICK step \in {"idle", "expire", "fetch"} : pc' = [pc EXCEPT ![l] = step]
    BY <1>6 DEF Read, GoesTo, End
  <2>2. step \in Steps /\ disk' = disk /\ asks' = asks
    BY <1>6, <2>1 DEF Read, GoesTo, End, Steps
  <2> QED BY <1>2, <1>3, <1>6, <2>1, <2>2 DEF Read, LocalsKept
<1>7. CASE Fetch(l)
  <2>1. PICK step \in {"idle", "open"} : pc' = [pc EXCEPT ![l] = step]
    BY <1>7 DEF Fetch, GoesTo, End
  <2>2. step \in Steps /\ disk' = disk /\ asks' = asks
    BY <1>7, <2>1 DEF Fetch, GoesTo, End, Quiet, Steps, WriteSteps
  <2> QED BY <1>2, <1>3, <1>7, <2>1, <2>2 DEF Fetch, LocalsKept
<1>8. CASE Expire(l)
  <2>1. dom[l] \in Domains /\ pc' = [pc EXCEPT ![l] = "fetch"] /\ "fetch" \in Steps /\ asks' = asks
    BY <1>8 DEF Expire, GoesTo, Steps, WhoisInv, WShaped
  <2>2. Files' \subseteq Files
    BY <1>8, <2>1, FilesChange DEF Expire
  <2> QED BY <1>2, <1>8, <2>1, <2>2 DEF Expire, LocalsKept
<1> QED BY <1>4, <1>5, <1>6, <1>7, <1>8

\* write_atomic: the entry is there, and its lookup has yet to count it.
LEMMA QuotaWriteSteps ==
    ASSUME WhoisConstants, WhoisInv, QuotaInv, NEW l \in Lookups,
           OpenFile(l) \/ WriteFile(l) \/ RenameFile(l)
    PROVE  QuotaInv'
<1>1. /\ count \in [Lookups -> Nat] /\ count = [m \in Lookups |-> count[m]] /\ dom[l] \in Domains
      /\ pc[l] \in WriteSteps
  BY DEF QuotaInv, QuotaTyped, WhoisInv, WShaped, OpenFile, WriteFile, RenameFile, WriteSteps
<1>2. UNCHANGED <<asks, count, doomed, saves, skipped>>
  BY DEF OpenFile, WriteFile, RenameFile, LocalsKept, GoesTo, End
<1>3. ~Enforcing(l) /\ pc[l] \notin {"idle", "add", "list_dir", "store"}
  BY <1>1 DEF Enforcing, WriteSteps, LateSteps
<1>4. ASSUME NEW step \in {"idle", "write", "rename", "removed"}, pc' = [pc EXCEPT ![l] = step],
             Files' \subseteq Files
      PROVE  QuotaInv'
  <2>1. step \in Steps /\ step \notin {"add", "list_dir", "store"}
    BY <1>4 DEF Steps, WriteSteps
  <2> QED BY <1>1, <1>2, <1>3, <1>4, <2>1, QuotaQuiet
<1>5. CASE OpenFile(l)
  <2>1. PICK step \in {"idle", "write"} : pc' = [pc EXCEPT ![l] = step]
    BY <1>5 DEF OpenFile, GoesTo, End
  <2>2. Files' \subseteq Files
    BY <1>1, <1>5, FilesChange DEF OpenFile
  <2> QED BY <1>4, <2>1, <2>2
<1>6. CASE WriteFile(l)
  <2>1. pc' = [pc EXCEPT ![l] = "rename"]
    BY <1>6 DEF WriteFile, GoesTo
  <2>2. Files' \subseteq Files
    BY <1>1, <1>6, FilesChange DEF WriteFile
  <2> QED BY <1>4, <2>1, <2>2
<1>7. CASE RenameFile(l) /\ ~Renames(disk, dom[l])
  <2>1. PICK step \in {"idle", "removed"} : pc' = [pc EXCEPT ![l] = step]
    BY <1>7 DEF RenameFile, GoesTo, End
  <2>2. Files' \subseteq Files
    BY <1>1, <1>7, FilesChange DEF RenameFile
  <2> QED BY <1>4, <2>1, <2>2
<1>8. CASE RenameFile(l) /\ Renames(disk, dom[l])
  <2>1. pc' = [pc EXCEPT ![l] = "add"] /\ disk' = Rename(disk, dom[l]) /\ "add" \in Steps
    BY <1>8 DEF RenameFile, GoesTo, Steps, Counting
  <2>2. Files' \subseteq Files \cup {dom[l]}
    BY <1>1, <2>1, FilesChange
  <2>3. QuotaTyped' /\ pc'[l] = "add" /\ \A m \in Lookups \ {l} : pc'[m] = pc[m]
    BY <1>1, <1>2, <1>3, <2>1, QuotaTypes DEF QuotaInv, QuotaTyped
  <2>4. Adding' = Adding \cup {l} /\ Firsts' = Firsts /\ l \notin Adding \cup Firsts
    BY <1>3, <2>3 DEF Adding, Firsts
  <2>5. \A m \in Lookups \ {l} : Enforcing(m) => Enforcing(m)' /\ pc'[m] = pc[m]
    BY <1>2, <2>3 DEF Enforcing, ShouldEnforce
  <2>6. \A m \in Firsts : pc'[m] = pc[m] /\ count'[m] = count[m]
    BY <1>2, <1>3, <2>3 DEF Firsts
  <2> QED BY <1>1, <1>2, <1>3, <2>2, <2>3, <2>4, <2>5, <2>6, QuotaSaved
<1> QED BY <1>5, <1>6, <1>7, <1>8

\* fetch_add.
LEMMA QuotaAddStep ==
    ASSUME WhoisConstants, WhoisInv, QuotaInv, NEW l \in Lookups, AddCount(l) PROVE QuotaInv'
<1>1. /\ count \in [Lookups -> Nat] /\ saves \in Nat /\ skipped \in Nat /\ pc[l] = "add"
      /\ doomed' = doomed /\ asks' = asks /\ saves' = saves + 1
      /\ count' = [count EXCEPT ![l] = saves + 1] /\ Files' = Files
  BY DEF QuotaInv, QuotaTyped, AddCount, GoesTo, Quiet, Files
<1>2. PICK step \in {"list_dir", "judge"} :
         /\ pc' = [pc EXCEPT ![l] = step]
         /\ step = "list_dir" <=> saves = 0
  BY DEF AddCount, GoesTo
<1>3. saves' \in Nat /\ skipped' \in Nat /\ step \in Steps
  BY <1>1, <1>2 DEF AddCount, Steps, Counting
<1>4. /\ count' = [m \in Lookups |-> count'[m]] /\ count'[l] = saves + 1
      /\ \A m \in Lookups \ {l} : count'[m] = count[m]
  BY <1>1
<1>5. QuotaTyped' /\ pc'[l] = step /\ \A m \in Lookups \ {l} : pc'[m] = pc[m]
  <2>1. count'[l] \in Nat
    BY <1>1, <1>4
  <2> QED BY <1>1, <1>2, <1>3, <1>4, <2>1, QuotaTypes DEF QuotaInv
<1>6. l \in Adding /\ l \notin Firsts /\ Adding' = Adding \ {l}
  BY <1>1, <1>2, <1>5 DEF Adding, Firsts
<1>7. \A m \in Firsts : pc'[m] = pc[m] /\ count'[m] = count[m]
  BY <1>4, <1>5, <1>6 DEF Firsts
<1>8. CASE saves = 0
  <2>1. Firsts = {}
    BY <1>8 DEF QuotaInv, OneFirst
  <2>2. pc'[l] = "list_dir" /\ Firsts' = {l}
    BY <1>2, <1>5, <1>8, <2>1 DEF Firsts
  <2>3. skipped' = skipped /\ saves' = 1
    BY <1>1, <1>8, <2>1 DEF AddCount, Firsts
  <2> QED BY <1>1, <1>5, <1>6, <1>8, <2>2, <2>3, QuotaFirst
<1>9. CASE saves > 0
  <2>1. pc'[l] = "judge" /\ Firsts' = Firsts
    BY <1>2, <1>5, <1>6, <1>9 DEF Firsts
  <2>2. CASE Firsts # {}
    <3>1. skipped' = skipped + 1
      BY <2>2 DEF AddCount, Firsts
    <3> QED BY <1>1, <1>5, <1>6, <1>7, <2>1, <2>2, <3>1, QuotaLost
  <2>3. CASE Firsts = {}
    <3>1. skipped' = skipped
      BY <2>3 DEF AddCount, Firsts
    <3> QED BY <1>1, <1>4, <1>5, <1>6, <1>9, <2>1, <2>3, <3>1, QuotaCounts
  <2> QED BY <2>2, <2>3
<1> QED BY <1>1, <1>8, <1>9

\* The first save counts the directory, and stores the count.
LEMMA QuotaListDirStep ==
    ASSUME WhoisConstants, WhoisInv, QuotaInv, NEW l \in Lookups, ListDir(l) PROVE QuotaInv'
<1> DEFINE staged == {d \in Domains : disk.temp[d] # Absent}
<1> DEFINE existing == Cardinality(Files) + Cardinality(staged)
<1>1. /\ count \in [Lookups -> Nat] /\ skipped \in Nat /\ saves \in Nat /\ pc[l] = "list_dir"
      /\ asks' = asks /\ saves' = saves /\ Files' = Files
      /\ skipped' \in {skipped, skipped + 1}
  BY DEF QuotaInv, QuotaTyped, ListDir, GoesTo, Quiet, Files
<1>2. /\ staged \in SUBSET Domains /\ Cardinality(staged) \in Nat /\ Cardinality(Files) \in Nat
      /\ existing \in Nat
  BY CountsAre, StateCounts
<1>3. /\ existing > 1 => count' = [count EXCEPT ![l] = existing] /\ pc' = [pc EXCEPT ![l] = "store"]
      /\ ~(existing > 1) => count' = count /\ pc' = [pc EXCEPT ![l] = "judge"]
      /\ skipped' # skipped + 1 => /\ skipped' = skipped /\ staged = {}
                                   /\ \A m \in Lookups \ {l} : pc[m] \notin WriteSteps \cup Counting
  BY DEF ListDir, GoesTo
<1> HIDE DEF existing
<1>4. skipped' = skipped + 1 \/ (skipped' = skipped /\ staged = {} /\ Adding = {})
  BY <1>1, <1>3 DEF Adding, Counting
<1>5. l \in Firsts /\ Firsts = {l} /\ skipped' \in Nat
  BY <1>1 DEF QuotaInv, OneFirst, Firsts
<1>6. CASE existing > 1
  <2>1. /\ count' = [m \in Lookups |-> count'[m]] /\ count'[l] = existing
        /\ \A m \in Lookups \ {l} : count'[m] = count[m]
    BY <1>1, <1>3, <1>6
  <2>2. "store" \in Steps
    BY DEF Steps, Counting
  <2>3. QuotaTyped' /\ pc'[l] = "store" /\ \A m \in Lookups \ {l} : pc'[m] = pc[m]
    BY <1>1, <1>2, <1>3, <1>5, <1>6, <2>1, <2>2, QuotaTypes DEF QuotaInv
  <2>4. Firsts' = Firsts /\ Adding' = Adding
    BY <1>1, <2>3 DEF Firsts, Adding
  <2>5. count'[l] = Cardinality(Files) + Cardinality(staged) /\ count'[l] > 1
    BY <1>6, <2>1 DEF existing
  <2> HIDE DEF staged
  <2> QED BY <1>1, <1>2, <1>4, <2>3, <2>4, <2>5, QuotaSeeds
<1>7. CASE ~(existing > 1)
  <2>1. count' = [m \in Lookups |-> count'[m]] /\ count'[l] \in Nat /\ count' = count
    BY <1>1, <1>3, <1>7
  <2>2. "judge" \in Steps
    BY DEF Steps, Counting
  <2>3. QuotaTyped' /\ pc'[l] = "judge" /\ \A m \in Lookups \ {l} : pc'[m] = pc[m]
    BY <1>1, <1>2, <1>3, <1>5, <1>7, <2>1, <2>2, QuotaTypes DEF QuotaInv
  <2>4. Firsts' = {} /\ Adding' = Adding
    BY <1>1, <1>5, <2>3 DEF Firsts, Adding
  <2>5. Cardinality(Files) <= 1
    BY <1>2, <1>7 DEF existing
  <2> QED BY <1>1, <1>5, <2>3, <2>4, <2>5, QuotaAlone
<1> QED BY <1>6, <1>7

\* The count is stored, and saves counted meanwhile are lost.
LEMMA QuotaStoreStep ==
    ASSUME WhoisConstants, WhoisInv, QuotaInv, NEW l \in Lookups, StoreCount(l) PROVE QuotaInv'
<1>1. /\ count \in [Lookups -> Nat] /\ skipped \in Nat /\ pc[l] = "store"
      /\ asks' = asks /\ saves' = count[l] /\ Files' = Files /\ count' = count
      /\ skipped' = skipped /\ pc' = [pc EXCEPT ![l] = "judge"] /\ "judge" \in Steps
  BY DEF QuotaInv, QuotaTyped, StoreCount, GoesTo, Quiet, Files, Steps, Counting
<1>2. count' = [m \in Lookups |-> count'[m]] /\ count'[l] \in Nat /\ saves' \in Nat
  BY <1>1
<1>3. QuotaTyped' /\ pc'[l] = "judge" /\ \A m \in Lookups \ {l} : pc'[m] = pc[m]
  BY <1>1, <1>2, QuotaTypes DEF QuotaInv
<1>4. Firsts = {l}
  BY <1>1 DEF QuotaInv, OneFirst, Firsts
<1>5. Firsts' = {} /\ Adding' = Adding
  BY <1>1, <1>3, <1>4 DEF Firsts, Adding
<1> QED BY <1>1, <1>3, <1>5, QuotaStores

\* should_enforce_limit decides; what is due is listed next.
LEMMA QuotaJudgeStep ==
    ASSUME WhoisConstants, WhoisInv, QuotaInv, NEW l \in Lookups, Judge(l) PROVE QuotaInv'
<1>1. /\ count \in [Lookups -> Nat] /\ pc[l] = "judge" /\ doomed' = doomed
      /\ asks' = asks /\ saves' = saves /\ Files' = Files /\ skipped' = skipped
      /\ count' = [count EXCEPT ![l] = 0]
  BY DEF QuotaInv, QuotaTyped, Judge, GoesTo, End, Quiet, Files
<1>2. /\ count' = [m \in Lookups |-> count'[m]] /\ count'[l] \in Nat
      /\ \A m \in Lookups \ {l} : count'[m] = count[m]
  BY <1>1
<1>3. CASE ShouldEnforce(count[l])
  <2>1. pc' = [pc EXCEPT ![l] = "list"] /\ "list" \in Steps
    BY <1>3 DEF Judge, GoesTo, Steps
  <2>2. Enforcing(l)'
    BY <2>1 DEF Enforcing, QuotaInv, QuotaTyped
  <2> QED BY <1>1, <1>2, <2>1, <2>2, QuotaQuiet
<1>4. CASE ~ShouldEnforce(count[l])
  <2>1. pc' = [pc EXCEPT ![l] = "idle"] /\ "idle" \in Steps
    BY <1>4 DEF Judge, End, Steps
  <2>2. ~Enforcing(l)
    BY <1>1, <1>4 DEF Enforcing
  <2> QED BY <1>1, <1>2, <2>1, <2>2, QuotaQuiet
<1> QED BY <1>3, <1>4

\* Steps of an enforcement that leave the others where they are.
LEMMA QuotaOthers ==
    ASSUME QuotaInv, NEW l \in Lookups, NEW step \in Steps, pc' = [pc EXCEPT ![l] = step],
           asks' = asks, UNCHANGED <<count, saves>>, skipped' \in Nat,
           pc[l] \in {"list", "evict"}, step \notin {"add", "list_dir", "store"},
           \A m \in Lookups \ {l} : doomed'[m] = doomed[m]
    PROVE  OthersStay(l) /\ QuotaTyped' /\ pc'[l] = step
<1>1. count' = [m \in Lookups |-> count'[m]] /\ count'[l] \in Nat /\ saves' \in Nat
  BY DEF QuotaInv, QuotaTyped
<1>2. QuotaTyped' /\ pc'[l] = step /\ \A m \in Lookups \ {l} : pc'[m] = pc[m]
  BY <1>1, QuotaTypes DEF QuotaInv
<1>3. Adding' = Adding /\ Firsts' = Firsts /\ l \notin Adding \cup Firsts
  BY <1>2 DEF Adding, Firsts
<1> QED BY <1>2, <1>3 DEF OthersStay

\* enforce_cache_limit lists the directory and picks the oldest.
LEMMA QuotaListStep ==
    ASSUME WhoisConstants, WhoisInv, QuotaInv, NEW l \in Lookups, List(l) PROVE QuotaInv'
<1>1. /\ skipped \in Nat /\ pc[l] = "list" /\ Files' = Files /\ asks' = asks /\ UNCHANGED <<count, saves>>
      /\ "idle" \in Steps /\ "evict" \in Steps
      /\ doomed = [m \in Lookups |-> doomed[m]]
  BY DEF QuotaInv, QuotaTyped, List, GoesTo, End, Files, Steps, WhoisInv, WShaped
<1>2. CASE Cardinality(Files) <= MAX_ENTRIES /\ End(l, "answer") /\ UNCHANGED <<doomed, skipped>>
  <2>1. OthersStay(l) /\ QuotaTyped'
    BY <1>1, <1>2, QuotaOthers DEF End
  <2> QED BY <1>1, <1>2, <2>1, QuotaListed
<1>3. CASE /\ Cardinality(Files) > MAX_ENTRIES
           /\ \E ds \in Oldest(Cardinality(Files) - MAX_ENTRIES) : doomed' = [doomed EXCEPT ![l] = ds]
           /\ GoesTo(l, "evict") /\ UNCHANGED skipped
  <2>1. PICK ds \in SUBSET Files : /\ Cardinality(ds) = Cardinality(Files) - MAX_ENTRIES
                                   /\ doomed' = [doomed EXCEPT ![l] = ds]
    BY <1>3 DEF Oldest
  <2>2. doomed'[l] = ds /\ \A m \in Lookups \ {l} : doomed'[m] = doomed[m]
    BY <1>1, <2>1
  <2>3. OthersStay(l) /\ QuotaTyped' /\ pc'[l] = "evict"
    BY <1>1, <1>3, <2>2, QuotaOthers DEF GoesTo
  <2>4. Enforcing(l)'
    BY <2>3 DEF Enforcing
  <2>5. Cardinality(Files \ ds) <= MAX_ENTRIES
    <3>1. IsFiniteSet(Files) /\ IsFiniteSet(ds) /\ Cardinality(Files) \in Nat /\ MAX_ENTRIES \in Nat
      BY <2>1, StateCounts, CountsAre
    <3>2. Cardinality(Files \ ds) = Cardinality(Files) - Cardinality(Files \cap ds)
      BY <3>1, FS_Difference
    <3>3. Files \cap ds = ds
      BY <2>1
    <3>4. Cardinality(ds) = Cardinality(Files) - MAX_ENTRIES
      BY <2>1
    <3>5. Cardinality(Files \ ds) = Cardinality(Files) - (Cardinality(Files) - MAX_ENTRIES)
      BY <3>2, <3>3, <3>4
    <3> QED BY <3>1, <3>5
  <2>6. Cardinality((Files \ doomed[l])') <= MAX_ENTRIES
    BY <1>1, <2>2, <2>5
  <2> QED BY <1>1, <1>3, <2>3, <2>4, <2>6, QuotaDooms
<1>4. CASE End(l, "error") /\ skipped' = skipped + 1 /\ UNCHANGED doomed
  <2>1. OthersStay(l) /\ QuotaTyped'
    <3>1. skipped' \in Nat /\ pc' = [pc EXCEPT ![l] = "idle"] /\ UNCHANGED doomed
      BY <1>1, <1>4 DEF End
    <3> QED BY <1>1, <3>1, QuotaOthers
  <2> QED BY <1>1, <1>4, <2>1, QuotaSkips
<1> QED BY <1>2, <1>3, <1>4 DEF List

\* ... and deletes them one by one.
LEMMA QuotaEvictStep ==
    ASSUME WhoisConstants, WhoisInv, QuotaInv, NEW l \in Lookups, Evict(l) PROVE QuotaInv'
<1>1. /\ count \in [Lookups -> Nat] /\ skipped \in Nat /\ pc[l] = "evict" /\ asks' = asks
      /\ UNCHANGED <<count, saves>>
      /\ "idle" \in Steps /\ "evict" \in Steps
      /\ doomed = [m \in Lookups |-> doomed[m]] /\ doomed[l] \subseteq Domains
  BY DEF QuotaInv, QuotaTyped, Evict, GoesTo, End, Steps, WhoisInv, WShaped
<1>2. PICK d \in doomed[l] :
         /\ doomed' = [doomed EXCEPT ![l] = doomed[l] \ {d}]
         /\ \/ disk' = Remove(disk, d) /\ skipped' = skipped
            \/ disk' = disk /\ skipped' = skipped + 1
         /\ IF doomed[l] = {d} THEN End(l, "answer") ELSE GoesTo(l, "evict")
  BY DEF Evict
<1>3. doomed'[l] = doomed[l] \ {d} /\ \A m \in Lookups \ {l} : doomed'[m] = doomed[m]
  BY <1>1, <1>2
<1>4. \/ Files' = Files \ {d} /\ skipped' = skipped
      \/ Files' = Files /\ skipped' = skipped + 1
  BY <1>1, <1>2, FilesChange
<1>5. skipped' \in Nat /\ d \in Domains
  BY <1>1, <1>2
<1>6. CASE doomed[l] = {d}
  <2>1. OthersStay(l) /\ QuotaTyped'
    <3>1. pc' = [pc EXCEPT ![l] = "idle"]
      BY <1>2, <1>6 DEF End
    <3> QED BY <1>1, <1>3, <1>5, <3>1, QuotaOthers
  <2>2. CASE Files' = Files \ {d} /\ skipped' = skipped
    BY <1>1, <1>6, <2>1, <2>2, QuotaEvicted
  <2>3. CASE Files' = Files /\ skipped' = skipped + 1
    BY <2>1, <2>3, QuotaSkips
  <2> QED BY <1>4, <2>2, <2>3
<1>7. CASE doomed[l] # {d}
  <2>1. pc' = [pc EXCEPT ![l] = "evict"]
    BY <1>2, <1>7 DEF GoesTo
  <2>2. Enforcing(l)'
    BY <2>1 DEF Enforcing, QuotaInv, QuotaTyped
  <2>3. CASE Files' = Files \ {d} /\ skipped' = skipped
    <3>1. (Files \ doomed[l])' \subseteq Files \ doomed[l] /\ Files' \subseteq Files
      BY <1>3, <2>3
    <3>2. count' = [m \in Lookups |-> count'[m]] /\ count'[l] \in Nat
      BY <1>1
    <3> QED BY <1>1, <1>3, <2>1, <2>2, <2>3, <3>1, <3>2, QuotaQuiet
  <2>4. CASE Files' = Files /\ skipped' = skipped + 1
    <3>1. OthersStay(l) /\ QuotaTyped' /\ pc'[l] = "evict"
      BY <1>1, <1>3, <1>5, <2>1, QuotaOthers
    <3>2. /\ Cardinality(Files') <= Cardinality(Files) + 1
          /\ Adding' = Adding /\ Firsts' = Firsts /\ saves' = saves
      BY <2>4, <3>1, StateCounts DEF OthersStay
    <3>3. ASSUME NEW m \in Lookups, Enforcing(m)
          PROVE  /\ Enforcing(m)'
                 /\ pc'[m] = "evict" => /\ pc[m] = "evict"
                                        /\ Cardinality((Files \ doomed[m])') <= Cardinality(Files \ doomed[m]) + 1
      <4>1. Enforcing(m)' /\ pc'[m] = pc[m]
        BY <1>1, <2>2, <3>1, <3>3, OthersEnforce DEF OthersStay
      <4>2. (Files \ doomed[m])' \subseteq (Files \ doomed[m]) \cup {d}
        BY <1>3, <2>4
      <4>3. Files \ doomed[m] \in SUBSET Domains /\ (Files \ doomed[m])' \in SUBSET Domains
        BY StateCounts
      <4>4. Cardinality((Files \ doomed[m])') <= Cardinality(Files \ doomed[m]) + 1
        BY <1>5, <4>2, <4>3, OneMore
      <4> QED BY <4>1, <4>4
    <3> QED BY <2>4, <3>1, <3>2, <3>3, OthersEnforce, QuotaOneMore
  <2> QED BY <1>4, <2>3, <2>4
<1> QED BY <1>6, <1>7

\* A lookup is dropped: an enforcement it owes is cut short.
LEMMA QuotaDropStep ==
    ASSUME WhoisConstants, WhoisInv, QuotaInv, NEW l \in Lookups, Drop(l) PROVE QuotaInv'
<1>1. /\ count \in [Lookups -> Nat] /\ skipped \in Nat
      /\ pc[l] \notin {"idle"} \cup Counting /\ asks' = asks /\ UNCHANGED <<count, saves>>
      /\ doomed = [m \in Lookups |-> doomed[m]] /\ doomed' = [doomed EXCEPT ![l] = {}]
  BY DEF QuotaInv, QuotaTyped, Drop, End, WhoisInv, WShaped
<1>2. \A m \in Lookups \ {l} : doomed'[m] = doomed[m]
  BY <1>1
<1>3. Files' = Files
  BY DEF Drop, Quiet, Files
<1>4. PICK step \in {"idle"} \cup LateSteps : pc' = [pc EXCEPT ![l] = step]
  BY DEF Drop, End, LateSteps
<1>5. step \in Steps /\ step \notin {"add", "list_dir", "store", "evict"}
  BY <1>4 DEF Steps, WriteSteps, LateSteps
<1>6. CASE pc[l] \in {"list", "evict"}
  <2>1. skipped' = skipped + 1 /\ skipped' \in Nat
    BY <1>1, <1>6 DEF Drop
  <2>2. OthersStay(l) /\ QuotaTyped'
    BY <1>1, <1>2, <1>4, <1>5, <1>6, <2>1, QuotaOthers
  <2> QED BY <1>3, <2>1, <2>2, QuotaSkips
<1>7. CASE pc[l] \notin {"list", "evict"}
  <2>1. skipped' = skipped
    BY <1>7 DEF Drop
  <2>2. ~Enforcing(l) /\ pc[l] \notin {"idle", "add", "list_dir", "store"}
    BY <1>1, <1>7 DEF Enforcing, Counting
  <2>3. count' = [m \in Lookups |-> count'[m]] /\ count'[l] \in Nat
    BY <1>1
  <2> QED BY <1>1, <1>2, <1>3, <1>4, <1>5, <2>1, <2>2, <2>3, QuotaQuiet
<1> QED BY <1>6, <1>7

\* The blocking pool completes a write or a rename of a lookup that has gone.
LEMMA QuotaLateStep ==
    ASSUME WhoisConstants, WhoisInv, QuotaInv, NEW l \in Lookups, Late(l) PROVE QuotaInv'
<1>1. /\ count \in [Lookups -> Nat] /\ skipped \in Nat /\ saves \in Nat /\ dom[l] \in Domains
      /\ pc[l] \in LateSteps /\ asks' = asks /\ UNCHANGED <<count, doomed, saves>>
      /\ pc' = [pc EXCEPT ![l] = "idle"] /\ "idle" \in Steps
  BY DEF QuotaInv, QuotaTyped, Late, LateSteps, End, Steps, WhoisInv, WShaped
<1>2. ~Enforcing(l) /\ pc[l] \notin {"idle", "add", "list_dir", "store"}
  BY <1>1 DEF Enforcing, LateSteps
<1>3. count' = [m \in Lookups |-> count'[m]] /\ count'[l] \in Nat
  BY <1>1
<1>4. CASE Files' = Files /\ skipped' = skipped
  BY <1>1, <1>2, <1>3, <1>4, QuotaQuiet
<1>5. CASE disk' = Rename(disk, dom[l]) /\ skipped' = skipped + 1
  <2>1. Files' \subseteq Files \cup {dom[l]} /\ skipped' \in Nat
    BY <1>1, <1>5, FilesChange
  <2>2. QuotaTyped' /\ \A m \in Lookups \ {l} : pc'[m] = pc[m]
    BY <1>1, <1>2, <1>3, <2>1, QuotaTypes DEF QuotaInv
  <2>3. pc'[l] = "idle"
    BY <1>1 DEF QuotaInv, QuotaTyped
  <2>4. Adding' = Adding /\ Firsts' = Firsts /\ l \notin Firsts
    BY <1>2, <2>2, <2>3 DEF Adding, Firsts
  <2>5. \A m \in Firsts : pc'[m] = pc[m] /\ count'[m] = count[m]
    BY <1>1, <2>2, <2>4 DEF Firsts
  <2>6. Cardinality(Files') <= Cardinality(Files) + 1
    BY <1>1, <2>1, StateCounts, OneMore
  <2>7. ASSUME NEW m \in Lookups, Enforcing(m)
        PROVE  /\ Enforcing(m)'
               /\ pc'[m] = "evict" => /\ pc[m] = "evict"
                                      /\ Cardinality((Files \ doomed[m])') <= Cardinality(Files \ doomed[m]) + 1
    <3>1. m # l /\ pc'[m] = pc[m]
      BY <1>2, <2>2, <2>7
    <3>2. Enforcing(m)'
      BY <1>1, <2>7, <3>1 DEF Enforcing, ShouldEnforce
    <3>3. /\ Files \ doomed[m] \in SUBSET Domains /\ (Files \ doomed[m])' \in SUBSET Domains
          /\ (Files \ doomed[m])' \subseteq (Files \ doomed[m]) \cup {dom[l]}
      BY <1>1, <2>1, StateCounts
    <3>4. Cardinality((Files \ doomed[m])') <= Cardinality(Files \ doomed[m]) + 1
      BY <1>1, <3>3, OneMore
    <3> QED BY <3>1, <3>2, <3>4
  <2> QED BY <1>1, <1>5, <2>2, <2>4, <2>5, <2>6, <2>7, QuotaOneMore
<1>6. \/ Files' = Files /\ skipped' = skipped
      \/ disk' = Rename(disk, dom[l]) /\ skipped' = skipped + 1
  BY <1>1, FilesChange DEF Late
<1> QED BY <1>4, <1>5, <1>6

\* The end of the process, and the clock.
LEMMA QuotaEnvironmentStep ==
    ASSUME WhoisConstants, QuotaInv, Restart \/ Tick \/ UNCHANGED vars PROVE QuotaInv'
<1>1. Files' = Files
  BY DEF Restart, Tick, vars, Files
<1>2. CASE Restart
  <2>1. Cardinality({l \in Lookups : pc[l] \in Counting \cup {"list", "evict"}}) \in Nat
    BY CountsAre
  <2>2. skipped' \in Nat
    BY <1>2, <2>1 DEF Restart, QuotaInv, QuotaTyped
  <2>3. QuotaTyped'
    BY <1>2, <2>2 DEF Restart, QuotaTyped, Steps
  <2> QED BY <1>1, <1>2, <2>3, QuotaRestarts
<1>3. CASE Tick \/ UNCHANGED vars
  <2>1. UNCHANGED <<asks, pc, count, doomed, saves, skipped>>
    BY <1>3 DEF Tick, vars
  <2>2. QuotaTyped' /\ Adding' = Adding /\ Firsts' = Firsts
    BY <2>1 DEF QuotaInv, QuotaTyped, Adding, Firsts
  <2>3. \A l \in Lookups : Enforcing(l) => Enforcing(l)'
    BY <2>1 DEF Enforcing, ShouldEnforce
  <2> QED BY <1>1, <2>1, <2>2, <2>3, QuotaCalm
<1> QED BY <1>2, <1>3

\* The directory an earlier process may have left.
LEMMA QuotaInitKept == ASSUME WhoisConstants, Init PROVE QuotaInv
<1>1. PICK s \in Scenes : disk = [file |-> s.files, temp |-> [d \in Domains |-> Absent]]
  BY DEF Init
<1>2. Cardinality(Files) <= MAX_ENTRIES + ENFORCE_INTERVAL
  BY <1>1 DEF WhoisConstants, Files
<1>3. /\ pc = [l \in Lookups |-> "idle"] /\ count = [l \in Lookups |-> 0] /\ saves = 0 /\ skipped = 0
  BY DEF Init
<1>4. Adding = {} /\ Firsts = {} /\ Adding \cup Firsts = {} /\ Cardinality({}) = 0
  BY <1>3, FS_EmptySet DEF Adding, Firsts
<1>5. Room(0, 0) \in Nat /\ Room(0, 0) >= MAX_ENTRIES + ENFORCE_INTERVAL + 0
  BY RoomFacts
<1>6. FirstRoom
  <2>1. MAX_ENTRIES \in Nat /\ ENFORCE_INTERVAL \in Nat
    BY CountsAre
  <2>2. Cardinality(Files) <= Room(0, 0)
    BY <1>2, <1>5, <2>1, StateCounts
  <2> QED BY <1>3, <1>4, <2>2 DEF FirstRoom
<1>7. QuotaTyped
  BY <1>3 DEF QuotaTyped, Steps
<1>8. OneFirst /\ Planned /\ \A l \in Lookups : StoreRoom(l)
  BY <1>3, <1>4 DEF OneFirst, Planned, StoreRoom
<1> QED BY <1>6, <1>7, <1>8 DEF QuotaInv

\* The cache keeps to its quota, fails no lookup of its own and tears no file, for every
\* number of concurrent lookups, of domains, of dropped lookups and restarts, and for every
\* MAX_ENTRIES and enforcement interval: the entries exceed the quota by the saves between
\* two enforcements at most, with an interval more for each enforcement cut short, each first
\* count that is off and each save it overwrites, each entry renamed for a lookup that was
\* dropped and each one that could not be removed, and an entry for each lookup in flight.
THEOREM WhoisCacheIsSound == ASSUME WhoisConstants PROVE Spec => []WhoisCacheSound
<1>1. Init => WhoisInv /\ QuotaInv
  BY WhoisInitKept, QuotaInitKept
<1>2. ASSUME WhoisInv, QuotaInv, [Next]_vars PROVE WhoisInv' /\ QuotaInv'
  <2>1. WhoisInv'
    BY <1>2, WLookupStep, WEnvironmentStep DEF Next
  <2>2. ASSUME NEW l \in Lookups, Begin(l) \/ Step(l) \/ Drop(l) PROVE QuotaInv'
    BY <1>2, <2>2, QuotaLookupSteps, QuotaWriteSteps, QuotaAddStep, QuotaListDirStep, QuotaStoreStep,
       QuotaJudgeStep, QuotaListStep, QuotaEvictStep, QuotaDropStep, QuotaLateStep DEF Step
  <2>3. QuotaInv'
    BY <1>2, <2>2, QuotaEnvironmentStep DEF Next
  <2> QED BY <2>1, <2>3
<1>3. WhoisInv /\ QuotaInv => WhoisCacheSound
  BY WhoisFilesFollow, QuotaFollows DEF WhoisCacheSound
<1> QED BY <1>1, <1>2, <1>3, PTL DEF Spec
=============================================================================
