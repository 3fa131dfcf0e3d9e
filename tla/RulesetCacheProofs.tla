------------------------- MODULE RulesetCacheProofs -------------------------
(***************************************************************************)
(* Proofs about RulesetCache: for every number of calls and processes,     *)
(* every set of sources and options, every cache content that can arise    *)
(* and every number of failures and process ends.                          *)
(***************************************************************************)
EXTENDS RulesetCache, TLAPS

(* The sources a call with this key draws on, and the label it stamps.     *)
Origins(k) ==
    IF k THEN {ExplicitSource}
    ELSE {DEFAULT_FINGERPRINTS_URLS[i] : i \in DOMAIN DEFAULT_FINGERPRINTS_URLS}
Label(k) == IF k THEN "explicit" ELSE "default"

(* Rules drawn from these sources, whatever they say of themselves.        *)
Drawn(rules, k) ==
    /\ rules \in Rules
    /\ rules.cats \subseteq Origins(k) /\ rules.metadata.version \subseteq Origins(k)

(* Rules that may be published and saved by such a call.                   *)
Fit(rules, k) ==
    /\ Drawn(rules, k) /\ rules.metadata.source = Label(k)
    /\ k \/ IsFull(rules)

(* What a file of the cache may hold when it parses.                       *)
Sound(p, content) ==
    Parses(content) =>
        /\ p[2] = "metadata" =>
             content \in Metadata /\ content.source = Label(p[1])
             /\ content.version \subseteq Origins(p[1])
        /\ p[2] = "technologies" =>
             content \in SUBSET Names /\ (~p[1] => Enough(content))
        /\ p[2] = "categories" => content \in SUBSET Origins(p[1])

Content0 == Metadata \cup (SUBSET Names) \cup (SUBSET Sources) \cup {Absent, Torn}
Disk == [file : [Paths -> Content0], temp : [Paths -> Content0]]

DiskInv ==
    /\ disk \in Disk
    /\ \A p \in Paths : Sound(p, disk.file[p]) /\ Sound(p, disk.temp[p])

Typed ==
    /\ home \in [Callers -> Procs] /\ opt \in [Callers -> Options]
    /\ pc \in [Callers -> Steps]
    /\ outcome \in [Callers -> {Pending, Failed} \cup Rules]
    /\ ruleset \in [Procs -> {None} \cup Rules]
    /\ holder \in [Procs -> {None} \cup Callers]
    /\ now \in Time

Saving == {"open", "write", "rename", "removed", "prune"}
Fetching == {"fetch", "describe"}
Loading == {"technologies", "categories"}

(* The local values of a call, by where it is.                             *)
LocOf(c) ==
    /\ loc[c] \in Locals
    /\ pc[c] \in {"start", "lock", "metadata", "done"} => loc[c] = NoLocals
    /\ pc[c] \in Loading =>
         Drawn(loc[c].rules, Key(c)) /\ loc[c].rules.metadata.source = Label(Key(c))
    /\ pc[c] \in Fetching => Drawn(loc[c].rules, Key(c)) /\ loc[c].src >= 1 /\ loc[c].file = 1
    /\ pc[c] = "describe" => loc[c].src <= Len(SourcesOf(c))
    /\ pc[c] \in Saving => Fit(loc[c].rules, Key(c)) /\ loc[c].file \in 1 .. 3
LocInv == loc \in [Callers -> Locals] /\ \A c \in Callers : LocOf(c)

(* RULESET_INIT protects the load: its holder is the only call of its      *)
(* process inside, there is no ruleset yet, and it has not returned.       *)
OnceInv ==
    /\ \A c \in Callers : pc[c] \in Locked => holder[home[c]] = c /\ ruleset[home[c]] = None
    /\ \A c \in Callers : pc[c] # "done" => outcome[c] = Pending
    /\ \A c \in Callers : outcome[c] \in {Pending, Failed} \/ outcome[c] = ruleset[home[c]]

-----------------------------------------------------------------------------

LEMMA OptionTyped ==
    ASSUME Typed, NEW c \in Callers
    PROVE  Key(c) \in BOOLEAN /\ opt[c].degraded \in BOOLEAN /\ home[c] \in Procs
  BY RulesetAssumption DEF Typed, Key

LEMMA SourcesTyped ==
    ASSUME Typed, NEW c \in Callers
    PROVE  /\ SourcesOf(c) \in Seq(Sources)
           /\ \A i \in 1 .. Len(SourcesOf(c)) : SourcesOf(c)[i] \in Origins(Key(c))
           /\ Origins(Key(c)) \subseteq Sources
<1>1. CASE opt[c].explicit
  BY <1>1, RulesetAssumption DEF SourcesOf, Origins, Key
<1>2. CASE ~opt[c].explicit
  <2>1. SourcesOf(c) = DEFAULT_FINGERPRINTS_URLS
    BY <1>2 DEF SourcesOf
  <2>2. DOMAIN DEFAULT_FINGERPRINTS_URLS = 1 .. Len(DEFAULT_FINGERPRINTS_URLS)
    BY RulesetAssumption
  <2>3. Origins(Key(c)) = {DEFAULT_FINGERPRINTS_URLS[i] : i \in DOMAIN DEFAULT_FINGERPRINTS_URLS}
    BY <1>2 DEF Origins, Key
  <2>4. QED
    BY <2>1, <2>2, <2>3, RulesetAssumption
<1>3. QED
  BY <1>1, <1>2

LEMMA OriginsTyped == \A k \in BOOLEAN : Origins(k) \subseteq Sources
  BY RulesetAssumption DEF Origins

LEMMA NoLocalsTyped ==
    /\ NoRules \in Rules /\ NoLocals \in Locals
    /\ NoLocals.src = 1 /\ NoLocals.file = 1 /\ \A k : Drawn(NoLocals.rules, k)
<1>1. 0 \in Time
  BY RulesetAssumption DEF Time
<1>2. NoRules \in Rules
  BY <1>1 DEF NoRules, Rules, Metadata
<1>3. NoLocals \in Locals
  BY <1>1, <1>2 DEF NoLocals, Locals
<1>4. NoLocals.rules = NoRules /\ NoLocals.src = 1 /\ NoLocals.file = 1
  BY DEF NoLocals
<1>5. NoRules.cats = {} /\ NoRules.metadata.version = {}
  BY DEF NoRules
<1>6. QED
  BY <1>2, <1>3, <1>4, <1>5 DEF Drawn

(* finish_ruleset adds technologies and nothing else.                      *)
LEMMA FinishEffect ==
    ASSUME NEW rules \in Rules
    PROVE  /\ Finish(rules) \in Rules
           /\ Finish(rules).cats = rules.cats /\ Finish(rules).metadata = rules.metadata
           /\ Finish(rules).names = rules.names \cup Overlay
<1> DEFINE more == rules.names \cup Overlay
<1>0. rules = [names |-> rules.names, cats |-> rules.cats, metadata |-> rules.metadata]
  BY DEF Rules
<1>1. Finish(rules) = [names |-> more, cats |-> rules.cats, metadata |-> rules.metadata]
  <2>1. Finish(rules) = [rules EXCEPT !["names"] = more]
    BY DEF Finish, apply_first_party_overlay
  <2> HIDE DEF more
  <2>2. QED
    BY <1>0, <2>1
<1>2. Overlay \subseteq Names
  BY DEF Names
<1>3. QED
  BY <1>1, <1>2 DEF Rules

LEMMA FinishDrawn ==
    ASSUME NEW rules, NEW k, Drawn(rules, k)
    PROVE  Drawn(Finish(rules), k) /\ Finish(rules).metadata = rules.metadata
  BY FinishEffect DEF Drawn

-----------------------------------------------------------------------------

(* What the operations on the disk do to the soundness of its files.       *)
LEMMA DiskKept ==
    ASSUME DiskInv, NEW p \in Paths, NEW content \in Content0, Sound(p, content),
           disk' \in {OpenTemp(disk, p), Rename(disk, p), Remove(disk, p)}
                     \cup WriteTemp(disk, p, content)
    PROVE  DiskInv'
<1> DEFINE Filed(x) == [file |-> [disk.file EXCEPT ![p] = x], temp |-> disk.temp]
           Temp(x) == [file |-> disk.file, temp |-> [disk.temp EXCEPT ![p] = x]]
<1>1. disk.file \in [Paths -> Content0] /\ disk.temp \in [Paths -> Content0]
      /\ disk = [file |-> disk.file, temp |-> disk.temp]
  BY DEF DiskInv, Disk
<1>2. Absent \in Content0 /\ Torn \in Content0 /\ Sound(p, Absent) /\ Sound(p, Torn)
  <2>1. ~Parses(Absent) /\ ~Parses(Torn)
    BY DEF Parses
  <2>2. Absent \in Content0 /\ Torn \in Content0
    BY DEF Content0
  <2>3. QED
    BY <2>1, <2>2 DEF Sound
<1>3. ASSUME NEW x \in Content0, Sound(p, x), disk' = Filed(x) \/ disk' = Temp(x)
      PROVE  DiskInv'
  <2>1. CASE disk' = Filed(x)
    BY <1>1, <1>3, <2>1 DEF DiskInv, Disk
  <2>2. CASE disk' = Temp(x)
    BY <1>1, <1>3, <2>2 DEF DiskInv, Disk
  <2>3. QED
    BY <1>3, <2>1, <2>2
<1>4. CASE disk' = OpenTemp(disk, p)
  <2>1. disk' = Temp(Torn)
    BY <1>1, <1>4 DEF OpenTemp
  <2>2. QED
    BY <1>2, <1>3, <2>1
<1>5. CASE disk' = Remove(disk, p)
  <2>1. disk' = Filed(Absent)
    BY <1>1, <1>5 DEF Remove
  <2>2. QED
    BY <1>2, <1>3, <2>1
<1>6. CASE disk' \in WriteTemp(disk, p, content)
  <2>1. disk' = Temp(content) \/ disk' = Temp(Torn) \/ disk' = Filed(content) \/ disk' = disk
    BY <1>1, <1>6 DEF WriteTemp
  <2>2. CASE disk' = disk
    BY <2>2 DEF DiskInv
  <2>3. QED
    BY <1>2, <1>3, <2>1, <2>2
<1>7. CASE disk' = Rename(disk, p)
  <2>1. disk' = [file |-> [disk.file EXCEPT ![p] = disk.temp[p]],
                 temp |-> [disk.temp EXCEPT ![p] = Absent]]
    BY <1>1, <1>7 DEF Rename
  <2>2. disk' \in Disk
    BY <1>1, <1>2, <2>1 DEF Disk
  <2>3. ASSUME NEW q \in Paths PROVE Sound(q, disk'.file[q]) /\ Sound(q, disk'.temp[q])
    BY <1>1, <1>2, <2>1 DEF DiskInv
  <2>4. QED
    BY <2>2, <2>3 DEF DiskInv
<1>8. QED
  BY <1>4, <1>5, <1>6, <1>7

-----------------------------------------------------------------------------

(* Where the published rules of a process come from: a call of it that     *)
(* meets the floor, or one that was allowed to run degraded.               *)
Earned(rules, d) ==
    \/ Fit(rules, Key(d))
    \/ /\ opt[d].degraded
       /\ \/ Drawn(rules, Key(d)) /\ rules.metadata.source = Label(Key(d))
          \/ /\ rules \in Rules /\ rules.metadata.source = "vendored"
             /\ rules.cats = {} /\ rules.metadata.version = {}
EarnedInv ==
    \A p \in Procs : ruleset[p] # None =>
        \E d \in Callers : home[d] = p /\ Earned(ruleset[p], d)

Inv == Typed /\ DiskInv /\ LocInv /\ OnceInv /\ EarnedInv

LEMMA EarnedTyped == ASSUME NEW rules, NEW d \in Callers, Earned(rules, d)
                     PROVE  rules \in Rules /\ rules # None
  BY NoneAssumption DEF Earned, Fit, Drawn

LEMMA InitInv == ASSUME Init PROVE Inv
<1>1. Typed
  BY RulesetAssumption DEF Init, Typed, Steps, Time
<1>2. DiskInv
  <2>1. disk \in Disk /\ \A p \in Paths : disk.file[p] = Absent /\ disk.temp[p] = Absent
    BY DEF Init, Disk, Content0
  <2>2. ~Parses(Absent)
    BY DEF Parses
  <2>3. QED
    BY <2>1, <2>2 DEF DiskInv, Sound
<1>3. LocInv
  <2>1. loc \in [Callers -> Locals] /\ \A c \in Callers : loc[c] = NoLocals /\ pc[c] = "start"
    BY NoLocalsTyped DEF Init
  <2>2. QED
    BY <2>1 DEF LocInv, LocOf, Loading, Fetching, Saving
<1>4. OnceInv
  BY DEF Init, OnceInv, Locked
<1>5. EarnedInv
  BY DEF Init, EarnedInv
<1>6. QED
  BY <1>1, <1>2, <1>3, <1>4, <1>5 DEF Inv

(* The local values of one call change with its step, nothing else's.      *)
LEMMA LocStep ==
    ASSUME Inv, NEW c \in Callers, NEW step \in Steps, NEW l \in Locals,
           UNCHANGED <<home, opt>>,
           pc' = [pc EXCEPT ![c] = step], loc' = [loc EXCEPT ![c] = l],
           step \in {"start", "lock", "metadata", "done"} => l = NoLocals,
           step \in Loading => Drawn(l.rules, Key(c)) /\ l.rules.metadata.source = Label(Key(c)),
           step \in Fetching => Drawn(l.rules, Key(c)) /\ l.src >= 1 /\ l.file = 1,
           step = "describe" => l.src <= Len(SourcesOf(c)),
           step \in Saving => Fit(l.rules, Key(c)) /\ l.file \in 1 .. 3
    PROVE  LocInv' /\ pc' \in [Callers -> Steps]
<1>1. pc \in [Callers -> Steps] /\ loc \in [Callers -> Locals] /\ \A d \in Callers : LocOf(d)
  BY DEF Inv, Typed, LocInv
<1>2. ASSUME NEW d \in Callers PROVE Key(d)' = Key(d) /\ SourcesOf(d)' = SourcesOf(d)
  BY DEF Key, SourcesOf
<1>3. ASSUME NEW d \in Callers PROVE LocOf(d)'
  <2>1. CASE d = c
    <3>1. pc'[d] = step /\ loc'[d] = l
      BY <1>1, <2>1
    <3>2. QED
      BY <1>2, <2>1, <3>1 DEF LocOf
  <2>2. CASE d # c
    <3>1. pc'[d] = pc[d] /\ loc'[d] = loc[d]
      BY <1>1, <2>2
    <3>2. QED
      BY <1>1, <1>2, <3>1 DEF LocOf
  <2>3. QED
    BY <2>1, <2>2
<1>4. QED
  BY <1>1, <1>3 DEF LocInv

(* A step inside the load, with RULESET_INIT held before and after.        *)
LEMMA InsideStep ==
    ASSUME Inv, NEW c \in Callers, NEW step \in Locked, pc[c] \in Locked,
           pc' = [pc EXCEPT ![c] = step],
           UNCHANGED <<home, opt, outcome, ruleset, holder, now>>
    PROVE  Typed' /\ OnceInv' /\ EarnedInv'
<1>1. Typed'
  BY DEF Inv, Typed, Steps
<1>2. OnceInv'
  BY DEF Inv, Typed, OnceInv, Locked
<1>3. EarnedInv'
  BY DEF Inv, EarnedInv, Earned, Key
<1>4. QED
  BY <1>1, <1>2, <1>3

(* A call that returns without a ruleset of its own making.                *)
LEMMA ReturnKept ==
    ASSUME Inv, NEW c \in Callers, NEW result, pc[c] # "done",
           \/ result = Failed
           \/ result = ruleset[home[c]] /\ result # None,
           UNCHANGED <<home, opt, ruleset, now>>,
           outcome' = [outcome EXCEPT ![c] = result],
           pc' = [pc EXCEPT ![c] = "done"],
           loc' = [loc EXCEPT ![c] = NoLocals],
           \/ UNCHANGED holder /\ pc[c] \notin Locked
           \/ /\ pc[c] \in Locked \/ holder[home[c]] = None
              /\ holder' = [holder EXCEPT ![home[c]] = None]
    PROVE  Typed' /\ LocInv' /\ OnceInv' /\ EarnedInv'
<1>1. result \in {Failed} \cup Rules
  BY DEF Inv, Typed
<1>2. Typed'
  BY <1>1 DEF Inv, Typed, Steps
<1>3. LocInv'
  BY LocStep, NoLocalsTyped DEF Loading, Fetching, Saving, Steps
<1>4. OnceInv'
  <2>1. ASSUME NEW d \in Callers, pc'[d] \in Locked
        PROVE  holder'[home[d]] = d /\ ruleset[home[d]] = None
    <3>1. d # c /\ pc[d] \in Locked
      BY <2>1 DEF Inv, Typed, Locked
    <3>2. holder[home[d]] = d /\ ruleset[home[d]] = None /\ d # None
      BY <3>1, RulesetAssumption DEF Inv, OnceInv
    <3>3. holder' = holder \/ home[d] # home[c]
      BY <3>1, <3>2 DEF Inv, OnceInv
    <3>4. QED
      BY <3>2, <3>3 DEF Inv, Typed
  <2>2. ASSUME NEW d \in Callers
        PROVE  /\ pc'[d] # "done" => outcome'[d] = Pending
               /\ outcome'[d] \in {Pending, Failed} \/ outcome'[d] = ruleset[home[d]]
    <3>1. CASE d = c
      BY <3>1 DEF Inv, Typed
    <3>2. CASE d # c
      BY <3>2 DEF Inv, Typed, OnceInv
    <3>3. QED
      BY <3>1, <3>2
  <2>3. QED
    BY <2>1, <2>2 DEF OnceInv
<1>5. EarnedInv'
  BY DEF Inv, EarnedInv, Earned, Key
<1>6. QED
  BY <1>2, <1>3, <1>4, <1>5

(* A call that sets RULESET.                                               *)
LEMMA PublishKept ==
    ASSUME Inv, NEW c \in Callers, NEW rules, pc[c] \in Locked,
           Publish(c, rules), Earned(rules, c), UNCHANGED <<home, opt, now>>
    PROVE  Typed' /\ LocInv' /\ OnceInv' /\ EarnedInv'
<1>1. rules \in Rules /\ rules # None
  BY EarnedTyped
<1>2. Typed'
  BY <1>1 DEF Inv, Typed, Steps, Publish, Return
<1>3. LocInv'
  BY LocStep, NoLocalsTyped DEF Loading, Fetching, Saving, Steps, Publish, Return
<1>4. OnceInv'
  <2>1. ASSUME NEW d \in Callers, pc'[d] \in Locked
        PROVE  holder'[home[d]] = d /\ ruleset'[home[d]] = None
    <3>1. d # c /\ pc[d] \in Locked
      BY <2>1 DEF Inv, Typed, Locked, Publish, Return
    <3>2. holder[home[d]] = d /\ ruleset[home[d]] = None
      BY <3>1 DEF Inv, OnceInv
    <3>3. home[d] # home[c]
      BY <3>1, <3>2 DEF Inv, OnceInv
    <3>4. QED
      BY <3>2, <3>3 DEF Inv, Typed, Publish, Return
  <2>2. ASSUME NEW d \in Callers
        PROVE  /\ pc'[d] # "done" => outcome'[d] = Pending
               /\ outcome'[d] \in {Pending, Failed} \/ outcome'[d] = ruleset'[home[d]]
    <3>1. CASE d = c
      BY <3>1 DEF Inv, Typed, Publish, Return
    <3>2. CASE d # c /\ home[d] = home[c]
      <4>1. ruleset[home[d]] = None
        BY <3>2 DEF Inv, OnceInv
      <4>2. outcome[d] \in {Pending, Failed}
        BY <4>1, NoneAssumption DEF Inv, OnceInv, Typed
      <4>3. pc'[d] = pc[d] /\ outcome'[d] = outcome[d]
        BY <3>2 DEF Inv, Typed, Publish, Return
      <4>4. QED
        BY <4>2, <4>3 DEF Inv, OnceInv
    <3>3. CASE d # c /\ home[d] # home[c]
      BY <3>3 DEF Inv, Typed, OnceInv, Publish, Return
    <3>4. QED
      BY <3>1, <3>2, <3>3
  <2>3. QED
    BY <2>1, <2>2 DEF OnceInv
<1>5. EarnedInv'
  <2>1. ASSUME NEW p \in Procs, ruleset'[p] # None
        PROVE  \E d \in Callers : home[d] = p /\ Earned(ruleset'[p], d)
    <3>1. CASE p = home[c]
      BY <3>1 DEF Inv, Typed, Publish
    <3>2. CASE p # home[c]
      BY <2>1, <3>2 DEF Inv, Typed, Publish, EarnedInv
    <3>3. QED
      BY <3>1, <3>2
  <2>3. QED
    BY <2>1 DEF EarnedInv, Earned, Key
<1>6. QED
  BY <1>2, <1>3, <1>4, <1>5

-----------------------------------------------------------------------------
(* The steps of a call.                                                    *)

LEMMA DiskUnchanged == ASSUME Inv, UNCHANGED disk PROVE DiskInv'
  BY DEF Inv, DiskInv

LEMMA FastPathKept == ASSUME Inv, NEW c \in Callers, FastPath(c) PROVE Inv'
<1>1. DiskInv'
  BY DiskUnchanged DEF FastPath
<1>2. CASE ruleset[home[c]] # None
  BY <1>1, <1>2, ReturnKept DEF FastPath, Goto, Locked, Inv
<1>3. CASE ruleset[home[c]] = None
  <2>1. /\ pc[c] = "start" /\ pc' = [pc EXCEPT ![c] = "lock"]
        /\ UNCHANGED <<home, opt, outcome, ruleset, holder, loc, now>>
    BY <1>3 DEF FastPath, Goto
  <2>2. loc \in [Callers -> Locals] /\ loc[c] = NoLocals
    BY <2>1 DEF Inv, LocInv, LocOf
  <2>3. loc' = [loc EXCEPT ![c] = NoLocals]
    BY <2>1, <2>2
  <2>4. LocInv'
    BY <2>1, <2>3, LocStep, NoLocalsTyped DEF Loading, Fetching, Saving, Steps
  <2>5. Typed' /\ OnceInv' /\ EarnedInv'
    BY <2>1 DEF Inv, Typed, OnceInv, EarnedInv, Earned, Key, Steps, Locked
  <2>6. QED
    BY <1>1, <2>4, <2>5 DEF Inv
<1>4. QED
  BY <1>2, <1>3

LEMMA LockKept == ASSUME Inv, NEW c \in Callers, Lock(c) PROVE Inv'
<1>1. DiskInv'
  BY DiskUnchanged DEF Lock
<1>2. CASE ruleset[home[c]] # None
  BY <1>1, <1>2, ReturnKept DEF Lock, Return, Inv
<1>3. CASE ruleset[home[c]] = None
  <2>1. /\ pc[c] = "lock" /\ pc' = [pc EXCEPT ![c] = "metadata"]
        /\ holder[home[c]] = None /\ holder' = [holder EXCEPT ![home[c]] = c]
        /\ UNCHANGED <<home, opt, outcome, ruleset, loc, now>>
    BY <1>3 DEF Lock, Goto
  <2>2. loc \in [Callers -> Locals] /\ loc[c] = NoLocals
    BY <2>1 DEF Inv, LocInv, LocOf
  <2>3. loc' = [loc EXCEPT ![c] = NoLocals]
    BY <2>1, <2>2
  <2>4. LocInv'
    BY <2>1, <2>3, LocStep, NoLocalsTyped DEF Loading, Fetching, Saving, Steps, Locked
  <2>5. Typed' /\ EarnedInv'
    BY <2>1 DEF Inv, Typed, EarnedInv, Earned, Key, Steps, Locked
  <2>6. ASSUME NEW d \in Callers, pc'[d] \in Locked
        PROVE  holder'[home[d]] = d /\ ruleset[home[d]] = None
    <3>1. CASE d = c
      BY <1>3, <2>1, <3>1 DEF Inv, Typed
    <3>2. CASE d # c
      <4>1. holder[home[d]] = d /\ ruleset[home[d]] = None /\ d # None
        BY <2>1, <2>6, <3>2, RulesetAssumption DEF Inv, Typed, OnceInv
      <4>2. home[d] # home[c]
        BY <2>1, <4>1
      <4>3. QED
        BY <2>1, <4>1, <4>2 DEF Inv, Typed
    <3>3. QED
      BY <3>1, <3>2
  <2>7. OnceInv'
    BY <2>1, <2>6 DEF Inv, Typed, OnceInv
  <2>8. QED
    BY <1>1, <2>4, <2>5, <2>7 DEF Inv
<1>4. QED
  BY <1>2, <1>3

(* A step inside the load that goes on with the local values l.            *)
LEMMA InsideKept ==
    ASSUME Inv, NEW c \in Callers, NEW step \in Locked, pc[c] \in Locked, NEW l \in Locals,
           pc' = [pc EXCEPT ![c] = step], loc' = [loc EXCEPT ![c] = l],
           UNCHANGED <<home, opt, outcome, ruleset, holder, now>>, DiskInv',
           step # "metadata",
           step \in Loading => Drawn(l.rules, Key(c)) /\ l.rules.metadata.source = Label(Key(c)),
           step \in Fetching => Drawn(l.rules, Key(c)) /\ l.src >= 1 /\ l.file = 1,
           step = "describe" => l.src <= Len(SourcesOf(c)),
           step \in Saving => Fit(l.rules, Key(c)) /\ l.file \in 1 .. 3
    PROVE  Inv'
<1>1. Typed' /\ OnceInv' /\ EarnedInv'
  BY InsideStep
<1>2. step \in Steps /\ step \notin {"start", "lock", "metadata", "done"}
  BY DEF Locked, Steps
<1>3. LocInv'
  BY <1>2, LocStep
<1>4. QED
  BY <1>1, <1>3 DEF Inv

(* Back to the sources with nothing in hand.                               *)
LEMMA RefetchKept ==
    ASSUME Inv, NEW c \in Callers, pc[c] \in Locked,
           pc' = [pc EXCEPT ![c] = "fetch"], loc' = [loc EXCEPT ![c] = NoLocals],
           UNCHANGED <<home, opt, outcome, ruleset, holder, now>>, DiskInv'
    PROVE  Inv'
<1>1. Drawn(NoLocals.rules, Key(c)) /\ NoLocals.src >= 1 /\ NoLocals.file = 1 /\ NoLocals \in Locals
  BY NoLocalsTyped
<1>2. /\ "fetch" \in Locked /\ "fetch" \notin Loading \cup Saving
      /\ "fetch" # "describe" /\ "fetch" # "metadata"
  BY DEF Locked, Loading, Saving
<1>3. QED
  BY <1>1, <1>2, InsideKept

LEMMA LoadMetadataKept == ASSUME Inv, NEW c \in Callers, LoadMetadata(c) PROVE Inv'
<1> DEFINE meta == disk.file[<<Key(c), "metadata">>]
           rules == [NoRules EXCEPT !["metadata"] = meta]
           l == [loc[c] EXCEPT !["checked"] = now, !["rules"] = rules]
<1>1. DiskInv' /\ pc[c] = "metadata" /\ UNCHANGED <<home, opt, outcome, ruleset, holder, now>>
  BY DiskUnchanged DEF LoadMetadata
<1>2. loc \in [Callers -> Locals] /\ loc[c] = NoLocals
  BY <1>1 DEF Inv, LocInv, LocOf
<1>3. CASE pc' = [pc EXCEPT ![c] = "fetch"] /\ UNCHANGED loc
  <2>1. loc' = [loc EXCEPT ![c] = NoLocals]
    BY <1>2, <1>3
  <2>2. QED
    BY <1>1, <1>3, <2>1, RefetchKept DEF Locked
<1>4. CASE /\ Parses(meta) /\ pc' = [pc EXCEPT ![c] = "technologies"]
           /\ loc' = [loc EXCEPT ![c] = l]
  <2>1. <<Key(c), "metadata">> \in Paths
    BY OptionTyped DEF Inv, Paths, Keys, FileNames
  <2>2. meta \in Metadata /\ meta.source = Label(Key(c)) /\ meta.version \subseteq Origins(Key(c))
    BY <1>4, <2>1 DEF Inv, DiskInv, Sound
  <2>3. rules = [names |-> {}, cats |-> {}, metadata |-> meta]
    BY DEF NoRules
  <2> HIDE DEF meta
  <2>4. rules \in Rules /\ rules.cats = {} /\ rules.metadata = meta
    BY <2>2, <2>3 DEF Rules
  <2> HIDE DEF rules
  <2>5. Drawn(rules, Key(c)) /\ rules.metadata.source = Label(Key(c))
    BY <2>2, <2>4 DEF Drawn
  <2>6. l = [checked |-> now, rules |-> rules, good |-> 0, src |-> 1, file |-> 1]
    BY <1>2 DEF NoLocals
  <2>7. l \in Locals /\ l.rules = rules
    BY <2>4, <2>6 DEF Inv, Typed, Locals
  <2>8. pc[c] \in Locked /\ "technologies" \in Locked /\ "technologies" \notin Fetching \cup Saving
        /\ "technologies" # "describe" /\ "technologies" # "metadata"
    BY <1>1 DEF Locked, Fetching, Saving
  <2> HIDE DEF l
  <2>9. QED
    BY <1>1, <1>4, <2>5, <2>7, <2>8, InsideKept
<1>5. QED
  BY <1>3, <1>4 DEF LoadMetadata, Goto

LEMMA LoadTechnologiesKept == ASSUME Inv, NEW c \in Callers, LoadTechnologies(c) PROVE Inv'
<1> DEFINE techs == disk.file[<<Key(c), "technologies">>]
           rules == [loc[c].rules EXCEPT !["names"] = techs]
           l == [loc[c] EXCEPT !["rules"] = rules]
<1>1. DiskInv' /\ pc[c] = "technologies" /\ UNCHANGED <<home, opt, outcome, ruleset, holder, now>>
  BY DiskUnchanged DEF LoadTechnologies
<1>2. /\ loc[c] \in Locals /\ Drawn(loc[c].rules, Key(c))
      /\ loc[c].rules.metadata.source = Label(Key(c))
  BY <1>1 DEF Inv, LocInv, LocOf, Loading
<1>3. CASE pc' = [pc EXCEPT ![c] = "fetch"] /\ loc' = [loc EXCEPT ![c] = NoLocals]
  BY <1>1, <1>3, RefetchKept DEF Locked
<1>4. CASE /\ Parses(techs) /\ pc' = [pc EXCEPT ![c] = "categories"]
           /\ loc' = [loc EXCEPT ![c] = l]
  <2>1. <<Key(c), "technologies">> \in Paths
    BY OptionTyped DEF Inv, Paths, Keys, FileNames
  <2>2. techs \in SUBSET Names
    BY <1>4, <2>1 DEF Inv, DiskInv, Sound
  <2>3. loc[c].rules \in Rules
    BY <1>2 DEF Drawn
  <2> HIDE DEF techs
  <2>4. rules \in Rules /\ rules.cats = loc[c].rules.cats /\ rules.metadata = loc[c].rules.metadata
    BY <2>2, <2>3 DEF Rules
  <2> HIDE DEF rules
  <2>5. Drawn(rules, Key(c)) /\ rules.metadata.source = Label(Key(c))
    BY <1>2, <2>4 DEF Drawn
  <2>6. l \in Locals /\ l.rules = rules
    BY <1>2, <2>4 DEF Locals
  <2>7. pc[c] \in Locked /\ "categories" \in Locked /\ "categories" \notin Fetching \cup Saving
        /\ "categories" # "describe" /\ "categories" # "metadata"
    BY <1>1 DEF Locked, Fetching, Saving
  <2> HIDE DEF l
  <2>8. QED
    BY <1>1, <1>4, <2>5, <2>6, <2>7, InsideKept
<1>5. QED
  BY <1>3, <1>4 DEF LoadTechnologies, Goto

LEMMA LoadCategoriesKept == ASSUME Inv, NEW c \in Callers, LoadCategories(c) PROVE Inv'
<1> DEFINE stored == disk.file[<<Key(c), "categories">>]
           cats == IF Parses(stored) THEN stored ELSE {}
           read == [loc[c].rules EXCEPT !["cats"] = cats]
           rules == Finish(read)
<1>1. DiskInv' /\ pc[c] = "categories" /\ pc[c] \in Locked /\ UNCHANGED <<home, opt, now>>
  BY DiskUnchanged DEF LoadCategories, Locked
<1>2. CASE /\ pc' = [pc EXCEPT ![c] = "fetch"] /\ loc' = [loc EXCEPT ![c] = NoLocals]
           /\ UNCHANGED <<outcome, ruleset, holder>>
  BY <1>1, <1>2, RefetchKept
<1>3. CASE AcceptCached(c, rules) /\ Publish(c, rules)
  <2>1. <<Key(c), "categories">> \in Paths /\ Key(c) \in BOOLEAN
    BY OptionTyped DEF Inv, Paths, Keys, FileNames
  <2>2. cats \subseteq Origins(Key(c))
    BY <2>1 DEF Inv, DiskInv, Sound
  <2>3. cats \subseteq Sources
    BY <2>1, <2>2, OriginsTyped
  <2>4. Drawn(loc[c].rules, Key(c)) /\ loc[c].rules.metadata.source = Label(Key(c))
    BY <1>1 DEF Inv, LocInv, LocOf, Loading
  <2> HIDE DEF cats
  <2>5. read \in Rules /\ read.cats = cats /\ read.metadata = loc[c].rules.metadata
    BY <2>3, <2>4 DEF Rules, Drawn
  <2>6. Drawn(read, Key(c)) /\ read.metadata.source = Label(Key(c))
    BY <2>2, <2>4, <2>5 DEF Drawn
  <2> HIDE DEF read
  <2>7. Drawn(rules, Key(c)) /\ rules.metadata.source = Label(Key(c))
    BY <2>6, FinishDrawn
  <2>8. Earned(rules, c)
    BY <1>3, <2>7 DEF Earned, Fit, AcceptCached, Key
  <2> HIDE DEF rules
  <2>9. QED
    BY <1>1, <1>3, <2>8, PublishKept DEF Inv
<1>4. QED
  BY <1>2, <1>3 DEF LoadCategories, Goto

(* A step at the sources changes the merge within the sources of the call. *)
LEMMA FetchTechnologiesKept == ASSUME Inv, NEW c \in Callers, FetchTechnologies(c) PROVE Inv'
<1>1. /\ DiskInv' /\ pc[c] = "fetch" /\ pc[c] \in Locked
      /\ loc[c].src <= Len(SourcesOf(c))
      /\ UNCHANGED <<home, opt, outcome, ruleset, holder, now>>
  BY DiskUnchanged DEF FetchTechnologies, Locked
<1>2. loc[c] \in Locals /\ Drawn(loc[c].rules, Key(c)) /\ loc[c].src >= 1 /\ loc[c].src \in Nat
      /\ loc[c].file = 1
  BY <1>1 DEF Inv, LocInv, LocOf, Fetching, Locals
<1>3. Len(SourcesOf(c)) \in Nat /\ SourcesOf(c)[loc[c].src] \in Sources
  BY <1>1, <1>2, SourcesTyped DEF Inv
<1>4. ASSUME NEW answer \in Answered, NEW names \in Yields(SourcesOf(c)[loc[c].src], answer),
             loc' = [loc EXCEPT ![c] = Merge(loc[c], names)], pc' = [pc EXCEPT ![c] = "describe"]
      PROVE  Inv'
  <2> DEFINE rules == [loc[c].rules EXCEPT !["names"] = loc[c].rules.names \cup names]
             l == Merge(loc[c], names)
  <2>1. names \subseteq Provides[SourcesOf(c)[loc[c].src]]
    BY <1>4 DEF Yields, fetch_from_url, fetch_from_github_directory, load_from_path,
                fetch_single_file_with_size_limit
  <2>2. names \subseteq Names
    BY <1>3, <2>1 DEF Names
  <2>3. rules \in Rules /\ rules.cats = loc[c].rules.cats /\ rules.metadata = loc[c].rules.metadata
    BY <1>2, <2>2 DEF Rules, Drawn
  <2>4. Drawn(rules, Key(c))
    BY <1>2, <2>3 DEF Drawn
  <2>5. l = [loc[c] EXCEPT !["rules"] = rules, !["good"] = loc[c].good + 1]
    BY DEF Merge
  <2> HIDE DEF rules, l
  <2>6. l \in Locals /\ l.rules = rules /\ l.src = loc[c].src /\ l.file = 1
    BY <1>2, <2>3, <2>5 DEF Locals
  <2>7. /\ "describe" \in Locked /\ "describe" \notin Loading \cup Saving
        /\ "describe" # "metadata"
    BY DEF Locked, Loading, Saving
  <2>8. loc' = [loc EXCEPT ![c] = l]
    BY <1>4 DEF l
  <2>9. QED
    BY <1>1, <1>2, <1>4, <2>4, <2>6, <2>7, <2>8, InsideKept
<1>5. ASSUME loc' = [loc EXCEPT ![c] = NextSource(loc[c])], UNCHANGED pc
      PROVE  Inv'
  <2> DEFINE l == NextSource(loc[c])
  <2>1. l \in Locals /\ l.rules = loc[c].rules /\ l.src >= 1 /\ l.file = 1
    BY <1>2 DEF Locals, NextSource
  <2>2. pc' = [pc EXCEPT ![c] = "fetch"]
    BY <1>1, <1>5 DEF Inv, Typed
  <2>3. /\ "fetch" \in Locked /\ "fetch" \notin Loading \cup Saving
        /\ "fetch" # "describe" /\ "fetch" # "metadata"
    BY DEF Locked, Loading, Saving
  <2>4. loc' = [loc EXCEPT ![c] = l]
    BY <1>5
  <2> HIDE DEF l
  <2>5. QED
    BY <1>1, <1>2, <2>1, <2>2, <2>3, <2>4, InsideKept
<1>6. QED
  BY <1>4, <1>5 DEF FetchTechnologies, Goto

LEMMA DescribeSourceKept == ASSUME Inv, NEW c \in Callers, DescribeSource(c) PROVE Inv'
<1> DEFINE s == SourcesOf(c)[loc[c].src]
<1>1. /\ DiskInv' /\ pc[c] = "describe" /\ pc[c] \in Locked
      /\ UNCHANGED <<home, opt, outcome, ruleset, holder, now>>
  BY DiskUnchanged DEF DescribeSource, Locked
<1>2. /\ loc[c] \in Locals /\ Drawn(loc[c].rules, Key(c)) /\ loc[c].src >= 1
      /\ loc[c].src \in Nat /\ loc[c].src <= Len(SourcesOf(c)) /\ loc[c].file = 1
  BY <1>1 DEF Inv, LocInv, LocOf, Fetching, Locals
<1>3. s \in Origins(Key(c)) /\ s \in Sources
  BY <1>2, SourcesTyped DEF Inv
<1>4. PICK cats \in {{}, {s}}, version \in {{}, {s}} :
             loc' = [loc EXCEPT ![c] =
                       NextSource([loc[c] EXCEPT !["rules"] = Describe(loc[c].rules, cats, version)])]
  BY DEF DescribeSource, get_latest_commit_sha
<1> DEFINE meta == [loc[c].rules.metadata EXCEPT !["version"] = @ \cup version]
           rules == Describe(loc[c].rules, cats, version)
           mid == [loc[c] EXCEPT !["rules"] = rules]
           l == NextSource(mid)
<1>5. cats \subseteq Origins(Key(c)) /\ cats \subseteq Sources
      /\ version \subseteq Origins(Key(c)) /\ version \subseteq Sources
  BY <1>3, <1>4
<1>6. /\ loc[c].rules \in Rules /\ loc[c].rules.metadata \in Metadata
      /\ loc[c].rules.cats \subseteq Sources /\ loc[c].rules.metadata.version \subseteq Sources
  BY <1>2 DEF Drawn, Rules, Metadata
<1>7. /\ meta \in Metadata
      /\ meta.version = loc[c].rules.metadata.version \cup version
  BY <1>5, <1>6 DEF Metadata
<1>8. rules = [loc[c].rules EXCEPT !["cats"] = loc[c].rules.cats \cup cats, !["metadata"] = meta]
  BY DEF Describe
<1> HIDE DEF meta, rules
<1>9. rules \in Rules /\ rules.cats = loc[c].rules.cats \cup cats /\ rules.metadata = meta
  BY <1>5, <1>6, <1>7, <1>8 DEF Rules
<1>10. Drawn(rules, Key(c))
  BY <1>2, <1>5, <1>7, <1>9 DEF Drawn
<1>11. mid \in Locals /\ mid.rules = rules /\ mid.src = loc[c].src /\ mid.file = 1
  BY <1>2, <1>9 DEF Locals
<1> HIDE DEF mid
<1>12. l \in Locals /\ l.rules = rules /\ l.src >= 1 /\ l.file = 1
  BY <1>2, <1>11 DEF Locals, NextSource
<1>13. loc' = [loc EXCEPT ![c] = l] /\ pc' = [pc EXCEPT ![c] = "fetch"]
  BY <1>4 DEF l, mid, rules, DescribeSource, Goto
<1>14. /\ "fetch" \in Locked /\ "fetch" \notin Loading \cup Saving
       /\ "fetch" # "describe" /\ "fetch" # "metadata"
  BY DEF Locked, Loading, Saving
<1> HIDE DEF l
<1>15. QED
  BY <1>1, <1>10, <1>12, <1>13, <1>14, InsideKept

(* The rules of a call that has heard from all its sources.                *)
LEMMA StampedDrawn ==
    ASSUME Inv, NEW c \in Callers, pc[c] = "fetch"
    PROVE  /\ Drawn(Finish(Stamped(c)), Key(c))
           /\ Finish(Stamped(c)).metadata.source = Label(Key(c))
<1> DEFINE meta == [loc[c].rules.metadata EXCEPT !["source"] = Label(Key(c)), !["at"] = now]
<1>1. Drawn(loc[c].rules, Key(c)) /\ loc[c].rules \in Rules /\ loc[c].rules.metadata \in Metadata
  BY DEF Inv, LocInv, LocOf, Fetching, Drawn, Rules
<1>2. now \in Time /\ Label(Key(c)) \in {"default", "explicit", "vendored"}
  BY DEF Inv, Typed, Label
<1>3. meta \in Metadata /\ meta.version = loc[c].rules.metadata.version /\ meta.source = Label(Key(c))
  BY <1>1, <1>2 DEF Metadata
<1>4. fingerprint_source_label(c) = Label(Key(c))
  BY DEF fingerprint_source_label, Label, Key
<1>5. Stamped(c) = [loc[c].rules EXCEPT !["metadata"] = meta]
  BY <1>4 DEF Stamped
<1> HIDE DEF meta
<1>6. Stamped(c) \in Rules /\ Stamped(c).cats = loc[c].rules.cats /\ Stamped(c).metadata = meta
  BY <1>1, <1>3, <1>5 DEF Rules
<1>7. Drawn(Stamped(c), Key(c)) /\ Stamped(c).metadata.source = Label(Key(c))
  BY <1>1, <1>3, <1>6 DEF Drawn
<1>8. QED
  BY <1>7, FinishDrawn

LEMMA VendoredTyped ==
    ASSUME Inv
    PROVE  /\ VendoredRules \in Rules /\ VendoredRules.metadata.source = "vendored"
           /\ VendoredRules.cats = {} /\ VendoredRules.metadata.version = {}
<1> DEFINE meta == [source |-> "vendored", at |-> now, version |-> {}]
           plain == [names |-> Vendored, cats |-> {}, metadata |-> meta]
<1>1. meta \in Metadata /\ meta.source = "vendored" /\ meta.version = {}
  BY DEF Inv, Typed, Metadata
<1>2. Vendored \subseteq Names
  BY DEF Names
<1> HIDE DEF meta
<1>3. plain \in Rules /\ plain.cats = {} /\ plain.metadata = meta
  BY <1>1, <1>2 DEF Rules
<1>4. VendoredRules = Finish(plain)
  BY DEF VendoredRules, meta
<1> HIDE DEF plain
<1>5. QED
  BY <1>1, <1>3, <1>4, FinishEffect

LEMMA DecideKept == ASSUME Inv, NEW c \in Callers, Decide(c) PROVE Inv'
<1> DEFINE rules == Finish(Stamped(c))
           verdict == Verdict(c, loc[c], rules)
<1>1. /\ DiskInv' /\ pc[c] = "fetch" /\ pc[c] \in Locked /\ pc[c] # "done"
      /\ UNCHANGED <<home, opt, now>>
  BY DiskUnchanged DEF Decide, Locked
<1>2. Drawn(rules, Key(c)) /\ rules.metadata.source = Label(Key(c))
  BY <1>1, StampedDrawn
<1>3. /\ verdict \in {"vendored", "use"} => opt[c].degraded
      /\ verdict = "save" => Key(c) \/ IsFull(rules)
  BY DEF Verdict, catalog_is_complete, Key
<1>4. CASE GiveUp(c)
  BY <1>1, <1>4, ReturnKept DEF GiveUp, Return, Inv
<1>5. CASE verdict = "vendored" /\ Publish(c, VendoredRules)
  <2>1. Earned(VendoredRules, c)
    BY <1>3, <1>5, VendoredTyped DEF Earned
  <2>2. QED
    BY <1>1, <1>5, <2>1, PublishKept DEF Inv
<1>6. CASE verdict = "use" /\ Publish(c, rules)
  <2>1. Earned(rules, c)
    BY <1>2, <1>3, <1>6 DEF Earned
  <2> HIDE DEF rules
  <2>2. QED
    BY <1>1, <1>6, <2>1, PublishKept DEF Inv
<1>7. CASE /\ verdict = "save"
           /\ loc' = [loc EXCEPT ![c] = [loc[c] EXCEPT !["rules"] = rules]]
           /\ pc' = [pc EXCEPT ![c] = "open"]
           /\ UNCHANGED <<outcome, ruleset, holder>>
  <2> DEFINE l == [loc[c] EXCEPT !["rules"] = rules]
  <2>1. Fit(rules, Key(c)) /\ rules \in Rules
    BY <1>2, <1>3, <1>7 DEF Fit, Drawn
  <2>2. loc[c] \in Locals /\ loc[c].file \in 1 .. 3
    BY <1>1 DEF Inv, LocInv, LocOf, Fetching
  <2> HIDE DEF rules
  <2>3. l \in Locals /\ l.rules = rules /\ l.file \in 1 .. 3
    BY <2>1, <2>2 DEF Locals
  <2>4. /\ "open" \in Locked /\ "open" \notin Loading \cup Fetching
        /\ "open" # "describe" /\ "open" # "metadata"
    BY DEF Locked, Loading, Fetching
  <2> HIDE DEF l
  <2>5. loc' = [loc EXCEPT ![c] = l]
    BY <1>7 DEF l
  <2>6. QED
    BY <1>1, <1>7, <2>1, <2>3, <2>4, <2>5, InsideKept
<1>8. QED
  BY <1>4, <1>5, <1>6, <1>7 DEF Decide, Goto

-----------------------------------------------------------------------------
(* The steps of a save.                                                    *)

LEMMA ContentSound ==
    ASSUME Inv, NEW c \in Callers, pc[c] \in Saving
    PROVE  /\ File(c) \in Paths /\ Content(c) \in Content0 /\ Sound(File(c), Content(c))
           /\ Fit(loc[c].rules, Key(c)) /\ loc[c] \in Locals /\ loc[c].file \in 1 .. 3
<1>1. Fit(loc[c].rules, Key(c)) /\ loc[c] \in Locals /\ loc[c].file \in 1 .. 3
  BY DEF Inv, LocInv, LocOf
<1>2. Key(c) \in BOOLEAN
  BY OptionTyped DEF Inv
<1>3. /\ FileNames[1] = "metadata" /\ FileNames[2] = "technologies" /\ FileNames[3] = "categories"
  BY DEF FileNames
<1>4. File(c) = <<Key(c), FileNames[loc[c].file]>> /\ File(c) \in Paths
  BY <1>1, <1>2 DEF File, Paths, Keys
<1>5. CASE loc[c].file = 1
  <2>1. Content(c) = loc[c].rules.metadata
    BY <1>5 DEF Content
  <2>2. /\ Content(c) \in Metadata /\ Content(c).source = Label(Key(c))
        /\ Content(c).version \subseteq Origins(Key(c))
    BY <1>1, <2>1 DEF Fit, Drawn, Rules
  <2>3. File(c)[1] = Key(c) /\ File(c)[2] = "metadata"
    BY <1>3, <1>4, <1>5
  <2>4. QED
    BY <1>1, <1>4, <2>2, <2>3 DEF Sound, Content0
<1>6. CASE loc[c].file = 2
  <2>1. Content(c) = loc[c].rules.names
    BY <1>6 DEF Content
  <2>2. Content(c) \in SUBSET Names /\ (~Key(c) => Enough(Content(c)))
    BY <1>1, <2>1 DEF Fit, Drawn, Rules, IsFull
  <2>3. File(c)[1] = Key(c) /\ File(c)[2] = "technologies"
    BY <1>3, <1>4, <1>6
  <2>4. QED
    BY <1>1, <1>4, <2>2, <2>3 DEF Sound, Content0
<1>7. CASE loc[c].file = 3
  <2>1. Content(c) = loc[c].rules.cats
    BY <1>7 DEF Content
  <2>2. Content(c) \in SUBSET Origins(Key(c)) /\ Content(c) \in SUBSET Sources
    BY <1>1, <2>1 DEF Fit, Drawn, Rules
  <2>3. File(c)[1] = Key(c) /\ File(c)[2] = "categories"
    BY <1>3, <1>4, <1>7
  <2>4. QED
    BY <1>1, <1>4, <2>2, <2>3 DEF Sound, Content0
<1>8. QED
  BY <1>1, <1>5, <1>6, <1>7

LEMMA SavingStep ==
    ASSUME Inv, NEW c \in Callers, pc[c] \in Saving, NEW step \in Saving, NEW l \in Locals,
           l.rules = loc[c].rules, l.file \in 1 .. 3,
           pc' = [pc EXCEPT ![c] = step], loc' = [loc EXCEPT ![c] = l],
           UNCHANGED <<home, opt, outcome, ruleset, holder, now>>, DiskInv'
    PROVE  Inv'
<1>1. step \in Locked /\ pc[c] \in Locked /\ step \notin Loading \cup Fetching
      /\ step # "describe" /\ step # "metadata"
  BY DEF Saving, Locked, Loading, Fetching
<1>2. Fit(l.rules, Key(c))
  BY ContentSound
<1>3. QED
  BY <1>1, <1>2, InsideKept

LEMMA SavingStay ==
    ASSUME Inv, NEW c \in Callers, pc[c] \in Saving, NEW step \in Saving,
           pc' = [pc EXCEPT ![c] = step], UNCHANGED loc,
           UNCHANGED <<home, opt, outcome, ruleset, holder, now>>, DiskInv'
    PROVE  Inv'
<1>1. loc' = [loc EXCEPT ![c] = loc[c]]
  BY DEF Inv, LocInv
<1>2. QED
  BY <1>1, ContentSound, SavingStep

LEMMA OpenFileKept == ASSUME Inv, NEW c \in Callers, OpenFile(c) PROVE Inv'
<1>1. pc[c] \in Saving /\ "write" \in Saving
  BY DEF OpenFile, Saving
<1>2. DiskInv'
  BY <1>1, ContentSound, DiskKept DEF OpenFile, Inv
<1>3. QED
  BY <1>1, <1>2, SavingStay DEF OpenFile, Goto

LEMMA WriteFileKept == ASSUME Inv, NEW c \in Callers, WriteFile(c) PROVE Inv'
<1>1. pc[c] \in Saving /\ "rename" \in Saving
  BY DEF WriteFile, Saving
<1>2. DiskInv'
  BY <1>1, ContentSound, DiskKept DEF WriteFile, Inv
<1>3. QED
  BY <1>1, <1>2, SavingStay DEF WriteFile, Goto

(* A save that fails: the call gives up and RULESET stays unset.           *)
LEMMA GiveUpKept ==
    ASSUME Inv, NEW c \in Callers, pc[c] \in Locked, GiveUp(c), UNCHANGED <<home, opt, disk, now>>
    PROVE  Inv'
<1>1. pc[c] # "done" /\ DiskInv'
  BY DiskUnchanged DEF Locked
<1>2. QED
  BY <1>1, ReturnKept DEF GiveUp, Return, Inv

LEMMA WriteErrorKept == ASSUME Inv, NEW c \in Callers, WriteError(c) PROVE Inv'
<1>1. pc[c] \in Locked
  BY DEF WriteError, Locked
<1>2. QED
  BY <1>1, GiveUpKept DEF WriteError

LEMMA NextFileKept ==
    ASSUME Inv, NEW c \in Callers, pc[c] \in Saving, NextFile(c), DiskInv',
           UNCHANGED <<home, opt, outcome, ruleset, holder, now>>
    PROVE  Inv'
<1>1. loc[c] \in Locals /\ loc[c].file \in 1 .. 3 /\ Len(FileNames) = 3
  BY ContentSound DEF FileNames
<1>2. CASE loc[c].file < Len(FileNames)
  <2> DEFINE l == [loc[c] EXCEPT !["file"] = loc[c].file + 1]
  <2>1. l \in Locals /\ l.rules = loc[c].rules /\ l.file \in 1 .. 3
    BY <1>1, <1>2 DEF Locals
  <2>2. loc' = [loc EXCEPT ![c] = l] /\ pc' = [pc EXCEPT ![c] = "open"] /\ "open" \in Saving
    BY <1>2 DEF NextFile, Goto, Saving
  <2> HIDE DEF l
  <2>3. QED
    BY <2>1, <2>2, SavingStep
<1>3. CASE ~(loc[c].file < Len(FileNames))
  <2>1. UNCHANGED loc /\ pc' = [pc EXCEPT ![c] = "prune"] /\ "prune" \in Saving
    BY <1>3 DEF NextFile, Goto, Saving
  <2>2. QED
    BY <2>1, SavingStay
<1>4. QED
  BY <1>2, <1>3

LEMMA RenameFileKept == ASSUME Inv, NEW c \in Callers, RenameFile(c) PROVE Inv'
<1>1. pc[c] \in Saving /\ pc[c] \in Locked /\ "removed" \in Saving
  BY DEF RenameFile, Saving, Locked
<1>2. CASE disk' = Rename(disk, File(c)) /\ NextFile(c) /\ UNCHANGED <<outcome, ruleset, holder>>
  <2>1. DiskInv'
    BY <1>1, <1>2, ContentSound, DiskKept DEF Inv
  <2>2. QED
    BY <1>1, <1>2, <2>1, NextFileKept DEF RenameFile
<1>3. CASE disk' = Remove(disk, File(c)) /\ Goto(c, "removed") /\ UNCHANGED <<loc, outcome, ruleset, holder>>
  <2>1. DiskInv'
    BY <1>1, <1>3, ContentSound, DiskKept DEF Inv
  <2>2. QED
    BY <1>1, <1>3, <2>1, SavingStay DEF RenameFile, Goto
<1>4. CASE GiveUp(c) /\ UNCHANGED disk
  BY <1>1, <1>4, GiveUpKept DEF RenameFile
<1>5. QED
  BY <1>2, <1>3, <1>4 DEF RenameFile

LEMMA RenameAgainKept == ASSUME Inv, NEW c \in Callers, RenameAgain(c) PROVE Inv'
<1>1. pc[c] \in Saving /\ pc[c] \in Locked
  BY DEF RenameAgain, Saving, Locked
<1>2. CASE disk' = Rename(disk, File(c)) /\ NextFile(c) /\ UNCHANGED <<outcome, ruleset, holder>>
  <2>1. DiskInv'
    BY <1>1, <1>2, ContentSound, DiskKept DEF Inv
  <2>2. QED
    BY <1>1, <1>2, <2>1, NextFileKept DEF RenameAgain
<1>3. CASE GiveUp(c) /\ UNCHANGED disk
  BY <1>1, <1>3, GiveUpKept DEF RenameAgain
<1>4. QED
  BY <1>2, <1>3 DEF RenameAgain

LEMMA PruneFileKept == ASSUME Inv, NEW c \in Callers, PruneFile(c) PROVE Inv'
<1>1. DiskInv'
  <2>1. PICK q \in Paths :
            disk' = [file |-> [disk.file EXCEPT ![q] = Absent], temp |-> [disk.temp EXCEPT ![q] = Absent]]
    BY DEF PruneFile
  <2>2. disk \in Disk /\ Absent \in Content0 /\ ~Parses(Absent)
    BY DEF Inv, DiskInv, Content0, Parses
  <2>3. disk' \in Disk
    BY <2>1, <2>2 DEF Disk
  <2>4. ASSUME NEW p \in Paths PROVE Sound(p, disk'.file[p]) /\ Sound(p, disk'.temp[p])
    <3>1. disk'.file[p] \in {disk.file[p], Absent} /\ disk'.temp[p] \in {disk.temp[p], Absent}
      BY <2>1, <2>2 DEF Disk
    <3>2. Sound(p, disk.file[p]) /\ Sound(p, disk.temp[p])
      BY DEF Inv, DiskInv
    <3>3. Sound(p, Absent)
      BY <2>2 DEF Sound
    <3>4. QED
      BY <3>1, <3>2, <3>3
  <2>5. QED
    BY <2>3, <2>4 DEF DiskInv
<1>2. Typed' /\ OnceInv' /\ EarnedInv'
  BY DEF PruneFile, Inv, Typed, OnceInv, EarnedInv, Earned, Key
<1>3. LocInv'
  BY DEF PruneFile, Inv, LocInv, LocOf, Key, SourcesOf
<1>4. QED
  BY <1>1, <1>2, <1>3 DEF Inv

LEMMA PruneKept == ASSUME Inv, NEW c \in Callers, Prune(c) PROVE Inv'
<1>1. pc[c] \in Saving /\ pc[c] \in Locked /\ Publish(c, loc[c].rules) /\ UNCHANGED <<home, opt, now>>
  BY DEF Prune, Saving, Locked
<1>2. Earned(loc[c].rules, c)
  BY <1>1, ContentSound DEF Earned
<1>3. DiskInv'
  BY DiskUnchanged DEF Prune
<1>4. QED
  BY <1>1, <1>2, <1>3, PublishKept DEF Inv

-----------------------------------------------------------------------------
(* The environment.                                                        *)

LEMMA TickKept == ASSUME Inv, Tick PROVE Inv'
<1>1. DiskInv'
  BY DiskUnchanged DEF Tick
<1>2. Typed'
  BY RulesetAssumption DEF Inv, Typed, Tick, Time
<1>3. LocInv'
  BY DEF Inv, LocInv, LocOf, Tick, Key, SourcesOf
<1>4. OnceInv' /\ EarnedInv'
  BY DEF Inv, OnceInv, EarnedInv, Earned, Tick, Key
<1>5. QED
  BY <1>1, <1>2, <1>3, <1>4 DEF Inv

LEMMA StopKept == ASSUME Inv, NEW p \in Procs, Stop(p) PROVE Inv'
<1>1. DiskInv'
  BY DiskUnchanged DEF Stop
<1>2. Typed'
  BY DEF Inv, Typed, Stop, Steps
<1>3. ASSUME NEW c \in Callers
      PROVE  \/ /\ home[c] = p /\ pc'[c] = "start" /\ loc'[c] = NoLocals /\ outcome'[c] = Pending
             \/ /\ home[c] # p /\ pc'[c] = pc[c] /\ loc'[c] = loc[c] /\ outcome'[c] = outcome[c]
                /\ ruleset'[home[c]] = ruleset[home[c]] /\ holder'[home[c]] = holder[home[c]]
  BY DEF Inv, Typed, Stop
<1>4. LocInv'
  <2>1. ASSUME NEW c \in Callers PROVE LocOf(c)'
    <3>1. CASE home[c] = p
      BY <1>3, <3>1, NoLocalsTyped DEF LocOf, Loading, Fetching, Saving
    <3>2. CASE home[c] # p
      BY <1>3, <3>2 DEF Inv, LocInv, LocOf, Stop, Key, SourcesOf
    <3>3. QED
      BY <3>1, <3>2
  <2>2. loc' \in [Callers -> Locals]
    BY NoLocalsTyped DEF Inv, LocInv, Stop
  <2>3. QED
    BY <2>1, <2>2 DEF LocInv
<1>5. OnceInv'
  BY <1>3 DEF Inv, OnceInv, Stop, Locked
<1>6. EarnedInv'
  BY DEF Inv, Typed, EarnedInv, Earned, Stop, Key
<1>7. QED
  BY <1>1, <1>2, <1>4, <1>5, <1>6 DEF Inv

LEMMA StepInv == ASSUME Inv, [Next]_vars PROVE Inv'
<1>1. CASE UNCHANGED vars
  <2>1. DiskInv'
    BY <1>1, DiskUnchanged DEF vars
  <2>2. Typed' /\ OnceInv' /\ EarnedInv'
    BY <1>1 DEF vars, Inv, Typed, OnceInv, EarnedInv, Earned, Key
  <2>3. LocInv'
    BY <1>1 DEF vars, Inv, LocInv, LocOf, Key, SourcesOf
  <2>4. QED
    BY <2>1, <2>2, <2>3 DEF Inv
<1>2. ASSUME NEW c \in Callers, Step(c) PROVE Inv'
  BY <1>2, FastPathKept, LockKept, LoadMetadataKept, LoadTechnologiesKept, LoadCategoriesKept,
     FetchTechnologiesKept, DescribeSourceKept, DecideKept, OpenFileKept, WriteFileKept,
     WriteErrorKept, RenameFileKept, RenameAgainKept, PruneFileKept, PruneKept DEF Step
<1>3. QED
  BY <1>1, <1>2, TickKept, StopKept DEF Next

LEMMA InvAlways == Spec => []Inv
  BY InitInv, StepInv, PTL DEF Spec

-----------------------------------------------------------------------------

(* Of every process: no scan that did not ask for it works with thin or    *)
(* built-in rules, the default directory of the cache never receives a     *)
(* thin catalogue, and what a ruleset says of itself is true - whatever    *)
(* was on the disk, whichever sources failed, however calls raced for the  *)
(* staging files and wherever processes ended (ruleset/mod.rs, cache.rs).  *)
THEOREM CatalogAlwaysSound == Spec => []CatalogSound
<1>1. ASSUME Inv PROVE RulesMeetFloor
  <2>1. ASSUME NEW p \in Procs, ruleset[p] # None,
               \A c \in Callers : home[c] = p => ~opt[c].explicit /\ ~opt[c].degraded
        PROVE  ruleset_quality_label(ruleset[p]) = "full"
    <3>1. PICK d \in Callers : home[d] = p /\ Earned(ruleset[p], d)
      BY <1>1, <2>1 DEF Inv, EarnedInv
    <3>2. ~Key(d) /\ ~opt[d].degraded
      BY <2>1, <3>1 DEF Key
    <3>3. IsFull(ruleset[p]) /\ ruleset[p].metadata.source = "default"
      BY <3>1, <3>2 DEF Earned, Fit, Label
    <3>4. QED
      BY <3>3 DEF ruleset_quality_label
  <2>2. QED
    BY <2>1 DEF RulesMeetFloor
<1>2. ASSUME Inv PROVE CachedCatalogFull
  <2> DEFINE p == <<FALSE, "technologies">>
  <2>1. \A k \in BOOLEAN : <<k, "technologies">> \in Paths
    BY DEF Paths, Keys, FileNames
  <2>2. p \in Paths
    <3>1. FALSE \in BOOLEAN
      OBVIOUS
    <3>2. QED
      BY ONLY <2>1, <3>1
  <2>3. Sound(p, disk.file[p])
    BY <1>2, <2>2 DEF Inv, DiskInv
  <2>4. QED
    BY <2>3 DEF Sound, CachedCatalogFull
<1>3. ASSUME Inv PROVE IdentityHonest
  <2> SUFFICES ASSUME NEW c \in Callers, Returned(c)
               PROVE  LET rules == outcome[c] IN
                 /\ rules.metadata.source = "explicit" => \E d \in Callers : home[d] = home[c] /\ opt[d].explicit
                 /\ rules.metadata.source = "vendored" => \E d \in Callers : home[d] = home[c] /\ opt[d].degraded
                 /\ rules.metadata.version \cup rules.cats \subseteq
                      CASE rules.metadata.source = "default" -> {DEFAULT_FINGERPRINTS_URLS[i] : i \in DOMAIN DEFAULT_FINGERPRINTS_URLS}
                        [] rules.metadata.source = "explicit" -> {ExplicitSource}
                        [] OTHER -> {}
    BY DEF IdentityHonest
  <2>1. outcome[c] \in Rules /\ outcome[c] = ruleset[home[c]] /\ home[c] \in Procs
    BY <1>3 DEF Inv, Typed, OnceInv, Returned
  <2>2. PICK d \in Callers : home[d] = home[c] /\ Earned(outcome[c], d)
    BY <1>3, <2>1, NoneAssumption DEF Inv, EarnedInv
  <2>3. CASE Drawn(outcome[c], Key(d)) /\ outcome[c].metadata.source = Label(Key(d))
    <3>1. CASE Key(d)
      <4>1. outcome[c].metadata.source = "explicit" /\ Origins(Key(d)) = {ExplicitSource} /\ opt[d].explicit
        BY <2>3, <3>1 DEF Label, Origins, Key
      <4>2. QED
        BY <2>2, <2>3, <4>1 DEF Drawn
    <3>2. CASE ~Key(d)
      <4>1. /\ outcome[c].metadata.source = "default"
            /\ Origins(Key(d)) = {DEFAULT_FINGERPRINTS_URLS[i] : i \in DOMAIN DEFAULT_FINGERPRINTS_URLS}
        BY <2>3, <3>2 DEF Label, Origins
      <4>2. QED
        BY <2>3, <4>1 DEF Drawn
    <3>3. QED
      BY <3>1, <3>2
  <2>4. CASE /\ opt[d].degraded /\ outcome[c].metadata.source = "vendored"
             /\ outcome[c].cats = {} /\ outcome[c].metadata.version = {}
    BY <2>2, <2>4
  <2>5. QED
    BY <2>2, <2>3, <2>4 DEF Earned, Fit
<1>4. Inv => CatalogSound
  BY <1>1, <1>2, <1>3 DEF CatalogSound
<1>5. QED
  BY <1>4, InvAlways, PTL

-----------------------------------------------------------------------------
(* The double-checked load implements InitOnce.                            *)

(* The abstract step of each way out of a call.                            *)
LEMMA FoundRefines ==
    ASSUME Inv, NEW c \in Callers, pc[c] # "done", ruleset[home[c]] # None,
           outcome' = [outcome EXCEPT ![c] = ruleset[home[c]]], UNCHANGED <<home, ruleset>>
    PROVE  Once!Next
  BY DEF Inv, OnceInv, Once!Next, Once!Succeed

LEMMA GiveUpRefines ==
    ASSUME Inv, NEW c \in Callers, pc[c] \in Locked, GiveUp(c), UNCHANGED home
    PROVE  Once!Next
<1>1. outcome[c] = Pending /\ ruleset[home[c]] = None
  BY DEF Inv, OnceInv, Locked
<1>2. QED
  BY <1>1 DEF GiveUp, Return, Once!Next, Once!GiveUp

LEMMA PublishRefines ==
    ASSUME Inv, NEW c \in Callers, NEW rules, pc[c] \in Locked, rules # None,
           Publish(c, rules), UNCHANGED home
    PROVE  Once!Next
<1>1. outcome[c] = Pending /\ ruleset[home[c]] = None
  BY DEF Inv, OnceInv, Locked
<1>2. ruleset'[home[c]] = rules
  BY DEF Inv, Typed, Publish
<1>3. Once!Succeed(c)
  BY <1>1, <1>2 DEF Publish, Return, Once!Succeed
<1>4. QED
  BY <1>3 DEF Once!Next

LEMMA StepRefines == ASSUME Inv, [Next]_vars PROVE [Once!Next]_Once!vars
<1> DEFINE Goal == [Once!Next]_Once!vars
<1>1. CASE UNCHANGED <<home, ruleset, outcome>>
  BY <1>1 DEF Once!vars
<1>2. ASSUME NEW c \in Callers, FastPath(c) PROVE Goal
  BY <1>1, <1>2, FoundRefines DEF FastPath
<1>3. ASSUME NEW c \in Callers, Lock(c) PROVE Goal
  BY <1>1, <1>3, FoundRefines DEF Lock, Return
<1>4. ASSUME NEW c \in Callers, LoadCategories(c) PROVE Goal
  <2>1. PICK rules : \/ Publish(c, rules) /\ rules \in Rules
                     \/ UNCHANGED <<ruleset, outcome>>
    <3> DEFINE stored == disk.file[<<Key(c), "categories">>]
               cats == IF Parses(stored) THEN stored ELSE {}
               read == [loc[c].rules EXCEPT !["cats"] = cats]
    <3>1. pc[c] = "categories" /\ loc[c].rules \in Rules
      BY <1>4 DEF LoadCategories, Inv, LocInv, LocOf, Loading, Drawn
    <3>2. <<Key(c), "categories">> \in Paths /\ Key(c) \in BOOLEAN
      BY OptionTyped DEF Inv, Paths, Keys, FileNames
    <3>3. cats \subseteq Sources
      BY <3>2, OriginsTyped DEF Inv, DiskInv, Sound
    <3> HIDE DEF cats
    <3>4. read \in Rules
      BY <3>1, <3>3 DEF Rules
    <3> HIDE DEF read
    <3>5. Finish(read) \in Rules
      BY <3>4, FinishEffect
    <3>6. Publish(c, Finish(read)) \/ UNCHANGED <<ruleset, outcome>>
      BY <1>4 DEF LoadCategories, cats, read
    <3>7. QED
      BY <3>5, <3>6
  <2>2. pc[c] \in Locked /\ UNCHANGED home
    BY <1>4 DEF LoadCategories, Locked
  <2>3. QED
    BY <1>1, <2>1, <2>2, PublishRefines, NoneAssumption
<1>5. ASSUME NEW c \in Callers, Decide(c) PROVE Goal
  <2>1. pc[c] = "fetch" /\ pc[c] \in Locked /\ UNCHANGED home
    BY <1>5 DEF Decide, Locked
  <2>2. Finish(Stamped(c)) \in Rules /\ VendoredRules \in Rules
    BY <2>1, StampedDrawn, VendoredTyped DEF Drawn
  <2>3. \/ GiveUp(c) \/ Publish(c, VendoredRules) \/ Publish(c, Finish(Stamped(c)))
        \/ UNCHANGED <<ruleset, outcome>>
    BY <1>5 DEF Decide
  <2>4. QED
    BY <1>1, <2>1, <2>2, <2>3, GiveUpRefines, PublishRefines, NoneAssumption
<1>6. ASSUME NEW c \in Callers, WriteError(c) \/ RenameFile(c) \/ RenameAgain(c) PROVE Goal
  <2>1. pc[c] \in Locked /\ UNCHANGED home
    BY <1>6 DEF WriteError, RenameFile, RenameAgain, Locked
  <2>2. GiveUp(c) \/ UNCHANGED <<ruleset, outcome>>
    BY <1>6 DEF WriteError, RenameFile, RenameAgain
  <2>3. QED
    BY <1>1, <2>1, <2>2, GiveUpRefines
<1>7. ASSUME NEW c \in Callers, Prune(c) PROVE Goal
  <2>1. pc[c] \in Locked /\ pc[c] \in Saving /\ Publish(c, loc[c].rules) /\ UNCHANGED home
    BY <1>7 DEF Prune, Locked, Saving
  <2>2. loc[c].rules # None
    BY <2>1, ContentSound, NoneAssumption DEF Fit, Drawn
  <2>3. QED
    BY <2>1, <2>2, PublishRefines
<1>8. ASSUME NEW p \in Procs, Stop(p) PROVE Goal
  <2>1. Once!EndProcess(p) /\ UNCHANGED home
    BY <1>8 DEF Stop, Once!EndProcess
  <2>2. QED
    BY <2>1 DEF Once!Next
<1>9. ASSUME NEW c \in Callers, Step(c) PROVE Goal
  <2>1. CASE \/ LoadMetadata(c) \/ LoadTechnologies(c) \/ FetchTechnologies(c)
             \/ DescribeSource(c) \/ OpenFile(c) \/ WriteFile(c) \/ PruneFile(c)
    <3>1. UNCHANGED <<home, ruleset, outcome>>
      BY <2>1 DEF LoadMetadata, LoadTechnologies, FetchTechnologies, DescribeSource, OpenFile, WriteFile, PruneFile
    <3>2. QED
      BY <1>1, <3>1
  <2>2. QED
    BY <1>2, <1>3, <1>4, <1>5, <1>6, <1>7, <1>9, <2>1 DEF Step
<1>10. CASE Tick \/ UNCHANGED vars
  BY <1>1, <1>10 DEF Tick, vars
<1>11. QED
  BY <1>8, <1>9, <1>10 DEF Next

(* The double-checked load of RULESET implements InitOnce: in the life of  *)
(* a process there is one ruleset, every call that succeeds returns that   *)
(* one, and no call fails once it is set (init_ruleset).                   *)
THEOREM LoadIsOnce == Spec => LoadedOnce
<1>1. Init => Once!Init
  BY RulesetAssumption DEF Init, Once!Init
<1>2. Inv /\ [Next]_vars => [Once!Next]_Once!vars
  BY StepRefines
<1>3. Spec => Once!Spec
  BY <1>1, <1>2, InvAlways, PTL DEF Spec, Once!Spec
<1>4. QED
  BY <1>3 DEF LoadedOnce
=============================================================================
