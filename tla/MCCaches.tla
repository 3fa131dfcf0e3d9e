------------------------------ MODULE MCCaches ------------------------------
(* The on-disk caches of WHOIS answers and of GeoIP databases on small     *)
(* instances: a behaviour is one of either.                                *)
EXTENDS GeoIp, WhoisCache, TLC

CONSTANTS l1, l2, d1, d2, d3, d4, d5, d6, g1, g2, p1, p2

VARIABLE cache  \* the cache this behaviour is about

Old == [at |-> 0, usable |-> TRUE]
Full(ds) == [d \in Domains |-> IF d \in ds THEN Old ELSE Absent]

\* An answer without content, from an older version, and a file that is too large.
Odd == [Full({d1}) EXCEPT ![d1] = [Old EXCEPT !.usable = FALSE], ![d2] = Oversized]

Two(a, b) == l1 :> a @@ l2 :> b

\* Two lookups of one domain, and lookups over a directory near its quota.
SmallScenes ==
    {[files |-> f, asks |-> Two({d1, d2}, {d1})] : f \in {Full({d1}), Odd}}
      \cup {[files |-> Full({d1, d2}), asks |-> Two({d4, d5}, {d6})],
            [files |-> Full({d1, d2, d3}), asks |-> Two({d4, d5, d6}, {})],
            [files |-> Full({}), asks |-> Two({}, {})]}

ASSUME WhoisAssumption == WhoisConstants

\* One process with two scans, and two processes, over an empty directory, one
\* with an old City database, and one left without its ASN metadata.
Cached(city, asn) ==
    [p \in {"City", "ASN"} \X {"db", "meta"} |->
        CASE p = <<"City", "db">> /\ city -> 0
          [] p = <<"City", "meta">> /\ city -> [source |-> "maxmind", build |-> 0, at |-> 0]
          [] p = <<"ASN", "db">> /\ asn -> 0
          [] OTHER -> Absent]

SmallGeoScenes ==
    {[home |-> g1 :> p1 @@ g2 :> h, asks |-> g1 :> a @@ g2 :> b,
      key |-> [p \in Processes |-> k], files |-> f] :
        h \in {p1, p2}, <<a, b, k>> \in {<<"none", "url", TRUE>>, <<"missing", "none", TRUE>>,
                                         <<"file", "none", FALSE>>, <<"missing", "url", FALSE>>},
        f \in {Cached(FALSE, FALSE), Cached(TRUE, TRUE)}}

ASSUME GeoScenesFound == ScenesFound

CachesInit ==
    /\ GeoInit /\ Init
    /\ \/ cache = "whois" /\ scene = CHOOSE s \in GeoScenes : TRUE
       \/ cache = "geoip" /\ asks = Two({}, {}) /\ disk.file = Full({})
CachesNext ==
    /\ UNCHANGED cache
    /\ \/ cache = "whois" /\ Next /\ UNCHANGED gvars
       \/ cache = "geoip" /\ GeoNext /\ UNCHANGED vars
CachesSpec == CachesInit /\ [][CachesNext]_<<vars, gvars, cache>>
=============================================================================
