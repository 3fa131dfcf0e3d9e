SPECIFICATION CachesSpec
CONSTANTS
    l1 = l1
    l2 = l2
    d1 = d1
    d2 = d2
    d3 = d3
    d4 = d4
    d5 = d5
    d6 = d6
    Lookups = {l1, l2}
    Domains = {d1, d2, d3, d4, d5, d6}
    None = None
    NoDomain = NoDomain
    Absent = Absent
    Torn = Torn
    Oversized = Oversized
    Scenes <- SmallScenes
    GeoScenes <- SmallGeoScenes
    CACHE_TTL = 1
    MAX_ENTRIES = 1
    ENFORCE_INTERVAL = 2
    MaxTime = 1
    MaxLookups = 3
    MaxTroubles = 1
    Calls = {g1, g2}
    Processes = {p1, p2}
    g1 = g1
    g2 = g2
    p1 = p1
    p2 = p2
    GEOIP_TTL = 1
    MaxGeoTime = 1
    MaxGeoCalls = 2
    MaxGeoTroubles = 1
INVARIANTS
    MetadataBacked
    WhoisCacheSound
PROPERTIES
    AsnFromCache
CHECK_DEADLOCK FALSE
