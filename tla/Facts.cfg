SPECIFICATION FactsSpec
CONSTANTS
    u1 = u1
    u2 = u2
    r1 = r1
    r2 = r2
    Urls = {u1, u2}
    Requests = {r1, r2}
    None = None
    MaxTime = 1
    MaxServed = 2
    NoSample = NoSample
    Null = Null
    EmptyText = EmptyText
    Malformed = Malformed
    One = One
    U64_MAX = 99
    I64_MAX = 50
    I32_MAX = 99
    MIN_GTM_ID_LENGTH = 8
    MAX_TXT_RECORD_SIZE = 3
    MAX_TXT_RECORD_COUNT = 2
    MAX_GEOIP_ARCHIVE_ENTRY_COUNT = 2
    MAX_GEOIP_ARCHIVE_ENTRY_SIZE = 4
    MAX_WHOIS_RAW_LINES = 2
    MAX_URL_LENGTH = 40
    MAX_TIMESTAMP = 8
    PublicSuffixes <- SmallSuffixes
    MAX_HEADER_VALUE_LENGTH = 4
    MAX_ERROR_MESSAGE_LENGTH = 5
    RETRY_INITIAL_DELAY_MS = 2
    RETRY_FACTOR = 2
    RETRY_MAX_DELAY_MS = 5
    RETRY_ATTEMPTS = 3
SYMMETRY Symmetry
INVARIANTS
    SnapshotSound
    DoneMeansDone
PROPERTIES
    FactsSound
    RowTellsObservation
    FailuresReported
CHECK_DEADLOCK FALSE
