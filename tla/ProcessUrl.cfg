\* One task, any answers of the servers, chains of up to three hops, two retries.
SPECIFICATION FairSpec
CONSTANTS
    plain = plain
    secure = secure
    internal = internal
    ns = ns
    txt = txt
    Url <- MCUrl
    Https <- MCHttps
    Safe <- MCSafe
    RecordType <- MCRecordType
    MAX_REDIRECT_HOPS = 3
    RETRY_MAX_ATTEMPTS = 2
    BACKOFF = 1
    None = None
INVARIANTS
    RequestsAllowed
    RowsFaithful
    RetryAccounting
PROPERTIES
    AcceptedOnce
    ProcessEnds
CHECK_DEADLOCK FALSE
