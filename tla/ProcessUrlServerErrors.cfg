\* The same task, asked whether answers 429 and 5xx are retried.
SPECIFICATION Spec
CONSTANTS
    plain = plain
    secure = secure
    internal = internal
    ns = ns
    txt = txt
    Url <- MCUrl
    Https <- MCHttps
    Safe <- MCSafe
    RecordType <- MCRecordType
    MAX_REDIRECT_HOPS = 3
    RETRY_MAX_ATTEMPTS = 2
    BACKOFF = 1
    None = None
INVARIANT
    ServerErrorsRetried
CHECK_DEADLOCK FALSE
