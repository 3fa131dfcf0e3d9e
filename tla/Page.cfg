SPECIFICATION PageSpec
CONSTANTS
    t1 = t1
    t2 = t2
    t3 = t3
    t4 = t4
    Techs = {t1, t2, t3, t4}
    GitHubPages = t4
    CertificateAuthorities = "SSL/TLS certificate authorities"
    NoSample = NoSample
    NoVersion = NoVersion
    Rulesets <- SmallRulesets
    Pages <- SmallPages
    Refused = Refused
    NoValue = NoValue
    U32_MAX = 4
    MIN_PATTERN_CONFIDENCE = 50
    MIN_PREFIX_LEN = 2
    MAX_IMPLIES_DEPTH = 4
    MAX_REQUIRES_DEPTH = 4
    CONTEXT_CHARS = 2
    MAX_CONTEXT_BYTES = 7
    ELLIPSIS_LEN = 1
    MAX_LINE_WINDOW_BYTES = 3
    GENERIC_API_KEY_MIN_LEN = 4
    GENERIC_API_KEY_HEX_MIN_LEN = 4
    GENERIC_API_KEY_MIN_ENTROPY = 1800
    GENERIC_API_KEY_HEX_MIN_ENTROPY = 1500
    PRIVATE_KEY_MIN_DECODED_BODY = 3
    PEM_LONG_BODY = 6
    HTTP_BASIC_MIN_DECODED_LEN = 10
    I64_MAX = 5000
    Nothing = Nothing
    Null = Null
    EmptyCell = EmptyCell
    Comma = Comma
    KeyHeader = KeyHeader
    Implied = Implied
    EXPORT_LIMIT = 3
    Keys <- SmallKeys
    Facts <- SmallFacts
    LeftBehind <- SmallLeftBehind
    Commands <- SmallCommands
    BATCH_SIZE = 2
    MaxObservations = 2
    NoFilter = NoFilter
INVARIANTS
    ExportSound
    DetectionSound
PROPERTIES
    MatchingSound
    SecretsSound
    FormatsAgree
CHECK_DEADLOCK FALSE
