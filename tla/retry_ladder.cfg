SPECIFICATION Spec
CONSTANTS
    query = query
    again = again
    other = other
    plan = plan
    raw = raw
    Calls = {query, plan}
    Request <- MCRequest
    UnusableTokens = {}
    CacheEnabled = TRUE
    RetryEnabled = TRUE
    max_attempts = 3
    Mode = "Production"
    Answers <- Everything
    Breaks = {"connect", "timeout", "reset", "drop"}
INVARIANTS
    TypeOK
    MutationOnce
    RefusalStands
    AttemptsBounded
PROPERTIES
    KeepsPromise
CHECK_DEADLOCK FALSE
