SPECIFICATION InterceptorSpec
CONSTANTS
    query = query
    again = again
    other = other
    Calls = {query, again, other}
    Request <- MCRequest
    UnusableTokens = {}
    CacheEnabled = TRUE
    RetryEnabled = TRUE
    max_attempts = 2
    Mode = "Production"
    Answers <- MCAnswers
    Breaks = {"timeout", "drop"}
    Wrapped = {again, other}
    Unnumbered = {other}
INVARIANTS
    OwnVerdict
    CacheHoldsSuccess
    ModelGoverned
    AuditAttribution
    UnauditedIsExplained
CHECK_DEADLOCK FALSE
