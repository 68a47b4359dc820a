SPECIFICATION Spec
CONSTANTS
    query = query
    again = again
    other = other
    plan = plan
    raw = raw
    Calls = {query}
    Request <- MCRequest
    UnusableTokens = {}
    CacheEnabled = TRUE
    RetryEnabled = TRUE
    max_attempts = 2
    Mode = "Production"
    Answers <- Everything
    Breaks = {"reset"}
PROPERTIES
    CapHeaderTerminal
CHECK_DEADLOCK FALSE
