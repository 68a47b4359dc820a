SPECIFICATION FairSpec
CONSTANTS
    query = query
    again = again
    other = other
    plan = plan
    raw = raw
    Calls = {query, again, other}
    Request <- MCRequest
    UnusableTokens = {"bob"}
    CacheEnabled = TRUE
    RetryEnabled = TRUE
    max_attempts = 2
    Mode = "Sandbox"
    Answers <- PromiseAnswers
    Breaks = {"connect", "timeout", "reset"}
PROPERTY
    EveryCallReturns
CHECK_DEADLOCK FALSE
