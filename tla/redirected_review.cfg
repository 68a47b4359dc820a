SPECIFICATION SessionSpec
CONSTANTS
    Ops <- MCOps
    Tokens <- MCTokens
    UnusableTokens <- MCUnusable
    trim <- MCTrim
    Home <- MCHome
    Targets <- MCTargets
    RedirectLimit = 3
    MaxTries = 2
    Refusal <- SessionRefusal
    Answers <- SessionAnswers
    Strays <- MCStrays
    Read <- SessionRead
    ReadsBody <- SessionReadsBody
    ReadsDeclaration <- SessionReadsDeclaration
    MaxBuild = 2
    Verdicts <- MCVerdicts
    Handshakes <- PEPHandshake
    Drafts <- MCDrafts
    Rank <- MCRank
    Spelling <- MCSpelling
    MAX_IDENTIFIER_BYTES = 128
    MAX_PEP_HANDSHAKE_CAPABILITIES = 3
    MAX_PEP_HANDSHAKE_BYTES = 300
    HEARTBEAT_TIMEOUT = 12
    HEALTH_BUDGET_CAP = 4
    MIN_BUDGET = 1
    Members = {version, tier}
    MaxStall = 13
    Requests = 5
    Limit = 2
    DefaultLimit = 3
    PingCalls = {"get_plan_status"}
    Names <- MCNames
    normalized <- MCnormalized
    size <- MCsize
    Earlier <- MCEarlier
    MAX_RELAYED_VALUE_LEN = 64
    MAX_FEATURES = 2
    MAX_FEATURE_BYTES = 128
    PrefixBytes = 8
INVARIANT
    ReviewRecorded
