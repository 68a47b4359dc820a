CONSTANTS
    Procs = {1}
    Calls = {1, 2}
    Home <- MCHome
    HEARTBEAT_INTERVAL = 9
    HEARTBEAT_GUARD_INTERVAL = 1
    MAX_DOUBLINGS = 4
    StampHosts = {1}
    Faults = {"outage", "exit", "readonly", "lostAnswer", "optout"}
    Never = Never
    Ahead = Ahead
SPECIFICATION FairSpec
PROPERTIES
    UnreachableBacksOff
    StaysVisible
