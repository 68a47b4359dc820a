CONSTANTS
    Procs = {1}
    Calls = {1, 2, 3}
    Home <- MCHome
    HEARTBEAT_INTERVAL = 4
    HEARTBEAT_GUARD_INTERVAL = 1
    MAX_DOUBLINGS = 3
    StampHosts = {1}
    Faults = {"outage", "lostAnswer", "build", "readonly", "cancel", "exit", "crash",
              "stall", "clock", "optout"}
    Never = Never
    Ahead = Ahead
SPECIFICATION Spec
INVARIANTS
    TypeOK
    OneLiveSlot
    OnlyAttemptsWiden
PROPERTIES
    ProcessCadence
