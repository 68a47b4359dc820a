CONSTANTS
    Procs = {1, 2}
    Calls = {1, 2}
    Home <- MCHome
    HEARTBEAT_INTERVAL = 3
    HEARTBEAT_GUARD_INTERVAL = 1
    MAX_DOUBLINGS = 2
    StampHosts = {1, 2}
    Faults = {}
    Never = Never
    Ahead = Ahead
SPECIFICATION Spec
PROPERTIES
    MachineCadence
