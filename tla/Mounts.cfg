SPECIFICATION Spec
CONSTANTS
    Callers = {c1, c2}
    Starter = start
    Sessions <- MCSessions
    Conns = {k}
    MaxTries = 2
    None = None
INVARIANTS
    SharesMatchMounts
PROPERTIES
    LateConnectionsRefused
    CallsEnd
CHECK_DEADLOCK FALSE
