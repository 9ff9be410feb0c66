SPECIFICATION Spec
CONSTANTS
    c1 = c1
    c2 = c2
    Calls <- MCCalls
    MaxRetries = 1
    Sessions <- MCSessions
    None = None
INVARIANTS
    InputOnce
    CommandsFollowCalls
PROPERTIES
    CallsEnd
CHECK_DEADLOCK FALSE
