SPECIFICATION FairSpec
CONSTANTS
    Tasks = {t1, t2}
    AnyTag = g1
    OtherTag = g2
    Tags <- MCTags
    MaxStarts = 2
    MaxFaults = 1
INVARIANTS
    NothingLeaks
    ReadyWhileRunning
    FirstSessionReverts
    NoCheckpointFrozen
PROPERTIES
    CallsEnd
CHECK_DEADLOCK FALSE
