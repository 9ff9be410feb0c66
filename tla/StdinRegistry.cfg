SPECIFICATION Spec
CONSTANTS
    NoExec = NoExec
    NoCall = NoCall
    Ids = {i1, i2}
    Execs = {e1, e2}
    Submits = {}
    EofSubmits = {}
    Abandoning = {}
    Cancels = {}
    OutputCapacity = 1
    MaxChunks = 0
    Exclusives = {e1, e2}
    Legacy = TRUE
    Forking = {e1}
    Leaving = {}
    GroupKills = {TRUE, FALSE}
SYMMETRY Symmetry
INVARIANTS
    LiveProcessIsRegistered
    DescendantsDie
    ExclusiveOutlivesProcess
PROPERTIES
    ImplementsContract
CONSTRAINT Unread
CHECK_DEADLOCK FALSE
