SPECIFICATION FairSpec
CONSTANTS
    NoExec = NoExec
    NoCall = NoCall
    Ids = {i1}
    Execs = {e1}
    Submits = {s1, s2, s3}
    EofSubmits = {s3}
    Abandoning = {s1}
    Cancels = {k1, k2}
    OutputCapacity = 1
    MaxChunks = 1
    Exclusives = {e1}
    Legacy = FALSE
    Forking = {}
    Leaving = {e1}
    GroupKills = {TRUE}
INVARIANTS
    InputIsFaithful
    CancelMeansGone
    OutputProtocol
PROPERTIES
    CallsReturn
CONSTRAINT Apart
CHECK_DEADLOCK FALSE
