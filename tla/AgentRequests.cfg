SPECIFICATION FairSpec
CONSTANTS
    NoCaller = NoCaller
    Calls = {c1}
    StdinStreams = {s1}
    LegacyStreams = {}
    PromptAgent = TRUE
    MaxAuths = 2
    MaxDrops = 1
    MaxCrashes = 1
    MaxData = 1
    StreamRoom = 1
    HighWater = 0
    Cancelling = {c1}
INVARIANTS
    AnswersMatch
    WaitersAreRegistered
    StreamInOrder
PROPERTIES
    RequestsEnd
CONSTRAINT OneMishap
CHECK_DEADLOCK FALSE
