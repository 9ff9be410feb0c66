SPECIFICATION FairSpec
CONSTANTS
    Requests = {1, 2, 3}
    Agendas <- MCAgendas
    Names = {"ann", "bob"}
    Settler = "ann"
    Root = "root"
    NoRequest = 0
    UidMax = 3
    Workers = 2
    Room = 1
    MaxMishaps = 1
INVARIANTS
    ExclusiveIsAlone
    UidsAreOwn
PROPERTIES
    RequestsReturn
CHECK_DEADLOCK FALSE
