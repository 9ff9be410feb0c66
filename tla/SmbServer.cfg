SPECIFICATION Spec
CONSTANTS
    Shares = {s}
    ReadOnly = {}
    Names = {"a", "b"}
    Top = "/"
    QueryRequests <- MCQueryRequests
    Ipc = Ipc
    None = None
    Bounds <- MCBounds
INVARIANTS
    HandlesKeepTheirFiles
PROPERTIES
    ListingIsExact
    ChainStaysInFrame
    TreesKeepTheirShare
VIEW View
