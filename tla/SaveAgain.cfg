SPECIFICATION Spec
CONSTANTS
    Nothing = Nothing
    Images = {"ubuntu", "agent"}
    ImageChain <- MCImageChain
    Sandboxes = {s1, s2}
    Names = {n1, n2}
    Resaving = TRUE
    MaxLayers = 6
    MaxCrashes = 0
INVARIANTS
    RoundTrip
CHECK_DEADLOCK FALSE
