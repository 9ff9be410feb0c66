SPECIFICATION Spec
CONSTANTS
    Nothing = Nothing
    Images = {"ubuntu", "agent"}
    ImageChain <- MCImageChain
    Sandboxes = {s1, s2}
    Names = {n1, n2}
    Resaving = FALSE
    MaxLayers = 5
    MaxCrashes = 1
INVARIANTS
    RoundTrip
    SavesSurvive
    TopLayersArePrivate
SYMMETRY Symmetry
CHECK_DEADLOCK FALSE
