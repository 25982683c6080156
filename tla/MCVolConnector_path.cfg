\* A collective file, and a build with assertions.
CONSTANTS
    r0 = r0  r1 = r1  g = g  d = d
    Ranks <- TwoRanks
    Leader = r0
    Groups = {g}
    Dsets = {d}
    None = None
    Sizes = {1, 3}
    RootSizes = {1}
    GInfoBuf = 4
    DInfoBuf = 6
    FoiBuf = 3
    Asserts = TRUE
    Modes = {TRUE}
    MaxCalls = 4
    MaxMixed = 0
    MaxCrashes = 0
SPECIFICATION Spec
INVARIANTS AssertionsHold
CHECK_DEADLOCK FALSE
