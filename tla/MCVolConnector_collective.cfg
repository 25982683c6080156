\* Two ranks, one crash; a file with and one without collective metadata.
CONSTANTS
    r0 = r0  r1 = r1  g = g  d = d
    Ranks <- TwoRanks
    Leader = r0
    Groups = {g}
    Dsets = {d}
    None = None
    Sizes = {1, 3}
    RootSizes = {1}
    GInfoBuf = 4
    DInfoBuf = 6
    FoiBuf = 3
    Asserts = FALSE
    Modes = {TRUE, FALSE}
    MaxCalls = 5
    MaxMixed = 4
    MaxCrashes = 1
SPECIFICATION FairSpec
INVARIANTS TypeOK CountersAgree SameObject BroadcastsMatch NoDanglingLink ObjectsIntact
PROPERTIES CallsReturn
CHECK_DEADLOCK FALSE
