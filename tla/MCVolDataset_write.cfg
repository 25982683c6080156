\* One call of one rank with every selection, and three calls of two ranks that may die.
CONSTANTS
    r1 = r1  r2 = r2  a = a  b = b  c = c
    Ranks <- TwoRanks
    Programs <- WritePrograms
    Contiguous = Contiguous  Chunked = Chunked
    All = All  Gap = Gap  Junk = Junk  None = None
    SeqListLen = 2
    MaxCrashes = 1
SPECIFICATION Spec
INVARIANTS TypeOK ChunksOfCall  BackgroundFits
PROPERTIES Implements WholeSelection
CHECK_DEADLOCK FALSE
