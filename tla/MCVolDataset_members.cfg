\* One rank writes whole elements, then single members with a type that has no other.
CONSTANTS
    r1 = r1  r2 = r2  a = a  b = b  c = c
    Ranks <- TwoRanks
    Programs <- MemberPrograms
    Contiguous = Contiguous  Chunked = Chunked
    All = All  Gap = Gap  Junk = Junk  None = None
    SeqListLen = 2
    MaxCrashes = 0
SPECIFICATION Spec
PROPERTIES MembersKept
CHECK_DEADLOCK FALSE
