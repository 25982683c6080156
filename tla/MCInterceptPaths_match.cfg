SPECIFICATION Spec
CONSTANTS
    empty = empty  tmp = tmp  tmpx = tmpx  home = home  dotdot = dotdot
    Names = {empty, tmp, tmpx, home, dotdot}  Empty = empty
    NameLength <- Length  Begins <- BeginsWith  Tmp <- TmpPath
    Cwds <- WorkingDirs  Listed <- ListedPaths  Opened <- OpenedPaths
    MaxEntries = 2
INVARIANT TypeOK LongestMatchDecides TiesAreOfOnePath
