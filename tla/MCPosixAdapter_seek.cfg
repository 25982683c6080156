CONSTANTS
    t1 = t1  t2 = t2  f1 = f1  f2 = f2  i1 = i1  i2 = i2  i3 = i3  d = d  e = e  v = v
    None = None  Zero = Zero  Junk = Junk
    Threads = {t1}  Fds = {f1}  Inodes = {i1}  Paths = {d}  Intercepted = {d}
    Values = {v}  Counts <- CountOne  MaxLen = 1  OpenModes <- ModesPlain  Habits <- Seeking  Deployment <- OneNode
SPECIFICATION Spec
SYMMETRY Symmetry
INVARIANT SeekGetsActualPosition
