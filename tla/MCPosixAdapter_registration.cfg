CONSTANTS
    t1 = t1  t2 = t2  f1 = f1  f2 = f2  i1 = i1  i2 = i2  i3 = i3  d = d  e = e  v = v
    None = None  Zero = Zero  Junk = Junk
    Threads = {t1, t2}  Fds = {f1, f2}  Inodes = {i1, i2}  Paths = {d, e}  Intercepted = {d}
    Values = {}  Counts <- CountOne  MaxLen = 1  OpenModes <- ModesAppend  Habits <- Racing  Deployment <- Deployments
SPECIFICATION Spec
SYMMETRY Symmetry
INVARIANT TypeOK
INVARIANT RegistrationMatchesKernel
