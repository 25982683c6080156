CONSTANTS
    t1 = t1  t2 = t2  f1 = f1  f2 = f2  d = d  e = e  v = v  w = w
    None = None  Zero = Zero
    Threads = {t1, t2}  Fps = {f1, f2}  Paths = {d, e}  Intercepted = {d}
    Values = {v, w}  Counts = {1, 2}  BufSize = 2  MaxStreams = 2  MaxLen = 3
SPECIFICATION Spec
SYMMETRY Symmetry
INVARIANTS TypeOK StreamsMatch NoByteLost
CHECK_DEADLOCK FALSE
