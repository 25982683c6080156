CONSTANTS
    c1 = c1  c2 = c2  c3 = c3  b1 = b1  b2 = b2
    Clients = {c1, c2}  Buffers = {b1, b2}  Cells = {x}  Keys = {k}  Values = {u, v}
    Zero = Zero  None = None  Junk = Junk
    N = 2  Home <- TwoNodes  Ops <- AllButRead
    FdLimit = 9  MaxIo = 4  Wrap = 3
SPECIFICATION FairSpec
INVARIANT BufferHeld ScheduleDistinct FairShare
PROPERTY Linearizable CallsReturn
