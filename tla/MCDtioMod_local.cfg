CONSTANTS
    c1 = c1  c2 = c2  c3 = c3  b1 = b1  b2 = b2
    Clients = {c1, c2, c3}  Buffers = {b1, b2}  Cells = {x}  Keys = {k}  Values = {u, v}
    Zero = Zero  None = None  Junk = Junk
    N = 1  Home <- OneNode  Ops <- AllOps
    FdLimit = 2  MaxIo = 3  Wrap = 3
SPECIFICATION Spec
SYMMETRY Symmetry
INVARIANT TypeOK
PROPERTY Linearizable
