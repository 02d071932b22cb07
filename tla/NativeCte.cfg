SPECIFICATION Spec
CONSTANTS
    c0 = c0  c1 = c1  k0 = k0  k1 = k1  u0 = u0
    CPU = {c0}
    Task = {k0, u0}
    Irq = {"TIMER"}
    NoStack = NoStack
    Boot <- OneBoot
    UserTask = {u0}
    P = 2
    MaxDepth = 2
INVARIANT Masked
PROPERTY PromiseSpec
