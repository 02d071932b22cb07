SPECIFICATION Spec
CONSTANTS
    c0 = c0  c1 = c1  k0 = k0  k1 = k1  u0 = u0
    CPU = {c0, c1}
    Task = {k0, k1, u0}
    Irq = {"TIMER"}
    NoStack = NoStack
    Boot <- TwoBoot
    UserTask = {u0}
    P = 1
    MaxDepth = 1
INVARIANTS UserKsp StackExclusive
PROPERTY PromiseSpec
