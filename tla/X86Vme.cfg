SPECIFICATION Spec
CONSTANTS
    c0 = c0  c1 = c1  k1 = k1  k2 = k2
    CPU = {c0, c1}
    BSP = c0
    Space = {s1, s2}
    Page = {p1, p2, p3}
    Frame = {f1}
    Task = {t1}
    NULL = NULL
    L = 2
    Idx <- Indexes
    UserVa <- User
    KernelVa <- Kernel
    KTable <- Tables
    Arch = 64
SYMMETRY Symmetry
INVARIANTS PagesAccounted UserSpace TlbFresh
PROPERTY MapsSpec
CHECK_DEADLOCK FALSE
