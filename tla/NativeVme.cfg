SPECIFICATION FairSpec
CONSTANTS
    CPU = {c0, c1}
    Space = {s1, s2}
    Page = {p1, p2}
    Frame = {f1}
    Task = {t1, t2}
    NULL = NULL
    Shared = FALSE
    Remap = FALSE
    Preempt = FALSE
INVARIANTS Installed AllUnmapped
PROPERTY ContextKeepsSpace SwitchEnds
