SPECIFICATION FairSpec
CONSTANTS
    CPU = {c0}
    Space = {s1}
    Page = {p1, p2}
    Frame = {f1}
    Task = {t1}
    NULL = NULL
    Shared = FALSE
    Remap = TRUE
    Preempt = FALSE
PROPERTY SwitchEnds
