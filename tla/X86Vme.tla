-------------------------------- MODULE X86Vme --------------------------------
(***************************************************************************)
(* Address spaces of x86-qemu: page tables made of pages from the kernel's *)
(* allocator, the registers CR3 and TSS.RSP0 that each trap saves and each *)
(* return may load, and the translations a processor caches until CR3 is   *)
(* loaded.  am/src/x86/qemu: vme.c, cte.c, start64.S.                      *)
(*                                                                         *)
(* On x86_64 every processor boots with paging and with the kernel's       *)
(* tables; on i386 vme_init builds them and turns paging on.  The model    *)
(* has one size of page, where start64.S maps the kernel by large ones.    *)
(***************************************************************************)
EXTENDS Naturals, Sequences

CONSTANTS
    CPU, BSP,           \* processors; the one that boots first
    Space,              \* AddrSpace objects
    Page,               \* pages of the kernel's allocator
    Frame,              \* physical pages to map
    Task,               \* contexts made by kcontext and ucontext
    NULL,
    L,                  \* mmu.ptlevels
    Idx,                \* indexes of a table
    UserVa, KernelVa,   \* virtual pages, by their indexes of levels 1 to L
    KTable,             \* where the kernel's tables are, by address prefix
    Arch                \* 32 or 64

ASSUME ArchAssumption == Arch \in {32, 64} /\ BSP \in CPU
ASSUME VaAssumption ==
    /\ L \in Nat \ {0}
    /\ UserVa \cup KernelVa \subseteq [1 .. L -> Idx]
    /\ KernelVa # {}
    /\ \A u \in UserVa, k \in KernelVa : u[1] # k[1]

Prefix == UNION {{SubSeq(va, 1, d) : d \in 0 .. L - 1} : va \in KernelVa}
KPage == {KTable[p] : p \in Prefix}
ASSUME TableAssumption ==
    /\ KPage \cap Page = {}
    /\ \A p, q \in Prefix : KTable[p] = KTable[q] => p = q
(* NULL is the null pointer, and no map. *)
ASSUME NullAssumption ==
    /\ NULL \notin Page \cup KPage \cup Frame \cup Space
    /\ NULL \notin [UserVa -> Frame \cup {NULL}]

Context == Task \cup CPU    \* each CPU starts in a context of its own

Absent == [next |-> NULL, u |-> FALSE]
Entry == [next : Page \cup KPage \cup Frame \cup KernelVa \cup {NULL}, u : BOOLEAN]
ZeroPage == [i \in Idx |-> Absent]

VARIABLES
    pool,       \* free pages of the kernel's allocator
    pt,         \* contents of each page
    kpt,        \* root of the kernel's tables, NULL before vme_init
    made,       \* the protected spaces
    ptr,        \* as->ptr: the root of each space
    live,       \* contexts the kernel keeps
    space,      \* the space of a user context, NULL for the others
    ctx,        \* cr3 and rsp0 in each Context
    run, mode,  \* context on each CPU; "run", or "handler" during a trap
    cr3, pg, rsp0, tlb,
    op,         \* the map() in progress on each CPU
    halted      \* a panic stopped the machine

tables == <<pool, pt, kpt, made, ptr>>
tasks == <<live, space, ctx>>
cpu == <<run, mode, cr3, pg, rsp0, tlb>>
vars == <<tables, tasks, cpu, op, halted>>

Op == [what : {"idle", "map", "unmap"}, space : Space \cup {NULL},
       va : UserVa \cup {NULL}, pa : Frame \cup {NULL},
       i : 1 .. L, cur : Page \cup {NULL}]
Idle == [what |-> "idle", space |-> NULL, va |-> NULL, pa |-> NULL,
         i |-> 1, cur |-> NULL]

(* The kernel's tables map KernelVa to itself; no entry has PTE_U. *)
KernelTable(p) ==
    [i \in Idx |->
        LET q == Append(p, i)
        IN  [next |-> IF q \in Prefix THEN KTable[q]
                      ELSE IF q \in KernelVa THEN q ELSE NULL, u |-> FALSE]]
WithKernel(old) ==
    [x \in Page \cup KPage |->
        IF x \in KPage THEN KernelTable(CHOOSE p \in Prefix : KTable[p] = x)
                       ELSE old[x]]

Init ==
    /\ pool = Page
    /\ LET none == [x \in Page \cup KPage |-> ZeroPage]
       IN  pt = IF Arch = 64 THEN WithKernel(none) ELSE none
    /\ cr3 = [c \in CPU |-> IF Arch = 64 THEN KTable[<<>>] ELSE NULL]
    /\ kpt = NULL
    /\ made = {} /\ ptr = [h \in Space |-> NULL]
    /\ live = CPU
    /\ space = [k \in Context |-> NULL]
    /\ ctx = [k \in Context |-> [cr3 |-> NULL, rsp0 |-> NULL]]
    /\ run = [c \in CPU |-> c] /\ mode = [c \in CPU |-> "run"]
    /\ pg = [c \in CPU |-> Arch = 64]
    /\ rsp0 = [c \in CPU |-> NULL]
    /\ tlb = [c \in CPU |-> {}]
    /\ op = [c \in CPU |-> Idle]
    /\ halted = FALSE

-----------------------------------------------------------------------------
(* Kernel code runs on c: a handler, or a kernel context. *)
InKernel(c) ==
    op[c] = Idle /\ (mode[c] = "handler" \/ space[run[c]] = NULL)

Panic == halted' = TRUE /\ UNCHANGED <<tables, tasks, cpu, op>>

(* vme_init: on i386 the tables are built, from the first pages the        *)
(* allocator gives, which it never gets back.                              *)
VmeInit ==
    /\ InKernel(BSP) /\ kpt = NULL
    /\ kpt' = KTable[<<>>]
    /\ pt' = WithKernel(pt)
    /\ cr3' = [cr3 EXCEPT ![BSP] = kpt']
    /\ pg' = [pg EXCEPT ![BSP] = TRUE]
    /\ tlb' = [tlb EXCEPT ![BSP] = {}]
    /\ UNCHANGED <<pool, made, ptr, tasks, run, mode, rsp0, op, halted>>

(* A new root: the level-1 entries of the kernel areas, all others absent. *)
ProtectRoot(x) ==
    [i \in Idx |-> IF \E k \in KernelVa : k[1] = i THEN pt[kpt][i] ELSE Absent]

protect(c, h) ==
    /\ InKernel(c) /\ kpt # NULL /\ h \notin made
    /\ IF pool = {} THEN Panic
       ELSE \E x \in pool :
              /\ pool' = pool \ {x}
              /\ pt' = [pt EXCEPT ![x] = ProtectRoot(x)]
              /\ ptr' = [ptr EXCEPT ![h] = x]
              /\ made' = made \cup {h}
              /\ UNCHANGED <<kpt, tasks, cpu, op, halted>>

(* teardown: the tables that it frees, level by level from the root. *)
TeardownRoot(root) == {root}   \* mutant: the recursion is missing
Teardown(root) ==
    LET reach[d \in 1 .. L] ==
          IF d = 1 THEN {root}
          ELSE UNION {{pt[x][i].next : i \in {j \in Idx : pt[x][j].u}} :
                        x \in reach[d - 1]}
    IN  UNION {reach[d] : d \in 1 .. L}

(* A careful kernel calls unprotect when no CPU and no context uses the    *)
(* tables -- kernel contexts included, which keep the CR3 they ran with.   *)
Unused(h) ==
    /\ \A c \in CPU : cr3[c] # ptr[h] /\ op[c].space # h
    /\ \A k \in live : space[k] # h /\ ctx[k].cr3 # ptr[h]

unprotect(c, h) ==
    /\ InKernel(c) /\ h \in made /\ Unused(h)
    /\ pool' = pool \cup Teardown(ptr[h])
    /\ made' = made \ {h}
    /\ UNCHANGED <<pt, kpt, ptr, tasks, cpu, op, halted>>

(* map(), ptwalk at level 0: as->ptr is present.  The kernel holds a lock  *)
(* for each space, keeps interrupts off, and lets no other CPU run user    *)
(* code of a space while a page of it is unmapped.                         *)
MapBegin(c, h, va, pa) ==
    /\ InKernel(c) /\ h \in made
    /\ \A d \in CPU : op[d].space # h
    /\ pa = NULL => \A d \in CPU \ {c} : mode[d] = "run" => space[run[d]] # h
    /\ op' = [op EXCEPT ![c] = [what |-> IF pa = NULL THEN "unmap" ELSE "map",
                  space |-> h, va |-> va, pa |-> pa, i |-> 1, cur |-> ptr[h]]]
    /\ UNCHANGED <<tables, tasks, cpu, halted>>

(* ptwalk at levels 1 .. L - 1: follow the entry, or allocate a table, *)
(* which pgallocz clears.                                              *)
AtLeaf(o) == o.i = L
LinkDirty(o, x) ==             \* mutant: the new table is not cleared
    [pt EXCEPT ![o.cur][o.va[o.i]] = [next |-> x, u |-> TRUE]]
Link(o, x) ==
    [pt EXCEPT ![o.cur][o.va[o.i]] = [next |-> x, u |-> TRUE],
               ![x] = ZeroPage]
Walk(c) ==
    LET o == op[c]  e == pt[o.cur][o.va[o.i]]
    IN  /\ o.what # "idle" /\ ~AtLeaf(o)
        /\ IF e.next # NULL
           THEN /\ op' = [op EXCEPT ![c].i = @ + 1, ![c].cur = e.next]
                /\ UNCHANGED <<tables, tasks, cpu, halted>>
           ELSE IF pool = {} THEN Panic
           ELSE \E x \in pool :
                  /\ pool' = pool \ {x}
                  /\ pt' = Link(o, x)
                  /\ op' = [op EXCEPT ![c].i = @ + 1, ![c].cur = x]
                  /\ UNCHANGED <<kpt, made, ptr, tasks, cpu, halted>>

(* map(): the entry of the page, which must be absent to map it and        *)
(* present to unmap it.                                                    *)
MapEnd(c) ==
    LET o == op[c]  e == pt[o.cur][o.va[L]]
    IN  /\ o.what # "idle" /\ AtLeaf(o)
        /\ IF (o.what = "map") = (e.next # NULL) THEN Panic
           ELSE /\ pt' = [pt EXCEPT ![o.cur][o.va[L]] =
                            IF o.what = "map" THEN [next |-> o.pa, u |-> TRUE]
                                              ELSE Absent]
                /\ op' = [op EXCEPT ![c] = Idle]
                /\ UNCHANGED <<pool, kpt, made, ptr, tasks, cpu, halted>>

-----------------------------------------------------------------------------
Resumable(c, k) ==
    /\ k \in live /\ \A d \in CPU \ {c} : run[d] # k
    /\ \A d \in CPU : op[d].what = "unmap" => space[k] # op[d].space

New(c, k) == InKernel(c) /\ k \notin live /\ \A d \in CPU : run[d] # k

kcontext(c, k) ==
    /\ New(c, k)
    /\ live' = live \cup {k}
    /\ space' = [space EXCEPT ![k] = NULL]
    /\ ctx' = [ctx EXCEPT ![k] = [cr3 |-> NULL, rsp0 |-> NULL]]
    /\ UNCHANGED <<tables, cpu, op, halted>>

ucontext(c, h, k) ==
    /\ New(c, k) /\ h \in made
    /\ live' = live \cup {k}
    /\ space' = [space EXCEPT ![k] = h]
    /\ ctx' = [ctx EXCEPT ![k] = [cr3 |-> ptr[h], rsp0 |-> k]]
    /\ UNCHANGED <<tables, cpu, op, halted>>

(* The kernel forgets the context of a task that ended. *)
Exit(c, k) ==
    /\ InKernel(c) /\ k \in live
    /\ \A d \in CPU : run[d] = k => d = c /\ mode[c] = "handler"
    /\ live' = live \ {k}
    /\ UNCHANGED <<tables, space, ctx, cpu, op, halted>>

(* __am_irq_handle up to the call of the handler. *)
Trap(c) ==
    /\ mode[c] = "run" /\ op[c] = Idle
    /\ ctx' = [ctx EXCEPT ![run[c]] = [cr3 |-> cr3[c], rsp0 |-> rsp0[c]]]
    /\ mode' = [mode EXCEPT ![c] = "handler"]
    /\ UNCHANGED <<tables, live, space, run, cr3, pg, rsp0, tlb, op, halted>>

(* The handler returns k: CR3 and RSP0 are loaded if the context has a CR3. *)
LoadIfSwitched(c, k) ==    \* mutant: no load when the context is not switched
    IF ctx[k].cr3 # NULL /\ k # run[c]
    THEN /\ cr3' = [cr3 EXCEPT ![c] = ctx[k].cr3]
         /\ rsp0' = [rsp0 EXCEPT ![c] = ctx[k].rsp0]
         /\ tlb' = [tlb EXCEPT ![c] = {}]
    ELSE UNCHANGED <<cr3, rsp0, tlb>>
LoadNoStack(c, k) ==       \* mutant: RSP0 is not loaded
    IF ctx[k].cr3 # NULL
    THEN /\ cr3' = [cr3 EXCEPT ![c] = ctx[k].cr3]
         /\ tlb' = [tlb EXCEPT ![c] = {}]
         /\ UNCHANGED rsp0
    ELSE UNCHANGED <<cr3, rsp0, tlb>>
LoadSpace(c, k) ==
    IF ctx[k].cr3 # NULL
    THEN /\ cr3' = [cr3 EXCEPT ![c] = ctx[k].cr3]
         /\ rsp0' = [rsp0 EXCEPT ![c] = ctx[k].rsp0]
         /\ tlb' = [tlb EXCEPT ![c] = {}]
    ELSE UNCHANGED <<cr3, rsp0, tlb>>
Return(c, k) ==
    /\ mode[c] = "handler" /\ op[c] = Idle
    /\ Resumable(c, k)
    /\ LoadSpace(c, k)
    /\ run' = [run EXCEPT ![c] = k]
    /\ mode' = [mode EXCEPT ![c] = "run"]
    /\ UNCHANGED <<tables, tasks, pg, op, halted>>

-----------------------------------------------------------------------------
(* What the tables below root say of va: the hardware's walk. *)
Lookup(root, va) ==
    LET walk[d \in 1 .. L + 1] ==
          IF d = 1 THEN root
          ELSE IF walk[d - 1] = NULL THEN NULL
          ELSE pt[walk[d - 1]][va[d - 1]].next
    IN  walk[L + 1]

UserRuns(c) == mode[c] = "run" /\ space[run[c]] # NULL

(* User code touches a page: the processor caches its translation. *)
Touch(c, va) ==
    /\ UserRuns(c) /\ pg[c] /\ Lookup(cr3[c], va) # NULL
    /\ tlb' = [tlb EXCEPT ![c] = @ \cup {<<va, Lookup(cr3[c], va)>>}]
    /\ UNCHANGED <<tables, tasks, run, mode, cr3, pg, rsp0, op, halted>>

Step(c) ==
    \/ \E h \in Space : protect(c, h) \/ unprotect(c, h)
    \/ \E h \in Space, va \in UserVa, pa \in Frame \cup {NULL} :
         MapBegin(c, h, va, pa)
    \/ Walk(c) \/ MapEnd(c)
    \/ \E k \in Task : kcontext(c, k) \/ Exit(c, k)
    \/ \E h \in Space, k \in Task : ucontext(c, h, k)
    \/ Trap(c) \/ \E k \in Context : Return(c, k)
    \/ \E va \in UserVa : Touch(c, va)

Next == ~halted /\ (VmeInit \/ \E c \in CPU : Step(c))
Spec == Init /\ [][Next]_vars

-----------------------------------------------------------------------------
(* Every variable has its type. *)
TypeOK ==
    /\ halted \in BOOLEAN
    /\ pool \subseteq Page /\ pt \in [Page \cup KPage -> [Idx -> Entry]]
    /\ kpt \in KPage \cup {NULL}
    /\ made \subseteq Space /\ ptr \in [Space -> Page \cup {NULL}]
    /\ live \subseteq Context /\ space \in [Context -> Space \cup {NULL}]
    /\ ctx \in [Context -> [cr3 : Page \cup KPage \cup {NULL},
                            rsp0 : Context \cup {NULL}]]
    /\ run \in [CPU -> Context] /\ mode \in [CPU -> {"run", "handler"}]
    /\ cr3 \in [CPU -> Page \cup KPage \cup {NULL}] /\ pg \in [CPU -> BOOLEAN]
    /\ rsp0 \in [CPU -> Context \cup {NULL}]
    /\ tlb \in [CPU -> SUBSET (UserVa \X Frame)]
    /\ op \in [CPU -> Op]

(* Every page is free or a table of exactly one space: unprotect frees     *)
(* each table once, leaks none, and never takes one that the kernel or     *)
(* another space uses.                                                     *)
PagesAccounted ==
    /\ TypeOK
    /\ \A h \in made : Teardown(ptr[h]) \subseteq Page \ pool
    /\ \A g, h \in made :
         g # h => Teardown(ptr[g]) \cap Teardown(ptr[h]) = {}
    /\ Page = pool \cup UNION {Teardown(ptr[h]) : h \in made}

(* User code runs in its own space, and the next trap will save it on its  *)
(* own kernel stack: kernel contexts keep the CR3 and the RSP0 of whatever *)
(* ran before, on whichever CPU, and pass them on.  The kernel sees all of *)
(* its memory whatever space is loaded, so that a trap never faults.       *)
UserSpace ==
    \A c \in CPU :
        /\ UserRuns(c) => cr3[c] = ptr[space[run[c]]] /\ rsp0[c] = run[c]
        /\ \A va \in KernelVa : pg[c] => Lookup(cr3[c], va) = va

(* User code never uses a translation that map() has removed, although     *)
(* map() does not invalidate any.                                          *)
TlbFresh ==
    \A c \in CPU : UserRuns(c) =>
        \A e \in tlb[c] : Lookup(cr3[c], e[1]) = e[2]

(* A user context runs only with paging on.  On i386 only the boot         *)
(* processor turns it on.                                                  *)
UserPaged == \A c \in CPU : UserRuns(c) => pg[c]

-----------------------------------------------------------------------------
(* An inductive invariant.  It has a witness: where each table in use is, that *)
(* is, in which space, and by which indexes it is reached from the root.   *)
InUse == Page \ pool
Path == UNION {[1 .. d -> Idx] : d \in 0 .. L - 1}
Place == [space : Space, path : Path]

Below(a, i) == [space |-> a.space, path |-> Append(a.path, i)]
TableOf(h, va, d) == [space |-> h, path |-> SubSeq(va, 1, d - 1)]
KernelIdx(i) == \E k \in KernelVa : k[1] = i

(* The user's entries lead to the table below, or to a frame at the last   *)
(* level; the kernel's are in the root, and nothing else is present.       *)
EntryPlaced(at, x, i) ==
    LET e == pt[x][i]
        ofKernel == at[x].path = <<>> /\ KernelIdx(i)
    IN  /\ e.u /\ Len(at[x].path) = L - 1 => e.next \in Frame
        /\ e.u /\ Len(at[x].path) # L - 1 =>
             e.next \in InUse /\ at[e.next] = Below(at[x], i)
        /\ ofKernel => e = KernelTable(<<>>)[i]
        /\ ~e.u /\ ~ofKernel => e = Absent

(* No two tables are in one place, and each is the root of a space or has  *)
(* an entry that leads to it.                                              *)
Placed(at) ==
    /\ \A h \in made : ptr[h] \in InUse /\ at[ptr[h]] = [space |-> h, path |-> <<>>]
    /\ \A x \in InUse : at[x].space \in made
    /\ \A x, y \in InUse : at[x] = at[y] => x = y
    /\ \A x \in InUse, i \in Idx : EntryPlaced(at, x, i)
    /\ \A y \in InUse : at[y].path # <<>> =>
         \E x \in InUse, i \in Idx :
            pt[x][i] = [next |-> y, u |-> TRUE] /\ at[y] = Below(at[x], i)

(* map() is at the table of its level. *)
OnItsWay(at) ==
    \A c \in CPU : op[c].what # "idle" =>
        /\ op[c].space \in made /\ op[c].va \in UserVa /\ op[c].cur \in InUse
        /\ at[op[c].cur] = TableOf(op[c].space, op[c].va, op[c].i)
        /\ op[c].what = "map" => op[c].pa \in Frame

(* The translations that user code has cached are in its tables. *)
Cached(at) ==
    \A c \in CPU : UserRuns(c) => \A e \in tlb[c] : \E x \in InUse :
        /\ at[x] = TableOf(space[run[c]], e[1], L)
        /\ pt[x][e[1][L]].next = e[2]

(* The kernel's tables are as they were built. *)
Built == Arch = 64 \/ kpt # NULL
KernelTables ==
    /\ kpt \in {NULL, KTable[<<>>]} /\ (made # {} => kpt # NULL)
    /\ Built => \A p \in Prefix : pt[KTable[p]] = KernelTable(p)

(* CR3 is a root that is in use, on each CPU and in each context. *)
Root(x) ==
    \/ x = NULL \/ (x = KTable[<<>>] /\ Built)
    \/ \E h \in made : x = ptr[h]
RootsLoaded ==
    /\ \A c \in CPU : Root(cr3[c]) /\ (pg[c] => cr3[c] # NULL)
    /\ \A k \in live : Root(ctx[k].cr3)

(* A context runs on one CPU, which maps no pages while user code runs. *)
RunsOnce ==
    /\ \A c, d \in CPU : run[c] = run[d] => c = d
    /\ \A c \in CPU : mode[c] = "run" => run[c] \in live
    /\ \A c \in CPU : UserRuns(c) => op[c].what = "idle"

(* A user context knows its space and its stack, suspended or not. *)
OwnSpace ==
    /\ \A k \in live : space[k] # NULL =>
         space[k] \in made /\ ctx[k] = [cr3 |-> ptr[space[k]], rsp0 |-> k]
    /\ \A c \in CPU : UserRuns(c) =>
         cr3[c] = ptr[space[run[c]]] /\ rsp0[c] = run[c]

(* No user code of a space runs while a page of it is unmapped. *)
UnmapAlone ==
    \A c, d \in CPU :
        UserRuns(c) /\ op[d].what = "unmap" => space[run[c]] # op[d].space

IInv ==
    /\ TypeOK /\ KernelTables /\ RootsLoaded /\ RunsOnce /\ OwnSpace /\ UnmapAlone
    /\ \E at \in [InUse -> Place] : Placed(at) /\ OnItsWay(at) /\ Cached(at)

(* The page tables implement address maps. *)
Maps == INSTANCE AddrMaps WITH
    maps <- [h \in Space |-> IF h \notin made THEN NULL
                             ELSE [va \in UserVa |-> Lookup(ptr[h], va)]]
MapsSpec == Maps!Spec
=============================================================================
