------------------------------ MODULE NativeVme ------------------------------
(***************************************************************************)
(* Address spaces of the native platform: am/src/native/vme.c.             *)
(*                                                                         *)
(* Every AM CPU is a Linux process.  A VMHead and its list of PageMap nodes *)
(* live in memory that all the processes share, but what a process can     *)
(* reach in user space is its own set of mmap()ed pages.  __am_switch      *)
(* walks two lists to change that set, page by page, while the other CPUs  *)
(* run; the flag is_mapped, which says what has to be undone, is in the    *)
(* shared node although the mapping it describes is not shared.            *)
(*                                                                         *)
(* The kernel that calls this code is outside the repository.  It is       *)
(* modelled by what it may call, and three constants say how careful it    *)
(* is: Shared (an address space may be in use on two CPUs), Remap (map()   *)
(* may be called on a page that is already mapped) and Preempt (map() may  *)
(* be called with interrupts enabled).                                     *)
(***************************************************************************)
EXTENDS Naturals

CONSTANTS
    CPU,      \* the processes forked by mpe_init
    Space,    \* VMHead objects
    Page,     \* page-aligned addresses in USER_SPACE
    Frame,    \* page-aligned physical addresses, with their protection
    Task,     \* contexts made by kcontext and ucontext
    NULL,
    Shared, Remap, Preempt

ASSUME SetsAssumption ==
    /\ NULL \notin Space \cup Page \cup Frame
    /\ Task \cap CPU = {}
    /\ CPU # {}
ASSUME KernelAssumption ==
    /\ Shared \in BOOLEAN /\ Remap \in BOOLEAN /\ Preempt \in BOOLEAN

(* The context a CPU was started in is named by the CPU itself. *)
Context == Task \cup CPU

VARIABLES
    vme_enable,
    made,       \* the VMHeads that protect() has set up
    pages,      \* VMHead.hash: the pages that have a PageMap node
    head,       \* VMHead.head
    nr_page,    \* VMHead.nr_page
    pp,         \* the PageMap node of a page
    mem,        \* what mmap() has installed in the process of each CPU
    vm_head,    \* thiscpu->vm_head
    live,       \* contexts that exist
    ctx,        \* the saved contexts: vm_head and the map() call cut short
    running,    \* the context each CPU runs, or has just stopped
    op,         \* the map() call in progress on each CPU
    pc, to, cur \* irq_handle: where it is, the context chosen, list cursor

lists == <<made, pages, head, nr_page, pp>>
vars == <<vme_enable, made, pages, head, nr_page, pp, mem, vm_head, live,
          ctx, running, op, pc, to, cur>>

Idle == [at |-> "idle", space |-> NULL, va |-> NULL]
NoPage == [va \in Page |-> NULL]

Node == [pa : Frame \cup {NULL}, next : Page \cup {NULL},
         is_mapped : BOOLEAN, born : Nat]
Op == [at : {"idle", "install", "flag"}, space : Space \cup {NULL},
       va : Page \cup {NULL}]

(* born numbers the nodes of a list in the order they were linked; it is   *)
(* a history variable that no action reads except to say nr_page.          *)
Init ==
    /\ vme_enable = FALSE
    /\ made = {}
    /\ pages = [h \in Space |-> {}]
    /\ head = [h \in Space |-> NULL]
    /\ nr_page = [h \in Space |-> 0]
    /\ pp = [h \in Space |-> [va \in Page |->
              [pa |-> NULL, next |-> NULL, is_mapped |-> FALSE, born |-> 0]]]
    /\ mem = [c \in CPU |-> NoPage]
    /\ vm_head = [c \in CPU |-> NULL]
    /\ live = CPU
    /\ ctx = [k \in Context |-> [vm_head |-> NULL, op |-> Idle]]
    /\ running = [c \in CPU |-> c]
    /\ op = [c \in CPU |-> Idle]
    /\ pc = [c \in CPU |-> "run"]
    /\ to = [c \in CPU |-> c]
    /\ cur = [c \in CPU |-> NULL]

-----------------------------------------------------------------------------
(* Kernel code runs on c, in a context of its own, on behalf of a user     *)
(* context, or in the user handler that irq_handle called.                 *)
InKernel(c) == pc[c] \in {"run", "handler"} /\ op[c] = Idle

Switching(c) == pc[c] \in {"unmap", "mapall", "end"}

(* c reads or writes the node list of h, or has its pages installed. *)
Uses(c, h) ==
    \/ vm_head[c] = h
    \/ Switching(c) /\ ctx[to[c]].vm_head = h
    \/ op[c].space = h

Exclusive(c, h) == Shared \/ \A d \in CPU \ {c} : ~Uses(d, h)

VmeInit(c) ==
    /\ InKernel(c)
    /\ ~vme_enable
    /\ vme_enable' = TRUE
    /\ UNCHANGED <<lists, mem, vm_head, live, ctx, running, op, pc, to, cur>>

protect(c, h) ==
    /\ InKernel(c) /\ vme_enable
    /\ h \notin made
    /\ made' = made \cup {h}
    /\ UNCHANGED <<vme_enable, pages, head, nr_page, pp, mem, vm_head, live,
                   ctx, running, op, pc, to, cur>>

kcontext(c, k) ==
    /\ InKernel(c)
    /\ k \notin live
    /\ live' = live \cup {k}
    /\ ctx' = [ctx EXCEPT ![k].vm_head = NULL]
    /\ UNCHANGED <<vme_enable, lists, mem, vm_head, running, op, pc, to, cur>>

ucontext(c, h, k) ==
    /\ InKernel(c)
    /\ k \notin live /\ h \in made
    /\ live' = live \cup {k}
    /\ ctx' = [ctx EXCEPT ![k].vm_head = h]
    /\ UNCHANGED <<vme_enable, lists, mem, vm_head, running, op, pc, to, cur>>

(* What map() writes in the node of va before it links it. *)
NewNode(h, va, pa) ==
    [pa |-> pa, next |-> head[h], is_mapped |-> FALSE,
     born |-> IF va \in pages[h] THEN pp[h][va].born ELSE nr_page[h] + 1]

(* map(): find or make the node, fill it in and link it at the head of the *)
(* list -- also when the list holds it already.                            *)
MapLink(c, h, va, pa) ==
    /\ InKernel(c)
    /\ h \in made /\ Exclusive(c, h)
    /\ Remap \/ va \notin pages[h]
    /\ pages' = [pages EXCEPT ![h] = @ \cup {va}]
    /\ nr_page' = [nr_page EXCEPT ![h] = IF va \in pages[h] THEN @ ELSE @ + 1]
    /\ pp' = [pp EXCEPT ![h][va] = NewNode(h, va, pa)]
    /\ head' = [head EXCEPT ![h] = va]
    /\ op' = [op EXCEPT ![c] = [at |-> "install", space |-> h, va |-> va]]
    /\ UNCHANGED <<vme_enable, made, mem, vm_head, live, ctx, running,
                   pc, to, cur>>

(* map(): enforce the map immediately, if this CPU runs the space. *)
MapInstall(c) ==
    /\ pc[c] \in {"run", "handler"} /\ op[c].at = "install"
    /\ LET h == op[c].space  va == op[c].va
       IN  IF h = vm_head[c]
             THEN /\ mem' = [mem EXCEPT ![c][va] = pp[h][va].pa]
                  /\ op' = [op EXCEPT ![c].at = "flag"]
             ELSE /\ op' = [op EXCEPT ![c] = Idle]
                  /\ UNCHANGED mem
    /\ UNCHANGED <<vme_enable, lists, vm_head, live, ctx, running, pc, to, cur>>

MapFlagLost(c) ==      \* mutant: map() forgets to set is_mapped
    /\ pc[c] \in {"run", "handler"} /\ op[c].at = "flag"
    /\ op' = [op EXCEPT ![c] = Idle]
    /\ UNCHANGED <<vme_enable, lists, mem, vm_head, live, ctx, running,
                   pc, to, cur>>
MapFlag(c) ==
    /\ pc[c] \in {"run", "handler"} /\ op[c].at = "flag"
    /\ pp' = [pp EXCEPT ![op[c].space][op[c].va].is_mapped = TRUE]
    /\ op' = [op EXCEPT ![c] = Idle]
    /\ UNCHANGED <<vme_enable, made, pages, head, nr_page, mem, vm_head, live,
                   ctx, running, pc, to, cur>>

-----------------------------------------------------------------------------
(* A signal arrives: the interrupted context is saved and irq_handle calls *)
(* the user handler.  A map() call is cut short only when the kernel makes *)
(* it with interrupts enabled.                                             *)
Trap(c) ==
    /\ pc[c] = "run"
    /\ Preempt \/ op[c] = Idle
    /\ ctx' = [ctx EXCEPT ![running[c]] =
                 [vm_head |-> vm_head[c], op |-> op[c]]]
    /\ op' = [op EXCEPT ![c] = Idle]
    /\ pc' = [pc EXCEPT ![c] = "handler"]
    /\ UNCHANGED <<vme_enable, lists, mem, vm_head, live, running, to, cur>>

(* The first test of __am_switch. *)
SwitchEntry(now, new) ==
    IF ~vme_enable THEN "iret" ELSE IF new = now THEN "end" ELSE "unmap"

ListHead(h) == IF h = NULL THEN NULL ELSE head[h]

(* The user handler returns the context to run: the one that was           *)
(* interrupted or another that no CPU is still on.  __am_switch starts.    *)
HandlerReturn(c, k) ==
    /\ pc[c] = "handler" /\ op[c] = Idle
    /\ k \in live
    /\ \A d \in CPU \ {c} : running[d] # k /\ to[d] # k
    /\ LET h == ctx[k].vm_head
       IN  /\ h # NULL => Exclusive(c, h)
           /\ pc' = [pc EXCEPT ![c] = SwitchEntry(vm_head[c], h)]
    /\ to' = [to EXCEPT ![c] = k]
    /\ cur' = [cur EXCEPT ![c] = ListHead(vm_head[c])]
    /\ UNCHANGED <<vme_enable, lists, mem, vm_head, live, ctx, running, op>>

(* __am_switch, one node of the first loop. *)
Unmap(c) ==
    /\ pc[c] = "unmap" /\ cur[c] # NULL
    /\ LET h == vm_head[c]  p == cur[c]
       IN  /\ IF pp[h][p].is_mapped
                THEN /\ mem' = [mem EXCEPT ![c][p] = NULL]
                     /\ pp' = [pp EXCEPT ![h][p].is_mapped = FALSE]
                ELSE UNCHANGED <<mem, pp>>
           /\ cur' = [cur EXCEPT ![c] = pp[h][p].next]
    /\ UNCHANGED <<vme_enable, made, pages, head, nr_page, vm_head, live, ctx,
                   running, op, pc, to>>

UnmapDone(c) ==
    /\ pc[c] = "unmap" /\ cur[c] = NULL
    /\ pc' = [pc EXCEPT ![c] = "mapall"]
    /\ cur' = [cur EXCEPT ![c] = ListHead(ctx[to[c]].vm_head)]
    /\ UNCHANGED <<vme_enable, lists, mem, vm_head, live, ctx, running, op, to>>

(* __am_switch, one node of the second loop. *)
MapAllUnmarked(c) ==   \* mutant: is_mapped is not set
    /\ pc[c] = "mapall" /\ cur[c] # NULL
    /\ LET h == ctx[to[c]].vm_head  p == cur[c]
       IN  /\ mem' = [mem EXCEPT ![c][p] = pp[h][p].pa]
           /\ cur' = [cur EXCEPT ![c] = pp[h][p].next]
    /\ UNCHANGED <<vme_enable, lists, vm_head, live, ctx, running, op, pc, to>>
MapAll(c) ==
    /\ pc[c] = "mapall" /\ cur[c] # NULL
    /\ LET h == ctx[to[c]].vm_head  p == cur[c]
       IN  /\ mem' = [mem EXCEPT ![c][p] = pp[h][p].pa]
           /\ pp' = [pp EXCEPT ![h][p].is_mapped = TRUE]
           /\ cur' = [cur EXCEPT ![c] = pp[h][p].next]
    /\ UNCHANGED <<vme_enable, made, pages, head, nr_page, vm_head, live, ctx,
                   running, op, pc, to>>

MapAllDone(c) ==
    /\ pc[c] = "mapall" /\ cur[c] = NULL
    /\ pc' = [pc EXCEPT ![c] = "end"]
    /\ UNCHANGED <<vme_enable, lists, mem, vm_head, live, ctx, running, op,
                   to, cur>>

SwitchEndKept(c) ==    \* mutant: thiscpu->vm_head is not updated
    /\ pc[c] = "end"
    /\ pc' = [pc EXCEPT ![c] = "iret"]
    /\ UNCHANGED <<vme_enable, lists, mem, vm_head, live, ctx, running, op,
                   to, cur>>
SwitchEnd(c) ==
    /\ pc[c] = "end"
    /\ vm_head' = [vm_head EXCEPT ![c] = ctx[to[c]].vm_head]
    /\ pc' = [pc EXCEPT ![c] = "iret"]
    /\ UNCHANGED <<vme_enable, lists, mem, live, ctx, running, op, to, cur>>

(* The magic call restores the context. *)
iretAgain(c) ==        \* mutant: the signal is still pending and comes again
    /\ pc[c] = "iret"
    /\ running' = [running EXCEPT ![c] = to[c]]
    /\ op' = [op EXCEPT ![c] = ctx[to[c]].op]
    /\ pc' = [pc EXCEPT ![c] = "handler"]
    /\ UNCHANGED <<vme_enable, lists, mem, vm_head, live, ctx, to, cur>>
iret(c) ==
    /\ pc[c] = "iret"
    /\ running' = [running EXCEPT ![c] = to[c]]
    /\ op' = [op EXCEPT ![c] = ctx[to[c]].op]
    /\ pc' = [pc EXCEPT ![c] = "run"]
    /\ UNCHANGED <<vme_enable, lists, mem, vm_head, live, ctx, to, cur>>

-----------------------------------------------------------------------------
KernelStep(c) ==
    \/ VmeInit(c)
    \/ \E h \in Space : protect(c, h)
    \/ \E k \in Task : kcontext(c, k)
    \/ \E h \in Space, k \in Task : ucontext(c, h, k)
    \/ \E h \in Space, va \in Page, pa \in Frame : MapLink(c, h, va, pa)
    \/ Trap(c)
    \/ \E k \in Context : HandlerReturn(c, k)

SwitchStep(c) ==
    Unmap(c) \/ UnmapDone(c) \/ MapAll(c) \/ MapAllDone(c) \/ SwitchEnd(c)

MapStep(c) == MapInstall(c) \/ MapFlag(c)

Next == \E c \in CPU : KernelStep(c) \/ MapStep(c) \/ SwitchStep(c) \/ iret(c)

(* A CPU that is inside __am_switch or about to return from the trap runs  *)
(* on: interrupts are blocked and nothing in that code waits.              *)
Fairness == \A c \in CPU : WF_vars(SwitchStep(c) \/ iret(c))

Spec == Init /\ [][Next]_vars
FairSpec == Spec /\ Fairness

-----------------------------------------------------------------------------
(* Every variable has its type. *)
TypeOK ==
    /\ vme_enable \in BOOLEAN
    /\ made \subseteq Space
    /\ pages \in [Space -> SUBSET Page]
    /\ head \in [Space -> Page \cup {NULL}]
    /\ nr_page \in [Space -> Nat]
    /\ pp \in [Space -> [Page -> Node]]
    /\ mem \in [CPU -> [Page -> Frame \cup {NULL}]]
    /\ vm_head \in [CPU -> Space \cup {NULL}]
    /\ live \subseteq Context
    /\ ctx \in [Context -> [vm_head : Space \cup {NULL}, op : Op]]
    /\ running \in [CPU -> Context]
    /\ op \in [CPU -> Op]
    /\ pc \in [CPU -> {"run", "handler", "unmap", "mapall", "end", "iret"}]
    /\ to \in [CPU -> Context]
    /\ cur \in [CPU -> Page \cup {NULL}]

(* What the list of h says user space should look like. *)
View(h) ==
    [va \in Page |->
        IF h # NULL /\ va \in pages[h] THEN pp[h][va].pa ELSE NULL]

(* The pages installed in a process are exactly those of the address space *)
(* it is running, whenever it executes a context or the kernel's handler   *)
(* and no map() is half done: __am_switch has removed every page of the    *)
(* space it left and installed every page of the one it entered.           *)
Installed ==
    \A c \in CPU : InKernel(c) => mem[c] = View(vm_head[c])

(* Between UnmapDone and the second loop nothing of the old space is left: *)
(* "munmap all mappings" is what the first loop of __am_switch did.        *)
AllUnmapped ==
    \A c \in CPU : pc[c] = "unmap" /\ cur[c] = NULL => mem[c] = NoPage

(* The list and the hash table of a VMHead describe the same pages: each   *)
(* node is in the list exactly once, newest first, so a walk of the list   *)
(* visits every page map() was asked for and then stops.                   *)
ListComplete ==
    \A h \in Space :
        /\ head[h] = NULL <=> nr_page[h] = 0
        /\ head[h] # NULL =>
              head[h] \in pages[h] /\ pp[h][head[h]].born = nr_page[h]
        /\ \A va \in pages[h] :
              LET n == pp[h][va]
              IN  /\ n.born \in 1..nr_page[h]
                  /\ n.next = NULL <=> n.born = 1
                  /\ n.next # NULL => /\ n.next \in pages[h]
                                      /\ pp[h][n.next].born = n.born - 1

(* is_mapped tells the truth: a node is marked only while some CPU that is *)
(* using the space has its page installed.                                 *)
MarkedIsInstalled ==
    \A h \in Space, va \in Page :
        pp[h][va].is_mapped =>
            \E c \in CPU : Uses(c, h) /\ mem[c][va] = pp[h][va].pa

(* A context keeps its address space for life: what irq_handle stores in   *)
(* c->vm_head on a trap is what the context was created with.              *)
ContextKeepsSpace ==
    [][\A k \in live : ctx'[k].vm_head = ctx[k].vm_head]_vars

(* Every context switch that has begun ends with the chosen context        *)
(* running: the two list walks of __am_switch terminate.                   *)
SwitchEnds ==
    \A c \in CPU : (pc[c] \in {"unmap", "mapall"}) ~> (pc[c] = "run")

-----------------------------------------------------------------------------
(* The inductive invariant behind the properties above, for a kernel that  *)
(* is careful: one CPU per address space, no remapping, and map() called   *)
(* with interrupts disabled.                                               *)
Careful == ~Shared /\ ~Remap /\ ~Preempt

PagesOf(h) == IF h = NULL THEN {} ELSE pages[h]

(* The space whose pages the process of c shows, or some of them. *)
Active(c) == IF pc[c] \in {"mapall", "end"} THEN ctx[to[c]].vm_head
                                           ELSE vm_head[c]

(* The pages of that space which the process does not show yet, or no      *)
(* longer, and those whose node is not marked is_mapped.                   *)
Missing(c) ==
    {va \in PagesOf(Active(c)) :
        \/ pc[c] = "unmap" /\ (cur[c] = NULL
              \/ pp[Active(c)][va].born > pp[Active(c)][cur[c]].born)
        \/ pc[c] = "mapall" /\ cur[c] # NULL
              /\ pp[Active(c)][va].born <= pp[Active(c)][cur[c]].born
        \/ op[c] = [at |-> "install", space |-> Active(c), va |-> va]}

Unmarked(c) ==
    {va \in PagesOf(Active(c)) :
        va \in Missing(c) \/ op[c] = [at |-> "flag", space |-> Active(c), va |-> va]}

(* No two nodes of a list were linked as the same one. *)
BornOnce ==
    \A h \in Space : \A va, vb \in pages[h] :
        pp[h][va].born = pp[h][vb].born => va = vb

(* Where map() and __am_switch stand. *)
Control ==
    /\ \A k \in Context : ctx[k].op = Idle
    /\ \A c \in CPU :
          /\ running[c] \in live /\ to[c] \in live
          /\ op[c].at = "idle" => op[c] = Idle
          /\ op[c].at # "idle" => /\ pc[c] \in {"run", "handler"}
                                  /\ op[c].space \in Space
                                  /\ op[c].va \in pages[op[c].space]
          /\ op[c].at = "flag" => op[c].space = vm_head[c]
          /\ pc[c] \in {"run", "handler"} => ctx[running[c]].vm_head = vm_head[c]
          /\ pc[c] = "iret" => ctx[to[c]].vm_head = vm_head[c]
          /\ pc[c] = "unmap" => ctx[to[c]].vm_head # vm_head[c]
          /\ pc[c] = "mapall" => ctx[to[c]].vm_head # vm_head[c]
          /\ pc[c] \in {"unmap", "mapall"} /\ cur[c] # NULL =>
                cur[c] \in PagesOf(Active(c))

(* vme_enable comes first: without it every vm_head is NULL. *)
EnabledFirst ==
    ~vme_enable => /\ made = {}
                   /\ \A k \in Context : ctx[k].vm_head = NULL
                   /\ \A c \in CPU : vm_head[c] = NULL

OneUser == \A c, d \in CPU, h \in Space : Uses(c, h) /\ Uses(d, h) => c = d

ShownAt(c) ==
    \A va \in Page :
        mem[c][va] = IF va \in PagesOf(Active(c)) \ Missing(c)
                       THEN pp[Active(c)][va].pa ELSE NULL

MarkedAt(c) ==
    \A va \in PagesOf(Active(c)) :
        pp[Active(c)][va].is_mapped <=> va \notin Unmarked(c)

(* The process of every CPU shows what its progress says, and the marks of *)
(* the space it shows say the same.                                        *)
Shown == \A c \in CPU : ShownAt(c)
Marked == \A c \in CPU : MarkedAt(c)

(* A space that no CPU shows has no marked node. *)
Unclaimed ==
    \A h \in Space, va \in Page :
        (va \notin pages[h] \/ \A c \in CPU : Active(c) # h) =>
            ~pp[h][va].is_mapped

(* The conjunction is preserved by every step of Next. *)
IInv == /\ TypeOK /\ ListComplete /\ BornOnce /\ Control /\ EnabledFirst
        /\ OneUser /\ Shown /\ Marked /\ Unclaimed
=============================================================================
