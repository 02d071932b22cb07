--------------------------- MODULE NativeVme_proofs ---------------------------
(* Proofs about NativeVme: IInv is an inductive invariant when the kernel is *)
(* careful, and what it implies.                                           *)
EXTENDS NativeVme, TLAPS

(* The initial state satisfies the inductive invariant. *)
LEMMA InitIInv == Init => IInv
  <1> SUFFICES ASSUME Init PROVE IInv
    OBVIOUS
  <1> USE SetsAssumption DEF Init
  <1>1. TypeOK
    BY Zenon DEF TypeOK, Context, Node, Op, Idle, NoPage
  <1>2. ListComplete /\ BornOnce
    BY DEF ListComplete, BornOnce
  <1>3. Control /\ EnabledFirst
    BY DEF Control, EnabledFirst, Context, Idle
  <1>4. OneUser
    BY DEF OneUser, Uses, Switching, Idle
  <1>5. \A c \in CPU : Active(c) = NULL /\ Missing(c) = {} /\ Unmarked(c) = {}
    BY Zenon DEF Active, Missing, Unmarked, PagesOf
  <1>6. Shown /\ Marked /\ Unclaimed
    BY <1>5 DEF Shown, Marked, ShownAt, MarkedAt, Unclaimed, NoPage, PagesOf
  <1> QED
    BY <1>1, <1>2, <1>3, <1>4, <1>6 DEF IInv

-----------------------------------------------------------------------------
(* What a CPU shows and uses depends on its own registers and on the lists *)
(* of the spaces it uses: here, that those do not change.                  *)
Untouched(d) ==
    /\ UNCHANGED <<pc[d], op[d], cur[d], vm_head[d], to[d], mem[d]>>
    /\ ctx'[to[d]].vm_head = ctx[to[d]].vm_head
    /\ \A h \in Space : Uses(d, h) => pages'[h] = pages[h] /\ pp'[h] = pp[h]

(* The space a CPU shows is one it uses. *)
LEMMA ActiveUsed ==
    ASSUME NEW d \in CPU, TypeOK
    PROVE  Active(d) # NULL => Active(d) \in Space /\ Uses(d, Active(d))
  BY DEF Active, Uses, Switching, TypeOK, Context

(* An untouched CPU shows the same pages of the same space. *)
LEMMA FrameView ==
    ASSUME NEW d \in CPU, TypeOK, Untouched(d)
    PROVE  /\ Active(d)' = Active(d)
           /\ PagesOf(Active(d))' = PagesOf(Active(d))
           /\ \A va \in PagesOf(Active(d)) :
                 pp'[Active(d)][va] = pp[Active(d)][va]
  <1>1. Active(d)' = Active(d)
    BY DEF Active, Untouched
  <1>2. PagesOf(Active(d))' = PagesOf(Active(d))
    BY <1>1, ActiveUsed DEF PagesOf, Untouched
  <1>3. \A va \in PagesOf(Active(d)) : pp'[Active(d)][va] = pp[Active(d)][va]
    BY <1>1, ActiveUsed DEF PagesOf, Untouched
  <1> QED
    BY <1>1, <1>2, <1>3

(* An untouched CPU has made the same progress and uses the same spaces. *)
LEMMA FrameProgress ==
    ASSUME NEW d \in CPU, TypeOK, Control, Untouched(d)
    PROVE  /\ Missing(d)' = Missing(d)
           /\ Unmarked(d)' = Unmarked(d)
           /\ \A h \in Space : Uses(d, h)' <=> Uses(d, h)
  <1>1. pc[d] \in {"unmap", "mapall"} /\ cur[d] # NULL =>
            pp'[Active(d)][cur[d]] = pp[Active(d)][cur[d]]
    BY FrameView DEF Control
  <1>2. Missing(d)' = Missing(d)
    BY FrameView, <1>1 DEF Missing, Untouched
  <1>3. Unmarked(d)' = Unmarked(d)
    BY FrameView, <1>2 DEF Unmarked, Untouched
  <1>4. \A h \in Space : Uses(d, h)' <=> Uses(d, h)
    BY DEF Uses, Switching, Untouched
  <1> QED
    BY <1>2, <1>3, <1>4

(* So what the invariant says of an untouched CPU stays true. *)
LEMMA FrameInvariant ==
    ASSUME NEW d \in CPU, TypeOK, Control, Shown, Marked, Untouched(d)
    PROVE  ShownAt(d)' /\ MarkedAt(d)'
  <1>1. ShownAt(d)'
    BY FrameView, FrameProgress DEF Shown, ShownAt, Untouched
  <1>2. MarkedAt(d)'
    BY FrameView, FrameProgress DEF Marked, MarkedAt
  <1> QED
    BY <1>1, <1>2

-----------------------------------------------------------------------------
(* A step of c leaves every other CPU untouched, so the four conjuncts     *)
(* about what the CPUs show follow from what it does to c.                 *)
LEMMA StepOfOne ==
    ASSUME NEW c \in CPU, IInv,
           \A d \in CPU \ {c} : Untouched(d),
           ShownAt(c)', MarkedAt(c)',
           \A h \in Space :
              Uses(c, h)' => Uses(c, h) \/ \A d \in CPU \ {c} : ~Uses(d, h),
           \A h \in Space, va \in Page :
              (va \notin pages'[h] \/ Active(c)' # h) /\ pp'[h][va].is_mapped =>
                 \E d \in CPU \ {c} : Active(d) = h /\ va \in pages[h]
    PROVE  OneUser' /\ Shown' /\ Marked' /\ Unclaimed'
  <1> USE DEF IInv
  <1>1. OneUser'
    <2> SUFFICES ASSUME NEW d \in CPU, NEW e \in CPU, NEW h \in Space,
                        Uses(d, h)', Uses(e, h)', d # e
                 PROVE  FALSE
      BY DEF OneUser
    <2>1. \A x \in CPU \ {c} : Uses(x, h)' => Uses(x, h)
      BY FrameProgress
    <2> QED
      BY <2>1 DEF OneUser
  <1>2. Shown' /\ Marked'
    BY FrameInvariant DEF Shown, Marked
  <1>3. Unclaimed'
    <2> SUFFICES ASSUME NEW h \in Space, NEW va \in Page,
                        va \notin pages'[h] \/ \A d \in CPU : Active(d)' # h,
                        pp'[h][va].is_mapped
                 PROVE  FALSE
      BY DEF Unclaimed
    <2>1. PICK d \in CPU \ {c} : Active(d) = h /\ va \in pages[h]
      OBVIOUS
    <2>2. Active(d)' = h
      BY <2>1, FrameView
    <2>3. pages'[h] = pages[h]
      BY <2>1, ActiveUsed, SetsAssumption DEF Untouched
    <2> QED
      BY <2>1, <2>2, <2>3
  <1> QED
    BY <1>1, <1>2, <1>3

(* The same for a step of c that changes no list and after which c shows   *)
(* what it showed before.                                                  *)
LEMMA QuietStep ==
    ASSUME NEW c \in CPU, IInv, UNCHANGED <<pages, pp, mem>>,
           \A d \in CPU \ {c} : Untouched(d),
           Active(c)' = Active(c), Missing(c)' = Missing(c),
           Unmarked(c)' = Unmarked(c),
           \A h \in Space :
              Uses(c, h)' => Uses(c, h) \/ \A d \in CPU \ {c} : ~Uses(d, h)
    PROVE  OneUser' /\ Shown' /\ Marked' /\ Unclaimed'
  <1> USE DEF IInv
  <1>1. PagesOf(Active(c))' = PagesOf(Active(c))
    BY DEF PagesOf
  <1>2. ShownAt(c)' /\ MarkedAt(c)'
    BY <1>1 DEF Shown, ShownAt, Marked, MarkedAt
  <1>3. \A h \in Space, va \in Page :
           (va \notin pages'[h] \/ Active(c)' # h) /\ pp'[h][va].is_mapped =>
              \E d \in CPU \ {c} : Active(d) = h /\ va \in pages[h]
    BY DEF Unclaimed
  <1> QED
    BY <1>2, <1>3, StepOfOne

-----------------------------------------------------------------------------
(* One lemma per action. *)
LEMMA VmeInitStep ==
    ASSUME NEW c \in CPU, IInv, VmeInit(c)
    PROVE  IInv'
  <1> USE DEF IInv, VmeInit, InKernel, lists
  <1>1. TypeOK' /\ ListComplete' /\ BornOnce' /\ EnabledFirst'
    BY DEF TypeOK, ListComplete, BornOnce, EnabledFirst
  <1>2. \A d \in CPU : Untouched(d)
    BY DEF Untouched
  <1>3. Control'
    BY FrameView DEF Control, Untouched, Active, PagesOf
  <1>4. OneUser' /\ Shown' /\ Marked' /\ Unclaimed'
    BY <1>2, FrameView, FrameProgress, QuietStep
  <1> QED
    BY <1>1, <1>3, <1>4

LEMMA ProtectStep ==
    ASSUME NEW c \in CPU, NEW h \in Space, IInv, protect(c, h)
    PROVE  IInv'
  <1> USE DEF IInv, protect, InKernel
  <1>1. TypeOK' /\ ListComplete' /\ BornOnce' /\ EnabledFirst'
    BY DEF TypeOK, ListComplete, BornOnce, EnabledFirst
  <1>2. \A d \in CPU : Untouched(d)
    BY DEF Untouched
  <1>3. Control'
    BY FrameView DEF Control, Untouched, Active, PagesOf
  <1>4. OneUser' /\ Shown' /\ Marked' /\ Unclaimed'
    BY <1>2, FrameView, FrameProgress, QuietStep
  <1> QED
    BY <1>1, <1>3, <1>4

(* A new context is not the one any CPU runs or is switching to. *)
LEMMA NewContextStep ==
    ASSUME NEW c \in CPU, NEW k \in Task, IInv,
           kcontext(c, k) \/ \E h \in Space : ucontext(c, h, k)
    PROVE  IInv'
  <1> USE DEF IInv, kcontext, ucontext, InKernel, lists
  <1>1. /\ UNCHANGED <<vme_enable, lists, mem, vm_head, running, op, pc, to, cur>>
        /\ live' = live \cup {k} /\ k \notin live
    OBVIOUS
  <1>2. PICK h \in Space \cup {NULL} :
           /\ ctx' = [ctx EXCEPT ![k].vm_head = h]
           /\ h # NULL => h \in made
    OBVIOUS
  <1>3. \A j \in Context : j # k => ctx'[j] = ctx[j]
    BY <1>2 DEF TypeOK
  <1>4. ctx'[k].op = Idle /\ ctx'[k].vm_head = h
    BY <1>2 DEF TypeOK, Control, Context
  <1>5. TypeOK' /\ ListComplete' /\ BornOnce'
    <2>1. ctx' \in [Context -> [vm_head : Space \cup {NULL}, op : Op]]
      <3> DEFINE Saved == [vm_head : Space \cup {NULL}, op : Op]
      <3>1. k \in Context /\ ctx \in [Context -> Saved]
        BY DEF Context, TypeOK
      <3>2. [ctx[k] EXCEPT !.vm_head = h] \in Saved
        BY <3>1
      <3> QED
        BY ONLY <1>2, <3>1, <3>2
    <2>2. live' \subseteq Context
      BY <1>1 DEF TypeOK, Context
    <2>3. TypeOK'
      BY <1>1, <2>1, <2>2 DEF TypeOK
    <2> QED
      BY <1>1, <2>3 DEF ListComplete, BornOnce
  <1>6. EnabledFirst'
    BY <1>1, <1>2, <1>3, <1>4 DEF EnabledFirst, Context
  <1>7. \A d \in CPU : Untouched(d)
    BY <1>1, <1>3, SMTT(60) DEF Untouched, TypeOK, Control
  <1>8. Control'
    <2>1. \A j \in Context : ctx'[j].op = Idle
      BY <1>3, <1>4 DEF Control
    <2>2. \A d \in CPU : /\ running[d] # k /\ ctx'[running[d]] = ctx[running[d]]
                         /\ to[d] # k /\ ctx'[to[d]] = ctx[to[d]]
      BY <1>1, <1>3 DEF Control, TypeOK
    <2>3. \A d \in CPU : PagesOf(Active(d))' = PagesOf(Active(d))
      BY <1>7, FrameView
    <2> QED
      BY <1>1, <2>1, <2>2, <2>3 DEF Control
  <1>9. OneUser' /\ Shown' /\ Marked' /\ Unclaimed'
    BY <1>1, <1>7, FrameView, FrameProgress, QuietStep
  <1> QED
    BY <1>5, <1>6, <1>8, <1>9

(* With interrupts blocked during map(), a trap saves what is saved already. *)
LEMMA TrapKeeps ==
    ASSUME NEW c \in CPU, IInv, Careful, Trap(c)
    PROVE  ctx' = ctx /\ op' = op
  BY DEF IInv, Careful, Trap, TypeOK, Control

LEMMA TrapStep ==
    ASSUME NEW c \in CPU, IInv, Careful, Trap(c)
    PROVE  IInv'
  <1>0. ctx' = ctx /\ op' = op
    BY TrapKeeps
  <1> USE <1>0 DEF IInv, Trap, lists
  <1>1. TypeOK' /\ ListComplete' /\ BornOnce' /\ EnabledFirst'
    BY DEF TypeOK, ListComplete, BornOnce, EnabledFirst
  <1>2. \A d \in CPU \ {c} : Untouched(d)
    BY DEF Untouched, TypeOK
  <1>3. \A d \in CPU : pc'[d] = pc[d] \/ (pc[d] = "run" /\ pc'[d] = "handler")
    <2>1. pc'[c] = "handler" /\ \A d \in CPU \ {c} : pc'[d] = pc[d]
      BY DEF TypeOK
    <2> QED
      BY <2>1
  <1>4. \A d \in CPU : Active(d)' = Active(d)
    BY <1>3 DEF Active
  <1>5. Control'
    <2>1. \A d \in CPU : PagesOf(Active(d))' = PagesOf(Active(d))
      BY <1>4 DEF PagesOf
    <2> QED
      BY <1>3, <2>1 DEF Control
  <1>6. Missing(c)' = Missing(c)
    BY <1>3, <1>4 DEF Missing, PagesOf
  <1>7. Unmarked(c)' = Unmarked(c)
    BY <1>4, <1>6 DEF Unmarked, PagesOf
  <1>8. \A h \in Space : Uses(c, h)' => Uses(c, h)
    BY <1>3 DEF Uses, Switching
  <1> QED
    BY <1>1, <1>2, <1>4, <1>5, <1>6, <1>7, <1>8, QuietStep

(* The list of a space begins at its newest node, and is empty with it. *)
LEMMA HeadIsNewest ==
    ASSUME NEW h \in Space, TypeOK, ListComplete
    PROVE  /\ head[h] = NULL => pages[h] = {}
           /\ head[h] # NULL => /\ head[h] \in pages[h]
                                /\ \A va \in pages[h] :
                                      pp[h][va].born <= pp[h][head[h]].born
  BY DEF TypeOK, ListComplete, Node

LEMMA HandlerReturnStep ==
    ASSUME NEW c \in CPU, NEW k \in Context, IInv, Careful, HandlerReturn(c, k)
    PROVE  IInv'
  <1> USE DEF IInv, HandlerReturn, lists
  <1>1. TypeOK' /\ ListComplete' /\ BornOnce' /\ EnabledFirst'
    <2>1. ListHead(vm_head[c]) \in Page \cup {NULL}
      BY DEF TypeOK, ListHead
    <2>2. SwitchEntry(vm_head[c], ctx[k].vm_head) \in {"iret", "end", "unmap"}
      BY DEF SwitchEntry
    <2> QED
      BY <2>1, <2>2 DEF TypeOK, ListComplete, BornOnce, EnabledFirst
  <1>2. \A d \in CPU \ {c} : Untouched(d)
    BY DEF Untouched, TypeOK
  <1>3. /\ to'[c] = k /\ cur'[c] = ListHead(vm_head[c])
        /\ pc[c] = "handler" /\ op[c] = Idle
        /\ \/ pc'[c] \in {"iret", "end"} /\ ctx[k].vm_head = vm_head[c]
           \/ pc'[c] = "unmap" /\ ctx[k].vm_head # vm_head[c]
    BY DEF TypeOK, SwitchEntry, EnabledFirst
  <1>4. Active(c)' = vm_head[c] /\ Active(c) = vm_head[c]
    BY <1>3 DEF Active
  <1>5. PagesOf(Active(c))' = PagesOf(Active(c))
    BY <1>4 DEF PagesOf
  <1>6. /\ cur'[c] = NULL => PagesOf(Active(c)) = {}
        /\ cur'[c] # NULL => /\ cur'[c] \in PagesOf(Active(c))
                             /\ \A va \in PagesOf(Active(c)) :
                                   pp[Active(c)][va].born <= pp[Active(c)][cur'[c]].born
    <2>1. CASE vm_head[c] = NULL
      BY <1>3, <1>4, <2>1 DEF PagesOf, ListHead
    <2>2. CASE vm_head[c] # NULL
      BY <1>3, <1>4, <2>2, HeadIsNewest, Zenon DEF PagesOf, ListHead, TypeOK
    <2> QED
      BY <2>1, <2>2
  <1>7. Missing(c) = {} /\ Missing(c)' = {}
    <2>1. \A va \in PagesOf(Active(c)) : pp[Active(c)][va].born \in Nat
      BY <1>4 DEF PagesOf, TypeOK, Node
    <2>2. cur'[c] # NULL => pp[Active(c)][cur'[c]].born \in Nat
      BY <1>6, <2>1
    <2> QED
      BY <1>3, <1>4, <1>5, <1>6, <2>1, <2>2 DEF Missing, Idle
  <1>8. Unmarked(c) = {} /\ Unmarked(c)' = {}
    BY <1>3, <1>7 DEF Unmarked, Idle
  <1>9. Control'
    <2>1. \A d \in CPU \ {c} : /\ UNCHANGED <<pc[d], op[d], cur[d], vm_head[d], to[d]>>
                               /\ PagesOf(Active(d))' = PagesOf(Active(d))
      BY <1>2, FrameView DEF Untouched
    <2>2. to'[c] \in live /\ running'[c] \in live /\ op'[c] = Idle
      BY <1>3 DEF Control
    <2>3. pc'[c] = "unmap" /\ cur'[c] # NULL => cur'[c] \in PagesOf(Active(c))'
      BY <1>5, <1>6
    <2>4. \A d \in CPU \ {c} : running'[d] \in live' /\ to'[d] \in live'
      BY <2>1 DEF Control
    <2> QED
      BY <1>3, <2>1, <2>2, <2>3, <2>4 DEF Control, Idle
  <1>10. \A h \in Space :
            Uses(c, h)' => Uses(c, h) \/ \A d \in CPU \ {c} : ~Uses(d, h)
    BY <1>3, SetsAssumption DEF Uses, Careful, Exclusive
  <1> QED
    BY <1>1, <1>2, <1>4, <1>7, <1>8, <1>9, <1>10, QuietStep, Zenon

LEMMA MapAllDoneStep ==
    ASSUME NEW c \in CPU, IInv, MapAllDone(c)
    PROVE  IInv'
  <1> USE DEF IInv, MapAllDone, lists
  <1>1. TypeOK' /\ ListComplete' /\ BornOnce' /\ EnabledFirst'
    BY DEF TypeOK, ListComplete, BornOnce, EnabledFirst
  <1>2. \A d \in CPU \ {c} : Untouched(d)
    BY DEF Untouched, TypeOK
  <1>3. pc[c] = "mapall" /\ pc'[c] = "end" /\ cur[c] = NULL
    BY DEF TypeOK
  <1>4. Active(c)' = Active(c)
    BY <1>3 DEF Active
  <1>5. Missing(c)' = Missing(c)
    BY <1>3, <1>4 DEF Missing, PagesOf
  <1>6. Unmarked(c)' = Unmarked(c)
    BY <1>4, <1>5 DEF Unmarked, PagesOf
  <1>7. Control'
    <2>1. \A d \in CPU \ {c} : /\ UNCHANGED <<pc[d], op[d], cur[d], vm_head[d], to[d]>>
                               /\ PagesOf(Active(d))' = PagesOf(Active(d))
      BY <1>2, FrameView DEF Untouched
    <2> QED
      BY <1>3, <2>1 DEF Control
  <1>8. \A h \in Space : Uses(c, h)' => Uses(c, h)
    BY <1>3 DEF Uses, Switching
  <1> QED
    BY <1>1, <1>2, <1>4, <1>5, <1>6, <1>7, <1>8, QuietStep

LEMMA SwitchEndStep ==
    ASSUME NEW c \in CPU, IInv, SwitchEnd(c)
    PROVE  IInv'
  <1> USE DEF IInv, SwitchEnd, lists
  <1>0. /\ pc[c] = "end" /\ pc'[c] = "iret"
        /\ vm_head'[c] = ctx[to[c]].vm_head
        /\ \A d \in CPU \ {c} : vm_head'[d] = vm_head[d] /\ pc'[d] = pc[d]
    BY DEF TypeOK
  <1>1. TypeOK' /\ ListComplete' /\ BornOnce' /\ EnabledFirst'
    <2>1. ctx[to[c]].vm_head \in Space \cup {NULL}
      BY DEF TypeOK
    <2>2. TypeOK'
      BY <2>1 DEF TypeOK
    <2>3. EnabledFirst'
      BY <1>0 DEF EnabledFirst, TypeOK
    <2> QED
      BY <2>2, <2>3 DEF ListComplete, BornOnce
  <1>2. \A d \in CPU \ {c} : Untouched(d)
    BY <1>0 DEF Untouched
  <1>4. Active(c)' = Active(c)
    BY <1>0 DEF Active
  <1>5. Missing(c)' = Missing(c)
    BY <1>0, <1>4 DEF Missing, PagesOf
  <1>6. Unmarked(c)' = Unmarked(c)
    BY <1>4, <1>5 DEF Unmarked, PagesOf
  <1>7. Control'
    <2>1. \A d \in CPU \ {c} : /\ UNCHANGED <<pc[d], op[d], cur[d], vm_head[d], to[d]>>
                               /\ PagesOf(Active(d))' = PagesOf(Active(d))
      BY <1>2, FrameView DEF Untouched
    <2> QED
      BY <1>0, <2>1 DEF Control
  <1>8. \A h \in Space : Uses(c, h)' => Uses(c, h)
    BY <1>0 DEF Uses, Switching
  <1> QED
    BY <1>1, <1>2, <1>4, <1>5, <1>6, <1>7, <1>8, QuietStep

LEMMA IretStep ==
    ASSUME NEW c \in CPU, IInv, iret(c)
    PROVE  IInv'
  <1> USE DEF IInv, iret, lists
  <1>0. /\ pc[c] = "iret" /\ pc'[c] = "run" /\ running'[c] = to[c]
        /\ op' = op
        /\ \A d \in CPU \ {c} : running'[d] = running[d] /\ pc'[d] = pc[d]
    BY Zenon DEF TypeOK, Control
  <1>1. TypeOK' /\ ListComplete' /\ BornOnce' /\ EnabledFirst'
    BY <1>0 DEF TypeOK, ListComplete, BornOnce, EnabledFirst
  <1>2. \A d \in CPU \ {c} : Untouched(d)
    BY <1>0 DEF Untouched
  <1>4. Active(c)' = Active(c)
    BY <1>0 DEF Active
  <1>5. Missing(c)' = Missing(c)
    BY <1>0, <1>4 DEF Missing, PagesOf
  <1>6. Unmarked(c)' = Unmarked(c)
    BY <1>0, <1>4, <1>5 DEF Unmarked, PagesOf
  <1>7. Control'
    <2>1. \A d \in CPU \ {c} : /\ UNCHANGED <<pc[d], op[d], cur[d], vm_head[d], to[d]>>
                               /\ PagesOf(Active(d))' = PagesOf(Active(d))
      BY <1>0, <1>2, FrameView DEF Untouched
    <2> QED
      BY <1>0, <2>1 DEF Control
  <1>8. \A h \in Space : Uses(c, h)' => Uses(c, h)
    BY <1>0 DEF Uses, Switching
  <1> QED
    BY <1>1, <1>2, <1>4, <1>5, <1>6, <1>7, <1>8, QuietStep

LEMMA UnmapDoneStep ==
    ASSUME NEW c \in CPU, IInv, UnmapDone(c)
    PROVE  IInv'
  <1> USE DEF IInv, UnmapDone, lists
  <1> DEFINE g == ctx[to[c]].vm_head
  <1>0. /\ pc[c] = "unmap" /\ pc'[c] = "mapall" /\ cur[c] = NULL
        /\ cur'[c] = ListHead(g) /\ op[c] = Idle /\ g # vm_head[c]
        /\ g \in Space \cup {NULL}
        /\ Active(c) = vm_head[c] /\ Active(c)' = g
        /\ \A d \in CPU \ {c} : cur'[d] = cur[d] /\ pc'[d] = pc[d]
    BY Zenon DEF TypeOK, Control, Active
  <1>1. TypeOK' /\ ListComplete' /\ BornOnce' /\ EnabledFirst'
    <2>1. ListHead(g) \in Page \cup {NULL}
      BY <1>0 DEF TypeOK, ListHead
    <2> QED
      BY <1>0, <2>1 DEF TypeOK, ListComplete, BornOnce, EnabledFirst
  <1>2. \A d \in CPU \ {c} : Untouched(d)
    BY <1>0, SMTT(60) DEF Untouched
  <1>3. /\ cur'[c] = NULL => PagesOf(g) = {}
        /\ cur'[c] # NULL => /\ cur'[c] \in PagesOf(g)
                             /\ \A va \in PagesOf(g) :
                                   pp[g][va].born <= pp[g][cur'[c]].born
    <2>1. CASE g = NULL
      BY <1>0, <2>1, SMTT(60) DEF PagesOf, ListHead
    <2>2. CASE g # NULL
      <3>1. g \in Space /\ cur'[c] = head[g] /\ PagesOf(g) = pages[g]
        BY <1>0, <2>2, SetsAssumption DEF PagesOf, ListHead
      <3>2. TypeOK /\ ListComplete
        OBVIOUS
      <3> HIDE DEF g
      <3> QED
        BY ONLY <3>1, <3>2, HeadIsNewest
    <2> QED
      BY <2>1, <2>2
  <1>4. PagesOf(Active(c))' = PagesOf(g)
    BY <1>0 DEF PagesOf
  <1>5. Missing(c) = PagesOf(Active(c)) /\ Unmarked(c) = PagesOf(Active(c))
    BY <1>0 DEF Missing, Unmarked
  <1>6. Missing(c)' = PagesOf(g) /\ Unmarked(c)' = PagesOf(g)
    <2>1. Missing(c)' = PagesOf(g)
      <3>1. /\ Active(c)' = g /\ PagesOf(Active(c))' = PagesOf(g)
            /\ pc'[c] = "mapall" /\ op' = op /\ op[c] = Idle /\ pp' = pp
        BY <1>0, <1>4
      <3> HIDE DEF g
      <3> QED
        BY ONLY <1>3, <3>1 DEF Missing, Idle
    <2> QED
      BY <1>0, <1>4, <2>1, SMTT(60) DEF Unmarked
  <1>7. \A d \in CPU : g # NULL => Active(d) # g
    <2>1. g # NULL => Uses(c, g)
      BY <1>0 DEF Uses, Switching
    <2> QED
      BY <1>0, <2>1, ActiveUsed DEF OneUser
  <1>8. ShownAt(c)'
    BY <1>4, <1>5, <1>6 DEF Shown, ShownAt
  <1>9. MarkedAt(c)'
    BY <1>0, <1>4, <1>6, <1>7 DEF MarkedAt, Unclaimed, PagesOf, TypeOK
  <1>10. \A h \in Space : Uses(c, h)' => Uses(c, h)
    BY <1>0 DEF Uses, Switching
  <1>11. \A h \in Space, va \in Page :
            (va \notin pages'[h] \/ Active(c)' # h) /\ pp'[h][va].is_mapped =>
               \E d \in CPU \ {c} : Active(d) = h /\ va \in pages[h]
    <2> SUFFICES ASSUME NEW h \in Space, NEW va \in Page, pp[h][va].is_mapped
                 PROVE  \E d \in CPU \ {c} : Active(d) = h /\ va \in pages[h]
      OBVIOUS
    <2>1. PICK d \in CPU : Active(d) = h /\ va \in pages[h]
      BY DEF Unclaimed
    <2>2. d # c
      BY <1>5, <2>1, SetsAssumption DEF Marked, MarkedAt, PagesOf
    <2> QED
      BY <2>1, <2>2
  <1>12. Control'
    <2>1. \A d \in CPU \ {c} : /\ UNCHANGED <<pc[d], op[d], cur[d], vm_head[d], to[d]>>
                               /\ PagesOf(Active(d))' = PagesOf(Active(d))
      BY <1>2, FrameView DEF Untouched
    <2>2. cur'[c] # NULL => cur'[c] \in PagesOf(Active(c))'
      BY <1>3, <1>4
    <2> QED
      BY <1>0, <2>1, <2>2 DEF Control, Idle
  <1> QED
    BY <1>1, <1>2, <1>8, <1>9, <1>10, <1>11, <1>12, StepOfOne

-----------------------------------------------------------------------------
(* A step that only writes marks of the space c uses, and c's own pages.   *)
MarksOnly(h) ==
    /\ UNCHANGED <<pages, head, nr_page>>
    /\ \A g \in Space : g # h => pp'[g] = pp[g]
    /\ \A va \in Page : /\ pp'[h][va].pa = pp[h][va].pa
                        /\ pp'[h][va].next = pp[h][va].next
                        /\ pp'[h][va].born = pp[h][va].born

(* Marks are no part of the shape of the lists. *)
LEMMA MarksKeepLists ==
    ASSUME NEW h \in Space, MarksOnly(h), TypeOK, ListComplete, BornOnce
    PROVE  ListComplete' /\ BornOnce'
  <1>1. \A g \in Space, va \in Page : pp'[g][va].next = pp[g][va].next
                                    /\ pp'[g][va].born = pp[g][va].born
    BY DEF MarksOnly
  <1>2. ListComplete'
    <2> SUFFICES ASSUME NEW g \in Space
                 PROVE  /\ head[g] = NULL <=> nr_page[g] = 0
                        /\ head[g] # NULL =>
                              head[g] \in pages[g] /\ pp'[g][head[g]].born = nr_page[g]
                        /\ \A va \in pages[g] :
                             /\ pp'[g][va].born \in 1..nr_page[g]
                             /\ pp'[g][va].next = NULL <=> pp'[g][va].born = 1
                             /\ pp'[g][va].next # NULL =>
                                   /\ pp'[g][va].next \in pages[g]
                                   /\ pp'[g][pp'[g][va].next].born
                                        = pp'[g][va].born - 1
      BY DEF ListComplete, MarksOnly
    <2>1. pages[g] \subseteq Page
      BY DEF TypeOK
    <2>2. head[g] # NULL =>
             head[g] \in pages[g] /\ pp'[g][head[g]].born = nr_page[g]
      BY <1>1, <2>1 DEF ListComplete
    <2> QED
      BY <1>1, <2>1, <2>2, SMTT(60) DEF ListComplete
  <1>3. BornOnce'
    BY <1>1 DEF BornOnce, MarksOnly, TypeOK
  <1> QED
    BY <1>2, <1>3

(* Nobody else uses what c uses, so marks and pages of c are its own.      *)
LEMMA MarksUntouched ==
    ASSUME NEW c \in CPU, NEW h \in Space, IInv, MarksOnly(h), Uses(c, h),
           UNCHANGED <<vm_head, ctx, to>>,
           \A d \in CPU \ {c} : UNCHANGED <<pc[d], op[d], cur[d], mem[d]>>
    PROVE  \A d \in CPU \ {c} : Untouched(d)
  BY DEF MarksOnly, Untouched, IInv, OneUser

(* A mark that is there after such a step, outside what c shows, belongs   *)
(* to another CPU.                                                         *)
LEMMA OtherMarks ==
    ASSUME NEW c \in CPU, IInv, UNCHANGED pages,
           Active(c) \in Space, Active(c)' = Active(c), MarksOnly(Active(c)),
           \A va \in Page : va \notin pages[Active(c)] =>
                              pp'[Active(c)][va] = pp[Active(c)][va]
    PROVE  \A h \in Space, va \in Page :
              (va \notin pages'[h] \/ Active(c)' # h) /\ pp'[h][va].is_mapped =>
                 \E d \in CPU \ {c} : Active(d) = h /\ va \in pages[h]
  BY DEF IInv, Unclaimed, MarksOnly

(* Setting the mark of one page changes marks of its space only.           *)
LEMMA OneMark ==
    ASSUME NEW h \in Space, NEW p \in Page, NEW b \in BOOLEAN,
           pp \in [Space -> [Page -> Node]],
           pp' = [pp EXCEPT ![h][p].is_mapped = b],
           UNCHANGED <<pages, head, nr_page>>
    PROVE  /\ MarksOnly(h)
           /\ pp'[h][p].is_mapped = b
           /\ \A va \in Page : va # p => pp'[h][va] = pp[h][va]
  <1>1. \A g \in Space : g # h => pp'[g] = pp[g]
    OBVIOUS
  <1>2. \A va \in Page : va # p => pp'[h][va] = pp[h][va]
    OBVIOUS
  <1>3. pp[h][p] \in Node
    OBVIOUS
  <1>4. pp'[h][p] = [pp[h][p] EXCEPT !.is_mapped = b]
    OBVIOUS
  <1>5. /\ pp'[h][p].pa = pp[h][p].pa /\ pp'[h][p].next = pp[h][p].next
        /\ pp'[h][p].born = pp[h][p].born /\ pp'[h][p].is_mapped = b
    BY ONLY <1>3, <1>4 DEF Node
  <1> QED
    BY <1>1, <1>2, <1>5 DEF MarksOnly

LEMMA UnmapStep ==
    ASSUME NEW c \in CPU, IInv, Unmap(c)
    PROVE  IInv'
  <1> USE DEF IInv, Unmap, lists
  <1> DEFINE h == vm_head[c]
             p == cur[c]
             n == pp[h][p].next
  <1>0. /\ pc[c] = "unmap" /\ pc' = pc /\ op[c] = Idle /\ op' = op
        /\ Active(c) = h /\ Active(c)' = h /\ cur'[c] = n
        /\ \A d \in CPU \ {c} : cur'[d] = cur[d]
    BY Zenon DEF TypeOK, Control, Active
  <1>1. h \in Space /\ p \in Page /\ p \in pages[h] /\ Uses(c, h)
    BY <1>0 DEF TypeOK, Control, PagesOf, Uses
  <1>2. pp[h][p] \in Node /\ n \in Page \cup {NULL}
    BY <1>1 DEF TypeOK, Node
  <1>a. PagesOf(Active(c)) = pages[h] /\ PagesOf(Active(c))' = PagesOf(h)'
    BY <1>0, <1>1, SetsAssumption DEF PagesOf
  <1>b. \A va : /\ op[c] # [at |-> "install", space |-> h, va |-> va]
                /\ op[c] # [at |-> "flag", space |-> h, va |-> va]
    BY <1>0 DEF Idle
  <1>c. \A va : va \in Missing(c) <=>
                  va \in pages[h] /\ pp[h][va].born > pp[h][p].born
    BY <1>0, <1>1, <1>a, <1>b, SetsAssumption DEF Missing
  <1>3. pp[h][p].is_mapped
    <2>1. p \notin Missing(c)
      BY <1>1, <1>2, <1>c DEF Node
    <2>2. p \notin Unmarked(c)
      BY <1>0, <1>b, <2>1 DEF Unmarked
    <2> QED
      BY <1>0, <1>1, <1>a, <2>2 DEF Marked, MarkedAt
  <1>4. /\ mem' = [mem EXCEPT ![c][p] = NULL]
        /\ pp' = [pp EXCEPT ![h][p].is_mapped = FALSE]
    BY <1>3
  <1>5. /\ MarksOnly(h) /\ pp'[h][p].is_mapped = FALSE
        /\ \A va \in Page : va # p => pp'[h][va] = pp[h][va]
    <2>1. pp \in [Space -> [Page -> Node]]
      BY DEF TypeOK
    <2>2. UNCHANGED <<pages, head, nr_page>>
      BY ONLY Unmap(c)
    <2> HIDE DEF h, p, n
    <2> QED
      BY ONLY <1>1, <1>4, <2>1, <2>2, OneMark, Zenon
  <1>6. TypeOK' /\ ListComplete' /\ BornOnce' /\ EnabledFirst'
    <2>1. pp' \in [Space -> [Page -> Node]]
      <3>1. [pp[h][p] EXCEPT !.is_mapped = FALSE] \in Node
        BY <1>2, Zenon DEF Node
      <3> QED
        BY <1>1, <1>4, <3>1 DEF TypeOK
    <2>2. mem' \in [CPU -> [Page -> Frame \cup {NULL}]]
      BY <1>1, <1>4 DEF TypeOK
    <2>3. TypeOK'
      BY <1>1, <1>2, <2>1, <2>2, Zenon DEF TypeOK
    <2> QED
      BY <1>1, <1>5, <2>3, MarksKeepLists DEF EnabledFirst
  <1>7. \A d \in CPU \ {c} : Untouched(d)
    <2>1. \A d \in CPU \ {c} : mem'[d] = mem[d]
      BY <1>4 DEF TypeOK
    <2> QED
      BY <1>0, <1>1, <1>5, <2>1, MarksUntouched
  <1>8. PagesOf(Active(c))' = pages[h] /\ PagesOf(Active(c)) = pages[h]
    BY <1>0, <1>1, SetsAssumption DEF PagesOf
  <1>9. Missing(c)' = Missing(c) \cup {p}
    <2>1. \A va \in pages[h] : /\ pp[h][va].born \in Nat
                               /\ pp'[h][va].born = pp[h][va].born
                               /\ pp[h][va].born >= 1
                               /\ pp[h][va].born = pp[h][p].born => va = p
      BY <1>1, <1>5 DEF TypeOK, Node, MarksOnly, BornOnce, ListComplete
    <2>2. n = NULL => pp[h][p].born = 1
      BY <1>1 DEF ListComplete
    <2>3. n # NULL => n \in pages[h] /\ pp[h][n].born = pp[h][p].born - 1
      BY <1>1, SMTT(60) DEF ListComplete
    <2>4. \A va : va \in Missing(c)' <=>
              va \in pages[h] /\ (n = NULL \/ pp[h][va].born > pp[h][n].born)
      <3>1. op'[c] = op[c] /\ pc'[c] = "unmap"
        BY <1>0
      <3>2. cur'[c] = n /\ Active(c)' = h /\ PagesOf(Active(c))' = pages[h]
        BY <1>0, <1>8
      <3> HIDE DEF h, p, n
      <3>3. \A va : op'[c] # [at |-> "install", space |-> h, va |-> va]
        BY ONLY <1>b, <3>1, Zenon
      <3>4. \A va : va \in Missing(c)' <=>
                va \in pages[h] /\ (n = NULL \/ pp'[h][va].born > pp'[h][n].born)
        BY ONLY <3>1, <3>2, <3>3 DEF Missing
      <3> QED
        BY ONLY <2>1, <2>3, <3>4
    <2>5. ASSUME NEW va
          PROVE  va \in Missing(c)' <=> (va \in Missing(c) \/ va = p)
      <3>1. va \notin pages[h] =>
              va \notin Missing(c)' /\ va \notin Missing(c) /\ va # p
        BY <1>1, <1>c, <2>4
      <3>2. ASSUME va \in pages[h], n = NULL
            PROVE  va \in Missing(c)' <=> (va \in Missing(c) \/ va = p)
        BY ONLY <1>1, <1>c, <2>1, <2>2, <2>4, <3>2
      <3>3. ASSUME va \in pages[h], n # NULL
            PROVE  va \in Missing(c)' <=> (va \in Missing(c) \/ va = p)
        <4> DEFINE x == pp[h][va].born
                   y == pp[h][p].born
        <4>1. x \in Nat /\ y \in Nat /\ (x = y <=> va = p)
          BY ONLY <1>1, <2>1, <3>3
        <4>2. va \in Missing(c) <=> x > y
          BY ONLY <1>c, <3>3
        <4>3. va \in Missing(c)' <=> x > y - 1
          BY ONLY <2>3, <2>4, <3>3
        <4> HIDE DEF x, y
        <4> QED
          BY ONLY <4>1, <4>2, <4>3
      <3> QED
        BY ONLY <3>1, <3>2, <3>3, SMTT(60)
    <2> QED
      BY <2>5
  <1>10. Unmarked(c) = Missing(c) /\ Unmarked(c)' = Missing(c)'
    <2>1. Unmarked(c) = Missing(c)
      BY ONLY <1>0, <1>8, <1>b, <1>c DEF Unmarked
    <2>2. \A va \in Missing(c)' : va \in pages[h]
      BY ONLY <1>1, <1>9, <1>c
    <2>3. /\ Active(c)' = h /\ PagesOf(Active(c))' = pages[h]
          /\ \A va : op'[c] # [at |-> "flag", space |-> h, va |-> va]
      BY ONLY <1>0, <1>8, <1>b
    <2>4. Unmarked(c)' = Missing(c)'
      BY ONLY <2>2, <2>3 DEF Unmarked
    <2> QED
      BY <2>1, <2>4
  <1>11. ShownAt(c)'
    <2>1. \A va \in Page : va # p => mem'[c][va] = mem[c][va]
      BY <1>4 DEF TypeOK
    <2>2. mem'[c][p] = NULL
      BY <1>1, <1>4 DEF TypeOK
    <2> QED
      BY <1>0, <1>5, <1>8, <1>9, <2>1, <2>2 DEF Shown, ShownAt
  <1>12. MarkedAt(c)'
    BY <1>0, <1>1, <1>5, <1>8, <1>9, <1>10 DEF Marked, MarkedAt, TypeOK
  <1>13. \A g \in Space : Uses(c, g)' => Uses(c, g)
    BY <1>0 DEF Uses, Switching
  <1>14. \A g \in Space, va \in Page :
            (va \notin pages'[g] \/ Active(c)' # g) /\ pp'[g][va].is_mapped =>
               \E d \in CPU \ {c} : Active(d) = g /\ va \in pages[g]
    BY <1>0, <1>1, <1>5, OtherMarks
  <1>15. Control'
    <2>1. \A d \in CPU \ {c} : /\ UNCHANGED <<pc[d], op[d], cur[d], vm_head[d], to[d]>>
                               /\ PagesOf(Active(d))' = PagesOf(Active(d))
      BY <1>7, FrameView DEF Untouched
    <2>2. cur'[c] # NULL => cur'[c] \in PagesOf(Active(c))'
      BY <1>0, <1>1, <1>8, SMTT(60) DEF ListComplete
    <2> QED
      BY <1>0, <2>1, <2>2 DEF Control
  <1> QED
    BY <1>6, <1>7, <1>11, <1>12, <1>13, <1>14, <1>15, StepOfOne

LEMMA MapAllStep ==
    ASSUME NEW c \in CPU, IInv, MapAll(c)
    PROVE  IInv'
  <1> DEFINE h == ctx[to[c]].vm_head
             p == cur[c]
             n == pp[h][p].next
  <1> HIDE DEF h, p, n
  <1>i. /\ TypeOK /\ ListComplete /\ BornOnce /\ Control /\ EnabledFirst
        /\ Shown /\ Marked
    BY DEF IInv
  <1>m. /\ pc[c] = "mapall" /\ p # NULL
        /\ mem' = [mem EXCEPT ![c][p] = pp[h][p].pa]
        /\ pp' = [pp EXCEPT ![h][p].is_mapped = TRUE]
        /\ cur' = [cur EXCEPT ![c] = n]
        /\ UNCHANGED <<vme_enable, made, pages, head, nr_page, vm_head, live,
                       ctx, running, op, pc, to>>
    BY ONLY MapAll(c) DEF MapAll, h, p, n
  <1>0. /\ op[c] = Idle /\ op' = op
        /\ Active(c) = h /\ Active(c)' = h /\ cur'[c] = n
        /\ \A d \in CPU \ {c} : cur'[d] = cur[d]
    <2>1. op[c] = Idle
      <3>1. op \in [CPU -> Op] /\ pc[c] \notin {"run", "handler"}
        BY <1>i, <1>m DEF TypeOK
      <3> QED
        BY <1>i, <3>1 DEF Control, Op
    <2>2. cur'[c] = n /\ \A d \in CPU \ {c} : cur'[d] = cur[d]
      BY <1>i, <1>m DEF TypeOK
    <2>3. Active(c) = h /\ Active(c)' = h
      BY ONLY <1>m DEF Active, h
    <2> QED
      BY <1>m, <2>1, <2>2, <2>3
  <1>1. h \in Space /\ p \in Page /\ p \in pages[h] /\ Uses(c, h)
    <2>1. p \in PagesOf(h)
      BY ONLY <1>0, <1>i, <1>m DEF Control, p
    <2>2. h \in Space \cup {NULL} /\ pages \in [Space -> SUBSET Page]
      BY <1>i DEF TypeOK, h
    <2>3. h \in Space /\ p \in pages[h]
      BY <2>1, <2>2 DEF PagesOf
    <2> QED
      BY ONLY <1>m, <2>2, <2>3 DEF Uses, Switching, h
  <1>2. pp[h][p] \in Node /\ n \in Page \cup {NULL}
    <2>1. pp[h][p] \in Node
      BY <1>1, <1>i DEF TypeOK
    <2> QED
      BY <2>1 DEF Node, n
  <1>5. /\ MarksOnly(h) /\ pp'[h][p].is_mapped = TRUE
        /\ \A va \in Page : va # p => pp'[h][va] = pp[h][va]
    <2>1. pp \in [Space -> [Page -> Node]]
      BY <1>i DEF TypeOK
    <2> QED
      BY ONLY <1>1, <1>m, <2>1, OneMark, Zenon
  <1>6. TypeOK' /\ ListComplete' /\ BornOnce' /\ EnabledFirst'
    <2>1. pp' \in [Space -> [Page -> Node]]
      <3>1. [pp[h][p] EXCEPT !.is_mapped = TRUE] \in Node
        BY <1>2, Zenon DEF Node
      <3>2. pp \in [Space -> [Page -> Node]]
        BY <1>i DEF TypeOK
      <3> QED
        BY ONLY <1>1, <1>m, <3>1, <3>2
    <2>2. mem' \in [CPU -> [Page -> Frame \cup {NULL}]]
      <3>1. pp[h][p].pa \in Frame \cup {NULL}
        BY <1>2 DEF Node
      <3>2. mem \in [CPU -> [Page -> Frame \cup {NULL}]]
        BY <1>i DEF TypeOK
      <3> QED
        BY ONLY <1>1, <1>m, <3>1, <3>2
    <2>3. cur' \in [CPU -> Page \cup {NULL}]
      BY <1>2, <1>i, <1>m DEF TypeOK
    <2>4. TypeOK'
      BY <1>i, <1>m, <2>1, <2>2, <2>3 DEF TypeOK
    <2>5. EnabledFirst'
      BY <1>i, <1>m DEF EnabledFirst
    <2> QED
      BY <1>1, <1>5, <1>i, <2>4, <2>5, MarksKeepLists
  <1>7. \A d \in CPU \ {c} : Untouched(d)
    <2>1. \A d \in CPU \ {c} : mem'[d] = mem[d]
      BY <1>i, <1>m DEF TypeOK
    <2>2. \A d \in CPU \ {c} : UNCHANGED <<pc[d], op[d], cur[d], mem[d]>>
      BY <1>0, <1>m, <2>1
    <2>3. UNCHANGED <<vm_head, ctx, to>>
      BY <1>m
    <2> QED
      BY <1>1, <1>5, <2>2, <2>3, MarksUntouched, Zenon
  <1>8. PagesOf(Active(c))' = pages[h] /\ PagesOf(Active(c)) = pages[h]
    BY <1>0, <1>1, <1>m, SetsAssumption DEF PagesOf
  <1>b. \A va : /\ op[c] # [at |-> "install", space |-> h, va |-> va]
                /\ op[c] # [at |-> "flag", space |-> h, va |-> va]
    BY <1>0 DEF Idle
  <1>c. \A va : va \in Missing(c) <=>
                  va \in pages[h] /\ pp[h][va].born <= pp[h][p].born
    <2>1. cur[c] = p
      BY DEF p
    <2> QED
      BY ONLY <1>0, <1>8, <1>b, <1>m, <2>1 DEF Missing
  <1>9. Missing(c)' = Missing(c) \ {p}
    <2>1. \A va \in pages[h] : /\ pp[h][va].born \in Nat
                               /\ pp'[h][va].born = pp[h][va].born
                               /\ pp[h][va].born = pp[h][p].born => va = p
      <3>1. \A va \in pages[h] : va \in Page /\ pp[h][va] \in Node
        BY <1>1, <1>i DEF TypeOK
      <3>2. \A va \in Page : pp'[h][va].born = pp[h][va].born
        BY <1>5 DEF MarksOnly
      <3>3. \A va \in pages[h] : pp[h][va].born = pp[h][p].born => va = p
        BY <1>1, <1>i DEF BornOnce
      <3> QED
        BY <3>1, <3>2, <3>3 DEF Node
    <2>2. /\ \A va \in pages[h] : pp[h][va].born >= 1
          /\ n = NULL => pp[h][p].born = 1
          /\ n # NULL => n \in pages[h] /\ pp[h][n].born = pp[h][p].born - 1
      BY <1>1, <1>i DEF ListComplete, n
    <2>4. \A va : va \in Missing(c)' <=>
              va \in pages[h] /\ (n # NULL /\ pp[h][va].born <= pp[h][n].born)
      <3>1. op'[c] = op[c] /\ pc'[c] = "mapall"
        BY <1>m
      <3>2. cur'[c] = n /\ Active(c)' = h /\ PagesOf(Active(c))' = pages[h]
        BY <1>0, <1>8
      <3>3. \A va : op'[c] # [at |-> "install", space |-> h, va |-> va]
        BY ONLY <1>b, <3>1, Zenon
      <3>4. \A va : va \in Missing(c)' <=>
                va \in pages[h] /\ (n # NULL /\ pp'[h][va].born <= pp'[h][n].born)
        BY ONLY <3>1, <3>2, <3>3 DEF Missing
      <3> QED
        BY ONLY <2>1, <2>2, <3>4
    <2>5. ASSUME NEW va
          PROVE  va \in Missing(c)' <=> (va \in Missing(c) /\ va # p)
      <3>1. va \notin pages[h] => va \notin Missing(c)' /\ va \notin Missing(c)
        BY ONLY <1>c, <2>4, Zenon
      <3>2. ASSUME va \in pages[h], n = NULL
            PROVE  va \in Missing(c)' <=> (va \in Missing(c) /\ va # p)
        BY ONLY <1>1, <1>c, <2>1, <2>2, <2>4, <3>2
      <3>3. ASSUME va \in pages[h], n # NULL
            PROVE  va \in Missing(c)' <=> (va \in Missing(c) /\ va # p)
        <4> DEFINE x == pp[h][va].born
                   y == pp[h][p].born
        <4>1. x \in Nat /\ y \in Nat /\ (x = y <=> va = p)
          BY ONLY <1>1, <2>1, <3>3
        <4>2. va \in Missing(c) <=> x <= y
          BY ONLY <1>c, <3>3
        <4>3. va \in Missing(c)' <=> x <= y - 1
          BY ONLY <2>2, <2>4, <3>3
        <4> HIDE DEF x, y
        <4> QED
          BY ONLY <4>1, <4>2, <4>3
      <3> QED
        BY ONLY <3>1, <3>2, <3>3
    <2> QED
      BY ONLY <2>5
  <1>10. Unmarked(c) = Missing(c) /\ Unmarked(c)' = Missing(c)'
    <2>1. Unmarked(c) = Missing(c)
      BY ONLY <1>0, <1>8, <1>b, <1>c DEF Unmarked
    <2>2. \A va \in Missing(c)' : va \in pages[h]
      BY ONLY <1>9, <1>c
    <2>3. /\ Active(c)' = h /\ PagesOf(Active(c))' = pages[h]
          /\ \A va : op'[c] # [at |-> "flag", space |-> h, va |-> va]
      BY ONLY <1>0, <1>8, <1>b
    <2>4. Unmarked(c)' = Missing(c)'
      BY ONLY <2>2, <2>3 DEF Unmarked
    <2> QED
      BY <2>1, <2>4
  <1>11. ShownAt(c)'
    <2>1. \A va \in Page : va # p => mem'[c][va] = mem[c][va]
      BY <1>i, <1>m DEF TypeOK
    <2>2. mem'[c][p] = pp[h][p].pa
      BY <1>1, <1>i, <1>m DEF TypeOK
    <2>3. pp'[h][p].pa = pp[h][p].pa
      BY <1>1, <1>5 DEF MarksOnly
    <2>4. \A va \in Page : mem[c][va] =
             IF va \in pages[h] \ Missing(c) THEN pp[h][va].pa ELSE NULL
      BY <1>0, <1>8, <1>i DEF Shown, ShownAt
    <2>5. ASSUME NEW va \in Page
          PROVE  mem'[c][va] =
             IF va \in pages[h] \ Missing(c)' THEN pp'[h][va].pa ELSE NULL
      <3>1. CASE va = p
        BY ONLY <1>1, <1>9, <2>2, <2>3, <3>1
      <3>2. CASE va # p
        BY ONLY <1>5, <1>9, <2>1, <2>4, <2>5, <3>2
      <3> QED
        BY ONLY <3>1, <3>2
    <2>6. Active(c)' = h /\ PagesOf(Active(c))' = pages[h]
      BY ONLY <1>0, <1>8
    <2> QED
      BY ONLY <2>5, <2>6 DEF ShownAt
  <1>12. MarkedAt(c)'
    <2>1. pages[h] \subseteq Page
      BY <1>1, <1>i DEF TypeOK
    <2>2. \A va \in pages[h] : pp[h][va].is_mapped <=> va \notin Missing(c)
      BY <1>0, <1>8, <1>10, <1>i DEF Marked, MarkedAt
    <2>3. ASSUME NEW va \in pages[h]
          PROVE  pp'[h][va].is_mapped <=> va \notin Missing(c)'
      <3>1. CASE va = p
        BY ONLY <1>5, <1>9, <3>1
      <3>2. CASE va # p
        BY ONLY <1>5, <1>9, <2>1, <2>2, <2>3, <3>2
      <3> QED
        BY ONLY <3>1, <3>2
    <2>4. /\ Active(c)' = h /\ PagesOf(Active(c))' = pages[h]
          /\ Unmarked(c)' = Missing(c)'
      BY ONLY <1>0, <1>8, <1>10
    <2> QED
      BY ONLY <2>3, <2>4 DEF MarkedAt
  <1>13. \A g \in Space : Uses(c, g)' => Uses(c, g)
    BY <1>m DEF Uses, Switching
  <1>14. \A g \in Space, va \in Page :
            (va \notin pages'[g] \/ Active(c)' # g) /\ pp'[g][va].is_mapped =>
               \E d \in CPU \ {c} : Active(d) = g /\ va \in pages[g]
    <2>1. /\ Active(c) \in Space /\ Active(c)' = Active(c) /\ UNCHANGED pages
          /\ MarksOnly(Active(c))
      BY <1>0, <1>1, <1>5, <1>m
    <2>2. \A va \in Page : va \notin pages[Active(c)] =>
                             pp'[Active(c)][va] = pp[Active(c)][va]
      BY ONLY <1>0, <1>1, <1>5
    <2> QED
      BY <2>1, <2>2, OtherMarks, Zenon
  <1>15. Control'
    <2>1. \A d \in CPU \ {c} : /\ UNCHANGED <<pc[d], op[d], cur[d], vm_head[d], to[d]>>
                               /\ PagesOf(Active(d))' = PagesOf(Active(d))
      BY <1>7, <1>i, FrameView DEF Untouched
    <2>2. cur'[c] # NULL => cur'[c] \in PagesOf(Active(c))'
      BY <1>0, <1>1, <1>8, <1>i DEF ListComplete, n
    <2>3. \A k \in Context : ctx'[k].op = Idle
      BY <1>i, <1>m DEF Control
    <2>4. UNCHANGED <<pages, running, to, live, vm_head, ctx, pc, op>>
      BY <1>m
    <2> QED
      BY <1>0, <1>i, <1>m, <2>1, <2>2, <2>3, <2>4 DEF Control
  <1> QED
    BY <1>6, <1>7, <1>11, <1>12, <1>13, <1>14, <1>15, StepOfOne DEF IInv

(* map() on a space that is not the running one only forgets where it is.  *)
LEMMA MapInstallStep ==
    ASSUME NEW c \in CPU, IInv, MapInstall(c)
    PROVE  IInv'
  <1> USE DEF IInv, MapInstall, lists
  <1> DEFINE h == op[c].space
             va == op[c].va
  <1>0. /\ pc[c] \in {"run", "handler"} /\ pc' = pc /\ op[c].at = "install"
        /\ h \in Space /\ va \in pages[h] /\ va \in Page
        /\ op[c] = [at |-> "install", space |-> h, va |-> va]
        /\ Active(c) = vm_head[c] /\ Active(c)' = vm_head[c]
    BY DEF TypeOK, Op, Control, Active
  <1>1. PagesOf(Active(c))' = PagesOf(Active(c))
    BY <1>0 DEF PagesOf
  <1>2. Missing(c) = {v \in PagesOf(Active(c)) : h = vm_head[c] /\ v = va}
    BY <1>0 DEF Missing
  <1>3. Unmarked(c) = Missing(c)
    BY <1>0 DEF Unmarked, Missing
  <1>4. CASE h = vm_head[c]
    <2>1. /\ op' = [op EXCEPT ![c].at = "flag"]
          /\ mem' = [mem EXCEPT ![c][va] = pp[h][va].pa]
      BY <1>4
    <2>2. /\ op'[c] = [at |-> "flag", space |-> h, va |-> va]
          /\ \A d \in CPU \ {c} : op'[d] = op[d] /\ mem'[d] = mem[d]
          /\ mem'[c][va] = pp[h][va].pa
          /\ \A v \in Page : v # va => mem'[c][v] = mem[c][v]
      BY <1>0, <2>1, Zenon DEF TypeOK
    <2>3. TypeOK'
      <3>1. op'[c] \in Op
        BY <1>0, <2>2 DEF Op, TypeOK
      <3>2. op' \in [CPU -> Op]
        BY <2>1, <2>2, <3>1 DEF TypeOK
      <3>3. pp[h][va].pa \in Frame \cup {NULL}
        BY <1>0 DEF TypeOK, Node
      <3>4. mem' \in [CPU -> [Page -> Frame \cup {NULL}]]
        BY <1>0, <2>1, <3>3 DEF TypeOK
      <3> QED
        BY <3>2, <3>4 DEF TypeOK
    <2>4. ListComplete' /\ BornOnce' /\ EnabledFirst'
      BY DEF ListComplete, BornOnce, EnabledFirst
    <2>5. \A d \in CPU \ {c} : Untouched(d)
      BY <1>0, <2>2 DEF Untouched
    <2>6. Missing(c)' = {} /\ Unmarked(c)' = Missing(c)
      <3>1. Missing(c)' = {}
        BY <1>0, <1>1, <2>2 DEF Missing
      <3> QED
        BY <1>0, <1>1, <1>2, <1>4, <2>2, <3>1 DEF Unmarked
    <2>7. ShownAt(c)'
      <3>1. \A v \in Page : mem[c][v] =
               IF v \in PagesOf(h) \ {va} THEN pp[h][v].pa ELSE NULL
        BY <1>0, <1>2, <1>4 DEF Shown, ShownAt
      <3>2. va \in PagesOf(h)
        BY <1>0, SetsAssumption DEF PagesOf
      <3>3. \A v \in Page : mem'[c][v] =
               IF v \in PagesOf(h) THEN pp[h][v].pa ELSE NULL
        BY ONLY <2>2, <3>1, <3>2
      <3>4. pp' = pp /\ Active(c)' = h /\ PagesOf(Active(c))' = PagesOf(h)
        BY <1>0, <1>1, <1>4
      <3> QED
        BY ONLY <2>6, <3>3, <3>4 DEF ShownAt
    <2>8. MarkedAt(c)'
      BY <1>0, <1>1, <1>3, <2>6 DEF Marked, MarkedAt
    <2>9. \A g \in Space : Uses(c, g)' => Uses(c, g)
      BY <1>0, <1>4, <2>2 DEF Uses, Switching
    <2>10. \A g \in Space, v \in Page :
             (v \notin pages'[g] \/ Active(c)' # g) /\ pp'[g][v].is_mapped =>
                \E d \in CPU \ {c} : Active(d) = g /\ v \in pages[g]
      BY <1>0 DEF Unclaimed
    <2>11. Control'
      <3>1. \A d \in CPU \ {c} : /\ UNCHANGED <<pc[d], op[d], cur[d], vm_head[d], to[d]>>
                                 /\ PagesOf(Active(d))' = PagesOf(Active(d))
        BY <2>5, FrameView DEF Untouched
      <3> QED
        BY <1>0, <1>4, <2>2, <3>1 DEF Control
    <2> QED
      BY <2>3, <2>4, <2>5, <2>7, <2>8, <2>9, <2>10, <2>11, StepOfOne
  <1>5. CASE h # vm_head[c]
    <2>1. op' = [op EXCEPT ![c] = Idle] /\ mem' = mem
      BY <1>5
    <2>2. op'[c] = Idle /\ \A d \in CPU \ {c} : op'[d] = op[d]
      BY <2>1 DEF TypeOK
    <2>3. TypeOK' /\ ListComplete' /\ BornOnce' /\ EnabledFirst'
      <3>1. op' \in [CPU -> Op]
        BY <2>1 DEF TypeOK, Op, Idle
      <3> QED
        BY <2>1, <3>1 DEF TypeOK, ListComplete, BornOnce, EnabledFirst
    <2>4. \A d \in CPU \ {c} : Untouched(d)
      BY <1>0, <2>1, <2>2 DEF Untouched
    <2>5. Missing(c)' = Missing(c) /\ Unmarked(c)' = Unmarked(c)
      <3>1. Missing(c) = {} /\ Unmarked(c) = {}
        BY <1>2, <1>3, <1>5
      <3>2. Missing(c)' = {}
        BY <1>0, <2>2 DEF Missing, Idle
      <3>3. Unmarked(c)' = {}
        BY <1>0, <2>2, <3>2 DEF Unmarked, Idle
      <3> QED
        BY <3>1, <3>2, <3>3
    <2>6. \A g \in Space : Uses(c, g)' => Uses(c, g)
      BY <1>0, <2>2, SetsAssumption DEF Uses, Switching, Idle
    <2>7. Control'
      <3>1. \A d \in CPU \ {c} : /\ UNCHANGED <<pc[d], op[d], cur[d], vm_head[d], to[d]>>
                                 /\ PagesOf(Active(d))' = PagesOf(Active(d))
        BY <2>4, FrameView DEF Untouched
      <3> QED
        BY <1>0, <2>2, <3>1 DEF Control, Idle
    <2> QED
      BY <1>0, <2>1, <2>3, <2>4, <2>5, <2>6, <2>7, QuietStep
  <1> QED
    BY <1>4, <1>5

LEMMA MapFlagStep ==
    ASSUME NEW c \in CPU, IInv, MapFlag(c)
    PROVE  IInv'
  <1> USE DEF IInv, MapFlag, lists
  <1> DEFINE h == op[c].space
             p == op[c].va
  <1>0. /\ pc[c] \in {"run", "handler"} /\ pc' = pc
        /\ h \in Space /\ p \in pages[h] /\ p \in Page /\ h = vm_head[c]
        /\ op[c] = [at |-> "flag", space |-> h, va |-> p]
        /\ Active(c) = h /\ Active(c)' = h
    BY DEF TypeOK, Op, Control, Active
  <1>1. /\ op' = [op EXCEPT ![c] = Idle]
        /\ pp' = [pp EXCEPT ![h][p].is_mapped = TRUE]
    OBVIOUS
  <1>2. op'[c] = Idle /\ \A d \in CPU \ {c} : op'[d] = op[d]
    BY <1>1 DEF TypeOK
  <1>3. pp[h][p] \in Node /\ Uses(c, h)
    BY <1>0 DEF TypeOK, Uses
  <1>5. /\ MarksOnly(h) /\ pp'[h][p].is_mapped = TRUE
        /\ \A va \in Page : va # p => pp'[h][va] = pp[h][va]
    <2>1. pp \in [Space -> [Page -> Node]]
      BY DEF TypeOK
    <2>2. UNCHANGED <<pages, head, nr_page>>
      BY ONLY MapFlag(c)
    <2> HIDE DEF h, p
    <2> QED
      BY ONLY <1>0, <1>1, <2>1, <2>2, OneMark, Zenon
  <1>6. TypeOK' /\ ListComplete' /\ BornOnce' /\ EnabledFirst'
    <2>1. pp' \in [Space -> [Page -> Node]]
      <3>1. [pp[h][p] EXCEPT !.is_mapped = TRUE] \in Node
        BY <1>3, Zenon DEF Node
      <3> QED
        BY <1>0, <1>1, <3>1, SMTT(60) DEF TypeOK
    <2>2. op' \in [CPU -> Op]
      BY <1>1 DEF TypeOK, Op, Idle
    <2>3. TypeOK'
      BY <2>1, <2>2 DEF TypeOK
    <2> QED
      BY <1>0, <1>5, <2>3, MarksKeepLists DEF EnabledFirst
  <1>7. \A d \in CPU \ {c} : Untouched(d)
    BY <1>0, <1>2, <1>3, <1>5, MarksUntouched
  <1>8. PagesOf(Active(c))' = pages[h] /\ PagesOf(Active(c)) = pages[h]
    BY <1>0, SetsAssumption DEF PagesOf
  <1>9. Missing(c) = {} /\ Missing(c)' = {}
    <2>1. Missing(c) = {}
      BY <1>0 DEF Missing
    <2>2. Missing(c)' = {}
      BY <1>0, <1>2 DEF Missing, Idle
    <2> QED
      BY <2>1, <2>2
  <1>10. Unmarked(c) = {p} /\ Unmarked(c)' = {}
    <2>1. Unmarked(c) = {p}
      BY <1>0, <1>8, <1>9 DEF Unmarked
    <2>2. Unmarked(c)' = {}
      BY <1>0, <1>2, <1>9 DEF Unmarked, Idle
    <2> QED
      BY <2>1, <2>2
  <1>11. ShownAt(c)'
    <2>1. \A va \in Page : mem[c][va] =
             IF va \in pages[h] THEN pp[h][va].pa ELSE NULL
      BY <1>0, <1>8, <1>9, SMTT(60) DEF Shown, ShownAt
    <2>2. \A va \in Page : pp'[h][va].pa = pp[h][va].pa
      BY <1>5 DEF MarksOnly
    <2>3. mem' = mem /\ Active(c)' = h /\ PagesOf(Active(c))' = pages[h]
      BY <1>0, <1>8
    <2> QED
      BY ONLY <1>9, <2>1, <2>2, <2>3 DEF ShownAt
  <1>12. MarkedAt(c)'
    BY <1>0, <1>5, <1>8, <1>10 DEF Marked, MarkedAt, TypeOK
  <1>13. \A g \in Space : Uses(c, g)' => Uses(c, g)
    BY <1>0, <1>2, SetsAssumption DEF Uses, Switching, Idle
  <1>14. \A g \in Space, va \in Page :
            (va \notin pages'[g] \/ Active(c)' # g) /\ pp'[g][va].is_mapped =>
               \E d \in CPU \ {c} : Active(d) = g /\ va \in pages[g]
    BY <1>0, <1>5, OtherMarks
  <1>15. Control'
    <2>1. \A d \in CPU \ {c} : /\ UNCHANGED <<pc[d], op[d], cur[d], vm_head[d], to[d]>>
                               /\ PagesOf(Active(d))' = PagesOf(Active(d))
      BY <1>7, FrameView DEF Untouched
    <2>2. UNCHANGED <<pages, running, to, live, vm_head, ctx>>
      OBVIOUS
    <2> QED
      BY <1>0, <1>2, <2>1, <2>2 DEF Control, Idle
  <1> QED
    BY <1>6, <1>7, <1>11, <1>12, <1>13, <1>14, <1>15, StepOfOne

(* Linking a new node keeps the list whole.                                *)
LEMMA LinkKeepsLists ==
    ASSUME NEW c \in CPU, NEW h \in Space, NEW va \in Page, NEW pa \in Frame,
           IInv, Careful, MapLink(c, h, va, pa)
    PROVE  ListComplete' /\ BornOnce'
  <1> USE DEF IInv
  <1>1. /\ va \notin pages[h] /\ pages[h] \subseteq Page
        /\ pages'[h] = pages[h] \cup {va}
        /\ nr_page'[h] = nr_page[h] + 1 /\ nr_page[h] \in Nat
        /\ head'[h] = va
        /\ pp'[h][va].next = head[h] /\ pp'[h][va].born = nr_page[h] + 1
        /\ \A vb \in pages[h] : pp'[h][vb] = pp[h][vb]
        /\ \A vb \in pages[h] : pp[h][vb].born \in 1..nr_page[h]
    BY DEF MapLink, NewNode, TypeOK, Careful, ListComplete
  <1>2. \A g \in Space \ {h} : /\ pages'[g] = pages[g] /\ nr_page'[g] = nr_page[g]
                               /\ head'[g] = head[g] /\ pp'[g] = pp[g]
    BY DEF MapLink, TypeOK, Careful
  <1>3. /\ head[h] = NULL <=> nr_page[h] = 0
        /\ head[h] # NULL => head[h] \in pages[h] /\ pp[h][head[h]].born = nr_page[h]
        /\ \A vb \in pages[h] :
              /\ pp[h][vb].next = NULL <=> pp[h][vb].born = 1
              /\ pp[h][vb].next # NULL =>
                    /\ pp[h][vb].next \in pages[h]
                    /\ pp[h][pp[h][vb].next].born = pp[h][vb].born - 1
    BY DEF ListComplete
  <1>4. va # NULL
    BY SetsAssumption
  <1>5. /\ head'[h] = NULL <=> nr_page'[h] = 0
        /\ head'[h] # NULL =>
              head'[h] \in pages'[h] /\ pp'[h][head'[h]].born = nr_page'[h]
    BY ONLY <1>1, <1>4
  <1>6. \A vb \in pages'[h] :
           /\ pp'[h][vb].born \in 1..nr_page'[h]
           /\ pp'[h][vb].next = NULL <=> pp'[h][vb].born = 1
           /\ pp'[h][vb].next # NULL =>
                 /\ pp'[h][vb].next \in pages'[h]
                 /\ pp'[h][pp'[h][vb].next].born = pp'[h][vb].born - 1
    <2>1. CASE head[h] = NULL
      BY ONLY <1>1, <1>3, <2>1
    <2>2. CASE head[h] # NULL
      BY ONLY <1>1, <1>3, <2>2
    <2> QED
      BY <2>1, <2>2
  <1>7. ListComplete'
    <2> SUFFICES ASSUME NEW g \in Space \ {h}
                 PROVE  /\ head'[g] = NULL <=> nr_page'[g] = 0
                        /\ head'[g] # NULL =>
                              head'[g] \in pages'[g] /\ pp'[g][head'[g]].born = nr_page'[g]
                        /\ \A vb \in pages'[g] :
                             /\ pp'[g][vb].born \in 1..nr_page'[g]
                             /\ pp'[g][vb].next = NULL <=> pp'[g][vb].born = 1
                             /\ pp'[g][vb].next # NULL =>
                                   /\ pp'[g][vb].next \in pages'[g]
                                   /\ pp'[g][pp'[g][vb].next].born
                                        = pp'[g][vb].born - 1
      BY <1>5, <1>6 DEF ListComplete
    <2> QED
      BY <1>2 DEF ListComplete
  <1>8. BornOnce'
    <2>1. \A vb, vc \in pages'[h] : pp'[h][vb].born = pp'[h][vc].born => vb = vc
      <3>1. \A vb, vc \in pages[h] : pp[h][vb].born = pp[h][vc].born => vb = vc
        BY DEF BornOnce
      <3> QED
        BY ONLY <1>1, <3>1
    <2> QED
      BY <1>2, <2>1 DEF BornOnce
  <1> QED
    BY <1>7, <1>8

LEMMA MapLinkStep ==
    ASSUME NEW c \in CPU, NEW h \in Space, NEW va \in Page, NEW pa \in Frame,
           IInv, Careful, MapLink(c, h, va, pa)
    PROVE  IInv'
  <1> USE DEF IInv
  <1>0. /\ pc[c] \in {"run", "handler"} /\ pc' = pc /\ op[c] = Idle
        /\ op'[c] = [at |-> "install", space |-> h, va |-> va]
        /\ \A d \in CPU \ {c} : op'[d] = op[d]
        /\ va \notin pages[h] /\ h \in made
        /\ \A d \in CPU \ {c} : ~Uses(d, h)
        /\ UNCHANGED <<vme_enable, made, mem, vm_head, live, ctx, running, pc, to, cur>>
    BY DEF MapLink, InKernel, TypeOK, Careful, Exclusive
  <1>1. /\ pages'[h] = pages[h] \cup {va}
        /\ pp'[h][va].is_mapped = FALSE
        /\ \A vb \in Page : vb # va => pp'[h][vb] = pp[h][vb]
        /\ \A g \in Space \ {h} : pages'[g] = pages[g] /\ pp'[g] = pp[g]
    BY <1>0 DEF MapLink, NewNode, TypeOK
  <1>2. ListComplete' /\ BornOnce'
    BY LinkKeepsLists
  <1>3. TypeOK' /\ EnabledFirst'
    <2>1. pages' \in [Space -> SUBSET Page] /\ head' \in [Space -> Page \cup {NULL}]
          /\ nr_page' \in [Space -> Nat]
      BY DEF MapLink, TypeOK
    <2>2. \A nx \in Page \cup {NULL} : \A b \in Nat :
             [pa |-> pa, next |-> nx, is_mapped |-> FALSE, born |-> b] \in Node
      BY DEF Node
    <2>3. pp' \in [Space -> [Page -> Node]]
      <3> DEFINE new == [pa |-> pa, next |-> head[h], is_mapped |-> FALSE,
                         born |-> nr_page[h] + 1]
      <3>1. pp' = [pp EXCEPT ![h][va] = new]
        BY <1>0 DEF MapLink, NewNode
      <3>2. head[h] \in Page \cup {NULL} /\ nr_page[h] + 1 \in Nat
        BY DEF TypeOK
      <3>3. new \in Node
        BY <2>2, <3>2
      <3> HIDE DEF new
      <3> QED
        BY <3>1, <3>3 DEF TypeOK
    <2>4. op' \in [CPU -> Op]
      <3>1. [at |-> "install", space |-> h, va |-> va] \in Op
        BY DEF Op
      <3> QED
        BY <3>1 DEF MapLink, TypeOK
    <2>5. TypeOK'
      BY <1>0, <2>1, <2>3, <2>4 DEF TypeOK
    <2> QED
      BY <1>0, <2>5 DEF EnabledFirst
  <1>4. \A d \in CPU \ {c} : Untouched(d)
    BY <1>0, <1>1 DEF Untouched
  <1>5. Active(c) = vm_head[c] /\ Active(c)' = vm_head[c]
    BY <1>0 DEF Active
  <1>6. Missing(c) = {} /\ Unmarked(c) = {}
    <2>1. Missing(c) = {}
      BY <1>0 DEF Missing, Idle
    <2> QED
      BY <1>0, <2>1 DEF Unmarked, Idle
  <1>7. \A vb : vb \in PagesOf(Active(c))' <=>
                   \/ vb \in PagesOf(Active(c))
                   \/ vb = va /\ vm_head[c] = h
    BY <1>1, <1>5, SetsAssumption DEF PagesOf, TypeOK
  <1>8. /\ \A vb : vb \in Missing(c)' <=> vb = va /\ vm_head[c] = h
        /\ Unmarked(c)' = Missing(c)'
    <2>1. op'[c] = [at |-> "install", space |-> h, va |-> va] /\ pc'[c] = pc[c]
      BY <1>0
    <2>2. \A vb : vb \in Missing(c)' <=> vb = va /\ vm_head[c] = h
      BY <1>0, <1>5, <1>7, <2>1 DEF Missing
    <2>3. Unmarked(c)' = Missing(c)'
      BY <1>5, <2>1 DEF Unmarked, Missing
    <2> QED
      BY <2>2, <2>3
  <1>a. vm_head[c] = h => va \notin PagesOf(Active(c))
    BY <1>0, <1>5 DEF PagesOf
  <1>9. \A vb \in PagesOf(Active(c)) : pp'[Active(c)][vb] = pp[Active(c)][vb]
    <2>1. PagesOf(Active(c)) \subseteq Page
      BY <1>5 DEF PagesOf, TypeOK
    <2>2. CASE vm_head[c] = h
      BY <1>1, <1>5, <1>a, <2>1, <2>2
    <2>3. CASE vm_head[c] \in Space \ {h}
      BY <1>1, <1>5, <2>3
    <2>4. CASE vm_head[c] = NULL
      BY <1>5, <2>4 DEF PagesOf
    <2> QED
      BY <2>2, <2>3, <2>4 DEF TypeOK
  <1>10. ShownAt(c)'
    <2>1. \A vb \in Page : mem[c][vb] =
             IF vb \in PagesOf(Active(c)) THEN pp[Active(c)][vb].pa ELSE NULL
      BY <1>6 DEF Shown, ShownAt
    <2>2. \A vb \in Page : mem[c][vb] = IF vb \in PagesOf(Active(c))' \ Missing(c)'
                                          THEN pp'[Active(c)'][vb].pa ELSE NULL
      BY ONLY <1>5, <1>7, <1>8, <1>9, <1>a, <2>1
    <2> QED
      BY <1>0, <2>2 DEF ShownAt
  <1>11. MarkedAt(c)'
    <2>1. \A vb \in PagesOf(Active(c)) : pp[Active(c)][vb].is_mapped
      BY <1>6 DEF Marked, MarkedAt
    <2> QED
      BY <1>1, <1>5, <1>7, <1>8, <1>9, <1>a, <2>1 DEF MarkedAt
  <1>12. \A g \in Space :
            Uses(c, g)' => Uses(c, g) \/ \A d \in CPU \ {c} : ~Uses(d, g)
    BY <1>0 DEF Uses, Switching
  <1>13. \A g \in Space, vb \in Page :
            (vb \notin pages'[g] \/ Active(c)' # g) /\ pp'[g][vb].is_mapped =>
               \E d \in CPU \ {c} : Active(d) = g /\ vb \in pages[g]
    <2> SUFFICES ASSUME NEW g \in Space, NEW vb \in Page,
                        vb \notin pages'[g] \/ Active(c)' # g,
                        pp'[g][vb].is_mapped
                 PROVE  \E d \in CPU \ {c} : Active(d) = g /\ vb \in pages[g]
      OBVIOUS
    <2>1. pp[g][vb].is_mapped
      BY <1>1
    <2>2. PICK d \in CPU : Active(d) = g /\ vb \in pages[g]
      BY <2>1 DEF Unclaimed
    <2>3. d # c
      BY <1>1, <1>5, <2>2
    <2> QED
      BY <2>2, <2>3
  <1>14. Control'
    <2>1. \A d \in CPU \ {c} : /\ UNCHANGED <<pc[d], op[d], cur[d], vm_head[d], to[d]>>
                               /\ PagesOf(Active(d))' = PagesOf(Active(d))
      BY <1>4, FrameView DEF Untouched
    <2>2. \A g \in Space : pages[g] \subseteq pages'[g]
      BY <1>1
    <2>3. va \in pages'[h]
      BY <1>1
    <2> QED
      BY <1>0, <2>1, <2>2, <2>3 DEF Control
  <1> QED
    BY <1>2, <1>3, <1>4, <1>10, <1>11, <1>12, <1>13, <1>14, StepOfOne

-----------------------------------------------------------------------------
(* Every step preserves the invariant. *)
LEMMA NextIInv ==
    ASSUME IInv, Careful, [Next]_vars
    PROVE  IInv'
  <1>1. CASE UNCHANGED vars
    <2> USE <1>1 DEF vars, IInv
    <2>1. TypeOK' /\ ListComplete' /\ BornOnce' /\ EnabledFirst'
      BY DEF TypeOK, ListComplete, BornOnce, EnabledFirst
    <2>2. \A d \in CPU : Untouched(d)
      BY DEF Untouched
    <2>3. Control'
      BY <2>2, FrameView DEF Control, Untouched
    <2>4. PICK c \in CPU : TRUE
      BY SetsAssumption
    <2>5. OneUser' /\ Shown' /\ Marked' /\ Unclaimed'
      BY <2>2, <2>4, FrameView, FrameProgress, QuietStep
    <2> QED
      BY <2>1, <2>3, <2>5
  <1>2. ASSUME NEW c \in CPU, KernelStep(c)
        PROVE  IInv'
    BY <1>2, VmeInitStep, ProtectStep, NewContextStep, MapLinkStep, TrapStep,
       HandlerReturnStep DEF KernelStep
  <1>3. ASSUME NEW c \in CPU, MapStep(c) \/ SwitchStep(c) \/ iret(c)
        PROVE  IInv'
    BY <1>3, MapInstallStep, MapFlagStep, UnmapStep, UnmapDoneStep, MapAllStep,
       MapAllDoneStep, SwitchEndStep, IretStep DEF MapStep, SwitchStep
  <1> QED
    BY <1>1, <1>2, <1>3 DEF Next

(* What the invariant says to a reader of vme.c. *)
LEMMA IInvImplies ==
    ASSUME IInv
    PROVE  Installed /\ AllUnmapped /\ MarkedIsInstalled
  <1> USE DEF IInv
  <1>1. Installed
    <2> SUFFICES ASSUME NEW c \in CPU, InKernel(c)
                 PROVE  mem[c] = View(vm_head[c])
      BY DEF Installed
    <2>1. Active(c) = vm_head[c] /\ Missing(c) = {}
      BY DEF Active, Missing, InKernel, Idle
    <2>2. \A va \in Page : mem[c][va] = View(vm_head[c])[va]
      BY <2>1 DEF Shown, ShownAt, View, PagesOf
    <2>3. mem[c] \in [Page -> Frame \cup {NULL}]
      BY DEF TypeOK
    <2> QED
      BY <2>2, <2>3 DEF View
  <1>2. AllUnmapped
    <2> SUFFICES ASSUME NEW c \in CPU, pc[c] = "unmap", cur[c] = NULL
                 PROVE  mem[c] = NoPage
      BY DEF AllUnmapped
    <2>1. Missing(c) = PagesOf(Active(c))
      BY DEF Missing
    <2>2. \A va \in Page : mem[c][va] = NULL
      BY <2>1 DEF Shown, ShownAt
    <2>3. mem[c] \in [Page -> Frame \cup {NULL}]
      BY DEF TypeOK
    <2> QED
      BY <2>2, <2>3 DEF NoPage
  <1>3. MarkedIsInstalled
    <2> SUFFICES ASSUME NEW h \in Space, NEW va \in Page, pp[h][va].is_mapped
                 PROVE  \E c \in CPU : Uses(c, h) /\ mem[c][va] = pp[h][va].pa
      BY DEF MarkedIsInstalled
    <2>1. PICK c \in CPU : Active(c) = h /\ va \in pages[h]
      BY DEF Unclaimed
    <2>2. va \in PagesOf(Active(c)) /\ Uses(c, h)
      BY <2>1, ActiveUsed, SetsAssumption DEF PagesOf
    <2>3. va \notin Missing(c)
      BY <2>1, <2>2, Zenon DEF Marked, MarkedAt, Unmarked
    <2> QED
      BY <2>1, <2>2, <2>3 DEF Shown, ShownAt
  <1> QED
    BY <1>1, <1>2, <1>3

(* A careful kernel keeps the address spaces of any number of CPUs, spaces  *)
(* and pages apart: whatever the interleaving of their context switches,   *)
(* a process shows exactly the pages of the space it runs.                 *)
THEOREM VmeInvariant ==
    ASSUME Careful
    PROVE  Spec => []IInv
  <1>1. Init => IInv
    BY InitIInv
  <1>2. IInv /\ [Next]_vars => IInv'
    BY NextIInv
  <1> QED
    BY <1>1, <1>2, PTL DEF Spec

(* So a switch removes every page of the space it leaves and installs every *)
(* page of the one it enters, and is_mapped never lies.                    *)
THEOREM VmeSafety ==
    ASSUME Careful
    PROVE  Spec => [](Installed /\ AllUnmapped /\ MarkedIsInstalled)
  BY VmeInvariant, IInvImplies, PTL

(* In particular unmap_all leaves no page of the space it left behind.      *)
THEOREM VmeAllUnmapped ==
    ASSUME Careful
    PROVE  Spec => []AllUnmapped
  BY VmeSafety, PTL

(* And a page that a table calls mapped is in the page table of its space.  *)
THEOREM VmeMarked ==
    ASSUME Careful
    PROVE  Spec => []MarkedIsInstalled
  BY VmeSafety, PTL

(* A context never changes its address space.                              *)
THEOREM VmeContextKeepsSpace ==
    ASSUME Careful
    PROVE  Spec => ContextKeepsSpace
  <1>1. IInv /\ [Next]_vars =>
           [\A k \in live : ctx'[k].vm_head = ctx[k].vm_head]_vars
    <2> SUFFICES ASSUME IInv, Next
                 PROVE  \A k \in live : ctx'[k].vm_head = ctx[k].vm_head
      OBVIOUS
    <2>1. PICK c \in CPU : KernelStep(c) \/ MapStep(c) \/ SwitchStep(c) \/ iret(c)
      BY DEF Next
    <2>2. CASE Trap(c)
      BY <2>2, TrapKeeps
    <2>3. CASE \E k \in Task : kcontext(c, k) \/ \E h \in Space : ucontext(c, h, k)
      BY <2>3, Zenon DEF kcontext, ucontext, IInv, TypeOK
    <2>4. CASE UNCHANGED ctx
      BY <2>4
    <2> QED
      BY <2>1, <2>2, <2>3, <2>4, Zenon
         DEF KernelStep, MapStep, SwitchStep, VmeInit, protect, MapLink,
             HandlerReturn, MapInstall, MapFlag, Unmap, UnmapDone, MapAll,
             MapAllDone, SwitchEnd, iret
  <1> QED
    BY <1>1, VmeInvariant, PTL DEF Spec, ContextKeepsSpace
=============================================================================
