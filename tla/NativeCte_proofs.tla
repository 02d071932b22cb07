--------------------------- MODULE NativeCte_proofs ---------------------------
(* Proofs about NativeCte, for any number of CPUs, tasks and frames: an     *)
(* inductive invariant of the kernel stacks, and that the signal machinery  *)
(* implements Contexts.                                                     *)
EXTENDS NativeCte, SequenceTheorems, TLAPS

(* irq_handle runs, or is entered and left, with the signals masked, on a   *)
(* kernel stack that holds a Context.                                       *)
InIrqHandle ==
    \A c \in CPU : phase[c] # "run" => ~reg[c].ie /\ ~reg[c].user /\ reg[c].sp > 0

(* The context a CPU will resume is that of its own task, or of one that no *)
(* other CPU is about to resume or still uses the stack of.                 *)
Chosen ==
    \A c \in CPU :
        /\ phase[c] # "ret" => chosen[c] = reg[c].task
        /\ \A d \in CPU \ {c} : chosen[c] # reg[d].task /\ chosen[c] # chosen[d]

Off(t) == \A c \in CPU : reg[c].task # t

(* The kernel has a context of every task that is on no CPU, and of every   *)
(* one it has just left.                                                    *)
Kept ==
    /\ \A t \in Task : Off(t) => saved[t] > 0
    /\ \A c \in CPU : phase[c] = "ret" => saved[reg[c].task] = reg[c].sp

(* The k-th live Context of a stack is of the code that had k - 1 below it; *)
(* user code had none.                                                      *)
Frame(t, k) ==
    LET r == mem[t][k].regs
    IN  r.task = t /\ r.sp = k - 1 /\ (r.user => k = 1 /\ r.at = "text")
Frames ==
    /\ \A c \in CPU : \A k \in 1 .. reg[c].sp : Frame(reg[c].task, k)
    /\ \A t \in Task : Off(t) => \A k \in 1 .. saved[t] : Frame(t, k)

(* The ksp of user code is its own kernel stack: in thiscpu while it runs   *)
(* and until irq_handle saves it, then in its Context.                      *)
Ksps ==
    /\ UserKsp
    /\ \A c \in CPU : phase[c] = "irq" /\ mem[reg[c].task][reg[c].sp].regs.user
                         => ksp[c] = reg[c].task
    /\ \A c \in CPU : \A k \in 1 .. reg[c].sp :
          mem[reg[c].task][k].regs.user /\ ~(phase[c] = "irq" /\ k = reg[c].sp)
              => mem[reg[c].task][k].ksp = reg[c].task
    /\ \A t \in Task : Off(t) => \A k \in 1 .. saved[t] :
          mem[t][k].regs.user => mem[t][k].ksp = t

IInv == TypeOK /\ InIrqHandle /\ StackExclusive /\ Chosen /\ Kept /\ Frames /\ Ksps

-----------------------------------------------------------------------------
(* The code of a CPU may move or mask the signals: its stack stays as it is. *)
(* So no part of the invariant notices. *)
LEMMA QuietInv ==
    ASSUME IInv, NEW c \in CPU, phase[c] = "run",
           NEW r \in Regs, reg' = [reg EXCEPT ![c] = r],
           r.task = reg[c].task, r.sp = reg[c].sp, r.user = reg[c].user,
           r.user => r.at = "text",
           UNCHANGED <<phase, ksp, ev, mem, kernel>>, pend' = pend
    PROVE  IInv'
  <1>a. /\ reg'[c] = r
        /\ \A d \in CPU : d # c => reg'[d] = reg[d]
    BY DEF IInv, TypeOK
  <1>b. UNCHANGED <<phase, ksp, ev, mem, saved, chosen, got, pend>>
    BY DEF kernel
  <1>c. \A d \in CPU : reg'[d].task = reg[d].task /\ reg'[d].sp = reg[d].sp /\ reg'[d].user = reg[d].user
    BY <1>a
  <1>d. \A t \in Task : Off(t)' <=> Off(t)
    BY <1>c DEF Off
  <1>e. \A t, k : Frame(t, k)' <=> Frame(t, k)
    BY <1>b DEF Frame
  <1>1. TypeOK'
    <2>1. reg' \in [CPU -> Regs]
      BY DEF IInv, TypeOK
    <2>2. \A d \in CPU : /\ reg'[d].user => reg'[d].sp = 0 /\ reg'[d].at = "text"
                         /\ phase'[d] = "irq" => ev'[d] # "ERROR"
      BY <1>a, <1>b, <1>c DEF IInv, TypeOK
    <2> QED
      BY <1>b, <2>1, <2>2 DEF IInv, TypeOK
  <1>2. InIrqHandle'
    BY <1>a, <1>b DEF IInv, InIrqHandle
  <1>3. StackExclusive'
    BY <1>c DEF IInv, StackExclusive
  <1>4. Chosen'
    BY <1>b, <1>c DEF IInv, Chosen
  <1>5. Kept'
    BY <1>b, <1>c, <1>d DEF IInv, Kept
  <1>6. Frames'
    BY <1>b, <1>c, <1>d, <1>e, SMTT(60) DEF IInv, Frames
  <1>7. Ksps'
    BY <1>b, <1>c, <1>d DEF IInv, Ksps, UserKsp
  <1> QED
    BY <1>1, <1>2, <1>3, <1>4, <1>5, <1>6, <1>7 DEF IInv

(* A signal that arrives, or is dropped in library code, may change ev. *)
LEMMA PendingInv ==
    ASSUME IInv, NEW c \in CPU, reg[c].ie \/ ev' = ev,
           UNCHANGED <<phase, reg, ksp, mem, kernel>>,
           NEW e \in Irq, ev' = ev \/ ev' = [ev EXCEPT ![c] = e],
           pend' \in [CPU -> SUBSET Irq]
    PROVE  IInv'
  <1>b. UNCHANGED <<phase, reg, ksp, mem, saved, chosen, got>>
    BY DEF kernel
  <1>c. \A d \in CPU : phase[d] = "irq" => ev'[d] = ev[d]
    BY DEF IInv, InIrqHandle, TypeOK
  <1>d. ev' \in [CPU -> Event]
    BY Zenon DEF IInv, TypeOK, Event
  <1>1. TypeOK'
    BY <1>b, <1>c, <1>d DEF IInv, TypeOK
  <1>2. InIrqHandle'
    BY <1>b DEF IInv, InIrqHandle
  <1>3. StackExclusive'
    BY <1>b DEF IInv, StackExclusive
  <1>4. Chosen'
    BY <1>b DEF IInv, Chosen
  <1>5. Kept'
    BY <1>b, SMTT(60) DEF IInv, Kept, Off
  <1>6. Frames'
    BY <1>b DEF IInv, Frames, Frame, Off
  <1>7. Ksps'
    BY <1>b, SMTT(60) DEF IInv, Ksps, UserKsp, Off
  <1> QED
    BY <1>1, <1>2, <1>3, <1>4, <1>5, <1>6, <1>7 DEF IInv

-----------------------------------------------------------------------------
(* A signal puts a Context above the frames of the stack of the task that   *)
(* runs, whether that task was in user code or not.                         *)
LEMMA SetupFacts ==
    ASSUME IInv, NEW c \in CPU, NEW e \in Event, phase[c] = "run", SetupStack(c, e)
    PROVE  LET r == reg[c]
               n == r.sp + 1
               at == IF e = "SYSCALL" THEN (r.pos + 1) % P ELSE r.pos
           IN  /\ n \in 1 .. MaxDepth /\ at \in 0 .. P - 1
               /\ mem' = [mem EXCEPT ![r.task][n].regs = [r EXCEPT !.pos = at]]
               /\ reg' = [reg EXCEPT ![c] = [r EXCEPT !.sp = n, !.pos = 0, !.user = FALSE,
                                                      !.ie = FALSE, !.at = "text"]]
               /\ phase' = [phase EXCEPT ![c] = "irq"]
  <1> DEFINE r == reg[c]
  <1>1. r \in Regs /\ P \in Nat \ {0} /\ MaxDepth \in Nat
    BY BoundAssumption DEF IInv, TypeOK
  <1>2. r.user => ksp[c] = r.task /\ r.sp = 0
    BY Zenon DEF IInv, Ksps, UserKsp, TypeOK
  <1>3. r.sp \in Nat /\ r.pos \in 0 .. P - 1
    BY <1>1, SMTT(60) DEF Regs
  <1>4. r.sp + 1 \in 1 .. MaxDepth
    BY <1>1, <1>2, <1>3 DEF SetupStack
  <1>5. (r.pos + 1) % P \in 0 .. P - 1
    BY <1>1, <1>3
  <1>6. [r EXCEPT !.task = r.task, !.sp = r.sp + 1, !.pos = 0, !.user = FALSE, !.ie = FALSE, !.at = "text"]
          = [r EXCEPT !.sp = r.sp + 1, !.pos = 0, !.user = FALSE, !.ie = FALSE, !.at = "text"]
    BY <1>1, Zenon DEF Regs
  <1>7. /\ (IF r.user THEN ksp[c] ELSE r.task) = r.task
        /\ (IF r.user THEN 1 ELSE r.sp + 1) = r.sp + 1
    BY <1>2
  <1> QED
    BY <1>3, <1>4, <1>5, <1>6, <1>7, Zenon DEF SetupStack

(* That keeps the invariant. *)
LEMMA SetupInv ==
    ASSUME IInv, NEW c \in CPU, NEW e \in Event \ {"ERROR"}, phase[c] = "run",
           SetupStack(c, e), ev' = [ev EXCEPT ![c] = e], UNCHANGED <<ksp, kernel>>,
           pend' \in [CPU -> SUBSET Irq]
    PROVE  IInv'
  <1> PICK t : t = reg[c].task
    OBVIOUS
  <1> PICK n : n = reg[c].sp + 1
    OBVIOUS
  <1>p. PICK at \in 0 .. P - 1 :
          /\ n \in 1 .. MaxDepth
          /\ mem' = [mem EXCEPT ![t][n].regs = [reg[c] EXCEPT !.pos = at]]
          /\ reg' = [reg EXCEPT ![c] = [reg[c] EXCEPT !.sp = n, !.pos = 0, !.user = FALSE,
                                                      !.ie = FALSE, !.at = "text"]]
          /\ phase' = [phase EXCEPT ![c] = "irq"]
    BY SetupFacts, Zenon
  <1>r. reg[c] \in Regs /\ t \in Task /\ reg[c].sp \in Nat /\ MaxDepth \in Nat \ {0} /\ P \in Nat \ {0}
    BY BoundAssumption DEF IInv, TypeOK, Regs
  <1>a. /\ reg'[c].task = t /\ reg'[c].sp = n /\ reg'[c].user = FALSE
        /\ reg'[c].ie = FALSE /\ reg'[c].at = "text" /\ reg'[c] \in Regs
    <2>1. 0 \in 0 .. P - 1 /\ n \in 0 .. MaxDepth
      BY <1>p, <1>r
    <2> QED
      BY <1>p, <1>r, <2>1, Zenon DEF IInv, TypeOK, Regs
  <1>b. \A d \in CPU : d # c => reg'[d] = reg[d] /\ reg[d].task # t
    BY <1>p DEF IInv, TypeOK, StackExclusive
  <1>c. UNCHANGED <<ksp, saved, chosen, got>>
    BY DEF kernel
  <1>d. /\ phase'[c] = "irq" /\ ev'[c] = e
        /\ \A d \in CPU : d # c => phase'[d] = phase[d] /\ ev'[d] = ev[d]
    BY <1>p DEF IInv, TypeOK
  <1>e. \A d \in CPU : reg'[d].task = reg[d].task
    BY <1>a, <1>b
  <1>f. \A u \in Task : Off(u)' <=> Off(u)
    BY <1>e DEF Off
  <1>g. \A u \in Task, k \in 1 .. MaxDepth :
          mem'[u][k] = IF u = t /\ k = n
                       THEN [mem[t][n] EXCEPT !.regs = [reg[c] EXCEPT !.pos = at]]
                       ELSE mem[u][k]
    BY <1>p, <1>r, Zenon DEF IInv, TypeOK
  <1>h. mem'[t][n].regs = [reg[c] EXCEPT !.pos = at]
    BY <1>g, <1>p, <1>r DEF IInv, TypeOK, Context
  <1>i. \A d \in CPU : reg[d].sp \in 0 .. MaxDepth /\ reg[d].task \in Task
    BY DEF IInv, TypeOK, Regs
  <1>j. \A u \in Task, k \in 1 .. MaxDepth : ~(u = t /\ k = n) => mem'[u][k] = mem[u][k]
    BY <1>g
  <1>k. \A u \in Task : saved[u] \in 0 .. MaxDepth
    BY DEF IInv, TypeOK
  <1>m. n - 1 = reg[c].sp /\ n > 0
    BY <1>r
  <1>1. TypeOK'
    <2>1. reg' \in [CPU -> Regs] /\ phase' \in [CPU -> {"run", "irq", "ret"}] /\ ev' \in [CPU -> Event]
      <3>1. reg' \in [CPU -> Regs]
        BY <1>a, <1>p DEF IInv, TypeOK
      <3>2. phase' \in [CPU -> {"run", "irq", "ret"}] /\ ev' \in [CPU -> Event]
        BY <1>p DEF IInv, TypeOK
      <3> QED
        BY <3>1, <3>2
    <2>2. mem' \in [Task -> [1 .. MaxDepth -> Context]]
      <3>1. [reg[c] EXCEPT !.pos = at] \in Regs
        BY <1>p, <1>r DEF Regs
      <3>2. [mem[t][n] EXCEPT !.regs = [reg[c] EXCEPT !.pos = at]] \in Context
        <4>1. mem[t][n] \in [regs : Regs, ksp : Stack]
          BY <1>p, <1>r DEF IInv, TypeOK, Context
        <4> QED
          BY <3>1, <4>1 DEF Context
      <3>3. mem' = [mem EXCEPT ![t] = [mem[t] EXCEPT ![n] = [mem[t][n] EXCEPT !.regs = [reg[c] EXCEPT !.pos = at]]]]
        BY <1>p
      <3> QED
        BY <1>p, <1>r, <3>2, <3>3 DEF IInv, TypeOK
    <2>3. \A d \in CPU : /\ reg'[d].user => reg'[d].sp = 0 /\ reg'[d].at = "text"
                         /\ phase'[d] = "irq" => ev'[d] # "ERROR"
      BY <1>a, <1>b, <1>d DEF IInv, TypeOK
    <2> QED
      BY <1>c, <2>1, <2>2, <2>3 DEF IInv, TypeOK
  <1>2. InIrqHandle'
    BY <1>a, <1>b, <1>d, <1>m DEF IInv, InIrqHandle
  <1>3. StackExclusive'
    BY <1>e DEF IInv, StackExclusive
  <1>4. Chosen'
    BY <1>c, <1>d, <1>e DEF IInv, Chosen
  <1>5. Kept'
    BY <1>b, <1>c, <1>d, <1>f DEF IInv, Kept
  <1>6. Frames'
    <2>1. Frame(t, n)'
      <3>1. mem'[t][n].regs.task = t /\ mem'[t][n].regs.sp = n - 1 /\ mem'[t][n].regs.user = reg[c].user
            /\ mem'[t][n].regs.at = reg[c].at
        BY <1>h, <1>m, <1>r DEF Regs
      <3>2. reg[c].user => reg[c].sp = 0 /\ reg[c].at = "text"
        BY DEF IInv, TypeOK
      <3>3. reg[c].user => n = 1
        BY <3>2, SMTT(60)
      <3> QED
        BY <3>1, <3>2, <3>3 DEF Frame
    <2>2. \A k \in 1 .. reg[c].sp : Frame(t, k)'
      <3> TAKE k \in 1 .. reg[c].sp
      <3>1. k \in 1 .. MaxDepth /\ k # n
        BY <1>i, <1>r
      <3>2. mem'[t][k] = mem[t][k]
        BY <3>1, <1>j, <1>r
      <3> QED
        BY <3>2 DEF IInv, Frames, Frame
    <2>3. \A k \in 1 .. n : k = n \/ k \in 1 .. reg[c].sp
      BY <1>r, SMTT(60)
    <2>4. \A d \in CPU : d # c => \A k \in 1 .. reg[d].sp : Frame(reg[d].task, k)'
      <3> SUFFICES ASSUME NEW d \in CPU, d # c, NEW k \in 1 .. reg[d].sp
                   PROVE  Frame(reg[d].task, k)'
        OBVIOUS
      <3>1. k \in 1 .. MaxDepth /\ reg[d].task # t
        BY <1>b, <1>i, <1>r
      <3>2. mem'[reg[d].task][k] = mem[reg[d].task][k]
        BY <3>1, <1>i, <1>j
      <3>3. reg'[d] = reg[d]
        BY <1>b
      <3> QED
        BY <3>2, <3>3, SMTT(60) DEF IInv, Frames, Frame
    <2>5. \A u \in Task : Off(u) => \A k \in 1 .. saved[u] : Frame(u, k)'
      <3> SUFFICES ASSUME NEW u \in Task, Off(u), NEW k \in 1 .. saved[u]
                   PROVE  Frame(u, k)'
        OBVIOUS
      <3>1. k \in 1 .. MaxDepth /\ u # t
        BY <1>k, <1>r DEF Off
      <3>2. mem'[u][k] = mem[u][k]
        BY <3>1, <1>j
      <3> QED
        BY <3>2 DEF IInv, Frames, Frame
    <2>6. \A d \in CPU : \A k \in 1 .. reg'[d].sp : Frame(reg[d].task, k)'
      <3>1. \A k \in 1 .. reg'[c].sp : Frame(reg[c].task, k)'
        BY <1>a, <2>1, <2>2, <2>3, Zenon DEF Frame
      <3>2. \A d \in CPU : d # c => \A k \in 1 .. reg'[d].sp : Frame(reg[d].task, k)'
        BY <1>b, <2>4 DEF Frame
      <3> QED
        BY <3>1, <3>2, SMTT(60)
    <2> QED
      BY <1>c, <1>f, <2>5, <2>6, SMTT(60) DEF Frames
  <1>7. Ksps'
    <2>1. UserKsp'
      BY <1>a, <1>b, <1>c, SMTT(60) DEF IInv, Ksps, UserKsp
    <2>2. \A d \in CPU : phase'[d] = "irq" /\ mem'[reg'[d].task][reg'[d].sp].regs.user
                           => ksp'[d] = reg'[d].task
      <3>1. mem'[t][n].regs.user => ksp[c] = t
        <4>1. mem'[t][n].regs.user = reg[c].user
          BY <1>h, <1>r DEF Regs
        <4> QED
          BY <4>1, Zenon DEF IInv, Ksps, UserKsp
      <3>2. ASSUME NEW d \in CPU, d # c, phase[d] = "irq"
            PROVE  mem'[reg[d].task][reg[d].sp] = mem[reg[d].task][reg[d].sp]
        <4>1. reg[d].sp \in 1 .. MaxDepth
          BY <1>i, <3>2 DEF IInv, InIrqHandle
        <4> QED
          BY <1>b, <1>i, <1>j, <3>2, <4>1
      <3> QED
        BY <1>a, <1>b, <1>c, <1>d, <3>1, <3>2, SMTT(60) DEF IInv, Ksps
    <2>3. \A d \in CPU : \A k \in 1 .. reg'[d].sp :
            mem'[reg'[d].task][k].regs.user /\ ~(phase'[d] = "irq" /\ k = reg'[d].sp)
                => mem'[reg'[d].task][k].ksp = reg'[d].task
      <3>1. ASSUME NEW k \in 1 .. n, mem'[t][k].regs.user, k # n
            PROVE  mem'[t][k].ksp = t
        <4>1. k \in 1 .. reg[c].sp /\ k \in 1 .. MaxDepth
          BY <1>i, <1>r, <3>1
        <4>2. mem'[t][k] = mem[t][k]
          BY <1>j, <1>r, <3>1, <4>1
        <4> QED
          BY <3>1, <4>1, <4>2 DEF IInv, Ksps
      <3>2. ASSUME NEW d \in CPU, d # c, NEW k \in 1 .. reg[d].sp
            PROVE  mem'[reg[d].task][k] = mem[reg[d].task][k]
        <4>1. k \in 1 .. MaxDepth
          BY <1>i, <1>r, <3>2
        <4> QED
          BY <1>b, <1>i, <1>j, <3>2, <4>1
      <3>3. \A k \in 1 .. reg'[c].sp :
              mem'[reg'[c].task][k].regs.user /\ ~(phase'[c] = "irq" /\ k = reg'[c].sp)
                  => mem'[reg'[c].task][k].ksp = reg'[c].task
        BY <1>a, <1>d, <3>1
      <3>4. \A d \in CPU : d # c => \A k \in 1 .. reg'[d].sp :
              mem'[reg'[d].task][k].regs.user /\ ~(phase'[d] = "irq" /\ k = reg'[d].sp)
                  => mem'[reg'[d].task][k].ksp = reg'[d].task
        BY <1>b, <1>d, <3>2 DEF IInv, Ksps
      <3> QED
        BY <3>3, <3>4
    <2>4. \A u \in Task : Off(u) => \A k \in 1 .. saved[u] :
            mem'[u][k].regs.user => mem'[u][k].ksp = u
      <3> SUFFICES ASSUME NEW u \in Task, Off(u), NEW k \in 1 .. saved[u]
                   PROVE  mem'[u][k] = mem[u][k]
        BY DEF IInv, Ksps
      <3>1. k \in 1 .. MaxDepth /\ u # t
        BY <1>k, <1>r DEF Off
      <3> QED
        BY <3>1, <1>j
    <2> QED
      BY <1>c, <1>f, <2>1, <2>2, <2>3, <2>4 DEF Ksps
  <1> QED
    BY <1>1, <1>2, <1>3, <1>4, <1>5, <1>6, <1>7 DEF IInv

-----------------------------------------------------------------------------
(* irq_handle saves the ksp, which of user code is that of its own stack. *)
LEMMA IrqHandleInv ==
    ASSUME IInv, NEW c \in CPU, IrqHandle(c)
    PROVE  IInv'
  <1> PICK t : t = reg[c].task
    OBVIOUS
  <1> PICK n : n = reg[c].sp
    OBVIOUS
  <1>p. /\ phase[c] = "irq" /\ mem' = [mem EXCEPT ![t][n].ksp = ksp[c]]
        /\ got' = [got EXCEPT ![c] = ev[c]] /\ phase' = [phase EXCEPT ![c] = "run"]
        /\ UNCHANGED <<reg, ksp, ev, saved, chosen, pend>>
    BY DEF IrqHandle
  <1>r. /\ t \in Task /\ n \in 1 .. MaxDepth /\ MaxDepth \in Nat
        /\ \A d \in CPU : reg[d].sp \in 0 .. MaxDepth /\ reg[d].task \in Task
        /\ \A u \in Task : saved[u] \in 0 .. MaxDepth
    <2>1. \A d \in CPU : reg[d].sp \in 0 .. MaxDepth /\ reg[d].task \in Task
      BY DEF IInv, TypeOK, Regs
    <2>2. reg[c].sp > 0
      BY <1>p DEF IInv, InIrqHandle
    <2>3. \A u \in Task : saved[u] \in 0 .. MaxDepth
      BY DEF IInv, TypeOK
    <2> QED
      BY <2>1, <2>2, <2>3, BoundAssumption
  <1>g. \A u \in Task, k \in 1 .. MaxDepth :
          mem'[u][k] = IF u = t /\ k = n THEN [mem[t][n] EXCEPT !.ksp = ksp[c]] ELSE mem[u][k]
    BY <1>p, <1>r, SMTT(60) DEF IInv, TypeOK
  <1>h. \A u \in Task, k \in 1 .. MaxDepth :
          /\ mem'[u][k].regs = mem[u][k].regs
          /\ ~(u = t /\ k = n) => mem'[u][k] = mem[u][k]
    <2>1. mem[t][n] \in Context
      BY <1>r DEF IInv, TypeOK
    <2>2. mem'[t][n].regs = mem[t][n].regs
      BY <1>g, <1>r, <2>1, SMTT(60) DEF Context
    <2> QED
      BY <1>g, <1>r, <2>2
  <1>i. mem'[t][n].ksp = ksp[c]
    <2>1. mem[t][n] \in Context
      BY <1>r DEF IInv, TypeOK
    <2> QED
      BY <1>g, <1>r, <2>1 DEF Context
  <1>d. phase'[c] = "run" /\ \A d \in CPU : d # c => phase'[d] = phase[d] /\ reg[d].task # t
    BY <1>p DEF IInv, TypeOK, StackExclusive
  <1>1. TypeOK'
    <2>1. mem' \in [Task -> [1 .. MaxDepth -> Context]]
      <3>1. [mem[t][n] EXCEPT !.ksp = ksp[c]] \in Context
        <4>1. mem[t][n] \in [regs : Regs, ksp : Stack] /\ ksp[c] \in Stack
          BY <1>r DEF IInv, TypeOK, Context
        <4> QED
          BY <4>1 DEF Context
      <3>2. mem' = [mem EXCEPT ![t] = [mem[t] EXCEPT ![n] = [mem[t][n] EXCEPT !.ksp = ksp[c]]]]
        BY <1>p
      <3> QED
        BY <1>r, <3>1, <3>2 DEF IInv, TypeOK
    <2>2. phase' \in [CPU -> {"run", "irq", "ret"}] /\ got' \in [CPU -> Event]
      BY <1>p DEF IInv, TypeOK
    <2>3. \A d \in CPU : phase'[d] = "irq" => phase[d] = "irq"
      BY <1>d
    <2> QED
      BY <1>p, <2>1, <2>2, <2>3 DEF IInv, TypeOK
  <1>2. InIrqHandle'
    BY <1>d, <1>p DEF IInv, InIrqHandle
  <1>3. StackExclusive'
    BY <1>p DEF IInv, StackExclusive
  <1>4. Chosen'
    BY <1>d, <1>p DEF IInv, Chosen
  <1>5. Kept'
    BY <1>d, <1>p DEF IInv, Kept, Off
  <1>6. Frames'
    <2>1. \A d \in CPU : \A k \in 1 .. reg[d].sp : Frame(reg[d].task, k)'
      <3> SUFFICES ASSUME NEW d \in CPU, NEW k \in 1 .. reg[d].sp
                   PROVE  Frame(reg[d].task, k)'
        OBVIOUS
      <3>1. k \in 1 .. MaxDepth
        BY <1>r
      <3>2. mem'[reg[d].task][k].regs = mem[reg[d].task][k].regs
        BY <1>h, <1>r, <3>1
      <3>3. Frame(reg[d].task, k) /\ reg' = reg
        BY <1>p DEF IInv, Frames
      <3> QED
        BY <3>2, <3>3, Zenon DEF Frame
    <2>2. \A u \in Task : Off(u) => \A k \in 1 .. saved[u] : Frame(u, k)'
      <3> SUFFICES ASSUME NEW u \in Task, Off(u), NEW k \in 1 .. saved[u]
                   PROVE  Frame(u, k)'
        OBVIOUS
      <3>1. k \in 1 .. MaxDepth
        BY <1>r
      <3>2. mem'[u][k].regs = mem[u][k].regs
        BY <1>h, <3>1
      <3> QED
        BY <3>2 DEF IInv, Frames, Frame
    <2> QED
      BY <1>p, <2>1, <2>2 DEF Frames, Off
  <1>7. Ksps'
    <2>1. UserKsp'
      BY <1>p DEF IInv, Ksps, UserKsp
    <2>2. \A d \in CPU : phase'[d] = "irq" /\ mem'[reg[d].task][reg[d].sp].regs.user
                           => ksp[d] = reg[d].task
      <3> SUFFICES ASSUME NEW d \in CPU, phase'[d] = "irq", mem'[reg[d].task][reg[d].sp].regs.user
                   PROVE  ksp[d] = reg[d].task
        OBVIOUS
      <3>1. d # c /\ phase[d] = "irq"
        BY <1>d
      <3>2. reg[d].sp \in 1 .. MaxDepth
        BY <1>r, <3>1 DEF IInv, InIrqHandle
      <3> QED
        BY <1>h, <1>r, <3>1, <3>2, SMTT(60) DEF IInv, Ksps
    <2>3. \A d \in CPU : \A k \in 1 .. reg[d].sp :
            mem'[reg[d].task][k].regs.user /\ ~(phase'[d] = "irq" /\ k = reg[d].sp)
                => mem'[reg[d].task][k].ksp = reg[d].task
      <3> SUFFICES ASSUME NEW d \in CPU, NEW k \in 1 .. reg[d].sp,
                          mem'[reg[d].task][k].regs.user, ~(phase'[d] = "irq" /\ k = reg[d].sp)
                   PROVE  mem'[reg[d].task][k].ksp = reg[d].task
        OBVIOUS
      <3>1. k \in 1 .. MaxDepth /\ mem[reg[d].task][k].regs.user
        <4>1. k \in 1 .. MaxDepth
          BY <1>r
        <4> QED
          BY <1>h, <1>r, <4>1
      <3>2. CASE d = c /\ k = n
        <4>1. ksp[c] = t
          BY <1>p, <3>1, <3>2, SMTT(60) DEF IInv, Ksps
        <4> QED
          BY <1>i, <3>2, <4>1, SMTT(60)
      <3>3. CASE ~(d = c /\ k = n)
        <4>1. ~(reg[d].task = t /\ k = n)
          BY <1>d, <3>3
        <4>2. mem'[reg[d].task][k] = mem[reg[d].task][k]
          BY <1>h, <1>r, <3>1, <4>1
        <4>3. ~(phase[d] = "irq" /\ k = reg[d].sp)
          BY <1>d, <3>3
        <4> QED
          BY <3>1, <4>2, <4>3 DEF IInv, Ksps
      <3> QED
        BY <3>2, <3>3
    <2>4. \A u \in Task : Off(u) => \A k \in 1 .. saved[u] :
            mem'[u][k].regs.user => mem'[u][k].ksp = u
      <3> SUFFICES ASSUME NEW u \in Task, Off(u), NEW k \in 1 .. saved[u]
                   PROVE  mem'[u][k] = mem[u][k]
        BY DEF IInv, Ksps
      <3>1. k \in 1 .. MaxDepth /\ u # t
        BY <1>r DEF Off
      <3> QED
        BY <1>h, <3>1
    <2>5. \A u \in Task : (Off(u)' <=> Off(u)) /\ saved'[u] = saved[u]
      BY <1>p DEF Off
    <2>6. reg' = reg /\ ksp' = ksp
      BY <1>p
    <2> QED
      BY <2>1, <2>2, <2>3, <2>4, <2>5, <2>6, SMTT(60) DEF Ksps
  <1> QED
    BY <1>1, <1>2, <1>3, <1>4, <1>5, <1>6, <1>7 DEF IInv

(* The handler hands over a context of a task that no other CPU has. *)
LEMMA HandlerReturnInv ==
    ASSUME IInv, NEW c \in CPU, NEW t \in Task, HandlerReturn(c, t)
    PROVE  IInv'
  <1>p. /\ phase[c] = "run" /\ ~reg[c].user /\ reg[c].sp > 0 /\ ~reg[c].ie
        /\ saved' = [saved EXCEPT ![reg[c].task] = reg[c].sp]
        /\ chosen' = [chosen EXCEPT ![c] = t] /\ phase' = [phase EXCEPT ![c] = "ret"]
        /\ UNCHANGED <<reg, ksp, ev, mem, got, pend>>
    BY DEF HandlerReturn
  <1>f. \A d \in CPU \ {c} : chosen[d] # t /\ reg[d].task # t
    BY DEF HandlerReturn, Free
  <1>r. reg[c].task \in Task /\ reg[c].sp \in 0 .. MaxDepth
    BY DEF IInv, TypeOK, Regs
  <1>a. /\ phase'[c] = "ret" /\ chosen'[c] = t
        /\ \A d \in CPU : d # c => phase'[d] = phase[d] /\ chosen'[d] = chosen[d]
    BY <1>p DEF IInv, TypeOK
  <1>b. /\ saved'[reg[c].task] = reg[c].sp
        /\ \A u \in Task : u # reg[c].task => saved'[u] = saved[u]
    BY <1>p, <1>r DEF IInv, TypeOK
  <1>c. \A u \in Task : /\ Off(u)' <=> Off(u)
                        /\ Off(u) => saved'[u] = saved[u]
    BY <1>b, <1>p DEF Off
  <1>d. \A d \in CPU : d # c => reg[d].task # reg[c].task /\ reg[d].task \in Task
    BY DEF IInv, StackExclusive, TypeOK, Regs
  <1>1. TypeOK'
    <2>1. saved' \in [Task -> 0 .. MaxDepth]
      BY <1>p, <1>r DEF IInv, TypeOK
    <2>2. chosen' \in [CPU -> Task] /\ phase' \in [CPU -> {"run", "irq", "ret"}]
      BY <1>p DEF IInv, TypeOK
    <2>3. \A d \in CPU : phase'[d] = "irq" => phase[d] = "irq"
      BY <1>a
    <2> QED
      BY <1>p, <2>1, <2>2, <2>3 DEF IInv, TypeOK
  <1>2. InIrqHandle'
    BY <1>a, <1>p DEF IInv, InIrqHandle
  <1>3. StackExclusive'
    BY <1>p DEF IInv, StackExclusive
  <1>4. Chosen'
    BY <1>a, <1>f, <1>p DEF IInv, Chosen
  <1>5. Kept'
    BY <1>a, <1>b, <1>c, <1>d, <1>p DEF IInv, Kept
  <1>6. Frames'
    <2>1. \A d \in CPU : \A k \in 1 .. reg[d].sp : Frame(reg[d].task, k)'
      BY <1>p DEF IInv, Frames, Frame
    <2>2. \A u \in Task : Off(u) => \A k \in 1 .. saved[u] : Frame(u, k)'
      BY <1>p, SMTT(60) DEF IInv, Frames, Frame
    <2> QED
      BY <1>c, <1>p, <2>1, <2>2 DEF Frames
  <1>7. Ksps'
    <2>1. \A d \in CPU : phase'[d] = "irq" <=> phase[d] = "irq"
      BY <1>a, <1>p
    <2> QED
      BY <1>c, <1>p, <2>1 DEF IInv, Ksps, UserKsp
  <1> QED
    BY <1>1, <1>2, <1>3, <1>4, <1>5, <1>6, <1>7 DEF IInv

(* What iret resumes: the latest Context of the task, which is the task's.  *)
LEMMA IretFacts ==
    ASSUME IInv, NEW c \in CPU, phase[c] = "ret"
    PROVE  LET t == chosen[c]
               n == saved[t]
           IN  /\ t \in Task /\ n \in 1 .. MaxDepth /\ mem[t][n] \in Context
               /\ Frame(t, n) /\ (mem[t][n].regs.user => mem[t][n].ksp = t)
               /\ t = reg[c].task \/ Off(t)
               /\ \A d \in CPU \ {c} : reg[d].task # t
               /\ t = reg[c].task => n = reg[c].sp
  <1> DEFINE t == chosen[c]
             n == saved[t]
  <1>1. t \in Task /\ n \in 0 .. MaxDepth /\ MaxDepth \in Nat
    BY BoundAssumption DEF IInv, TypeOK
  <1>2. \A d \in CPU \ {c} : reg[d].task # t
    BY DEF IInv, Chosen
  <1>3. t = reg[c].task \/ Off(t)
    BY <1>2 DEF Off
  <1>4. CASE t = reg[c].task
    <2>1. n = reg[c].sp /\ n > 0
      BY <1>4 DEF IInv, Kept, InIrqHandle
    <2>2. n \in 1 .. reg[c].sp /\ n \in 1 .. MaxDepth
      BY <1>1, <2>1, SMTT(60)
    <2>3. Frame(t, n) /\ (mem[t][n].regs.user => mem[t][n].ksp = t)
      BY <1>4, <2>2 DEF IInv, Frames, Ksps
    <2>4. mem[t][n] \in Context
      BY <1>1, <2>2 DEF IInv, TypeOK
    <2> QED
      BY <1>1, <1>2, <1>4, <2>1, <2>2, <2>3, <2>4
  <1>5. CASE Off(t)
    <2>1. n \in 1 .. n /\ n \in 1 .. MaxDepth
      BY <1>1, <1>5 DEF IInv, Kept
    <2>2. Frame(t, n) /\ (mem[t][n].regs.user => mem[t][n].ksp = t)
      BY <1>1, <1>5, <2>1 DEF IInv, Frames, Ksps
    <2>3. mem[t][n] \in Context
      BY <1>1, <2>1 DEF IInv, TypeOK
    <2>4. t # reg[c].task
      BY <1>5 DEF Off
    <2> QED
      BY <1>1, <1>2, <1>5, <2>1, <2>2, <2>3, <2>4
  <1> QED
    BY <1>3, <1>4, <1>5

(* So the CPU is in the task it resumes, with the frames below its sp. *)
LEMMA IretInv ==
    ASSUME IInv, NEW c \in CPU, Iret(c)
    PROVE  IInv'
  <1> PICK o : o = reg[c].task
    OBVIOUS
  <1> PICK t : t = chosen[c]
    OBVIOUS
  <1> PICK n : n = saved[t]
    OBVIOUS
  <1>p. /\ phase[c] = "ret" /\ reg' = [reg EXCEPT ![c] = mem[t][n].regs]
        /\ ksp' = [ksp EXCEPT ![c] = mem[t][n].ksp] /\ ev' = [ev EXCEPT ![c] = "ERROR"]
        /\ phase' = [phase EXCEPT ![c] = "run"] /\ saved' = [saved EXCEPT ![t] = 0]
        /\ UNCHANGED <<mem, chosen, got, pend>>
    BY DEF Iret
  <1>q. UNCHANGED <<mem, chosen, got, pend>>
    BY <1>p
  <1>f. /\ t \in Task /\ n \in 1 .. MaxDepth /\ mem[t][n] \in Context
        /\ Frame(t, n) /\ (mem[t][n].regs.user => mem[t][n].ksp = t)
        /\ t = o \/ Off(t)
        /\ \A d \in CPU \ {c} : reg[d].task # t
        /\ t = o => n = reg[c].sp
    BY <1>p, IretFacts
  <1>r. /\ mem[t][n].regs \in Regs /\ mem[t][n].ksp \in Stack
        /\ n - 1 \in 0 .. MaxDepth /\ MaxDepth \in Nat /\ n \in Nat
    BY <1>f, BoundAssumption, SMTT(60) DEF Context
  <1>a. /\ reg'[c] = mem[t][n].regs /\ reg'[c].task = t /\ reg'[c].sp = n - 1
        /\ reg'[c].user => n = 1 /\ reg'[c].at = "text"
        /\ \A d \in CPU : d # c => reg'[d] = reg[d] /\ reg[d].task # t /\ reg[d].task # o
    BY <1>f, <1>p DEF IInv, TypeOK, Frame, StackExclusive
  <1>b. /\ phase'[c] = "run" /\ ksp'[c] = mem[t][n].ksp
        /\ \A d \in CPU : d # c => phase'[d] = phase[d] /\ ksp'[d] = ksp[d] /\ ev'[d] = ev[d]
    BY <1>p DEF IInv, TypeOK
  <1>o. \A d \in CPU : d # c => /\ reg'[d] = reg[d] /\ phase'[d] = phase[d]
                               /\ ksp'[d] = ksp[d]
                               /\ reg[d].task # t /\ reg[d].task # o
    BY ONLY <1>a, <1>b
  <1>s. reg'[c].task = t /\ reg'[c].sp = n - 1
    BY ONLY <1>a
  <1>c. saved'[t] = 0 /\ \A u \in Task : u # t => saved'[u] = saved[u]
    BY <1>f, <1>p DEF IInv, TypeOK
  <1>d. \A u \in Task : Off(u)' => u # t /\ (Off(u) \/ u = o)
    BY <1>a DEF Off
  <1>e. o \in Task /\ o = reg[c].task /\ saved[o] = reg[c].sp /\ reg[c].sp > 0
    BY <1>p DEF IInv, TypeOK, Regs, Kept, InIrqHandle
  <1>g. \A u, k : Frame(u, k)' <=> Frame(u, k)
    BY <1>q DEF Frame
  <1>h. \A k \in 1 .. n - 1 : Frame(t, k) /\ (mem[t][k].regs.user => mem[t][k].ksp = t)
    <2>1. CASE t = o
      <3>1. \A k \in 1 .. n - 1 : k \in 1 .. reg[c].sp /\ ~(phase[c] = "irq" /\ k = reg[c].sp)
        BY <1>f, <1>p, <1>r, <2>1
      <3> QED
        BY <1>e, <2>1, <3>1, SMTT(60) DEF IInv, Frames, Ksps
    <2>2. CASE Off(t)
      <3>1. \A k \in 1 .. n - 1 : k \in 1 .. saved[t]
        BY <1>r
      <3> QED
        BY <1>f, <2>2, <3>1 DEF IInv, Frames, Ksps
    <2> QED
      BY <1>f, <2>1, <2>2
  <1>i. \A u \in Task : Off(u)' => \A k \in 1 .. saved'[u] :
          Frame(u, k) /\ (mem[u][k].regs.user => mem[u][k].ksp = u)
    <2> SUFFICES ASSUME NEW u \in Task, Off(u)', NEW k \in 1 .. saved'[u]
                 PROVE  Frame(u, k) /\ (mem[u][k].regs.user => mem[u][k].ksp = u)
      OBVIOUS
    <2>1. k \in 1 .. saved[u]
      BY <1>c, <1>d
    <2>2. CASE Off(u)
      BY <2>1, <2>2, SMTT(60) DEF IInv, Frames, Ksps
    <2>3. CASE u = o
      <3>1. k \in 1 .. reg[c].sp
        BY <1>e, <2>1, <2>3
      <3> QED
        BY <1>e, <1>p, <2>3, <3>1, SMTT(60) DEF IInv, Frames, Ksps
    <2> QED
      BY <1>d, <2>2, <2>3
  <1>1. TypeOK'
    <2>1. reg' \in [CPU -> Regs] /\ ksp' \in [CPU -> Stack]
      BY <1>p, <1>r DEF IInv, TypeOK
    <2>2. ev' \in [CPU -> Event] /\ phase' \in [CPU -> {"run", "irq", "ret"}]
      BY <1>p DEF IInv, TypeOK, Event
    <2>3. saved' \in [Task -> 0 .. MaxDepth]
      <3>1. 0 \in 0 .. MaxDepth
        BY <1>r
      <3> QED
        BY <1>p, <3>1 DEF IInv, TypeOK
    <2>4. \A d \in CPU : reg'[d].user => reg'[d].sp = 0 /\ reg'[d].at = "text"
      <3>1. reg'[c].user => reg'[c].sp = 0 /\ reg'[c].at = "text"
        BY <1>a
      <3>2. \A d \in CPU : d # c => (reg'[d].user => reg'[d].sp = 0 /\ reg'[d].at = "text")
        BY <1>a DEF IInv, TypeOK
      <3> QED
        BY <3>1, <3>2
    <2>5. \A d \in CPU : phase'[d] = "irq" => ev'[d] # "ERROR"
      BY <1>b DEF IInv, TypeOK
    <2> QED
      BY <1>p, <2>1, <2>2, <2>3, <2>4, <2>5 DEF IInv, TypeOK
  <1>2. InIrqHandle'
    BY <1>a, <1>b DEF IInv, InIrqHandle
  <1>3. StackExclusive'
    BY <1>a, SMTT(60) DEF IInv, StackExclusive
  <1>4. Chosen'
    <2>1. \A d \in CPU : d # c => chosen[d] # t
      BY <1>p DEF IInv, Chosen
    <2> QED
      BY <1>b, <1>o, <1>q, <1>s, <2>1 DEF IInv, Chosen
  <1>5. Kept'
    <2>1. \A u \in Task : Off(u)' => saved'[u] > 0
      BY <1>c, <1>d, <1>e DEF IInv, Kept
    <2>2. \A d \in CPU : phase'[d] = "ret" => saved'[reg'[d].task] = reg'[d].sp
      <3> SUFFICES ASSUME NEW d \in CPU, phase'[d] = "ret"
                   PROVE  saved'[reg'[d].task] = reg'[d].sp
        OBVIOUS
      <3>1. d # c /\ phase[d] = "ret" /\ reg'[d] = reg[d] /\ reg[d].task # t /\ reg[d].task \in Task
        BY <1>b, <1>o DEF IInv, TypeOK, Regs
      <3> QED
        BY <1>c, <3>1 DEF IInv, Kept
    <2> QED
      BY <2>1, <2>2 DEF Kept
  <1>6. Frames'
    <2>1. \A d \in CPU : \A k \in 1 .. reg'[d].sp : Frame(reg[d].task, k)'
      <3>1. \A k \in 1 .. reg'[c].sp : Frame(reg[c].task, k)'
        BY ONLY <1>h, <1>q, <1>s DEF Frame
      <3>2. \A d \in CPU : d # c => \A k \in 1 .. reg'[d].sp : Frame(reg[d].task, k)'
        BY <1>o, <1>q DEF IInv, Frames, Frame
      <3> QED
        BY <3>1, <3>2
    <2>2. \A u \in Task : Off(u)' => \A k \in 1 .. saved'[u] : Frame(u, k)'
      BY <1>i, <1>q DEF Frame
    <2> QED
      BY <2>1, <2>2 DEF Frames
  <1>7. Ksps'
    <2>1. UserKsp'
      <3>1. reg'[c].user => ksp'[c] = reg'[c].task
        BY <1>a, <1>b, <1>f, SMTT(60)
      <3>2. \A d \in CPU : d # c => (reg'[d].user => ksp'[d] = reg'[d].task)
        BY <1>o DEF IInv, Ksps, UserKsp
      <3> QED
        BY <3>1, <3>2 DEF UserKsp
    <2>2. \A d \in CPU : phase'[d] = "irq" /\ mem'[reg'[d].task][reg'[d].sp].regs.user
                           => ksp'[d] = reg'[d].task
      <3> SUFFICES ASSUME NEW d \in CPU, phase'[d] = "irq", mem'[reg'[d].task][reg'[d].sp].regs.user
                   PROVE  ksp'[d] = reg'[d].task
        BY SMTT(60)
      <3>1. d # c /\ phase[d] = "irq" /\ reg'[d] = reg[d] /\ ksp'[d] = ksp[d] /\ mem' = mem
        BY <1>b, <1>o, <1>q, Zenon
      <3> QED
        BY <3>1 DEF IInv, Ksps
    <2>3. \A d \in CPU : \A k \in 1 .. reg'[d].sp :
            mem'[reg'[d].task][k].regs.user /\ ~(phase'[d] = "irq" /\ k = reg'[d].sp)
                => mem'[reg'[d].task][k].ksp = reg'[d].task
      <3>1. \A k \in 1 .. reg'[c].sp : mem'[reg'[c].task][k].regs.user
                                         => mem'[reg'[c].task][k].ksp = reg'[c].task
        BY ONLY <1>h, <1>q, <1>s
      <3>2. \A d \in CPU : d # c => \A k \in 1 .. reg'[d].sp :
              mem'[reg'[d].task][k].regs.user /\ ~(phase'[d] = "irq" /\ k = reg'[d].sp)
                  => mem'[reg'[d].task][k].ksp = reg'[d].task
        BY <1>o, <1>q DEF IInv, Ksps
      <3> QED
        BY <3>1, <3>2, SMTT(60)
    <2>4. \A u \in Task : Off(u)' => \A k \in 1 .. saved'[u] :
            mem'[u][k].regs.user => mem'[u][k].ksp = u
      BY ONLY <1>i, <1>q
    <2> QED
      BY <2>1, <2>2, <2>3, <2>4 DEF Ksps
  <1> QED
    BY <1>1, <1>2, <1>3, <1>4, <1>5, <1>6, <1>7 DEF IInv

-----------------------------------------------------------------------------
(* At first every CPU is in its boot task and every other task has one      *)
(* Context, made by kcontext or ucontext.                                   *)
LEMMA InitIInv == Init => IInv
  <1> SUFFICES ASSUME Init
               PROVE  IInv
    OBVIOUS
  <1>0. /\ Boot \in [CPU -> Task] /\ \A c, d \in CPU : Boot[c] = Boot[d] => c = d
        /\ P \in Nat \ {0} /\ MaxDepth \in Nat \ {0} /\ 1 \in 1 .. MaxDepth
        /\ 0 \in 0 .. MaxDepth /\ 1 \in 0 .. MaxDepth /\ 0 \in 0 .. P - 1
    BY BootAssumption, BoundAssumption
  <1>1. \A c \in CPU : /\ phase[c] = "run" /\ chosen[c] = Boot[c] /\ ev[c] = "ERROR"
                       /\ reg[c].task = Boot[c] /\ reg[c].sp = 0 /\ reg[c].user = FALSE
                       /\ reg[c] \in Regs
    BY <1>0, Zenon DEF Init, Kcontext, Regs
  <1>2. \A t \in Task : /\ saved[t] \in {0, 1} /\ (saved[t] = 0 <=> ~Off(t))
    <2> TAKE t \in Task
    <2>1. saved[t] = IF \E c \in CPU : Boot[c] = t THEN 0 ELSE 1
      BY DEF Init
    <2>2. Off(t) <=> ~\E c \in CPU : Boot[c] = t
      BY <1>1 DEF Off
    <2> QED
      BY <2>1, <2>2
  <1>3. PICK junk \in Stack :
          mem = [t \in Task |-> [k \in 1 .. MaxDepth |->
                   IF k > saved[t] THEN Kcontext(t, NoStack)
                   ELSE IF t \in UserTask THEN Ucontext(t, junk) ELSE Kcontext(t, junk)]]
    BY DEF Init
  <1>4. \A t \in Task, j \in Stack : Kcontext(t, j) \in Context /\ Ucontext(t, j) \in Context
    BY <1>0 DEF Kcontext, Ucontext, Context, Regs, Stack
  <1>5. \A t \in Task : saved[t] = 1 =>
          mem[t][1] = IF t \in UserTask THEN Ucontext(t, junk) ELSE Kcontext(t, junk)
    BY <1>0, <1>3
  <1>6. \A t \in Task : saved[t] = 1 => Frame(t, 1) /\ (mem[t][1].regs.user => mem[t][1].ksp = t)
    <2> SUFFICES ASSUME NEW t \in Task, saved[t] = 1
                 PROVE  Frame(t, 1) /\ (mem[t][1].regs.user => mem[t][1].ksp = t)
      OBVIOUS
    <2>1. mem[t][1] = Ucontext(t, junk) \/ mem[t][1] = Kcontext(t, junk)
      BY <1>5
    <2>2. CASE mem[t][1] = Ucontext(t, junk)
      BY <2>2 DEF Frame, Ucontext
    <2>3. CASE mem[t][1] = Kcontext(t, junk)
      BY <2>3 DEF Frame, Kcontext
    <2> QED
      BY <2>1, <2>2, <2>3
  <1>7. \A t \in Task : \A k \in 1 .. saved[t] : saved[t] = 1 /\ k = 1
    BY <1>2
  <1>8. TypeOK
    <2>1. mem \in [Task -> [1 .. MaxDepth -> Context]]
      BY <1>3, <1>4 DEF Stack
    <2>2. phase \in [CPU -> {"run", "irq", "ret"}] /\ reg \in [CPU -> Regs] /\ ksp \in [CPU -> Stack]
      BY <1>1 DEF Init, Stack
    <2>3. ev \in [CPU -> Event] /\ got \in [CPU -> Event] /\ pend \in [CPU -> SUBSET Irq]
      BY DEF Init, Event
    <2>4. saved \in [Task -> 0 .. MaxDepth] /\ chosen \in [CPU -> Task]
      BY <1>0 DEF Init
    <2> QED
      BY <1>1, <2>1, <2>2, <2>3, <2>4 DEF TypeOK
  <1>9. InIrqHandle /\ StackExclusive
    BY <1>0, <1>1 DEF InIrqHandle, StackExclusive
  <1>10. Chosen
    BY <1>0, <1>1 DEF Chosen
  <1>11. Kept
    BY <1>1, <1>2 DEF Kept
  <1>12. Frames
    <2>1. \A c \in CPU : \A k \in 1 .. reg[c].sp : FALSE
      BY <1>1
    <2> QED
      BY <1>6, <1>7, <2>1 DEF Frames
  <1>13. Ksps
    <2>1. \A c \in CPU : \A k \in 1 .. reg[c].sp : FALSE
      BY <1>1
    <2>2. UserKsp /\ \A c \in CPU : phase[c] # "irq"
      BY <1>1 DEF UserKsp
    <2> QED
      BY <1>6, <1>7, <2>1, <2>2 DEF Ksps
  <1> QED
    BY <1>8, <1>9, <1>10, <1>11, <1>12, <1>13 DEF IInv

(* The signals that an instruction raises. *)
LEMMA ExceptionInv ==
    ASSUME IInv, NEW c \in CPU, NEW e \in {"YIELD", "SYSCALL", "PAGEFAULT"}, Exception(c, e)
    PROVE  IInv'
  <1>1. e \in Event \ {"ERROR"} /\ pend' \in [CPU -> SUBSET Irq]
    BY DEF Exception, Event, IInv, TypeOK
  <1>2. phase[c] = "run" /\ SetupStack(c, e) /\ ev' = [ev EXCEPT ![c] = e] /\ UNCHANGED <<ksp, kernel>>
    BY DEF Exception
  <1> QED
    BY <1>1, <1>2, SetupInv, Zenon

(* The signals that come from outside. *)
LEMMA InterruptInv ==
    ASSUME IInv, NEW c \in CPU, NEW e \in Irq, Interrupt(c, e)
    PROVE  IInv'
  <1>1. e \in Event \ {"ERROR"} /\ pend' \in [CPU -> SUBSET Irq]
    <2>1. e # "ERROR"
      BY IrqAssumption
    <2> QED
      BY <2>1 DEF Interrupt, Event, IInv, TypeOK
  <1>2. phase[c] = "run" /\ reg[c].ie
    <2>1. reg[c].ie
      BY DEF Interrupt
    <2>2. phase[c] # "run" => ~reg[c].ie
      BY DEF IInv, InIrqHandle
    <2> QED
      BY <2>1, <2>2
  <1>3. ev' = [ev EXCEPT ![c] = e] /\ UNCHANGED <<ksp, kernel>>
    BY DEF Interrupt
  <1>4. CASE reg[c].at = "lib"
    <2>1. UNCHANGED <<phase, reg, mem>>
      BY <1>4 DEF Interrupt
    <2> QED
      BY <1>1, <1>2, <1>3, <2>1, PendingInv, Zenon
  <1>5. CASE reg[c].at # "lib"
    <2>1. SetupStack(c, e)
      BY <1>5 DEF Interrupt
    <2> QED
      BY <1>1, <1>2, <1>3, <2>1, SetupInv, Zenon
  <1> QED
    BY <1>4, <1>5

LEMMA ArriveInv ==
    ASSUME IInv, NEW c \in CPU, NEW e \in Irq, Arrive(c, e)
    PROVE  IInv'
  <1>1. pend' \in [CPU -> SUBSET Irq] /\ ev' = ev /\ UNCHANGED <<phase, reg, ksp, mem, kernel>>
    BY DEF Arrive, IInv, TypeOK
  <1> QED
    BY <1>1, PendingInv

(* The code of a CPU that computes, masks its signals or calls a library.   *)
LEMMA CodeInv ==
    ASSUME IInv, NEW c \in CPU,
           Compute(c) \/ Library(c) \/ \E b \in BOOLEAN : Iset(c, b)
    PROVE  /\ IInv'
           /\ \E r \in Regs : /\ reg' = [reg EXCEPT ![c] = r]
                              /\ r.task = reg[c].task /\ r.sp = reg[c].sp /\ r.user = reg[c].user
                              /\ (r.user => r.ie = reg[c].ie)
                              /\ r.pos # reg[c].pos => r.pos = (reg[c].pos + 1) % P
           /\ UNCHANGED <<phase, ksp, ev, mem, kernel, pend>>
  <1>0. reg[c] \in Regs /\ P \in Nat \ {0} /\ reg \in [CPU -> Regs]
    BY BoundAssumption DEF IInv, TypeOK
  <1>1. PICK r \in Regs : /\ reg' = [reg EXCEPT ![c] = r]
                          /\ r.task = reg[c].task /\ r.sp = reg[c].sp /\ r.user = reg[c].user
                          /\ (r.user => r.ie = reg[c].ie /\ r.at = reg[c].at)
                          /\ r.pos # reg[c].pos => r.pos = (reg[c].pos + 1) % P
    <2>1. CASE Compute(c)
      <3>1. (reg[c].pos + 1) % P \in 0 .. P - 1
        BY <1>0 DEF Regs
      <3>2. [reg[c] EXCEPT !.pos = (reg[c].pos + 1) % P] \in Regs
        BY <1>0, <3>1 DEF Regs
      <3>3. reg' = [reg EXCEPT ![c] = [reg[c] EXCEPT !.pos = (reg[c].pos + 1) % P]]
        BY <2>1 DEF Compute
      <3> QED
        BY <1>0, <3>2, <3>3, Zenon DEF Regs
    <2>2. CASE Library(c)
      <3> DEFINE a == IF reg[c].at = "text" THEN "lib" ELSE "text"
      <3>1. [reg[c] EXCEPT !.at = a] \in Regs
        BY <1>0 DEF Regs
      <3>2. reg' = [reg EXCEPT ![c] = [reg[c] EXCEPT !.at = a]] /\ ~reg[c].user
        BY <2>2 DEF Library
      <3> QED
        BY <1>0, <3>1, <3>2, Zenon DEF Regs
    <2>3. ASSUME NEW b \in BOOLEAN, Iset(c, b)
          PROVE  \E r \in Regs :
                          /\ reg' = [reg EXCEPT ![c] = r]
                          /\ r.task = reg[c].task /\ r.sp = reg[c].sp /\ r.user = reg[c].user
                          /\ (r.user => r.ie = reg[c].ie /\ r.at = reg[c].at)
                          /\ r.pos # reg[c].pos => r.pos = (reg[c].pos + 1) % P
      <3>1. [reg[c] EXCEPT !.ie = b] \in Regs
        BY <1>0 DEF Regs
      <3>2. reg' = [reg EXCEPT ![c] = [reg[c] EXCEPT !.ie = b]] /\ ~reg[c].user
        BY <2>3 DEF Iset
      <3> QED
        BY <1>0, <3>1, <3>2, Zenon DEF Regs
    <2> QED
      BY <2>1, <2>2, <2>3
  <1>2. phase[c] = "run" /\ UNCHANGED <<phase, ksp, ev, mem, kernel, pend>>
    BY DEF Compute, Library, Iset
  <1>3. r.user => r.at = "text"
    BY <1>1, Zenon DEF IInv, TypeOK
  <1>4. IInv'
    BY <1>1, <1>2, <1>3, QuietInv, Zenon
  <1> QED
    BY <1>1, <1>2, <1>4, Zenon

(* Every step keeps the invariant. *)
LEMMA NextIInv == IInv /\ [Next]_vars => IInv'
  <1> SUFFICES ASSUME IInv, [Next]_vars
               PROVE  IInv'
    OBVIOUS
  <1>1. CASE UNCHANGED vars
    <2>1. UNCHANGED <<phase, reg, ksp, ev, mem, saved, chosen, got, pend>>
      BY <1>1 DEF vars, kernel
    <2>2. TypeOK' /\ InIrqHandle' /\ StackExclusive' /\ Chosen' /\ UserKsp'
      BY ONLY IInv, <2>1
         DEF IInv, TypeOK, InIrqHandle, StackExclusive, Chosen, UserKsp, Ksps
    <2>3. /\ \A u \in Task : Off(u)' <=> Off(u)
          /\ \A u, k : Frame(u, k)' <=> Frame(u, k)
      BY ONLY <2>1 DEF Off, Frame
    <2>4. Kept' /\ Frames'
      BY ONLY IInv, <2>1, <2>3 DEF IInv, Kept, Frames
    <2>5. Ksps'
      BY ONLY IInv, <2>1, <2>2, <2>3 DEF IInv, Ksps
    <2> QED
      BY <2>2, <2>4, <2>5 DEF IInv
  <1>2. ASSUME NEW c \in CPU, Step(c)
        PROVE  IInv'
    BY <1>2, ExceptionInv, InterruptInv, ArriveInv, IrqHandleInv, IretInv,
       HandlerReturnInv, CodeInv DEF Step
  <1> QED
    BY <1>1, <1>2 DEF Next

-----------------------------------------------------------------------------
(* The depth of a stack, without the choice of a CPU. *)
DepthIs ==
    /\ \A c \in CPU : Depth(reg[c].task) = reg[c].sp
    /\ \A t \in Task : Off(t) => Depth(t) = saved[t]
LEMMA DepthFacts == IInv => DepthIs
  <1> SUFFICES ASSUME IInv
               PROVE  DepthIs
    OBVIOUS
  <1>1. ASSUME NEW c \in CPU
        PROVE  Depth(reg[c].task) = reg[c].sp
    <2> DEFINE d == CHOOSE d \in CPU : reg[d].task = reg[c].task
    <2>1. d \in CPU /\ reg[d].task = reg[c].task
      BY <1>1
    <2>2. d = c
      BY <2>1 DEF IInv, StackExclusive
    <2>3. reg[c].user => reg[c].sp = 0
      BY DEF IInv, TypeOK
    <2> QED
      BY <2>2, <2>3, Zenon DEF Depth
  <1>2. ASSUME NEW t \in Task, Off(t)
        PROVE  Depth(t) = saved[t]
    BY <1>2 DEF Depth, Off
  <1> QED
    BY <1>1, <1>2 DEF DepthIs

LEMMA DepthFactsPrime == IInv' => DepthIs'
  BY DepthFacts, PTL

CodeSet == [pos : 0 .. P - 1, user : BOOLEAN, ie : BOOLEAN]

LEMMA ViewInCodeSet == ASSUME NEW r \in Regs PROVE View(r) \in CodeSet
  BY DEF View, CodeSet, Regs

(* A sequence with one more, and one less, element.                         *)
LEMMA AppendIs ==
    ASSUME NEW S, NEW n \in Nat, NEW s \in [1 .. n -> S], NEW x \in S,
           NEW u \in [1 .. n + 1 -> S], u[n + 1] = x, \A k \in 1 .. n : u[k] = s[k]
    PROVE  u = Append(s, x)
  <1>1. s \in Seq(S) /\ Len(s) = n
    BY SeqDef
  <1>2. Append(s, x) \in Seq(S) /\ Len(Append(s, x)) = n + 1
    BY <1>1
  <1>3. \A k \in 1 .. n + 1 : Append(s, x)[k] = u[k]
    BY <1>1
  <1>4. u \in Seq(S) /\ Len(u) = n + 1
    <2>1. n + 1 \in Nat
      OBVIOUS
    <2> QED
      BY <2>1, SeqDef
  <1> QED
    BY <1>2, <1>3, <1>4, SeqEqual

LEMMA DropIs ==
    ASSUME NEW S, NEW n \in Nat, NEW s \in [1 .. n + 1 -> S],
           NEW u \in [1 .. n -> S], \A k \in 1 .. n : u[k] = s[k]
    PROVE  u = SubSeq(s, 1, Len(s) - 1) /\ s # <<>> /\ s[Len(s)] = s[n + 1]
  <1>1. s \in Seq(S) /\ Len(s) = n + 1
    BY SeqDef
  <1>2. SubSeq(s, 1, n) \in Seq(S) /\ Len(SubSeq(s, 1, n)) = n
    BY <1>1
  <1>3. \A k \in 1 .. n : SubSeq(s, 1, n)[k] = s[k]
    BY <1>1
  <1>4. u \in Seq(S) /\ Len(u) = n
    BY SeqDef
  <1>5. u = SubSeq(s, 1, n)
    BY <1>2, <1>3, <1>4, SeqEqual
  <1>6. s # <<>>
    BY <1>1
  <1> QED
    BY <1>1, <1>5, <1>6

(* What the stack of a task holds, for the kernel. *)
SuspIs ==
    \A t \in Task : /\ Depth(t) \in 0 .. MaxDepth
                    /\ Susp[t] \in [1 .. Depth(t) -> CodeSet]
                    /\ Susp[t] = [k \in 1 .. Depth(t) |-> View(mem[t][k].regs)]
LEMMA SuspTypes == IInv => SuspIs
  <1> SUFFICES ASSUME IInv, NEW t \in Task
               PROVE  /\ Depth(t) \in 0 .. MaxDepth
                      /\ Susp[t] \in [1 .. Depth(t) -> CodeSet]
                      /\ Susp[t] = [k \in 1 .. Depth(t) |-> View(mem[t][k].regs)]
    BY DEF SuspIs
  <1>1. Depth(t) \in 0 .. MaxDepth
    <2>1. CASE Off(t)
      BY <2>1, DepthFacts DEF DepthIs, IInv, TypeOK
    <2>2. CASE ~Off(t)
      <3>1. PICK c \in CPU : reg[c].task = t
        BY <2>2 DEF Off
      <3>2. reg[c].sp \in 0 .. MaxDepth
        BY DEF IInv, TypeOK, Regs
      <3> QED
        BY <3>1, <3>2, DepthFacts DEF DepthIs
    <2> QED
      BY <2>1, <2>2
  <1>2. Susp[t] = [k \in 1 .. Depth(t) |-> View(mem[t][k].regs)]
    BY DEF Susp
  <1>3. \A k \in 1 .. Depth(t) : k \in 1 .. MaxDepth
    BY <1>1, BoundAssumption
  <1>4. \A k \in 1 .. Depth(t) : mem[t][k].regs \in Regs
    BY <1>3, Zenon DEF IInv, TypeOK, Context
  <1>5. \A k \in 1 .. Depth(t) : View(mem[t][k].regs) \in CodeSet
    BY <1>4, ViewInCodeSet
  <1> QED
    BY <1>1, <1>2, <1>5

LEMMA SuspTypesPrime == IInv' => SuspIs'
  BY SuspTypes, PTL

(* A stack whose depth and frames stay holds the same codes. *)
LEMMA StackSame ==
    ASSUME IInv, IInv', NEW t \in Task, Depth(t)' = Depth(t),
           \A k \in 1 .. Depth(t) : mem'[t][k].regs = mem[t][k].regs
    PROVE  Susp'[t] = Susp[t]
  <1>1. Susp[t] = [k \in 1 .. Depth(t) |-> View(mem[t][k].regs)]
    BY SuspTypes DEF SuspIs
  <1>2. Susp'[t] = [k \in 1 .. Depth(t)' |-> View(mem'[t][k].regs)]
    BY SuspTypesPrime DEF SuspIs, View
  <1> QED
    BY <1>1, <1>2 DEF View

(* When all CPUs stay where they are on their stacks, so do all stacks. *)
LEMMA StacksSame ==
    ASSUME IInv, IInv',
           \A c \in CPU : reg'[c].task = reg[c].task /\ reg'[c].sp = reg[c].sp,
           \A t \in Task : Off(t) => saved'[t] = saved[t],
           \A t \in Task : \A k \in 1 .. MaxDepth : mem'[t][k].regs = mem[t][k].regs
    PROVE  Susp' = Susp
  <1>1. \A t \in Task : Depth(t)' = Depth(t)
    <2> SUFFICES ASSUME NEW t \in Task
                 PROVE  Depth(t)' = Depth(t)
      OBVIOUS
    <2>1. CASE Off(t)
      <3>1. Off(t)'
        BY <2>1 DEF Off
      <3> QED
        BY <2>1, <3>1, DepthFacts, DepthFactsPrime DEF DepthIs
    <2>2. CASE ~Off(t)
      <3>1. PICK c \in CPU : reg[c].task = t
        BY <2>2 DEF Off
      <3>2. Depth(t) = reg[c].sp
        BY <3>1, DepthFacts DEF DepthIs
      <3>3. Depth(t)' = reg'[c].sp
        <4>1. (Depth(reg[c].task) = reg[c].sp)'
          BY DepthFactsPrime DEF DepthIs
        <4>2. reg'[c].task = t
          BY <3>1
        <4> QED
          BY <4>1, <4>2 DEF Depth
      <3> QED
        BY <3>2, <3>3
    <2> QED
      BY <2>1, <2>2
  <1>2. \A t \in Task : Susp'[t] = Susp[t]
    <2> TAKE t \in Task
    <2>1. \A k \in 1 .. Depth(t) : k \in 1 .. MaxDepth
      <3>1. Depth(t) \in 0 .. MaxDepth
        BY SuspTypes, Zenon DEF SuspIs
      <3> QED
        BY <3>1, BoundAssumption
    <2> QED
      BY <1>1, <2>1, StackSame
  <1> QED
    BY <1>2 DEF Susp

(* The code that the kernel sees on a CPU. *)
LEMMA CurIs ==
    /\ Cur \in [CPU -> {Cur[c] : c \in CPU}] /\ DOMAIN Cur = CPU
    /\ \A c \in CPU : Cur[c] = [task |-> reg[c].task, code |-> View(reg[c])]
  BY DEF Cur

(* A signal is a trap: the interrupted code waits on its task's stack.      *)
LEMMA TrapImplements ==
    ASSUME IInv, IInv', NEW c \in CPU, NEW e \in Event \ {"ERROR"}, phase[c] = "run",
           SetupStack(c, e), ev' = [ev EXCEPT ![c] = e], UNCHANGED <<ksp, kernel>>,
           e \in Irq => reg[c].ie
    PROVE  Promise!Trap(c, e)
  <1> PICK t : t = reg[c].task
    OBVIOUS
  <1> PICK n : n = reg[c].sp
    OBVIOUS
  <1> PICK m : m = n + 1
    OBVIOUS
  <1> PICK at : at = IF e = "SYSCALL" THEN (reg[c].pos + 1) % P ELSE reg[c].pos
    BY SMTT(60)
  <1>p. /\ m \in 1 .. MaxDepth /\ at \in 0 .. P - 1
        /\ mem' = [mem EXCEPT ![t][m].regs = [reg[c] EXCEPT !.pos = at]]
        /\ reg' = [reg EXCEPT ![c] = [reg[c] EXCEPT !.sp = m, !.pos = 0, !.user = FALSE,
                                                    !.ie = FALSE, !.at = "text"]]
        /\ phase' = [phase EXCEPT ![c] = "irq"]
    BY SetupFacts, Zenon
  <1>r. reg[c] \in Regs /\ t \in Task /\ n \in Nat /\ MaxDepth \in Nat /\ m \in 1 .. MaxDepth
    BY <1>p, BoundAssumption DEF IInv, TypeOK, Regs
  <1>a. /\ reg'[c].task = t /\ reg'[c].sp = m /\ View(reg'[c]) = [pos |-> 0, user |-> FALSE, ie |-> FALSE]
        /\ \A d \in CPU : d # c => reg'[d] = reg[d] /\ reg[d].task # t
    BY <1>p, <1>r DEF IInv, TypeOK, Regs, View, StackExclusive
  <1>b. View([reg[c] EXCEPT !.pos = at]) = [View(reg[c]) EXCEPT !.pos = at]
    BY <1>r DEF Regs, View
  <1>c. UNCHANGED <<saved, chosen, got>>
    BY DEF kernel
  <1>g. \A u \in Task, k \in 1 .. MaxDepth :
          mem'[u][k] = IF u = t /\ k = m
                       THEN [mem[t][m] EXCEPT !.regs = [reg[c] EXCEPT !.pos = at]]
                       ELSE mem[u][k]
    <2>1. mem \in [Task -> [1 .. MaxDepth -> Context]]
      BY DEF IInv, TypeOK
    <2>2. mem' = [mem EXCEPT ![t][m].regs = [reg[c] EXCEPT !.pos = at]]
      BY <1>p
    <2> QED
      BY ONLY <1>r, <2>1, <2>2
  <1>h. mem'[t][m].regs = [reg[c] EXCEPT !.pos = at]
    <2>1. mem[t][m] \in Context
      BY <1>r DEF IInv, TypeOK
    <2>2. mem'[t][m] = [mem[t][m] EXCEPT !.regs = [reg[c] EXCEPT !.pos = at]]
      BY ONLY <1>g, <1>r
    <2> QED
      BY ONLY <2>1, <2>2 DEF Context
  <1>d. Depth(t) = n /\ Depth(t)' = m
    <2>1. Depth(t) = n
      BY DepthFacts DEF DepthIs
    <2>2. (Depth(reg[c].task) = reg[c].sp)'
      BY DepthFactsPrime DEF DepthIs
    <2> QED
      BY <1>a, <2>1, <2>2 DEF Depth
  <1>1. Susp'[t] = Append(Susp[t], [View(reg[c]) EXCEPT !.pos = at])
    <2>1. Susp[t] \in [1 .. n -> CodeSet] /\ Susp[t] = [k \in 1 .. n |-> View(mem[t][k].regs)]
      BY <1>d, <1>r, SuspTypes DEF SuspIs
    <2>2. Susp'[t] \in [1 .. m -> CodeSet] /\ Susp'[t] = [k \in 1 .. m |-> View(mem'[t][k].regs)]
      BY <1>d, <1>r, SuspTypesPrime DEF SuspIs, CodeSet, View
    <2>3. m \in 1 .. m /\ \A k \in 1 .. n : k \in 1 .. m /\ k \in 1 .. MaxDepth /\ k # m
      BY <1>p, <1>r, BoundAssumption
    <2>4. Susp'[t][m] = [View(reg[c]) EXCEPT !.pos = at]
      BY <1>b, <1>h, <2>2, <2>3
    <2>5. \A k \in 1 .. n : Susp'[t][k] = Susp[t][k]
      BY <1>g, <1>r, <2>1, <2>2, <2>3
    <2>6. [View(reg[c]) EXCEPT !.pos = at] \in CodeSet
      BY <1>p, <1>r, ViewInCodeSet DEF CodeSet
    <2>7. \A s \in [1 .. n -> CodeSet], x \in CodeSet, u \in [1 .. n + 1 -> CodeSet] :
             u[n + 1] = x /\ (\A k \in 1 .. n : u[k] = s[k]) => u = Append(s, x)
      BY <1>r, AppendIs
    <2>8. Susp'[t] \in [1 .. n + 1 -> CodeSet] /\ Susp'[t][n + 1] = [View(reg[c]) EXCEPT !.pos = at]
      BY <2>2, <2>4
    <2>9. ASSUME NEW x \in CodeSet, Susp'[t][n + 1] = x
          PROVE  Susp'[t] = Append(Susp[t], x)
      <3>1. \A y \in CodeSet, u \in [1 .. n + 1 -> CodeSet] :
              u[n + 1] = y /\ (\A k \in 1 .. n : u[k] = Susp[t][k]) => u = Append(Susp[t], y)
        BY <2>1, <2>7, Zenon
      <3>2. Susp'[t][n + 1] = x /\ (\A k \in 1 .. n : Susp'[t][k] = Susp[t][k])
               => Susp'[t] = Append(Susp[t], x)
        BY <2>8, <3>1, Zenon
      <3> QED
        BY <2>5, <2>9, <3>2
    <2> QED
      BY <2>6, <2>8, <2>9
  <1>2. \A u \in Task : u # t => Susp'[u] = Susp[u]
    <2> SUFFICES ASSUME NEW u \in Task, u # t
                 PROVE  Susp'[u] = Susp[u]
      OBVIOUS
    <2>1. Depth(u)' = Depth(u)
      <3>1. CASE Off(u)
        <4>1. Off(u)'
          BY <1>a, <3>1 DEF Off
        <4> QED
          BY <1>c, <3>1, <4>1, DepthFacts, DepthFactsPrime DEF DepthIs
      <3>2. CASE ~Off(u)
        <4>1. PICK d \in CPU : reg[d].task = u
          BY <3>2 DEF Off
        <4>2. d # c /\ reg'[d] = reg[d]
          BY <1>a, <4>1
        <4>3. Depth(u) = reg[d].sp
          BY <4>1, DepthFacts DEF DepthIs
        <4>4. (Depth(reg[d].task) = reg[d].sp)'
          BY DepthFactsPrime DEF DepthIs
        <4> QED
          BY <4>1, <4>2, <4>3, <4>4, Zenon DEF Depth
      <3> QED
        BY <3>1, <3>2
    <2>2. \A k \in 1 .. Depth(u) : mem'[u][k].regs = mem[u][k].regs
      <3>1. Depth(u) \in 0 .. MaxDepth
        BY SuspTypes, Zenon DEF SuspIs
      <3>2. \A k \in 1 .. Depth(u) : k \in 1 .. MaxDepth
        BY <3>1, BoundAssumption
      <3> QED
        BY <1>g, <3>2
    <2> QED
      BY <2>1, <2>2, StackSame
  <1>3. Susp' = [Susp EXCEPT ![t] = Append(Susp[t], [View(reg[c]) EXCEPT !.pos = at])]
    BY <1>1, <1>2, <1>r, Zenon DEF Susp
  <1>4. Cur[c] = [task |-> t, code |-> View(reg[c])]
    BY CurIs
  <1>5. Cur' = [Cur EXCEPT ![c].code = [pos |-> 0, user |-> FALSE, ie |-> FALSE]]
    <2>1. \A d \in CPU : d # c => View(reg'[d]) = View(reg[d]) /\ reg'[d].task = reg[d].task
      BY <1>a
    <2>2. Cur' = [d \in CPU |-> [task |-> reg'[d].task, code |-> View(reg'[d])]]
      BY DEF Cur, View
    <2> QED
      BY <1>a, <2>1, <2>2, Zenon DEF Cur
  <1>6. Told' = [Told EXCEPT ![c] = e]
    <2>1. /\ phase'[c] = "irq" /\ ev'[c] = e
          /\ \A d \in CPU : d # c => phase'[d] = phase[d] /\ ev'[d] = ev[d]
      BY <1>p DEF IInv, TypeOK
    <2> QED
      BY <1>c, <2>1, Zenon DEF Told
  <1>7. /\ View(reg[c]).ie = reg[c].ie /\ View(reg[c]).pos = reg[c].pos
    BY DEF View
  <1>8. Cur[c].task = t /\ Cur[c].code = View(reg[c]) /\ (e \in Irq => Cur[c].code.ie)
    BY <1>4, <1>7
  <1>9. at = IF e = "SYSCALL" THEN (Cur[c].code.pos + 1) % P ELSE Cur[c].code.pos
    BY <1>7, <1>8
  <1>10. Susp' = [Susp EXCEPT ![Cur[c].task] =
                    Append(Susp[Cur[c].task], [Cur[c].code EXCEPT !.pos = at])]
    BY <1>3, <1>8
  <1> QED
    BY <1>5, <1>6, <1>8, <1>9, <1>10 DEF Promise!Trap, Promise!Handler

(* iret is the return to the code that waits at the top of the stack.       *)
LEMMA IretImplements ==
    ASSUME IInv, IInv', NEW c \in CPU, Iret(c)
    PROVE  \E t \in Task : Promise!Return(c, t)
  <1> PICK t : t = chosen[c]
    OBVIOUS
  <1> PICK n : n = saved[t]
    OBVIOUS
  <1>p. /\ phase[c] = "ret" /\ reg' = [reg EXCEPT ![c] = mem[t][n].regs]
        /\ phase' = [phase EXCEPT ![c] = "run"] /\ saved' = [saved EXCEPT ![t] = 0]
        /\ ev' = [ev EXCEPT ![c] = "ERROR"]
        /\ UNCHANGED <<mem, chosen, got, pend>>
    BY DEF Iret
  <1>f. /\ t \in Task /\ n \in 1 .. MaxDepth /\ mem[t][n] \in Context
        /\ Frame(t, n)
        /\ t = reg[c].task \/ Off(t)
        /\ \A d \in CPU \ {c} : reg[d].task # t
        /\ t = reg[c].task => n = reg[c].sp
    BY <1>p, IretFacts
  <1>r. n - 1 \in Nat /\ n \in Nat /\ MaxDepth \in Nat /\ (n - 1) + 1 = n
    <2>1. n \in 1 .. MaxDepth
      BY <1>f
    <2> QED
      BY ONLY <2>1, BoundAssumption
  <1>a. /\ reg'[c] = mem[t][n].regs /\ reg'[c].task = t /\ reg'[c].sp = n - 1
        /\ \A d \in CPU : d # c => reg'[d] = reg[d]
    <2>1. reg \in [CPU -> Regs]
      BY DEF IInv, TypeOK
    <2>2. reg' = [reg EXCEPT ![c] = mem[t][n].regs]
      BY <1>p
    <2>3. reg'[c] = mem[t][n].regs /\ \A d \in CPU : d # c => reg'[d] = reg[d]
      BY ONLY <2>1, <2>2
    <2>4. mem[t][n].regs.task = t /\ mem[t][n].regs.sp = n - 1
      BY ONLY <1>f DEF Frame
    <2> QED
      BY ONLY <2>3, <2>4
  <1>d. Depth(t) = n /\ Depth(t)' = n - 1
    <2>1. Depth(t) = n
      BY <1>f, DepthFacts DEF DepthIs
    <2>2. (Depth(reg[c].task) = reg[c].sp)'
      BY DepthFactsPrime DEF DepthIs
    <2>3. reg'[c].task = t /\ reg'[c].sp = n - 1
      BY ONLY <1>a, Zenon
    <2> QED
      BY ONLY <2>1, <2>2, <2>3 DEF Depth
  <1>1. /\ Susp'[t] = SubSeq(Susp[t], 1, Len(Susp[t]) - 1)
        /\ Susp[t] # <<>> /\ Susp[t][Len(Susp[t])] = View(mem[t][n].regs)
    <2>1. Susp[t] \in [1 .. n -> CodeSet] /\ Susp[t] = [k \in 1 .. n |-> View(mem[t][k].regs)]
      BY <1>d, <1>f, SuspTypes DEF SuspIs
    <2>2. Susp'[t] \in [1 .. n - 1 -> CodeSet] /\ Susp'[t] = [k \in 1 .. n - 1 |-> View(mem[t][k].regs)]
      BY <1>d, <1>f, <1>p, SuspTypesPrime DEF SuspIs, CodeSet, View
    <2>3. \A k \in 1 .. n - 1 : k \in 1 .. n
      BY <1>r
    <2>4. \A k \in 1 .. n - 1 : Susp'[t][k] = Susp[t][k]
      BY <2>1, <2>2, <2>3
    <2>5. Susp[t] \in [1 .. (n - 1) + 1 -> CodeSet]
      BY <1>r, <2>1
    <2>6. /\ Susp'[t] = SubSeq(Susp[t], 1, Len(Susp[t]) - 1)
          /\ Susp[t] # <<>> /\ Susp[t][Len(Susp[t])] = Susp[t][(n - 1) + 1]
      <3>1. \A s \in [1 .. (n - 1) + 1 -> CodeSet], u \in [1 .. n - 1 -> CodeSet] :
              (\A k \in 1 .. n - 1 : u[k] = s[k])
                 => u = SubSeq(s, 1, Len(s) - 1) /\ s # <<>> /\ s[Len(s)] = s[(n - 1) + 1]
        BY <1>r, DropIs
      <3> QED
        BY <2>2, <2>4, <2>5, <3>1, ZenonT(60)
    <2>7. n \in 1 .. n
      BY <1>f
    <2> QED
      BY <1>r, <2>1, <2>6, <2>7
  <1>2. \A u \in Task : u # t => Susp'[u] = Susp[u]
    <2> SUFFICES ASSUME NEW u \in Task, u # t
                 PROVE  Susp'[u] = Susp[u]
      OBVIOUS
    <2>0. saved'[u] = saved[u]
      BY <1>p DEF IInv, TypeOK
    <2>1. Depth(u)' = Depth(u)
      <3>1. CASE Off(u)
        <4>1. Off(u)'
          BY <1>a, <3>1 DEF Off
        <4> QED
          BY <2>0, <3>1, <4>1, DepthFacts, DepthFactsPrime DEF DepthIs
      <3>2. CASE u = reg[c].task
        <4>1. Off(u)'
          BY <1>a, <3>2 DEF IInv, StackExclusive, Off
        <4>2. saved[u] = reg[c].sp
          BY <1>p, <3>2 DEF IInv, Kept
        <4> QED
          BY <2>0, <3>2, <4>1, <4>2, DepthFacts, DepthFactsPrime DEF DepthIs
      <3>3. CASE ~Off(u) /\ u # reg[c].task
        <4>1. PICK d \in CPU : reg[d].task = u
          BY <3>3 DEF Off
        <4>2. d # c /\ reg'[d] = reg[d]
          BY <1>a, <3>3, <4>1
        <4>3. Depth(u) = reg[d].sp
          BY <4>1, DepthFacts DEF DepthIs
        <4>4. (Depth(reg[d].task) = reg[d].sp)'
          BY DepthFactsPrime, SMTT(60) DEF DepthIs
        <4> QED
          BY <4>1, <4>2, <4>3, <4>4, Zenon DEF Depth
      <3> QED
        BY <3>1, <3>2, <3>3
    <2> QED
      BY <1>p, <2>1, StackSame
  <1>3. Susp' = [Susp EXCEPT ![t] = SubSeq(Susp[t], 1, Len(Susp[t]) - 1)]
    BY <1>1, <1>2, <1>f, Zenon DEF Susp
  <1>4. Cur' = [Cur EXCEPT ![c] = [task |-> t, code |-> Susp[t][Len(Susp[t])]]]
    <2>1. \A d \in CPU : d # c => View(reg'[d]) = View(reg[d]) /\ reg'[d].task = reg[d].task
      BY <1>a
    <2>2. Cur' = [d \in CPU |-> [task |-> reg'[d].task, code |-> View(reg'[d])]]
      BY DEF Cur, View
    <2>3. View(reg'[c]) = Susp[t][Len(Susp[t])] /\ reg'[c].task = t
      BY <1>1, <1>a
    <2> QED
      BY <2>1, <2>2, <2>3, Zenon DEF Cur
  <1>5. Told' = Told
    <2>1. /\ phase'[c] # "irq" /\ phase[c] # "irq"
          /\ \A d \in CPU : d # c => phase'[d] = phase[d] /\ ev'[d] = ev[d]
      BY <1>p DEF IInv, TypeOK
    <2> QED
      BY <1>p, <2>1 DEF Told
  <1>6. ~Cur[c].code.user /\ \A d \in CPU \ {c} : Cur[d].task # t
    <2>1. ~reg[c].user
      BY <1>p DEF IInv, InIrqHandle
    <2> QED
      BY <1>f, <2>1 DEF Cur, View
  <1>7. Promise!Return(c, t)
    BY <1>1, <1>3, <1>4, <1>5, <1>6 DEF Promise!Return
  <1> QED
    BY <1>7, <1>f

(* The code of a CPU runs. *)
LEMMA CodeImplements ==
    ASSUME IInv, IInv', NEW c \in CPU,
           Compute(c) \/ Library(c) \/ \E b \in BOOLEAN : Iset(c, b)
    PROVE  Promise!Run(c)
  <1>1. PICK r \in Regs : /\ reg' = [reg EXCEPT ![c] = r]
                          /\ r.task = reg[c].task /\ r.sp = reg[c].sp /\ r.user = reg[c].user
                          /\ (r.user => r.ie = reg[c].ie)
                          /\ r.pos # reg[c].pos => r.pos = (reg[c].pos + 1) % P
    BY CodeInv
  <1>2. UNCHANGED <<phase, ksp, ev, mem, saved, chosen, got>>
    BY CodeInv DEF kernel
  <1>3. reg'[c] = r /\ \A d \in CPU : d # c => reg'[d] = reg[d]
    BY <1>1 DEF IInv, TypeOK
  <1>4. Susp' = Susp
    <2>1. \A d \in CPU : reg'[d].task = reg[d].task /\ reg'[d].sp = reg[d].sp
      BY <1>1, <1>3
    <2> QED
      BY <1>2, <2>1, StacksSame
  <1>5. Told' = Told
    BY <1>2 DEF Told
  <1>6. Cur' = [Cur EXCEPT ![c].code = View(r)]
    <2>1. \A d \in CPU : d # c => View(reg'[d]) = View(reg[d]) /\ reg'[d].task = reg[d].task
      BY <1>3
    <2>2. Cur' = [d \in CPU |-> [task |-> reg'[d].task, code |-> View(reg'[d])]]
      BY DEF Cur, View
    <2> QED
      BY <1>1, <1>3, <2>1, <2>2, Zenon DEF Cur
  <1>7. Cur[c].code = View(reg[c])
    BY CurIs
  <1>8. /\ View(r).pos = r.pos /\ View(r).user = r.user /\ View(r).ie = r.ie
        /\ View(reg[c]).pos = reg[c].pos /\ View(reg[c]).user = reg[c].user
        /\ View(reg[c]).ie = reg[c].ie
    BY DEF View
  <1>9. View(r) \in Promise!Code
    BY ViewInCodeSet DEF CodeSet, Promise!Code, Promise!Place
  <1>10. /\ View(r).user = Cur[c].code.user
         /\ View(r).user => View(r).ie = Cur[c].code.ie
         /\ View(r).pos # Cur[c].code.pos => View(r).pos = (Cur[c].code.pos + 1) % P
    BY <1>1, <1>7, <1>8
  <1> QED
    BY <1>4, <1>5, <1>6, <1>9, <1>10, Zenon DEF Promise!Run

(* Every step is a step of Contexts, or one that the kernel cannot see.     *)
LEMMA StepImplements ==
    IInv /\ IInv' /\ [Next]_vars => [Promise!Next]_(Promise!vars)
  <1> SUFFICES ASSUME IInv, IInv', [Next]_vars
               PROVE  Promise!Next \/ (Cur' = Cur /\ Susp' = Susp /\ Told' = Told)
    BY DEF Promise!vars
  <1>1. CASE UNCHANGED vars
    BY <1>1 DEF vars, kernel, Cur, Susp, Told, Depth, View
  <1>2. ASSUME NEW c \in CPU, NEW e \in {"YIELD", "SYSCALL", "PAGEFAULT"}, Exception(c, e)
        PROVE  Promise!Next
    <2>1. e \in Event \ {"ERROR"} /\ e \notin Irq /\ e \in Promise!Event
      BY IrqAssumption DEF Event, Promise!Event
    <2>2. Promise!Trap(c, e)
      BY <1>2, <2>1, TrapImplements, Zenon DEF Exception
    <2> QED
      BY <2>1, <2>2 DEF Promise!Next
  <1>3. ASSUME NEW c \in CPU, NEW e \in Irq, Interrupt(c, e)
        PROVE  Promise!Next \/ (Cur' = Cur /\ Susp' = Susp /\ Told' = Told)
    <2>1. e \in Event \ {"ERROR"} /\ e \in Promise!Event
      <3>1. e # "ERROR"
        BY IrqAssumption
      <3> QED
        BY <3>1 DEF Event, Promise!Event
    <2>2. phase[c] = "run" /\ reg[c].ie
      <3>1. reg[c].ie
        BY <1>3 DEF Interrupt
      <3> QED
        BY <3>1 DEF IInv, InIrqHandle
    <2>3. ev' = [ev EXCEPT ![c] = e] /\ UNCHANGED <<ksp, kernel>>
      BY <1>3 DEF Interrupt
    <2>4. CASE reg[c].at = "lib"
      <3>1. UNCHANGED <<phase, reg, mem, saved, got>>
        BY <1>3, <2>4 DEF Interrupt, kernel
      <3>2. Cur' = Cur /\ Susp' = Susp
        BY <3>1 DEF Cur, Susp, Depth, View
      <3>3. \A d \in CPU : phase[d] = "irq" => ev'[d] = ev[d]
        BY <2>2, <2>3 DEF IInv, TypeOK
      <3>4. Told' = Told
        BY <3>1, <3>3 DEF Told
      <3> QED
        BY <3>2, <3>4
    <2>5. CASE reg[c].at # "lib"
      <3>1. SetupStack(c, e)
        BY <1>3, <2>5 DEF Interrupt
      <3>2. Promise!Trap(c, e)
        BY <2>1, <2>2, <2>3, <3>1, TrapImplements, Zenon
      <3> QED
        BY <2>1, <3>2 DEF Promise!Next
    <2> QED
      BY <2>4, <2>5
  <1>4. ASSUME NEW c \in CPU, NEW e \in Irq, Arrive(c, e)
        PROVE  Cur' = Cur /\ Susp' = Susp /\ Told' = Told
    BY <1>4 DEF Arrive, kernel, Cur, Susp, Told, Depth, View
  <1>5. ASSUME NEW c \in CPU, IrqHandle(c)
        PROVE  Cur' = Cur /\ Susp' = Susp /\ Told' = Told
    <2>1. Cur' = Cur
      BY <1>5 DEF IrqHandle, Cur, View
    <2>2. Told' = Told
      BY <1>5 DEF IrqHandle, Told, IInv, TypeOK
    <2>3. \A t \in Task : \A k \in 1 .. MaxDepth : mem'[t][k].regs = mem[t][k].regs
      <3> SUFFICES ASSUME NEW t \in Task, NEW k \in 1 .. MaxDepth
                   PROVE  mem'[t][k].regs = mem[t][k].regs
        OBVIOUS
      <3>1. mem' = [mem EXCEPT ![reg[c].task][reg[c].sp].ksp = ksp[c]]
        BY <1>5 DEF IrqHandle
      <3>2. mem[t][k] \in Context
        <4>1. TypeOK
          BY DEF IInv
        <4>2. mem \in [Task -> [1 .. MaxDepth -> Context]]
          BY <4>1 DEF TypeOK
        <4> QED
          BY <4>2, Zenon
      <3>3. mem'[t][k] = IF t = reg[c].task /\ k = reg[c].sp
                         THEN [mem[t][k] EXCEPT !.ksp = ksp[c]] ELSE mem[t][k]
        BY <3>1, Zenon DEF IInv, TypeOK
      <3> QED
        BY <3>2, <3>3 DEF Context
    <2>4. Susp' = Susp
      BY <1>5, <2>3, StacksSame DEF IrqHandle
    <2> QED
      BY <2>1, <2>2, <2>4
  <1>6. ASSUME NEW c \in CPU, NEW t \in Task, HandlerReturn(c, t)
        PROVE  Cur' = Cur /\ Susp' = Susp /\ Told' = Told
    <2>1. Cur' = Cur
      BY <1>6 DEF HandlerReturn, Cur, View
    <2>2. Told' = Told
      <3>1. /\ phase[c] = "run" /\ phase'[c] = "ret"
            /\ \A d \in CPU : d # c => phase'[d] = phase[d]
        BY <1>6 DEF HandlerReturn, IInv, TypeOK
      <3>2. UNCHANGED <<ev, got>>
        BY <1>6 DEF HandlerReturn
      <3> QED
        BY <3>1, <3>2 DEF Told
    <2>3. \A u \in Task : Off(u) => saved'[u] = saved[u]
      BY <1>6 DEF HandlerReturn, IInv, TypeOK, Off
    <2>4. UNCHANGED <<reg, mem>>
      BY <1>6 DEF HandlerReturn
    <2>5. Susp' = Susp
      BY <2>3, <2>4, StacksSame
    <2> QED
      BY <2>1, <2>2, <2>5
  <1>7. ASSUME NEW c \in CPU, Iret(c)
        PROVE  Promise!Next
    BY <1>7, IretImplements DEF Promise!Next
  <1>8. ASSUME NEW c \in CPU,
               Compute(c) \/ Library(c) \/ \E b \in BOOLEAN : Iset(c, b)
        PROVE  Promise!Next
    BY <1>8, CodeImplements DEF Promise!Next
  <1> QED
    BY <1>1, <1>2, <1>3, <1>4, <1>5, <1>6, <1>7, <1>8 DEF Next, Step

(* So are the initial states. *)
LEMMA InitImplements == Init => Promise!Init
  <1> SUFFICES ASSUME Init
               PROVE  Promise!Init
    OBVIOUS
  <1>0. IInv
    BY InitIInv
  <1>1. Boot \in [CPU -> Task] /\ \A c, d \in CPU : Boot[c] = Boot[d] => c = d
    BY BootAssumption
  <1>2. \A c \in CPU : reg[c].task = Boot[c] /\ reg[c].sp = 0
                       /\ View(reg[c]) = [pos |-> 0, user |-> FALSE, ie |-> FALSE]
    BY Zenon DEF Init, Kcontext, View
  <1>3. Cur = [c \in CPU |-> [task |-> Boot[c], code |-> [pos |-> 0, user |-> FALSE, ie |-> FALSE]]]
    BY <1>2, Zenon DEF Cur
  <1>4. DOMAIN Susp = Task
    BY DEF Susp
  <1>5. ASSUME NEW t \in Task, \E c \in CPU : Boot[c] = t
        PROVE  Susp[t] = <<>>
    <2>1. Depth(t) = 0
      BY <1>0, <1>2, <1>5, DepthFacts DEF DepthIs
    <2>2. Susp[t] \in [1 .. 0 -> CodeSet]
      BY <1>0, <2>1, SuspTypes, Zenon DEF SuspIs
    <2>3. Susp[t] \in Seq(CodeSet) /\ Len(Susp[t]) = 0
      BY <2>2, SeqDef
    <2> QED
      BY <2>3, EmptySeq
  <1>6. ASSUME NEW t \in Task, ~\E c \in CPU : Boot[c] = t
        PROVE  \E u \in BOOLEAN : Susp[t] = <<[pos |-> 0, user |-> u, ie |-> TRUE]>>
    <2>1. saved[t] = 1 /\ Off(t)
      BY <1>2, <1>6 DEF Init, Off
    <2>2. Depth(t) = 1
      BY <1>0, <2>1, DepthFacts DEF DepthIs
    <2>3. \E u \in BOOLEAN : View(mem[t][1].regs) = [pos |-> 0, user |-> u, ie |-> TRUE]
      <3>1. PICK junk \in Stack :
              mem = [s \in Task |-> [k \in 1 .. MaxDepth |->
                       IF k > saved[s] THEN Kcontext(s, NoStack)
                       ELSE IF s \in UserTask THEN Ucontext(s, junk) ELSE Kcontext(s, junk)]]
        BY DEF Init
      <3>2. 1 \in 1 .. MaxDepth
        BY BoundAssumption
      <3>3. mem[t][1] = Ucontext(t, junk) \/ mem[t][1] = Kcontext(t, junk)
        BY <2>1, <3>1, <3>2
      <3>4. CASE mem[t][1] = Ucontext(t, junk)
        <4>1. View(mem[t][1].regs) = [pos |-> 0, user |-> TRUE, ie |-> TRUE]
          <5>1. Ucontext(t, junk).regs = [task |-> t, sp |-> 0, pos |-> 0, user |-> TRUE, ie |-> TRUE, at |-> "text"]
            BY DEF Ucontext
          <5>2. mem[t][1].regs.pos = 0 /\ mem[t][1].regs.user = TRUE /\ mem[t][1].regs.ie = TRUE
            BY <3>4, <5>1
          <5> QED
            BY <5>2, Zenon DEF View
        <4> QED
          BY <4>1, Zenon
      <3>5. CASE mem[t][1] = Kcontext(t, junk)
        <4>1. View(mem[t][1].regs) = [pos |-> 0, user |-> FALSE, ie |-> TRUE]
          <5>1. Kcontext(t, junk).regs = [task |-> t, sp |-> 0, pos |-> 0, user |-> FALSE, ie |-> TRUE, at |-> "text"]
            BY DEF Kcontext
          <5>2. mem[t][1].regs.pos = 0 /\ mem[t][1].regs.user = FALSE /\ mem[t][1].regs.ie = TRUE
            BY <3>5, <5>1
          <5> QED
            BY <5>2, Zenon DEF View
        <4> QED
          BY <4>1, Zenon
      <3> QED
        BY <3>3, <3>4, <3>5
    <2>4. Susp[t] = [k \in 1 .. 1 |-> View(mem[t][k].regs)]
      BY <1>0, <2>2, SuspTypes, Zenon DEF SuspIs
    <2>5. Susp[t] = <<View(mem[t][1].regs)>>
      BY <2>4
    <2> QED
      BY <2>3, <2>5, Zenon
  <1>7. Told \in [CPU -> Promise!Event]
    BY DEF Init, Told, Promise!Event
  <1> QED
    BY <1>1, <1>3, <1>4, <1>5, <1>6, <1>7, Zenon DEF Promise!Init

-----------------------------------------------------------------------------
(* The invariant of the kernel stacks is inductive, for any CPUs, tasks and *)
(* depth of nesting.                                                        *)
THEOREM NativeCteInvariant == Spec => []IInv
  <1>1. Init => IInv
    BY InitIInv
  <1>2. IInv /\ [Next]_vars => IInv'
    BY NextIInv
  <1> QED
    BY <1>1, <1>2, PTL DEF Spec

(* No kernel stack is ever in use by two CPUs.                              *)
THEOREM NativeStackExclusive == Spec => []StackExclusive
  <1>1. IInv => StackExclusive
    BY DEF IInv
  <1> QED
    BY <1>1, NativeCteInvariant, PTL

(* The next trap of user code finds its own kernel stack in thiscpu->ksp.   *)
THEOREM NativeUserKsp == Spec => []UserKsp
  <1>1. IInv => UserKsp
    BY DEF IInv, Ksps
  <1> QED
    BY <1>1, NativeCteInvariant, PTL

(* irq_handle is never interrupted before the handler may be, nor while it  *)
(* leaves, and never finds EVENT_ERROR.                                     *)
THEOREM NativeMasked == Spec => []Masked
  <1>1. IInv => Masked
    BY DEF IInv, InIrqHandle, Masked
  <1> QED
    BY <1>1, NativeCteInvariant, PTL

(* The signal machinery implements the promise of the CTE: codes are        *)
(* suspended whole and resumed exactly where they were.                     *)
THEOREM NativeImplementsContexts == Spec => PromiseSpec
  <1>1. Init => Promise!Init
    BY InitImplements
  <1>2. IInv /\ IInv' /\ [Next]_vars => [Promise!Next]_(Promise!vars)
    BY StepImplements
  <1> QED
    BY <1>1, <1>2, NativeCteInvariant, PTL DEF Spec, PromiseSpec, Promise!Spec
==============================================================================
