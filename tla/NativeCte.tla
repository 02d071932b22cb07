------------------------------- MODULE NativeCte -------------------------------
(***************************************************************************)
(* Traps and context switches on the native platform, where an interrupt   *)
(* or a fault is a Linux signal.  The signal handler saves the interrupted *)
(* registers as a Context on a kernel stack and makes the CPU continue in  *)
(* irq_handle; to resume a context, irq_handle jumps to an unmapped        *)
(* address and the signal handler loads the registers from the Context.    *)
(* am/src/native: cte.c, vme.c (ucontext), platform.h.                     *)
(***************************************************************************)
EXTENDS Naturals, Sequences, FiniteSets

CONSTANTS
    CPU, Task,
    Irq,            \* the interrupts that may arrive
    NoStack,        \* a ksp that points to no kernel stack
    Boot,           \* the task each CPU starts with
    UserTask,       \* the tasks created by ucontext; the rest by kcontext
    P,              \* how many places a program has
    MaxDepth        \* frames that fit a kernel stack

ASSUME BootAssumption ==
    /\ Boot \in [CPU -> Task] /\ \A c, d \in CPU : Boot[c] = Boot[d] => c = d
    /\ UserTask \subseteq Task \ {Boot[c] : c \in CPU}
ASSUME BoundAssumption == P \in Nat \ {0} /\ MaxDepth \in Nat \ {0}
ASSUME StackAssumption == NoStack \notin Task

ASSUME IrqAssumption == Irq \subseteq {"TIMER", "IODEV"}

Event == Irq \cup {"YIELD", "SYSCALL", "PAGEFAULT", "ERROR"}

(* The registers: the task whose code runs and whose kernel stack sp       *)
(* points into (in user mode sp is elsewhere), the frames below sp, the    *)
(* place, and the signal mask as ie.  "lib": pc is in a shared library and  *)
(* not after the system call of sigprocmask.                               *)
Regs == [task : Task, sp : 0 .. MaxDepth, pos : 0 .. P - 1, user : BOOLEAN,
         ie : BOOLEAN, at : {"text", "lib"}]
Stack == Task \cup {NoStack}
Context == [regs : Regs, ksp : Stack]

VARIABLES
    phase,      \* per CPU: "run"; "irq", entering irq_handle; "ret", leaving it
    reg,        \* registers of each CPU
    ksp, ev,    \* thiscpu->ksp, thiscpu->ev.event
    mem,        \* Context at each place of each kernel stack
    saved,      \* the Context the kernel keeps for a task: its depth, or 0
    chosen,     \* the task whose context the handler returned
    got,        \* the event the handler was called with
    pend        \* signals that Linux has not delivered yet

kernel == <<saved, chosen, got>>
vars == <<phase, reg, ksp, ev, mem, kernel, pend>>

Kcontext(t, junk) ==   \* kcontext leaves ksp as it finds it
    [regs |-> [task |-> t, sp |-> 0, pos |-> 0, user |-> FALSE, ie |-> TRUE,
               at |-> "text"], ksp |-> junk]
UcontextNoKsp(t, junk) ==  \* mutant: ucontext does not set ksp either
    [regs |-> [task |-> t, sp |-> 0, pos |-> 0, user |-> TRUE, ie |-> TRUE,
               at |-> "text"], ksp |-> junk]
Ucontext(t, junk) ==
    [regs |-> [task |-> t, sp |-> 0, pos |-> 0, user |-> TRUE, ie |-> TRUE,
               at |-> "text"], ksp |-> t]

Init ==
    /\ phase = [c \in CPU |-> "run"]
    /\ reg = [c \in CPU |-> [Kcontext(Boot[c], NoStack).regs EXCEPT !.ie = FALSE]]
    /\ ksp = [c \in CPU |-> NoStack]
    /\ ev = [c \in CPU |-> "ERROR"]
    /\ saved = [t \in Task |-> IF \E c \in CPU : Boot[c] = t THEN 0 ELSE 1]
    /\ \E junk \in Stack :
         mem = [t \in Task |-> [k \in 1 .. MaxDepth |->
                  IF k > saved[t] THEN Kcontext(t, NoStack)
                  ELSE IF t \in UserTask THEN Ucontext(t, junk)
                                         ELSE Kcontext(t, junk)]]
    /\ chosen = [c \in CPU |-> Boot[c]]
    /\ got = [c \in CPU |-> "YIELD"]
    /\ pend = [c \in CPU |-> {}]

-----------------------------------------------------------------------------
(* setup_stack.  The saved pc skips the faulting instruction of a system   *)
(* call; the registers are set for irq_handle on the kernel stack, with    *)
(* the interrupt signals masked.                                           *)
SetupUnmasked(c, e) == \* mutant: uc_sigmask is left alone
    LET r == reg[c]
        t == IF r.user THEN ksp[c] ELSE r.task
        n == IF r.user THEN 1 ELSE r.sp + 1
        skip == IF e = "SYSCALL" THEN (r.pos + 1) % P ELSE r.pos
    IN  /\ t \in Task /\ n <= MaxDepth
        /\ mem' = [mem EXCEPT ![t][n].regs = [r EXCEPT !.pos = skip]]
        /\ reg' = [reg EXCEPT ![c] = [r EXCEPT !.task = t, !.sp = n, !.pos = 0,
                                        !.user = FALSE, !.at = "text"]]
        /\ phase' = [phase EXCEPT ![c] = "irq"]
SetupAtTop(c, e) ==    \* mutant: every trap starts at the top of the stack
    LET r == reg[c]
        t == IF r.user THEN ksp[c] ELSE r.task
        skip == IF e = "SYSCALL" THEN (r.pos + 1) % P ELSE r.pos
    IN  /\ t \in Task
        /\ mem' = [mem EXCEPT ![t][1].regs = [r EXCEPT !.pos = skip]]
        /\ reg' = [reg EXCEPT ![c] = [r EXCEPT !.task = t, !.sp = 1, !.pos = 0,
                             !.user = FALSE, !.ie = FALSE, !.at = "text"]]
        /\ phase' = [phase EXCEPT ![c] = "irq"]
SetupStack(c, e) ==
    LET r == reg[c]
        t == IF r.user THEN ksp[c] ELSE r.task
        n == IF r.user THEN 1 ELSE r.sp + 1
        skip == IF e = "SYSCALL" THEN (r.pos + 1) % P ELSE r.pos
    IN  /\ t \in Task /\ n <= MaxDepth
        /\ mem' = [mem EXCEPT ![t][n].regs = [r EXCEPT !.pos = skip]]
        /\ reg' = [reg EXCEPT ![c] = [r EXCEPT !.task = t, !.sp = n, !.pos = 0,
                             !.user = FALSE, !.ie = FALSE, !.at = "text"]]
        /\ phase' = [phase EXCEPT ![c] = "irq"]

(* sig_handler for the signals an instruction of the CPU raises: SIGUSR2   *)
(* from raise(), which is in a library, and SIGSEGV.                       *)
Raises(r, e) ==
    \/ e = "YIELD" /\ ~r.user /\ r.at = "lib"
    \/ e = "SYSCALL" /\ r.at = "text"
    \/ e = "PAGEFAULT" /\ r.at \in {"text", "lib"}
ExceptionShared(c, e) ==   \* mutant: thiscpu is mapped MAP_SHARED
    /\ phase[c] = "run" /\ Raises(reg[c], e)
    /\ ev' = [d \in CPU |-> e]
    /\ SetupStack(c, e)
    /\ UNCHANGED <<ksp, kernel, pend>>
Exception(c, e) ==
    /\ phase[c] = "run" /\ Raises(reg[c], e)
    /\ ev' = [ev EXCEPT ![c] = e]
    /\ SetupStack(c, e)
    /\ UNCHANGED <<ksp, kernel, pend>>

(* sig_handler for SIGUSR1 and SIGVTALRM: ev is written in any case, but   *)
(* an interrupt that hits library code is dropped.                         *)
Interrupt(c, e) ==
    /\ e \in pend[c] /\ reg[c].ie
    /\ pend' = [pend EXCEPT ![c] = @ \ {e}]
    /\ ev' = [ev EXCEPT ![c] = e]
    /\ IF reg[c].at = "lib" THEN UNCHANGED <<phase, reg, mem>>
                            ELSE SetupStack(c, e)
    /\ UNCHANGED <<ksp, kernel>>

(* irq_handle up to the call of the kernel's handler. *)
IrqHandle(c) ==
    /\ phase[c] = "irq"
    /\ mem' = [mem EXCEPT ![reg[c].task][reg[c].sp].ksp = ksp[c]]
    /\ got' = [got EXCEPT ![c] = ev[c]]
    /\ phase' = [phase EXCEPT ![c] = "run"]
    /\ UNCHANGED <<reg, ksp, ev, saved, chosen, pend>>

(* The kernel's handler returns a context: the one it was given or one it  *)
(* keeps for a task that no other CPU has.  irq_handle still runs on the   *)
(* stack of the old task; a careful kernel waits until it does not.        *)
Free(c, t) == \A d \in CPU \ {c} : chosen[d] # t /\ reg[d].task # t
HandlerReturn(c, t) ==
    /\ phase[c] = "run" /\ ~reg[c].user /\ reg[c].sp > 0
    /\ ~reg[c].ie /\ reg[c].at = "text"
    /\ saved' = [saved EXCEPT ![reg[c].task] = reg[c].sp]
    /\ Free(c, t)
    /\ chosen' = [chosen EXCEPT ![c] = t]
    /\ phase' = [phase EXCEPT ![c] = "ret"]
    /\ UNCHANGED <<reg, ksp, ev, mem, got, pend>>

(* irq_handle calls 0x100008; sig_handler's iret.  The Context is no       *)
(* longer anybody's.                                                       *)
IretNoKsp(c) ==        \* mutant: thiscpu->ksp is not loaded
    LET x == mem[chosen[c]][saved[chosen[c]]]
    IN  /\ phase[c] = "ret"
        /\ reg' = [reg EXCEPT ![c] = x.regs]
        /\ ev' = [ev EXCEPT ![c] = "ERROR"]
        /\ phase' = [phase EXCEPT ![c] = "run"]
        /\ saved' = [saved EXCEPT ![chosen[c]] = 0]
        /\ UNCHANGED <<ksp, mem, chosen, got, pend>>
Iret(c) ==
    LET x == mem[chosen[c]][saved[chosen[c]]]
    IN  /\ phase[c] = "ret"
        /\ reg' = [reg EXCEPT ![c] = x.regs]
        /\ ksp' = [ksp EXCEPT ![c] = x.ksp]
        /\ ev' = [ev EXCEPT ![c] = "ERROR"]
        /\ phase' = [phase EXCEPT ![c] = "run"]
        /\ saved' = [saved EXCEPT ![chosen[c]] = 0]
        /\ UNCHANGED <<mem, chosen, got, pend>>

-----------------------------------------------------------------------------
(* The code of tasks and handlers. *)
Compute(c) ==
    /\ phase[c] = "run"
    /\ reg' = [reg EXCEPT ![c].pos = (@ + 1) % P]
    /\ UNCHANGED <<phase, ksp, ev, mem, kernel, pend>>

(* iset(): where sigprocmask enables the signals, setup_stack takes pc for *)
(* kernel text, so that the pending ones can be delivered.                 *)
Iset(c, enable) ==
    /\ phase[c] = "run" /\ ~reg[c].user /\ reg[c].at = "text"
    /\ reg' = [reg EXCEPT ![c].ie = enable]
    /\ UNCHANGED <<phase, ksp, ev, mem, kernel, pend>>

(* Calls and returns of library functions, sigprocmask included. *)
Library(c) ==
    /\ phase[c] = "run" /\ ~reg[c].user
    /\ reg' = [reg EXCEPT ![c].at = IF @ = "text" THEN "lib" ELSE "text"]
    /\ UNCHANGED <<phase, ksp, ev, mem, kernel, pend>>

(* The interval timer expires or a key is pressed. *)
Arrive(c, e) ==
    /\ pend' = [pend EXCEPT ![c] = @ \cup {e}]
    /\ UNCHANGED <<phase, reg, ksp, ev, mem, kernel>>

Step(c) ==
    \/ \E e \in {"YIELD", "SYSCALL", "PAGEFAULT"} : Exception(c, e)
    \/ \E e \in Irq : Interrupt(c, e) \/ Arrive(c, e)
    \/ IrqHandle(c) \/ Iret(c)
    \/ \E t \in Task : HandlerReturn(c, t)
    \/ Compute(c) \/ Library(c) \/ \E b \in BOOLEAN : Iset(c, b)

Next == \E c \in CPU : Step(c)
Spec == Init /\ [][Next]_vars

-----------------------------------------------------------------------------
(* Every variable has its type; user code has nothing on its kernel stack, *)
(* and irq_handle never finds EVENT_ERROR, on which it stops the machine.  *)
TypeOK ==
    /\ \A c \in CPU :
         /\ reg[c].user => reg[c].sp = 0 /\ reg[c].at = "text"
         /\ phase[c] = "irq" => ev[c] # "ERROR"
    /\ phase \in [CPU -> {"run", "irq", "ret"}]
    /\ reg \in [CPU -> Regs]
    /\ ksp \in [CPU -> Stack]
    /\ ev \in [CPU -> Event] /\ got \in [CPU -> Event]
    /\ mem \in [Task -> [1 .. MaxDepth -> Context]]
    /\ saved \in [Task -> 0 .. MaxDepth]
    /\ chosen \in [CPU -> Task]
    /\ pend \in [CPU -> SUBSET Irq]

(* User code never runs with a thiscpu->ksp that is not the top of its own *)
(* task's kernel stack: the next trap would write a Context elsewhere.     *)
UserKsp == \A c \in CPU : reg[c].user => ksp[c] = reg[c].task

(* No kernel stack is in use by two CPUs. *)
StackExclusive ==
    \A c, d \in CPU : c # d => reg[c].task # reg[d].task

(* Interrupts are masked from the signal until the handler may enable      *)
(* them, and again while irq_handle leaves: thiscpu->ev and ksp cannot     *)
(* change under irq_handle, which sees events of the right kind (TypeOK).  *)
Masked == TypeOK /\ \A c \in CPU : phase[c] # "run" => ~reg[c].ie

(* The frames of a task that are live: those below the sp of the CPU it is *)
(* on, or the ones up to the Context the kernel keeps.                     *)
Depth(t) ==
    IF \E c \in CPU : reg[c].task = t
    THEN LET c == CHOOSE c \in CPU : reg[c].task = t
         IN  IF reg[c].user THEN 0 ELSE reg[c].sp
    ELSE saved[t]

View(r) == [pos |-> r.pos, user |-> r.user, ie |-> r.ie]

(* What a kernel sees of them: the code each CPU runs and for which task,   *)
(* the codes that wait on each stack, and the event of the last handler.   *)
Cur == [c \in CPU |-> [task |-> reg[c].task, code |-> View(reg[c])]]
Susp == [t \in Task |-> [k \in 1 .. Depth(t) |-> View(mem[t][k].regs)]]
Told == [c \in CPU |-> IF phase[c] = "irq" THEN ev[c] ELSE got[c]]

(* The signal machinery implements the promise of the CTE: every suspended *)
(* code of every task is kept exactly, is resumed exactly, and handlers    *)
(* get the event that happened.                                            *)
Promise == INSTANCE Contexts WITH cur <- Cur, susp <- Susp, ev <- Told
PromiseSpec == Promise!Spec
=============================================================================
