-------------------------------- MODULE Contexts --------------------------------
(***************************************************************************)
(* What the context extension (CTE) promises to a kernel: a task is a      *)
(* program that may be interrupted at any point and continues, on          *)
(* whichever CPU the kernel's handler returns its context, exactly where   *)
(* it was.  am/include/am.h: cte_init, kcontext, yield, Event.             *)
(*                                                                         *)
(* A task may be suspended several times over: the handler that runs on    *)
(* its behalf can be interrupted like any other code.                      *)
(***************************************************************************)
EXTENDS Naturals, Sequences

CONSTANTS
    Task, CPU,
    Irq,        \* the interrupts, events that only enabled code is exposed to
    P           \* how many places a program has

Place == 0 .. P - 1
Code == [pos : Place, user : BOOLEAN, ie : BOOLEAN]
Event == Irq \cup {"YIELD", "SYSCALL", "PAGEFAULT"}

VARIABLES
    cur,    \* the task each CPU executes code for, and the state of the code
    susp,   \* the suspended codes of each task, the latest last
    ev      \* the event each CPU's latest handler was called for

vars == <<cur, susp, ev>>

Handler == [pos |-> 0, user |-> FALSE, ie |-> FALSE]

(* The code of the CPU computes, or enables or disables interrupts. *)
Run(c) ==
    /\ \E x \in Code :
         /\ x.user = cur[c].code.user
         /\ x.user => x.ie = cur[c].code.ie
         /\ x.pos # cur[c].code.pos => x.pos = (cur[c].code.pos + 1) % P
         /\ cur' = [cur EXCEPT ![c].code = x]
    /\ UNCHANGED <<susp, ev>>

(* A handler begins, with interrupts disabled.  A system call continues    *)
(* after the instruction that made it, everything else at it.              *)
Trap(c, e) ==
    /\ e \in Irq => cur[c].code.ie
    /\ LET t == cur[c].task
           x == cur[c].code
           at == IF e = "SYSCALL" THEN (x.pos + 1) % P ELSE x.pos
       IN  /\ susp' = [susp EXCEPT ![t] = Append(@, [x EXCEPT !.pos = at])]
           /\ cur' = [cur EXCEPT ![c].code = Handler]
    /\ ev' = [ev EXCEPT ![c] = e]

(* The handler returns the latest suspended code of a task that no other   *)
(* CPU executes.                                                           *)
Return(c, t) ==
    /\ susp[t] # <<>> /\ \A d \in CPU \ {c} : cur[d].task # t
    /\ ~cur[c].code.user
    /\ cur' = [cur EXCEPT ![c] =
                 [task |-> t, code |-> susp[t][Len(susp[t])]]]
    /\ susp' = [susp EXCEPT ![t] = SubSeq(@, 1, Len(@) - 1)]
    /\ UNCHANGED ev

Next ==
    \E c \in CPU : \/ Run(c)
                   \/ \E e \in Event : Trap(c, e)
                   \/ \E t \in Task : Return(c, t)

(* Each CPU starts with a task of its own; the others have one context.    *)
Init ==
    /\ \E boot \in [CPU -> Task] :
         /\ \A c, d \in CPU : boot[c] = boot[d] => c = d
         /\ cur = [c \in CPU |-> [task |-> boot[c],
                     code |-> [pos |-> 0, user |-> FALSE, ie |-> FALSE]]]
         /\ \A t \in Task :
              IF \E c \in CPU : boot[c] = t THEN susp[t] = <<>>
              ELSE \E u \in BOOLEAN :
                     susp[t] = <<[pos |-> 0, user |-> u, ie |-> TRUE]>>
         /\ DOMAIN susp = Task
    /\ ev \in [CPU -> Event]

Spec == Init /\ [][Next]_vars
=============================================================================
