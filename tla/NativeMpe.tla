------------------------------- MODULE NativeMpe -------------------------------
(***************************************************************************)
(* Starting the CPUs of the native platform.  Each CPU is a Linux process. *)
(* mpe_init forks the others, which wait for one byte from a pipe while    *)
(* CPU 0 initialises the devices; every process then runs entry().         *)
(* am/src/native: mpe.c, ioe.c, platform.c (__am_exit_platform).           *)
(*                                                                         *)
(* .data and .bss are mapped MAP_SHARED, so has_ioe and ioe_init_done are  *)
(* common to all processes; thiscpu, the stack and the descriptor table    *)
(* are copied by fork().                                                   *)
(***************************************************************************)
EXTENDS Naturals, FiniteSets

CONSTANTS
    NCPU,           \* __am_ncpu
    MaxProc,        \* how many processes may ever be created
    Apps            \* the kinds of application, each a set of habits

ASSUME NCPUAssumption == NCPU \in Nat \ {0}
ASSUME ProcAssumption == MaxProc \in Nat /\ NCPU <= MaxProc

(* "early io": it may do IO before mpe_init.  "late init": it may call     *)
(* mpe_init before ioe_init.  "returns": its entry() may return.           *)
Habit == {"early io", "late init", "returns"}
ASSUME AppsAssumption == Apps \subseteq SUBSET Habit

Proc == 0 .. MaxProc - 1
Main == 0

VARIABLES
    app,            \* the habits of the application that runs
    pc,             \* where each process is
    cpuid,          \* thiscpu->cpuid of each process
    i,              \* loop variable of mpe_init in each process
    fds,            \* does the process still have sync_pipe open?
    pipe,           \* bytes in sync_pipe
    mpe,            \* __am_mpe_init
    has_ioe, ioe_init_done,
    inits           \* how many times __am_ioe_init was entered

vars == <<app, pc, cpuid, i, fds, pipe, mpe, has_ioe, ioe_init_done, inits>>
ioe == <<has_ioe, ioe_init_done, inits>>

(* "none": not created.  "app": CPU 0 before mpe_init.  "io": in do_io.    *)
(* "init", "lazy": inside __am_ioe_init, called by mpe_init or by do_io.   *)
(* "dead": stopped by an assertion or by kill(0, SIGKILL).                 *)
Init ==
    /\ app \in Apps
    /\ pc = [p \in Proc |-> IF p = Main THEN "app" ELSE "none"]
    /\ cpuid = [p \in Proc |-> 0]
    /\ i = [p \in Proc |-> 0]
    /\ fds = [p \in Proc |-> FALSE]
    /\ pipe = 0
    /\ mpe = FALSE
    /\ has_ioe = FALSE /\ ioe_init_done = FALSE /\ inits = 0

Goto(p, l) == pc' = [pc EXCEPT ![p] = l]

(* kill(0, SIGKILL) if there can be other processes, else exit(). *)
ExitPlatform(p) ==
    pc' = [q \in Proc |-> IF q = p \/ (mpe /\ NCPU > 1 /\ pc[q] # "none")
                          THEN "dead" ELSE pc[q]]

-----------------------------------------------------------------------------
(* The application's use of the devices; it calls ioe_init before it does  *)
(* any IO.                                                                 *)

(* ioe_init(): panics on any CPU but 0, and when the devices are ready. *)
IoeInit(p) ==
    /\ pc[p] \in {"app", "entry"}
    /\ IF cpuid[p] # 0 \/ ioe_init_done
       THEN ExitPlatform(p) /\ UNCHANGED has_ioe
       ELSE has_ioe' = TRUE /\ UNCHANGED pc
    /\ UNCHANGED <<app, cpuid, i, fds, pipe, mpe, ioe_init_done, inits>>

(* do_io: the test of ioe_init_done. *)
IoPlaces == {"entry"} \cup (IF "early io" \in app THEN {"app"} ELSE {})
DoIoAlways(p) ==       \* mutant: do_io does not test ioe_init_done
    /\ has_ioe
    /\ pc[p] \in IoPlaces
    /\ inits < 2
    /\ Goto(p, "lazy") /\ inits' = inits + 1
    /\ UNCHANGED <<app, cpuid, i, fds, pipe, mpe, has_ioe, ioe_init_done>>
DoIo(p) ==
    /\ has_ioe
    /\ pc[p] \in IoPlaces
    /\ IF ioe_init_done THEN UNCHANGED <<app, pc, inits>>
                        ELSE Goto(p, "lazy") /\ inits' = inits + 1
    /\ UNCHANGED <<app, cpuid, i, fds, pipe, mpe, has_ioe, ioe_init_done>>

(* The end of the __am_ioe_init that do_io called; mpe tells the caller. *)
LazyDone(p) ==
    /\ pc[p] = "lazy"
    /\ ioe_init_done' = TRUE
    /\ Goto(p, IF mpe THEN "entry" ELSE "app")
    /\ UNCHANGED <<app, cpuid, i, fds, pipe, mpe, has_ioe, inits>>

(* halt(): from the application or entry(), on any CPU. *)
Halt(p) ==
    /\ pc[p] \in {"app", "entry"}
    /\ ExitPlatform(p)
    /\ UNCHANGED <<app, cpuid, i, fds, pipe, mpe, ioe>>

-----------------------------------------------------------------------------
(* mpe_init: __am_mpe_init = 1 and pipe(). *)
MpeInit(p) ==
    /\ pc[p] = "app" /\ ("late init" \in app \/ has_ioe)
    /\ mpe' = TRUE
    /\ fds' = [fds EXCEPT ![p] = TRUE]
    /\ i' = [i EXCEPT ![p] = 1]
    /\ Goto(p, "fork")
    /\ UNCHANGED <<app, cpuid, pipe, ioe>>

(* fork(): the child q inherits all but its place in the code. *)
Fork(p) ==
    /\ pc[p] = "fork" /\ i[p] < NCPU
    /\ \E q \in Proc :
         /\ pc[q] = "none" /\ \A r \in Proc : r < q => pc[r] # "none"
         /\ pc' = [pc EXCEPT ![q] = "read"]
         /\ cpuid' = [cpuid EXCEPT ![q] = cpuid[p]]
         /\ i' = [i EXCEPT ![q] = i[p], ![p] = i[p] + 1]
         /\ fds' = [fds EXCEPT ![q] = fds[p]]
    /\ UNCHANGED <<app, pipe, mpe, ioe>>

(* if (__am_has_ioe) __am_ioe_init(). *)
ForksDone(p) ==
    /\ pc[p] = "fork" /\ i[p] = NCPU
    /\ inits' = inits + (IF has_ioe THEN 1 ELSE 0)
    /\ Goto(p, IF has_ioe THEN "init" ELSE "write")
    /\ i' = [i EXCEPT ![p] = 1]
    /\ UNCHANGED <<app, cpuid, fds, pipe, mpe, has_ioe, ioe_init_done>>

InitDone(p) ==
    /\ pc[p] = "init"
    /\ ioe_init_done' = TRUE
    /\ Goto(p, "write")
    /\ UNCHANGED <<app, cpuid, i, fds, pipe, mpe, has_ioe, inits>>

(* assert(write(sync_pipe[1], "+", 1) == 1). *)
Write(p) ==
    /\ pc[p] = "write" /\ i[p] < NCPU
    /\ IF fds[p] THEN pipe' = pipe + 1 /\ UNCHANGED pc
                 ELSE Goto(p, "dead") /\ UNCHANGED pipe
    /\ i' = [i EXCEPT ![p] = @ + 1]
    /\ UNCHANGED <<app, cpuid, fds, mpe, ioe>>

(* close(), entry(). *)
WritesDoneEarly(p) ==  \* mutant: the last byte is not written
    /\ pc[p] = "write" /\ i[p] + 1 >= NCPU
    /\ fds' = [fds EXCEPT ![p] = FALSE]
    /\ Goto(p, "entry")
    /\ UNCHANGED <<app, cpuid, i, pipe, mpe, ioe>>
WritesDone(p) ==
    /\ pc[p] = "write" /\ i[p] = NCPU
    /\ fds' = [fds EXCEPT ![p] = FALSE]
    /\ Goto(p, "entry")
    /\ UNCHANGED <<app, cpuid, i, pipe, mpe, ioe>>

(* The child's read(): it blocks while the pipe is empty, and fails when   *)
(* the parent had closed the pipe before it forked.                        *)
Read(p) ==
    /\ pc[p] = "read"
    /\ IF fds[p] THEN pipe > 0 /\ pipe' = pipe - 1 /\ Goto(p, "start")
                 ELSE Goto(p, "dead") /\ UNCHANGED pipe
    /\ UNCHANGED <<app, cpuid, i, fds, mpe, ioe>>

(* The child closes the pipe, sets its cpuid and calls entry(). *)
StartAtEof(p) ==       \* mutant: the child reads until the end of the pipe
    /\ pc[p] = "start" /\ \A q \in Proc : ~fds[q]
    /\ fds' = [fds EXCEPT ![p] = FALSE]
    /\ cpuid' = [cpuid EXCEPT ![p] = i[p]]
    /\ Goto(p, "entry")
    /\ UNCHANGED <<app, i, pipe, mpe, ioe>>
StartNoId(p) ==        \* mutant: thiscpu->cpuid is not set
    /\ pc[p] = "start"
    /\ fds' = [fds EXCEPT ![p] = FALSE]
    /\ Goto(p, "entry")
    /\ UNCHANGED <<app, cpuid, i, pipe, mpe, ioe>>
Start(p) ==
    /\ pc[p] = "start"
    /\ fds' = [fds EXCEPT ![p] = FALSE]
    /\ cpuid' = [cpuid EXCEPT ![p] = i[p]]
    /\ Goto(p, "entry")
    /\ UNCHANGED <<app, i, pipe, mpe, ioe>>

(* entry() returns: CPU 0 panics, a child goes on with the loop in which   *)
(* it was forked.                                                          *)
EntryReturn(p) ==
    /\ "returns" \in app /\ pc[p] = "entry"
    /\ IF p = Main
       THEN ExitPlatform(p) /\ UNCHANGED i
       ELSE Goto(p, "fork") /\ i' = [i EXCEPT ![p] = @ + 1]
    /\ UNCHANGED <<app, cpuid, fds, pipe, mpe, ioe>>

-----------------------------------------------------------------------------
Start0(p) == MpeInit(p) \/ Fork(p) \/ ForksDone(p) \/ InitDone(p)
               \/ Write(p) \/ WritesDone(p) \/ Read(p) \/ Start(p)
Step(p) == Start0(p) \/ LazyDone(p)
App(p) == IoeInit(p) \/ DoIo(p) \/ Halt(p) \/ EntryReturn(p)
Next == \E p \in Proc : Step(p) \/ App(p)

(* Linux runs every process that can run. *)
Fairness == \A p \in Proc : WF_vars(Step(p))
Spec == Init /\ [][Next]_vars
FairSpec == Spec /\ Fairness

-----------------------------------------------------------------------------
Running(p) == pc[p] \in {"entry", "lazy"}

(* Every variable has its type. *)
TypeOK ==
    /\ pc \in [Proc -> {"none", "app", "lazy", "fork", "init", "write",
                        "read", "start", "entry", "dead"}]
    /\ cpuid \in [Proc -> 0 .. NCPU - 1]
    /\ i \in [Proc -> 0 .. NCPU]
    /\ fds \in [Proc -> BOOLEAN]
    /\ pipe \in 0 .. NCPU - 1
    /\ mpe \in BOOLEAN /\ has_ioe \in BOOLEAN /\ ioe_init_done \in BOOLEAN
    /\ app \in Apps /\ inits \in Nat

(* cpu_current() names a CPU: no two processes that run entry() have the   *)
(* same number, and every number is one of a CPU (TypeOK).                 *)
DistinctCpus ==
    TypeOK /\ \A p, q \in Proc : Running(p) /\ Running(q) /\ p # q => cpuid[p] # cpuid[q]

(* No CPU runs entry() before mpe_init has initialised the devices of an   *)
(* application that called ioe_init first.                                 *)
DevicesFirst ==
    \A p \in Proc : Running(p) /\ mpe /\ "late init" \notin app => ioe_init_done

(* The devices are initialised once: a second __am_ioe_init opens a second *)
(* window and a second audio pipe and starts a second event thread.        *)
IoeOnce == inits <= 1

(* An application without any of the habits never causes that, and whoever *)
(* asks for the devices first finds them ready.                            *)
IoeOnceIfTidy == DevicesFirst /\ (app = {} => IoeOnce)

(* There is a byte, written or still to be written, for every child that   *)
(* waits for one: none starts twice and none is left waiting.              *)
PipeBalance ==
    "returns" \notin app /\ pc[Main] \in {"write", "entry"} =>
        pipe + (IF pc[Main] = "write" THEN NCPU - i[Main] ELSE 0)
            = Cardinality({p \in Proc : pc[p] = "read"})

(* Once the application called mpe_init every CPU gets to entry(), unless  *)
(* one halts first.                                                        *)
AllEnter ==
    pc[Main] = "fork" ~> \/ \A c \in 0 .. NCPU - 1 :
                              \E p \in Proc : Running(p) /\ cpuid[p] = c
                         \/ \E p \in Proc : pc[p] = "dead"
=============================================================================
