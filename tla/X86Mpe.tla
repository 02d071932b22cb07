-------------------------------- MODULE X86Mpe --------------------------------
(***************************************************************************)
(* Starting and stopping the processors of x86-qemu: mpe_init, the boot    *)
(* path of an application processor and __am_stop_the_world, which halt    *)
(* uses to silence the others before it powers the machine off.            *)
(* am/src/x86/qemu: mpe.c, trm.c, ioe.c (local APIC), boot/.               *)
(*                                                                         *)
(* All processors boot through one boot record at 0x7000 and one stack at  *)
(* 0xa000.  An INIT interrupt from any CPU throws its target out of        *)
(* whatever it does; the STARTUP that follows makes it run jmp_code.  The  *)
(* sender writes them to its local APIC and goes on: nothing waits until   *)
(* they are delivered, so two CPUs may have INITs on the way to each other.*)
(***************************************************************************)
EXTENDS Naturals, FiniteSets

CONSTANTS
    NCPU,       \* __am_ncpu
    MaxHalt     \* how many CPUs may call halt()

ASSUME NCPUAssumption == NCPU \in Nat \ {0}
ASSUME MaxHaltAssumption == MaxHalt \in Nat

CPU == 0 .. NCPU - 1
BSP == 0

VARIABLES
    pc,         \* where each CPU is
    user_entry, \* has mpe_init stored it
    jmp_code,   \* boot_record()->jmp_code: "loader" or "self"
    is_ap,      \* boot_record()->is_ap
    ap_ready,
    next,       \* loop variable of mpe_init (BSP) or __am_stop_the_world
    ipi,        \* how far each CPU is in __am_lapic_bootap
    init,       \* who has an INIT on the way
    startup,    \* who has a STARTUP on the way
    halted,     \* who has called halt()
    power,
    gdt_data,   \* whose GDT the static operand of lgdt in set_gdt points to
    gdtr        \* whose GDT each CPU has loaded

gdts == <<gdt_data, gdtr>>
ipis == <<ipi, init, startup>>
vars == <<pc, user_entry, jmp_code, is_ap, ap_ready, next, ipis, halted, power, gdts>>

(* "off": waiting for STARTUP.  "sipi": about to run jmp_code.             *)
(* "loader", "start_c": load_kernel and _start_c, on the stack at 0xa000.  *)
(* "percpu", "lgdt", "ready": __am_percpu_init, on the CPU's own stack.    *)
(* "self": executing the jump to itself.                                   *)
Init ==
    /\ pc = [c \in CPU |-> IF c = BSP THEN "main" ELSE "off"]
    /\ user_entry = FALSE
    /\ jmp_code = "loader"
    /\ is_ap = FALSE
    /\ ap_ready = 0
    /\ next = [c \in CPU |-> 0]
    /\ ipi = [c \in CPU |-> 0] /\ init = {} /\ startup = {}
    /\ halted = {}
    /\ power = TRUE
    /\ gdt_data = BSP /\ gdtr = [c \in CPU |-> BSP]

-----------------------------------------------------------------------------
(* __am_lapic_bootap(n) on CPU c, one interrupt at a time: INIT, whose      *)
(* de-assertion has no effect, and STARTUP twice.                          *)
BootAp(c, n) ==
    /\ ipi' = [ipi EXCEPT ![c] = (@ + 1) % 3]
    /\ init' = IF ipi[c] = 0 THEN init \cup {n} ELSE init
    /\ startup' = IF ipi[c] = 0 THEN startup ELSE startup \cup {n}
BootApDone(c) == ipi[c] = 2

(* The local APIC of c takes an INIT that has arrived.  The boot processor *)
(* does not wait for STARTUP: the BIOS finds shutdown code 0xA and jumps   *)
(* to the boot record, whose address bootap stored at 40:67.               *)
TakeInit(c) ==
    /\ c \in init
    /\ init' = init \ {c}
    /\ pc' = [pc EXCEPT ![c] = IF c = BSP THEN "sipi" ELSE "off"]
    /\ UNCHANGED <<user_entry, jmp_code, is_ap, ap_ready, next, ipi, startup, halted, power, gdts>>

(* It takes an INIT before a STARTUP, and a STARTUP means nothing to a CPU *)
(* that does not wait for one.                                             *)
TakeStartup(c) ==
    /\ c \in startup \ init
    /\ startup' = startup \ {c}
    /\ pc' = [pc EXCEPT ![c] = IF @ = "off" THEN "sipi" ELSE @]
    /\ UNCHANGED <<user_entry, jmp_code, is_ap, ap_ready, next, ipi, init, halted, power, gdts>>

(* mpe_init: the boot record is prepared and the loop begins. *)
MpeInitFromZero ==     \* mutant: the loop starts at CPU 0
    /\ pc[BSP] = "main" /\ ~user_entry
    /\ user_entry' = TRUE
    /\ jmp_code' = "loader"
    /\ next' = [next EXCEPT ![BSP] = 0]
    /\ pc' = [pc EXCEPT ![BSP] = "start_ap"]
    /\ UNCHANGED <<is_ap, ap_ready, ipis, halted, power, gdts>>
MpeInit ==
    /\ pc[BSP] = "main" /\ ~user_entry
    /\ user_entry' = TRUE
    /\ jmp_code' = "loader"
    /\ next' = [next EXCEPT ![BSP] = 1]
    /\ pc' = [pc EXCEPT ![BSP] = "start_ap"]
    /\ UNCHANGED <<is_ap, ap_ready, ipis, halted, power, gdts>>

(* mpe_init, loop body: is_ap = 1 and the IPIs. *)
StartAp ==
    /\ pc[BSP] = "start_ap" /\ next[BSP] < NCPU
    /\ is_ap' = TRUE
    /\ BootAp(BSP, next[BSP])
    /\ pc' = [pc EXCEPT ![BSP] = IF BootApDone(BSP) THEN "spin" ELSE @]
    /\ UNCHANGED <<user_entry, jmp_code, ap_ready, next, halted, power, gdts>>

(* mpe_init: while (xchg(&ap_ready, 0) != 1) pause(). *)
SpinNoWait ==          \* mutant: the value read is not compared with 1
    /\ pc[BSP] = "spin"
    /\ ap_ready' = 0
    /\ next' = [next EXCEPT ![BSP] = @ + 1]
    /\ pc' = [pc EXCEPT ![BSP] = "start_ap"]
    /\ UNCHANGED <<user_entry, jmp_code, is_ap, ipis, halted, power, gdts>>
SpinNoReset ==         \* mutant: ap_ready is read, not exchanged
    /\ pc[BSP] = "spin" /\ ap_ready = 1
    /\ next' = [next EXCEPT ![BSP] = @ + 1]
    /\ pc' = [pc EXCEPT ![BSP] = "start_ap"]
    /\ UNCHANGED <<user_entry, jmp_code, is_ap, ap_ready, ipis, halted, power, gdts>>
Spin ==
    /\ pc[BSP] = "spin" /\ ap_ready = 1
    /\ ap_ready' = 0
    /\ next' = [next EXCEPT ![BSP] = @ + 1]
    /\ pc' = [pc EXCEPT ![BSP] = "start_ap"]
    /\ UNCHANGED <<user_entry, jmp_code, is_ap, ipis, halted, power, gdts>>

CallUserEntry ==
    /\ pc[BSP] = "start_ap" /\ next[BSP] = NCPU
    /\ pc' = [pc EXCEPT ![BSP] = "entry"]
    /\ UNCHANGED <<user_entry, jmp_code, is_ap, ap_ready, next, ipis, halted, power, gdts>>

(* The jump at the boot record's address. *)
RunJmpCode(c) ==
    /\ pc[c] = "sipi"
    /\ pc' = [pc EXCEPT ![c] = jmp_code]
    /\ UNCHANGED <<user_entry, jmp_code, is_ap, ap_ready, next, ipis, halted, power, gdts>>

(* load_kernel loads nothing on an application processor and calls the     *)
(* ELF entry; a processor that is not one would load the kernel again.     *)
LoadKernel(c) ==
    /\ pc[c] = "loader"
    /\ pc' = [pc EXCEPT ![c] = IF is_ap THEN "start_c" ELSE "reload"]
    /\ UNCHANGED <<user_entry, jmp_code, is_ap, ap_ready, next, ipis, halted, power, gdts>>

(* _start_c: __am_othercpu_entry switches to the CPU's own stack. *)
StartC(c) ==
    /\ pc[c] = "start_c"
    /\ pc' = [pc EXCEPT ![c] = IF is_ap THEN "percpu" ELSE "reload"]
    /\ UNCHANGED <<user_entry, jmp_code, is_ap, ap_ready, next, ipis, halted, power, gdts>>

(* __am_percpu_initgdt: set_gdt fills in an operand that all CPUs share,   *)
(* then loads it.                                                          *)
SetGdt(c) ==
    /\ pc[c] = "percpu"
    /\ gdt_data' = c
    /\ pc' = [pc EXCEPT ![c] = "lgdt"]
    /\ UNCHANGED <<user_entry, jmp_code, is_ap, ap_ready, next, ipis, halted, power, gdtr>>
Lgdt(c) ==
    /\ pc[c] = "lgdt"
    /\ gdtr' = [gdtr EXCEPT ![c] = gdt_data]
    /\ pc' = [pc EXCEPT ![c] = "ready"]
    /\ UNCHANGED <<user_entry, jmp_code, is_ap, ap_ready, next, ipis, halted, power, gdt_data>>

(* othercpu_entry: xchg(&ap_ready, 1), call_user_entry. *)
OtherCpuSilent(c) ==   \* mutant: ap_ready is not set
    /\ pc[c] = "ready"
    /\ pc' = [pc EXCEPT ![c] = "call"]
    /\ UNCHANGED <<user_entry, jmp_code, is_ap, ap_ready, next, ipis, halted, power, gdts>>
OtherCpuReady(c) ==
    /\ pc[c] = "ready"
    /\ ap_ready' = 1
    /\ pc' = [pc EXCEPT ![c] = "call"]
    /\ UNCHANGED <<user_entry, jmp_code, is_ap, next, ipis, halted, power, gdts>>

(* call_user_entry: a jump through user_entry, wherever that points. *)
OtherCpuEntry(c) ==
    /\ pc[c] = "call"
    /\ pc' = [pc EXCEPT ![c] = IF user_entry THEN "entry" ELSE "wild"]
    /\ UNCHANGED <<user_entry, jmp_code, is_ap, ap_ready, next, ipis, halted, power, gdts>>

-----------------------------------------------------------------------------
(* halt(): cli(), then __am_stop_the_world rewrites the boot record. *)
Halt(c) ==
    /\ pc[c] \in {"main", "entry"} /\ Cardinality(halted) < MaxHalt
    /\ halted' = halted \cup {c}
    /\ jmp_code' = "self"
    /\ next' = [next EXCEPT ![c] = 0]
    /\ pc' = [pc EXCEPT ![c] = "stop"]
    /\ UNCHANGED <<user_entry, is_ap, ap_ready, ipis, power, gdts>>

(* __am_stop_the_world, loop body. *)
StopOneAll(c) ==       \* mutant: the test cpu_ != cpu_current() is missing
    /\ pc[c] = "stop" /\ next[c] < NCPU
    /\ BootAp(c, next[c])
    /\ next' = [next EXCEPT ![c] = IF BootApDone(c) THEN @ + 1 ELSE @]
    /\ UNCHANGED <<pc, user_entry, jmp_code, is_ap, ap_ready, halted, power, gdts>>
StopOneSkipsBSP(c) ==  \* mutant: the loop starts at 1, as in mpe_init
    /\ pc[c] = "stop" /\ next[c] < NCPU
    /\ IF next[c] \in {c, BSP} THEN UNCHANGED ipis ELSE BootAp(c, next[c])
    /\ next' = [next EXCEPT ![c] = IF next[c] \in {c, BSP} \/ BootApDone(c) THEN @ + 1 ELSE @]
    /\ UNCHANGED <<pc, user_entry, jmp_code, is_ap, ap_ready, halted, power, gdts>>
StopOne(c) ==
    /\ pc[c] = "stop" /\ next[c] < NCPU
    /\ IF next[c] = c THEN UNCHANGED ipis ELSE BootAp(c, next[c])
    /\ next' = [next EXCEPT ![c] = IF next[c] = c \/ BootApDone(c) THEN @ + 1 ELSE @]
    /\ UNCHANGED <<pc, user_entry, jmp_code, is_ap, ap_ready, halted, power, gdts>>

(* The last lines of halt(): the message is printed. *)
PrintHalt(c) ==
    /\ pc[c] = "stop" /\ next[c] = NCPU
    /\ pc' = [pc EXCEPT ![c] = "print"]
    /\ UNCHANGED <<user_entry, jmp_code, is_ap, ap_ready, next, ipis, halted, power, gdts>>

(* outw(0x604, 0x2000) powers the machine off. *)
PowerOff(c) ==
    /\ pc[c] = "print"
    /\ power' = FALSE
    /\ UNCHANGED <<pc, user_entry, jmp_code, is_ap, ap_ready, next, ipis, halted, gdts>>

-----------------------------------------------------------------------------
MpeStep == MpeInit \/ StartAp \/ Spin \/ CallUserEntry
BootStep(c) == RunJmpCode(c) \/ LoadKernel(c) \/ StartC(c)
                 \/ SetGdt(c) \/ Lgdt(c) \/ OtherCpuReady(c) \/ OtherCpuEntry(c)
HaltStep(c) == StopOne(c) \/ PrintHalt(c) \/ PowerOff(c)
TakeIpi(c) == TakeInit(c) \/ TakeStartup(c)

Next ==
    /\ power
    /\ \/ MpeStep
       \/ \E c \in CPU : BootStep(c) \/ Halt(c) \/ HaltStep(c) \/ TakeIpi(c)

(* Every processor that is powered runs and interrupts arrive, in the end; *)
(* nobody is obliged to call halt().                                       *)
Fairness ==
    /\ WF_vars(power /\ MpeStep)
    /\ \A c \in CPU : /\ WF_vars(power /\ (BootStep(c) \/ HaltStep(c)))
                      /\ WF_vars(power /\ TakeIpi(c))

Spec == Init /\ [][Next]_vars
FairSpec == Spec /\ Fairness

-----------------------------------------------------------------------------
(* Every variable has its type. *)
TypeOK ==
    /\ pc \in [CPU -> {"main", "off", "start_ap", "spin", "sipi", "loader",
                       "start_c", "percpu", "lgdt", "ready", "call", "entry", "self", "reload",
                       "wild", "stop", "print"}]
    /\ user_entry \in BOOLEAN /\ is_ap \in BOOLEAN /\ power \in BOOLEAN
    /\ jmp_code \in {"loader", "self"}
    /\ ap_ready \in {0, 1}
    /\ next \in [CPU -> 0 .. NCPU]
    /\ ipi \in [CPU -> 0 .. 2] /\ init \in SUBSET CPU /\ startup \in SUBSET CPU
    /\ halted \in SUBSET CPU
    /\ gdt_data \in CPU /\ gdtr \in [CPU -> CPU]

OnBootStack(c) == pc[c] \in {"loader", "start_c"}

(* Two processors are never on the boot stack at 0xa000 at once, although  *)
(* the boot processor goes on starting others while earlier ones run.      *)
BootStackExclusive ==
    \A c, d \in CPU : OnBootStack(c) /\ OnBootStack(d) => c = d

(* The boot record never sends an application processor down the path of   *)
(* the boot processor, which would load the kernel over the running one,   *)
(* and no processor calls user_entry before mpe_init stored it.            *)
NeverAstray == \A c \in CPU : pc[c] \notin {"reload", "wild"}

(* mpe_init returns to no one: the boot processor runs user_entry only     *)
(* after every other one has initialised itself, or after a halt began;    *)
(* nobody strays; and each CPU has loaded its own GDT, with its own TSS,   *)
(* although they all load it through the same words.                       *)
EntryAfterAll ==
    TypeOK /\ NeverAstray
    /\ (\A c \in CPU : pc[c] \in {"ready", "call", "entry"} => gdtr[c] = c)
    /\ (pc[BSP] = "entry" /\ halted = {} =>
        \A c \in CPU \ {BSP} : pc[c] \in {"call", "entry"})

(* Nothing is left for d to run but the jump to itself.                    *)
Silent(d) == jmp_code = "self" /\ pc[d] \in {"off", "sipi", "self"}

(* When a CPU prints the halt message every other one is out of the kernel *)
(* for good or has the INIT that takes it out on the way.  No more than    *)
(* that: the second kind still runs while the message is printed.          *)
WorldStopped ==
    \A c, d \in CPU : pc[c] = "print" /\ c # d => Silent(d) \/ (d \in init /\ jmp_code = "self")

(* Every processor gets to user_entry, unless one of them halts. *)
AllEnter == <>(halted # {} \/ \A c \in CPU : pc[c] = "entry")

(* A machine on which halt() was called is powered off, with one           *)
(* exception, which __am_stop_the_world leaves open: several CPUs that     *)
(* halt at once may stop each other, all of them, before any gets as far.  *)
HaltPowersOff ==
    halted # {} ~> \/ ~power
                   \/ Cardinality(halted) > 1 /\ \A c \in halted : Silent(c)
=============================================================================
