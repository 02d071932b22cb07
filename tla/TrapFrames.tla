------------------------------ MODULE TrapFrames ------------------------------
(***************************************************************************)
(* The frame a trap leaves on a stack, on the bare-metal ports: what the   *)
(* assembly of trap.S pushes, what the C code of cte.c and vme.c reads and *)
(* writes in it through struct Context, and what the assembly restores.    *)
(* Memory and registers hold words; addresses and offsets count words.     *)
(* Trap code is a sequence of instructions, run by Exec.                   *)
(*                                                                         *)
(* The kernel keeps the Context its handler gets and returns any Context it *)
(* has.  On RISC-V it steps over the ecall, as the ports leave that to it.  *)
(***************************************************************************)
EXTENDS Integers, Sequences, FiniteSets, TLC
LOCAL INSTANCE SequencesExt

CONSTANTS Ports,      \* the ports to look at
          KSize,      \* words of a stack
          P           \* how many places a program has

ASSUME FramesAssumption ==
  /\ Ports \subseteq {"riscv32-nemu", "riscv32e-nemu", "riscv32e-npc", "riscv32e-ysyxsoc",
                      "mips32-nemu", "loongarch32r-nemu", "x86-nemu", "x86-qemu", "x86_64-qemu"}
  /\ KSize \in Nat /\ P \in Nat /\ P >= 3

VARIABLES port,
          other,     \* the thread there is besides main
          s,         \* [r, m]: the registers and the memory
          phase,     \* "thread", or "handler" when user_handler was called
          cur,       \* whose code runs or was interrupted
          ctx,       \* the Context the kernel has for a thread, or None
          why,       \* what each thread was interrupted by, the latest last
          ev,        \* the event the latest handler was called with
          own,       \* what each thread last did to its registers and stack
          fresh,     \* threads that have not yet computed anything
          isr        \* an interrupt waits for its end-of-interrupt

vars == <<port, other, s, phase, cur, ctx, why, ev, own, fresh, isr>>

None == -1
Junk == -2

Riscv == {"riscv32-nemu", "riscv32e-nemu", "riscv32e-npc", "riscv32e-ysyxsoc"}
Qemu == {"x86-qemu", "x86_64-qemu"}

\* mips, loongarch and x86-nemu have neither kcontext nor a switch
Threads == {"main", other}
Others(p) == CASE p \in Riscv -> {"k"} [] p \in Qemu -> {"k", "u"} [] OTHER -> {"main"}

Id(t) == CASE t = "main" -> 1 [] t = "k" -> 2 [] t = "u" -> 3
KEnd(t) == Id(t) * KSize             \* kstack.end
UEnd == 4 * KSize                    \* uvm_area.end
Top(t) == IF t = "u" THEN UEnd ELSE KEnd(t)

Code(t, p) == 1000 * Id(t) + p       \* the instruction at place p of t's program
Stub(vec) == 500 + vec               \* __am_irq<vec>
KStart == 900                        \* __am_kcontext_start
Panic == 901                         \* __am_panic_on_return
TheArg == 4711

-----------------------------------------------------------------------------
(* Instructions.  The stack pointer of every port is sp, its pc is pc.  *)

Ins(op, r, b, k) == << [op |-> op, r |-> r, b |-> b, k |-> k] >>
st(r, k, b)   == Ins("st", r, b, k)
ld(r, k, b)   == Ins("ld", r, b, k)
addi(r, b, k) == Ins("addi", r, b, k)
mv(r, b)      == addi(r, b, 0)
li(r, k)      == Ins("li", r, r, k)
pushi(k)      == Ins("pushi", "sp", "sp", k)
push(r)       == Ins("push", r, "sp", 0)
pop(r)        == Ins("pop", r, "sp", 0)

Step(z, i) ==
  CASE i.op = "ld"   -> [z EXCEPT !.r[i.r] = z.m[z.r[i.b] + i.k]]
    [] i.op = "st"   -> [z EXCEPT !.m[z.r[i.b] + i.k] = z.r[i.r]]
    [] i.op = "push" -> [z EXCEPT !.r.sp = @ - 1, !.m[z.r.sp - 1] = z.r[i.r]]
    [] i.op = "pushi" -> [z EXCEPT !.r.sp = @ - 1, !.m[z.r.sp - 1] = i.k]
    [] i.op = "pop"  -> [z EXCEPT !.r.sp = @ + 1, !.r[i.r] = z.m[z.r.sp]]
    [] i.op = "addi" -> [z EXCEPT !.r[i.r] = z.r[i.b] + i.k]
    [] i.op = "li"   -> [z EXCEPT !.r[i.r] = i.k]

\* F(z), with z evaluated once
Of(F(_), z) == CHOOSE y \in {F(x) : x \in {z}} : TRUE

Exec(z, code) ==
  LET run[n \in 0..Len(code)] ==
        IF n = 0 THEN z ELSE Of(LAMBDA x : Step(x, code[n]), run[n - 1])
  IN run[Len(code)]

\* an instruction for each element of a sequence
Map(regs, F(_)) == [n \in 1..Len(regs) |-> F(regs[n])[1]]

Nums(first, last) == [i \in 1..last-first+1 |-> first + i - 1]
Except(regs, S) == SelectSeq(regs, LAMBDA n : n \notin S)
X(n) == "x" \o ToString(n)
Names(regs) == {X(regs[i]) : i \in DOMAIN regs}

\* places of a struct: the word of field f
Off(struct, f) == (CHOOSE i \in DOMAIN struct : struct[i] = f) - 1
At(z, c, struct, f) == z.m[c + Off(struct, f)]

-----------------------------------------------------------------------------
(* RISC-V: nemu, npc and ysyxsoc, with or without the E extension.  *)

NR_REGS(p) == IF p = "riscv32-nemu" THEN 32 ELSE 16

RiscvContext(nr) ==
  [i \in 1..nr |-> X(i - 1)] \o <<"mcause", "mstatus", "mepc", "pdir">>

RiscvRegs(nr) == Except(Nums(1, nr - 1), {2})     \* sp is not saved

MPRV == 1000000

RiscvTrap(nr, size, mprv) ==
  addi("sp", "sp", -size) \o Map(RiscvRegs(nr), LAMBDA n : st(X(n), n, "sp"))
    \o mv("x5", "mcause") \o mv("x6", "mstatus") \o mv("x7", "mepc")
    \o st("x5", nr, "sp") \o st("x6", nr + 1, "sp") \o st("x7", nr + 2, "sp")
    \o (IF mprv THEN addi("x6", "x6", MPRV) \o mv("mstatus", "x6") ELSE <<>>)
    \o mv("x10", "sp")

RiscvRet(nr, size) ==
  mv("sp", "x10") \o ld("x6", nr + 1, "sp") \o ld("x7", nr + 2, "sp")
    \o mv("mstatus", "x6") \o mv("mepc", "x7")
    \o Map(RiscvRegs(nr), LAMBDA n : ld(X(n), n, "sp")) \o addi("sp", "sp", size)

\* nemu's CONTEXT_SIZE has no word for pdir
nemu_trap(p) == RiscvTrap(NR_REGS(p), NR_REGS(p) + 3, TRUE)
nemu_ret(p) == RiscvRet(NR_REGS(p), NR_REGS(p) + 3)
npc_trap == RiscvTrap(16, 20, FALSE)
npc_ret == RiscvRet(16, 20)
ysyxsoc_trap == RiscvTrap(16, 20, FALSE)
ysyxsoc_ret == RiscvRet(16, 20)

\* kcontext lays out n registers, whatever struct Context says
RiscvKcontext(m, t, n) ==
  LET c == KEnd(t) - (n + 4)
      word == [i \in 0..n-1 |-> IF i = 10 THEN TheArg ELSE 0]
                @@ (n :> 11) @@ (n + 1 :> 6144) @@ (n + 2 :> Code(t, 0)) @@ (n + 3 :> 0)
  IN [c |-> c,
      m |-> [a \in DOMAIN m |-> CASE a - c \in DOMAIN word -> word[a - c]
                                  [] a = KEnd(t) - KSize -> c
                                  [] OTHER -> m[a]]]

nemu_kcontext(m, t) == RiscvKcontext(m, t, 32)

\* mutant: the csr words one word too high
npc_kcontextHigh(m, t) == RiscvKcontext(m, t, 17)

npc_kcontext(m, t) == RiscvKcontext(m, t, 16)
ysyxsoc_kcontext(m, t) == RiscvKcontext(m, t, 16)

\* the number of a system call, -1 for a yield
CallReg(p) == IF p = "riscv32-nemu" THEN 17 ELSE 15

nemu_event(z, c, nr, callreg) ==
  IF At(z, c, RiscvContext(nr), "mcause") # 11 THEN "ERROR"
  ELSE IF At(z, c, RiscvContext(nr), X(callreg)) = -1 THEN "YIELD" ELSE "SYSCALL"

npc_event(z, c) == IF At(z, c, RiscvContext(16), "mcause") = 11 THEN "YIELD" ELSE "ERROR"
ysyxsoc_event(z, c) == CASE At(z, c, RiscvContext(16), "mcause") = 11 -> "YIELD" [] OTHER -> "ERROR"

\* yield loads the number -1 and traps
nemu_call(p, number) == li(X(CallReg(p)), number)
npc_call(number) == li("x15", number)
ysyxsoc_call(number) == li("x15", number)

-----------------------------------------------------------------------------
(* mips, loongarch and x86-nemu return to the frame that was pushed.  *)

MipsRegs == Except(Nums(1, 31), {26, 27, 29})

mips_trap ==
  mv("x27", "sp") \o addi("sp", "sp", -37) \o Map(MipsRegs, LAMBDA n : st(X(n), n, "sp"))
    \o st("x27", 29, "sp")
    \o mv("x8", "lo") \o mv("x9", "hi") \o mv("x10", "cause") \o mv("x11", "status")
    \o mv("x12", "epc")
    \o st("x8", 32, "sp") \o st("x9", 33, "sp") \o st("x10", 34, "sp")
    \o st("x11", 35, "sp") \o st("x12", 36, "sp")
    \o li("status", 0) \o mv("x4", "sp")          \* exl and ie cleared

mips_ret ==
  ld("x8", 32, "sp") \o ld("x9", 33, "sp") \o ld("x11", 35, "sp") \o ld("x12", 36, "sp")
    \o li("x11", 2)                               \* exl set
    \o mv("lo", "x8") \o mv("hi", "x9") \o mv("status", "x11") \o mv("epc", "x12")
    \o Map(MipsRegs, LAMBDA n : ld(X(n), n, "sp")) \o addi("sp", "sp", 37)

LoongarchRegs == Except(Nums(1, 31), {3})

loongarch_trap ==
  addi("sp", "sp", -35) \o Map(LoongarchRegs, LAMBDA n : st(X(n), n, "sp"))
    \o mv("x12", "estat") \o mv("x13", "prmd") \o mv("x14", "era")
    \o st("x12", 32, "sp") \o st("x13", 33, "sp") \o st("x14", 34, "sp") \o mv("x4", "sp")

loongarch_ret ==
  ld("x13", 33, "sp") \o ld("x14", 34, "sp") \o mv("prmd", "x13") \o mv("era", "x14")
    \o Map(LoongarchRegs, LAMBDA n : ld(X(n), n, "sp")) \o addi("sp", "sp", 35)

pushal == Map(<<"eax", "ecx", "edx", "ebx", "sp", "ebp", "esi", "edi">>, push)
popal == Map(<<"edi", "esi", "ebp">>, pop) \o addi("sp", "sp", 1)
           \o Map(<<"ebx", "edx", "ecx", "eax">>, pop)

\* the frame starts with a word for cr3; the pushed pointer to it is dropped
x86_nemu_trap(irq) == pushi(irq) \o pushal \o pushi(0)
x86_nemu_ret == addi("sp", "sp", 1) \o popal \o addi("sp", "sp", 1)

\* the number that the stub of a vector pushes
x86_nemu_idt(vec) == IF vec \in {32, 128, 129} THEN vec ELSE -1

\* the number goes into a7; the other two trap without one
loongarch_call(number) == li("x11", number)

\* no cause is told from another
mips_event == "ERROR"
loongarch_event == "ERROR"
x86_nemu_event == "ERROR"

-----------------------------------------------------------------------------
(* x86-qemu.  struct Context, and struct trap_frame which begins with one.   *)

Context32 == <<"cr3", "ds", "eax", "ebx", "ecx", "edx", "esp0", "esi", "edi", "ebp",
               "pc", "cs", "eflags", "sp", "ss">>
Context64 == <<"cr3", "rax", "rbx", "rcx", "rdx", "rbp", "rsi", "rdi", "r8", "r9", "r10",
               "r11", "r12", "r13", "r14", "r15", "pc", "cs", "eflags", "sp", "ss", "esp0">>
Context(p) == IF p = "x86-qemu" THEN Context32 ELSE Context64
TrapFrame(p) == Context(p) \o <<"irq", "errcode", "tf.pc", "tf.cs", "tf.eflags", "tf.sp", "tf.ss">>

KCODE == 8
KDATA == 16
UCODE == 27
UDATA == 35
KPT == 7001       \* the kernel's page table
UPT == 7002       \* that of u

ERR == {8, 10, 11, 12, 13, 14}

\* the processor, for a trap gate: IF stays as it is
Hw(p, z, vec, err) ==
  LET user == z.r["cs"] = UCODE
      kept == [z EXCEPT !.r["old"] = z.r["sp"],
                        !.r["sp"] = IF user THEN z.r["esp0"] ELSE z.r["sp"]]
      aligned == IF p = "x86_64-qemu" THEN [kept EXCEPT !.r["sp"] = (@ \div 2) * 2] ELSE kept
      stack == IF user \/ p = "x86_64-qemu" THEN push("ss") \o push("old") ELSE <<>>
      code == stack \o push("eflags") \o push("cs") \o push("pc")
                \o (IF vec \in ERR THEN pushi(err) ELSE <<>>)
                \o li("cs", KCODE) \o li("pc", Stub(vec))
                \o (IF user THEN li("ss", IF p = "x86-qemu" THEN KDATA ELSE 0) ELSE <<>>)
  IN Exec(aligned, code)

IRQ_DEF(vec) == li("eflags", 0) \o (IF vec \in ERR THEN <<>> ELSE pushi(0)) \o pushi(vec)

trap32 ==
  addi("sp", "sp", -5) \o push("ebp") \o push("edi") \o push("esi") \o pushi(0)
    \o push("edx") \o push("ecx") \o push("ebx") \o push("eax")
    \o mv("eax", "ds") \o push("eax") \o pushi(0)
    \o li("ds", KDATA) \o li("ss", KDATA)

Gpr64Pushed == <<"r15", "r14", "r13", "r12", "r11", "r10", "r9", "r8",
                 "rdi", "rsi", "rbp", "rdx", "rcx", "rbx", "rax">>

trap64 == addi("sp", "sp", -6) \o Map(Gpr64Pushed, push) \o pushi(0) \o mv("rdi", "sp")

iret == pop("pc") \o pop("cs") \o pop("eflags")
iretUser == iret \o pop("old") \o pop("ss") \o mv("sp", "old")

user_iret ==
  Map(<<"eax", "ebx", "ecx", "edx">>, pop) \o addi("sp", "sp", 1)
    \o pop("esi") \o pop("edi") \o pop("ebp") \o iretUser

\* the words at these offsets from ebp, moved below edi
Move(offsets) ==
  FlattenSeq([n \in 1..6 |-> ld("esi", offsets[n], "ebp") \o st("esi", offsets[n] - 6, "edi")])

\* mutant: the six words are moved from the lowest on
kernel_iretUp ==
  Map(<<"eax", "ebx", "ecx", "edx">>, pop) \o addi("sp", "sp", 1)
    \o mv("ebp", "sp") \o ld("edi", 6, "ebp")
    \o Move(<<0, 1, 2, 3, 4, 5>>)
    \o addi("sp", "edi", -6)
    \o pop("esi") \o pop("edi") \o pop("ebp") \o iret

\* esi, edi, ebp and what iret pops are moved to below the new stack pointer
kernel_iret ==
  Map(<<"eax", "ebx", "ecx", "edx">>, pop) \o addi("sp", "sp", 1)
    \o mv("ebp", "sp") \o ld("edi", 6, "ebp")
    \o Move(<<5, 4, 3, 2, 1, 0>>)
    \o addi("sp", "edi", -6)
    \o pop("esi") \o pop("edi") \o pop("ebp") \o iret

__am_iret32(z, c) ==
  Of(LAMBDA t : Exec(t, IF t.m[t.r["sp"] + 9] = KCODE THEN kernel_iret ELSE user_iret),
     Exec(z, li("sp", c) \o addi("sp", "sp", 1) \o pop("eax") \o mv("ds", "eax")))

__am_iret64(z, c) ==
  Exec(z, li("sp", c) \o ld("rax", 20, "sp") \o mv("ds", "rax") \o addi("sp", "sp", 1)
            \o Map(Reverse(Gpr64Pushed), pop) \o iretUser)

\* mutant: as if the processor had saved ss and sp of kernel code too
KernelSpAll(p, c) == c + Len(TrapFrame(p))

\* the i386 saves no ss and sp of kernel code
KernelSp(p, c) == c + Len(TrapFrame(p)) - 2

\* what __am_irq_handle stores in the Context
SaveContext(p, z, c) ==
  LET F(f) == At(z, c, TrapFrame(p), f)
      user == F("tf.cs") = UCODE
      save == [f \in {"pc", "cs", "eflags", "esp0", "ss", "sp", "cr3"} |->
                 CASE f = "esp0" -> z.r["esp0"]
                   [] f = "cr3" -> z.r["cr3"]
                   [] f = "ss" /\ p = "x86-qemu" -> UDATA
                   [] f = "sp" /\ p = "x86-qemu" /\ ~user -> KernelSp(p, c)
                   [] OTHER -> F("tf." \o f)]
  IN [z EXCEPT !.m = [a \in DOMAIN @ |->
        LET k == a - c + 1
        IN IF k \in DOMAIN Context(p) /\ Context(p)[k] \in DOMAIN save
           THEN save[Context(p)[k]] ELSE @[a]]]

\* cr3 is never NULL in a Context that a trap saved
LoadSpace(p, z, c) ==
  IF At(z, c, Context(p), "cr3") = 0 THEN z
  ELSE [z EXCEPT !.r["cr3"] = At(z, c, Context(p), "cr3"),
                 !.r["esp0"] = At(z, c, Context(p), "esp0")]

\* or-ing MMAP_NONE, which is 0, into the cause of a page fault changes nothing
Event(irq, write) ==
  CASE irq = 32 -> "IRQ_TIMER"    [] irq \in {33, 36} -> "IRQ_IODEV"
    [] irq = 128 -> "SYSCALL"     [] irq = 129 -> "YIELD"
    [] irq = 14 -> IF write THEN "PAGEFAULT_WRITE" ELSE "PAGEFAULT_READ"
    [] OTHER -> "ERROR"

\* mutant: bit 2 says who, not what
x86_eventUser(irq, err) == Event(irq, (err \div 4) % 2 = 1)

x86_event(irq, err) == Event(irq, (err \div 2) % 2 = 1)

\* a Context of zeros but for the fields of f, at the end of a stack
Fields(p, m, t, f) ==
  LET c == KEnd(t) - Len(Context(p))
  IN [c |-> c,
      m |-> [a \in DOMAIN m |->
               IF a < c \/ a >= KEnd(t) THEN m[a]
               ELSE LET n == Context(p)[a - c + 1]
                    IN IF n \in DOMAIN f THEN f[n] ELSE 0]]

GPR1(p) == IF p = "x86-qemu" THEN "eax" ELSE "rdi"
GPR2(p) == IF p = "x86-qemu" THEN "ebx" ELSE "rsi"

x86_kcontext(p, m, t) ==
  Fields(p, m, t,
    [n \in {"cs", "pc", "eflags", "sp"} |->
       CASE n = "cs" -> KCODE [] n = "pc" -> KStart [] n = "eflags" -> 1
         [] n = "sp" -> KEnd(t)]
      @@ (IF p = "x86-qemu" THEN "ds" :> KDATA ELSE <<>>)
      @@ (GPR1(p) :> TheArg) @@ (GPR2(p) :> Code(t, 0)))

x86_ucontext(p, m, t) ==
  Fields(p, m, t,
    [n \in {"cs", "pc", "eflags", "sp", "ss", "esp0", "cr3"} |->
       CASE n = "cs" -> UCODE [] n = "pc" -> Code(t, 0) [] n = "eflags" -> 1
         [] n = "sp" -> UEnd [] n = "ss" -> UDATA [] n = "esp0" -> KEnd(t) [] n = "cr3" -> UPT]
      @@ (IF p = "x86-qemu" THEN "ds" :> UDATA ELSE <<>>))

\* __am_kcontext_start: the panic is the return address of the entry
kcontext_start(p) ==
  (IF p = "x86-qemu" THEN push("eax") ELSE <<>>) \o pushi(Panic) \o mv("pc", GPR2(p))

-----------------------------------------------------------------------------
(* Each port: from the trap to the call of user_handler, and back.           *)

IsQemu == port \in Qemu

\* the registers a program computes with, in some order
Gpr == CASE port \in Riscv -> [i \in DOMAIN RiscvRegs(NR_REGS(port)) |-> X(RiscvRegs(NR_REGS(port))[i])]
         [] port = "mips32-nemu" -> [i \in DOMAIN MipsRegs |-> X(MipsRegs[i])] \o <<"lo", "hi">>
         [] port = "loongarch32r-nemu" -> [i \in DOMAIN LoongarchRegs |-> X(LoongarchRegs[i])]
         [] port \in {"x86-nemu", "x86-qemu"} -> <<"eax", "ebx", "ecx", "edx", "esi", "edi", "ebp">>
         [] port = "x86_64-qemu" -> Gpr64Pushed

\* every other register, with its value in main
Special ==
  CASE port \in Riscv -> [n \in {"mcause", "mstatus", "mepc"} |-> 0]
    [] port = "mips32-nemu" -> [n \in {"cause", "status", "epc", "x27"} |-> 0]
    [] port = "loongarch32r-nemu" -> [n \in {"estat", "prmd", "era"} |-> 0]
    [] port = "x86-nemu" -> [n \in {"cs", "eflags"} |-> IF n = "cs" THEN KCODE ELSE 0]
    [] IsQemu -> [n \in {"cs", "ds", "ss", "eflags", "cr3", "esp0", "old"} |->
                    CASE n = "cs" -> KCODE [] n \in {"ds", "ss"} -> KDATA
                      [] n = "cr3" -> KPT [] OTHER -> 0]

AtStub(z) == IsQemu /\ z.r["pc"] \in Stub(0)..Stub(255)

\* the processor and trap.S, and on qemu the part of __am_irq_handle before user_handler;
\* the Context is where sp points to
Enter(z) ==
  IF IsQemu
  THEN Of(LAMBDA t : SaveContext(port, t, t.r["sp"]),
          Exec(z, IRQ_DEF(z.r["pc"] - Stub(0)) \o (IF port = "x86-qemu" THEN trap32 ELSE trap64)))
  ELSE Exec(z, CASE port \in {"riscv32-nemu", "riscv32e-nemu"} -> nemu_trap(port)
                 [] port = "riscv32e-npc" -> npc_trap
                 [] port = "riscv32e-ysyxsoc" -> ysyxsoc_trap
                 [] port = "mips32-nemu" -> mips_trap
                 [] port = "loongarch32r-nemu" -> loongarch_trap
                 [] port = "x86-nemu" -> push("eflags") \o push("cs") \o push("pc")
                                           \o x86_nemu_trap(x86_nemu_idt(129)))

\* from the return of user_handler, whose result is c, to the instruction that ends the trap
Leave(z, c) ==
  IF IsQemu
  THEN Of(LAMBDA y : IF port = "x86-qemu" THEN __am_iret32(y, c) ELSE __am_iret64(y, c),
          LoadSpace(port, z, c))
  ELSE Exec(z,
         CASE port \in {"riscv32-nemu", "riscv32e-nemu"} -> li("x10", c) \o nemu_ret(port) \o mv("pc", "mepc")
           [] port = "riscv32e-npc" -> li("x10", c) \o npc_ret \o mv("pc", "mepc")
           [] port = "riscv32e-ysyxsoc" -> li("x10", c) \o ysyxsoc_ret \o mv("pc", "mepc")
           [] port = "mips32-nemu" -> mips_ret \o mv("pc", "epc") \o li("status", 0)
           [] port = "loongarch32r-nemu" -> loongarch_ret \o mv("pc", "era")
           [] port = "x86-nemu" -> x86_nemu_ret \o iret)

kcontext(m, t) ==
  CASE port \in {"riscv32-nemu", "riscv32e-nemu"} -> nemu_kcontext(m, t)
    [] port = "riscv32e-npc" -> npc_kcontext(m, t)
    [] port = "riscv32e-ysyxsoc" -> ysyxsoc_kcontext(m, t)
    [] IsQemu -> IF t = "u" THEN x86_ucontext(port, m, t) ELSE x86_kcontext(port, m, t)

\* the event of the frame at c; z is as user_handler finds it
EventAt(z, c) ==
  CASE port \in {"riscv32-nemu", "riscv32e-nemu"} ->
         nemu_event(z, c, NR_REGS(port), CallReg(port))
    [] port = "riscv32e-npc" -> npc_event(z, c)
    [] port = "riscv32e-ysyxsoc" -> ysyxsoc_event(z, c)
    [] port = "mips32-nemu" -> mips_event
    [] port = "loongarch32r-nemu" -> loongarch_event
    [] port = "x86-nemu" -> x86_nemu_event
    [] IsQemu -> x86_event(At(z, c, TrapFrame(port), "irq"), At(z, c, TrapFrame(port), "errcode"))

-----------------------------------------------------------------------------
(* What a thread can see of itself: its registers and its stack.  Code that   *)
(* was interrupted before the first instruction of a handler's stub sees       *)
(* what it will see after that handler.                                       *)

ReturnFrom(z) == Of(LAMBDA y : Leave(y, y.r["sp"]), Enter(z))
Unwound(z) == IF AtStub(z) THEN ReturnFrom(z) ELSE z

Seen(t, z) ==
  LET names == {Gpr[i] : i \in DOMAIN Gpr} \cup {"pc", "sp"}
                 \cup CASE IsQemu -> {"cs", "eflags"} \cup (IF t = "u" THEN {"esp0", "cr3"} ELSE {})
                                       \cup (IF port = "x86-qemu" THEN {"ds"} ELSE {})
                        [] port \in Riscv -> {"mstatus"}
                        [] port = "mips32-nemu" -> {"status"}
                        [] OTHER -> {}
      See(y) == [r |-> [n \in names |-> y.r[n]],
                 stack |-> [a \in y.r["sp"]..Top(t)-1 |-> y.m[a]]]
  IN Of(See, Of(Unwound, Of(Unwound, z)))

\* what t sees when it runs next, or now
View(t) == IF t = cur /\ phase = "thread" THEN Seen(t, s)
           ELSE Seen(t, Leave(s, ctx[t]))

Live == {t \in Threads : ctx[t] # None \/ t = cur}

Value(t, p, i) == 10000 * Id(t) + 100 * p + i

Init ==
  /\ port \in Ports /\ other \in Others(port)
  /\ s = [r |-> [n \in {Gpr[i] : i \in DOMAIN Gpr} |->
                     Value("main", 0, CHOOSE i \in DOMAIN Gpr : Gpr[i] = n)]
                  @@ Special @@ ("pc" :> Code("main", 0)) @@ ("sp" :> KEnd("main")),
          m |-> [a \in 0 .. (IF other = "u" THEN 4 ELSE Id(other)) * KSize - 1 |-> 0]]
  /\ phase = "thread" /\ cur = "main" /\ isr = FALSE /\ ev = "none"
  /\ ctx = [t \in Threads |-> None] /\ why = [t \in Threads |-> <<>>]
  /\ own = [t \in Threads |-> IF t = "main" THEN Seen(t, s) ELSE None]
  /\ fresh = {}

\* the kernel makes a thread
Create(t) ==
  /\ phase = "thread" /\ cur = "main" /\ ~AtStub(s) /\ t # "main" /\ ctx[t] = None
  /\ \E new \in {kcontext(s.m, t)} :
        /\ s' = [s EXCEPT !.m = new.m]
        /\ ctx' = [ctx EXCEPT ![t] = new.c]
        /\ own' = [own EXCEPT ![t] = Seen(t, Leave(s', new.c))]
  /\ fresh' = fresh \cup {t}
  /\ UNCHANGED <<port, other, phase, cur, why, ev, isr>>

\* The running thread computes: all its registers change, and it pushes a word at its
\* first place and pops one at its last.  Kernel code also sets the interrupt flag.
Work ==
  /\ phase = "thread" /\ s.r["pc"] \in {Code(cur, p) : p \in 0..P-1}
  /\ LET p == s.r["pc"] - Code(cur, 0)
         next == (p + 1) % P
         new(flag) == Exec(s, Map(Nums(1, Len(Gpr)), LAMBDA i : li(Gpr[i], Value(cur, next, i)))
                    \o (CASE p = 0 -> pushi(Value(cur, p, 99))
                           [] p = P - 1 -> addi("sp", "sp", 1)
                           [] OTHER -> <<>>)
                    \o li("pc", Code(cur, next))
                    \o (IF IsQemu THEN li("eflags", flag) ELSE <<>>))
     IN \E flag \in {0, 1} :
          /\ IF IsQemu THEN s.r["cs"] = UCODE => flag = 1 ELSE flag = 0
          /\ s' = new(flag) /\ own' = [own EXCEPT ![cur] = Seen(cur, s')]
  /\ fresh' = fresh \ {cur}
  /\ UNCHANGED <<port, other, phase, cur, ctx, why, ev, isr>>

KcontextStart ==
  /\ phase = "thread" /\ s.r["pc"] = KStart
  /\ s' = Exec(s, kcontext_start(port)) /\ own' = [own EXCEPT ![cur] = Seen(cur, s')]
  /\ UNCHANGED <<port, other, phase, cur, ctx, why, ev, fresh, isr>>

\* room for two frames, the words of a program and the handler
Room == IsQemu => (IF s.r["cs"] = UCODE THEN s.r["esp0"] ELSE s.r["sp"])
                     >= KEnd(cur) - KSize + 2 * (Len(TrapFrame(port)) + 2)

Enters(z) ==
  \E t \in {Enter(z)} :
    /\ s' = t /\ phase' = "handler" /\ ctx' = [ctx EXCEPT ![cur] = t.r["sp"]]
    /\ ev' = EventAt(t, t.r["sp"])

\* a yield or a system call; on x86 the pc behind the instruction is pushed
Call(e) ==
  /\ phase = "thread" /\ s.r["pc"] = Code(cur, 1) /\ why' = [why EXCEPT ![cur] = Append(@, e)]
  /\ LET number == IF e = "YIELD" THEN -1 ELSE 5
         next == [s EXCEPT !.r["pc"] = IF port \in Riscv \cup {"mips32-nemu", "loongarch32r-nemu"}
                                       THEN @ ELSE Code(cur, 2)]
         own1 == Exec(next, CASE port \in {"riscv32-nemu", "riscv32e-nemu"} -> nemu_call(port, number)
                              [] port = "riscv32e-npc" -> npc_call(number)
                              [] port = "riscv32e-ysyxsoc" -> ysyxsoc_call(number)
                              [] port = "loongarch32r-nemu" -> loongarch_call(number)
                              [] OTHER -> <<>>)
         trap == CASE port \in Riscv -> li("mcause", 11) \o mv("mepc", "pc")
                   [] port = "mips32-nemu" -> li("status", 2) \o mv("epc", "pc")
                   [] port = "loongarch32r-nemu" -> mv("era", "pc")
                   [] OTHER -> <<>>
     IN /\ own' = [own EXCEPT ![cur] = Seen(cur, own1)]
        /\ IF IsQemu
           THEN /\ Room /\ s' = Hw(port, own1, IF e = "YIELD" THEN 129 ELSE 128, 0)
                /\ UNCHANGED <<phase, ctx, ev>>
           ELSE Enters(Exec(own1, trap))
  /\ fresh' = fresh \ {cur}
  /\ UNCHANGED <<port, other, cur, isr>>

\* interrupts arrive between any two instructions of code that enables them, the one of a stub included
Interrupt(vec) ==
  /\ IsQemu /\ phase = "thread" /\ s.r["eflags"] = 1 /\ ~isr /\ Room
  /\ s' = Hw(port, s, vec, 0) /\ isr' = TRUE
  /\ why' = [why EXCEPT ![cur] = Append(@, IF vec = 32 THEN "IRQ_TIMER" ELSE "IRQ_IODEV")]
  /\ UNCHANGED <<port, other, phase, cur, ctx, ev, own, fresh>>

\* a user program reads or writes where nothing is mapped, or what is without the right to
Fault == 4 :> "READ_MISSING" @@ 5 :> "READ_PROTECTED" @@ 6 :> "WRITE_MISSING" @@ 7 :> "WRITE_PROTECTED"

PageFault(err) ==
  /\ IsQemu /\ phase = "thread" /\ s.r["cs"] = UCODE /\ Room
  /\ s' = Hw(port, s, 14, err)
  /\ why' = [why EXCEPT ![cur] = Append(@, Fault[err])]
  /\ UNCHANGED <<port, other, phase, cur, ctx, ev, own, fresh, isr>>

\* the end of interrupt is sent before user_handler is called
IrqHandle ==
  /\ phase = "thread" /\ AtStub(s)
  /\ Enters(s)
  /\ isr' = (isr /\ s.r["pc"] - Stub(0) \notin 32..63)
  /\ UNCHANGED <<port, other, cur, why, own, fresh>>

\* words below the stack pointer are nobody's
Forget(z, t) ==
  LET dead(a) == \/ a \in KEnd(t)-KSize..KEnd(t)-1 /\ (a < z.r["sp"] \/ z.r["sp"] > KEnd(t))
                 \/ a \in UEnd-KSize..UEnd-1 /\ t = "u" /\ z.r["sp"] > KEnd(t) /\ a < z.r["sp"]
  IN [z EXCEPT !.m = [a \in DOMAIN @ |-> IF dead(a) THEN Junk ELSE @[a]]]

\* The handler used the stack below the Context; it returns the Context of t.  On RISC-V the kernel
\* steps over an ecall.
Return(t) ==
  /\ phase = "handler" /\ ctx[t] # None
  /\ port \notin Riscv \cup Qemu => t = cur
  /\ LET skip == port \in Riscv /\ ev \in {"YIELD", "SYSCALL"}
         epc == ctx[cur] + NR_REGS(port) + 2
         step(z) == IF skip /\ s.m[epc] = Code(cur, 1) THEN [z EXCEPT !.m[epc] = Code(cur, 2)] ELSE z
     IN /\ s' = Of(LAMBDA z : Forget(z, t), Of(LAMBDA z : Leave(z, ctx[t]), step(Forget(s, cur))))
        /\ own' = IF skip THEN [own EXCEPT ![cur].r["pc"] = Code(cur, 2)] ELSE own
  /\ phase' = "thread" /\ cur' = t /\ ctx' = [ctx EXCEPT ![t] = None] /\ ev' = "none"
  /\ why' = [why EXCEPT ![t] = IF @ = <<>> THEN @ ELSE SubSeq(@, 1, Len(@) - 1)]
  /\ UNCHANGED <<port, other, fresh, isr>>

Next ==
  \/ \E t \in Threads : Create(t)
  \/ \E t \in Threads : Return(t)
  \/ Work \/ KcontextStart \/ IrqHandle
  \/ \E e \in {"YIELD", "SYSCALL"} : Call(e)
  \/ \E vec \in {32, 33} : Interrupt(vec)
  \/ \E err \in DOMAIN Fault : PageFault(err)

Spec == Init /\ [][Next]_vars

-----------------------------------------------------------------------------
(* A thread that is interrupted, for as long as it waits and whatever others   *)
(* do meanwhile, goes on with the registers, the mode and the stack it had; a  *)
(* user program also with its page table and the stack its next trap will use. *)
ResumesWhole == \A t \in Live : View(t) = own[t]

(* user_handler is told what happened: a yield is not taken for a system call,  *)
(* the handler of an interrupted stub is told of the interrupt first.  On       *)
(* npc and ysyxsoc every ecall is a yield.  Of a page fault it is told whether  *)
(* it was a read or a write, and never whether a page was missing: MMAP_NONE is *)
(* 0, and the or at cte.c:81 adds nothing.                                     *)
EventTold ==
  phase = "handler" =>
    LET w == why[cur][Len(why[cur])]
    IN ev = CASE port \in {"riscv32e-npc", "riscv32e-ysyxsoc"} -> "YIELD"
              [] port \in {"mips32-nemu", "loongarch32r-nemu", "x86-nemu"} -> "ERROR"
              [] w \in {"READ_MISSING", "READ_PROTECTED"} -> "PAGEFAULT_READ"
              [] w \in {"WRITE_MISSING", "WRITE_PROTECTED"} -> "PAGEFAULT_WRITE"
              [] OTHER -> w

(* A thread of kcontext or ucontext starts at its entry, with its argument      *)
(* where the calling convention has it, on an empty stack of its own but for    *)
(* the return address and, on nemu, a word that is not used.                    *)
EntersAsAsked ==
  \A t \in fresh \cap Live :
    LET v == View(t)
        arg == CASE port \in Riscv -> v.r["x10"]
                 [] IsQemu /\ v.r["pc"] = KStart -> v.r[GPR1(port)]
                 [] port = "x86-qemu" /\ t = "k" -> v.stack[v.r["sp"] + 1]
                 [] port = "x86_64-qemu" /\ t = "k" -> v.r["rdi"]
                 [] OTHER -> TheArg
    IN /\ IF v.r["pc"] = KStart THEN v.r[GPR2(port)] = Code(t, 0) ELSE v.r["pc"] = Code(t, 0)
       /\ arg = TheArg
       /\ v.r["sp"] \in Top(t)-2..Top(t)
       /\ IsQemu => /\ v.r["eflags"] = 1 /\ v.r["cs"] = (IF t = "u" THEN UCODE ELSE KCODE)
                    /\ t = "u" => v.r["cr3"] = UPT /\ v.r["esp0"] = KEnd(t)
                    /\ t = "k" /\ v.r["pc"] # KStart => v.stack[v.r["sp"]] = Panic
=============================================================================
