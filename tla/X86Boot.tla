------------------------------- MODULE X86Boot --------------------------------
(***************************************************************************)
(* How the boot processor of x86-qemu comes up: the boot block loads the   *)
(* arguments and the kernel from the disk image (boot/main.c), and the     *)
(* kernel finds its heap and its processors and sets up the local and the  *)
(* I/O APIC (trm.c, ioe.c).  Memory is counted in bytes for the kernel, in *)
(* units of 64 KiB for the heap, the table of processors in words.  When   *)
(* main calls cte_init, interrupts get their gates.                        *)
(***************************************************************************)
EXTENDS X86Descriptors, Sequences, FiniteSets

CONSTANTS SECTSIZE, ARGSIZE,
          HdrAddr, HdrSize, ArgAddr,  \* 0x8000, 4096, MAINARG_ADDR
          MemTop,                     \* memory the kernel can be in
          Kernels,                    \* program headers of kernels
          MPTables,                   \* types of the entries of tables of processors
          MAX_CPU,
          Reg64K,                     \* values of a CMOS register: 256; 16 MiB are as many units
          MemSizes, MaxIntr,
          TssAt, TssSize, StubAt      \* CPU->tss; where the interrupt stubs are

\* bytes i of a segment that the file has, and all of them
FileBytes(p) == p.paddr .. p.paddr + p.filesz - 1
Bytes(p) == p.paddr .. p.paddr + p.memsz - 1
RoundDown(a) == (a \div SECTSIZE) * SECTSIZE
Sectors(p) == {RoundDown(a) : a \in FileBytes(p) \cup (IF p.paddr % SECTSIZE # 0 THEN {p.paddr} ELSE {})}
Covered(p) == UNION {s .. s + SECTSIZE - 1 : s \in Sectors(p)}

\* A linked kernel, in the order of its addresses and without overlaps, as linkers make them
\* and the code takes for granted: a place in the file and in memory agree within a sector; a sector of two
\* segments is one piece of the file, and the lower segment ends with what the file has of it.
Linked(ph) ==
  /\ \A i \in DOMAIN ph :
       /\ ph[i].filesz <= ph[i].memsz /\ ph[i].offset % SECTSIZE = ph[i].paddr % SECTSIZE
       /\ \A a \in Covered(ph[i]) \cup Bytes(ph[i]) : a >= ArgAddr + ARGSIZE /\ a < MemTop
  /\ \A i, j \in DOMAIN ph : i < j =>
       /\ \A a \in Bytes(ph[i]), b \in Bytes(ph[j]) : a < b
       /\ Covered(ph[j]) \cap Bytes(ph[i]) # {}
            => ph[i].memsz = ph[i].filesz /\ ph[j].offset - ph[j].paddr = ph[i].offset - ph[i].paddr

Segment == [offset : Nat, paddr : Nat, filesz : Nat, memsz : Nat]

ASSUME X86BootAssumption ==
  /\ SECTSIZE \in Nat \ {0} /\ {ARGSIZE, HdrAddr, HdrSize, ArgAddr, MemTop} \subseteq Nat
  /\ ARGSIZE % SECTSIZE = 0 /\ HdrAddr % SECTSIZE = 0 /\ ArgAddr % SECTSIZE = 0
  /\ HdrAddr + HdrSize <= ArgAddr /\ ArgAddr + ARGSIZE <= MemTop
  /\ \A ph \in Kernels : ph \in Seq(Segment) /\ Linked(ph)
  /\ \A table \in MPTables : table \in Seq(Nat)
  /\ MAX_CPU \in Nat /\ Reg64K \in Nat \ {0} /\ MemSizes \subseteq Nat
  /\ MaxIntr \in Nat /\ MaxIntr >= 4        \* the I/O APIC has the pins of IRQ_KBD and IRQ_COM1
  /\ TssAt \in Nat /\ TssSize \in 1..16 * H /\ TssAt + TssSize <= H * H  \* below 4 GiB
  /\ StubAt \in Nat \ {0} /\ StubAt + 8 * 129 < H * H

VARIABLES mach,          \* the machine: architecture, kernel, table of processors, memory, APIC version
          bpc, seg,      \* where it is; how many segments were loaded
          m, ld,         \* memory; the running copy from disk
          heap, ncpu, ptr,
          lapic, ioapic,
          gdt, idt

bvars == <<mach, bpc, seg, m, ld, heap, ncpu, ptr, lapic, ioapic, gdt, idt>>

Lvt == {"TIMER", "LINT0", "LINT1", "PCINT", "ERROR"}
MaskedLvt == [vec |-> 0, flags |-> {"MASKED"}]
Plain == [vec |-> 0, flags |-> {}]

X86BootInit ==
  /\ mach \in [arch : {"i386", "x86_64"}, kernel : Kernels, table : MPTables, mem : MemSizes, ver : {3, 4}]
  /\ bpc = "reset" /\ seg = 0 /\ m = [a \in 0..MemTop-1 |-> -1] /\ ld = [cur |-> 0, ed |-> 0, sect |-> 0]
  /\ heap = [start |-> 0, end |-> 0] /\ ncpu = 0 /\ ptr = 0
  /\ lapic = [r \in Lvt \cup {"SVR", "TICR", "TPR"} |-> IF r \in Lvt THEN MaskedLvt ELSE Plain]
  /\ ioapic = [i \in 0..MaxIntr |-> [on |-> FALSE, vec |-> 0, cpu |-> 0]]
  /\ gdt = <<>> /\ idt = <<>>

-----------------------------------------------------------------------------
(* The boot block.  The image is the boot block, the arguments, the ELF file. *)

ArgByte(i) == 100 + i
FileByte(o) == 200 + o
DiskByte(sect, i) == LET o == (sect - 1) * SECTSIZE + i
                     IN IF o < ARGSIZE THEN ArgByte(o) ELSE FileByte(o - ARGSIZE)

Loading == ld.cur < ld.ed

\* mutant: the copy starts in the middle of a sector
copy_from_diskUnaligned(buf, nbytes, offset) ==
  ~Loading /\ ld' = [cur |-> buf, ed |-> buf + nbytes,
                     sect |-> offset \div SECTSIZE + ARGSIZE \div SECTSIZE + 1]

copy_from_disk(buf, nbytes, offset) ==
  ~Loading /\ ld' = [cur |-> RoundDown(buf), ed |-> buf + nbytes,
                     sect |-> offset \div SECTSIZE + ARGSIZE \div SECTSIZE + 1]

\* a sector; the disk is polled as in disk_blkio
read_disk ==
  /\ Loading /\ ld' = [cur |-> ld.cur + SECTSIZE, ed |-> ld.ed, sect |-> ld.sect + 1]
  /\ m' = [a \in DOMAIN m |-> IF a \in ld.cur .. ld.cur + SECTSIZE - 1
                              THEN DiskByte(ld.sect, a - ld.cur) ELSE m[a]]
  /\ UNCHANGED <<mach, bpc, seg, heap, ncpu, ptr, lapic, ioapic, gdt, idt>>

HdrIn == \A i \in 0..HdrSize-1 : m[HdrAddr + i] = FileByte(i)

\* read from memory, where the ELF header is
Phdrs == mach.kernel
Stage(l) == bpc' = l

load_kernel ==
  /\ \/ bpc = "reset" /\ copy_from_disk(ArgAddr, ARGSIZE, -ARGSIZE) /\ Stage("args") /\ seg' = seg
     \/ bpc = "args" /\ copy_from_disk(HdrAddr, HdrSize, 0) /\ Stage("segments") /\ seg' = seg
     \/ /\ bpc = "segments" /\ HdrIn /\ seg < Len(Phdrs)           \* load_elf32, load_elf64
        /\ LET p == Phdrs[seg + 1] IN copy_from_disk(p.paddr, p.filesz, p.offset)
        /\ Stage("bss") /\ seg' = seg + 1
     \/ /\ bpc = "segments" /\ ~Loading /\ (HdrIn => seg = Len(Phdrs))
        /\ Stage(IF HdrIn THEN "start" ELSE "astray") /\ UNCHANGED <<seg, ld>>
  /\ UNCHANGED <<mach, m, heap, ncpu, ptr, lapic, ioapic, gdt, idt>>

load_program ==
  /\ bpc = "bss" /\ ~Loading /\ Stage("segments")
  /\ LET p == Phdrs[seg]
     IN m' = [a \in DOMAIN m |-> IF a \in Bytes(p) \ FileBytes(p) THEN 0 ELSE m[a]]
  /\ UNCHANGED <<mach, seg, ld, heap, ncpu, ptr, lapic, ioapic, gdt, idt>>

-----------------------------------------------------------------------------
(* The kernel's start: __am_bootcpu_init.  *)

MiB == 4
KernelEnd == 1 + (CHOOSE a \in UNION {Bytes(Phdrs[i]) : i \in DOMAIN Phdrs} :
              \A b \in UNION {Bytes(Phdrs[i]) : i \in DOMAIN Phdrs} : b <= a)

\* registers 0x34 and 0x35: the units beyond 16 MiB
CmosMem == IF mach.mem < Reg64K THEN 0 ELSE mach.mem - Reg64K

__am_heap_init ==
  /\ bpc = "start" /\ Stage("mp")
  /\ LET lo == CmosMem % Reg64K
         hi == CmosMem \div Reg64K + 1
     IN heap' = [start |-> ((KernelEnd + MiB - 1) \div MiB) * MiB, end |-> lo + hi * Reg64K]
  /\ UNCHANGED <<mach, seg, m, ld, ncpu, ptr, lapic, ioapic, gdt, idt>>

\* the words of the table: an entry for a processor has 20 bytes, another one 8
MPEntry(t) == IF t = 0 THEN <<0, 0, 0, 0, 0>> ELSE <<t, 0>>
MPConf == LET words[i \in 0..Len(mach.table)] ==
                IF i = 0 THEN <<>> ELSE words[i-1] \o MPEntry(mach.table[i])
          IN words[Len(mach.table)]

__am_lapic_init ==
  /\ bpc = "mp"
  /\ IF ptr >= Len(MPConf) THEN Stage("ioapic") /\ UNCHANGED <<ncpu, ptr>>
     ELSE LET processor == MPConf[ptr + 1] = 0
          IN /\ ncpu' = IF processor THEN ncpu + 1 ELSE ncpu
             /\ ptr' = ptr + 2 + (IF processor THEN 3 ELSE 0)
             /\ Stage(IF ncpu' > MAX_CPU THEN "panic" ELSE "mp")
  /\ UNCHANGED <<mach, seg, m, ld, heap, lapic, ioapic, gdt, idt>>

__am_ioapic_init ==
  /\ bpc = "ioapic" /\ Stage("gdt") /\ seg' = 0
  /\ ioapic' = [i \in 0..MaxIntr |-> [on |-> FALSE, vec |-> 32 + i, cpu |-> 0]]
  /\ UNCHANGED <<mach, m, ld, heap, ncpu, ptr, lapic, gdt, idt>>

\* gdt of a CPU; x86_64 has one more, which stays zero: the upper half of the TSS descriptor
Gdt == IF mach.arch = "x86_64"
       THEN <<SEG64(STA_X + STA_R, DPL_KERN), SEG64(STA_W, DPL_KERN), SEG64(STA_X + STA_R, DPL_USER),
              SEG64(STA_W, DPL_USER), SEG16(STS_T32A, TssAt, TssSize - 1, DPL_KERN), NoSeg>>
       ELSE <<SEG32(STA_X + STA_R, 0, H * H - 1, DPL_KERN), SEG32(STA_W, 0, H * H - 1, DPL_KERN),
              SEG32(STA_X + STA_R, 0, H * H - 1, DPL_USER), SEG32(STA_W, 0, H * H - 1, DPL_USER),
              SEG16(STS_T32A, TssAt, TssSize - 1, DPL_KERN)>>

\* that gdtr and tr are loaded is in X86Mpe
__am_percpu_initgdt ==
  /\ bpc = "gdt" /\ gdt' = Gdt /\ Stage("lapic")
  /\ UNCHANGED <<mach, seg, m, ld, heap, ncpu, ptr, lapic, ioapic, idt>>

\* the local APIC masks an entry that is written before it is enabled
lapicw(r, v) ==
  lapic' = [lapic EXCEPT ![r] = IF r \in Lvt /\ "ENABLE" \notin lapic["SVR"].flags
                                THEN [v EXCEPT !.flags = @ \cup {"MASKED"}] ELSE v]

\* the registers, in the order they are written
Lapicws == << <<"SVR", [vec |-> 63, flags |-> {"ENABLE"}]>>,
              <<"TIMER", [vec |-> 32, flags |-> {"PERIODIC"}]>>, <<"TICR", [vec |-> 1, flags |-> {}]>>,
              <<"LINT0", MaskedLvt>>, <<"LINT1", MaskedLvt>>, <<"PCINT", MaskedLvt>>,
              <<"ERROR", [vec |-> 51, flags |-> {}]>>, <<"TPR", Plain>> >>

__am_percpu_initlapic ==
  /\ bpc = "lapic" /\ UNCHANGED <<mach, m, ld, heap, ncpu, ptr, ioapic, gdt, idt>>
  /\ IF seg = Len(Lapicws) THEN Stage("irq") /\ UNCHANGED <<seg, lapic>>
     ELSE /\ seg' = seg + 1 /\ UNCHANGED bpc
          /\ IF Lapicws[seg + 1][1] = "PCINT" /\ mach.ver < 4 THEN UNCHANGED lapic
             ELSE lapicw(Lapicws[seg + 1][1], Lapicws[seg + 1][2])

\* IRQ_KBD and IRQ_COM1 go to CPU 0
__am_percpu_initirq ==
  /\ bpc = "irq" /\ Stage("main")
  /\ ioapic' = [i \in 0..MaxIntr |-> IF i \in {1, 4} THEN [on |-> TRUE, vec |-> 32 + i, cpu |-> 0]
                                     ELSE ioapic[i]]
  /\ UNCHANGED <<mach, seg, m, ld, heap, ncpu, ptr, lapic, gdt, idt>>

\* the vectors with stubs of their own, and those that programs may raise
IRQS == 0..16 \cup {19} \cup 31..47 \cup {128, 129}
UserIRQS == {128, 129}
IrqStub(v) == StubAt + 8 * v
IrqStubAll == StubAt - 1

GATE(entry, dpl) == IF mach.arch = "x86_64" THEN GATE64(STS_TG, 8, entry, dpl)
                    ELSE GATE32(STS_TG, 8, entry, dpl)

cte_init ==
  /\ bpc = "main" /\ Stage("cte")
  /\ idt' = [v \in 0..255 |-> IF v \in IRQS THEN GATE(IrqStub(v), IF v \in UserIRQS THEN DPL_USER ELSE DPL_KERN)
                             ELSE GATE(IrqStubAll, DPL_KERN)]
  /\ UNCHANGED <<mach, seg, m, ld, heap, ncpu, ptr, lapic, ioapic, gdt>>

X86BootNext == \/ load_kernel \/ read_disk \/ load_program
               \/ __am_heap_init \/ __am_lapic_init \/ __am_ioapic_init
               \/ __am_percpu_initgdt \/ __am_percpu_initlapic \/ __am_percpu_initirq \/ cte_init

-----------------------------------------------------------------------------
Loaded ==
  /\ HdrIn /\ \A i \in 0..ARGSIZE-1 : m[ArgAddr + i] = ArgByte(i)
  /\ \A k \in DOMAIN Phdrs : \A a \in Bytes(Phdrs[k]) :
       m[a] = IF a \in FileBytes(Phdrs[k]) THEN FileByte(Phdrs[k].offset + a - Phdrs[k].paddr) ELSE 0

(* Although whole sectors are copied, the kernel starts with every segment of  *)
(* its file in memory and zeros where it expects zeros, its arguments, and the *)
(* ELF header that application processors will read.  It counts every         *)
(* processor of the table once or panics; its heap begins behind it and ends   *)
(* with memory, if that has 16 MiB; when main is called, the timer, the APIC's *)
(* errors and two devices, and nothing else, can interrupt; its segments are    *)
(* all of memory and its own TSS; and each interrupt then gets its own stub.    *)
X86Up ==
  LET cpus == Cardinality({i \in DOMAIN mach.table : mach.table[i] = 0})
      on == {r \in Lvt : "MASKED" \notin lapic[r].flags}
  IN /\ bpc # "astray" /\ (bpc = "panic" => cpus > MAX_CPU)
     /\ bpc \in {"start", "mp", "ioapic", "gdt", "lapic", "irq", "main"} => Loaded
     /\ bpc = "cte" => \A v \in 0..255 :
          /\ GateEntry(idt[v]) = IF v \in IRQS THEN IrqStub(v) ELSE IrqStubAll
          /\ idt[v].dpl = DPL_USER <=> v \in UserIRQS
     /\ bpc = "main" =>
          /\ ncpu = cpus
          /\ SegBase(gdt[5]) = TssAt /\ SegLimit(gdt[5]) = TssSize - 1
          /\ mach.arch = "i386" => \A k \in 1..4 : SegBase(gdt[k]) = 0 /\ SegLimit(gdt[k]) = H * H - 1
          /\ \A i \in DOMAIN Phdrs : \A a \in Bytes(Phdrs[i]) : a < heap.start
          /\ mach.mem >= Reg64K => heap.end = mach.mem
          /\ on = {"TIMER", "ERROR"} /\ lapic["TIMER"].vec = 32 /\ "ENABLE" \in lapic["SVR"].flags
          /\ \A i \in DOMAIN ioapic : ioapic[i].on <=> i \in {1, 4}
          /\ ioapic[1].vec = 33 /\ ioapic[4].vec = 36 /\ ioapic[1].cpu = 0 /\ ioapic[4].cpu = 0
=============================================================================
