# A TLA+ model of AbstractMachine

AbstractMachine (AM) gives a program the same small machine on many platforms:
memory and a CPU (TRM), devices (IOE), interrupts and contexts (CTE), virtual
memory (VME) and several processors (MPE), with a small C library, klib, on
top.  `am/include/am.h` is the interface; `am/src/<platform>` implements it.
The code is short, but much of it runs where testing is blind: inside signal
and trap handlers, between a fork and the first byte of a pipe, while another
processor is being thrown out of what it does by an INIT interrupt, between two
reads of a clock that runs.  These modules state what that code promises and
check that it keeps it.

Paths below are relative to the repository, `src/`.

## 1. Inventory

| Component | State | Operations | Talks to |
|---|---|---|---|
| native VME, `am/src/native/vme.c` | `VMHead` lists and hash tables in shared memory; the mmap()ed pages and `thiscpu->vm_head` of each process | `vme_init`, `protect`, `map`, `ucontext`, `__am_switch` | CTE calls `__am_switch` on every return from a trap; MPE forks the processes |
| native CTE, `am/src/native/cte.c`, `trap.S` | per process `thiscpu` (`ksp`, `ev`); Contexts on kernel stacks; the signal mask | `sig_handler`, `setup_stack`, `irq_handle`, `iret`, `kcontext`, `yield`, `iset` | Linux signals; the kernel's handler; VME |
| native MPE and IOE start, `mpe.c`, `ioe.c`, `platform.c` | `sync_pipe`; `has_ioe`, `ioe_init_done`; `cpuid` | `mpe_init`, `ioe_init`, `do_io`, `halt` | fork, pipe, kill |
| native memory, `platform.c` | the memory file, the program's writable segment, `thiscpu`, the trap page, the template of a Context | `init_platform`, `__am_pmem_map`, `__am_pmem_unmap` | mmap, fork; VME and MPE rest on it |
| registers of the devices, `amdev.h` and seven `ioe.c` | the table `lut`, which devices were initialised | `ioe_init`, `ioe_read`, `ioe_write` | the handlers of every device |
| native devices, `am/src/native/ioe/` | key queue, audio pipe and its `count`, window, disk image | `__am_input_keybrd`, `__am_audio_play`, `audio_play`, `__am_gpu_fbdraw`, `__am_disk_blkio` | SDL threads |
| x86-qemu start, `boot/`, `trm.c`, `ioe.c`, `x86.h` | the memory the boot block fills; MP table; heap; APICs; GDT and IDT | `load_kernel`, `__am_heap_init`, `__am_lapic_init`, `__am_percpu_init*`, `cte_init` | ATA disk, CMOS |
| x86-qemu MPE, `am/src/x86/qemu/{mpe,trm}.c`, `boot/` | boot record, `ap_ready`, `user_entry`, `gdt_data` | `mpe_init`, `_start_c`, `othercpu_entry`, `__am_stop_the_world`, `halt` | local APIC |
| x86-qemu CTE, `cte.c`, `trap32.S`, `trap64.S` | TSS, Contexts on kernel stacks | the stubs, `__am_irq_handle`, `__am_iret`, `kcontext`, `yield`, `iset` | VME (cr3), the kernel's handler |
| x86-qemu VME, `vme.c` | page tables from the kernel's page allocator | `vme_init`, `protect`, `unprotect`, `map`, `ucontext` | CTE loads cr3 |
| x86-qemu devices, `ioe.c` | canvas trees, scratch buffer, ports | `gpu_render`, `gpu_fbdraw`, `disk_blkio`, `timer_rtc` | hardware |
| riscv CTE (nemu, npc, ysyxsoc), mips, loongarch, x86-nemu traps | Contexts | the stubs of `trap.S`, `__am_irq_handle`, `kcontext`, `yield` | the kernel's handler |
| riscv spike, `htif.c`, `timer.c` | `tohost` and `fromhost`, a spinlock | `htif_console_putchar`, `getchar`, `poweroff`, system calls; the timer | the host |
| riscv npc, ysyxsoc, nutshell | UART queues, counters | `putch`, the timers | hardware |
| nemu devices, `am/src/platform/nemu/ioe/` | the sound ring buffer, frame buffer, counter | `__am_audio_play`, `__am_gpu_fbdraw`, register reads | the emulator |
| klib, `klib/src/` | the allocator's bump pointer, the random seed | string, `printf`, `malloc` functions | the heap of TRM |
| arithmetic: `klib/src/int64.c`, riscv `libgcc/`, `tools/rvmini` | none | 64-bit division, division and multiplication without M, RV32 instructions out of eight | compiled code |
| skeletons (mips, loongarch, x86-nemu, riscv VME, dummy), build scripts | none | | |

What makes each correct, and what makes it hard:

* **native VME**: a process shows exactly the pages of the space it runs.  The
  list nodes are shared by all processes, the mappings they describe are not;
  `map` and `__am_switch` change both, one page at a time, while others run.
* **CTE** (any platform): an interrupted program continues exactly where it
  was, with all its registers, whatever ran meanwhile, on whichever CPU; the
  handler learns the event that happened.  The event and the Context travel
  through per-CPU variables, a stack another CPU may be handed, a frame whose
  layout assembly and C have to agree on, and an interrupt that may come again.
* **MPE start**: every CPU arrives once, with its own number, after the devices
  are ready.  It hangs on a pipe (native) or on one stack and one flag (x86).
* **halt**: when one CPU prints the last message the others have stopped or are
  about to; the machine goes off whatever the others did.
* **x86 start**: whole sectors are copied over what was loaded before, and the
  kernel must come out right; only what has a handler may interrupt.
* **sound**: the speaker gets the bytes in order, without gaps or repetitions,
  and the caller is never left waiting; driver and device update one counter.
* **x86 VME**: what was mapped is what the hardware walks; `unprotect` frees
  each table once, none of the kernel's, and none a CPU still uses.
* **consoles**: one word at a time is in the mailbox, each gets its answer, and
  a key is not lost because it came while something else was waited for.
* **native memory**: variables and physical memory are the same in all processes,
  `thiscpu` and user pages are not; and the segment that has to be mapped again
  is the one that holds the GOT and the statics of the code that does it.
* **registers**: a program that asks a CONFIG register first gets no panic, and
  reads nothing that was not written; each platform has its own table and holes.
* **clocks**: a reading is of one moment, although it takes several reads.
* **display and disk**: what was asked for, at the edges too, and nothing else.
* **klib and arithmetic**: each function returns what its standard namesake
  would, overlap, full buffers, `INT_MIN` and the sign bit included, or departs
  from it in a known way.

`PROJECT.json` lists under `hazards` the source lines where these can go wrong.

## 2. Modules

State machines of the parts that interact:

| Module | Models | Kind |
|---|---|---|
| `NativeVme` | native VME with traps and the kernel's calls | state machine |
| `Contexts` | what CTE promises, for any platform | abstract specification |
| `NativeCte` | native CTE; implements `Contexts` | state machine |
| `NativeMpe` | native MPE start, IOE initialisation and `halt` | state machine |
| `X86Mpe` | x86-qemu MPE start and `halt` | state machine |
| `AddrMaps` | what VME promises: an address space is a map | abstract specification |
| `X86Vme` | x86-qemu VME with the part of CTE that loads CR3 and RSP0; implements `AddrMaps` | state machine |
| `AudioStream` | a sound device as a stream of bytes | abstract specification |
| `NemuAudio` | the nemu sound driver with its device; implements `AudioStream` | state machine |
| `TrapFrames` | the trap stubs of nine ports, instruction by instruction, with the C code around them | state machine |

Devices, composed in `Devices`:

| Module | Models |
|---|---|
| `Consoles` | HTIF of spike with its lock and host; the UARTs of ysyxsoc and nutshell |
| `Clocks` | the CMOS clock of x86-qemu, the 64-bit counters of nemu, npc, ysyxsoc, spike's timer |
| `KeyQueue` | native's keyboard: event thread, interrupt handler, polling application |
| `Disk` | `disk_blkio` of x86-qemu with its drive; native's disk, as the reference |
| `Displays` | `gpu_fbdraw`, `gpu_memcpy`, `gpu_render`; `fbdraw` of nemu and native |
| `NativeAudio` | native's sound: application, pipe, SDL's thread; implements `AudioStream` until a race or a long buffer damages the sound |
| `Ioe` | the register tables of seven platforms, `ioe_init`, `do_io`, `io_read`, `io_write`, the CONFIG handlers |
| `NativePlatform` | `init_platform`, `__am_pmem_map`, `__am_pmem_unmap`, and what forked processes share |
| `X86Boot` | boot block, heap, processors, APICs, GDT and IDT; `X86Descriptors` are the descriptors of `x86.h` |

Functions, composed in `Libraries`:

| Module | Models |
|---|---|
| `KlibString`, `KlibStdio`, `KlibStdlib` | klib; `Klib` is a program that calls it and what the C standard says |
| `Words`, `Int64` | two's complement words; `klib/src/int64.c` |
| `RiscvLibgcc` | `div.S`, `muldi3.S`, `multi3.c`, `ashldi3.c` |
| `RvMini` | every macro of `tools/rvmini` as the instructions it expands to, with its tables |
| `Arith` | a program that computes one of these, against C and RISC-V |

Proofs are in `NativeVme_proofs`, `NativeCte_proofs`, `NativeMpe_proofs`,
`X86Mpe_proofs`, `X86Vme_proofs`, `NemuAudio_proofs`, `Devices_proofs` and
`NativePlatform_proofs`; `MC...` are instances for TLC, where the configuration
alone does not say what the constants are.  Only modules without theorems
declare RECURSIVE operators (`Displays`).

Names of variables and actions are those of the source where there is one.
A definition that is commented `mutant:` is not part of the model: it is a
variant of a definition after it that shows that some property would notice
the defect.

### NativeVme

Each CPU is a process with a function `mem` from pages to what `mmap` installed.
A `PageMap` is a record `pp[h][va]`: frame, `next`, `is_mapped`, and `born`, a
history number that says when the node was linked.  `map` is three steps because
another CPU or a signal can come in between: `MapLink` (find or create the node
and link it), `MapInstall` (the call of `__am_pmem_map` if the space is current)
and `MapFlag` (`is_mapped = true`).  `__am_switch` is one step per list node:
`Unmap`, `UnmapDone`, `MapAll`, `MapAllDone`, `SwitchEnd`.  `Trap`,
`HandlerReturn` and `iret` are the frame of `irq_handle` around it.

The kernel is outside the repository: any sequence of calls, with three
constants for its care.  `Shared` lets a space be current on two CPUs at once,
`Remap` lets `map` be called on a mapped page, `Preempt` lets an interrupt cut
`map` short.  A kernel for which all three are false is called `Careful`.

### Contexts and NativeCte

`Contexts` is what a kernel author relies on.  A task is a program counter
modulo P, a mode and an interrupt flag; suspended codes of a task form a stack,
since a handler may be interrupted.  `Trap` pushes, `Return` pops, `Run`
computes; a system call resumes after its instruction, everything else at it.

`NativeCte` is the code: `Exception` and `Interrupt` are `sig_handler` and
`setup_stack` (choose the stack, write the Context, redirect the registers);
`IrqHandle` is `irq_handle` before the user handler; `HandlerReturn` the user
handler's return value; `Iret` the magic call and the second pass through
`sig_handler`, which loads registers and mask.  An interrupt in library code is
dropped, but `thiscpu->ev` has been written by then, as in the code.  The
contents of kernel stacks are kept by depth, so that a Context that was
overwritten or read from the wrong place is a wrong Context in the model too.
`PromiseSpec` is the refinement: `Contexts` with the running code (`Cur`) and the
suspended codes (`Susp`) read out of the registers and stacks, and the event the
handler was `Told`.

The user handler is assumed to return either the context it was given or the
latest context of a task that no other CPU runs *and whose kernel stack no CPU
is still on* (`Free`); `irq_handle` uses the old stack after the handler
returned, so a kernel on two CPUs has to wait.

### NativeMpe

One process per CPU; `.data` is shared (`has_ioe`, `ioe_init_done`), `thiscpu`,
the loop variable and the descriptors are not.  `Fork`, `Read`, `Start` are the
child's side of `mpe_init`; `ForksDone`, `InitDone`, `Write`, `WritesDone` the
parent's.  `DoIo` and `LazyDone` are the test and the assignment of
`ioe_init_done` in `do_io`.  `Apps` says which applications there may be: one
that does IO before `mpe_init`, one that initialises late, one whose `entry`
returns.  A failing `assert` is glibc's and stops the process; `panic` is AM's
and halts the machine.  `fork` and `pipe` are assumed to succeed.

### X86Mpe

The stages of a processor between STARTUP and `user_entry`, each an action:
`RunJmpCode`, `LoadKernel`, `StartC`, `OtherCpuReady`, `OtherCpuEntry`; the boot
processor's loop, `MpeInit`, `StartAp`, `Spin`, `CallUserEntry`; and `Halt`,
`StopOne`, `PrintHalt`, `PowerOff`, which any CPU may begin at any time.
`__am_lapic_bootap` (`BootAp`) sends one interrupt per step, to a target where it
is pending (`init`, `startup`) until the target's local APIC takes it (`TakeInit`,
`TakeStartup`), an INIT before a STARTUP.  INIT throws its target out of whatever
it does and STARTUP makes a waiting one run `jmp_code`; the boot processor, which
`__am_stop_the_world` resets like the others, gets there through the BIOS and the
vector that `__am_lapic_bootap` stored.  `MaxHalt` bounds how many CPUs call `halt`.
`lgdt` is two steps, since its operand is a static variable of `x86.h` that all
processors share (`gdt_data`): who would load another's table is found by
`EntryAfterAll`.

### X86Vme and AddrMaps

`pt` is the content of every page that is a table; an entry is what it points to
and whether PTE_U is set, which is all that `teardown` goes by.  A level-L entry
points to a frame, the others to a table.  The constants `KernelVa` and `KTable`
say which virtual pages the kernel maps to themselves and in which pages its
tables lie.  `Arch` is 64 where every processor enters the kernel with paging
and these tables (`start64.S`), and 32 where `vme_init` builds them.

`map` is one step per level, `MapBegin`, `Walk` ..., `MapEnd`, since the other
processor walks, allocates and frees meanwhile; the allocator gives any free
page, and the machine panics if there is none.  `Trap` and `Return` are the two
ends of `__am_irq_handle`: CR3 and RSP0 are saved always and loaded if the
context has a CR3.  `Touch` is user code that fills the TLB.  `AddrMaps` knows a
function per space, and `MapsSpec` reads it off the tables with `Lookup`, the
walk that the hardware does: the walk of `ptwalk` must have no effect on it.

The kernel is assumed to lock a space while it maps, to unprotect a space only
when no processor *and no saved context* has its CR3 (`Unused`), and to keep
other processors out of a space of which it unmaps a page (`MapBegin`,
`Resumable`).

### NemuAudio and AudioStream

The driver fills a ring buffer by words and maintains its own `last_write`; the
device drains it whenever the speaker asks and both keep the count of bytes in
one register, COUNT.  The update of COUNT is a read and a write
(`ReadCount`, `WriteCount`) between which the device may play: the code has no
lock (the comment at `audio.c:49` asks for one).  Nothing in the repository calls
`__am_audio_init`; `AudioInit` is what an application may do before a sound, and
until then `size` is 0 and a sound waits for ever.  A sound that is not a whole
number of words is copied to the end of its last word, and COUNT gets its length.
`slipped` records that one of the two has happened, `drift` by how many bytes
COUNT is wrong since.  Bytes are numbered modulo `K`, more than two rings, so
that an old byte in the ring differs from the new one that should be there;
`Junk` is what lies behind a sound.  `AudioStream` says: bytes are submitted,
queued, and played in order.

### TrapFrames

A port is a list of instructions for each stub, the layout of `struct Context`
as C sees it, and what its C code writes into a frame; `Exec` runs the
instructions on registers and a memory of words.  Layouts are not shared
between the two sides: the assembly counts words, the C side looks up fields,
so that a disagreement of the two is a wrong value, as on the machine.

Threads compute (`Work` sets every register, pushes and pops), call (`Call`),
are interrupted (`Interrupt`, between any two instructions, the first one of a
stub included: the gates of x86-qemu are trap gates and leave interrupts
enabled until the stub's `cli`), fault (`PageFault`), are made by `kcontext` and
`ucontext` (`Create`) and switched by the kernel's handler (`Return`).  What is
below the stack pointer is forgotten at every return (`Forget`).  On RISC-V the
kernel steps over an `ecall`, since the ports leave that to it.  The returns of
x86 to kernel code, which copy the words of `iret` up the stack over themselves,
are modelled word by word.

mips, loongarch and x86-nemu have complete stubs but a C side that knows only
`EVENT_ERROR` (`mips_event`, `loongarch_event`, `x86_nemu_event`); they are run
without a second thread.  Of x86-nemu's IDT, `x86_nemu_idt` says which gates lead
to which stub.

### Devices

The devices share no state and a driver is called by one CPU at a time, so a
behaviour of `Devices` looks at one part while the others rest: one run for
nine machines whose states add up instead of multiplying.  Interference is
inside each part:

* `Consoles`: two harts call the HTIF functions; every access of `tohost`,
  `fromhost` and the lock is a step; the host takes words and answers when it
  likes.  `htif_poweroff` waits for nothing, as in the code.  The port has no MPE and
  in practice one hart; two are more than the platform starts, and what `htif.c` with
  its lock is written for.
* `Clocks`: each register or word is read in a step of its own while time goes
  on.  The counters of nemu, npc and ysyxsoc keep both words when the high one
  is read (that is what NEMU does), spike's does not.
* `KeyQueue`: event thread and application take a recursive SDL mutex; the
  interrupt handler may come at any step of a poll unless the kernel masks it.
* `Disk`: the drive ignores its registers while busy, and is busy after each
  command and each block for as long as it likes.  The caller expects what
  native's disk, a file that is there, would give (for no blocks: nothing happens).
* `Displays`: memory is one array with the frame buffer, canaries behind it and
  the scratch buffer, so a pixel too many is seen.  What should be on the screen
  is computed pixel by pixel from the scene (`Look`), not by drawing it.  nemu's
  `cfg_now.width` (`cfg_w`) is 0, as in the program, unless an application calls
  `__am_gpu_init`; it may, at any time.  Nemu gets the same rectangles as the
  others and clips none.
* `NativeAudio`: loads and stores of `count` are steps of two threads, so updates
  are lost as in the program.  Two variables that the program does not have keep
  the score: `drift`, by how much count is off, and `spoilt`, how many reads and
  writes have damaged the sound.  A behaviour goes on behind both, up to
  `MaxDrift` and `MaxSpoilt`; it ends only when SDL's buffer is overrun, after
  which C says nothing.
* `X86Boot`: which sector is copied where, in which order; a kernel is a list of
  segments that a linker could have made (`Linked`): in the order of their addresses
  and without overlaps, which the code does not check.
* `Ioe`: a handler is the set of the fields it writes, since `io_read` hands it
  an uninitialised buffer; only the values of CONFIG registers are kept, as a
  program goes by them.  Any program runs, in any order and on any CPU; `careful`
  remembers whether it has kept the rules: `ioe_init` once and first, on the
  boot processor, and of a device only what its CONFIG register promised.
* `NativePlatform`: a process is a function from pages to mappings, `fork` copies
  the frames that are not shared.  `Touches` lists the statics that each step of
  `init_platform` uses; a call of a library needs the GOT.  The segment starts
  anywhere in a page (`pad`).

### Libraries

Functions are operators from a memory to a memory and a result; loops are
recursive functions.  `Klib` applies them to every small memory and every
argument that the standard allows (`May`) and compares with the standard's words
(`Meets`, `Expand`, `StandardAtoi`), which share no definition of a function with
the code.  Where klib departs from the standard the property says for which calls
and what comes out instead: `stpncpy` does not pad (`LeavesRest`); `snprintf`
returns what it stored and takes a size of 0 for no limit, `printf` ends at its
buffer, a conversion that klib lacks prints nothing and leaves its argument
(`TextIso`; the letter `U` stands for these conversions); `atoi` reads 0 behind a sign
or a tab; `memmove` is right as far as `MovesWell`; `malloc` serves a size larger
than the heap when the pointer wraps around, and then gives memory out twice
(`BlocksAccounted`).  `Arith` applies the routines to all pairs of 8-bit double
words (`W = 4`), and the macros of rvmini to 16-bit words (`B = 4`), with every
combination of a few registers, so that a macro meets its own temporaries as
operands.  Widths are parameters; every branch of the code depends on them as
it does on 32.

## 3. Runs

| Run | Question | Result |
|---|---|---|
| `native_vme` | Does a process show exactly the pages of its space, for a careful kernel, and does every switch end? 2 CPUs, 2 spaces, 2 pages, 2 contexts besides the boot ones | yes |
| `native_vme_remap` | ... if a page is mapped again? | no: the list becomes a cycle and the next switch never ends |
| `native_cte` | Does native CTE implement `Contexts` with nested traps? 1 CPU, 2 tasks, depth 2 | yes |
| `native_cte_smp` | ... with tasks that move between CPUs? 2 CPUs, 3 tasks, depth 1 | yes |
| `native_mpe` | Does every CPU arrive once, with its number, after the devices? 4 CPUs, 7 processes, all 8 kinds of application | yes |
| `x86_mpe` | Start and halt of 3 processors, each of which may halt at any time | the start is correct; one halting CPU stops the machine, several may only stop each other |
| `x86_vme` | Do page tables implement address maps, with no page lost or shared, no stale translation and the right kernel stack? x86_64, 2 CPUs, 2 spaces, 2 user pages, 3 pages for tables, 1 user or kernel context besides the boot ones | yes |
| `frames` | Does code go on with all its registers after any trap, and is the handler told what happened? 8 ports, stacks of 80 words | yes, but that it cannot tell a missing page from a protected one |
| `devices` | Do consoles, clocks, keyboard, disk, screens, sound, the x86 start, the register tables and native's memory do what is asked? | all but two: nemu's screen while nobody calls `__am_gpu_init`, and native's sound after a race or a partial write, as `PixelsIso` and `SoundPlayed` say |
| `nemu_audio` | Until when are driver and device a stream, what is COUNT afterwards, and which sounds does the driver accept? Ring of 4 bytes, words of 2 | until the device plays during an update of COUNT or a sound is not whole words; only sounds that fit into `bufsize`, which is 0 until `__am_audio_init`: as shipped, none |
| `libraries` | Where do klib, libgcc, `int64.c` and rvmini compute what C and RISC-V say, and what do they compute elsewhere? | libgcc and `int64.c` everywhere; rvmini but for `seqz` into `s0`; klib but for what `KlibIso` and `StdlibIso` name (section 2) |
| `klib_memmove` | ... `memmove` of areas that overlap? | no: bytes that both share are lost |

Properties worth a second look:

* `native_vme`: `Installed` relates the mmaps of a process to a list another
  process may be writing; `AllUnmapped` is the state between the two loops of
  `__am_switch`.
* `native_cte`: `PromiseSpec` is the whole promise.  `UserKsp` says that user
  code never runs with a `thiscpu->ksp` other than the top of its own kernel
  stack, although `kcontext` leaves the field as it finds it.  `Masked` says
  that no interrupt can come between the write of `thiscpu->ev` and its use.
* `native_mpe`: `PipeBalance` is why no child waits for ever: there is a byte
  written, or still to be written, for each.
* `x86_mpe`: `WorldStopped` holds even when a processor is in the middle of its
  own start or halt, up to the delivery of its INIT; `HaltPowersOff` says that
  the machine goes off with one exception, in which all the CPUs that called `halt`
  are stopped, by INITs they had on the way to each other (section 5).
* `x86_vme`: `UserSpace` holds although kernel contexts carry the CR3 and RSP0
  of other tasks from processor to processor; `TlbFresh` holds although `map`
  invalidates nothing, because of the load of CR3 on the way to user code.
* `frames`: `EventTold` says what the handler learns of each of the four page
  faults of user code: read or write, and nothing else.  `ResumesWhole` compares what a suspended thread will see with what
  it last did, at every moment of its suspension, so a frame that is overwritten
  is found when it happens; it fails for a swapped push, a wrong word offset, a
  copy in the wrong order.
* `devices`: `ConsoleFaithful` accounts for every character and key between the
  caller and the screen.  `ClocksCoherent` also says when spike's timer is
  wrong: when its low word wraps between the two reads, by 2^32 ticks, and at no
  other time.  `KeysInOrder` says what the missing test for a full queue costs:
  multiples of the ring, never a key out of order or twice.  `PixelsIso` asks
  x86-qemu and native for the picture, with every rectangle cut at the edges; nemu
  for the same until a picture is drawn that leaves the screen or, while the width
  is 0, has more than one line (`astray`).  Then all lines are on top of each
  other, and all that is left to say is where each pixel goes: `flat`, computed
  from above, the last line that meets an address.  `SoundPlayed` has three parts.
  `CountsPipe` accounts for count: it is off by the bytes stranded before
  `__am_audio_ctrl` and by the lost updates, no others.  `Reasons` says that the
  three damages (a write or a read that begins its buffer again, a read that
  overruns SDL's buffer) each happen for one reason only.  The third part is
  `AudioStream`, until `spoilt` is positive.  `Served` relates a
  table to the answers of its CONFIG handlers, which stand in other files;
  `SharedAsMeant` says of each step of `init_platform` that it touches nothing
  that is unmapped at that moment, and of each process which stores it sees.
* `nemu_audio`: `StreamSpec` fails if a byte is overwritten before it is played,
  played twice, or skipped while COUNT is right, and if COUNT is ever wrong by
  other bytes than the two causes account for.
* `libraries`: `KlibIso` (`StringsIso`) also says which bytes may *not* change;
  `MacrosFaithful` that all other registers and all memory in use are as before.

**Bounds.**  Two CPUs are enough for every interference in `NativeVme` and
`NativeCte`, where each interaction is between two CPUs and one shared object;
two spaces and two pages give lists of different lengths, switches between
them and a middle node.  Depth two is where a nested trap first meets an outer
Context.  In `X86Vme` two levels are a root and a table, and three pages let
one space have both while the other has its root, and run out when both want a
table.  Three processors in `X86Mpe` let one boot, one halt and the boot
processor do something else, or two stop each other and leave one behind.  The ring of two words with sounds of 2 to 5
bytes covers the empty, the wrapped and the full ring, a broken word and a sound
that never fits; `MaxPlay` is what the speaker asks for at once.  For what is proved (section 4) these bounds do not
matter.

Eighty words hold two frames of every port, for a nested trap, with what the
program and the handler push.
A key queue of 3 overflows twice with 8 keys (`MaxKeys`).  The clock has eleven
seconds to a minute, so that a second has two digits, and two of everything
else; `Starts` are moments before each of the carries, `MaxTicks` more than one
round of `timer_rtc`.  The screen of 3 x 2 with rectangles up to 3 wide has
every way of leaving it to the right and below; the scenes have a scaled
texture, two that overlap and a tree within a tree.  Memories of five bytes hold
two areas that overlap in every way; formats of four characters hold two
conversions, or one with text on either side.  Pages of two words
(`PG`) and a segment from word 5 on (`DataLo`) make the segment begin inside a
page and end at the end of another; three processes (`MaxProc`) are a parent, a
child and a grandchild.  `MaxCalls`, `MaxTyped`,
`MaxReads`, `MaxBlkio`, `MaxDraws`, `MaxDraw` and `MaxBlocks` bound how often a
program calls.  A pipe of two bytes with a `PIPE_BUF` of one is the smallest where a
write is whole, fails or is partial; `MaxDrift` 2 and `MaxSpoilt` 1 let both
threads lose updates and each of the three damages happen.  Pipes of 3 and 4 with buffers of 3
gave the same (13,995,551 and 5,351,863 states).  Among the sizes for `malloc` are two (`Sizes` 244 and 255) that wrap
around the 256 addresses.

**Fairness.**  `NativeVme`: `__am_switch` and `iret` run with signals blocked
and wait for nothing, so they go on.  `NativeMpe`: Linux schedules every process
that can run.  `X86Mpe`: a processor that is powered executes instructions
and interrupts arrive in the end; nothing makes anybody call `halt`.  `NemuAudio`: the CPU runs, and the speaker
keeps asking.  No fairness is assumed for the kernel, the application or the
arrival of interrupts.  The other modules have only safety properties and
assume none.

`CHECK_DEADLOCK FALSE` appears where the modelled program does stop: the MPE
runs and `x86_vme` (all processes dead, the power off, a panic), `devices`
(the bounds, power off, an overrun of SDL's buffer), `libraries` and `klib_memmove` (a
program that has made its call).

### Experiments by hand

The rest of the project's knowledge about what breaks is in variations of these
runs: they change a constant or add an invariant to one.

| Configuration | Property | What TLC finds |
|---|---|---|
| `NativeVme.cfg` with `Shared = TRUE` and only `AllUnmapped` | `AllUnmapped` | two CPUs in one space: the first to leave clears the shared `is_mapped` (`vme.c:65`), the other keeps the pages when it leaves |
| `NativeVme.cfg`, `Preempt = TRUE` | `AllUnmapped` | an interrupt in `map` before `vme.c:118` that switches away leaves the page behind |
| `X86Mpe.cfg` | `(halted # {}) ~> ~power` | CPU 0 and CPU 1 halt together, their INITs cross, CPU 2 runs on and the machine stays on (`mpe.c:51`) |
| `X86Vme.cfg`, `Arch = 32`, without `SYMMETRY` | `UserPaged` | i386: `vme_init` sets CR0.PG on the boot processor alone (`vme.c:113`), other CPUs run user contexts without their space |
| `NemuAudio.cfg` | `Stream!Spec` | a sound of three bytes is copied as two words (`audio.c:45`) and COUNT gets three: the speaker gets a byte of nobody |
| `NemuAudio.cfg` | `pc = "wait" ~> pc = "idle"` | nothing calls `__am_audio_init` (`audio.c:15`), `bufsize` stays 0 and the first sound waits for ever |
| the sound of `Devices.cfg` alone (`NativeAudioInit`, `NativeAudioNext`) | `play.at = "idle" /\ cb.at = "idle" => count = Len(pipe) - stranded` | a callback with nothing to play stores its 0 over what `audio_write` has just counted (`ioe/audio.c:27`): two bytes stay in the pipe for ever |
| the same | `SoundStream!Spec` | a partial write: `audio_write` begins again at the start of its buffer (`ioe/audio.c:36`), a byte is heard twice |
| the same, `PIPE_BUF = 2` | `Len(stream) <= cb.len` | no write is partial; count grows between the two looks at it (`ioe/audio.c:20`) and SDL's thread reads more than its buffer holds |
| `Devices.cfg`, `MasksWhilePolling = FALSE` | `KeysInOrder` | a keyboard interrupt in a poll passes the recursive mutex; the front of the queue overtakes its rear |
| `TrapFrames.cfg`, `Ports <- MCBroken` | `EntersAsAsked` | riscv32e-nemu: `kcontext` builds a frame of 32 registers (`cte.c:47`) for assembly that has 16 |

## 4. Proofs

The theorems hold for every value of the constants that satisfies the modules'
assumptions.  Each module of proofs states an inductive invariant (`IInv`; in
`Devices_proofs` one for each part, in `NativePlatform_proofs` `PlatformInv` and
`AudioInv`, in `X86Mpe_proofs` also `BootInv`)
with a comment on each of its conjuncts, has lemmas for each action and conjunct
it can disturb, and ends with the theorems.

`NativeVme_proofs`, for any number of CPUs, spaces, pages, frames and contexts,
under `SetsAssumption`, `KernelAssumption` and `Careful`:

* `VmeInvariant`: `Careful => (Spec => []IInv)`;
* `VmeSafety`, `VmeAllUnmapped`, `VmeMarked`: `Installed`, `AllUnmapped`, and
  `MarkedIsInstalled` (the shared flag is never set for a page that nobody has);
* `VmeContextKeepsSpace`: a trap never changes the space of a context.

None of the parts of `Careful` can be dropped: a run shows it for `Remap`, two of
the experiments for `Shared` and `Preempt`.

*Why an inductive invariant is needed.*  `Installed` speaks of the moments when
kernel code runs, and is silent about the switch that leads there.  `IInv` says
what a process shows at every step: `Active(c)` is the space whose pages it
shows, `Missing(c)` the pages it does not show yet or no longer, as a function
of the cursor: since the list is ordered by `born` (`ListComplete`,
`BornOnce`), the first loop has removed the pages born after the cursor's and
the second has not yet installed those born before.  `Shown` equates `mem` with
that, `Marked` does the same for `is_mapped`, `Unclaimed` says that a space
nobody shows has no marks, `OneUser` that lists do not change under a walk.
`Control` and `EnabledFirst` are the program counters.

`NativeCte_proofs`, for any number of CPUs and tasks, places of a program and
frames on a kernel stack, under the four assumptions of `NativeCte`:

* `NativeCteInvariant`: `Spec => []IInv`;
* `NativeStackExclusive`, `NativeUserKsp`, `NativeMasked`: the three invariants
  of the runs;
* `NativeImplementsContexts`: `Spec => PromiseSpec`, the refinement of `Contexts`.

The invariant ties three things together that the code keeps apart.  `Frames`
says whose code each live Context of a stack is: the k-th has k - 1 below it,
and only the first can be user code.  `Ksps` follows `thiscpu->ksp` on its way:
right while user code runs and until `irq_handle` saves it, then right in the
Context, and of no interest while kernel threads run, whose value is arbitrary.
`Chosen` and `Kept` say where the kernel's contexts are, which needs the
kernel's rule that a task is handed on only when its stack has been left;
`StackExclusive` is then inductive with `InIrqHandle`.  The step simulation maps
`Exception` and `Interrupt` to `Trap`, `Iret` to `Return`, computation to `Run`,
and `IrqHandle` and `HandlerReturn` to a stutter.

`NativeMpe_proofs`, for any number of CPUs and processes and any set of kinds of
application: `NativeMpeInvariant`, `NativeDistinctCpus`, `NativeIoeOnce`,
`NativePipeBalance`.  `Numbers` generalises `DistinctCpus` to children that have
not yet started, by their loop variable; `Balance` counts readers against bytes
in the pipe and bytes still to be written, for each stage of `mpe_init`;
`Devices` says that a byte in the pipe is evidence that the devices are ready.

`X86Mpe_proofs`, for any number of processors and calls of `halt`:
`MpeInvariant`, `MpeBootStackExclusive`, `MpeEntryAfterAll`,
`MpeWorldStopped`.  `Turn` says that before the first `halt` one processor boots
at a time, the one the boot processor has sent a STARTUP (the second STARTUP may
come when that CPU has long been running); `Ipis` where a CPU can be between two
interrupts of `__am_lapic_bootap`; `OneEarly` that no `halt` sends a second one to
the loader; `Passed` that each CPU whose loop in `__am_stop_the_world` has gone past
another has silenced it or has its INIT on the way, even if others halt at the
same time.

The same module has the boot processor's way from the boot block to `main`, for
sectors of any size that divide the addresses, any linked kernels, any tables of
processors and any memory: `BootInvariant` and `BootComesUp`, `BootSpec => []X86Up`,
where `BootSpec` is what `Devices` does while it looks at x86-qemu's start.
`Copying` says that the sector being read is the one that belongs at `ld.cur`
(`ld.sect` moves with it), `InMemory` what is in place: the arguments and the
header, the segments loaded so far (`SegmentsIn`) and the running one up to
`ld.cur` (`PartIn`).  A copy rewrites whole sectors, so it may touch the segment
before it; `OtherSegment` shows from `Linked` that it puts the same bytes there.
`Counted` says that `ptr` and `ncpu` are those of some prefix of the table, whose
entries have different lengths: `MPConfFact` unfolds the recursive function
`MPConf` entry by entry.  `Apic` says which of the eight writes to the local APIC
have taken place (`Written`).  The descriptors are put together from 16-bit
pieces; `Widths` reduces `H` to the four that `X86DescriptorsAssumption` allows,
and `BaseFact`, `LimitFact` and `EntryFact` then give back what was put in.

`X86Vme_proofs`, for any number of levels, indexes, processors, spaces, pages and
contexts, under the assumptions of `X86Vme` and for both `Arch`:

* `X86VmeInvariant`, and from it `X86PagesAccounted`, `X86UserSpace`,
  `X86TlbFresh`: the three invariants of the run;
* `X86ImplementsAddrMaps`: `Spec => MapsSpec`, the refinement of `AddrMaps`.

`Teardown` and `Lookup` walk the tables recursively; the invariant says what they
would find without walking: there is a place (space, path of indexes) for each
page in use, no two pages have the same, and an entry of the page at a place
points to the page at the place below (`Placed`).  Both walks are then unfolded
level by level (`LevelInduction`, from the library's fact that `<` is
well-founded; recursive *functions* allow it, since the claim for a level is a
set and not a predicate).  The kernel's pages are shared by all roots and have
no place.  `WalkLink` gives a place to the page it takes, `unprotect` takes
places away, and nothing else changes the tables.  In the refinement `protect`
and `unprotect` are `Protect` and `Unprotect`, `MapEnd` is `Map` or `Unmap`, and
the step that links a new table is a stutter because the table is empty.

`NemuAudio_proofs`, for any ring of whole words and any set of sounds:
`NemuAudioInvariant` and `NemuAudioImplementsStream`, `Spec => StreamSpec`, with
no assumption about who initialises the driver, how long the sounds are or when
the device plays.  `Asked` and `Law` hold always: `Law` is `CountLaw` with the
four multiples of the ring's size that the bounds allow, so that a step only
adds or subtracts one.  `Clean` holds until COUNT goes wrong: `Placed` says that
the driver's place follows the device's at the distance of the bytes counted
(`count`) and copied but not yet counted (`Copied`), `Filled` that these bytes
are in the ring in order.  Nothing goes round the ring twice in a step, so `%`
is `ModOnce`.  Until then `WriteCount` maps to `Submit`, `DevicePlay` to `Play`,
and always every other step to a stutter.

`Devices_proofs`, about five of the parts that `Devices` composes.  They share no
variable with the others, so what `Devices` does while it looks at one of them
is `KeySpec`, `ClocksSpec`, `DiskSpec`, `IoeSpec` or `ConsoleSpec`:

* `KeyQueueInvariant`, `KeysOrdered`: `MasksWhilePolling => (KeySpec => []KeysInOrder)`,
  for a ring of any length and any number of keys.  Keys have a sequence number;
  `Arrived` and `Taken` count them, `Passed` is the number of the key at the front,
  and `Slots` says that each waiting place holds the youngest key with that
  number modulo the length.  An overflow makes the front jump by whole rings,
  which is what `Multiple` says.  `Mutex` needs the mask: the experiment shows it.
* `ClocksInvariant`, `ClocksKeptCoherent`: `ClocksSpec => []ClocksCoherent`, for any
  date, any radixes and any width of a word.  `SeenDate` says of each piece of a
  date that it was true at some moment of the call; less than a minute passes in
  it, so that pieces read between two equal seconds are of one moment
  (`SameSecond`).  `SeenWord` does the same for the two words of a counter.
* `DiskInvariant`, `DiskMovesBlocks`: `DiskSpec => []BlocksMoved`, for a disk, blocks
  and registers of any size.  `Left(b, i)` says which words have not moved yet and
  `Place(b, i)` where in the buffer they belong; `StillMoves` is then true at
  every step, and each word takes one pair out of `Left`.  `Listens` says that the
  drive is never busy when its registers are written, `Told` that they hold the
  block's number, whose four digits lose nothing (`LbaFact`).
* `IoeInvariant`, `IoeServes`: `IoeSpec => []Served`, on all platforms.  `TableKept` says
  that closing holes changes no handler, `Knows` that the program's idea of its
  devices comes from handlers; `Tells` compares what each CONFIG handler promises
  with the table of its platform.
* `ConsolesInvariant`, `ConsolesFaithful`: `ConsoleSpec => []ConsoleFaithful`, for any
  number of harts, any characters and a queue of any length.  On spike the spin
  lock lets one hart in (`OneInside`), and `Sure` is what a hart relies on at each
  place.  Why no reply reaches the wrong caller is in two conjuncts that no line
  of the code states: `KeyAsked` (`console_buf` is -1 exactly when one key is asked
  for, whoever asked and wherever the request is now) and `SyscallAsked` (there is
  at most one answer to a system call, and its caller waits for it).  `KeysKept`
  and `AllShown` are then sums over all the places where a key or a character can
  be.  After `halt` only `LastLost` holds.  `KeyWalk` unfolds `Keys`, which is a
  recursive function over the words that the host has sent.

`NativePlatform_proofs`, for pages of any size, a writable segment that starts
anywhere in a page and any number of pages, user pages and processes:
`PlatformInvariant` and `PlatformShares`, `PlatformSpec => []SharedAsMeant`, where
`PlatformSpec` is what `Devices` does while it looks at native's memory.  The
property only speaks of loads; the invariant says where they come from.
`Mapped` lists the pages of each process with their frames, which changes with
the steps of `init_platform` (`DataFrame`: the frames of the executable, then
those of the file; `CpuFrame`: one for each process); `Contents` says that each
variable is in its frame, in `temp_mem`, or, between the copy and `munmap`, in
both.  `SameWord` (an address is its page and its offset) and `FramesFact` (frames
are told apart by who mapped them) then give that a store disturbs nothing else,
and that `RestoreData` puts each word back where it was, at any `pad`.

The same module has native's sound, for a pipe, buffers and callbacks of any size
and any number of races: `SoundInvariant`, `AudioSpec => []AudioInv`, and
`NativeImplementsStream`, `AudioSpec => SoundPlayed`, with no further assumption.
`Counted` is the balance at every place of the two threads: count, with what
`audio_write` has written and not yet counted and what is stranded, is what the
pipe has, with what the callback has read and not yet subtracted, and `drift`,
which the two stores change by what the other thread did since the load.
`Writing` and `Playing` say what each thread can rely on although the other may
store: count never grows between a load and a store of `audio_write`, never
shrinks in the callback, so a read that comes back short means that `drift` is
above what is stranded.  `Alone` says that before `__am_audio_ctrl` there is one
thread.  `Ordered` (SDL's buffer, the pipe and the sound still to come are in
order) is kept while `spoilt` is 0: `Good`, what each step must show, asks for it
and for a step of `AudioStream` only then.  The step that writes maps to `Submit`,
the one that hands SDL's buffer over to `Play`.

Only model-checked: liveness everywhere (`SwitchEnds`, `AllEnter`,
`HaltPowersOff`, `PlayEnds`), which is out of the prover's reach; what recursive
functions compute for every input (`libraries`), since it takes induction over
data; `TrapFrames`, where the interest is in one layout and the instances are
complete or nearly so; of the devices, `Displays`, whose scenes are drawn by
recursive operators.  TLC agrees with `IInv` of `NativeVme` on the
instance of `native_vme` (685,153 states), with `KeyInv`, `ClockInv`, `DiskInv`
(108,381), `IoeInv` (85,626), `ConsoleInv` (125,609) and `BootInv` (7,552) on the
constants of `Devices.cfg`, with `PlatformInv` for two pages, two user pages and two processes
(11,096), and with `AudioInv` on the constants
of `Devices.cfg` (1,499,519).

## 5. Observations on the code

Besides the findings in `PROJECT.json` and the table of experiments:

* `mpe_init` (native) calls `__am_ioe_init` without looking at `ioe_init_done`;
  an application that read a device before initialises its devices twice
  (`"early io"` in `Apps`).  A child whose `entry` returns goes on with the fork
  loop and initialises them again (`"returns"`); the panic guards only CPU 0.
  `IoeOnceIfTidy` is therefore stated for applications without these habits.
* An application that calls `ioe_init` only in `entry` (`"late init"`), and lets
  two CPUs do their first IO at once, has its devices initialised twice: both
  find `ioe_init_done` false in `do_io`.
* `fork` may return -1, which the loop of `mpe_init` takes for success: one CPU
  is missing and its byte stays in the pipe.
* `kcontext` on x86 leaves `cr3` NULL, so kernel contexts keep the tables of the
  task that ran before.  A kernel that calls `unprotect` for a task that exited
  must know that no other processor still has them loaded.
* The Context of a native trap is written below the stack pointer of the
  interrupted code; its last member, `redzone[128]` (`arch/native.h:16`), keeps it
  off the red zone of x86-64.  `SYSCALL_INSTR_LEN` is that of x86-64 on all three
  hosts.  Interrupts that hit library code are dropped, not deferred.
* Two CPUs of x86-qemu that call `halt` at the same time can stop each other: each
  sends INITs to all others in the order of their numbers and waits for none
  (`mpe.c:49-51`), so both may have one on the way.  Then nobody powers the machine
  off, and CPUs that neither had come to go on running.
* `MMAP_NONE` is 0 (`am.h:11`), so `ev.cause |= MMAP_NONE` (`x86/qemu/cte.c:81`)
  does nothing; the bit it tests, moreover, is set when the page was *not* missing.
* The gates of x86-qemu are trap gates: a second interrupt can come before the
  stub's `cli`.  `TrapFrames` shows that it does no harm.  Neither does it that
  `yield` on RISC-V overwrites `a7` or `a5`.
* The limit in the operand of `lgdt` is one byte too large, harmlessly.
  `__am_ioapic_enable` enables an interrupt before it writes its destination
  (`ioe.c:469`).  `__am_heap_init` takes the memory size from registers that
  count from 16 MiB on: with less, the end of the heap is wrong.
* `estimate_freq` (`ioe.c:74`) reads the clock once per second without the
  second look of `timer_rtc`.  The ports of CMOS and disk have no lock.
* `keylut` (`ioe.c:123`) gives 0x38 twice; the right ALT overwrites the left.
* nemu: `__am_gpu_init` is called by nobody, so `cfg_now.width` is 0 and every
  line of `__am_gpu_fbdraw` begins at column `x` of the first (`gpu.c:35`): a picture
  of several lines shows its last one, and only the first line of the screen is ever
  used, unless a picture goes beyond its end.  The function does not clip either.
* native sound: `count` is updated by two threads without a lock (`ioe/audio.c:27`,
  `ioe/audio.c:38`) and read twice (`ioe/audio.c:20`); what is lost stays unplayed in
  the pipe or is asked for in vain, and the callback can overrun SDL's buffer.
  Both loops pass the start of their buffer to each call (`ioe/audio.c:23`,
  `ioe/audio.c:36`), wrong from the second call that moves bytes on.  Bytes played before `__am_audio_ctrl` stay in the pipe for
  ever (`stranded`); a second call of it makes `count` negative when sound waits.
* native disk: a transfer of 0 blocks fails the assertion (`ioe/disk.c:39`), since
  `fread` of no bytes returns 0; without a disk file the call does nothing and says
  so to nobody.
* HTIF: `htif_console_getchar` returns the key or a negative number;
  `htif_poweroff` may overwrite a character that the host has not taken.
  `scripts/spike.mk` names `htif.S`, the source is `htif.c`.
* klib departs from the standards as `libraries` checks (section 2); besides,
  `memcpy` silently refuses areas that overlap, where the standard leaves open
  what happens, `malloc` aligns to 4 where a `long long` may want 8 and
  panics instead of returning NULL, and on RISC-V builds other than
  nemu's `heap_alloc_ptr` stays NULL, so that the first `malloc` panics.
* `seqz s0, rs` of rvmini restores `s0` over its result (`inst-replace.h:270`).
* rvmini writes to `_check_same_array`, which it puts in `.rodata`.
* npc, ysyxsoc, spike and nutshell have no CONFIG registers for the devices they
  lack: a program that asks whether there is a screen panics, and on nutshell,
  whose `ioe_init` leaves the holes of `lut` NULL (`nutshell/common/ioe.c:8`), it
  jumps to 0.
* qemu serves `AM_GPU_MEMCPY` and `AM_GPU_RENDER` although `has_accel` is false.
  nemu's handler of `AM_DISK_STATUS` writes nothing, so the program reads what
  was on its stack; it is told that there is no disk.
* `init_platform` computes the start of the writable segment from its end, `end`
  (`platform.c:101`), which is right for one writable segment that ends there.
* A parent that had SIGUSR1 blocked when it started the program would leave
  `uc_example` empty: `save_example_context` waits for no signal.
* `keylut` (`ioe.c:128`) has the codes of the arrow keys at INSERT, HOME, END and
  DELETE.
* loongarch's `cte.c:11` switches on an undeclared `ccode`.

## 6. Not modelled, and why

* **EVENT_ERROR traps** of native: the kernel gets a code and stops.  In
  `NativeCte` registers other than pc, sp, mode and mask are copied as a whole.
* **x86-qemu**: the search for the signature of the MP table (memory of the
  BIOS), the UART (one store), the keyboard (one port and a table),
  `estimate_freq` (a measurement), the wrappers of single instructions.
* **Register devices**: keyboard and `putch` of nemu and npc, the set-up of
  UARTs, native's timer and uart, which ask libc: one access each, no state.
  `Ioe` has their registers, the fields they write and their initialisation.
* **native start**: `smp`, `pgsize` and `mainargs` from the environment, and the
  failures of Linux calls, which are asserted not to happen.
* **riscv nemu VME**, **dummy**, `kcontext` and `map` of **mips, loongarch,
  x86-nemu**: empty bodies.
* **`libgcc2.h`, `longlong.h`, `unused.c`**: declarations and macros that none of
  the routines here expands, and stubs that panic.  **Build scripts**: no
  run-time state.

Preconditions taken from the kernel, the application or the linker rather than
from a test in the code: locks around a space (`X86Vme`), a task is handed on
when its stack is free (`NativeCte`, `X86Vme`), rectangles that begin on the
screen or at its edge and children inside their canvas, scratch memory that suffices, blocks
that exist, `__am_audio_ctrl` called once, divisors of `int64.c` other than 0.

## 7. What could come next

1. A second implementation of `Contexts` out of `TrapFrames`, with registers
   abstracted.
2. Two processors in `TrapFrames`, which share kernel stacks as in `NativeCte`.
