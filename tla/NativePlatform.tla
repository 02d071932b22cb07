---------------------------- MODULE NativePlatform ----------------------------
(***************************************************************************)
(* The memory of native: init_platform, which runs before main, and what    *)
(* the processes that are forked later share.  A process is a function from *)
(* pages to mappings; a frame is what fork shares or copies.  The variables *)
(* of the program are words of its writable segment, which init_platform    *)
(* takes away and puts back while it runs.                                  *)
(***************************************************************************)
EXTENDS Integers, Sequences, FiniteSets

CONSTANTS PG,          \* words in a page
          DataLo,      \* where the writable segment starts
          Pmem,        \* pages of physical memory
          UserPage,    \* pages of the user area
          MaxProc      \* processes there may be

VARIABLES step,        \* what init_platform does next; "main" once main runs
          vm,          \* [process -> [mapped page -> [frame, shared, prot]]]
          word,        \* [frame -> [offset -> what is there]]
          temp,        \* temp_mem: the words saved
          stack,       \* the pointers init_platform keeps on its stack
          blocked,     \* the signals that are blocked
          said,        \* what was last stored in each variable and page of memory
          mine,        \* what each process last stored in thiscpu
          user         \* which page each process has asked for at each user page

pvars == <<step, vm, word, temp, stack, blocked, said, mine, user>>

Nothing == "nothing"
Libc == 7            \* where the GOT leads to
File == 8            \* the descriptor of the memory file
Intr == {"SIGVTALRM", "SIGUSR1"}

-----------------------------------------------------------------------------
(* The writable segment, which ends at the linker's end. *)

\* GOT: how libraries are called; counter: the program's own variables
Statics == <<"counter", "pmem_fd", "thiscpu", "memcpy_libc", "intr_sigmask", "uc_example", "GOT">>

\* the names of pages are told from those of variables
ASSUME PlatformAssumption ==
  /\ PG \in Nat \ {0} /\ DataLo \in Nat /\ MaxProc \in Nat \ {0} /\ Pmem \cap UserPage = {}
  /\ (Pmem \cup UserPage) \cap ({"cpu", "trap", Nothing} \cup {Statics[i] : i \in DOMAIN Statics}) = {}

PMemsz == Len(Statics)
DataEnd == DataLo + PMemsz
Addr(v) == DataLo - 1 + CHOOSE i \in DOMAIN Statics : Statics[i] = v

vaddr == DataEnd - PMemsz
pad == vaddr % PG
vaddr_align == vaddr - pad
size == PMemsz + pad
SavedWords == vaddr_align .. vaddr_align + size - 1
PageOf(a) == <<"data", a \div PG>>
DataPages == {PageOf(a) : a \in SavedWords}

\* where a variable or a page is seen: thiscpu, the trap page, memory and user pages are symbols
Symbol(v) == <<"symbol", v>>
Place(v) == IF \E i \in DOMAIN Statics : Statics[i] = v
            THEN [page |-> PageOf(Addr(v)), off |-> Addr(v) % PG]
            ELSE [page |-> Symbol(v), off |-> 0]

-----------------------------------------------------------------------------
(* Linux.  *)

RW == {"read", "write"}
Procs == DOMAIN vm
Load(p, v) == word[vm[p][Place(v).page].frame][Place(v).off]
Stored(p, v, x) == [word EXCEPT ![vm[p][Place(v).page].frame][Place(v).off] = x]
Reaches(p, v) == Place(v).page \in DOMAIN vm[p] /\ RW \subseteq vm[p][Place(v).page].prot

\* new pages, each with a frame of its own; what was mapped there goes
Blank == [o \in 0 .. PG - 1 |-> 0]
Extend(m, n) == [x \in DOMAIN m \cup DOMAIN n |-> IF x \in DOMAIN n THEN n[x] ELSE m[x]]
Mmap(pages, shared, prot) ==
  /\ vm' = [vm EXCEPT ![1] = Extend(@, [x \in pages |->
                [frame |-> <<step, x>>, shared |-> shared, prot |-> prot]])]
  /\ word' = Extend(word, [f \in {<<step, x>> : x \in pages} |-> Blank])
Munmap(p, pages) == vm' = [vm EXCEPT ![p] = [x \in DOMAIN @ \ pages |-> @[x]]]

\* a process with frames of its own for what it does not share
Fork(p) ==
  LET q == Cardinality(Procs) + 1
      own == {x \in DOMAIN vm[p] : ~vm[p][x].shared}
      frame(x) == IF x \in own THEN <<"fork", q, x>> ELSE vm[p][x].frame
  IN /\ step = "main" /\ q <= MaxProc
     /\ vm' = Extend(vm, [i \in {q} |-> [x \in DOMAIN vm[p] |-> [vm[p][x] EXCEPT !.frame = frame(x)]]])
     /\ word' = Extend(word, [f \in {<<"fork", q, x>> : x \in own} |-> word[vm[p][f[3]].frame]])
     /\ mine' = Extend(mine, [i \in {q} |-> mine[p]])
     /\ user' = Extend(user, [i \in {q} |-> user[p]])
     /\ UNCHANGED <<step, temp, stack, blocked, said>>

-----------------------------------------------------------------------------
(* init_platform: the variables each of its steps reads or writes.           *)

Touches ==
  [pmem_fd |-> {"GOT", "pmem_fd"}, pmem |-> {"GOT", "pmem_fd"}, cpu |-> {"GOT"},
   thiscpu |-> {"thiscpu", "cpu"}, trap |-> {"GOT"}, memcpy |-> {"GOT", "memcpy_libc"},
   save |-> {"GOT", "memcpy_libc"}, keep |-> {"GOT", "memcpy_libc"}, munmap |-> {"GOT"},
   mmap |-> {}, restore |-> {}, drop |-> {"GOT"}, signals |-> {"GOT", "intr_sigmask"},
   altstack |-> {"GOT", "thiscpu", "cpu"}, raise |-> {"GOT", "memcpy_libc", "uc_example"},
   example |-> {"memcpy_libc", "uc_example", "intr_sigmask"},
   iset |-> {"GOT", "memcpy_libc", "intr_sigmask"}]

Able ==
  /\ \A v \in Touches[step] : Reaches(1, v)
  /\ "GOT" \in Touches[step] => Load(1, "GOT") = Libc
Does(now, next) == step = now /\ Able /\ step' = next /\ UNCHANGED <<mine, user>>
Keeps == UNCHANGED <<temp, stack, blocked>>
Sets(v, x) == word' = Stored(1, v, x) /\ said' = [said EXCEPT ![v] = x]

NativePlatformInit ==
  /\ step = "pmem_fd" /\ temp = <<>> /\ stack = <<>> /\ blocked = {}
  /\ vm = [p \in {1} |-> [x \in DataPages |->
             [frame |-> <<"exec", x>>, shared |-> FALSE, prot |-> RW]]]
  /\ said = [v \in Pmem \cup {Statics[i] : i \in DOMAIN Statics} |-> IF v = "GOT" THEN Libc ELSE 0]
  /\ word = [f \in {<<"exec", x>> : x \in DataPages} |->
               [o \in 0 .. PG - 1 |-> IF f[2][2] * PG + o = Addr("GOT") THEN Libc ELSE 0]]
  /\ mine = [p \in {1} |-> 0] /\ user = [p \in {1} |-> [va \in UserPage |-> Nothing]]

SetPmemFd == Does("pmem_fd", "pmem") /\ Sets("pmem_fd", File) /\ UNCHANGED vm /\ Keeps
MapPmem ==
  /\ Does("pmem", "cpu") /\ Load(1, "pmem_fd") = File /\ Mmap({Symbol(m) : m \in Pmem}, TRUE, RW)
  /\ UNCHANGED said /\ Keeps
MapCpu == Does("cpu", "thiscpu") /\ Mmap({Symbol("cpu")}, FALSE, RW) /\ UNCHANGED said /\ Keeps
SetThiscpu == Does("thiscpu", "trap") /\ Sets("thiscpu", "cpu") /\ UNCHANGED vm /\ Keeps
MapTrapPage == Does("trap", "memcpy") /\ Mmap({Symbol("trap")}, TRUE, {}) /\ UNCHANGED said /\ Keeps
FindMemcpy == Does("memcpy", "save") /\ Sets("memcpy_libc", "memcpy") /\ UNCHANGED vm /\ Keeps

\* the writable segment is saved, unmapped, mapped again and restored
SaveData ==
  /\ Does("save", "keep")
  /\ temp' = [a \in SavedWords |-> word[vm[1][PageOf(a)].frame][a % PG]]
  /\ UNCHANGED <<vm, word, said, stack, blocked>>
KeepPointers ==
  /\ Does("keep", "munmap") /\ stack' = [mmap |-> "mmap", memcpy |-> Load(1, "memcpy_libc")]
  /\ UNCHANGED <<vm, word, said, temp, blocked>>
UnmapData == Does("munmap", "mmap") /\ Munmap(1, DataPages) /\ UNCHANGED <<word, said>> /\ Keeps

\* mutant: the segment stays private
RemapDataPrivate ==
  Does("mmap", "restore") /\ stack.mmap = "mmap" /\ Mmap(DataPages, FALSE, RW) /\ UNCHANGED said /\ Keeps

RemapData ==
  Does("mmap", "restore") /\ stack.mmap = "mmap" /\ Mmap(DataPages, TRUE, RW) /\ UNCHANGED said /\ Keeps
RestoreData ==
  /\ Does("restore", "drop") /\ stack.memcpy = "memcpy"
  /\ word' = [f \in DOMAIN word |-> [o \in 0 .. PG - 1 |->
       IF \E a \in SavedWords : f = vm[1][PageOf(a)].frame /\ o = a % PG
       THEN temp[CHOOSE a \in SavedWords : f = vm[1][PageOf(a)].frame /\ o = a % PG] ELSE word[f][o]]]
  /\ UNCHANGED <<vm, said>> /\ Keeps
DropTemp == Does("drop", "signals") /\ temp' = <<>> /\ UNCHANGED <<vm, word, said, stack, blocked>>

SetSigmask == Does("signals", "altstack") /\ Sets("intr_sigmask", Intr) /\ UNCHANGED vm /\ Keeps
\* handlers run on a stack in thiscpu
setup_sigaltstack == Does("altstack", "raise") /\ UNCHANGED <<vm, word, said>> /\ Keeps
\* the handler of SIGUSR1 copies its own context, if the signal comes
save_example_context ==
  /\ Does("raise", "example") /\ "SIGUSR1" \notin blocked
  /\ Sets("uc_example", [segments |-> TRUE, mask |-> {}]) /\ UNCHANGED vm /\ Keeps
SetExample ==
  /\ Does("example", "iset")
  /\ Sets("uc_example", [segments |-> Load(1, "uc_example").segments, mask |-> Load(1, "intr_sigmask")])
  /\ UNCHANGED vm /\ Keeps
IsetOff ==
  /\ Does("iset", "main") /\ blocked' = Load(1, "intr_sigmask")
  /\ UNCHANGED <<vm, word, said, temp, stack>>

-----------------------------------------------------------------------------
(* main and what it forks: programs that store, and the kernel's map().       *)

Stores == {"counter", "cpu"} \cup Pmem \cup UserPage

\* any process may store its number anywhere it has memory
Store(p, v) ==
  /\ step = "main" /\ Reaches(p, v)
  /\ word' = Stored(p, v, p)
  /\ IF v = "cpu" THEN mine' = [mine EXCEPT ![p] = p] /\ UNCHANGED said
     ELSE /\ said' = [said EXCEPT ![IF v \in UserPage THEN user[p][v] ELSE v] = p]
          /\ UNCHANGED mine
  /\ UNCHANGED <<step, vm, temp, stack, blocked, user>>

\* the file is mapped at its page for pa, whatever the process has at va
__am_pmem_map(p, va, pa) ==
  /\ step = "main" /\ Load(p, "pmem_fd") = File
  /\ vm' = [vm EXCEPT ![p] = Extend(@, [x \in {Symbol(va)} |->
               [frame |-> vm[p][Symbol(pa)].frame, shared |-> TRUE, prot |-> RW]])]
  /\ user' = [user EXCEPT ![p][va] = pa]
  /\ UNCHANGED <<step, word, temp, stack, blocked, said, mine>>
__am_pmem_unmap(p, va) ==
  /\ step = "main" /\ Reaches(p, va) /\ Munmap(p, {Symbol(va)})
  /\ user' = [user EXCEPT ![p][va] = Nothing]
  /\ UNCHANGED <<step, word, temp, stack, blocked, said, mine>>

NativePlatformNext ==
  \/ SetPmemFd \/ MapPmem \/ MapCpu \/ SetThiscpu \/ MapTrapPage \/ FindMemcpy
  \/ SaveData \/ KeepPointers \/ UnmapData \/ RemapData \/ RestoreData \/ DropTemp
  \/ SetSigmask \/ setup_sigaltstack \/ save_example_context \/ SetExample \/ IsetOff
  \/ \E p \in Procs : \/ Fork(p)
                      \/ \E v \in Stores : Store(p, v)
                      \/ \E va \in UserPage : \/ __am_pmem_unmap(p, va)
                                            \/ \E pa \in Pmem : __am_pmem_map(p, va, pa)

-----------------------------------------------------------------------------
(* init_platform touches nothing that it has unmapped and calls nothing       *)
(* through a lost pointer.  When main runs, variables and memory are the same *)
(* in all processes, whoever stored last and at whichever address, thiscpu is *)
(* each process's own, and a user page shows what was mapped there, in the    *)
(* process that mapped it and no other.                                      *)
SharedAsMeant ==
  IF step # "main" THEN Able
  ELSE /\ blocked = Intr /\ said["uc_example"] = [segments |-> TRUE, mask |-> Intr]
       /\ \A p \in Procs :
            /\ \A v \in DOMAIN said : Load(p, v) = said[v]
            /\ Load(p, "cpu") = mine[p] /\ vm[p][Symbol("trap")].prot = {}
            /\ \A va \in UserPage : IF user[p][va] = Nothing THEN Symbol(va) \notin DOMAIN vm[p]
                                    ELSE Load(p, va) = said[user[p][va]]
=============================================================================
