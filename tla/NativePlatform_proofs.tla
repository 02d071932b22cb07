------------------------ MODULE NativePlatform_proofs ------------------------
(* Proofs about native: its memory (NativePlatform), for pages of any size, a *)
(* writable segment anywhere, and any number of pages and processes; and its  *)
(* sound (NativeAudio), for pipes, buffers and callbacks of any size.         *)
EXTENDS NativePlatform, NativeAudio, FiniteSetTheorems, SequenceTheorems, WellFoundedInduction, TLAPS

\* what Devices does while it looks at native's memory
PlatformSpec == NativePlatformInit /\ [][NativePlatformNext]_pvars

Variables == {"counter", "pmem_fd", "thiscpu", "memcpy_libc", "intr_sigmask", "uc_example", "GOT"}

-----------------------------------------------------------------------------
(* Which steps of init_platform are done.                                    *)

Steps == DOMAIN Touches \cup {"main"}
AfterPmem == step \notin {"pmem_fd", "pmem"}
AfterCpu == AfterPmem /\ step # "cpu"
AfterTrap == AfterCpu /\ step \notin {"thiscpu", "trap"}
AfterMemcpy == AfterTrap /\ step # "memcpy"
AfterKeep == AfterMemcpy /\ step \notin {"save", "keep"}
Remapped == AfterKeep /\ step \notin {"munmap", "mmap"}
Restored == Remapped /\ step # "restore"

-----------------------------------------------------------------------------
(* What is mapped. *)

\* the frames of variables, memory and thiscpu
DataFrame(x) == <<IF Remapped THEN "mmap" ELSE "exec", x>>
PmemFrame(m) == <<"pmem", Symbol(m)>>
CpuFrame(p) == IF p = 1 THEN <<"cpu", Symbol("cpu")>> ELSE <<"fork", p, Symbol("cpu")>>
Maps(f, sh, pr) == [frame |-> f, shared |-> sh, prot |-> pr]

\* before main there is one process, and it has no user pages
OneProcess == step # "main" => Procs = {1} /\ blocked = {}
Numbered ==
  /\ \E n \in Nat \ {0} : Procs = 1..n
  /\ DOMAIN mine = Procs /\ DOMAIN user = Procs
  /\ \A p \in Procs : user[p] \in [UserPage -> Pmem \cup {Nothing}]
  /\ step # "main" => \A va \in UserPage : user[1][va] = Nothing

\* the pages of a process, and nothing else: the segment is away for one step
HasData == step # "mmap"
Mapped(p) ==
  /\ DOMAIN vm[p] =    (IF HasData THEN DataPages ELSE {})
                  \cup (IF AfterPmem THEN {Symbol(m) : m \in Pmem} ELSE {})
                  \cup (IF AfterCpu THEN {Symbol("cpu")} ELSE {})
                  \cup (IF AfterTrap THEN {Symbol("trap")} ELSE {})
                  \cup {Symbol(va) : va \in {u \in UserPage : user[p][u] # Nothing}}
  /\ HasData => \A x \in DataPages : vm[p][x] = Maps(DataFrame(x), Remapped, RW)
  /\ AfterPmem => \A m \in Pmem : vm[p][Symbol(m)] = Maps(PmemFrame(m), TRUE, RW)
  /\ AfterCpu => vm[p][Symbol("cpu")] = Maps(CpuFrame(p), FALSE, RW)
  /\ AfterTrap => vm[p][Symbol("trap")] = Maps(<<"trap", Symbol("trap")>>, TRUE, {})
  /\ \A va \in UserPage : user[p][va] # Nothing =>
       vm[p][Symbol(va)] = Maps(PmemFrame(user[p][va]), TRUE, RW)

-----------------------------------------------------------------------------
(* What is stored. *)

FrameIn(w, f) == f \in DOMAIN w /\ DOMAIN w[f] = 0 .. PG - 1
IsFrame(f) == FrameIn(word, f)
Frames ==
  /\ HasData => \A x \in DataPages : IsFrame(DataFrame(x))
  /\ AfterPmem => \A m \in Pmem : IsFrame(PmemFrame(m))
  /\ AfterCpu => \A p \in Procs : IsFrame(CpuFrame(p))

\* a variable is where it was, in temp_mem, or in both
InTemp == AfterMemcpy /\ step # "save" /\ ~Restored
InPlace == HasData /\ step # "restore"
Contents ==
  /\ DOMAIN said = Pmem \cup Variables
  /\ InPlace => \A v \in Variables : word[DataFrame(PageOf(Addr(v)))][Addr(v) % PG] = said[v]
  /\ InTemp => DOMAIN temp = SavedWords /\ \A v \in Variables : temp[Addr(v)] = said[v]
  /\ IF AfterPmem THEN \A m \in Pmem : word[PmemFrame(m)][0] = said[m]
     ELSE \A m \in Pmem : said[m] = 0
  /\ IF AfterCpu THEN \A p \in Procs : word[CpuFrame(p)][0] = mine[p] ELSE mine[1] = 0

\* what init_platform has stored
Values ==
  /\ said["GOT"] = Libc
  /\ step # "pmem_fd" => said["pmem_fd"] = File
  /\ step \in {"altstack", "raise", "example", "iset", "main"} => said["intr_sigmask"] = Intr
  /\ step = "example" => said["uc_example"] = [segments |-> TRUE, mask |-> {}]
  /\ step \in {"iset", "main"} => said["uc_example"] = [segments |-> TRUE, mask |-> Intr]
  /\ step = "main" => blocked = Intr

PlatformInv ==
  /\ step \in Steps /\ OneProcess /\ Numbered /\ (\A p \in Procs : Mapped(p))
  /\ Frames /\ Contents /\ Values

-----------------------------------------------------------------------------
(* Where variables, pages and frames are.                                    *)

LEMMA DivMod ==
  ASSUME NEW a \in Int, NEW n \in Nat \ {0}
  PROVE  /\ a % n \in 0 .. n-1 /\ a \div n \in Int /\ a = n * (a \div n) + (a % n)
  BY Z3

LEMMA StaticsFact ==
  /\ {Statics[i] : i \in DOMAIN Statics} = Variables
  /\ \A v : (\E i \in DOMAIN Statics : Statics[i] = v) <=> v \in Variables
  /\ \A v \in Variables : Addr(v) \in DataLo .. DataLo + 6
  /\ \A u, v \in Variables : Addr(u) = Addr(v) => u = v
<1>0. DataLo \in Int BY PlatformAssumption
<1>1. DOMAIN Statics = 1..7 BY DEF Statics
<1>2. /\ Statics[1] = "counter" /\ Statics[2] = "pmem_fd" /\ Statics[3] = "thiscpu"
      /\ Statics[4] = "memcpy_libc" /\ Statics[5] = "intr_sigmask" /\ Statics[6] = "uc_example"
      /\ Statics[7] = "GOT"
  BY DEF Statics
<1>3. \A i \in 1..7 : i = 1 \/ i = 2 \/ i = 3 \/ i = 4 \/ i = 5 \/ i = 6 \/ i = 7 OBVIOUS
<1>4. \A v : (\E i \in DOMAIN Statics : Statics[i] = v) <=> v \in Variables
  <2>1. \A i \in DOMAIN Statics : Statics[i] \in Variables BY <1>1, <1>2, <1>3 DEF Variables
  <2>2. 1 \in 1..7 /\ 2 \in 1..7 /\ 3 \in 1..7 /\ 4 \in 1..7 /\ 5 \in 1..7 /\ 6 \in 1..7 /\ 7 \in 1..7
    OBVIOUS
  <2>3. \A v \in Variables : \E i \in DOMAIN Statics : Statics[i] = v
    BY <1>1, <1>2, <2>2 DEF Variables
  <2> QED BY <2>1, <2>3
<1>5. {Statics[i] : i \in DOMAIN Statics} = Variables BY <1>4
<1>6. ASSUME NEW v \in Variables
      PROVE  \E i \in 1..7 : Statics[i] = v /\ Addr(v) = DataLo - 1 + i
  <2> DEFINE i == CHOOSE j \in DOMAIN Statics : Statics[j] = v
  <2>1. i \in 1..7 /\ Statics[i] = v BY <1>1, <1>4
  <2> HIDE DEF i
  <2>2. Addr(v) = DataLo - 1 + i BY DEF Addr, i
  <2> QED BY <2>1, <2>2
<1>7. \A v \in Variables : Addr(v) \in DataLo .. DataLo + 6 BY <1>0, <1>6
<1>8. ASSUME NEW u \in Variables, NEW v \in Variables, Addr(u) = Addr(v) PROVE u = v
  <2>1. PICK i \in 1..7 : Statics[i] = u /\ Addr(u) = DataLo - 1 + i BY <1>6
  <2>2. PICK j \in 1..7 : Statics[j] = v /\ Addr(v) = DataLo - 1 + j BY <1>6
  <2>3. DataLo - 1 + i = DataLo - 1 + j BY <1>8, <2>1, <2>2, Zenon
  <2>4. i = j BY <1>0, <2>3
  <2> QED BY <2>1, <2>2, <2>4
<1> QED BY <1>4, <1>5, <1>7, <1>8

LEMMA SegmentFact ==
  /\ SavedWords \subseteq Int /\ \A v \in Variables : Addr(v) \in SavedWords
  /\ \A v \in Variables : PageOf(Addr(v)) \in DataPages /\ Addr(v) % PG \in 0 .. PG-1
  /\ \A a \in SavedWords : a % PG \in 0 .. PG-1 /\ PageOf(a) \in DataPages
<1>0. PG \in Nat \ {0} /\ DataLo \in Nat BY PlatformAssumption
<1>1. PMemsz = 7 BY DEF PMemsz, Statics
<1>2. vaddr = DataLo BY <1>0, <1>1 DEF vaddr, DataEnd
<1>3. pad \in 0 .. PG-1 BY <1>0, <1>2, DivMod DEF pad
<1> HIDE DEF pad
<1>4. SavedWords = DataLo - pad .. DataLo + 6
  <2>1. SavedWords = DataLo - pad .. (DataLo - pad) + (7 + pad) - 1
    BY <1>1, <1>2 DEF SavedWords, vaddr_align, size
  <2>2. (DataLo - pad) + (7 + pad) - 1 = DataLo + 6 BY <1>0, <1>3
  <2> QED BY <2>1, <2>2
<1>5. SavedWords \subseteq Int BY <1>0, <1>3, <1>4
<1>6. \A v \in Variables : Addr(v) \in SavedWords BY <1>0, <1>3, <1>4, StaticsFact
<1>7. ASSUME NEW a \in SavedWords PROVE a % PG \in 0 .. PG-1 /\ PageOf(a) \in DataPages
  <2>1. a \in Int BY <1>5
  <2>2. a % PG \in 0 .. PG-1 BY <1>0, <2>1, DivMod
  <2> QED BY <2>2 DEF DataPages
<1> QED BY <1>5, <1>6, <1>7, Zenon

LEMMA SameWord ==
  ASSUME NEW a \in SavedWords, NEW b \in SavedWords, PageOf(a) = PageOf(b), a % PG = b % PG
  PROVE  a = b
<1>0. PG \in Nat \ {0} /\ a \in Int /\ b \in Int BY PlatformAssumption, SegmentFact
<1>1. a = PG * (a \div PG) + (a % PG) BY <1>0, DivMod
<1>2. b = PG * (b \div PG) + (b % PG) BY <1>0, DivMod
<1>3. a \div PG = b \div PG BY DEF PageOf
<1> QED BY <1>1, <1>2, <1>3

LEMMA SymbolFact ==
  /\ \A u, v : Symbol(u) = Symbol(v) => u = v
  /\ \A v : Symbol(v) \notin DataPages
<1>1. ASSUME NEW u, NEW v, Symbol(u) = Symbol(v) PROVE u = v
  <2>1. <<"symbol", u>>[2] = <<"symbol", v>>[2] BY <1>1 DEF Symbol
  <2> QED BY <2>1
<1>2. ASSUME NEW v, NEW a, Symbol(v) = PageOf(a) PROVE FALSE
  <2>1. <<"symbol", v>>[1] = <<"data", a \div PG>>[1] BY <1>2 DEF Symbol, PageOf
  <2> QED BY <2>1
<1> QED BY <1>1, <1>2 DEF DataPages

LEMMA NamesFact ==
  /\ "cpu" \notin Pmem \cup UserPage /\ "trap" \notin Pmem \cup UserPage /\ Nothing \notin Pmem
  /\ \A v \in Variables : v \notin Pmem \cup UserPage
  /\ \A m \in Pmem : m \notin UserPage
  /\ "cpu" \notin Variables /\ "trap" \notin Variables
<1>1. "cpu" \notin Variables /\ "trap" \notin Variables BY DEF Variables
<1> QED BY <1>1, PlatformAssumption, StaticsFact

LEMMA PlaceFact ==
  /\ 0 \in 0 .. PG-1
  /\ \A v \in Variables : Place(v).page = PageOf(Addr(v)) /\ Place(v).off = Addr(v) % PG
  /\ \A v : v \notin Variables => Place(v).page = Symbol(v) /\ Place(v).off = 0
<1>1. 0 \in 0 .. PG-1 BY PlatformAssumption
<1>2. ASSUME NEW v \in Variables PROVE Place(v) = [page |-> PageOf(Addr(v)), off |-> Addr(v) % PG]
  BY StaticsFact DEF Place
<1>3. ASSUME NEW v, v \notin Variables PROVE Place(v) = [page |-> Symbol(v), off |-> 0]
  BY <1>3, StaticsFact DEF Place
<1> QED BY <1>1, <1>2, <1>3

\* frames are told apart by where they were mapped
LEMMA FramesFact ==
  /\ \A x, y : DataFrame(x) = DataFrame(y) => x = y
  /\ \A m, n : PmemFrame(m) = PmemFrame(n) => m = n
  /\ \A p, q : CpuFrame(p) = CpuFrame(q) => p = q
  /\ \A x, m : DataFrame(x) # PmemFrame(m)
  /\ \A x, p : DataFrame(x) # CpuFrame(p)
  /\ \A m, p : PmemFrame(m) # CpuFrame(p)
<1>1. ASSUME NEW x, NEW y, DataFrame(x) = DataFrame(y) PROVE x = y
  <2>1. DataFrame(x)[2] = x /\ DataFrame(y)[2] = y BY DEF DataFrame
  <2> QED BY <1>1, <2>1
<1>2. ASSUME NEW m, NEW n, PmemFrame(m) = PmemFrame(n) PROVE m = n
  <2>1. PmemFrame(m)[2] = Symbol(m) /\ PmemFrame(n)[2] = Symbol(n) BY DEF PmemFrame
  <2> QED BY <1>2, <2>1, SymbolFact
<1> DEFINE fork(p) == <<"fork", p, Symbol("cpu")>>
           first == <<"cpu", Symbol("cpu")>>
<1>3. \A p : fork(p)[1] = "fork" /\ fork(p)[2] = p OBVIOUS
<1>4. first[1] = "cpu" OBVIOUS
<1>5. \A p : CpuFrame(p) = IF p = 1 THEN first ELSE fork(p) BY DEF CpuFrame
<1> HIDE DEF first, fork
<1>6. \A p, q : CpuFrame(p) = CpuFrame(q) => p = q BY <1>3, <1>4, <1>5
<1>7. \A p : CpuFrame(p)[1] \in {"cpu", "fork"} BY <1>3, <1>4, <1>5
<1>8. \A x : DataFrame(x)[1] \in {"mmap", "exec"} BY DEF DataFrame
<1>9. \A m : PmemFrame(m)[1] = "pmem" BY DEF PmemFrame
<1>10. /\ \A x, m : DataFrame(x) # PmemFrame(m)
       /\ \A x, p : DataFrame(x) # CpuFrame(p)
       /\ \A m, p : PmemFrame(m) # CpuFrame(p)
  <2>1. \A x, m : DataFrame(x)[1] # PmemFrame(m)[1] BY <1>8, <1>9
  <2>2. \A x, p : DataFrame(x)[1] # CpuFrame(p)[1] BY <1>7, <1>8
  <2>3. \A m, p : PmemFrame(m)[1] # CpuFrame(p)[1] BY <1>7, <1>9
  <2> HIDE DEF DataFrame, PmemFrame, CpuFrame
  <2> QED BY <2>1, <2>2, <2>3
<1> QED BY <1>1, <1>2, <1>6, <1>10

-----------------------------------------------------------------------------
(* What a store, a call of mmap and a step that maps nothing leave alone.    *)

LEMMA LocalStore ==
  ASSUME NEW f, NEW o \in 0 .. PG-1, NEW x, IsFrame(f), word' = [word EXCEPT ![f][o] = x]
  PROVE  /\ \A g : IsFrame(g) => IsFrame(g)'
         /\ word'[f][o] = x
         /\ \A g, b : IsFrame(g) /\ b \in 0 .. PG-1 /\ (g # f \/ b # o) => word'[g][b] = word[g][b]
<1>1. f \in DOMAIN word /\ DOMAIN word[f] = 0 .. PG-1 BY DEF IsFrame, FrameIn
<1>2. DOMAIN word' = DOMAIN word /\ word'[f] = [word[f] EXCEPT ![o] = x] BY <1>1
<1>3. \A g \in DOMAIN word : g # f => word'[g] = word[g] BY <1>1
<1>4. DOMAIN word'[f] = 0 .. PG-1 /\ word'[f][o] = x
      /\ \A b \in 0 .. PG-1 : b # o => word'[f][b] = word[f][b]
  BY <1>1, <1>2
<1> QED BY <1>1, <1>2, <1>3, <1>4, Zenon DEF IsFrame, FrameIn

LEMMA MmapFact ==
  ASSUME Procs = {1}, NEW pages, NEW sh, NEW pr, Mmap(pages, sh, pr)
  PROVE  /\ Procs' = {1} /\ DOMAIN vm'[1] = DOMAIN vm[1] \cup pages
         /\ \A x \in pages : vm'[1][x] = Maps(<<step, x>>, sh, pr)
         /\ \A x \in DOMAIN vm[1] \ pages : vm'[1][x] = vm[1][x]
         /\ \A x \in pages : FrameIn(word', <<step, x>>) /\ word'[<<step, x>>] = Blank
         /\ \A f : FrameIn(word, f) => FrameIn(word', f)
         /\ \A f \in DOMAIN word : (\A x \in pages : f # <<step, x>>) => word'[f] = word[f]
<1> DEFINE n == [x \in pages |-> [frame |-> <<step, x>>, shared |-> sh, prot |-> pr]]
           w == [f \in {<<step, x>> : x \in pages} |-> Blank]
<1>1. vm' = [vm EXCEPT ![1] = Extend(@, n)] /\ word' = Extend(word, w) BY DEF Mmap
<1>2. vm'[1] = Extend(vm[1], n) /\ Procs' = {1} BY <1>1 DEF Procs
<1>3. DOMAIN n = pages /\ \A x \in pages : n[x] = Maps(<<step, x>>, sh, pr) BY DEF Maps
<1>4. DOMAIN w = {<<step, x>> : x \in pages} /\ \A f \in DOMAIN w : w[f] = Blank OBVIOUS
<1> HIDE DEF n, w
<1>5. /\ DOMAIN vm'[1] = DOMAIN vm[1] \cup pages
      /\ \A x \in pages : vm'[1][x] = n[x]
      /\ \A x \in DOMAIN vm[1] \ pages : vm'[1][x] = vm[1][x]
  BY <1>2, <1>3 DEF Extend
<1>6. /\ DOMAIN word' = DOMAIN word \cup DOMAIN w
      /\ \A f \in DOMAIN w : word'[f] = Blank
      /\ \A f \in DOMAIN word \ DOMAIN w : word'[f] = word[f]
  BY <1>1, <1>4 DEF Extend
<1>7. DOMAIN Blank = 0 .. PG-1 BY DEF Blank
<1>9. \A f : FrameIn(word, f) => FrameIn(word', f) BY <1>6, <1>7 DEF FrameIn
<1>10. \A x \in pages : FrameIn(word', <<step, x>>) /\ word'[<<step, x>>] = Blank
  BY <1>4, <1>6, <1>7 DEF FrameIn
<1>11. \A f \in DOMAIN word : (\A x \in pages : f # <<step, x>>) => word'[f] = word[f] BY <1>4, <1>6
<1> QED BY <1>2, <1>3, <1>5, <1>9, <1>10, <1>11

\* a step that maps nothing
MapsNothing ==
  /\ (HasData' <=> HasData) /\ (AfterPmem' <=> AfterPmem) /\ (AfterCpu' <=> AfterCpu)
  /\ (AfterTrap' <=> AfterTrap) /\ (Remapped' <=> Remapped)

LEMMA SameMaps ==
  ASSUME \A p \in Procs : Mapped(p), MapsNothing, UNCHANGED <<vm, user>>
  PROVE  /\ \A p \in Procs' : Mapped(p)'
         /\ \A x : DataFrame(x)' = DataFrame(x)
<1>1. \A x : DataFrame(x)' = DataFrame(x) BY DEF MapsNothing, DataFrame
<1> SUFFICES ASSUME NEW p \in Procs PROVE Mapped(p)' BY <1>1 DEF Procs
<1>2. Mapped(p) OBVIOUS
<1>4. DOMAIN vm'[p] =    (IF HasData' THEN DataPages ELSE {})
                  \cup (IF AfterPmem' THEN {Symbol(m) : m \in Pmem} ELSE {})
                  \cup (IF AfterCpu' THEN {Symbol("cpu")} ELSE {})
                  \cup (IF AfterTrap' THEN {Symbol("trap")} ELSE {})
                  \cup {Symbol(va) : va \in {u \in UserPage : user'[p][u] # Nothing}}
  BY <1>2 DEF Mapped, MapsNothing
<1>5. HasData' => \A x \in DataPages : vm'[p][x] = Maps(DataFrame(x)', Remapped', RW)
  <2> SUFFICES ASSUME HasData', NEW x \in DataPages
               PROVE  vm'[p][x] = Maps(DataFrame(x)', Remapped', RW) OBVIOUS
  <2>1. vm[p][x] = Maps(DataFrame(x), Remapped, RW) BY <1>2 DEF Mapped, MapsNothing
  <2>2. Remapped' = Remapped BY DEF MapsNothing, Remapped
  <2> QED BY <1>1, <2>1, <2>2
<1>6. /\ AfterPmem' => \A m \in Pmem : vm'[p][Symbol(m)] = Maps(PmemFrame(m), TRUE, RW)
      /\ AfterCpu' => vm'[p][Symbol("cpu")] = Maps(CpuFrame(p), FALSE, RW)
      /\ AfterTrap' => vm'[p][Symbol("trap")] = Maps(<<"trap", Symbol("trap")>>, TRUE, {})
      /\ \A va \in UserPage : user'[p][va] # Nothing =>
           vm'[p][Symbol(va)] = Maps(PmemFrame(user'[p][va]), TRUE, RW)
  BY <1>2, Zenon DEF Mapped, MapsNothing
<1> QED BY <1>4, <1>5, <1>6, Zenon DEF Mapped

\* where the loads and stores of a process go
LEMMA WhereFact ==
  ASSUME PlatformInv, NEW p \in Procs
  PROVE  /\ HasData => \A v \in Variables : vm[p][Place(v).page].frame = DataFrame(PageOf(Addr(v)))
                                            /\ Reaches(p, v)
         /\ InPlace => \A v \in Variables : Load(p, v) = said[v]
         /\ AfterCpu => vm[p][Symbol("cpu")].frame = CpuFrame(p) /\ Reaches(p, "cpu")
         /\ AfterPmem => \A m \in Pmem : vm[p][Symbol(m)].frame = PmemFrame(m)
         /\ \A va \in UserPage : IF user[p][va] = Nothing THEN Symbol(va) \notin DOMAIN vm[p]
                                 ELSE /\ vm[p][Symbol(va)].frame = PmemFrame(user[p][va])
                                      /\ user[p][va] \in Pmem
<1>1. Mapped(p) BY DEF PlatformInv
<1>2. \A f, sh, pr : Maps(f, sh, pr).frame = f /\ Maps(f, sh, pr).prot = pr BY DEF Maps
<1>3. ASSUME HasData, NEW v \in Variables
      PROVE  vm[p][Place(v).page].frame = DataFrame(PageOf(Addr(v))) /\ Reaches(p, v)
  <2>1. Place(v).page = PageOf(Addr(v)) /\ PageOf(Addr(v)) \in DataPages BY PlaceFact, SegmentFact
  <2>2. PageOf(Addr(v)) \in DOMAIN vm[p] BY <1>1, <1>3, <2>1 DEF Mapped
  <2>3. vm[p][PageOf(Addr(v))] = Maps(DataFrame(PageOf(Addr(v))), Remapped, RW)
    BY <1>1, <1>3, <2>1 DEF Mapped
  <2> QED BY <1>2, <2>1, <2>2, <2>3 DEF Reaches
<1>4. ASSUME InPlace, NEW v \in Variables PROVE Load(p, v) = said[v]
  <2>1. word[DataFrame(PageOf(Addr(v)))][Addr(v) % PG] = said[v] BY <1>4 DEF PlatformInv, Contents
  <2>2. HasData BY <1>4 DEF InPlace
  <2> QED BY <1>3, <2>1, <2>2, PlaceFact DEF Load
<1>5. ASSUME AfterCpu PROVE vm[p][Symbol("cpu")].frame = CpuFrame(p) /\ Reaches(p, "cpu")
  <2>1. vm[p][Symbol("cpu")] = Maps(CpuFrame(p), FALSE, RW) BY <1>1, <1>5, Zenon DEF Mapped
  <2>2. Symbol("cpu") \in DOMAIN vm[p] BY <1>1, <1>5 DEF Mapped
  <2>3. Place("cpu").page = Symbol("cpu") BY PlaceFact, NamesFact
  <2>4. Maps(CpuFrame(p), FALSE, RW).frame = CpuFrame(p) /\ Maps(CpuFrame(p), FALSE, RW).prot = RW
    BY DEF Maps
  <2>5. vm[p][Symbol("cpu")].frame = CpuFrame(p) /\ vm[p][Symbol("cpu")].prot = RW BY <2>1, <2>4, Zenon
  <2> QED BY <2>2, <2>3, <2>5 DEF Reaches
<1>6. ASSUME AfterPmem, NEW m \in Pmem PROVE vm[p][Symbol(m)].frame = PmemFrame(m)
  <2>1. vm[p][Symbol(m)] = Maps(PmemFrame(m), TRUE, RW) BY <1>1, <1>6, Zenon DEF Mapped
  <2>2. Maps(PmemFrame(m), TRUE, RW).frame = PmemFrame(m) BY DEF Maps
  <2> QED BY <2>1, <2>2, Zenon
<1>7. ASSUME NEW va \in UserPage
      PROVE  IF user[p][va] = Nothing THEN Symbol(va) \notin DOMAIN vm[p]
             ELSE vm[p][Symbol(va)].frame = PmemFrame(user[p][va]) /\ user[p][va] \in Pmem
  <2>1. CASE user[p][va] = Nothing
    <3>1. Symbol(va) \notin DataPages BY SymbolFact
    <3>2. \A m \in Pmem : Symbol(va) # Symbol(m) BY SymbolFact, NamesFact
    <3>3. Symbol(va) # Symbol("cpu") /\ Symbol(va) # Symbol("trap") BY SymbolFact, NamesFact
    <3>4. \A u \in UserPage : user[p][u] # Nothing => Symbol(va) # Symbol(u) BY <2>1, SymbolFact
    <3> HIDE DEF Symbol
    <3>5. Symbol(va) \notin DOMAIN vm[p] BY <1>1, <3>1, <3>2, <3>3, <3>4 DEF Mapped
    <3> QED BY <2>1, <3>5
  <2>2. CASE user[p][va] # Nothing
    <3>1. user[p][va] \in Pmem BY <2>2 DEF PlatformInv, Numbered
    <3>2. vm[p][Symbol(va)] = Maps(PmemFrame(user[p][va]), TRUE, RW) BY <1>1, <2>2, Zenon DEF Mapped
    <3>3. Maps(PmemFrame(user[p][va]), TRUE, RW).frame = PmemFrame(user[p][va]) BY DEF Maps
    <3> QED BY <2>2, <3>1, <3>2, <3>3, Zenon
  <2> QED BY <2>1, <2>2
<1> QED BY <1>3, <1>4, <1>5, <1>6, <1>7

-----------------------------------------------------------------------------
(* Steps that map nothing: stores to variables, and steps that store nothing. *)

LEMMA VariableStored ==
  ASSUME PlatformInv, NEW p \in Procs, NEW v \in Variables, NEW x,
         word' = Stored(p, v, x), said' = [said EXCEPT ![v] = x],
         UNCHANGED <<vm, mine, user>>, InPlace, InPlace', ~InTemp', MapsNothing
  PROVE  (\A q \in Procs' : Mapped(q)') /\ Frames' /\ Contents'
<1>0. PICK f, o : f = DataFrame(PageOf(Addr(v))) /\ o = Addr(v) % PG OBVIOUS
<1>1. HasData BY DEF InPlace
<1>2. vm[p][Place(v).page].frame = f /\ Place(v).off = o BY <1>0, <1>1, WhereFact, PlaceFact
<1>3. word' = [word EXCEPT ![f][o] = x] BY <1>2 DEF Stored
<1>4. o \in 0 .. PG-1 /\ PageOf(Addr(v)) \in DataPages BY <1>0, SegmentFact
<1>5. IsFrame(f) BY <1>0, <1>1, <1>4 DEF PlatformInv, Frames
<1>6. (\A q \in Procs' : Mapped(q)') /\ \A y : DataFrame(y)' = DataFrame(y)
  BY SameMaps DEF PlatformInv
<1>7. /\ \A g : IsFrame(g) => IsFrame(g)'
      /\ word'[f][o] = x
      /\ \A g, b : IsFrame(g) /\ b \in 0 .. PG-1 /\ (g # f \/ b # o) => word'[g][b] = word[g][b]
  <2>0. \A g : IsFrame(g) => IsFrame(g)' BY <1>3, <1>5 DEF IsFrame, FrameIn
  <2>1. word'[f][o] = x BY <1>3, <1>4, <1>5 DEF IsFrame, FrameIn
  <2>2. \A g, b : IsFrame(g) /\ b \in 0 .. PG-1 /\ (g # f \/ b # o) => word'[g][b] = word[g][b]
    BY <1>3, <1>4, <1>5, LocalStore
  <2> QED BY <2>0, <2>1, <2>2
<1>8. \A m : PmemFrame(m) # f BY <1>0, FramesFact
<1>9. \A q : CpuFrame(q) # f BY <1>0, FramesFact
<1>10. Frames'
  <2>1. \A y \in DataPages : IsFrame(DataFrame(y)) BY <1>1 DEF PlatformInv, Frames
  <2>2. (\A y \in DataPages : IsFrame(DataFrame(y)))' BY <1>6, <1>7, <2>1 DEF IsFrame, FrameIn
  <2>3. AfterPmem' => \A m \in Pmem : IsFrame(PmemFrame(m))'
    <3>1. AfterPmem' => \A m \in Pmem : IsFrame(PmemFrame(m)) BY DEF MapsNothing, PlatformInv, Frames
    <3>2. \A m : PmemFrame(m)' = PmemFrame(m) BY DEF PmemFrame
    <3> QED BY <1>7, <3>1, <3>2
  <2>4. AfterCpu' => \A q \in Procs' : IsFrame(CpuFrame(q))'
    <3>1. AfterCpu' => \A q \in Procs' : IsFrame(CpuFrame(q))
      BY DEF MapsNothing, PlatformInv, Frames, Procs
    <3> QED BY <1>7, <3>1
  <2> QED BY <2>2, <2>3, <2>4 DEF Frames
<1>11. \A u \in Variables : word'[DataFrame(PageOf(Addr(u)))'][Addr(u) % PG] = said'[u]
  <2> SUFFICES ASSUME NEW u \in Variables
               PROVE  word'[DataFrame(PageOf(Addr(u)))][Addr(u) % PG] = said'[u]
    BY <1>6
  <2>1. CASE u = v
    <3>1. word'[DataFrame(PageOf(Addr(v)))][Addr(v) % PG] = x BY <1>0, <1>7
    <3>2. said'[v] = x BY DEF PlatformInv, Contents
    <3> QED BY <2>1, <3>1, <3>2
  <2>2. CASE u # v
    <3>1. DataFrame(PageOf(Addr(u))) # f \/ Addr(u) % PG # o
      <4>1. SUFFICES ASSUME DataFrame(PageOf(Addr(u))) = f, Addr(u) % PG = o PROVE FALSE OBVIOUS
      <4>2. PageOf(Addr(u)) = PageOf(Addr(v)) BY <1>0, <4>1, FramesFact
      <4>3. Addr(u) = Addr(v) BY <4>1, <4>2, SameWord, SegmentFact, <1>0, Zenon
      <4> QED BY <2>2, <4>3, StaticsFact
    <3>2. Addr(u) % PG \in 0 .. PG-1 /\ PageOf(Addr(u)) \in DataPages BY SegmentFact
    <3>3. IsFrame(DataFrame(PageOf(Addr(u)))) BY <1>1, <3>2 DEF PlatformInv, Frames
    <3>4. word'[DataFrame(PageOf(Addr(u)))][Addr(u) % PG] = word[DataFrame(PageOf(Addr(u)))][Addr(u) % PG]
      BY <1>7, <3>1, <3>2, <3>3
    <3>5. said'[u] = said[u] /\ word[DataFrame(PageOf(Addr(u)))][Addr(u) % PG] = said[u]
      BY <2>2 DEF PlatformInv, Contents
    <3> QED BY <3>4, <3>5
  <2> QED BY <2>1, <2>2
<1>12. IF AfterPmem' THEN \A m \in Pmem : word'[PmemFrame(m)][0] = said'[m]
       ELSE \A m \in Pmem : said'[m] = 0
  <2>1. \A m \in Pmem : said'[m] = said[m] BY NamesFact DEF PlatformInv, Contents
  <2>2. ASSUME AfterPmem', NEW m \in Pmem PROVE word'[PmemFrame(m)][0] = said[m]
    <3>1. AfterPmem BY <2>2 DEF MapsNothing
    <3>2. IsFrame(PmemFrame(m)) /\ word[PmemFrame(m)][0] = said[m]
      BY <3>1 DEF PlatformInv, Frames, Contents
    <3> QED BY <1>7, <1>8, <3>2, PlaceFact
  <2>3. ~AfterPmem' => \A m \in Pmem : said[m] = 0 BY DEF MapsNothing, PlatformInv, Contents
  <2> QED BY <2>1, <2>2, <2>3
<1>13. IF AfterCpu' THEN \A q \in Procs' : word'[CpuFrame(q)][0] = mine'[q] ELSE mine'[1] = 0
  <2>1. ASSUME AfterCpu', NEW q \in Procs' PROVE word'[CpuFrame(q)][0] = mine[q]
    <3>1. AfterCpu /\ q \in Procs BY <2>1 DEF MapsNothing, Procs
    <3>2. IsFrame(CpuFrame(q)) /\ word[CpuFrame(q)][0] = mine[q]
      BY <3>1 DEF PlatformInv, Frames, Contents
    <3> QED BY <1>7, <1>9, <3>2, PlaceFact
  <2>2. ~AfterCpu' => mine[1] = 0 BY DEF MapsNothing, PlatformInv, Contents
  <2> QED BY <2>1, <2>2
<1>14. DOMAIN said' = Pmem \cup Variables BY DEF PlatformInv, Contents
<1>15. Contents' BY <1>11, <1>12, <1>13, <1>14 DEF Contents
<1> QED BY <1>6, <1>10, <1>15

LEMMA NothingStored ==
  ASSUME PlatformInv, UNCHANGED <<vm, mine, user, word, said>>, MapsNothing, InPlace' => InPlace,
         InTemp' => DOMAIN temp' = SavedWords /\ \A v \in Variables : temp'[Addr(v)] = said[v]
  PROVE  (\A q \in Procs' : Mapped(q)') /\ Frames' /\ Contents'
<1>1. (\A q \in Procs' : Mapped(q)') /\ \A y : DataFrame(y)' = DataFrame(y)
  BY SameMaps DEF PlatformInv
<1>2. Frames'
  <2>1. HasData' => (\A y \in DataPages : IsFrame(DataFrame(y)))'
    BY <1>1 DEF MapsNothing, PlatformInv, Frames, IsFrame, FrameIn
  <2>2. /\ AfterPmem' => \A m \in Pmem : IsFrame(PmemFrame(m))'
        /\ AfterCpu' => \A q \in Procs' : IsFrame(CpuFrame(q))'
    BY DEF MapsNothing, PlatformInv, Frames, IsFrame, FrameIn, Procs
  <2> QED BY <2>1, <2>2 DEF Frames
<1>3. InPlace' => \A v \in Variables : word'[DataFrame(PageOf(Addr(v)))'][Addr(v) % PG] = said'[v]
  BY <1>1 DEF PlatformInv, Contents
<1>4. /\ IF AfterPmem' THEN \A m \in Pmem : word'[PmemFrame(m)][0] = said'[m]
         ELSE \A m \in Pmem : said'[m] = 0
      /\ IF AfterCpu' THEN \A q \in Procs' : word'[CpuFrame(q)][0] = mine'[q] ELSE mine'[1] = 0
  BY DEF MapsNothing, PlatformInv, Contents, Procs
<1>5. InTemp' => DOMAIN temp' = SavedWords /\ \A v \in Variables : temp'[Addr(v)] = said'[v] OBVIOUS
<1>6. Contents' BY <1>3, <1>4, <1>5 DEF PlatformInv, Contents
<1> QED BY <1>1, <1>2, <1>6

-----------------------------------------------------------------------------
(* The steps of init_platform, one lemma for each kind.                      *)

LEMMA StepsFact ==
  Steps = {"pmem_fd", "pmem", "cpu", "thiscpu", "trap", "memcpy", "save", "keep", "munmap", "mmap",
           "restore", "drop", "signals", "altstack", "raise", "example", "iset", "main"}
<1>1. DOMAIN Touches = {"pmem_fd", "pmem", "cpu", "thiscpu", "trap", "memcpy", "save", "keep",
           "munmap", "mmap", "restore", "drop", "signals", "altstack", "raise", "example", "iset"}
  BY DEF Touches
<1> HIDE DEF Touches
<1> QED BY <1>1 DEF Steps

\* the processes do not change before main
LEMMA StillOne ==
  ASSUME PlatformInv, step # "main", Procs' = Procs, UNCHANGED <<mine, user>>,
         step' \in Steps, step' # "main" => UNCHANGED blocked
  PROVE  step' \in Steps /\ OneProcess' /\ Numbered'
<1>1. Procs = {1} /\ blocked = {} /\ Numbered BY DEF PlatformInv, OneProcess
<1>2. OneProcess' BY <1>1 DEF OneProcess
<1>3. Numbered' BY <1>1 DEF Numbered
<1> QED BY <1>2, <1>3

LEMMA SetsStep ==
  ASSUME PlatformInv,
         \/ SetPmemFd \/ SetThiscpu \/ FindMemcpy \/ SetSigmask \/ save_example_context \/ SetExample
  PROVE  PlatformInv'
<1> USE DEF Does, Keeps
<1>1. ASSUME NEW v \in Variables, NEW x, Sets(v, x), UNCHANGED <<vm, temp, blocked, mine, user>>,
             step \in {"pmem_fd", "thiscpu", "memcpy", "signals", "raise", "example"},
             step' \in {"pmem", "trap", "save", "altstack", "example", "iset"},
             MapsNothing, Values'
      PROVE  PlatformInv'
  <2>1. step # "main" /\ step' # "main" /\ step' \in Steps /\ InPlace /\ InPlace' /\ ~InTemp'
    BY <1>1, StepsFact DEF InPlace, HasData, InTemp, Restored, Remapped, AfterKeep, AfterMemcpy
  <2>2. 1 \in Procs BY <2>1 DEF PlatformInv, OneProcess
  <2>3. (\A q \in Procs' : Mapped(q)') /\ Frames' /\ Contents'
    BY <1>1, <2>1, <2>2, VariableStored, Zenon DEF Sets
  <2>4. Procs' = Procs BY <1>1 DEF Procs
  <2>5. step' \in Steps /\ OneProcess' /\ Numbered' BY <1>1, <2>1, <2>4, StillOne
  <2> QED BY <1>1, <2>3, <2>5 DEF PlatformInv
<1>2. \A v \in Variables : v \in DOMAIN said BY DEF PlatformInv, Contents
<1>3. Values BY DEF PlatformInv
<1>4. /\ "pmem_fd" \in Variables /\ "thiscpu" \in Variables /\ "memcpy_libc" \in Variables
      /\ "intr_sigmask" \in Variables /\ "uc_example" \in Variables /\ "GOT" \in Variables
  BY DEF Variables
<1>5. ASSUME step \in {"pmem_fd", "thiscpu", "memcpy", "signals", "raise", "example"}
      PROVE  1 \in Procs /\ InPlace /\ step # "main"
  BY <1>5 DEF PlatformInv, OneProcess, InPlace, HasData
<1>6. CASE SetPmemFd
  <2>1. step = "pmem_fd" /\ step' = "pmem" /\ Sets("pmem_fd", File) BY <1>6 DEF SetPmemFd
  <2>2. MapsNothing BY <2>1 DEF MapsNothing, HasData, AfterPmem, AfterCpu, AfterTrap, Remapped,
                                AfterKeep, AfterMemcpy
  <2>3. Values' BY <1>2, <1>3, <1>4, <2>1 DEF Values, Sets
  <2> QED BY <1>1, <1>4, <1>6, <2>1, <2>2, <2>3 DEF SetPmemFd
<1>7. CASE SetThiscpu
  <2>1. step = "thiscpu" /\ step' = "trap" /\ Sets("thiscpu", "cpu") BY <1>7 DEF SetThiscpu
  <2>2. MapsNothing BY <2>1 DEF MapsNothing, HasData, AfterPmem, AfterCpu, AfterTrap, Remapped,
                                AfterKeep, AfterMemcpy
  <2>3. Values' BY <1>2, <1>3, <1>4, <2>1 DEF Values, Sets
  <2> QED BY <1>1, <1>4, <1>7, <2>1, <2>2, <2>3 DEF SetThiscpu
<1>8. CASE FindMemcpy
  <2>1. step = "memcpy" /\ step' = "save" /\ Sets("memcpy_libc", "memcpy") BY <1>8 DEF FindMemcpy
  <2>2. MapsNothing BY <2>1 DEF MapsNothing, HasData, AfterPmem, AfterCpu, AfterTrap, Remapped,
                                AfterKeep, AfterMemcpy
  <2>3. Values' BY <1>2, <1>3, <1>4, <2>1 DEF Values, Sets
  <2> QED BY <1>1, <1>4, <1>8, <2>1, <2>2, <2>3 DEF FindMemcpy
<1>9. CASE SetSigmask
  <2>1. step = "signals" /\ step' = "altstack" /\ Sets("intr_sigmask", Intr) BY <1>9 DEF SetSigmask
  <2>2. MapsNothing BY <2>1 DEF MapsNothing, HasData, AfterPmem, AfterCpu, AfterTrap, Remapped,
                                AfterKeep, AfterMemcpy
  <2>3. Values' BY <1>2, <1>3, <1>4, <2>1 DEF Values, Sets
  <2> QED BY <1>1, <1>4, <1>9, <2>1, <2>2, <2>3 DEF SetSigmask
<1>10. CASE save_example_context
  <2> DEFINE x == [segments |-> TRUE, mask |-> {}]
  <2>1. step = "raise" /\ step' = "example" /\ Sets("uc_example", x) BY <1>10 DEF save_example_context
  <2>2. MapsNothing BY <2>1 DEF MapsNothing, HasData, AfterPmem, AfterCpu, AfterTrap, Remapped,
                                AfterKeep, AfterMemcpy
  <2>3. Values' BY <1>2, <1>3, <1>4, <2>1 DEF Values, Sets
  <2> QED BY <1>1, <1>4, <1>10, <2>1, <2>2, <2>3 DEF save_example_context
<1>11. CASE SetExample
  <2>1. step = "example" /\ step' = "iset" BY <1>11 DEF SetExample
  <2>2. Load(1, "uc_example") = said["uc_example"] /\ Load(1, "intr_sigmask") = said["intr_sigmask"]
    BY <1>4, <1>5, <2>1, WhereFact
  <2>3. said["uc_example"] = [segments |-> TRUE, mask |-> {}] /\ said["intr_sigmask"] = Intr
    BY <1>3, <2>1 DEF Values
  <2>4. Sets("uc_example", [segments |-> said["uc_example"].segments, mask |-> Intr])
    BY <1>11, <2>2, <2>3, Zenon DEF SetExample
  <2>5. said["uc_example"].segments = TRUE BY <2>3
  <2> DEFINE x == [segments |-> TRUE, mask |-> Intr]
  <2>6. Sets("uc_example", x) BY <2>4, <2>5, Zenon
  <2>7. MapsNothing BY <2>1 DEF MapsNothing, HasData, AfterPmem, AfterCpu, AfterTrap, Remapped,
                                AfterKeep, AfterMemcpy
  <2>8. Values' BY <1>2, <1>3, <1>4, <2>1, <2>3, <2>6 DEF Values, Sets
  <2> QED BY <1>1, <1>4, <1>11, <2>1, <2>6, <2>7, <2>8 DEF SetExample
<1> QED BY <1>6, <1>7, <1>8, <1>9, <1>10, <1>11

LEMMA QuietStep ==
  ASSUME PlatformInv,
         SaveData \/ KeepPointers \/ DropTemp \/ setup_sigaltstack \/ IsetOff
  PROVE  PlatformInv'
<1> USE DEF Does, Keeps
<1>1. ASSUME step \in {"save", "keep", "drop", "altstack", "iset"}
      PROVE  1 \in Procs /\ HasData /\ InPlace /\ step # "main"
  BY <1>1 DEF PlatformInv, OneProcess, InPlace, HasData
<1>2. ASSUME UNCHANGED <<vm, word, said, mine, user>>,
             step \in {"save", "keep", "drop", "altstack", "iset"},
             step' \in {"keep", "munmap", "signals", "raise", "main"},
             step' # "main" => UNCHANGED blocked, MapsNothing, Values',
             InTemp' => DOMAIN temp' = SavedWords /\ \A v \in Variables : temp'[Addr(v)] = said[v]
      PROVE  PlatformInv'
  <2>1. Procs' = Procs BY <1>2 DEF Procs
  <2>2. step' \in Steps BY <1>2, StepsFact
  <2>3. step' \in Steps /\ OneProcess' /\ Numbered' BY <1>1, <1>2, <2>1, <2>2, StillOne
  <2>4. (\A q \in Procs' : Mapped(q)') /\ Frames' /\ Contents' BY <1>1, <1>2, NothingStored
  <2> QED BY <1>2, <2>3, <2>4 DEF PlatformInv
<1>3. Values BY DEF PlatformInv
<1>4. CASE SaveData
  <2>1. step = "save" /\ step' = "keep" /\ UNCHANGED <<vm, word, said, mine, user, blocked>>
    BY <1>4 DEF SaveData
  <2>2. MapsNothing BY <2>1 DEF MapsNothing, HasData, AfterPmem, AfterCpu, AfterTrap, Remapped,
                                AfterKeep, AfterMemcpy
  <2>3. Values' BY <1>3, <2>1 DEF Values
  <2>4. temp' = [a \in SavedWords |-> word[vm[1][PageOf(a)].frame][a % PG]] BY <1>4 DEF SaveData
  <2>5. ASSUME NEW v \in Variables PROVE temp'[Addr(v)] = said[v]
    <3>1. Load(1, v) = said[v] BY <1>1, <2>1, WhereFact
    <3>2. Load(1, v) = word[vm[1][PageOf(Addr(v))].frame][Addr(v) % PG] BY PlaceFact DEF Load
    <3> QED BY <2>4, <3>1, <3>2, SegmentFact
  <2> QED BY <1>2, <2>1, <2>2, <2>3, <2>4, <2>5
<1>5. CASE KeepPointers
  <2>1. step = "keep" /\ step' = "munmap" /\ UNCHANGED <<vm, word, said, mine, user, blocked, temp>>
    BY <1>5 DEF KeepPointers
  <2>2. MapsNothing BY <2>1 DEF MapsNothing, HasData, AfterPmem, AfterCpu, AfterTrap, Remapped,
                                AfterKeep, AfterMemcpy
  <2>3. Values' BY <1>3, <2>1 DEF Values
  <2>4. InTemp BY <2>1 DEF InTemp, AfterMemcpy, AfterTrap, AfterCpu, AfterPmem, Restored, Remapped, AfterKeep
  <2>5. DOMAIN temp' = SavedWords /\ \A v \in Variables : temp'[Addr(v)] = said[v]
    BY <2>1, <2>4 DEF PlatformInv, Contents
  <2> QED BY <1>2, <2>1, <2>2, <2>3, <2>5
<1>6. CASE DropTemp
  <2>1. step = "drop" /\ step' = "signals" /\ UNCHANGED <<vm, word, said, mine, user, blocked>>
    BY <1>6 DEF DropTemp
  <2>2. MapsNothing BY <2>1 DEF MapsNothing, HasData, AfterPmem, AfterCpu, AfterTrap, Remapped,
                                AfterKeep, AfterMemcpy
  <2>3. Values' BY <1>3, <2>1 DEF Values
  <2>4. ~InTemp' BY <2>1 DEF InTemp, Restored, Remapped, AfterKeep, AfterMemcpy, AfterTrap, AfterCpu, AfterPmem
  <2> QED BY <1>2, <2>1, <2>2, <2>3, <2>4
<1>7. CASE setup_sigaltstack
  <2>1. step = "altstack" /\ step' = "raise" /\ UNCHANGED <<vm, word, said, mine, user, blocked>>
    BY <1>7 DEF setup_sigaltstack
  <2>2. MapsNothing BY <2>1 DEF MapsNothing, HasData, AfterPmem, AfterCpu, AfterTrap, Remapped,
                                AfterKeep, AfterMemcpy
  <2>3. Values' BY <1>3, <2>1 DEF Values
  <2>4. ~InTemp' BY <2>1 DEF InTemp, Restored, Remapped, AfterKeep, AfterMemcpy, AfterTrap, AfterCpu, AfterPmem
  <2> QED BY <1>2, <2>1, <2>2, <2>3, <2>4
<1>8. CASE IsetOff
  <2>1. step = "iset" /\ step' = "main" /\ UNCHANGED <<vm, word, said, mine, user>>
    BY <1>8 DEF IsetOff
  <2>2. MapsNothing BY <2>1 DEF MapsNothing, HasData, AfterPmem, AfterCpu, AfterTrap, Remapped,
                                AfterKeep, AfterMemcpy
  <2>3. blocked' = Intr
    <3>1. Load(1, "intr_sigmask") = said["intr_sigmask"] BY <1>1, <2>1, WhereFact DEF Variables
    <3>2. said["intr_sigmask"] = Intr BY <1>3, <2>1 DEF Values
    <3> QED BY <1>8, <3>1, <3>2 DEF IsetOff
  <2>4. Values' BY <1>3, <2>1, <2>3 DEF Values
  <2>5. ~InTemp' BY <2>1 DEF InTemp, Restored, Remapped, AfterKeep, AfterMemcpy, AfterTrap, AfterCpu, AfterPmem
  <2> QED BY <1>2, <2>1, <2>2, <2>4, <2>5
<1> QED BY <1>4, <1>5, <1>6, <1>7, <1>8

LEMMA BlankFact == Blank[0] = 0
BY PlaceFact DEF Blank

\* a first call of mmap for pages of memory, of thiscpu or of the trap page
LEMMA AddsPages ==
  ASSUME PlatformInv, step \in {"pmem", "cpu", "trap"}, step' \in {"cpu", "thiscpu", "memcpy"},
         NEW pages, NEW sh, NEW pr, Mmap(pages, sh, pr), \A x \in pages : x \notin DOMAIN vm[1],
         UNCHANGED <<said, mine, user, blocked>>
  PROVE  /\ step' \in Steps /\ OneProcess' /\ Numbered' /\ Values'
         /\ Procs' = {1} /\ DOMAIN vm'[1] = DOMAIN vm[1] \cup pages
         /\ DataPages \subseteq DOMAIN vm[1] /\ HasData' /\ ~InTemp'
         /\ \A x \in pages : /\ vm'[1][x] = Maps(<<step, x>>, sh, pr)
                             /\ FrameIn(word', <<step, x>>) /\ word'[<<step, x>>] = Blank
         /\ \A x \in DOMAIN vm[1] : vm'[1][x] = vm[1][x]
         /\ \A x \in DataPages : vm'[1][x] = Maps(DataFrame(x)', Remapped', RW)
                                 /\ FrameIn(word', DataFrame(x)')
         /\ \A v \in Variables : word'[DataFrame(PageOf(Addr(v)))'][Addr(v) % PG] = said'[v]
         /\ \A va \in UserPage : user[1][va] = Nothing
         /\ \A f : FrameIn(word, f) => FrameIn(word', f)
         /\ \A f \in DOMAIN word : (\A x \in pages : f # <<step, x>>) => word'[f] = word[f]
<1>1. step # "main" /\ step' # "main" /\ HasData /\ InPlace /\ HasData' /\ ~InTemp'
  BY DEF HasData, InPlace, InTemp, AfterMemcpy, AfterTrap, AfterCpu
<1>2. Procs = {1} /\ blocked = {} BY <1>1 DEF PlatformInv, OneProcess
<1>3. /\ Procs' = {1} /\ DOMAIN vm'[1] = DOMAIN vm[1] \cup pages
      /\ \A x \in pages : vm'[1][x] = Maps(<<step, x>>, sh, pr)
      /\ \A x \in DOMAIN vm[1] \ pages : vm'[1][x] = vm[1][x]
      /\ \A x \in pages : FrameIn(word', <<step, x>>) /\ word'[<<step, x>>] = Blank
      /\ \A f : FrameIn(word, f) => FrameIn(word', f)
      /\ \A f \in DOMAIN word : (\A x \in pages : f # <<step, x>>) => word'[f] = word[f]
  BY <1>2, MmapFact
<1>4. step' \in Steps BY StepsFact
<1>5. OneProcess' /\ Numbered' BY <1>1, <1>2, <1>3, <1>4, StillOne
<1>6. Values' BY DEF PlatformInv, Values
<1>7. ~Remapped /\ ~Remapped'
  BY DEF Remapped, AfterKeep, AfterMemcpy, AfterTrap, AfterCpu, AfterPmem
<1>8. \A x : DataFrame(x) = <<"exec", x>> /\ DataFrame(x)' = <<"exec", x>> BY <1>7 DEF DataFrame
<1>9. Mapped(1) BY <1>2 DEF PlatformInv
<1>10. DataPages \subseteq DOMAIN vm[1] BY <1>1, <1>9 DEF Mapped
<1>11. \A x \in DOMAIN vm[1] : vm'[1][x] = vm[1][x] BY <1>3
<1>12. ASSUME NEW x \in DataPages
       PROVE  /\ vm'[1][x] = Maps(DataFrame(x)', Remapped', RW)
              /\ FrameIn(word, DataFrame(x)) /\ FrameIn(word', DataFrame(x)')
              /\ word'[DataFrame(x)'] = word[DataFrame(x)]
  <2>1. vm[1][x] = Maps(DataFrame(x), Remapped, RW) BY <1>1, <1>9 DEF Mapped
  <2>2. Remapped' = Remapped BY <1>7 DEF Remapped
  <2>3. DataFrame(x)' = DataFrame(x) BY <1>8
  <2>4. vm'[1][x] = Maps(DataFrame(x)', Remapped', RW) BY <1>10, <1>11, <2>1, <2>2, <2>3
  <2>5. FrameIn(word, DataFrame(x)) BY <1>1 DEF PlatformInv, Frames, IsFrame
  <2>6. \A y \in pages : DataFrame(x) # <<step, y>>
    <3>1. DataFrame(x)[1] = "exec" BY <1>8
    <3>2. \A y \in pages : <<step, y>>[1] = step OBVIOUS
    <3> QED BY <3>1, <3>2
  <2>7. DataFrame(x) \in DOMAIN word BY <2>5 DEF FrameIn
  <2>8. word'[DataFrame(x)] = word[DataFrame(x)] BY <1>3, <2>6, <2>7
  <2> QED BY <1>3, <2>3, <2>4, <2>5, <2>8
<1>13. ASSUME NEW v \in Variables
       PROVE  word'[DataFrame(PageOf(Addr(v)))'][Addr(v) % PG] = said'[v]
  <2>1. word[DataFrame(PageOf(Addr(v)))][Addr(v) % PG] = said[v] BY <1>1 DEF PlatformInv, Contents
  <2>2. PageOf(Addr(v)) \in DataPages BY SegmentFact
  <2> QED BY <1>12, <2>1, <2>2
<1>14. \A va \in UserPage : user[1][va] = Nothing BY <1>1 DEF PlatformInv, Numbered
<1> QED BY <1>1, <1>3, <1>4, <1>5, <1>6, <1>10, <1>11, <1>12, <1>13, <1>14

LEMMA MmapStep ==
  ASSUME PlatformInv, MapPmem \/ MapCpu \/ MapTrapPage
  PROVE  PlatformInv'
<1> USE DEF Does, Keeps
<1>1. ASSUME step \in {"pmem", "cpu", "trap"}
      PROVE  /\ DOMAIN said = Pmem \cup Variables /\ Mapped(1) /\ Procs = {1} /\ HasData
             /\ {Symbol(va) : va \in {u \in UserPage : user[1][u] # Nothing}} = {}
  BY <1>1 DEF PlatformInv, Contents, OneProcess, Numbered, HasData
<1>2. \A v : Symbol(v) \notin DataPages BY SymbolFact
<1>3. /\ \A m \in Pmem : Symbol(m) # Symbol("cpu") /\ Symbol(m) # Symbol("trap")
      /\ Symbol("cpu") # Symbol("trap")
  BY SymbolFact, NamesFact
<1>4. CASE MapPmem
  <2> DEFINE pages == {Symbol(m) : m \in Pmem}
  <2>1. step = "pmem" /\ step' = "cpu" /\ Mmap(pages, TRUE, RW) /\ UNCHANGED <<said, mine, user, blocked>>
    BY <1>4, Zenon DEF MapPmem
  <2>2. ~AfterPmem /\ ~AfterCpu /\ ~AfterTrap /\ AfterPmem' /\ ~AfterCpu' /\ ~AfterTrap'
    BY <2>1 DEF AfterPmem, AfterCpu, AfterTrap
  <2>3. DOMAIN vm[1] = DataPages BY <1>1, <2>1, <2>2, Zenon DEF Mapped
  <2>4. \A x \in pages : x \notin DOMAIN vm[1] BY <1>2, <2>3
  <2> HIDE DEF pages
  <2>5. /\ step' \in Steps /\ OneProcess' /\ Numbered' /\ Values'
        /\ Procs' = {1} /\ DOMAIN vm'[1] = DOMAIN vm[1] \cup pages /\ HasData' /\ ~InTemp'
        /\ \A x \in pages : /\ vm'[1][x] = Maps(<<step, x>>, TRUE, RW)
                            /\ FrameIn(word', <<step, x>>) /\ word'[<<step, x>>] = Blank
        /\ \A x \in DataPages : vm'[1][x] = Maps(DataFrame(x)', Remapped', RW)
                                /\ FrameIn(word', DataFrame(x)')
        /\ \A v \in Variables : word'[DataFrame(PageOf(Addr(v)))'][Addr(v) % PG] = said'[v]
        /\ \A va \in UserPage : user[1][va] = Nothing
    BY <2>1, <2>4, AddsPages, Zenon
  <2>6. \A m \in Pmem : Symbol(m) \in pages /\ PmemFrame(m) = <<step, Symbol(m)>>
    BY <2>1 DEF PmemFrame, pages
  <2>7. Mapped(1)'
    <3>1. DOMAIN vm'[1] = DataPages \cup {Symbol(m) : m \in Pmem} \cup
              {Symbol(va) : va \in {u \in UserPage : user'[1][u] # Nothing}}
      BY <1>1, <2>1, <2>3, <2>5 DEF pages
    <3>2. \A m \in Pmem : vm'[1][Symbol(m)] = Maps(PmemFrame(m), TRUE, RW) BY <2>5, <2>6, Zenon
    <3>3. \A va \in UserPage : user'[1][va] = Nothing BY <2>1, <2>5
    <3> QED BY <2>2, <2>5, <3>1, <3>2, <3>3, Zenon DEF Mapped
  <2>8. Frames' BY <2>2, <2>5, <2>6, Zenon DEF Frames, IsFrame
  <2>9. Contents'
    <3>1. \A m \in Pmem : said'[m] = 0 BY <2>1, <2>2 DEF PlatformInv, Contents
    <3>2. \A m \in Pmem : word'[PmemFrame(m)][0] = said'[m] BY <2>5, <2>6, <3>1, BlankFact, ZenonT(60)
    <3>3. mine'[1] = 0 BY <2>1, <2>2 DEF PlatformInv, Contents
    <3> QED BY <1>1, <2>1, <2>2, <2>5, <3>2, <3>3 DEF Contents
  <2> QED BY <2>5, <2>7, <2>8, <2>9 DEF PlatformInv
<1>5. ASSUME step \in {"cpu", "trap"}, NEW w, NEW pages, \A x \in pages : x = Symbol(w),
             w \in {"cpu", "trap"},
             \A f : FrameIn(word, f) => FrameIn(word', f),
             \A f \in DOMAIN word : (\A x \in pages : f # <<step, x>>) => word'[f] = word[f]
      PROVE  \A m \in Pmem : /\ PmemFrame(m) \in DOMAIN word /\ FrameIn(word', PmemFrame(m))
                             /\ word'[PmemFrame(m)][0] = said[m]
  <2>1. AfterPmem BY <1>5 DEF AfterPmem
  <2> TAKE m \in Pmem
  <2>2. FrameIn(word, PmemFrame(m)) /\ word[PmemFrame(m)][0] = said[m]
    BY <2>1 DEF PlatformInv, Frames, IsFrame, Contents
  <2>3. PmemFrame(m)[1] = "pmem" BY DEF PmemFrame
  <2>4. \A x \in pages : <<step, x>>[1] = step OBVIOUS
  <2>5. \A x \in pages : PmemFrame(m) # <<step, x>> BY <1>5, <2>3, <2>4
  <2>6. PmemFrame(m) \in DOMAIN word BY <2>2 DEF FrameIn
  <2> QED BY <1>5, <2>2, <2>5, <2>6
<1>6. CASE MapCpu
  <2> DEFINE pages == {Symbol("cpu")}
  <2>1. step = "cpu" /\ step' = "thiscpu" /\ Mmap(pages, FALSE, RW) /\ UNCHANGED <<said, mine, user, blocked>>
    BY <1>6, Zenon DEF MapCpu
  <2>2. AfterPmem /\ ~AfterCpu /\ ~AfterTrap /\ AfterPmem' /\ AfterCpu' /\ ~AfterTrap'
    BY <2>1 DEF AfterPmem, AfterCpu, AfterTrap
  <2>3. DOMAIN vm[1] = DataPages \cup {Symbol(m) : m \in Pmem} BY <1>1, <2>1, <2>2 DEF Mapped
  <2>4. \A x \in pages : x \notin DOMAIN vm[1] BY <1>2, <1>3, <2>3
  <2>5. /\ step' \in Steps /\ OneProcess' /\ Numbered' /\ Values'
        /\ Procs' = {1} /\ DOMAIN vm'[1] = DOMAIN vm[1] \cup pages /\ HasData' /\ ~InTemp'
        /\ vm'[1][Symbol("cpu")] = Maps(<<step, Symbol("cpu")>>, FALSE, RW)
        /\ FrameIn(word', <<step, Symbol("cpu")>>) /\ word'[<<step, Symbol("cpu")>>] = Blank
        /\ \A x \in DOMAIN vm[1] : vm'[1][x] = vm[1][x]
        /\ \A x \in DataPages : vm'[1][x] = Maps(DataFrame(x)', Remapped', RW)
                                /\ FrameIn(word', DataFrame(x)')
        /\ \A v \in Variables : word'[DataFrame(PageOf(Addr(v)))'][Addr(v) % PG] = said'[v]
        /\ \A va \in UserPage : user[1][va] = Nothing
        /\ \A f : FrameIn(word, f) => FrameIn(word', f)
        /\ \A f \in DOMAIN word : (\A x \in pages : f # <<step, x>>) => word'[f] = word[f]
    <3>1. Symbol("cpu") \in pages OBVIOUS
    <3> HIDE DEF pages
    <3>2. /\ step' \in Steps /\ OneProcess' /\ Numbered' /\ Values'
          /\ Procs' = {1} /\ DOMAIN vm'[1] = DOMAIN vm[1] \cup pages /\ HasData' /\ ~InTemp'
          /\ \A x \in pages : /\ vm'[1][x] = Maps(<<step, x>>, FALSE, RW)
                              /\ FrameIn(word', <<step, x>>) /\ word'[<<step, x>>] = Blank
          /\ \A x \in DOMAIN vm[1] : vm'[1][x] = vm[1][x]
      BY <2>1, <2>4, AddsPages, Zenon
    <3>3. /\ \A x \in DataPages : vm'[1][x] = Maps(DataFrame(x)', Remapped', RW)
                                  /\ FrameIn(word', DataFrame(x)')
          /\ \A v \in Variables : word'[DataFrame(PageOf(Addr(v)))'][Addr(v) % PG] = said'[v]
          /\ \A va \in UserPage : user[1][va] = Nothing
          /\ \A f : FrameIn(word, f) => FrameIn(word', f)
          /\ \A f \in DOMAIN word : (\A x \in pages : f # <<step, x>>) => word'[f] = word[f]
      BY <2>1, <2>4, AddsPages, Zenon
    <3> QED BY <3>1, <3>2, <3>3, Zenon
  <2>6. CpuFrame(1) = <<step, Symbol("cpu")>> BY <2>1 DEF CpuFrame
  <2>7. \A m \in Pmem : FrameIn(word', PmemFrame(m)) /\ word'[PmemFrame(m)][0] = said'[m]
    BY <1>5, <2>1, <2>5, SMTT(60)
  <2>8. Mapped(1)'
    <3>1. DOMAIN vm'[1] = DataPages \cup {Symbol(m) : m \in Pmem} \cup {Symbol("cpu")} \cup
              {Symbol(va) : va \in {u \in UserPage : user'[1][u] # Nothing}}
      BY <1>1, <2>1, <2>3, <2>5
    <3>2. \A m \in Pmem : vm'[1][Symbol(m)] = Maps(PmemFrame(m), TRUE, RW)
      <4>1. \A m \in Pmem : vm[1][Symbol(m)] = Maps(PmemFrame(m), TRUE, RW)
        BY <1>1, <2>1, <2>2, Zenon DEF Mapped
      <4>2. \A m \in Pmem : Symbol(m) \in DOMAIN vm[1] BY <2>3
      <4> QED BY <2>5, <4>1, <4>2, Zenon
    <3>3. \A va \in UserPage : user'[1][va] = Nothing BY <2>1, <2>5
    <3>4. vm'[1][Symbol("cpu")] = Maps(CpuFrame(1), FALSE, RW) BY <2>5, <2>6, Zenon
    <3> QED BY <2>2, <2>5, <3>1, <3>2, <3>3, <3>4, Zenon DEF Mapped
  <2>9. Frames' BY <2>2, <2>5, <2>6, <2>7 DEF Frames, IsFrame
  <2>10. Contents'
    <3>1. mine'[1] = 0 BY <2>1, <2>2 DEF PlatformInv, Contents
    <3>2. word'[CpuFrame(1)][0] = mine'[1] BY <2>5, <2>6, <3>1, BlankFact
    <3> QED BY <1>1, <2>1, <2>2, <2>5, <2>7, <3>2 DEF Contents
  <2> QED BY <2>5, <2>8, <2>9, <2>10 DEF PlatformInv
<1>7. CASE MapTrapPage
  <2> DEFINE pages == {Symbol("trap")}
  <2>1. step = "trap" /\ step' = "memcpy" /\ Mmap(pages, TRUE, {}) /\ UNCHANGED <<said, mine, user, blocked>>
    BY <1>7, Zenon DEF MapTrapPage
  <2>2. AfterPmem /\ AfterCpu /\ ~AfterTrap /\ AfterPmem' /\ AfterCpu' /\ AfterTrap'
    BY <2>1 DEF AfterPmem, AfterCpu, AfterTrap
  <2>3. DOMAIN vm[1] = DataPages \cup {Symbol(m) : m \in Pmem} \cup {Symbol("cpu")}
    BY <1>1, <2>1, <2>2 DEF Mapped
  <2>4. \A x \in pages : x \notin DOMAIN vm[1] BY <1>2, <1>3, <2>3
  <2>5. /\ step' \in Steps /\ OneProcess' /\ Numbered' /\ Values'
        /\ Procs' = {1} /\ DOMAIN vm'[1] = DOMAIN vm[1] \cup pages /\ HasData' /\ ~InTemp'
        /\ vm'[1][Symbol("trap")] = Maps(<<step, Symbol("trap")>>, TRUE, {})
        /\ \A x \in DOMAIN vm[1] : vm'[1][x] = vm[1][x]
        /\ \A x \in DataPages : vm'[1][x] = Maps(DataFrame(x)', Remapped', RW)
                                /\ FrameIn(word', DataFrame(x)')
        /\ \A v \in Variables : word'[DataFrame(PageOf(Addr(v)))'][Addr(v) % PG] = said'[v]
        /\ \A va \in UserPage : user[1][va] = Nothing
        /\ \A f : FrameIn(word, f) => FrameIn(word', f)
        /\ \A f \in DOMAIN word : (\A x \in pages : f # <<step, x>>) => word'[f] = word[f]
    <3>1. Symbol("trap") \in pages OBVIOUS
    <3> HIDE DEF pages
    <3>2. /\ step' \in Steps /\ OneProcess' /\ Numbered' /\ Values'
          /\ Procs' = {1} /\ DOMAIN vm'[1] = DOMAIN vm[1] \cup pages /\ HasData' /\ ~InTemp'
          /\ \A x \in pages : /\ vm'[1][x] = Maps(<<step, x>>, TRUE, {})
                              /\ FrameIn(word', <<step, x>>) /\ word'[<<step, x>>] = Blank
          /\ \A x \in DOMAIN vm[1] : vm'[1][x] = vm[1][x]
      BY <2>1, <2>4, AddsPages, Zenon
    <3>3. /\ \A x \in DataPages : vm'[1][x] = Maps(DataFrame(x)', Remapped', RW)
                                  /\ FrameIn(word', DataFrame(x)')
          /\ \A v \in Variables : word'[DataFrame(PageOf(Addr(v)))'][Addr(v) % PG] = said'[v]
          /\ \A va \in UserPage : user[1][va] = Nothing
          /\ \A f : FrameIn(word, f) => FrameIn(word', f)
          /\ \A f \in DOMAIN word : (\A x \in pages : f # <<step, x>>) => word'[f] = word[f]
      BY <2>1, <2>4, AddsPages, Zenon
    <3> QED BY <3>1, <3>2, <3>3, Zenon
  <2>6. CpuFrame(1) = <<"cpu", Symbol("cpu")>> BY DEF CpuFrame
  <2>7. \A m \in Pmem : FrameIn(word', PmemFrame(m)) /\ word'[PmemFrame(m)][0] = said'[m]
    BY <1>5, <2>1, <2>5
  <2>8. Mapped(1)'
    <3>1. DOMAIN vm'[1] = DataPages \cup {Symbol(m) : m \in Pmem} \cup {Symbol("cpu")} \cup {Symbol("trap")}
              \cup {Symbol(va) : va \in {u \in UserPage : user'[1][u] # Nothing}}
      BY <1>1, <2>1, <2>3, <2>5
    <3>2. \A m \in Pmem : vm'[1][Symbol(m)] = Maps(PmemFrame(m), TRUE, RW)
      <4>1. \A m \in Pmem : vm[1][Symbol(m)] = Maps(PmemFrame(m), TRUE, RW)
        BY <1>1, <2>1, <2>2, Zenon DEF Mapped
      <4>2. \A m \in Pmem : Symbol(m) \in DOMAIN vm[1] BY <2>3
      <4> QED BY <2>5, <4>1, <4>2, Zenon
    <3>3. \A va \in UserPage : user'[1][va] = Nothing BY <2>1, <2>5
    <3>4. vm'[1][Symbol("cpu")] = Maps(CpuFrame(1), FALSE, RW)
      BY <1>1, <2>1, <2>2, <2>3, <2>5, Zenon DEF Mapped
    <3>5. vm'[1][Symbol("trap")] = Maps(<<"trap", Symbol("trap")>>, TRUE, {}) BY <2>1, <2>5
    <3> QED BY <2>2, <2>5, <3>1, <3>2, <3>3, <3>4, <3>5, Zenon DEF Mapped
  <2>9. FrameIn(word', CpuFrame(1)) /\ word'[CpuFrame(1)][0] = mine'[1]
    <3>1. FrameIn(word, CpuFrame(1)) /\ word[CpuFrame(1)][0] = mine[1]
      BY <1>1, <2>1, <2>2 DEF PlatformInv, Frames, IsFrame, Contents
    <3>2. CpuFrame(1)[1] = "cpu" /\ \A x \in pages : <<step, x>>[1] = "trap" BY <2>1, <2>6
    <3>3. \A x \in pages : CpuFrame(1) # <<step, x>> BY <3>2
    <3>4. CpuFrame(1) \in DOMAIN word BY <3>1 DEF FrameIn
    <3> QED BY <2>1, <2>5, <3>1, <3>3, <3>4
  <2>10. Frames' BY <2>2, <2>5, <2>7, <2>9 DEF Frames, IsFrame
  <2>11. Contents' BY <1>1, <2>1, <2>2, <2>5, <2>7, <2>9 DEF Contents
  <2> QED BY <2>5, <2>8, <2>10, <2>11 DEF PlatformInv
<1> QED BY <1>4, <1>6, <1>7

\* the three steps that take the segment away, map it again and fill it
LEMMA SegmentStep ==
  ASSUME PlatformInv, UnmapData \/ RemapData \/ RestoreData
  PROVE  PlatformInv'
<1> USE DEF Does, Keeps
<1>1. /\ UNCHANGED <<said, mine, user, blocked, temp>>
      /\ \/ step = "munmap" /\ step' = "mmap"
         \/ step = "mmap" /\ step' = "restore"
         \/ step = "restore" /\ step' = "drop"
  BY Zenon DEF UnmapData, RemapData, RestoreData
<1>2. /\ step # "main" /\ step' # "main" /\ Procs = {1}
      /\ AfterPmem /\ AfterCpu /\ AfterTrap /\ AfterPmem' /\ AfterCpu' /\ AfterTrap' /\ InTemp
      /\ step' \in Steps
  BY <1>1, StepsFact DEF PlatformInv, OneProcess, AfterPmem, AfterCpu, AfterTrap, InTemp, AfterMemcpy,
       Restored, Remapped, AfterKeep
<1>3. Mapped(1) /\ \A va \in UserPage : user[1][va] = Nothing
  BY <1>2 DEF PlatformInv, Numbered
<1>4. /\ DOMAIN said = Pmem \cup Variables /\ DOMAIN temp = SavedWords
      /\ \A v \in Variables : temp[Addr(v)] = said[v]
      /\ \A m \in Pmem : FrameIn(word, PmemFrame(m)) /\ word[PmemFrame(m)][0] = said[m]
      /\ FrameIn(word, CpuFrame(1)) /\ word[CpuFrame(1)][0] = mine[1]
  BY <1>2 DEF PlatformInv, Contents, Frames, IsFrame
<1>5. Values' BY <1>1 DEF PlatformInv, Values
<1>6. CpuFrame(1) = <<"cpu", Symbol("cpu")>> BY DEF CpuFrame
<1> DEFINE Symbols == {Symbol(m) : m \in Pmem} \cup {Symbol("cpu")} \cup {Symbol("trap")}
<1>7. /\ \A x \in Symbols : x \in DOMAIN vm[1] /\ x \notin DataPages
      /\ DOMAIN vm[1] = (IF HasData THEN DataPages ELSE {}) \cup Symbols
  <2>1. {Symbol(va) : va \in {u \in UserPage : user[1][u] # Nothing}} = {} BY <1>3
  <2>2. DOMAIN vm[1] = (IF HasData THEN DataPages ELSE {}) \cup Symbols BY <1>2, <1>3, <2>1 DEF Mapped
  <2>3. \A x \in Symbols : x \notin DataPages BY SymbolFact
  <2> QED BY <2>2, <2>3
<1>8. ASSUME NEW m, DOMAIN m = (IF HasData' THEN DataPages ELSE {}) \cup Symbols,
             m = vm'[1], Procs' = {1}, \A x \in Symbols : m[x] = vm[1][x],
             HasData' => \A x \in DataPages : m[x] = Maps(DataFrame(x)', Remapped', RW)
      PROVE  step' \in Steps /\ OneProcess' /\ Numbered' /\ \A p \in Procs' : Mapped(p)'
  <2>1. step' \in Steps /\ OneProcess' /\ Numbered' BY <1>1, <1>2, <1>8, StillOne
  <2>2. DOMAIN vm'[1] = (IF HasData' THEN DataPages ELSE {}) \cup {Symbol(w) : w \in Pmem}
             \cup {Symbol("cpu")} \cup {Symbol("trap")}
             \cup {Symbol(va) : va \in {u \in UserPage : user'[1][u] # Nothing}}
    BY <1>1, <1>3, <1>8
  <2>3. /\ \A w \in Pmem : vm'[1][Symbol(w)] = Maps(PmemFrame(w), TRUE, RW)
        /\ vm'[1][Symbol("cpu")] = Maps(CpuFrame(1), FALSE, RW)
        /\ vm'[1][Symbol("trap")] = Maps(<<"trap", Symbol("trap")>>, TRUE, {})
    <3>1. /\ \A w \in Pmem : vm[1][Symbol(w)] = Maps(PmemFrame(w), TRUE, RW)
          /\ vm[1][Symbol("cpu")] = Maps(CpuFrame(1), FALSE, RW)
          /\ vm[1][Symbol("trap")] = Maps(<<"trap", Symbol("trap")>>, TRUE, {})
      BY <1>2, <1>3, Zenon DEF Mapped
    <3> QED BY <1>8, <3>1, Zenon
  <2>4. \A va \in UserPage : user'[1][va] = Nothing BY <1>1, <1>3
  <2>5. HasData' => \A x \in DataPages : vm'[1][x] = Maps(DataFrame(x)', Remapped', RW) BY <1>8
  <2>6. Mapped(1)' BY <1>2, <2>2, <2>3, <2>4, <2>5, Zenon DEF Mapped
  <2> QED BY <1>8, <2>1, <2>6
<1>9. ASSUME \A w \in Pmem : FrameIn(word', PmemFrame(w)) /\ word'[PmemFrame(w)][0] = said[w],
             FrameIn(word', CpuFrame(1)), word'[CpuFrame(1)][0] = mine[1], Procs' = {1},
             HasData' => \A x \in DataPages : FrameIn(word', DataFrame(x)'),
             InPlace' => \A v \in Variables : word'[DataFrame(PageOf(Addr(v)))'][Addr(v) % PG] = said[v]
      PROVE  Frames' /\ Contents'
  <2>1. Frames' BY <1>9 DEF Frames, IsFrame
  <2>2. Contents' BY <1>1, <1>2, <1>4, <1>9 DEF Contents
  <2> QED BY <2>1, <2>2
<1> HIDE DEF Symbols
<1>10. CASE UnmapData
  <2>1. step = "munmap" /\ step' = "mmap" /\ word' = word BY <1>10 DEF UnmapData
  <2>2. HasData /\ ~HasData' /\ ~InPlace' BY <2>1 DEF HasData, InPlace
  <2>3. vm' = [vm EXCEPT ![1] = [x \in DOMAIN @ \ DataPages |-> @[x]]] BY <1>10 DEF UnmapData, Munmap
  <2>4. vm'[1] = [x \in DOMAIN vm[1] \ DataPages |-> vm[1][x]] /\ Procs' = {1}
    BY <1>2, <2>3 DEF Procs
  <2>5. DOMAIN vm[1] \ DataPages = Symbols BY <1>7, <2>2
  <2>6. step' \in Steps /\ OneProcess' /\ Numbered' /\ \A p \in Procs' : Mapped(p)'
    BY <1>8, <2>2, <2>4, <2>5
  <2>7. Frames' /\ Contents' BY <1>4, <1>9, <2>1, <2>2, <2>4
  <2> QED BY <1>5, <2>6, <2>7 DEF PlatformInv
<1>11. CASE RemapData
  <2>1. step = "mmap" /\ step' = "restore" /\ Mmap(DataPages, TRUE, RW) BY <1>11, Zenon DEF RemapData
  <2>2. ~HasData /\ HasData' /\ ~InPlace' /\ Remapped' = TRUE
    BY <2>1 DEF HasData, InPlace, Remapped, AfterKeep, AfterMemcpy, AfterTrap, AfterCpu, AfterPmem
  <2>3. /\ Procs' = {1} /\ DOMAIN vm'[1] = DOMAIN vm[1] \cup DataPages
        /\ \A x \in DataPages : vm'[1][x] = Maps(<<step, x>>, TRUE, RW)
        /\ \A x \in DOMAIN vm[1] \ DataPages : vm'[1][x] = vm[1][x]
        /\ \A x \in DataPages : FrameIn(word', <<step, x>>) /\ word'[<<step, x>>] = Blank
        /\ \A f : FrameIn(word, f) => FrameIn(word', f)
        /\ \A f \in DOMAIN word : (\A x \in DataPages : f # <<step, x>>) => word'[f] = word[f]
    <3> DEFINE pages == DataPages
    <3>1. Mmap(pages, TRUE, RW) BY <2>1, Zenon
    <3> HIDE DEF pages
    <3>2. /\ Procs' = {1} /\ DOMAIN vm'[1] = DOMAIN vm[1] \cup pages
          /\ \A x \in pages : vm'[1][x] = Maps(<<step, x>>, TRUE, RW)
          /\ \A x \in DOMAIN vm[1] \ pages : vm'[1][x] = vm[1][x]
          /\ \A x \in pages : FrameIn(word', <<step, x>>) /\ word'[<<step, x>>] = Blank
          /\ \A f : FrameIn(word, f) => FrameIn(word', f)
          /\ \A f \in DOMAIN word : (\A x \in pages : f # <<step, x>>) => word'[f] = word[f]
      BY <1>2, <3>1, MmapFact, Zenon
    <3> QED BY <3>2, Zenon DEF pages
  <2>4. \A x : DataFrame(x)' = <<step, x>> BY <2>1, <2>2 DEF DataFrame
  <2>5. step' \in Steps /\ OneProcess' /\ Numbered' /\ \A p \in Procs' : Mapped(p)'
    <3>1. DOMAIN vm'[1] = DataPages \cup Symbols BY <1>7, <2>2, <2>3
    <3>2. \A x \in Symbols : vm'[1][x] = vm[1][x] BY <1>7, <2>3
    <3>3. \A x \in DataPages : vm'[1][x] = Maps(DataFrame(x)', Remapped', RW) BY <2>2, <2>3, <2>4, Zenon
    <3> QED BY <1>8, <2>2, <2>3, <3>1, <3>2, <3>3, Zenon
  <2>6. \A x \in DataPages : <<step, x>>[1] = "mmap" BY <2>1
  <2>7. ASSUME NEW w \in Pmem PROVE FrameIn(word', PmemFrame(w)) /\ word'[PmemFrame(w)][0] = said[w]
    <3>1. PmemFrame(w)[1] = "pmem" BY DEF PmemFrame
    <3>2. \A x \in DataPages : PmemFrame(w) # <<step, x>> BY <2>6, <3>1
    <3>3. PmemFrame(w) \in DOMAIN word BY <1>4 DEF FrameIn
    <3> QED BY <1>4, <2>3, <3>2, <3>3
  <2>8. FrameIn(word', CpuFrame(1)) /\ word'[CpuFrame(1)][0] = mine[1]
    <3>1. CpuFrame(1)[1] = "cpu" BY <1>6
    <3>2. \A x \in DataPages : CpuFrame(1) # <<step, x>> BY <2>6, <3>1
    <3>3. CpuFrame(1) \in DOMAIN word BY <1>4 DEF FrameIn
    <3> QED BY <1>4, <2>3, <3>2, <3>3
  <2>9. \A x \in DataPages : FrameIn(word', DataFrame(x)') BY <2>3, <2>4
  <2>10. Frames' /\ Contents' BY <1>9, <2>2, <2>3, <2>7, <2>8, <2>9
  <2> QED BY <1>5, <2>5, <2>10 DEF PlatformInv
<1>12. CASE RestoreData
  <2> DEFINE Comes(f, o) == {a \in SavedWords : f = vm[1][PageOf(a)].frame /\ o = a % PG}
  <2>1. /\ step = "restore" /\ step' = "drop" /\ UNCHANGED vm
        /\ word' = [f \in DOMAIN word |-> [o \in 0 .. PG - 1 |->
              IF \E a \in SavedWords : f = vm[1][PageOf(a)].frame /\ o = a % PG
              THEN temp[CHOOSE a \in SavedWords : f = vm[1][PageOf(a)].frame /\ o = a % PG]
              ELSE word[f][o]]]
    BY <1>12 DEF RestoreData
  <2>2. HasData /\ HasData' /\ Remapped = TRUE /\ Remapped' = TRUE
    BY <2>1 DEF HasData, Remapped, AfterKeep, AfterMemcpy, AfterTrap, AfterCpu, AfterPmem
  <2>3. Procs' = {1} BY <1>2, <2>1 DEF Procs
  <2>4. \A x : DataFrame(x)' = DataFrame(x) BY <2>2 DEF DataFrame
  <2>5. \A x \in DataPages : vm[1][x] = Maps(DataFrame(x), Remapped, RW) BY <1>3, <2>2, Zenon DEF Mapped
  <2>6. \A a \in SavedWords : vm[1][PageOf(a)].frame = DataFrame(PageOf(a))
    <3>1. \A f, sh, pr : Maps(f, sh, pr).frame = f BY DEF Maps
    <3>2. \A x \in DataPages : vm[1][x].frame = DataFrame(x) BY <2>5, <3>1
    <3> QED BY <3>2, SegmentFact
  <2>7. \A f : FrameIn(word, f) => FrameIn(word', f) BY <2>1 DEF FrameIn
  <2>8. step' \in Steps /\ OneProcess' /\ Numbered' /\ \A p \in Procs' : Mapped(p)'
    <3>1. vm'[1] = vm[1] /\ DOMAIN vm[1] = DataPages \cup Symbols BY <1>7, <2>1, <2>2
    <3>2. \A x \in DataPages : vm'[1][x] = Maps(DataFrame(x)', Remapped', RW)
      BY <2>2, <2>4, <2>5, <3>1, Zenon
    <3> QED BY <1>8, <2>2, <2>3, <3>1, <3>2, Zenon
  <2>9. ASSUME NEW f, FrameIn(word, f), \A x \in DataPages : f # DataFrame(x)
        PROVE  word'[f][0] = word[f][0]
    <3>1. ~ \E a \in SavedWords : f = vm[1][PageOf(a)].frame /\ 0 = a % PG
      BY <2>6, <2>9, SegmentFact
    <3>2. f \in DOMAIN word /\ 0 \in 0 .. PG-1 BY <2>9, PlaceFact DEF FrameIn
    <3> QED BY <2>1, <3>1, <3>2
  <2>10. \A w \in Pmem : FrameIn(word', PmemFrame(w)) /\ word'[PmemFrame(w)][0] = said[w]
    <3> SUFFICES ASSUME NEW w \in Pmem
                 PROVE  FrameIn(word', PmemFrame(w)) /\ word'[PmemFrame(w)][0] = said[w] OBVIOUS
    <3>1. \A x \in DataPages : PmemFrame(w) # DataFrame(x) BY FramesFact
    <3> QED BY <1>4, <2>7, <2>9, <3>1
  <2>11. FrameIn(word', CpuFrame(1)) /\ word'[CpuFrame(1)][0] = mine[1]
    <3>1. \A x \in DataPages : CpuFrame(1) # DataFrame(x) BY FramesFact
    <3> QED BY <1>4, <2>7, <2>9, <3>1
  <2>12. \A x \in DataPages : FrameIn(word, DataFrame(x)) BY <2>2 DEF PlatformInv, Frames, IsFrame
  <2>13. \A x \in DataPages : FrameIn(word', DataFrame(x)') BY <2>4, <2>7, <2>12
  <2>14. ASSUME NEW v \in Variables PROVE word'[DataFrame(PageOf(Addr(v)))'][Addr(v) % PG] = said[v]
    <3>1. PICK f, o : f = DataFrame(PageOf(Addr(v))) /\ o = Addr(v) % PG OBVIOUS
    <3>2. Addr(v) \in SavedWords /\ o \in 0 .. PG-1 /\ PageOf(Addr(v)) \in DataPages
      BY <3>1, SegmentFact
    <3>3. f \in DOMAIN word BY <2>12, <3>1, <3>2 DEF FrameIn
    <3>4. f = vm[1][PageOf(Addr(v))].frame BY <2>6, <3>1, <3>2
    <3>5. \A a \in SavedWords : f = vm[1][PageOf(a)].frame /\ o = a % PG => a = Addr(v)
      <4> SUFFICES ASSUME NEW a \in SavedWords, f = vm[1][PageOf(a)].frame, o = a % PG
                   PROVE  a = Addr(v) OBVIOUS
      <4>1. DataFrame(PageOf(a)) = DataFrame(PageOf(Addr(v))) BY <2>6, <3>1, Zenon
      <4>2. PageOf(a) = PageOf(Addr(v)) BY <4>1, FramesFact
      <4> QED BY <3>1, <3>2, <4>2, SameWord
    <3>6. \E a \in SavedWords : f = vm[1][PageOf(a)].frame /\ o = a % PG BY <3>1, <3>2, <3>4
    <3>7. (CHOOSE a \in SavedWords : f = vm[1][PageOf(a)].frame /\ o = a % PG) = Addr(v)
      BY <3>5, <3>6
    <3>8. word'[f][o] = temp[Addr(v)] BY <2>1, <3>2, <3>3, <3>6, <3>7
    <3> QED BY <1>4, <2>4, <3>1, <3>8
  <2>15. Frames' /\ Contents' BY <1>9, <2>3, <2>10, <2>11, <2>13, <2>14
  <2> QED BY <1>5, <2>8, <2>15 DEF PlatformInv
<1> QED BY <1>10, <1>11, <1>12

-----------------------------------------------------------------------------
(* What main does.                                                           *)

LEMMA MainFact ==
  ASSUME step = "main"
  PROVE  HasData /\ InPlace /\ AfterPmem /\ AfterCpu /\ AfterTrap /\ Remapped = TRUE /\ ~InTemp
BY DEF HasData, InPlace, AfterPmem, AfterCpu, AfterTrap, AfterMemcpy, AfterKeep, Remapped, Restored, InTemp

LEMMA FrameChanged ==
  ASSUME NEW f, NEW sh, NEW pr, NEW g
  PROVE  [Maps(f, sh, pr) EXCEPT !.frame = g] = Maps(g, sh, pr)
BY DEF Maps

\* while main runs the flags stay and the segment's frames are those of the file
LEMMA MainStays ==
  ASSUME step = "main", step' = "main"
  PROVE  /\ HasData' /\ InPlace' /\ AfterPmem' /\ AfterCpu' /\ AfterTrap' /\ Remapped' = TRUE /\ ~InTemp'
         /\ MapsNothing
         /\ \A x : DataFrame(x) = <<"mmap", x>> /\ DataFrame(x)' = <<"mmap", x>>
<1>1. HasData' /\ InPlace' /\ AfterPmem' /\ AfterCpu' /\ AfterTrap' /\ Remapped' = TRUE /\ ~InTemp'
  BY DEF HasData, InPlace, AfterPmem, AfterCpu, AfterTrap, AfterMemcpy, AfterKeep, Remapped, Restored, InTemp
<1>2. MapsNothing BY <1>1, MainFact DEF MapsNothing
<1> QED BY <1>1, <1>2, MainFact DEF DataFrame

LEMMA ForkStep ==
  ASSUME PlatformInv, NEW p \in Procs, Fork(p)
  PROVE  PlatformInv'
<1>1. step = "main" /\ step' = "main" /\ UNCHANGED <<said, blocked>> BY DEF Fork
<1>2. HasData /\ InPlace /\ AfterPmem /\ AfterCpu /\ AfterTrap /\ Remapped = TRUE BY <1>1, MainFact
<1>3. /\ HasData' /\ AfterPmem' /\ AfterCpu' /\ AfterTrap' /\ Remapped' = TRUE /\ ~InTemp'
      /\ \A x : DataFrame(x) = <<"mmap", x>> /\ DataFrame(x)' = <<"mmap", x>>
  BY <1>1, MainStays
<1>4. PICK n \in Nat \ {0} : Procs = 1..n BY SMTT(60) DEF PlatformInv, Numbered
<1>5. PICK q \in Nat : q = n + 1 OBVIOUS
<1>6. Cardinality(Procs) + 1 = q BY <1>4, <1>5, FS_Interval
<1> DEFINE own == {x \in DOMAIN vm[p] : ~vm[p][x].shared}
           frame(x) == IF x \in own THEN <<"fork", q, x>> ELSE vm[p][x].frame
           M == [x \in DOMAIN vm[p] |-> [vm[p][x] EXCEPT !.frame = frame(x)]]
           w == [f \in {<<"fork", q, x>> : x \in own} |-> word[vm[p][f[3]].frame]]
<1>7. /\ vm' = Extend(vm, [i \in {q} |-> M]) /\ word' = Extend(word, w)
      /\ mine' = Extend(mine, [i \in {q} |-> mine[p]]) /\ user' = Extend(user, [i \in {q} |-> user[p]])
  BY <1>6, Zenon DEF Fork
<1>8. DOMAIN vm = 1..n /\ DOMAIN mine = 1..n /\ DOMAIN user = 1..n
  BY <1>4 DEF PlatformInv, Numbered, Procs
<1>9. q \notin 1..n /\ 1..n \cup {q} = 1..q /\ q # 1 /\ q \in Nat \ {0} BY <1>4, <1>5
<1>10. DOMAIN w = {<<"fork", q, x>> : x \in own} /\ \A x \in own : w[<<"fork", q, x>>] = word[vm[p][x].frame]
  OBVIOUS
<1>11. DOMAIN M = DOMAIN vm[p] /\ \A x \in DOMAIN vm[p] : M[x] = [vm[p][x] EXCEPT !.frame = frame(x)]
  OBVIOUS
<1> HIDE DEF M, w
<1>12. /\ Procs' = 1..q /\ vm'[q] = M /\ mine'[q] = mine[p] /\ user'[q] = user[p]
       /\ DOMAIN mine' = 1..q /\ DOMAIN user' = 1..q
       /\ \A r \in 1..n : vm'[r] = vm[r] /\ mine'[r] = mine[r] /\ user'[r] = user[r]
  BY <1>7, <1>8, <1>9 DEF Extend, Procs
<1>13. /\ DOMAIN word' = DOMAIN word \cup DOMAIN w
       /\ \A f \in DOMAIN w : word'[f] = w[f]
       /\ \A f \in DOMAIN word : f \notin DOMAIN w => word'[f] = word[f]
  BY <1>7 DEF Extend
<1>14. ASSUME NEW f, FrameIn(word, f), f[1] # "fork" \/ f[2] # q
       PROVE  FrameIn(word', f) /\ word'[f] = word[f]
  <2>1. \A x : <<"fork", q, x>>[1] = "fork" /\ <<"fork", q, x>>[2] = q OBVIOUS
  <2>2. f \notin DOMAIN w BY <1>10, <1>14, <2>1
  <2> QED BY <1>13, <1>14, <2>2 DEF FrameIn
<1>15. Mapped(p) BY DEF PlatformInv
<1>16. ASSUME NEW x \in DOMAIN vm[p], NEW f, NEW pr, vm[p][x] = Maps(f, TRUE, pr)
       PROVE  M[x] = vm[p][x]
  <2>1. vm[p][x].shared = TRUE /\ vm[p][x].frame = f BY <1>16 DEF Maps
  <2>2. frame(x) = f BY <2>1
  <2>3. [Maps(f, TRUE, pr) EXCEPT !.frame = f] = Maps(f, TRUE, pr)
    <3>1. PICK sh : sh = TRUE OBVIOUS
    <3>2. [Maps(f, sh, pr) EXCEPT !.frame = f] = Maps(f, sh, pr) BY FrameChanged
    <3> QED BY <3>1, <3>2, Zenon
  <2> HIDE DEF frame
  <2> QED BY <1>11, <1>16, <2>2, <2>3, Zenon
<1>17. /\ M[Symbol("cpu")] = Maps(CpuFrame(q), FALSE, RW)
       /\ Symbol("cpu") \in own /\ vm[p][Symbol("cpu")].frame = CpuFrame(p)
       /\ CpuFrame(q) = <<"fork", q, Symbol("cpu")>>
  <2>1. vm[p][Symbol("cpu")] = Maps(CpuFrame(p), FALSE, RW) /\ Symbol("cpu") \in DOMAIN vm[p]
    BY <1>2, <1>15, Zenon DEF Mapped
  <2>2. vm[p][Symbol("cpu")].shared = FALSE /\ vm[p][Symbol("cpu")].frame = CpuFrame(p)
    BY <2>1 DEF Maps
  <2>3. Symbol("cpu") \in own BY <2>1, <2>2, Zenon
  <2>4. CpuFrame(q) = <<"fork", q, Symbol("cpu")>> BY <1>9 DEF CpuFrame
  <2>5. frame(Symbol("cpu")) = CpuFrame(q) BY <2>3, <2>4
  <2>6. [Maps(CpuFrame(p), FALSE, RW) EXCEPT !.frame = CpuFrame(q)] = Maps(CpuFrame(q), FALSE, RW)
    <3>1. PICK sh : sh = FALSE BY Zenon
    <3>2. [Maps(CpuFrame(p), sh, RW) EXCEPT !.frame = CpuFrame(q)] = Maps(CpuFrame(q), sh, RW)
      BY FrameChanged
    <3> QED BY <3>1, <3>2, Zenon
  <2> HIDE DEF own, frame
  <2> QED BY <1>11, <2>1, <2>2, <2>3, <2>4, <2>5, <2>6, Zenon
<1> HIDE DEF own, frame
<1>18. Mapped(q)'
  <2>1. DOMAIN vm[p] = DataPages \cup {Symbol(m) : m \in Pmem} \cup {Symbol("cpu")} \cup {Symbol("trap")}
             \cup {Symbol(va) : va \in {u \in UserPage : user[p][u] # Nothing}}
    BY <1>2, <1>15 DEF Mapped
  <2>2. DOMAIN vm'[q] = DataPages \cup {Symbol(m) : m \in Pmem} \cup {Symbol("cpu")} \cup {Symbol("trap")}
             \cup {Symbol(va) : va \in {u \in UserPage : user'[q][u] # Nothing}}
    BY <1>11, <1>12, <2>1
  <2>3. ASSUME NEW x \in DataPages PROVE vm'[q][x] = Maps(DataFrame(x)', Remapped', RW)
    <3>1. vm[p][x] = Maps(DataFrame(x), TRUE, RW) BY <1>2, <1>15, Zenon DEF Mapped
    <3>2. PICK f : f = DataFrame(x) OBVIOUS
    <3>3. M[x] = vm[p][x] BY <1>16, <2>1, <3>1, <3>2, Zenon
    <3>4. DataFrame(x)' = DataFrame(x) BY <1>3
    <3> QED BY <1>3, <1>12, <3>1, <3>3, <3>4
  <2>4. ASSUME NEW m \in Pmem PROVE vm'[q][Symbol(m)] = Maps(PmemFrame(m), TRUE, RW)
    <3>1. vm[p][Symbol(m)] = Maps(PmemFrame(m), TRUE, RW) BY <1>2, <1>15, Zenon DEF Mapped
    <3> QED BY <1>12, <1>16, <2>1, <3>1, ZenonT(60)
  <2>5. vm'[q][Symbol("trap")] = Maps(<<"trap", Symbol("trap")>>, TRUE, {})
    <3>1. vm[p][Symbol("trap")] = Maps(<<"trap", Symbol("trap")>>, TRUE, {}) BY <1>2, <1>15, Zenon DEF Mapped
    <3> QED BY <1>12, <1>16, <2>1, <3>1, ZenonT(60)
  <2>6. ASSUME NEW va \in UserPage, user'[q][va] # Nothing
        PROVE  vm'[q][Symbol(va)] = Maps(PmemFrame(user'[q][va]), TRUE, RW)
    <3>1. user[p][va] # Nothing BY <1>12, <2>6
    <3>2. vm[p][Symbol(va)] = Maps(PmemFrame(user[p][va]), TRUE, RW) BY <1>15, <3>1, Zenon DEF Mapped
    <3>3. PICK f : f = PmemFrame(user[p][va]) OBVIOUS
    <3>4. Symbol(va) \in DOMAIN vm[p] BY <2>1, <3>1
    <3>5. M[Symbol(va)] = vm[p][Symbol(va)] BY <1>16, <3>2, <3>3, <3>4, Zenon
    <3> QED BY <1>12, <3>2, <3>5
  <2>7. vm'[q][Symbol("cpu")] = Maps(CpuFrame(q), FALSE, RW) BY <1>12, <1>17
  <2> QED BY <1>3, <2>2, <2>3, <2>4, <2>5, <2>6, <2>7, Zenon DEF Mapped
<1>19. ASSUME NEW r \in 1..n PROVE Mapped(r)'
  <2>1. Mapped(r) BY <1>4 DEF PlatformInv
  <2>2. \A x \in DataPages : vm[r][x] = Maps(DataFrame(x), Remapped, RW) BY <1>2, <2>1, Zenon DEF Mapped
  <2>3. \A x \in DataPages : vm'[r][x] = Maps(DataFrame(x)', Remapped', RW)
    BY <1>2, <1>3, <1>12, <2>2, Zenon
  <2>4. vm'[r] = vm[r] /\ user'[r] = user[r] BY <1>12
  <2> QED BY <1>2, <1>3, <2>1, <2>3, <2>4, Zenon DEF Mapped
<1>20. \A r \in Procs' : Mapped(r)' BY <1>9, <1>12, <1>18, <1>19, Zenon
<1>21. /\ \A x \in DataPages : FrameIn(word', DataFrame(x)') /\ word'[DataFrame(x)'] = word[DataFrame(x)]
       /\ \A m \in Pmem : FrameIn(word', PmemFrame(m)) /\ word'[PmemFrame(m)] = word[PmemFrame(m)]
  <2>1. ASSUME NEW x \in DataPages
        PROVE  FrameIn(word', DataFrame(x)') /\ word'[DataFrame(x)'] = word[DataFrame(x)]
    <3>1. PICK f : f = DataFrame(x) OBVIOUS
    <3>2. FrameIn(word, f) BY <1>2, <3>1 DEF PlatformInv, Frames, IsFrame
    <3>3. f[1] = "mmap" BY <1>3, <3>1
    <3>4. DataFrame(x)' = f BY <1>3, <3>1
    <3> QED BY <1>14, <3>1, <3>2, <3>3, <3>4
  <2>2. ASSUME NEW m \in Pmem
        PROVE  FrameIn(word', PmemFrame(m)) /\ word'[PmemFrame(m)] = word[PmemFrame(m)]
    <3>1. FrameIn(word, PmemFrame(m)) BY <1>2 DEF PlatformInv, Frames, IsFrame
    <3>2. PmemFrame(m)[1] = "pmem" BY DEF PmemFrame
    <3> QED BY <1>14, <3>1, <3>2
  <2> QED BY <2>1, <2>2
<1>22. \A r \in Procs' : FrameIn(word', CpuFrame(r)) /\ word'[CpuFrame(r)][0] = mine'[r]
  <2>1. \A r \in 1..n : FrameIn(word, CpuFrame(r)) /\ word[CpuFrame(r)][0] = mine[r]
    BY <1>2, <1>4 DEF PlatformInv, Frames, IsFrame, Contents
  <2>2. ASSUME NEW r \in 1..n PROVE FrameIn(word', CpuFrame(r)) /\ word'[CpuFrame(r)][0] = mine'[r]
    <3>1. CpuFrame(r)[1] # "fork" \/ CpuFrame(r)[2] # q
      <4>1. CASE r = 1
        <5>1. CpuFrame(r) = <<"cpu", Symbol("cpu")>> BY <4>1 DEF CpuFrame
        <5> QED BY <5>1
      <4>2. CASE r # 1
        <5>1. CpuFrame(r) = <<"fork", r, Symbol("cpu")>> BY <4>2 DEF CpuFrame
        <5>2. r # q BY <1>9
        <5> QED BY <5>1, <5>2
      <4> QED BY <4>1, <4>2
    <3> QED BY <1>12, <1>14, <2>1, <3>1
  <2>3. FrameIn(word', CpuFrame(q)) /\ word'[CpuFrame(q)][0] = mine'[q]
    <3>1. CpuFrame(q) \in DOMAIN w /\ w[CpuFrame(q)] = word[CpuFrame(p)] BY <1>10, <1>17
    <3>2. FrameIn(word, CpuFrame(p)) /\ word[CpuFrame(p)][0] = mine[p] BY <1>4, <2>1
    <3> QED BY <1>12, <1>13, <3>1, <3>2, Zenon DEF FrameIn
  <2> QED BY <1>9, <1>12, <2>2, <2>3, Zenon
<1>23. Frames' BY <1>21, <1>22 DEF Frames, IsFrame
<1>24. Contents'
  <2>1. \A v \in Variables : word'[DataFrame(PageOf(Addr(v)))'][Addr(v) % PG] = said'[v]
    <3>1. \A v \in Variables : word[DataFrame(PageOf(Addr(v)))][Addr(v) % PG] = said[v]
      BY <1>2 DEF PlatformInv, Contents
    <3> QED BY <1>1, <1>21, <3>1, SegmentFact
  <2>2. \A m \in Pmem : word'[PmemFrame(m)][0] = said'[m]
    <3>1. \A m \in Pmem : word[PmemFrame(m)][0] = said[m] BY <1>2 DEF PlatformInv, Contents
    <3> QED BY <1>1, <1>21, <3>1
  <2>3. DOMAIN said' = Pmem \cup Variables BY <1>1 DEF PlatformInv, Contents
  <2> QED BY <1>3, <1>22, <2>1, <2>2, <2>3 DEF Contents
<1>25. step' \in Steps /\ OneProcess' /\ Values'
  BY <1>1 DEF PlatformInv, OneProcess, Values, Steps
<1>26. Numbered'
  <2>1. \A r \in 1..n : user[r] \in [UserPage -> Pmem \cup {Nothing}] BY <1>4 DEF PlatformInv, Numbered
  <2>2. \A r \in 1..q : user'[r] \in [UserPage -> Pmem \cup {Nothing}] BY <1>4, <1>9, <1>12, <2>1
  <2> QED BY <1>1, <1>9, <1>12, <2>2 DEF Numbered
<1> QED BY <1>20, <1>23, <1>24, <1>25, <1>26 DEF PlatformInv

\* a page of memory, or the thiscpu of a process, is stored to while main runs
LEMMA PageStored ==
  ASSUME PlatformInv, step = "main", UNCHANGED <<step, vm, user, blocked>>, NEW f, NEW x, NEW p \in Procs,
         word' = [word EXCEPT ![f][0] = x],
         \/ \E m \in Pmem : f = PmemFrame(m) /\ said' = [said EXCEPT ![m] = x] /\ UNCHANGED mine
         \/ f = CpuFrame(p) /\ mine' = [mine EXCEPT ![p] = x] /\ UNCHANGED said
  PROVE  PlatformInv'
<1>1. HasData /\ InPlace /\ AfterPmem /\ AfterCpu /\ AfterTrap /\ Remapped = TRUE BY MainFact
<1>2. /\ HasData' /\ AfterPmem' /\ AfterCpu' /\ AfterTrap' /\ ~InTemp' /\ MapsNothing
      /\ \A y : DataFrame(y) = <<"mmap", y>> /\ DataFrame(y)' = <<"mmap", y>>
  BY MainStays
<1>3. Procs' = Procs BY DEF Procs
<1>4. \A q \in Procs' : Mapped(q)' BY <1>2, SameMaps DEF PlatformInv
<1>5. /\ DOMAIN said = Pmem \cup Variables /\ DOMAIN mine = Procs
      /\ \A m \in Pmem : FrameIn(word, PmemFrame(m)) /\ word[PmemFrame(m)][0] = said[m]
      /\ \A q \in Procs : FrameIn(word, CpuFrame(q)) /\ word[CpuFrame(q)][0] = mine[q]
      /\ \A y \in DataPages : FrameIn(word, DataFrame(y))
      /\ \A v \in Variables : word[DataFrame(PageOf(Addr(v)))][Addr(v) % PG] = said[v]
  BY <1>1 DEF PlatformInv, Contents, Frames, IsFrame, Numbered
<1>6. FrameIn(word, f) BY <1>5
<1>7. /\ \A g : FrameIn(word, g) => FrameIn(word', g) /\ (g # f => word'[g] = word[g])
      /\ word'[f][0] = x
  BY <1>6, PlaceFact DEF FrameIn
<1>8. \A y : DataFrame(y) # f BY FramesFact
<1>9. Frames'
  <2>1. \A y \in DataPages : FrameIn(word', DataFrame(y)') BY <1>2, <1>5, <1>7, Zenon
  <2> QED BY <1>3, <1>5, <1>7, <2>1, Zenon DEF Frames, IsFrame
<1>10. ASSUME NEW v \in Variables
       PROVE  word'[DataFrame(PageOf(Addr(v)))'][Addr(v) % PG] = said'[v] /\ said'[v] = said[v]
  <2>1. said'[v] = said[v] BY <1>5, NamesFact
  <2>2. PICK g : g = DataFrame(PageOf(Addr(v))) OBVIOUS
  <2>3. g # f /\ FrameIn(word, g) /\ word[g][Addr(v) % PG] = said[v] BY <1>5, <1>8, <2>2, SegmentFact
  <2>4. word'[g][Addr(v) % PG] = said[v] BY <1>7, <2>3
  <2>5. DataFrame(PageOf(Addr(v)))' = g BY <1>2, <2>2
  <2> QED BY <2>1, <2>4, <2>5
<1>11. /\ \A m \in Pmem : word'[PmemFrame(m)][0] = said'[m]
       /\ \A q \in Procs : word'[CpuFrame(q)][0] = mine'[q]
       /\ DOMAIN said' = DOMAIN said /\ DOMAIN mine' = DOMAIN mine
  <2>1. CASE \E m \in Pmem : f = PmemFrame(m) /\ said' = [said EXCEPT ![m] = x] /\ UNCHANGED mine
    <3>1. PICK m \in Pmem : f = PmemFrame(m) /\ said' = [said EXCEPT ![m] = x] /\ UNCHANGED mine
      BY <2>1, Zenon
    <3>2. \A q \in Procs : CpuFrame(q) # f BY <3>1, FramesFact
    <3>3. \A k \in Pmem : k # m => PmemFrame(k) # f BY <3>1, FramesFact
    <3>4. said'[m] = x /\ \A k \in Pmem : k # m => said'[k] = said[k] BY <1>5, <3>1
    <3> QED BY <1>5, <1>7, <3>1, <3>2, <3>3, <3>4
  <2>2. CASE f = CpuFrame(p) /\ mine' = [mine EXCEPT ![p] = x] /\ UNCHANGED said
    <3>1. \A m \in Pmem : PmemFrame(m) # f BY <2>2, FramesFact
    <3>2. \A q \in Procs : q # p => CpuFrame(q) # f BY <2>2, FramesFact
    <3>3. mine'[p] = x /\ \A q \in Procs : q # p => mine'[q] = mine[q] BY <1>5, <2>2
    <3> QED BY <1>5, <1>7, <2>2, <3>1, <3>2, <3>3
  <2> QED BY <2>1, <2>2
<1>12. Contents' BY <1>2, <1>3, <1>5, <1>10, <1>11 DEF Contents
<1>13. Values' BY <1>10 DEF PlatformInv, Values, Variables
<1>14. step' \in Steps /\ OneProcess' BY DEF PlatformInv, OneProcess, Steps
<1>15. Numbered' BY <1>3, <1>11 DEF PlatformInv, Numbered
<1> QED BY <1>4, <1>9, <1>12, <1>13, <1>14, <1>15 DEF PlatformInv

LEMMA StoreStep ==
  ASSUME PlatformInv, NEW p \in Procs, NEW v \in Stores, Store(p, v)
  PROVE  PlatformInv'
<1>1. /\ step = "main" /\ step' = "main" /\ Reaches(p, v) /\ word' = Stored(p, v, p)
      /\ UNCHANGED <<step, vm, temp, stack, blocked, user>>
  BY DEF Store
<1>2. HasData /\ InPlace /\ AfterPmem /\ AfterCpu BY <1>1, MainFact
<1>3. InPlace' /\ ~InTemp' /\ MapsNothing BY <1>1, MainStays, SMTT(60)
<1>4. ASSUME NEW k, NEW f, k \notin Variables, vm[p][Symbol(k)].frame = f, v = k
      PROVE  word' = [word EXCEPT ![f][0] = p]
  BY <1>1, <1>4, PlaceFact, Zenon DEF Stored
<1>5. CASE v = "counter"
  <2>1. v \in Variables /\ v \notin UserPage /\ v # "cpu" BY <1>5, NamesFact DEF Variables
  <2>2. said' = [said EXCEPT ![v] = p] /\ UNCHANGED mine BY <2>1 DEF Store
  <2>3. (\A q \in Procs' : Mapped(q)') /\ Frames' /\ Contents'
    BY <1>1, <1>2, <1>3, <2>1, <2>2, VariableStored, Zenon
  <2>4. \A u \in Variables : u # "counter" => said'[u] = said[u] BY <1>5, <2>2 DEF PlatformInv, Contents
  <2>5. Values' BY <1>1, <2>4 DEF PlatformInv, Values, Variables
  <2>6. step' \in Steps /\ OneProcess' /\ Numbered'
    BY <1>1, <2>2 DEF PlatformInv, OneProcess, Numbered, Steps, Procs
  <2> QED BY <2>3, <2>5, <2>6 DEF PlatformInv
<1>6. CASE v = "cpu"
  <2>1. v \notin Variables BY <1>6, NamesFact
  <2>2. vm[p][Symbol(v)].frame = CpuFrame(p) BY <1>2, <1>6, WhereFact
  <2>3. word' = [word EXCEPT ![CpuFrame(p)][0] = p] BY <1>4, <2>1, <2>2
  <2>4. mine' = [mine EXCEPT ![p] = p] /\ UNCHANGED said BY <1>6 DEF Store
  <2> QED BY <1>1, <2>3, <2>4, PageStored, Zenon
<1>7. CASE v \in Pmem
  <2>1. v \notin Variables /\ v \notin UserPage /\ v # "cpu" BY <1>7, NamesFact
  <2>2. vm[p][Symbol(v)].frame = PmemFrame(v) BY <1>2, <1>7, WhereFact
  <2>3. word' = [word EXCEPT ![PmemFrame(v)][0] = p] BY <1>4, <2>1, <2>2
  <2>4. said' = [said EXCEPT ![v] = p] /\ UNCHANGED mine BY <2>1 DEF Store
  <2> QED BY <1>1, <1>7, <2>3, <2>4, PageStored, Zenon
<1>8. CASE v \in UserPage
  <2>1. v \notin Variables /\ v # "cpu" BY <1>8, NamesFact
  <2>2. Symbol(v) \in DOMAIN vm[p] BY <1>1, <2>1, PlaceFact DEF Reaches
  <2>3. PICK m \in Pmem : m = user[p][v] /\ vm[p][Symbol(v)].frame = PmemFrame(m)
    BY <1>8, <2>2, WhereFact
  <2>4. word' = [word EXCEPT ![PmemFrame(m)][0] = p] BY <1>4, <2>1, <2>3
  <2>5. said' = [said EXCEPT ![m] = p] /\ UNCHANGED mine BY <1>8, <2>1, <2>3 DEF Store
  <2> QED BY <1>1, <2>4, <2>5, PageStored, Zenon
<1> QED BY <1>5, <1>6, <1>7, <1>8 DEF Stores

\* map() and unmap() at a user page of a process
LEMMA UserPageStep ==
  ASSUME PlatformInv, NEW p \in Procs, NEW va \in UserPage, NEW pa \in Pmem,
         __am_pmem_unmap(p, va) \/ __am_pmem_map(p, va, pa)
  PROVE  PlatformInv'
<1>1. step = "main" /\ step' = "main" /\ UNCHANGED <<word, temp, blocked, said, mine>>
  BY DEF __am_pmem_map, __am_pmem_unmap
<1>2. HasData /\ InPlace /\ AfterPmem /\ AfterCpu /\ AfterTrap /\ Remapped = TRUE BY <1>1, MainFact
<1>3. /\ HasData' /\ AfterPmem' /\ AfterCpu' /\ AfterTrap' /\ Remapped' = TRUE /\ ~InTemp'
      /\ \A y : DataFrame(y)' = DataFrame(y)
  BY <1>1, MainStays
<1>4. PICK n \in Nat \ {0} : Procs = 1..n BY DEF PlatformInv, Numbered
<1>5. /\ DOMAIN user = Procs /\ user[p] \in [UserPage -> Pmem \cup {Nothing}] /\ Mapped(p)
      /\ DOMAIN vm = Procs
  BY DEF PlatformInv, Numbered, Procs
<1> DEFINE Rest == DataPages \cup {Symbol(m) : m \in Pmem} \cup {Symbol("cpu")} \cup {Symbol("trap")}
           Pages(u) == {Symbol(b) : b \in {u1 \in UserPage : u[u1] # Nothing}}
<1>6. DOMAIN vm[p] = Rest \cup Pages(user[p]) BY <1>2, <1>5 DEF Mapped
<1>7. Symbol(va) \notin Rest
  <2>1. Symbol(va) \notin DataPages BY SymbolFact
  <2>2. \A m \in Pmem : Symbol(va) # Symbol(m) BY SymbolFact, NamesFact
  <2>3. Symbol(va) # Symbol("cpu") /\ Symbol(va) # Symbol("trap") BY SymbolFact, NamesFact
  <2> HIDE DEF Symbol
  <2> QED BY <2>1, <2>2, <2>3
<1>8. \A b \in UserPage : b # va => Symbol(b) # Symbol(va) BY SymbolFact
\* it is enough to say what the process has afterwards
<1>9. ASSUME NEW m, NEW u \in [UserPage -> Pmem \cup {Nothing}],
             vm' = [vm EXCEPT ![p] = m], user' = [user EXCEPT ![p] = u],
             DOMAIN m = Rest \cup Pages(u), \A x \in DOMAIN m : x # Symbol(va) => m[x] = vm[p][x],
             \A b \in UserPage : b # va => u[b] = user[p][b],
             u[va] # Nothing => m[Symbol(va)] = Maps(PmemFrame(u[va]), TRUE, RW)
      PROVE  PlatformInv'
  <2>1. /\ Procs' = Procs /\ vm'[p] = m /\ user'[p] = u /\ DOMAIN user' = Procs
        /\ \A q \in Procs : q # p => vm'[q] = vm[q] /\ user'[q] = user[q]
    BY <1>5, <1>9 DEF Procs
  <2>2. Mapped(p)'
    <3>1. \A x \in Rest : m[x] = vm[p][x] BY <1>7, <1>9
    <3>2. /\ \A x \in DataPages : m[x] = vm[p][x]
          /\ \A k \in Pmem : m[Symbol(k)] = vm[p][Symbol(k)]
          /\ m[Symbol("cpu")] = vm[p][Symbol("cpu")] /\ m[Symbol("trap")] = vm[p][Symbol("trap")]
      BY <3>1
    <3>3. \A x \in DataPages : vm'[p][x] = Maps(DataFrame(x)', Remapped', RW)
      <4>1. \A x \in DataPages : vm[p][x] = Maps(DataFrame(x), Remapped, RW) BY <1>2, <1>5, Zenon DEF Mapped
      <4> QED BY <1>2, <1>3, <2>1, <3>2, <4>1, Zenon
    <3>4. /\ \A k \in Pmem : vm'[p][Symbol(k)] = Maps(PmemFrame(k), TRUE, RW)
          /\ vm'[p][Symbol("cpu")] = Maps(CpuFrame(p), FALSE, RW)
          /\ vm'[p][Symbol("trap")] = Maps(<<"trap", Symbol("trap")>>, TRUE, {})
      <4>1. /\ \A k \in Pmem : vm[p][Symbol(k)] = Maps(PmemFrame(k), TRUE, RW)
            /\ vm[p][Symbol("cpu")] = Maps(CpuFrame(p), FALSE, RW)
            /\ vm[p][Symbol("trap")] = Maps(<<"trap", Symbol("trap")>>, TRUE, {})
        BY <1>2, <1>5, Zenon DEF Mapped
      <4> QED BY <2>1, <3>2, <4>1, Zenon
    <3>5. ASSUME NEW b \in UserPage, user'[p][b] # Nothing
          PROVE  vm'[p][Symbol(b)] = Maps(PmemFrame(user'[p][b]), TRUE, RW)
      <4>1. CASE b = va BY <1>9, <2>1, <3>5, <4>1, Zenon
      <4>2. CASE b # va
        <5>1. user[p][b] = u[b] /\ u[b] # Nothing BY <1>9, <2>1, <3>5, <4>2
        <5>2. vm[p][Symbol(b)] = Maps(PmemFrame(user[p][b]), TRUE, RW) BY <1>5, <5>1, Zenon DEF Mapped
        <5>3. Symbol(b) \in DOMAIN m BY <1>9, <5>1
        <5>4. m[Symbol(b)] = vm[p][Symbol(b)] BY <1>8, <1>9, <4>2, <5>3
        <5> QED BY <2>1, <5>1, <5>2, <5>4
      <4> QED BY <4>1, <4>2, Zenon
    <3>6. DOMAIN vm'[p] = DataPages \cup {Symbol(k) : k \in Pmem} \cup {Symbol("cpu")} \cup {Symbol("trap")}
             \cup {Symbol(b) : b \in {u1 \in UserPage : user'[p][u1] # Nothing}}
      BY <1>9, <2>1
    <3> HIDE DEF Rest, Pages
    <3> QED BY <1>3, <3>3, <3>4, <3>5, <3>6, Zenon DEF Mapped
  <2> HIDE DEF Rest, Pages
  <2>3. ASSUME NEW q \in Procs, q # p PROVE Mapped(q)'
    <3>1. Mapped(q) BY DEF PlatformInv
    <3>2. \A x \in DataPages : vm[q][x] = Maps(DataFrame(x), Remapped, RW) BY <1>2, <3>1, Zenon DEF Mapped
    <3>3. \A x \in DataPages : vm'[q][x] = Maps(DataFrame(x)', Remapped', RW)
      BY <1>2, <1>3, <2>1, <2>3, <3>2, Zenon
    <3>4. vm'[q] = vm[q] /\ user'[q] = user[q] BY <2>1, <2>3
    <3> QED BY <1>2, <1>3, <3>1, <3>3, <3>4, Zenon DEF Mapped
  <2>4. Frames'
    <3>1. /\ \A x \in DataPages : FrameIn(word, DataFrame(x))
          /\ \A k \in Pmem : FrameIn(word, PmemFrame(k))
          /\ \A q \in Procs : FrameIn(word, CpuFrame(q))
      BY <1>2 DEF PlatformInv, Frames, IsFrame
    <3>2. \A x \in DataPages : FrameIn(word', DataFrame(x)') BY <1>1, <1>3, <3>1
    <3> QED BY <1>1, <2>1, <3>1, <3>2 DEF Frames, IsFrame
  <2>5. Contents'
    <3>1. \A v \in Variables : word'[DataFrame(PageOf(Addr(v)))'][Addr(v) % PG] = said'[v]
      <4>1. \A v \in Variables : word[DataFrame(PageOf(Addr(v)))][Addr(v) % PG] = said[v]
        BY <1>2 DEF PlatformInv, Contents
      <4> QED BY <1>1, <1>3, <4>1
    <3>2. /\ DOMAIN said = Pmem \cup Variables
          /\ \A k \in Pmem : word[PmemFrame(k)][0] = said[k]
          /\ \A q \in Procs : word[CpuFrame(q)][0] = mine[q]
      BY <1>2 DEF PlatformInv, Contents
    <3> QED BY <1>1, <1>3, <2>1, <3>1, <3>2 DEF Contents
  <2>6. step' \in Steps /\ OneProcess' /\ Values'
    BY <1>1 DEF PlatformInv, OneProcess, Values, Steps
  <2>7. Numbered'
    <3>1. \A q \in Procs : user[q] \in [UserPage -> Pmem \cup {Nothing}] BY DEF PlatformInv, Numbered
    <3>2. \A q \in Procs : user'[q] \in [UserPage -> Pmem \cup {Nothing}] BY <1>9, <2>1, <3>1
    <3>3. DOMAIN mine = Procs BY DEF PlatformInv, Numbered
    <3> QED BY <1>1, <1>4, <2>1, <3>2, <3>3 DEF Numbered
  <2>8. \A q \in Procs' : Mapped(q)' BY <2>1, <2>2, <2>3
  <2> QED BY <2>4, <2>5, <2>6, <2>7, <2>8 DEF PlatformInv
<1>10. CASE __am_pmem_map(p, va, pa)
  <2> DEFINE e == [frame |-> vm[p][Symbol(pa)].frame, shared |-> TRUE, prot |-> RW]
             m == Extend(vm[p], [x \in {Symbol(va)} |-> e])
             u == [user[p] EXCEPT ![va] = pa]
  <2>1. vm' = [vm EXCEPT ![p] = m] /\ user' = [user EXCEPT ![p] = u] BY <1>10 DEF __am_pmem_map
  <2>2. pa # Nothing BY NamesFact
  <2>3. u \in [UserPage -> Pmem \cup {Nothing}] /\ u[va] = pa
        /\ \A b \in UserPage : b # va => u[b] = user[p][b]
    BY <1>5
  <2>4. vm[p][Symbol(pa)].frame = PmemFrame(pa) BY <1>2, WhereFact
  <2>5. e = Maps(PmemFrame(pa), TRUE, RW) BY <2>4 DEF Maps
  <2> HIDE DEF e
  <2>6. /\ DOMAIN m = DOMAIN vm[p] \cup {Symbol(va)} /\ m[Symbol(va)] = e
        /\ \A x \in DOMAIN m : x # Symbol(va) => m[x] = vm[p][x]
    BY DEF Extend
  <2> HIDE DEF m, u
  <2>7. Pages(u) = Pages(user[p]) \cup {Symbol(va)} BY <2>2, <2>3
  <2>8. DOMAIN m = Rest \cup Pages(u) BY <1>6, <2>6, <2>7
  <2> HIDE DEF Rest, Pages
  <2>9. PICK m1, u1 : m1 = m /\ u1 = u OBVIOUS
  <2>10. m1[Symbol(va)] = Maps(PmemFrame(u1[va]), TRUE, RW) BY <2>3, <2>5, <2>6, <2>9
  <2> QED BY <1>9, <2>1, <2>3, <2>6, <2>8, <2>9, <2>10, Zenon
<1>11. CASE __am_pmem_unmap(p, va)
  <2> DEFINE m == [x \in DOMAIN vm[p] \ {Symbol(va)} |-> vm[p][x]]
             u == [user[p] EXCEPT ![va] = Nothing]
  <2>1. vm' = [vm EXCEPT ![p] = m] /\ user' = [user EXCEPT ![p] = u]
    BY <1>11 DEF __am_pmem_unmap, Munmap
  <2>2. u \in [UserPage -> Pmem \cup {Nothing}] /\ u[va] = Nothing
        /\ \A b \in UserPage : b # va => u[b] = user[p][b]
    BY <1>5
  <2>3. DOMAIN m = DOMAIN vm[p] \ {Symbol(va)} /\ \A x \in DOMAIN m : m[x] = vm[p][x] OBVIOUS
  <2> HIDE DEF m, u
  <2>4. Pages(u) = Pages(user[p]) \ {Symbol(va)} BY <1>8, <2>2
  <2>5. DOMAIN m = Rest \cup Pages(u) BY <1>6, <1>7, <2>3, <2>4
  <2> HIDE DEF Rest, Pages
  <2>6. PICK m1, u1 : m1 = m /\ u1 = u OBVIOUS
  <2> QED BY <1>9, <2>1, <2>2, <2>3, <2>5, <2>6, ZenonT(60)
<1> QED BY <1>10, <1>11

-----------------------------------------------------------------------------
(* The invariant holds, and says that memory is shared as meant.             *)

LEMMA InitFact ==
  ASSUME NativePlatformInit
  PROVE  PlatformInv
<1> USE DEF NativePlatformInit
<1>1. HasData /\ InPlace /\ ~AfterPmem /\ ~AfterCpu /\ ~AfterTrap /\ Remapped = FALSE /\ ~InTemp
  BY DEF HasData, InPlace, AfterPmem, AfterCpu, AfterTrap, AfterMemcpy, AfterKeep, Remapped, InTemp
<1>2. Procs = {1} /\ {1} = 1..1 BY DEF Procs
<1>3. OneProcess /\ Numbered /\ \A va \in UserPage : user[1][va] = Nothing
  <2>1. \E n \in Nat \ {0} : Procs = 1..n BY <1>2
  <2>2. DOMAIN mine = {1} /\ DOMAIN user = {1} /\ user[1] = [va \in UserPage |-> Nothing] OBVIOUS
  <2>3. user[1] \in [UserPage -> Pmem \cup {Nothing}] BY <2>2
  <2> QED BY <1>2, <2>1, <2>2, <2>3 DEF OneProcess, Numbered
<1>4. \A x : DataFrame(x) = <<"exec", x>> BY <1>1 DEF DataFrame
<1>5. Mapped(1)
  <2>1. DOMAIN vm[1] = DataPages OBVIOUS
  <2>2. {Symbol(va) : va \in {u \in UserPage : user[1][u] # Nothing}} = {} BY <1>3
  <2>3. ASSUME NEW x \in DataPages PROVE vm[1][x] = Maps(DataFrame(x), Remapped, RW)
    <3>1. vm[1][x] = [frame |-> <<"exec", x>>, shared |-> FALSE, prot |-> RW] OBVIOUS
    <3>2. Maps(<<"exec", x>>, FALSE, RW) = [frame |-> <<"exec", x>>, shared |-> FALSE, prot |-> RW]
      BY DEF Maps
    <3> HIDE DEF NativePlatformInit
    <3> QED BY <1>1, <1>4, <3>1, <3>2, Zenon
  <2> HIDE DEF NativePlatformInit
  <2> QED BY <1>1, <1>3, <2>1, <2>2, <2>3, Zenon DEF Mapped
<1> DEFINE F(x) == <<"exec", x>>
<1>6. \A x \in DataPages : /\ F(x) \in DOMAIN word /\ DOMAIN word[F(x)] = 0 .. PG-1
                           /\ \A o \in 0 .. PG-1 : word[F(x)][o] =
                                IF x[2] * PG + o = Addr("GOT") THEN Libc ELSE 0
  <2> SUFFICES ASSUME NEW x \in DataPages
               PROVE  /\ F(x) \in DOMAIN word /\ DOMAIN word[F(x)] = 0 .. PG-1
                      /\ \A o \in 0 .. PG-1 : word[F(x)][o] =
                           IF x[2] * PG + o = Addr("GOT") THEN Libc ELSE 0 BY Zenon
  <2>1. word = [f \in {F(y) : y \in DataPages} |->
                  [o \in 0 .. PG-1 |-> IF f[2][2] * PG + o = Addr("GOT") THEN Libc ELSE 0]] OBVIOUS
  <2>2. F(x)[2] = x OBVIOUS
  <2> HIDE DEF F, NativePlatformInit
  <2>3. word[F(x)] = [o \in 0 .. PG-1 |-> IF x[2] * PG + o = Addr("GOT") THEN Libc ELSE 0]
    BY <2>1, <2>2, Zenon
  <2> QED BY <2>1, <2>3
<1>7. said = [v \in Pmem \cup Variables |-> IF v = "GOT" THEN Libc ELSE 0] BY StaticsFact
<1>8. "GOT" \in Variables /\ "GOT" \notin Pmem BY NamesFact DEF Variables
<1>9. ASSUME NEW v \in Variables PROVE word[DataFrame(PageOf(Addr(v)))][Addr(v) % PG] = said[v]
  <2>1. PageOf(Addr(v)) \in DataPages /\ Addr(v) % PG \in 0 .. PG-1 BY SegmentFact
  <2>2. PageOf(Addr(v))[2] = Addr(v) \div PG BY DEF PageOf
  <2>3. (Addr(v) \div PG) * PG + (Addr(v) % PG) = Addr(v)
    <3>1. Addr(v) \in Int /\ PG \in Nat \ {0} BY PlatformAssumption, StaticsFact
    <3> DEFINE a == Addr(v)
    <3>2. a % PG \in 0 .. PG-1 /\ a \div PG \in Int /\ a = PG * (a \div PG) + (a % PG)
      BY <3>1, DivMod, Zenon
    <3>3. PG * (a \div PG) = (a \div PG) * PG BY <3>1, <3>2
    <3> QED BY <3>2, <3>3
  <2>4. word[F(PageOf(Addr(v)))][Addr(v) % PG] = IF Addr(v) = Addr("GOT") THEN Libc ELSE 0
    <3> HIDE DEF F, NativePlatformInit
    <3> QED BY <1>6, <2>1, <2>2, <2>3
  <2>5. Addr(v) = Addr("GOT") <=> v = "GOT" BY <1>8, StaticsFact
  <2> HIDE DEF NativePlatformInit
  <2> QED BY <1>4, <1>7, <2>4, <2>5
<1>10. Frames
  <2> HIDE DEF NativePlatformInit
  <2> QED BY <1>1, <1>4, <1>6 DEF Frames, IsFrame, FrameIn
<1>11. Contents
  <2>1. mine[1] = 0 OBVIOUS
  <2>2. \A m \in Pmem : said[m] = 0 BY <1>7, <1>8
  <2> HIDE DEF NativePlatformInit
  <2> QED BY <1>1, <1>7, <1>9, <2>1, <2>2 DEF Contents
<1>12. Values BY <1>7, <1>8, Zenon DEF Values
<1>13. step \in Steps BY StepsFact
<1> HIDE DEF NativePlatformInit
<1> QED BY <1>2, <1>3, <1>5, <1>10, <1>11, <1>12, <1>13 DEF PlatformInv

LEMMA PlatformStep ==
  ASSUME PlatformInv, [NativePlatformNext]_pvars
  PROVE  PlatformInv'
<1>1. CASE SetPmemFd \/ SetThiscpu \/ FindMemcpy \/ SetSigmask \/ save_example_context \/ SetExample
  BY <1>1, SetsStep
<1>2. CASE SaveData \/ KeepPointers \/ DropTemp \/ setup_sigaltstack \/ IsetOff BY <1>2, QuietStep
<1>3. CASE MapPmem \/ MapCpu \/ MapTrapPage BY <1>3, MmapStep
<1>4. CASE UnmapData \/ RemapData \/ RestoreData BY <1>4, SegmentStep
<1>5. ASSUME NEW p \in Procs, Fork(p) PROVE PlatformInv' BY <1>5, ForkStep
<1>6. ASSUME NEW p \in Procs, NEW v \in Stores, Store(p, v) PROVE PlatformInv' BY <1>6, StoreStep
<1>7. ASSUME NEW p \in Procs, NEW va \in UserPage, NEW pa \in Pmem, __am_pmem_map(p, va, pa)
      PROVE  PlatformInv'
  BY <1>7, UserPageStep
<1>8. ASSUME NEW p \in Procs, NEW va \in UserPage, __am_pmem_unmap(p, va) PROVE PlatformInv'
  <2>1. user[p][va] # Nothing
    <3>1. Symbol(va) \in DOMAIN vm[p] BY <1>8, PlaceFact, NamesFact DEF __am_pmem_unmap, Reaches
    <3> QED BY <3>1, WhereFact
  <2>2. user[p][va] \in Pmem BY <2>1, WhereFact
  <2>3. PICK pa \in Pmem : TRUE BY <2>2
  <2> QED BY <1>8, <2>3, UserPageStep
<1>9. CASE UNCHANGED pvars
  <2> USE <1>9 DEF pvars
  <2>1. \A x : DataFrame(x)' = DataFrame(x) BY DEF DataFrame, Remapped, AfterKeep, AfterMemcpy,
      AfterTrap, AfterCpu, AfterPmem
  <2>2. MapsNothing /\ InPlace' = InPlace /\ InTemp' = InTemp
    BY DEF MapsNothing, HasData, AfterPmem, AfterCpu, AfterTrap, Remapped, AfterKeep, AfterMemcpy,
           InPlace, InTemp, Restored
  <2>3. InTemp' => DOMAIN temp' = SavedWords /\ \A v \in Variables : temp'[Addr(v)] = said[v]
    BY <2>2 DEF PlatformInv, Contents
  <2>4. (\A q \in Procs' : Mapped(q)') /\ Frames' /\ Contents' BY <2>2, <2>3, NothingStored
  <2>5. step' \in Steps /\ OneProcess' /\ Numbered' /\ Values'
    BY DEF PlatformInv, OneProcess, Numbered, Values, Steps, Procs
  <2> QED BY <2>4, <2>5 DEF PlatformInv
<1> QED BY <1>1, <1>2, <1>3, <1>4, <1>5, <1>6, <1>7, <1>8, <1>9 DEF NativePlatformNext

\* What is mapped, where it is stored and what it holds, from init_platform's
\* first instruction on and in every process that is forked.
THEOREM PlatformInvariant == PlatformSpec => []PlatformInv
<1>1. NativePlatformInit => PlatformInv BY InitFact
<1>2. PlatformInv /\ [NativePlatformNext]_pvars => PlatformInv' BY PlatformStep
<1> QED BY <1>1, <1>2, PTL DEF PlatformSpec

\* the variables each step of init_platform touches
LEMMA TouchesFact ==
  ASSUME NEW s \in Steps, s # "main"
  PROVE  /\ Touches[s] \subseteq Variables \cup {"cpu"}
         /\ "cpu" \in Touches[s] => s \in {"thiscpu", "altstack"}
         /\ s \in {"mmap", "restore"} => Touches[s] = {}
BY StepsFact DEF Touches, Variables

LEMMA InvariantShares ==
  ASSUME PlatformInv
  PROVE  SharedAsMeant
<1>1. CASE step # "main"
  <2>1. 1 \in Procs /\ step \in Steps BY <1>1 DEF PlatformInv, OneProcess
  <2>2. ASSUME NEW v \in Touches[step] PROVE Reaches(1, v)
    <3>1. step # "mmap" /\ v \in Variables \cup {"cpu"} BY <1>1, <2>1, <2>2, TouchesFact
    <3>2. HasData BY <3>1 DEF HasData
    <3>3. v = "cpu" => AfterCpu BY <1>1, <2>1, <2>2, TouchesFact DEF AfterCpu, AfterPmem
    <3> QED BY <2>1, <3>1, <3>2, <3>3, WhereFact
  <2>3. "GOT" \in Touches[step] => Load(1, "GOT") = Libc
    <3>1. "GOT" \in Touches[step] => InPlace BY <1>1, <2>1, TouchesFact DEF InPlace, HasData
    <3>2. "GOT" \in Variables /\ said["GOT"] = Libc BY DEF Variables, PlatformInv, Values
    <3> QED BY <2>1, <3>1, <3>2, WhereFact
  <2> QED BY <1>1, <2>2, <2>3 DEF SharedAsMeant, Able
<1>2. CASE step = "main"
  <2>1. HasData /\ InPlace /\ AfterPmem /\ AfterCpu /\ AfterTrap BY <1>2, MainFact
  <2>2. blocked = Intr /\ said["uc_example"] = [segments |-> TRUE, mask |-> Intr]
    BY <1>2 DEF PlatformInv, Values
  <2>3. /\ DOMAIN said = Pmem \cup Variables /\ \A m \in Pmem : word[PmemFrame(m)][0] = said[m]
        /\ \A p \in Procs : word[CpuFrame(p)][0] = mine[p]
    BY <2>1 DEF PlatformInv, Contents
  <2>4. ASSUME NEW p \in Procs
        PROVE  /\ \A v \in DOMAIN said : Load(p, v) = said[v]
               /\ Load(p, "cpu") = mine[p] /\ vm[p][Symbol("trap")].prot = {}
               /\ \A va \in UserPage : IF user[p][va] = Nothing THEN Symbol(va) \notin DOMAIN vm[p]
                                       ELSE Load(p, va) = said[user[p][va]]
    <3>1. \A v \in Variables : Load(p, v) = said[v] BY <2>1, WhereFact
    <3>2. \A v : v \notin Variables => Load(p, v) = word[vm[p][Symbol(v)].frame][0]
      BY PlaceFact DEF Load
    <3>3. \A m \in Pmem : Load(p, m) = said[m] BY <2>1, <2>3, <3>2, WhereFact, NamesFact
    <3>4. Load(p, "cpu") = mine[p] BY <2>1, <2>3, <3>2, WhereFact, NamesFact
    <3>5. vm[p][Symbol("trap")].prot = {}
      <4>1. vm[p][Symbol("trap")] = Maps(<<"trap", Symbol("trap")>>, TRUE, {})
        BY <2>1, Zenon DEF PlatformInv, Mapped
      <4> QED BY <4>1 DEF Maps
    <3>6. ASSUME NEW va \in UserPage
          PROVE  IF user[p][va] = Nothing THEN Symbol(va) \notin DOMAIN vm[p]
                 ELSE Load(p, va) = said[user[p][va]]
      BY <2>3, <3>2, WhereFact, NamesFact
    <3> QED BY <2>3, <3>1, <3>3, <3>4, <3>5, <3>6
  <2> QED BY <1>2, <2>2, <2>4 DEF SharedAsMeant
<1> QED BY <1>1, <1>2

\* init_platform touches nothing it has unmapped, and when main runs every
\* process sees the variables, the memory, the thiscpu and the user pages that
\* it should, however many processes there are and whoever stored last.
THEOREM PlatformShares == PlatformSpec => []SharedAsMeant
BY PlatformInvariant, InvariantShares, PTL

-----------------------------------------------------------------------------
(* The sound of native. *)

\* what Devices does while it looks at native's sound
AudioSpec == NativeAudioInit /\ [][NativeAudioNext]_avars

ByteNo == 0..AudioK-1

PlayCalls == [at : {"idle", "write", "load", "store"}, len : Nat, nwrite : Nat, n : Nat, tmp : Nat]
Callbacks == [at : {"idle", "test", "fetch", "read", "store", "fill"}, len : Nat, nread : Nat,
              b : Nat, tmp : Nat]
AudioTypes ==
  /\ pipe \in Seq(ByteNo) /\ Len(pipe) <= PipeSize /\ count \in Nat
  /\ opened \in BOOLEAN /\ stranded \in Nat
  /\ play \in PlayCalls /\ cb \in Callbacks
  /\ stream \in Seq(Int) /\ submitted \in ByteNo
  /\ drift \in Int /\ spoilt \in Nat

\* audio_write: a short buffer is written whole; count is not larger than when it was loaded
Writing ==
  /\ play.at = "idle" => play = NoPlay
  /\ play.at = "write" => play.n = 0
  /\ play.len <= PIPE_BUF =>
       IF play.at = "write" THEN play.nwrite \in {0, play.len}
       ELSE play.nwrite = 0 /\ play.n \in {0, play.len}
  /\ play.at = "store" => count <= play.tmp

\* audio_play: count is at least what it is about to take off
Playing ==
  /\ cb.at = "idle" => cb = NoCallback /\ stream = <<>>
  /\ cb.at \in {"test", "fetch"} => cb.b = 0
  /\ cb.at = "test" => cb.nread = cb.len
  /\ cb.at = "read" => cb.nread <= count
  /\ cb.at = "store" => cb.nread <= cb.tmp /\ cb.tmp <= count
  /\ cb.at \in {"store", "fill"} => cb.nread <= cb.b
  /\ cb.at = "read" /\ cb.b \in 1..cb.nread-1 => drift > stranded
  /\ cb.len <= Len(stream)
  /\ cb.len < Len(stream) => cb.nread > cb.len /\ spoilt > 0

\* before __am_audio_ctrl there is one thread
Alone == ~opened => cb.at = "idle" /\ drift = 0 /\ (play.at = "store" => play.tmp = count)

\* count, and what is in the pipe
Counted == count + play.n + stranded = Len(pipe) + (IF cb.at = "fill" THEN 0 ELSE cb.b) + drift

\* nothing was written or read again: the bytes in SDL's buffer, those in the pipe, those to come
Ordered ==
  /\ headno \in ByteNo
  /\ play.n <= play.len /\ play.nwrite <= play.len /\ (play.nwrite = 0 \/ play.n = 0)
  /\ cb.b <= cb.nread /\ cb.b <= Len(stream) /\ cb.b <= PipeSize
  /\ \A i \in 1..cb.b : stream[i] = (headno + i - 1) % AudioK
  /\ \A i \in 1..Len(pipe) : pipe[i] = (headno + cb.b + i - 1) % AudioK
  /\ (submitted + play.nwrite + play.n) % AudioK = (headno + cb.b + Len(pipe)) % AudioK

AudioInv == AudioTypes /\ Writing /\ Playing /\ Alone /\ Counted /\ (spoilt = 0 => Ordered)

-----------------------------------------------------------------------------
(* Two numbers that are the same modulo n stay so.  *)
LEMMA ModShift ==
  ASSUME NEW n \in Nat \ {0}, NEW a \in Int, NEW b \in Int, NEW i \in Int, a % n = b % n
  PROVE  (a + i) % n = (b + i) % n
<1> DEFINE qa == a \div n
           qb == b \div n
           qx == (a + i) \div n
           qy == (b + i) \div n
<1>1. qa \in Int /\ a = n * qa + (a % n) BY DivMod
<1>2. qb \in Int /\ b = n * qb + (b % n) BY DivMod
<1>3. a + i \in Int /\ b + i \in Int OBVIOUS
<1>4. qx \in Int /\ a + i = n * qx + ((a + i) % n) /\ (a + i) % n \in 0..n-1 BY <1>3, DivMod, Zenon
<1>5. qy \in Int /\ b + i = n * qy + ((b + i) % n) /\ (b + i) % n \in 0..n-1 BY <1>3, DivMod, Zenon
<1>6. PICK r \in 0..n-1, s \in 0..n-1, t \in 0..n-1 : r = a % n /\ s = (a + i) % n /\ t = (b + i) % n
  <2>1. a % n \in 0..n-1 BY DivMod
  <2> QED BY <2>1, <1>4, <1>5
<1> HIDE DEF qa, qb, qx, qy
<1>7. a = n * qa + r /\ b = n * qb + r /\ a + i = n * qx + s /\ b + i = n * qy + t
  BY <1>1, <1>2, <1>4, <1>5, <1>6
<1>8. n * (qa - qb - qx + qy) = s - t BY <1>1, <1>2, <1>4, <1>5, <1>7, Z3
<1>9. qa - qb - qx + qy \in Int BY <1>1, <1>2, <1>4, <1>5
<1>10. PICK d \in Int : d = qa - qb - qx + qy BY <1>9
<1>11. n * d = s - t BY <1>8, <1>10
<1>12. d = 0
  <2>1. CASE d >= 1
    <3>1. n * d >= n * 1 BY <2>1, Z3
    <3> QED BY <3>1, <1>11, Z3
  <2>2. CASE d <= -1
    <3>1. n * d <= n * (-1) BY <2>2, Z3
    <3> QED BY <3>1, <1>11, Z3
  <2> QED BY <2>1, <2>2, Z3
<1>13. s = t BY <1>11, <1>12, Z3
<1> QED BY <1>6, <1>13

LEMMA ModSame ==
  ASSUME NEW n \in Nat \ {0}, NEW a \in 0..n-1 PROVE a % n = a
<1>1. a % n \in 0 .. n-1 /\ a \div n \in Int /\ a = n * (a \div n) + (a % n) BY DivMod
<1>2. PICK d \in Int, m \in 0 .. n-1 : d = a \div n /\ m = a % n BY <1>1
<1>3. a = n * d + m BY <1>1, <1>2
<1>4. d = 0
  <2>1. CASE d >= 1
    <3>1. n * d >= n * 1 BY <2>1, Z3
    <3> QED BY <3>1, <1>3, Z3
  <2>2. CASE d <= -1
    <3>1. n * d <= n * (-1) BY <2>2, Z3
    <3> QED BY <3>1, <1>3, Z3
  <2> QED BY <2>1, <2>2, Z3
<1> QED BY <1>2, <1>3, <1>4, Z3

LEMMA ModTwice ==
  ASSUME NEW n \in Nat \ {0}, NEW a \in Int, NEW i \in Int
  PROVE  ((a % n) + i) % n = (a + i) % n
<1>1. a % n \in 0..n-1 BY DivMod
<1>2. (a % n) % n = a % n BY <1>1, ModSame
<1>3. a % n \in Int BY <1>1
<1> QED BY <1>2, <1>3, ModShift, Zenon

(* What holds of 0, and of d + 1 if of d, holds up to n. *)
LEMMA UpTo ==
  ASSUME NEW n \in Nat, NEW S, 0 \in S, \A d \in 0..n-1 : d \in S => d + 1 \in S
  PROVE  0..n \subseteq S
<1> SUFFICES ASSUME (0..n) \ S # {} PROVE FALSE OBVIOUS
<1> DEFINE R == OpToRel(<, Nat)
           T == (0..n) \ S
<1>1. IsWellFoundedOn(R, Nat) BY NatLessThanWellFounded, Zenon
<1>2. \A x, y \in Nat : x < y => <<x, y>> \in R BY DEF OpToRel
<1>3. T \in SUBSET Nat /\ T # {} OBVIOUS
<1> HIDE DEF R
<1>4. PICK x \in T : \A y \in T : <<y, x>> \notin R
  <2> HIDE DEF T
  <2> QED BY <1>1, <1>3, WFMin, Zenon
<1>5. x # 0 /\ x - 1 \in 0..n-1 /\ (x - 1) + 1 = x OBVIOUS
<1>6. x - 1 \in T BY <1>5
<1>7. x - 1 < x /\ x - 1 \in Nat /\ x \in Nat BY <1>5
<1> QED BY <1>2, <1>4, <1>6, <1>7

(* A buffer of n sounds and then silence. *)
LEMMA SoundsOf ==
  ASSUME NEW s \in Seq(Int), NEW n \in 0..Len(s),
         \A i \in 1..n : s[i] # Silence, \A i \in n+1..Len(s) : s[i] = Silence
  PROVE  Sounds(s) = [k \in 1..n |-> s[k]]
<1> DEFINE len == Len(s)
           Next1(f, i) == IF i = 0 THEN <<>> ELSE IF s[i] = Silence THEN f[i-1] ELSE Append(f[i-1], s[i])
           Up(i) == IF i <= n THEN i ELSE n
           g == [i \in 0..len |-> [k \in 1..Up(i) |-> s[k]]]
           f == CHOOSE h : h = [i \in 0..len |-> Next1(h, i)]
<1>1. len \in Nat OBVIOUS
<1>2. \A i \in 0..len : g[i] = [k \in 1..Up(i) |-> s[k]] OBVIOUS
<1>3. ASSUME NEW i \in 0..len PROVE g[i] = Next1(g, i)
  <2>1. CASE i = 0
    <3>1. Up(0) = 0 OBVIOUS
    <3>2. [k \in 1..0 |-> s[k]] = <<>> OBVIOUS
    <3> QED BY <2>1, <3>1, <3>2, <1>2
  <2>2. CASE i # 0 /\ i <= n
    <3>1. i - 1 \in 0..len /\ Up(i) = i /\ Up(i-1) = i - 1 /\ i \in 1..n BY <2>2
    <3>2. g[i-1] = [k \in 1..i-1 |-> s[k]] /\ g[i] = [k \in 1..i |-> s[k]] BY <3>1, <1>2
    <3>3. s[i] # Silence /\ s[i] \in Int BY <3>1
    <3>4. \A k \in 1..i-1 : s[k] \in Int BY <3>1
    <3> HIDE DEF g
    <3>5. Append(g[i-1], s[i]) = [k \in 1..i |-> s[k]] BY <3>2, <3>3, <3>4, <3>1
    <3> QED BY <2>2, <3>2, <3>3, <3>5
  <2>3. CASE i > n
    <3>1. i - 1 \in 0..len /\ Up(i) = n /\ Up(i-1) = n /\ i \in n+1..len /\ i # 0 BY <2>3
    <3>2. g[i-1] = g[i] BY <3>1, <1>2
    <3> QED BY <3>1, <3>2
  <2> QED BY <2>1, <2>2, <2>3
<1>4. g = [i \in 0..len |-> Next1(g, i)]
  <2>1. g = [i \in 0..len |-> g[i]] OBVIOUS
  <2> HIDE DEF g, Next1
  <2> QED BY <2>1, <1>3
<1>5. f = [i \in 0..len |-> Next1(f, i)]
  <2> HIDE DEF g, Next1
  <2> QED BY <1>4, Zenon
<1>6. Sounds(s) = f[len] BY DEF Sounds
<1> HIDE DEF g, f
<1>7. \A i \in 0..len : f[i] = Next1(f, i)
  <2> HIDE DEF Next1
  <2> QED BY <1>5
<1> DEFINE S == {i \in 0..len : f[i] = g[i]}
<1>8. 0 \in S BY <1>7, <1>3, <1>1
<1>9. \A d \in 0..len-1 : d \in S => d + 1 \in S
  <2> SUFFICES ASSUME NEW d \in 0..len-1, d \in S PROVE d + 1 \in S OBVIOUS
  <2>1. d + 1 \in 0..len /\ d + 1 # 0 /\ (d + 1) - 1 = d BY <1>1
  <2>2. f[d + 1] = Next1(f, d + 1) /\ g[d + 1] = Next1(g, d + 1) BY <2>1, <1>7, <1>3, Zenon
  <2>3. f[d] = g[d] OBVIOUS
  <2> QED BY <2>1, <2>2, <2>3
<1>10. len \in S
  <2> HIDE DEF S, len
  <2>1. 0..len \subseteq S BY <1>1, <1>8, <1>9, UpTo
  <2> QED BY <2>1, <1>1
<1>11. f[len] = g[len] /\ Up(len) = n BY <1>10
<1> QED BY <1>6, <1>11, <1>2, <1>1

-----------------------------------------------------------------------------
(* The steps of an application that submits sound.                           *)

\* a step of what a sound device promises, or none; or damage
SoundStep == SoundStream!Next \/ UNCHANGED <<headno, Len(pipe) + cb.b, heard>>
Good == AudioInv' /\ (spoilt' = 0 => SoundStep)

LEMMA AudioFacts == AudioK \in Nat \ {0} /\ PipeSize \in Nat \ {0} /\ PIPE_BUF \in 1..PipeSize
BY NativeAudioAssumption

\* the types, for the provers
LEMMA AudioTyped ==
  ASSUME AudioTypes
  PROVE  /\ pipe \in Seq(ByteNo) /\ Len(pipe) \in Nat /\ Len(pipe) <= PipeSize /\ count \in Nat
         /\ stranded \in Nat /\ drift \in Int /\ spoilt \in Nat
         /\ play.len \in Nat /\ play.nwrite \in Nat /\ play.n \in Nat /\ play.tmp \in Nat
         /\ play \in PlayCalls
         /\ cb.len \in Nat /\ cb.nread \in Nat /\ cb.b \in Nat /\ cb.tmp \in Nat
         /\ cb \in Callbacks
         /\ stream \in Seq(Int) /\ Len(stream) \in Nat /\ submitted \in ByteNo /\ submitted \in Int
<1>1. play \in PlayCalls /\ cb \in Callbacks BY DEF AudioTypes
<1>2. play.len \in Nat /\ play.nwrite \in Nat /\ play.n \in Nat /\ play.tmp \in Nat
  BY ONLY <1>1 DEF PlayCalls
<1>3. cb.len \in Nat /\ cb.nread \in Nat /\ cb.b \in Nat /\ cb.tmp \in Nat
  BY ONLY <1>1 DEF Callbacks
<1>4. Len(pipe) \in Nat /\ Len(stream) \in Nat BY DEF AudioTypes
<1>5. submitted \in Int BY DEF AudioTypes, ByteNo
<1> QED BY <1>1, <1>2, <1>3, <1>4, <1>5 DEF AudioTypes

LEMMA AudioInit == NativeAudioInit => AudioInv /\ SoundStream!Init
<1> SUFFICES ASSUME NativeAudioInit PROVE AudioInv /\ SoundStream!Init OBVIOUS
<1>1. /\ pipe = <<>> /\ count = 0 /\ opened = FALSE /\ stranded = 0
      /\ play = NoPlay /\ cb = NoCallback
      /\ stream = <<>> /\ submitted = 0 /\ heard = <<>> /\ headno = 0
      /\ drift = 0 /\ spoilt = 0
  BY DEF NativeAudioInit
<1>2. play \in PlayCalls /\ play.at = "idle" /\ play.len = 0 /\ play.nwrite = 0 /\ play.n = 0
  BY <1>1 DEF PlayCalls, NoPlay
<1>3. cb \in Callbacks /\ cb.at = "idle" /\ cb.len = 0 /\ cb.nread = 0 /\ cb.b = 0
  BY <1>1 DEF Callbacks, NoCallback
<1>4. Len(pipe) = 0 /\ pipe \in Seq(ByteNo) /\ Len(stream) = 0 /\ stream \in Seq(Int) BY <1>1
<1>5. 0 \in ByteNo /\ PipeSize \in Nat BY AudioFacts DEF ByteNo
<1>6. AudioTypes
  <2>1. opened \in BOOLEAN BY <1>1, Zenon
  <2> QED BY <1>1, <1>2, <1>3, <1>4, <1>5, <2>1 DEF AudioTypes
<1>7. Writing BY <1>1, <1>2 DEF Writing
<1>8. Playing BY <1>1, <1>3, <1>4 DEF Playing
<1>9. Alone BY <1>1, <1>2, <1>3 DEF Alone
<1>10. Counted BY <1>1, <1>2, <1>3, <1>4 DEF Counted
<1>11. Ordered BY <1>1, <1>2, <1>3, <1>4, <1>5 DEF Ordered
<1>12. SoundStream!Init BY <1>1, <1>3, <1>4 DEF SoundStream!Init
<1> QED BY <1>6, <1>7, <1>8, <1>9, <1>10, <1>11, <1>12 DEF AudioInv

LEMMA CtrlStep ==
  ASSUME AudioInv, __am_audio_ctrl PROVE Good
<1> USE DEF AudioInv
<1>1. /\ ~opened /\ play.at = "idle" /\ opened' = TRUE /\ count' = 0 /\ stranded' = Len(pipe)
      /\ UNCHANGED <<pipe, play, cb, stream, submitted, heard, headno, drift, spoilt>>
  BY DEF __am_audio_ctrl
<1>2. cb.at = "idle" /\ cb = NoCallback /\ drift = 0 BY <1>1 DEF Alone, Playing
<1>3. cb.b = 0 /\ play.n = 0 BY <1>1, <1>2 DEF NoCallback, NoPlay, Writing
<1>4. Len(pipe) \in Nat BY DEF AudioTypes
<1>5. AudioTypes' BY <1>1, <1>4 DEF AudioTypes
<1>6. Writing' BY <1>1 DEF Writing
<1>7. Playing' BY <1>1, <1>2 DEF Playing
<1>8. Alone' BY <1>1 DEF Alone
<1>9. Counted' BY <1>1, <1>2, <1>3, <1>4 DEF Counted
<1>10. (spoilt = 0 => Ordered)' BY <1>1 DEF Ordered
<1> QED BY <1>1, <1>5, <1>6, <1>7, <1>8, <1>9, <1>10 DEF Good, SoundStep

LEMMA PlayBegins ==
  ASSUME AudioInv, __am_audio_play PROVE Good
<1> USE DEF AudioInv
<1>1. PICK len \in PlayLens :
        /\ play.at = "idle" /\ play' = [NoPlay EXCEPT !.at = "write", !.len = len]
        /\ UNCHANGED <<pipe, count, opened, stranded, cb, stream, submitted, heard, headno, drift, spoilt>>
  BY DEF __am_audio_play
<1>2. len \in Nat BY NativeAudioAssumption
<1>3. play' \in PlayCalls /\ play'.at = "write" /\ play'.len = len /\ play'.nwrite = 0 /\ play'.n = 0
  BY <1>1, <1>2 DEF PlayCalls, NoPlay
<1>4. play.n = 0 /\ play.nwrite = 0 BY <1>1 DEF Writing, NoPlay
<1>5. AudioTypes' BY <1>1, <1>3 DEF AudioTypes
<1>6. Writing' BY <1>1, <1>3 DEF Writing
<1>7. Playing' BY <1>1 DEF Playing
<1>8. Alone' BY <1>1, <1>3 DEF Alone
<1>9. Counted' BY <1>1, <1>3, <1>4 DEF Counted
<1>10. (spoilt = 0 => Ordered)' BY <1>1, <1>2, <1>3, <1>4 DEF Ordered
<1> QED BY <1>1, <1>5, <1>6, <1>7, <1>8, <1>9, <1>10 DEF Good, SoundStep

LEMMA WriteStep ==
  ASSUME AudioInv, audio_write, play.at = "write", play.nwrite < play.len PROVE Good
<1> USE DEF AudioInv
<1>0. AudioK \in Nat \ {0} /\ PipeSize \in Nat \ {0} /\ PIPE_BUF \in 1..PipeSize BY AudioFacts
<1> DEFINE n == Write(play.len)
           new == [i \in 1..n |-> (submitted + i - 1) % AudioK]
<1>1. /\ Len(pipe) \in Nat /\ Len(pipe) <= PipeSize /\ play.len \in Nat /\ play.nwrite \in Nat
      /\ play \in PlayCalls /\ spoilt \in Nat /\ pipe \in Seq(ByteNo) /\ submitted \in Int /\ cb.b \in Nat
      /\ count \in Nat /\ stranded \in Nat /\ drift \in Int
  BY AudioTyped
<1>2. /\ pipe' = pipe \o new /\ play' = [play EXCEPT !.n = n, !.at = "load"]
      /\ spoilt' = IF play.nwrite > 0 /\ n > 0 THEN spoilt + 1 ELSE spoilt
      /\ UNCHANGED <<count, opened, stranded, cb, stream, submitted, heard, headno, drift>>
  <2>1. ~(play.nwrite >= play.len) BY ONLY <1>1, play.nwrite < play.len
  <2> HIDE DEF n, new, AudioInv
  <2> QED BY <2>1, Zenon DEF audio_write, n, new
<1>3. n \in Nat /\ n <= play.len /\ n + Len(pipe) <= PipeSize /\ (play.len <= PIPE_BUF => n \in {0, play.len})
  BY <1>0, <1>1 DEF Write
<1> HIDE DEF n
<1>4. \A i \in 1..n : (submitted + i - 1) % AudioK \in ByteNo
  <2> SUFFICES ASSUME NEW i \in 1..n PROVE (submitted + i - 1) % AudioK \in ByteNo OBVIOUS
  <2>1. submitted + i - 1 \in Int BY <1>1, <1>3
  <2> QED BY <2>1, <1>0, DivMod DEF ByteNo
<1>5. new \in Seq(ByteNo) /\ Len(new) = n /\ \A i \in 1..n : new[i] = (submitted + i - 1) % AudioK
  BY <1>3, <1>4
<1> HIDE DEF new
<1>6. /\ pipe' \in Seq(ByteNo) /\ Len(pipe') = Len(pipe) + n
      /\ \A i \in 1..Len(pipe) + n : pipe'[i] = IF i <= Len(pipe) THEN pipe[i] ELSE new[i - Len(pipe)]
  BY <1>1, <1>2, <1>5, ConcatProperties
<1>7. /\ play' \in PlayCalls /\ play'.at = "load" /\ play'.n = n
      /\ play'.len = play.len /\ play'.nwrite = play.nwrite
  BY ONLY <1>1, <1>2, <1>3 DEF PlayCalls
<1>8. play.n = 0 BY DEF Writing
<1>9. spoilt' \in Nat /\ spoilt <= spoilt' BY ONLY <1>1, <1>2, SMTT(60)
<1>10. AudioTypes'
  <2>1. Len(pipe') <= PipeSize BY <1>0, <1>1, <1>3, <1>6
  <2> QED BY <1>2, <1>6, <1>7, <1>9, <2>1 DEF AudioTypes
<1>11. Writing'
  <2>1. play.len <= PIPE_BUF => play.nwrite = 0 /\ n \in {0, play.len}
    BY <1>0, <1>1, <1>3 DEF Writing
  <2> QED BY <1>7, <2>1 DEF Writing
<1>12. Playing'
  <2>1. cb.len < Len(stream) => cb.nread > cb.len /\ spoilt' > 0 BY <1>1, <1>9 DEF Playing
  <2> QED BY <1>2, <2>1 DEF Playing
<1>13. Alone' BY <1>2, <1>7 DEF Alone
<1>14. Counted'
  <2> DEFINE taken == IF cb.at = "fill" THEN 0 ELSE cb.b
  <2>1. taken \in Nat /\ taken' = taken BY <1>1, <1>2
  <2>2. count + play.n + stranded = Len(pipe) + taken + drift BY DEF Counted
  <2> HIDE DEF taken
  <2>3. count + n + stranded = (Len(pipe) + n) + taken + drift BY ONLY <1>1, <1>3, <1>8, <2>1, <2>2, SMTT(60)
  <2>4. count' + play'.n + stranded' = Len(pipe') + taken' + drift' BY <1>2, <1>6, <1>7, <2>1, <2>3
  <2> QED BY <2>4 DEF Counted, taken
<1>15. ASSUME spoilt' = 0 PROVE spoilt = 0 /\ (n = 0 \/ play.nwrite = 0) /\ Ordered
  <2>1. spoilt = 0 BY <1>1, <1>9, <1>15
  <2>2. ~(play.nwrite > 0 /\ n > 0) BY <1>1, <1>2, <1>15, <2>1
  <2> QED BY <1>1, <1>3, <2>1, <2>2
<1>16. ASSUME spoilt' = 0, n = 0 PROVE Ordered' /\ SoundStep
  <2>1. pipe' = pipe
    <3>1. new = <<>> BY <1>5, <1>16
    <3> QED BY <3>1, <1>1, <1>2
  <2> QED BY <1>1, <1>2, <1>7, <1>8, <1>15, <1>16, <2>1 DEF Ordered, SoundStep
<1>17. ASSUME spoilt' = 0, n # 0 PROVE Ordered' /\ SoundStep
  <2>1. play.nwrite = 0 /\ Ordered /\ headno \in Int BY <1>15, <1>17 DEF Ordered, ByteNo
  <2>2. submitted % AudioK = (headno + cb.b + Len(pipe)) % AudioK
    BY <1>1, <1>8, <2>1 DEF Ordered
  <2>3. \A i \in Int : (submitted + i) % AudioK = (headno + cb.b + Len(pipe) + i) % AudioK
    <3>1. headno + cb.b + Len(pipe) \in Int BY <1>1, <2>1
    <3> QED BY <1>0, <1>1, <2>2, <3>1, ModShift, ZenonT(60)
  <2>4. ASSUME NEW i \in 1..Len(pipe') PROVE pipe'[i] = (headno' + cb'.b + i - 1) % AudioK
    <3>1. CASE i <= Len(pipe) BY <3>1, <1>1, <1>2, <1>6, <2>1 DEF Ordered
    <3>2. CASE i > Len(pipe)
      <4>1. i - Len(pipe) \in 1..n /\ (i - Len(pipe)) - 1 \in Int BY <3>2, <1>1, <1>3, <1>6
      <4>2. pipe'[i] = new[i - Len(pipe)] BY <3>2, <1>1, <1>3, <1>6
      <4>3. pipe'[i] = (submitted + ((i - Len(pipe)) - 1)) % AudioK BY <4>1, <4>2, <1>1, <1>5
      <4>4. pipe'[i] = (headno + cb.b + Len(pipe) + ((i - Len(pipe)) - 1)) % AudioK BY <4>1, <4>3, <2>3
      <4>5. headno + cb.b + Len(pipe) + ((i - Len(pipe)) - 1) = headno + cb.b + i - 1
        BY <1>1, <2>1, <4>1, SMTT(60)
      <4> QED BY <4>4, <4>5, <1>2
    <3> QED BY <3>1, <3>2, <1>1, <1>6
  <2>5. (submitted' + play'.nwrite + play'.n) % AudioK = (headno' + cb'.b + Len(pipe')) % AudioK
    <3>1. submitted + 0 + n = submitted + n BY <1>1, <1>3
    <3>2. headno + cb.b + Len(pipe) + n = headno + cb.b + (Len(pipe) + n) BY <1>1, <1>3, <2>1
    <3>3. n \in Int BY <1>3
    <3> QED BY <1>2, <1>6, <1>7, <2>1, <2>3, <3>1, <3>2, <3>3
  <2>6. Ordered' BY <1>2, <1>3, <1>7, <2>1, <2>4, <2>5 DEF Ordered
  <2>7. SoundStream!Submit
    <3>1. n \in 1..PipeSize BY <1>0, <1>1, <1>3, <1>17
    <3>2. (Len(pipe) + cb.b)' = (Len(pipe) + cb.b) + n BY <1>1, <1>2, <1>3, <1>6
    <3> QED BY <1>2, <3>1, <3>2 DEF SoundStream!Submit
  <2> QED BY <2>6, <2>7 DEF SoundStep, SoundStream!Next
<1> QED BY <1>10, <1>11, <1>12, <1>13, <1>14, <1>16, <1>17 DEF Good

LEMMA LoadStep ==
  ASSUME AudioInv, audio_write, play.at = "load" PROVE Good
<1> USE DEF AudioInv
<1>1. /\ play' = [play EXCEPT !.tmp = count, !.at = "store"]
      /\ UNCHANGED <<pipe, count, opened, stranded, cb, stream, submitted, heard, headno, drift, spoilt>>
  BY DEF audio_write
<1>2. play \in PlayCalls /\ count \in Nat BY AudioTyped
<1>3. /\ play' \in PlayCalls /\ play'.at = "store" /\ play'.n = play.n /\ play'.tmp = count
      /\ play'.len = play.len /\ play'.nwrite = play.nwrite
  BY ONLY <1>1, <1>2 DEF PlayCalls
<1>4. AudioTypes' BY <1>1, <1>3 DEF AudioTypes
<1>5. Writing' BY <1>1, <1>2, <1>3 DEF Writing
<1>6. Playing' BY <1>1 DEF Playing
<1>7. Alone' BY <1>1, <1>3 DEF Alone
<1>8. Counted' BY <1>1, <1>3 DEF Counted
<1>9. (spoilt = 0 => Ordered)' BY <1>1, <1>3 DEF Ordered
<1> QED BY <1>1, <1>4, <1>5, <1>6, <1>7, <1>8, <1>9 DEF Good, SoundStep

LEMMA StoreCount ==
  ASSUME AudioInv, audio_write, play.at = "store" PROVE Good
<1> USE DEF AudioInv
<1>1. /\ count' = play.tmp + play.n
      /\ play' = [play EXCEPT !.nwrite = @ + play.n, !.n = 0, !.tmp = 0, !.at = "write"]
      /\ drift' = drift + (play.tmp - count)
      /\ UNCHANGED <<pipe, opened, stranded, cb, stream, submitted, heard, headno, spoilt>>
  BY DEF audio_write
<1>2. /\ play \in PlayCalls /\ count \in Nat /\ play.tmp \in Nat /\ play.n \in Nat /\ play.nwrite \in Nat
      /\ play.len \in Nat /\ drift \in Int /\ stranded \in Nat /\ Len(pipe) \in Nat /\ cb.b \in Nat
      /\ cb.nread \in Nat /\ cb.tmp \in Nat /\ submitted \in Int
  BY AudioTyped
<1>3. count <= play.tmp BY DEF Writing
<1>4. /\ play' \in PlayCalls /\ play'.at = "write" /\ play'.n = 0
      /\ play'.len = play.len /\ play'.nwrite = play.nwrite + play.n
  <2>1. play.nwrite + play.n \in Nat BY ONLY <1>2
  <2>2. play' = [play EXCEPT !.nwrite = @ + play.n, !.n = 0, !.tmp = 0, !.at = "write"] BY <1>1
  <2> QED BY ONLY <1>2, <2>1, <2>2 DEF PlayCalls
<1>5. count' \in Nat /\ count <= count' /\ drift' \in Int /\ drift <= drift' BY ONLY <1>1, <1>2, <1>3, SMTT(60)
<1>6. AudioTypes' BY <1>1, <1>4, <1>5 DEF AudioTypes
<1>7. Writing'
  <2>1. play.len <= PIPE_BUF => play.nwrite = 0 /\ play.n \in {0, play.len} BY DEF Writing
  <2> QED BY <1>2, <1>4, <2>1 DEF Writing
<1>8. Playing'
  <2>1. cb.at = "read" => cb.nread <= count' BY <1>2, <1>5 DEF Playing
  <2>2. cb.at = "store" => cb.nread <= cb.tmp /\ cb.tmp <= count' BY <1>2, <1>5 DEF Playing
  <2>3. cb.at = "read" /\ cb.b \in 1..cb.nread-1 => drift' > stranded BY <1>2, <1>5 DEF Playing
  <2> QED BY <1>1, <2>1, <2>2, <2>3 DEF Playing
<1>9. Alone' BY <1>1, <1>2, <1>4 DEF Alone
<1>10. Counted'
  <2> DEFINE taken == IF cb.at = "fill" THEN 0 ELSE cb.b
  <2>1. taken \in Nat /\ taken' = taken BY <1>1, <1>2
  <2>2. count + play.n + stranded = Len(pipe) + taken + drift BY DEF Counted
  <2> HIDE DEF taken
  <2>3. drift' = drift + (play.tmp - count) BY <1>1
  <2>4. (play.tmp + play.n) + 0 + stranded = Len(pipe) + taken + drift'
    <3>1. PICK c \in Nat, n \in Nat, r \in Nat, l \in Nat, t \in Nat, d \in Int, m \in Nat :
            /\ c = count /\ n = play.n /\ r = stranded /\ l = Len(pipe) /\ t = taken /\ d = drift
            /\ m = play.tmp
      BY <1>2, <2>1
    <3>2. c + n + r = l + t + d BY <2>2, <3>1
    <3>3. (m + n) + 0 + r = l + t + (d + (m - c)) BY <3>2
    <3> QED BY <2>3, <3>1, <3>3
  <2>5. count' + play'.n + stranded' = Len(pipe') + taken' + drift' BY <1>1, <1>4, <2>1, <2>4
  <2> QED BY <2>5 DEF Counted, taken
<1>11. ASSUME spoilt = 0 PROVE Ordered'
  <2>1. Ordered BY <1>11
  <2>2. /\ play.n <= play.len /\ play.nwrite <= play.len /\ (play.nwrite = 0 \/ play.n = 0)
        /\ (submitted + play.nwrite + play.n) % AudioK = (headno + cb.b + Len(pipe)) % AudioK
    BY <2>1 DEF Ordered
  <2>3. play.nwrite + play.n <= play.len BY ONLY <1>2, <2>2
  <2>4. submitted + (play.nwrite + play.n) + 0 = submitted + play.nwrite + play.n BY ONLY <1>2
  <2>5. (submitted' + play'.nwrite + play'.n) % AudioK = (headno' + cb'.b + Len(pipe')) % AudioK
    BY <1>1, <1>4, <2>2, <2>4
  <2>6. play'.n <= play'.len /\ play'.nwrite <= play'.len /\ play'.n = 0 BY <1>2, <1>4, <2>3
  <2> QED BY <1>1, <2>1, <2>5, <2>6 DEF Ordered
<1> QED BY <1>1, <1>6, <1>7, <1>8, <1>9, <1>10, <1>11 DEF Good, SoundStep

LEMMA PlayEnds ==
  ASSUME AudioInv, audio_write, play.at = "write", play.nwrite >= play.len PROVE Good
<1> USE DEF AudioInv
<1>0. AudioK \in Nat \ {0} BY AudioFacts
<1>1. /\ play.len \in Nat /\ play.nwrite \in Nat /\ submitted \in Int /\ Len(pipe) \in Nat /\ cb.b \in Nat
      /\ count \in Nat /\ stranded \in Nat
  BY AudioTyped
<1>2. /\ play' = NoPlay /\ submitted' = (submitted + play.len) % AudioK
      /\ UNCHANGED <<pipe, count, opened, stranded, cb, stream, heard, headno, drift, spoilt>>
  <2>1. ~(play.nwrite < play.len) BY ONLY <1>1, play.nwrite >= play.len
  <2> HIDE DEF AudioInv
  <2> QED BY <2>1, Zenon DEF audio_write
<1>3. /\ play' \in PlayCalls /\ play'.at = "idle" /\ play'.len = 0 /\ play'.nwrite = 0 /\ play'.n = 0
  BY <1>2 DEF NoPlay, PlayCalls
<1>4. play.n = 0 BY DEF Writing
<1>5. submitted + play.len \in Int BY ONLY <1>1
<1>6. submitted' \in ByteNo BY <1>0, <1>2, <1>5, DivMod DEF ByteNo
<1>7. AudioTypes' BY <1>2, <1>3, <1>6 DEF AudioTypes
<1>8. Writing' BY <1>2, <1>3 DEF Writing
<1>9. Playing' BY <1>2 DEF Playing
<1>10. Alone' BY <1>2, <1>3 DEF Alone
<1>11. Counted' BY <1>2, <1>3, <1>4 DEF Counted
<1>12. ASSUME spoilt = 0 PROVE Ordered'
  <2>1. Ordered BY <1>12
  <2>2. play.nwrite = play.len BY <1>1, <2>1 DEF Ordered
  <2>3. submitted + play.nwrite + play.n = submitted + play.len BY ONLY <1>1, <1>4, <2>2
  <2>4. submitted' = (headno + cb.b + Len(pipe)) % AudioK BY <1>2, <2>1, <2>3 DEF Ordered
  <2>5. submitted' + 0 + 0 = submitted' /\ submitted' % AudioK = submitted'
    <3>1. submitted' \in 0..AudioK-1 BY <1>6 DEF ByteNo
    <3>2. submitted' % AudioK = submitted' BY <1>0, <3>1, ModSame, Zenon
    <3>3. \A x \in Int : x + 0 + 0 = x OBVIOUS
    <3>4. submitted' \in Int BY <3>1, <1>0
    <3> HIDE DEF AudioInv
    <3> QED BY <3>2, <3>3, <3>4, Zenon
  <2>6. (submitted' + play'.nwrite + play'.n) % AudioK = (headno' + cb'.b + Len(pipe')) % AudioK
    BY <1>2, <1>3, <2>4, <2>5
  <2> QED BY <1>2, <1>3, <2>1, <2>6 DEF Ordered
<1> QED BY <1>2, <1>7, <1>8, <1>9, <1>10, <1>11, <1>12 DEF Good, SoundStep

-----------------------------------------------------------------------------
(* The steps of SDL's thread. *)

LEMMA CallbackStep ==
  ASSUME AudioInv, Callback PROVE Good
<1> USE DEF AudioInv
<1>1. PICK len \in CallbackLens :
        /\ opened /\ cb.at = "idle"
        /\ cb' = [NoCallback EXCEPT !.at = "test", !.len = len, !.nread = len]
        /\ stream' = [i \in 1..len |-> Stale]
        /\ UNCHANGED <<pipe, count, opened, stranded, play, submitted, heard, headno, drift, spoilt>>
  BY DEF Callback
<1>2. len \in Nat /\ Stale \in Int BY NativeAudioAssumption DEF Stale
<1>3. stream' \in Seq(Int) /\ Len(stream') = len BY <1>1, <1>2
<1>4. cb.b = 0 BY <1>1 DEF Playing, NoCallback
<1>5. /\ cb' \in Callbacks /\ cb'.at = "test" /\ cb'.len = len /\ cb'.nread = len /\ cb'.b = 0
  BY <1>1, <1>2 DEF Callbacks, NoCallback
<1>6. AudioTypes' BY <1>1, <1>3, <1>5 DEF AudioTypes
<1>7. Writing' BY <1>1 DEF Writing
<1>8. Playing' BY <1>2, <1>3, <1>5 DEF Playing
<1>9. Alone' BY <1>1 DEF Alone
<1>10. Counted' BY <1>1, <1>4, <1>5 DEF Counted
<1>11. (spoilt = 0 => Ordered)' BY <1>1, <1>2, <1>3, <1>4, <1>5 DEF Ordered
<1> QED BY <1>1, <1>4, <1>5, <1>6, <1>7, <1>8, <1>9, <1>10, <1>11 DEF Good, SoundStep

\* what the steps of audio_play leave alone
PlayKept == UNCHANGED <<opened, stranded, play, submitted>>

LEMMA TestStep ==
  ASSUME AudioInv, Len(stream) <= cb.len, cb.at \in {"test", "fetch"}, audio_play, PlayKept PROVE Good
<1> USE DEF AudioInv
<1>1. /\ UNCHANGED <<pipe, count, stream, heard, headno, drift, spoilt, opened, stranded, play, submitted>>
      /\ \/ cb.at = "test" /\ cb' = [cb EXCEPT !.at = IF count < cb.len THEN "fetch" ELSE "read"]
         \/ cb.at = "fetch" /\ cb' = [cb EXCEPT !.nread = count, !.at = "read"]
  BY Zenon DEF audio_play, PlayKept
<1>2. /\ cb \in Callbacks /\ count \in Nat /\ cb.len \in Nat /\ cb.nread \in Nat /\ Len(stream) \in Nat
  BY AudioTyped
<1>3. cb.b = 0 /\ (cb.at = "test" => cb.nread = cb.len) /\ Len(stream) = cb.len
  BY <1>2 DEF Playing
<1>4. /\ cb' \in Callbacks /\ cb'.len = cb.len /\ cb'.b = 0
      /\ \/ cb'.at = "fetch"
         \/ cb'.at = "read" /\ cb'.nread <= count
  <2>1. CASE cb.at = "test" /\ count < cb.len
    <3>1. cb' = [cb EXCEPT !.at = "fetch"] BY <1>1, <2>1
    <3>2. cb' \in Callbacks /\ cb'.len = cb.len /\ cb'.b = cb.b /\ cb'.at = "fetch"
      BY ONLY <1>2, <3>1 DEF Callbacks
    <3> QED BY ONLY <1>3, <3>2
  <2>2. CASE cb.at = "test" /\ ~(count < cb.len)
    <3>1. cb' = [cb EXCEPT !.at = "read"] BY <1>1, <2>2
    <3>2. /\ cb' \in Callbacks /\ cb'.len = cb.len /\ cb'.b = cb.b /\ cb'.at = "read"
          /\ cb'.nread = cb.nread
      BY ONLY <1>2, <3>1 DEF Callbacks
    <3>3. cb.nread <= count BY ONLY <1>2, <1>3, <2>2
    <3> QED BY ONLY <1>3, <3>2, <3>3
  <2>3. CASE cb.at = "fetch"
    <3>1. cb' = [cb EXCEPT !.nread = count, !.at = "read"] BY <1>1, <2>3
    <3>2. /\ cb' \in Callbacks /\ cb'.len = cb.len /\ cb'.b = cb.b /\ cb'.at = "read"
          /\ cb'.nread = count
      BY ONLY <1>2, <3>1 DEF Callbacks
    <3> QED BY <1>2, <1>3, <3>2
  <2> QED BY <2>1, <2>2, <2>3
<1>5. cb'.nread \in Nat BY ONLY <1>4 DEF Callbacks
<1>6. AudioTypes' BY <1>1, <1>4 DEF AudioTypes
<1>7. Writing' BY <1>1 DEF Writing
<1>8. Playing' BY <1>1, <1>2, <1>3, <1>4, <1>5 DEF Playing
<1>9. Alone' BY <1>1 DEF Alone
<1>10. Counted' BY <1>1, <1>3, <1>4 DEF Counted
<1>11. (spoilt = 0 => Ordered)' BY <1>1, <1>3, <1>4, <1>5 DEF Ordered
<1> QED BY <1>1, <1>3, <1>4, <1>6, <1>7, <1>8, <1>9, <1>10, <1>11 DEF Good, SoundStep

LEMMA ReadStep ==
  ASSUME AudioInv, Len(stream) <= cb.len, cb.at = "read", cb.b < cb.nread, audio_play, PlayKept
  PROVE  Good
<1> USE DEF AudioInv
<1> DEFINE n == IF Len(pipe) < cb.nread THEN Len(pipe) ELSE cb.nread
           whole == IF n > Len(stream) THEN n ELSE Len(stream)
<1>0. PipeSize \in Nat \ {0} BY AudioFacts
<1>1. /\ cb \in Callbacks /\ cb.b \in Nat /\ cb.nread \in Nat /\ cb.len \in Nat
      /\ pipe \in Seq(ByteNo) /\ Len(pipe) \in Nat /\ Len(pipe) <= PipeSize
      /\ stream \in Seq(Int) /\ Len(stream) \in Nat
      /\ count \in Nat /\ play.n \in Nat /\ stranded \in Nat /\ drift \in Int /\ spoilt \in Nat
  BY AudioTyped
<1>2. /\ stream' = [i \in 1..whole |-> IF i <= n THEN pipe[i] ELSE stream[i]]
      /\ pipe' = SubSeq(pipe, n + 1, Len(pipe)) /\ cb' = [cb EXCEPT !.b = @ + n]
      /\ spoilt' = IF cb.b > 0 \/ n > Len(stream) THEN spoilt + 1 ELSE spoilt
      /\ UNCHANGED <<count, heard, headno, drift, opened, stranded, play, submitted>>
  <2>1. ~(cb.b >= cb.nread) BY ONLY <1>1, cb.b < cb.nread
  <2> HIDE DEF n, whole, AudioInv
  <2> QED BY <2>1, Zenon DEF audio_play, PlayKept, n, whole
<1>3. n \in Nat /\ n <= Len(pipe) /\ n <= cb.nread /\ (n = Len(pipe) \/ n = cb.nread) BY <1>1
<1> HIDE DEF n
<1>4. whole \in Nat /\ n <= whole /\ Len(stream) <= whole /\ (whole = n \/ whole = Len(stream)) BY <1>1, <1>3
<1> HIDE DEF whole
<1>5. /\ stream' \in Seq(Int) /\ Len(stream') = whole /\ \A i \in 1..n : stream'[i] = pipe[i]
  <2>1. \A i \in 1..whole : (IF i <= n THEN pipe[i] ELSE stream[i]) \in Int
    <3> SUFFICES ASSUME NEW i \in 1..whole PROVE (IF i <= n THEN pipe[i] ELSE stream[i]) \in Int
      OBVIOUS
    <3>1. CASE i <= n
      <4>1. i \in 1..Len(pipe) BY <1>1, <1>3, <1>4, <3>1
      <4>2. pipe[i] \in ByteNo BY <1>1, <4>1
      <4>3. ByteNo \subseteq Int BY DEF ByteNo
      <4> QED BY <3>1, <4>2, <4>3
    <3>2. CASE ~(i <= n)
      <4>1. i \in 1..Len(stream) BY <1>1, <1>3, <1>4, <3>2
      <4> QED BY <1>1, <3>2, <4>1
    <3> QED BY <3>1, <3>2
  <2>2. stream' = [i \in 1..whole |-> IF i <= n THEN pipe[i] ELSE stream[i]] BY <1>2
  <2> QED BY ONLY <2>1, <2>2, <1>3, <1>4
<1>6. /\ pipe' \in Seq(ByteNo) /\ Len(pipe') = Len(pipe) - n
      /\ \A i \in 1..Len(pipe) - n : pipe'[i] = pipe[n + i]
  <2>1. \A i \in n + 1 .. Len(pipe) : pipe[i] \in ByteNo BY <1>1, <1>3
  <2>2. n + 1 \in Int /\ Len(pipe) \in Int BY <1>1, <1>3
  <2>3. /\ SubSeq(pipe, n + 1, Len(pipe)) \in Seq(ByteNo)
        /\ Len(SubSeq(pipe, n + 1, Len(pipe))) = IF n + 1 <= Len(pipe) THEN Len(pipe) - (n + 1) + 1 ELSE 0
        /\ \A i \in 1 .. Len(pipe) - (n + 1) + 1 : SubSeq(pipe, n + 1, Len(pipe))[i] = pipe[n + 1 + i - 1]
    BY <2>1, <2>2, SubSeqProperties
  <2>4. Len(pipe) - (n + 1) + 1 = Len(pipe) - n /\ (n + 1 <= Len(pipe) \/ Len(pipe) - n = 0)
    BY <1>1, <1>3
  <2>5. \A i \in 1..Len(pipe) - n : n + 1 + i - 1 = n + i BY <1>1, <1>3
  <2> QED BY <1>2, <2>3, <2>4, <2>5
<1>7. /\ cb' \in Callbacks /\ cb'.at = "read" /\ cb'.b = cb.b + n /\ cb'.len = cb.len
      /\ cb'.nread = cb.nread
  <2>1. cb.b + n \in Nat BY ONLY <1>1, <1>3
  <2>2. cb' = [cb EXCEPT !.b = cb.b + n] BY <1>2
  <2> QED BY ONLY <1>1, <2>1, <2>2, cb.at = "read" DEF Callbacks
<1>8. spoilt' \in Nat /\ spoilt <= spoilt' /\ (spoilt' = 0 => spoilt = 0 /\ cb.b = 0 /\ n <= Len(stream))
  BY ONLY <1>1, <1>2, <1>3, SMTT(60)
<1>9. AudioTypes'
  <2>1. Len(pipe') <= PipeSize BY <1>0, <1>1, <1>3, <1>6
  <2> QED BY <1>2, <1>5, <1>6, <1>7, <1>8, <2>1 DEF AudioTypes
<1>10. Writing' BY <1>2 DEF Writing
<1>11. count + play.n + stranded = Len(pipe) + cb.b + drift BY <1>1 DEF Counted
<1>12. Playing'
  <2>1. cb.nread <= count /\ cb.len <= Len(stream) BY DEF Playing
  <2>2. cb'.b \in 1..cb'.nread-1 => drift > stranded
    <3> SUFFICES ASSUME cb'.b \in 1..cb'.nread-1 PROVE drift > stranded OBVIOUS
    <3>1. cb.b + n < cb.nread BY <1>1, <1>3, <1>7
    <3>2. n = Len(pipe) BY ONLY <1>1, <1>3, <3>1
    <3> QED BY ONLY <1>1, <1>11, <2>1, <3>1, <3>2, SMTT(60)
  <2>3. cb.len <= whole BY ONLY <1>1, <1>4, <2>1
  <2>4. cb.len < whole => cb.nread > cb.len /\ spoilt' > 0
    <3> SUFFICES ASSUME cb.len < whole PROVE cb.nread > cb.len /\ spoilt' > 0 OBVIOUS
    <3>1. whole = n /\ n > Len(stream) BY <1>1, <1>4, <2>1
    <3>2. spoilt' = spoilt + 1 BY <1>2, <3>1
    <3>3. cb.nread > cb.len /\ spoilt + 1 > 0 BY ONLY <1>1, <1>3, <2>1, <3>1
    <3> QED BY <3>2, <3>3
  <2> QED BY <1>2, <1>5, <1>7, <2>1, <2>2, <2>3, <2>4 DEF Playing
<1>13. Alone' BY <1>2, <1>7 DEF Alone
<1>14. Counted'
  <2>1. Len(pipe) + cb.b + drift = Len(pipe') + cb'.b + drift BY ONLY <1>1, <1>3, <1>6, <1>7
  <2> QED BY <1>2, <1>7, <1>11, <2>1 DEF Counted
<1>15. ASSUME spoilt' = 0 PROVE Ordered' /\ SoundStep
  <2>1. cb.b = 0 /\ Ordered /\ headno \in Int /\ whole = Len(stream) /\ n <= Len(stream)
    BY <1>1, <1>3, <1>4, <1>8, <1>15 DEF Ordered, ByteNo
  <2>2. \A i \in 1..Len(pipe) : pipe[i] = (headno + i - 1) % AudioK BY <2>1 DEF Ordered
  <2>3. cb'.b = n BY ONLY <1>3, <1>7, <2>1
  <2>4. \A i \in 1..n : stream'[i] = (headno + i - 1) % AudioK BY <1>1, <1>3, <1>5, <2>2
  <2>5. \A i \in 1..Len(pipe') : pipe'[i] = (headno + n + i - 1) % AudioK
    <3> SUFFICES ASSUME NEW i \in 1..Len(pipe') PROVE pipe'[i] = (headno + n + i - 1) % AudioK OBVIOUS
    <3>1. pipe'[i] = pipe[n + i] /\ n + i \in 1..Len(pipe) BY <1>1, <1>3, <1>6
    <3>2. headno + (n + i) - 1 = headno + n + i - 1 BY <1>1, <1>3, <1>6, <2>1
    <3> QED BY <3>1, <3>2, <2>2
  <2>6. headno + cb.b + Len(pipe) = headno + n + Len(pipe') BY ONLY <1>1, <1>3, <1>6, <2>1
  <2>7. (submitted' + play'.nwrite + play'.n) % AudioK = (headno' + cb'.b + Len(pipe')) % AudioK
    BY <1>2, <2>1, <2>3, <2>6 DEF Ordered
  <2>8. Ordered'
    <3>1. /\ headno' \in ByteNo /\ play'.n <= play'.len /\ play'.nwrite <= play'.len
          /\ (play'.nwrite = 0 \/ play'.n = 0)
      BY <1>2, <2>1 DEF Ordered
    <3>2. cb'.b <= cb'.nread /\ cb'.b <= Len(stream') /\ cb'.b <= PipeSize
      BY <1>0, <1>1, <1>3, <1>5, <1>7, <2>1, <2>3
    <3>3. \A i \in 1..cb'.b : stream'[i] = (headno' + i - 1) % AudioK BY <1>2, <2>3, <2>4
    <3>4. \A i \in 1..Len(pipe') : pipe'[i] = (headno' + cb'.b + i - 1) % AudioK BY <1>2, <2>3, <2>5
    <3> QED BY <3>1, <3>2, <3>3, <3>4, <2>7 DEF Ordered
  <2>9. Len(pipe') + cb'.b = Len(pipe) + cb.b BY ONLY <1>1, <1>3, <1>6, <1>7
  <2> QED BY <1>2, <2>8, <2>9 DEF SoundStep
<1> QED BY <1>9, <1>10, <1>12, <1>13, <1>14, <1>15 DEF Good

LEMMA TakenStep ==
  ASSUME AudioInv, cb.at = "read", cb.b >= cb.nread, audio_play, PlayKept
  PROVE  Good
<1> USE DEF AudioInv
<1>1. cb \in Callbacks /\ count \in Nat /\ cb.b \in Nat /\ cb.nread \in Nat BY AudioTyped
<1>2. /\ cb' = [cb EXCEPT !.tmp = count, !.at = "store"]
      /\ UNCHANGED <<pipe, count, stream, heard, headno, drift, spoilt, opened, stranded, play, submitted>>
  <2>1. ~(cb.b < cb.nread) BY ONLY <1>1, cb.b >= cb.nread
  <2> HIDE DEF AudioInv
  <2> QED BY <2>1, Zenon DEF audio_play, PlayKept
<1>3. /\ cb' \in Callbacks /\ cb'.at = "store" /\ cb'.tmp = count
      /\ cb'.len = cb.len /\ cb'.nread = cb.nread /\ cb'.b = cb.b
  BY ONLY <1>1, <1>2 DEF Callbacks
<1>4. AudioTypes' BY <1>2, <1>3 DEF AudioTypes
<1>5. Writing' BY <1>2 DEF Writing
<1>6. Playing' BY <1>1, <1>2, <1>3 DEF Playing
<1>7. Alone' BY <1>2 DEF Alone
<1>8. Counted' BY <1>2, <1>3 DEF Counted
<1>9. (spoilt = 0 => Ordered)' BY <1>2, <1>3 DEF Ordered
<1> QED BY <1>2, <1>3, <1>4, <1>5, <1>6, <1>7, <1>8, <1>9 DEF Good, SoundStep

LEMMA CountStep ==
  ASSUME AudioInv, cb.at = "store", audio_play, PlayKept PROVE Good
<1> USE DEF AudioInv
<1>1. /\ cb \in Callbacks /\ count \in Nat /\ cb.tmp \in Nat /\ cb.b \in Nat /\ cb.nread \in Nat
      /\ play.n \in Nat /\ play.tmp \in Nat /\ stranded \in Nat /\ Len(pipe) \in Nat /\ drift \in Int
  BY AudioTyped
<1>2. cb.nread <= cb.tmp /\ cb.tmp <= count /\ cb.nread <= cb.b BY DEF Playing
<1>3. /\ count' = cb.tmp - cb.nread /\ cb' = [cb EXCEPT !.tmp = 0, !.at = "fill"]
      /\ drift' = drift + (cb.tmp - count) + (cb.b - cb.nread)
      /\ UNCHANGED <<pipe, stream, heard, headno, spoilt, opened, stranded, play, submitted>>
  <2> HIDE DEF AudioInv
  <2> QED BY Zenon DEF audio_play, PlayKept
<1>4. count' \in Nat /\ count' <= count /\ drift' \in Int BY ONLY <1>1, <1>2, <1>3, SMTT(60)
<1>5. /\ cb' \in Callbacks /\ cb'.at = "fill"
      /\ cb'.len = cb.len /\ cb'.nread = cb.nread /\ cb'.b = cb.b
  BY ONLY <1>1, <1>3 DEF Callbacks
<1>6. AudioTypes' BY <1>3, <1>4, <1>5 DEF AudioTypes
<1>7. Writing'
  <2>1. play.at = "store" => count' <= play.tmp BY <1>1, <1>4 DEF Writing
  <2> QED BY <1>3, <2>1 DEF Writing
<1>8. Playing' BY <1>2, <1>3, <1>5 DEF Playing
<1>9. Alone' BY <1>3 DEF Alone
<1>10. Counted'
  <2>1. count + play.n + stranded = Len(pipe) + cb.b + drift BY <1>1 DEF Counted
  <2>2. count' = cb.tmp - cb.nread /\ drift' = drift + (cb.tmp - count) + (cb.b - cb.nread) BY <1>3
  <2>3. count' + play.n + stranded = Len(pipe) + 0 + drift'
    <3>1. PICK c \in Nat, n \in Nat, r \in Nat, l \in Nat, b \in Nat, d \in Int, m \in Nat, a \in Nat :
            /\ c = count /\ n = play.n /\ r = stranded /\ l = Len(pipe) /\ b = cb.b /\ d = drift
            /\ m = cb.tmp /\ a = cb.nread
      BY <1>1
    <3>2. c + n + r = l + b + d BY <2>1, <3>1
    <3>3. (m - a) + n + r = l + 0 + (d + (m - c) + (b - a)) BY <3>2
    <3> QED BY <2>2, <3>1, <3>3
  <2> QED BY <1>3, <1>5, <2>3 DEF Counted
<1>11. (spoilt = 0 => Ordered)' BY <1>3, <1>5 DEF Ordered
<1> QED BY <1>3, <1>5, <1>6, <1>7, <1>8, <1>9, <1>10, <1>11 DEF Good, SoundStep

LEMMA FillStep ==
  ASSUME AudioInv, Len(stream) <= cb.len, cb.at = "fill", audio_play, PlayKept PROVE Good
<1> USE DEF AudioInv
<1>0. AudioK \in Nat \ {0} /\ PipeSize \in Nat \ {0} BY AudioFacts
<1>1. /\ heard' = Sounds(memset_stream) /\ headno' = (headno + Len(heard')) % AudioK
      /\ cb' = NoCallback /\ stream' = <<>>
      /\ UNCHANGED <<pipe, count, drift, spoilt, opened, stranded, play, submitted>>
  <2> HIDE DEF AudioInv
  <2> QED BY Zenon DEF audio_play, PlayKept
<1>2. /\ stream \in Seq(Int) /\ Len(stream) \in Nat /\ cb.b \in Nat /\ cb.nread \in Nat
      /\ Len(pipe) \in Nat /\ Len(pipe) <= PipeSize /\ count \in Nat /\ play.n \in Nat /\ stranded \in Nat
      /\ drift \in Int
  BY AudioTyped
<1>3. /\ cb' \in Callbacks /\ cb'.at = "idle" /\ cb'.len = 0 /\ cb'.nread = 0 /\ cb'.b = 0
  BY <1>1 DEF NoCallback, Callbacks
<1>4. stream' \in Seq(Int) /\ Len(stream') = 0 BY <1>1
<1>5. AudioTypes' BY <1>1, <1>3, <1>4 DEF AudioTypes
<1>6. Writing' BY <1>1 DEF Writing
<1>7. Playing' BY <1>1, <1>3, <1>4 DEF Playing
<1>8. Alone' BY <1>1, <1>3 DEF Alone
<1>9. Counted'
  <2>1. count + play.n + stranded = Len(pipe) + 0 + drift BY DEF Counted
  <2> QED BY <1>1, <1>3, <2>1 DEF Counted
<1>10. ASSUME spoilt = 0 PROVE Ordered' /\ SoundStep
  <2> DEFINE n == cb.nread
             s == memset_stream
  <2>1. Ordered /\ headno \in Int BY <1>10 DEF Ordered, ByteNo
  <2>2. cb.b = n /\ n \in 0..Len(stream)
    <3>1. cb.nread <= cb.b BY DEF Playing
    <3>2. cb.b <= cb.nread /\ cb.b <= Len(stream) BY <2>1 DEF Ordered
    <3> QED BY ONLY <1>2, <3>1, <3>2
  <2>3. \A i \in 1..n : stream[i] = (headno + i - 1) % AudioK BY <2>1, <2>2 DEF Ordered
  <2>4. Silence = -1 BY DEF Silence
  <2>5. /\ s \in Seq(Int) /\ Len(s) = Len(stream)
        /\ \A i \in 1..n : s[i] = stream[i]
        /\ \A i \in n+1..Len(s) : s[i] = Silence
    <3>1. s = [i \in 1..Len(stream) |-> IF i > n THEN Silence ELSE stream[i]] BY DEF memset_stream
    <3>2. \A i \in 1..Len(stream) : (IF i > n THEN Silence ELSE stream[i]) \in Int
      <4>1. \A i \in 1..Len(stream) : stream[i] \in Int BY <1>2
      <4> QED BY <4>1, <2>4
    <3>3. s \in Seq(Int) /\ Len(s) = Len(stream) BY <3>1, <3>2, <1>2
    <3> QED BY <3>1, <3>3, <1>2, <2>2
  <2>6. \A i \in 1..n : s[i] # Silence
    <3> SUFFICES ASSUME NEW i \in 1..n PROVE s[i] # Silence OBVIOUS
    <3>1. headno + i - 1 \in Int BY <2>1, <2>2
    <3>2. (headno + i - 1) % AudioK \in 0..AudioK-1 BY <3>1, <1>0, DivMod
    <3>3. s[i] \in 0..AudioK-1 BY <3>2, <2>3, <2>5
    <3> QED BY <3>3, <1>0, <2>4
  <2> HIDE DEF s
  <2>7. Sounds(s) = [k \in 1..n |-> s[k]] BY <2>2, <2>5, <2>6, SoundsOf
  <2>8. heard' = [k \in 1..n |-> (headno + k - 1) % AudioK]
    <3>1. heard' = [k \in 1..n |-> s[k]] BY <1>1, <2>7 DEF s
    <3>2. \A k \in 1..n : s[k] = (headno + k - 1) % AudioK BY <2>3, <2>5
    <3> QED BY ONLY <3>1, <3>2
  <2>9. Len(heard') = n BY ONLY <2>8, <2>2, <1>2
  <2>10. headno' = (headno + n) % AudioK /\ headno' \in ByteNo /\ headno' \in Int
    <3>1. headno' = (headno + n) % AudioK BY <1>1, <2>9
    <3>2. headno + n \in Int BY <2>1, <2>2
    <3>3. (headno + n) % AudioK \in 0..AudioK-1 BY <3>2, <1>0, DivMod
    <3> QED BY <3>1, <3>3, <1>0 DEF ByteNo
  <2>11. \A i \in Int : (headno' + i) % AudioK = (headno + n + i) % AudioK
    <3>1. headno + n \in Int BY <2>1, <2>2
    <3> QED BY <1>0, <2>10, <3>1, ModTwice
  <2>12. \A i \in 1..Len(pipe') : pipe'[i] = (headno' + cb'.b + i - 1) % AudioK
    <3> SUFFICES ASSUME NEW i \in 1..Len(pipe) PROVE pipe[i] = (headno' + 0 + i - 1) % AudioK
      BY <1>1, <1>3
    <3>1. pipe[i] = (headno + n + i - 1) % AudioK BY <2>1, <2>2 DEF Ordered
    <3>2. headno + n + i - 1 = headno + n + (i - 1) /\ headno' + 0 + i - 1 = headno' + (i - 1) /\ i - 1 \in Int
      BY <1>2, <2>1, <2>2, <2>10
    <3> QED BY <3>1, <3>2, <2>11
  <2>13. (submitted' + play'.nwrite + play'.n) % AudioK = (headno' + cb'.b + Len(pipe')) % AudioK
    <3>1. headno' + 0 + Len(pipe) = headno' + Len(pipe) BY <1>2, <2>10
    <3>2. (submitted + play.nwrite + play.n) % AudioK = (headno + n + Len(pipe)) % AudioK
      BY <2>1, <2>2 DEF Ordered
    <3> QED BY <1>1, <1>2, <1>3, <3>1, <3>2, <2>11
  <2>14. Ordered'
    <3>1. /\ play'.n <= play'.len /\ play'.nwrite <= play'.len /\ (play'.nwrite = 0 \/ play'.n = 0)
      BY <1>1, <2>1 DEF Ordered
    <3>2. /\ cb'.b <= cb'.nread /\ cb'.b <= Len(stream') /\ cb'.b <= PipeSize
          /\ \A i \in 1..cb'.b : stream'[i] = (headno' + i - 1) % AudioK
      BY <1>0, <1>3, <1>4
    <3> QED BY <2>10, <2>12, <2>13, <3>1, <3>2 DEF Ordered
  <2>15. SoundStream!Play
    <3>1. n \in 0..PipeSize BY <1>0, <1>2, <2>1, <2>2 DEF Ordered
    <3>2. n <= Len(pipe) + cb.b BY <1>2, <2>2
    <3>3. (Len(pipe) + cb.b)' = (Len(pipe) + cb.b) - n BY <1>1, <1>2, <1>3, <2>2
    <3> HIDE DEF n
    <3> QED BY <2>8, <2>10, <3>1, <3>2, <3>3 DEF SoundStream!Play
  <2> QED BY <2>14, <2>15 DEF SoundStep, SoundStream!Next
<1> QED BY <1>1, <1>5, <1>6, <1>7, <1>8, <1>9, <1>10 DEF Good

-----------------------------------------------------------------------------
LEMMA AudioNextStep ==
  ASSUME AudioInv, [NativeAudioNext]_avars PROVE Good
<1>1. CASE UNCHANGED avars
  <2>1. AudioInv'
    BY <1>1 DEF AudioInv, avars, AudioTypes, Writing, Playing, Alone, Counted, Ordered
  <2> QED BY <2>1, <1>1 DEF Good, SoundStep, avars
<1>2. CASE NativeAudioNext
  <2>1. /\ Len(stream) <= cb.len
        /\ \/ __am_audio_ctrl \/ __am_audio_play \/ audio_write \/ Callback
           \/ audio_play /\ PlayKept
    BY <1>2, Zenon DEF NativeAudioNext, PlayKept
  <2>2. /\ play.nwrite \in Nat /\ play.len \in Nat /\ cb.b \in Nat /\ cb.nread \in Nat
    BY AudioTyped DEF AudioInv
  <2>3. ASSUME audio_write PROVE Good
    <3>1. play.at \in {"write", "load", "store"} BY <2>3, Zenon DEF audio_write
    <3>2. play.nwrite < play.len \/ play.nwrite >= play.len BY <2>2
    <3> QED BY <2>3, <3>1, <3>2, WriteStep, LoadStep, StoreCount, PlayEnds
  <2>4. ASSUME audio_play, PlayKept PROVE Good
    <3>1. cb.at \in {"test", "fetch", "read", "store", "fill"} BY <2>4, Zenon DEF audio_play
    <3>2. cb.b < cb.nread \/ cb.b >= cb.nread BY <2>2
    <3> QED BY <2>1, <2>4, <3>1, <3>2, TestStep, ReadStep, TakenStep, CountStep, FillStep
  <2> QED BY <2>1, <2>3, <2>4, CtrlStep, PlayBegins, CallbackStep, Zenon
<1> QED BY <1>1, <1>2

(* The invariant of pipe, count and the two calls is inductive, for pipes,   *)
(* buffers and callbacks of any size and any number of lost updates.         *)
THEOREM SoundInvariant == AudioSpec => []AudioInv
<1>1. NativeAudioInit => AudioInv BY AudioInit
<1>2. AudioInv /\ [NativeAudioNext]_avars => AudioInv' BY AudioNextStep DEF Good
<1> QED BY <1>1, <1>2, PTL DEF AudioSpec

LEMMA AudioCounts == AudioInv => CountsPipe /\ Reasons
<1> SUFFICES ASSUME AudioInv PROVE CountsPipe /\ Reasons OBVIOUS
<1> USE DEF AudioInv
<1>1. /\ Len(pipe) \in Nat /\ stranded \in Nat /\ drift \in Int /\ count \in Nat /\ PIPE_BUF \in Nat
      /\ play.len \in Nat /\ play.nwrite \in Nat /\ Len(stream) \in Nat /\ cb.len \in Nat
  BY AudioTyped, AudioFacts
<1>2. CountsPipe
  <2> SUFFICES ASSUME play.at \in {"idle", "write"}, cb.at \in {"idle", "test", "fetch"}
               PROVE  count = Len(pipe) - stranded + drift
    BY DEF CountsPipe
  <2>1. play.n = 0 BY DEF Writing, NoPlay
  <2>2. cb.b = 0 BY DEF Playing, NoCallback
  <2>3. count + play.n + stranded = Len(pipe) + cb.b + drift BY <2>2 DEF Counted
  <2> QED BY ONLY <1>1, <2>1, <2>2, <2>3
<1>3. play.at # "idle" /\ play.nwrite \in 1..play.len-1 => play.len > PIPE_BUF BY <1>1 DEF Writing
<1>4. cb.at = "read" /\ cb.b \in 1..cb.nread-1 => drift > stranded BY DEF Playing
<1>5. Len(stream) > cb.len => cb.nread > cb.len /\ spoilt > 0 BY <1>1 DEF Playing
<1> QED BY <1>2, <1>3, <1>4, <1>5 DEF Reasons

(* Native's pipe, audio_write and audio_play are a stream (AudioStream), each *)
(* byte played once and in order, until a write or a read begins again or     *)
(* SDL's buffer is overrun; each of these has one reason only; and count is   *)
(* always what waits in the pipe, but for stranded bytes and lost updates.    *)
THEOREM NativeImplementsStream == AudioSpec => SoundPlayed
<1>1. NativeAudioInit => SoundStream!Init BY AudioInit
<1>2. AudioInv /\ [NativeAudioNext]_avars
        => [SoundStream!Next \/ spoilt' > 0]_(<<headno, Len(pipe) + cb.b, heard>>)
  <2> SUFFICES ASSUME AudioInv, [NativeAudioNext]_avars
               PROVE  [SoundStream!Next \/ spoilt' > 0]_(<<headno, Len(pipe) + cb.b, heard>>)
    OBVIOUS
  <2>1. Good BY AudioNextStep
  <2>2. spoilt' \in Nat BY <2>1 DEF Good, AudioInv, AudioTypes
  <2>3. spoilt' = 0 \/ spoilt' > 0 BY <2>2
  <2> QED BY <2>1, <2>3 DEF Good, SoundStep
<1>3. AudioInv => CountsPipe /\ Reasons BY AudioCounts
<1> QED BY <1>1, <1>2, <1>3, SoundInvariant, PTL DEF AudioSpec, SoundPlayed
=============================================================================
