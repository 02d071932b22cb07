---------------------------- MODULE X86Mpe_proofs ----------------------------
(* Proofs about the start of x86-qemu: its processors (X86Mpe), for any      *)
(* number of them and of calls of halt(), and the boot block and the kernel  *)
(* that brings up the first (X86Boot), for any linked kernel.               *)
EXTENDS X86Mpe, X86Boot, FiniteSetTheorems, SequenceTheorems, WellFoundedInduction, TLAPS

-----------------------------------------------------------------------------
(* Starting and stopping processors.                                        *)

(* Between the jump to the loader and the announcement in ap_ready.        *)
Early == {"loader", "start_c", "percpu", "lgdt", "ready"}

(* The boot record's code changes with the first call of halt(), and no    *)
(* earlier does a CPU stop.                                                *)
Record ==
    /\ jmp_code = "self" <=> halted # {}
    /\ \A c \in CPU : pc[c] \in {"self", "stop", "print"} => halted # {}

(* Where the boot processor can be, and nobody else.                       *)
Boot ==
    /\ pc[BSP] \in {"main", "start_ap", "spin", "entry", "stop", "print", "sipi", "self"}
    /\ pc[BSP] = "sipi" => halted # {}
    /\ pc[BSP] = "main" => ~user_entry /\ halted = {}
    /\ pc[BSP] \in {"start_ap", "spin"} => user_entry /\ next[BSP] > 0
    /\ pc[BSP] = "spin" => next[BSP] < NCPU
    /\ \A c \in CPU \ {BSP} : pc[c] \notin {"main", "start_ap", "spin"}

(* Whoever comes through the loader finds is_ap and user_entry set.        *)
Sent ==
    \A c \in CPU :
        /\ pc[c] \in Early \cup {"call"} => is_ap /\ user_entry
        /\ (pc[c] = "sipi" \/ c \in startup) /\ halted = {} => is_ap /\ user_entry
        /\ pc[c] \notin {"reload", "wild"}

(* The boot processor has sent the next one a STARTUP and not heard of it. *)
Waits == pc[BSP] = "spin" \/ (pc[BSP] = "start_ap" /\ ipi[BSP] = 2)

(* Before mpe_init nobody else runs; then one processor boots at a time,   *)
(* the next one, from its first STARTUP on.  A second STARTUP may arrive   *)
(* much later, when it means nothing.                                      *)
Turn ==
    halted = {} =>
        /\ ~user_entry =>
              /\ pc[BSP] = "main" /\ ap_ready = 0 /\ init = {} /\ startup = {}
              /\ \A c \in CPU \ {BSP} : pc[c] = "off"
        /\ user_entry =>
              /\ pc[BSP] \in {"start_ap", "spin", "entry"}
              /\ \A c \in init : c = next[BSP] /\ c # BSP /\ pc[c] = "off"
              /\ \A c \in CPU \ {BSP} :
                    /\ c < next[BSP] => pc[c] \in {"call", "entry"}
                    /\ c > next[BSP] => pc[c] = "off" /\ c \notin startup
              /\ pc[BSP] = "start_ap" /\ ~Waits =>
                    /\ ap_ready = 0
                    /\ next[BSP] < NCPU => pc[next[BSP]] = "off" /\ next[BSP] \notin startup
              /\ Waits =>
                    /\ next[BSP] < NCPU
                    /\ IF ap_ready = 0 THEN pc[next[BSP]] \in Early \cup {"off", "sipi"}
                                       ELSE pc[next[BSP]] \in {"call", "entry"}
              /\ pc[BSP] = "entry" => next[BSP] = NCPU

(* Whoever is in the middle of __am_lapic_bootap is in one of the two      *)
(* loops around it, at a CPU of the loop, or was stopped there.            *)
Ipis ==
    \A c \in CPU : ipi[c] # 0 =>
        \/ pc[c] = "start_ap" /\ next[c] < NCPU
        \/ pc[c] = "stop" /\ next[c] < NCPU /\ next[c] # c
        \/ Silent(c)

(* So one CPU at a time is between the loader and its announcement: no     *)
(* call of halt() sends another one there.                                 *)
OneEarly == \A c, d \in CPU : pc[c] \in Early /\ pc[d] \in Early => c = d

(* The operand of lgdt is that of the CPU about to load it. *)
Gdts ==
    /\ gdtr[BSP] = BSP
    /\ \A c \in CPU : /\ pc[c] = "lgdt" => gdt_data = c
                      /\ pc[c] \in {"ready", "call", "entry"} => gdtr[c] = c

(* Stopped for good, or about to be.                                       *)
Stopped(d) == Silent(d) \/ (d \in init /\ jmp_code = "self")

(* A CPU in __am_stop_the_world has seen to those its loop has passed, and *)
(* to the one it is at once the INIT is sent.                              *)
Passed ==
    \A c, d \in CPU : c # d =>
        /\ pc[c] = "stop" /\ (d < next[c] \/ (d = next[c] /\ ipi[c] # 0)) => Stopped(d)
        /\ pc[c] = "print" => Stopped(d)

IInv == TypeOK /\ Record /\ Boot /\ Sent /\ Turn /\ Ipis /\ OneEarly /\ Gdts /\ Passed

-----------------------------------------------------------------------------
(* There is a boot processor. *)
LEMMA BspIsCPU == BSP \in CPU /\ \A c \in CPU : c \in Nat /\ c < NCPU
  BY NCPUAssumption DEF CPU, BSP

(* Until a CPU halts, the one that boots is the one the boot processor     *)
(* has sent a STARTUP.                                                     *)
LEMMA OnlyNext ==
    ASSUME IInv, halted = {}, NEW c \in CPU, pc[c] \in Early \cup {"sipi"}
    PROVE  /\ c = next[BSP] /\ c # BSP
           /\ Waits /\ ap_ready = 0 /\ user_entry
  <1>1. c # BSP
    BY DEF IInv, Boot, Early
  <1>2. user_entry
    BY <1>1, BspIsCPU DEF IInv, Turn, Early
  <1>3. c = next[BSP]
    <2>1. ~(c < next[BSP]) /\ ~(c > next[BSP])
      BY <1>1, <1>2 DEF IInv, Turn, Early
    <2>2. next[BSP] \in 0 .. NCPU /\ NCPU \in Nat
      BY BspIsCPU, NCPUAssumption DEF IInv, TypeOK
    <2> QED
      BY <2>1, <2>2, BspIsCPU
  <1>4. Waits
    <2>1. pc[BSP] \in {"start_ap", "spin", "entry"}
      BY <1>2 DEF IInv, Turn
    <2>2. pc[BSP] = "start_ap" => Waits
      BY <1>2, <1>3, BspIsCPU DEF IInv, Turn, Early
    <2>3. pc[BSP] # "entry"
      BY <1>2, <1>3, BspIsCPU, NCPUAssumption DEF IInv, Turn
    <2> QED
      BY <2>1, <2>2, <2>3 DEF Waits
  <1>5. ap_ready = 0
    BY <1>2, <1>3, <1>4 DEF IInv, Turn, Early
  <1> QED
    BY <1>1, <1>2, <1>3, <1>4, <1>5

(* A step of a CPU that boots does not disturb the boot processor.         *)
LEMMA BootKept ==
    ASSUME IInv, NEW c \in CPU \ {BSP}, NEW x, pc' = [pc EXCEPT ![c] = x],
           x \notin {"main", "start_ap", "spin"},
           UNCHANGED <<user_entry, next, halted>>
    PROVE  Boot'
  <1>1. pc'[BSP] = pc[BSP]
    BY BspIsCPU DEF IInv, TypeOK
  <1>2. \A d \in CPU \ {BSP} : pc'[d] = pc[d] \/ pc'[d] = x
    BY DEF IInv, TypeOK
  <1> QED
    BY <1>1, <1>2 DEF IInv, Boot

(* Nor its order, while it is the one whose turn it is.                    *)
LEMMA TurnKept ==
    ASSUME IInv, NEW c \in CPU \ {BSP}, NEW x, pc' = [pc EXCEPT ![c] = x],
           UNCHANGED <<user_entry, next, ipi, halted>>,
           init' \in SUBSET init, startup' \in SUBSET startup,
           halted = {} =>
             /\ c = next[BSP] /\ Waits /\ user_entry
             /\ c \in init' => x = "off"
             /\ IF ap_ready' = 0 THEN x \in Early \cup {"off", "sipi"} ELSE x \in {"call", "entry"}
    PROVE  Turn'
  <1> SUFFICES ASSUME halted = {}
               PROVE  Turn'
    BY DEF Turn
  <1>1. pc'[BSP] = pc[BSP] /\ pc'[c] = x /\ c < NCPU /\ c \in Nat
    BY BspIsCPU DEF IInv, TypeOK
  <1>2. \A d \in CPU \ {BSP} : d # c => pc'[d] = pc[d]
    BY DEF IInv, TypeOK
  <1>3. \A d \in CPU \ {BSP} : /\ d < next[BSP] => pc'[d] \in {"call", "entry"}
                               /\ d > next[BSP] => pc'[d] = "off" /\ d \notin startup'
    BY <1>1, <1>2, BspIsCPU DEF IInv, Turn
  <1>4. \A d \in init' : d = next[BSP] /\ d # BSP /\ pc'[d] = "off"
    BY <1>1 DEF IInv, Turn
  <1>5. Waits' /\ pc'[BSP] \in {"start_ap", "spin"} /\ next[BSP] < NCPU
    BY <1>1 DEF Waits
  <1> QED
    BY <1>1, <1>3, <1>4, <1>5, c = next[BSP] DEF Turn

(* A CPU that runs has no INIT on the way, until one halts.                *)
LEMMA Unpending == ASSUME IInv, NEW c \in CPU, pc[c] # "off", halted = {}
                   PROVE  c \notin init
  BY DEF IInv, Turn

-----------------------------------------------------------------------------
(* mpe_init finds the others off. *)
LEMMA MpeInitInv == ASSUME IInv, MpeInit PROVE IInv'
  <1>1. TypeOK'
    <2>1. pc' \in [CPU -> {"main", "off", "start_ap", "spin", "sipi", "loader",
                       "start_c", "percpu", "lgdt", "ready", "call", "entry", "self", "reload",
                       "wild", "stop", "print"}]
      BY Zenon DEF MpeInit, IInv, TypeOK
    <2>2. next' \in [CPU -> 0 .. NCPU]
      <3>1. 1 \in 0 .. NCPU
        BY NCPUAssumption
      <3> QED
        BY <3>1, Zenon DEF MpeInit, IInv, TypeOK
    <2> QED
      BY <2>1, <2>2 DEF MpeInit, IInv, TypeOK, gdts, ipis
  <1> USE BspIsCPU
  <1>a. /\ halted = {} /\ ap_ready' = ap_ready /\ user_entry' /\ ~user_entry
        /\ pc'[BSP] = "start_ap" /\ next'[BSP] = 1 /\ jmp_code' = "loader" /\ is_ap' = is_ap
        /\ \A c \in CPU \ {BSP} : pc'[c] = pc[c]
        /\ UNCHANGED <<gdt_data, gdtr, ipi, init, startup, halted>>
    BY DEF MpeInit, IInv, TypeOK, Boot, gdts, ipis
  <1>b. /\ \A c \in CPU \ {BSP} : pc'[c] = "off"
        /\ init' = {} /\ startup' = {} /\ ipi'[BSP] = 0
    <2>1. pc[BSP] = "main"
      BY DEF MpeInit
    <2>2. ipi[BSP] = 0
      BY <2>1 DEF IInv, Ipis, Silent
    <2> QED
      BY <1>a, <2>2 DEF IInv, Turn
  <1>2. Record'
    BY <1>a, <1>b DEF Record
  <1>3. Boot'
    BY <1>a, <1>b DEF Boot
  <1>4. Sent'
    BY <1>a, <1>b DEF Sent, Early
  <1>5. Turn'
    <2>1. \A c \in CPU \ {BSP} : ~(c < 1)
      BY DEF BSP
    <2>2. ap_ready' = 0
      BY <1>a DEF IInv, Turn
    <2>3. 1 < NCPU => 1 \in CPU \ {BSP}
      BY NCPUAssumption DEF CPU, BSP
    <2> QED
      BY <1>a, <1>b, <2>1, <2>2, <2>3 DEF Turn, Waits
  <1>6. OneEarly'
    BY <1>a, <1>b DEF OneEarly, Early
  <1>7. Gdts'
    BY <1>a, <1>b DEF Gdts, IInv
  <1>8. Passed'
    BY <1>a, <1>b DEF Passed
  <1>9. Ipis'
    <2>1. \A c \in CPU : ipi[c] = 0
      BY <1>a, <1>b DEF IInv, Ipis, Silent, Record, Boot
    <2> QED
      BY <1>a, <2>1 DEF Ipis
  <1> QED
    BY <1>1, <1>2, <1>3, <1>4, <1>5, <1>6, <1>7, <1>8, <1>9 DEF IInv

-----------------------------------------------------------------------------

(* The boot record sends the next CPU to the loader, and after halt() none. *)
LEMMA RunJmpCodeInv == ASSUME IInv, NEW c \in CPU, RunJmpCode(c) PROVE IInv'
  <1>a. halted = {} <=> jmp_code = "loader"
    BY MaxHaltAssumption DEF IInv, TypeOK, Record
  <1>b. halted = {} => /\ c = next[BSP] /\ c # BSP /\ Waits
                     /\ ap_ready = 0 /\ user_entry /\ is_ap
    BY OnlyNext DEF RunJmpCode, IInv, Sent
  <1>c. \A d \in CPU : pc'[d] = IF d = c THEN jmp_code ELSE pc[d]
    BY DEF RunJmpCode, IInv, TypeOK
  <1>1. TypeOK'
    BY DEF RunJmpCode, IInv, TypeOK, gdts, ipis
  <1>2. Record'
    BY MaxHaltAssumption DEF RunJmpCode, IInv, TypeOK, Record, gdts, ipis
  <1>3. Boot'
    <2>1. CASE c = BSP
      BY <1>b, <1>c, <2>1, BspIsCPU, <1>a DEF RunJmpCode, IInv, TypeOK, Boot
    <2>2. CASE c # BSP
      BY <2>2, BootKept, <1>a, Zenon DEF RunJmpCode, IInv, TypeOK
    <2> QED
      BY <2>1, <2>2
  <1>4. Sent'
    BY <1>a, <1>b, <1>c DEF RunJmpCode, IInv, TypeOK, Sent, Early
  <1>5. Turn'
    <2>1. CASE halted = {}
      <3>1. c \notin init'
        BY <2>1, Unpending DEF RunJmpCode, ipis
      <3>2. /\ UNCHANGED <<user_entry, next, ipi, halted>>
            /\ init' \in SUBSET init /\ startup' \in SUBSET startup
        BY DEF RunJmpCode, ipis
      <3>3. "loader" \in Early \cup {"off", "sipi"} /\ ap_ready' = ap_ready
        BY DEF RunJmpCode, Early
      <3>4. pc' = [pc EXCEPT ![c] = "loader"] /\ c # BSP
        BY <2>1, <1>a, <1>b DEF RunJmpCode
      <3> QED
        BY ONLY <3>1, <3>2, <3>3, <3>4, <2>1, <1>b, TurnKept, IInv, c \in CPU, Zenon
    <2>2. CASE halted # {}
      BY <2>2 DEF RunJmpCode, Turn
    <2> QED
      BY <2>1, <2>2
  <1>6. OneEarly'
    <2>1. CASE halted = {}
      <3>1. \A d \in CPU : pc[d] \in Early => d = c
        BY <2>1, <1>b, OnlyNext
      <3> QED
        BY <3>1, <1>c DEF OneEarly
    <2>2. CASE halted # {}
      BY <2>2, <1>a, <1>c DEF IInv, TypeOK, OneEarly, Early
    <2> QED
      BY <2>1, <2>2
  <1>7. Gdts'
    BY <1>c DEF RunJmpCode, IInv, TypeOK, Gdts, gdts, ipis
  <1>8. Passed'
    <2>1. \A d \in CPU : Stopped(d) => Stopped(d)'
      BY <1>a, <1>c DEF RunJmpCode, IInv, TypeOK, Stopped, Silent, ipis
    <2>2. UNCHANGED <<next, ipi>>
      BY DEF RunJmpCode, ipis
    <2> QED
      BY <1>a, <1>c, <2>1, <2>2 DEF IInv, TypeOK, Passed
  <1>9. Ipis'
    BY <1>c DEF RunJmpCode, IInv, Ipis, Silent, ipis
  <1> QED
    BY <1>1, <1>2, <1>3, <1>4, <1>5, <1>6, <1>7, <1>8, <1>9 DEF IInv

(* It finds is_ap set, so the kernel is not loaded again. *)
LEMMA LoadKernelInv == ASSUME IInv, NEW c \in CPU, LoadKernel(c) PROVE IInv'
  <1>a. c # BSP /\ pc' = [pc EXCEPT ![c] = "start_c"]
    BY Zenon DEF LoadKernel, IInv, Boot, Sent, Early
  <1>b. \A d \in CPU : pc'[d] = IF d = c THEN "start_c" ELSE pc[d]
    BY <1>a DEF IInv, TypeOK
  <1>c. halted = {} => c = next[BSP] /\ Waits /\ ap_ready = 0 /\ user_entry
    BY OnlyNext DEF LoadKernel, Early
  <1>1. TypeOK'
    BY <1>a DEF LoadKernel, IInv, TypeOK, gdts, ipis
  <1>2. Record'
    BY <1>b DEF LoadKernel, IInv, Record, gdts, ipis
  <1>3. Boot'
    BY <1>a, BootKept, Zenon DEF LoadKernel
  <1>4. Sent'
    BY <1>b DEF LoadKernel, IInv, Sent, Early
  <1>5. Turn'
    <2>1. halted = {} => c \notin init'
      BY Unpending DEF LoadKernel, ipis
    <2>2. /\ UNCHANGED <<user_entry, next, ipi, halted>>
          /\ init' \in SUBSET init /\ startup' \in SUBSET startup
      BY DEF LoadKernel, ipis
    <2>3. "start_c" \in Early \cup {"off", "sipi"} /\ ap_ready' = ap_ready
      BY DEF LoadKernel, Early
    <2> QED
      BY ONLY <2>1, <2>2, <2>3, <1>a, <1>c, TurnKept, IInv, c \in CPU, Zenon
  <1>6. OneEarly'
    BY <1>b DEF LoadKernel, IInv, OneEarly, Early
  <1>7. Gdts'
    BY <1>b DEF LoadKernel, IInv, Gdts, gdts, ipis
  <1>8. Passed'
    <2>1. \A d \in CPU : Stopped(d) => Stopped(d)'
      BY <1>b DEF LoadKernel, IInv, TypeOK, Stopped, Silent, ipis
    <2>2. UNCHANGED <<next, ipi>>
      BY DEF LoadKernel, ipis
    <2> QED
      BY <1>b, <2>1, <2>2 DEF IInv, Passed
  <1>9. Ipis'
    BY <1>b DEF LoadKernel, IInv, Ipis, Silent, ipis
  <1> QED
    BY <1>1, <1>2, <1>3, <1>4, <1>5, <1>6, <1>7, <1>8, <1>9 DEF IInv

(* It leaves the boot stack for its own. *)
LEMMA StartCInv == ASSUME IInv, NEW c \in CPU, StartC(c) PROVE IInv'
  <1>a. c # BSP /\ pc' = [pc EXCEPT ![c] = "percpu"]
    BY Zenon DEF StartC, IInv, Boot, Sent, Early
  <1>b. \A d \in CPU : pc'[d] = IF d = c THEN "percpu" ELSE pc[d]
    BY <1>a DEF IInv, TypeOK
  <1>c. halted = {} => c = next[BSP] /\ Waits /\ ap_ready = 0 /\ user_entry
    BY OnlyNext DEF StartC, Early
  <1>1. TypeOK'
    BY <1>a DEF StartC, IInv, TypeOK, gdts, ipis
  <1>2. Record'
    BY <1>b DEF StartC, IInv, Record, gdts, ipis
  <1>3. Boot'
    BY <1>a, BootKept, Zenon DEF StartC
  <1>4. Sent'
    BY <1>b DEF StartC, IInv, Sent, Early
  <1>5. Turn'
    <2>1. halted = {} => c \notin init'
      BY Unpending DEF StartC, ipis
    <2>2. /\ UNCHANGED <<user_entry, next, ipi, halted>>
          /\ init' \in SUBSET init /\ startup' \in SUBSET startup
      BY DEF StartC, ipis
    <2>3. "percpu" \in Early \cup {"off", "sipi"} /\ ap_ready' = ap_ready
      BY DEF StartC, Early
    <2> QED
      BY ONLY <2>1, <2>2, <2>3, <1>a, <1>c, TurnKept, IInv, c \in CPU, Zenon
  <1>6. OneEarly'
    BY <1>b DEF StartC, IInv, OneEarly, Early
  <1>7. Gdts'
    BY <1>b DEF StartC, IInv, Gdts, gdts, ipis
  <1>8. Passed'
    <2>1. \A d \in CPU : Stopped(d) => Stopped(d)'
      BY <1>b DEF StartC, IInv, TypeOK, Stopped, Silent, ipis
    <2>2. UNCHANGED <<next, ipi>>
      BY DEF StartC, ipis
    <2> QED
      BY <1>b, <2>1, <2>2 DEF IInv, Passed
  <1>9. Ipis'
    BY <1>b DEF StartC, IInv, Ipis, Silent, ipis
  <1> QED
    BY <1>1, <1>2, <1>3, <1>4, <1>5, <1>6, <1>7, <1>8, <1>9 DEF IInv

(* Nobody else is between here and ap_ready. *)
LEMMA SetGdtInv == ASSUME IInv, NEW c \in CPU, SetGdt(c) PROVE IInv'
  <1>a. c # BSP /\ pc' = [pc EXCEPT ![c] = "lgdt"]
    BY DEF SetGdt, IInv, Boot, Sent, Early
  <1>b. \A d \in CPU : pc'[d] = IF d = c THEN "lgdt" ELSE pc[d]
    BY <1>a DEF IInv, TypeOK
  <1>c. halted = {} => c = next[BSP] /\ Waits /\ ap_ready = 0 /\ user_entry
    BY OnlyNext DEF SetGdt, Early
  <1>1. TypeOK'
    BY <1>a DEF SetGdt, IInv, TypeOK, gdts, ipis
  <1>2. Record'
    BY <1>b DEF SetGdt, IInv, Record, gdts, ipis
  <1>3. Boot'
    BY <1>a, BootKept, Zenon DEF SetGdt
  <1>4. Sent'
    BY <1>b DEF SetGdt, IInv, Sent, Early
  <1>5. Turn'
    <2>1. halted = {} => c \notin init'
      BY Unpending DEF SetGdt, ipis
    <2>2. /\ UNCHANGED <<user_entry, next, ipi, halted>>
          /\ init' \in SUBSET init /\ startup' \in SUBSET startup
      BY DEF SetGdt, ipis
    <2>3. "lgdt" \in Early \cup {"off", "sipi"} /\ ap_ready' = ap_ready
      BY DEF SetGdt, Early
    <2> QED
      BY ONLY <2>1, <2>2, <2>3, <1>a, <1>c, TurnKept, IInv, c \in CPU, Zenon
  <1>6. OneEarly'
    BY <1>b DEF SetGdt, IInv, OneEarly, Early
  <1>7. Gdts'
    BY <1>a, <1>b DEF SetGdt, IInv, TypeOK, OneEarly, Gdts, Early
  <1>8. Passed'
    <2>1. \A d \in CPU : Stopped(d) => Stopped(d)'
      BY <1>b DEF SetGdt, IInv, TypeOK, Stopped, Silent, ipis
    <2>2. UNCHANGED <<next, ipi>>
      BY DEF SetGdt, ipis
    <2> QED
      BY <1>b, <2>1, <2>2 DEF IInv, Passed
  <1>9. Ipis'
    BY <1>b DEF SetGdt, IInv, Ipis, Silent, ipis
  <1> QED
    BY <1>1, <1>2, <1>3, <1>4, <1>5, <1>6, <1>7, <1>8, <1>9 DEF IInv

(* So the operand is still its own. *)
LEMMA LgdtInv == ASSUME IInv, NEW c \in CPU, Lgdt(c) PROVE IInv'
  <1>a. c # BSP /\ pc' = [pc EXCEPT ![c] = "ready"]
    BY DEF Lgdt, IInv, Boot, Sent, Early
  <1>b. \A d \in CPU : pc'[d] = IF d = c THEN "ready" ELSE pc[d]
    BY <1>a DEF IInv, TypeOK
  <1>c. halted = {} => c = next[BSP] /\ Waits /\ ap_ready = 0 /\ user_entry
    BY OnlyNext DEF Lgdt, Early
  <1>1. TypeOK'
    BY <1>a DEF Lgdt, IInv, TypeOK, gdts, ipis
  <1>2. Record'
    BY <1>b DEF Lgdt, IInv, Record, gdts, ipis
  <1>3. Boot'
    BY <1>a, BootKept, Zenon DEF Lgdt
  <1>4. Sent'
    BY <1>b DEF Lgdt, IInv, Sent, Early
  <1>5. Turn'
    <2>1. halted = {} => c \notin init'
      BY Unpending DEF Lgdt, ipis
    <2>2. /\ UNCHANGED <<user_entry, next, ipi, halted>>
          /\ init' \in SUBSET init /\ startup' \in SUBSET startup
      BY DEF Lgdt, ipis
    <2>3. "ready" \in Early \cup {"off", "sipi"} /\ ap_ready' = ap_ready
      BY DEF Lgdt, Early
    <2> QED
      BY ONLY <2>1, <2>2, <2>3, <1>a, <1>c, TurnKept, IInv, c \in CPU, Zenon
  <1>6. OneEarly'
    BY <1>b DEF Lgdt, IInv, OneEarly, Early
  <1>7. Gdts'
    BY <1>a, <1>b DEF Lgdt, IInv, TypeOK, OneEarly, Gdts, Early
  <1>8. Passed'
    <2>1. \A d \in CPU : Stopped(d) => Stopped(d)'
      BY <1>b DEF Lgdt, IInv, TypeOK, Stopped, Silent, ipis
    <2>2. UNCHANGED <<next, ipi>>
      BY DEF Lgdt, ipis
    <2> QED
      BY <1>b, <2>1, <2>2 DEF IInv, Passed
  <1>9. Ipis'
    BY <1>b DEF Lgdt, IInv, Ipis, Silent, ipis
  <1> QED
    BY <1>1, <1>2, <1>3, <1>4, <1>5, <1>6, <1>7, <1>8, <1>9 DEF IInv

(* The boot processor may go on. *)
LEMMA OtherCpuReadyInv == ASSUME IInv, NEW c \in CPU, OtherCpuReady(c) PROVE IInv'
  <1>a. c # BSP /\ pc' = [pc EXCEPT ![c] = "call"]
    BY DEF OtherCpuReady, IInv, Boot, Sent, Early
  <1>b. \A d \in CPU : pc'[d] = IF d = c THEN "call" ELSE pc[d]
    BY <1>a DEF IInv, TypeOK
  <1>c. halted = {} => c = next[BSP] /\ Waits /\ ap_ready = 0 /\ user_entry
    BY OnlyNext DEF OtherCpuReady, Early
  <1>1. TypeOK'
    BY <1>a DEF OtherCpuReady, IInv, TypeOK, gdts, ipis
  <1>2. Record'
    BY <1>b DEF OtherCpuReady, IInv, Record, gdts, ipis
  <1>3. Boot'
    BY <1>a, BootKept, Zenon DEF OtherCpuReady
  <1>4. Sent'
    BY <1>b DEF OtherCpuReady, IInv, Sent, Early
  <1>5. Turn'
    <2>1. halted = {} => c \notin init'
      BY Unpending DEF OtherCpuReady, ipis
    <2>2. /\ UNCHANGED <<user_entry, next, ipi, halted>>
          /\ init' \in SUBSET init /\ startup' \in SUBSET startup
      BY DEF OtherCpuReady, ipis
    <2>3. ap_ready' # 0
      BY DEF OtherCpuReady
    <2> QED
      BY ONLY <2>1, <2>2, <2>3, <1>a, <1>c, TurnKept, IInv, c \in CPU, Zenon
  <1>6. OneEarly'
    BY <1>b DEF OtherCpuReady, IInv, OneEarly, Early
  <1>7. Gdts'
    BY <1>b DEF OtherCpuReady, IInv, Gdts, gdts, ipis
  <1>8. Passed'
    <2>1. \A d \in CPU : Stopped(d) => Stopped(d)'
      BY <1>b DEF OtherCpuReady, IInv, TypeOK, Stopped, Silent, ipis
    <2>2. UNCHANGED <<next, ipi>>
      BY DEF OtherCpuReady, ipis
    <2> QED
      BY <1>b, <2>1, <2>2 DEF IInv, Passed
  <1>9. Ipis'
    BY <1>b DEF OtherCpuReady, IInv, Ipis, Silent, ipis
  <1> QED
    BY <1>1, <1>2, <1>3, <1>4, <1>5, <1>6, <1>7, <1>8, <1>9 DEF IInv

(* user_entry was stored before the IPI was sent. *)
LEMMA OtherCpuEntryInv == ASSUME IInv, NEW c \in CPU, OtherCpuEntry(c) PROVE IInv'
  <1>a. c # BSP /\ pc' = [pc EXCEPT ![c] = "entry"]
    BY Zenon DEF OtherCpuEntry, IInv, Boot, Sent, Early
  <1>b. \A d \in CPU : pc'[d] = IF d = c THEN "entry" ELSE pc[d]
    BY <1>a DEF IInv, TypeOK
  <1>1. TypeOK'
    BY <1>a DEF OtherCpuEntry, IInv, TypeOK, gdts, ipis
  <1>2. Record'
    BY <1>b DEF OtherCpuEntry, IInv, Record, gdts, ipis
  <1>3. Boot'
    BY <1>a, BootKept, Zenon DEF OtherCpuEntry
  <1>4. Sent'
    BY <1>b DEF OtherCpuEntry, IInv, Sent, Early
  <1>5. Turn'
    <2> SUFFICES ASSUME halted = {}
                 PROVE  Turn'
      BY DEF OtherCpuEntry, Turn
    <2>1. user_entry
      BY DEF OtherCpuEntry, IInv, Sent, Early
    <2>2. pc'[BSP] = pc[BSP] /\ \A d \in CPU \ {BSP} :
              pc'[d] = pc[d] \/ (pc[d] = "call" /\ pc'[d] = "entry")
      BY <1>a, <1>b, BspIsCPU DEF OtherCpuEntry
    <2>3. next[BSP] < NCPU => next[BSP] \in CPU
      BY BspIsCPU, NCPUAssumption DEF IInv, TypeOK, CPU
    <2>4. next[BSP] < NCPU => pc'[next[BSP]] = pc[next[BSP]] \/ (pc[next[BSP]] = "call" /\ pc'[next[BSP]] = "entry")
      BY <2>3, <1>b DEF OtherCpuEntry
    <2>5. UNCHANGED <<user_entry, ap_ready, next, ipi, init, startup>>
      BY DEF OtherCpuEntry, ipis
    <2>6. \A d \in init : d = next[BSP] /\ d # BSP /\ pc'[d] = "off"
      BY <2>1, <2>2, <2>5 DEF IInv, TypeOK, Turn
    <2>7. Waits' <=> Waits
      BY <2>2, <2>5 DEF Waits
    <2>8. \A d \in CPU \ {BSP} :
              /\ d < next[BSP] => pc'[d] \in {"call", "entry"}
              /\ d > next[BSP] => pc'[d] = "off" /\ d \notin startup
      BY <2>1, <2>2 DEF IInv, Turn
    <2>9. Waits => /\ next[BSP] < NCPU
                   /\ IF ap_ready = 0 THEN pc'[next[BSP]] \in Early \cup {"off", "sipi"}
                                      ELSE pc'[next[BSP]] \in {"call", "entry"}
      BY <2>1, <2>4 DEF IInv, Turn, Early
    <2>10. pc[BSP] = "start_ap" /\ ~Waits =>
              /\ ap_ready = 0
              /\ next[BSP] < NCPU => pc'[next[BSP]] = "off" /\ next[BSP] \notin startup
      BY <2>1, <2>4 DEF IInv, Turn
    <2> QED
      BY <2>1, <2>2, <2>5, <2>6, <2>7, <2>8, <2>9, <2>10 DEF IInv, Turn
  <1>6. OneEarly'
    BY <1>b DEF OtherCpuEntry, IInv, OneEarly, Early
  <1>7. Gdts'
    BY <1>b DEF OtherCpuEntry, IInv, Gdts, gdts, ipis
  <1>8. Passed'
    <2>1. \A d \in CPU : Stopped(d) => Stopped(d)'
      BY <1>b DEF OtherCpuEntry, IInv, TypeOK, Stopped, Silent, ipis
    <2>2. UNCHANGED <<next, ipi>>
      BY DEF OtherCpuEntry, ipis
    <2> QED
      BY <1>b, <2>1, <2>2 DEF IInv, Passed
  <1>9. Ipis'
    BY <1>b DEF OtherCpuEntry, IInv, Ipis, Silent, ipis
  <1> QED
    BY <1>1, <1>2, <1>3, <1>4, <1>5, <1>6, <1>7, <1>8, <1>9 DEF IInv

-----------------------------------------------------------------------------

(* Only the next CPU is sent to the boot record. *)
LEMMA StartApInv == ASSUME IInv, StartAp PROVE IInv'
  <1> USE BspIsCPU
  <1>a. next[BSP] \in CPU \ {BSP} /\ user_entry
    <2>1. next[BSP] \in 0 .. NCPU
      BY DEF IInv, TypeOK
    <2>2. next[BSP] < NCPU /\ next[BSP] > 0 /\ user_entry
      BY DEF StartAp, IInv, Boot
    <2> QED
      BY <2>1, <2>2, NCPUAssumption DEF CPU, BSP
  <1>d. is_ap' /\ UNCHANGED <<user_entry, jmp_code, ap_ready, next, halted, gdt_data, gdtr>>
    BY DEF StartAp, gdts
  <1>b. /\ \A d \in CPU \ {BSP} : pc'[d] = pc[d] /\ ipi'[d] = ipi[d]
        /\ pc[BSP] = "start_ap"
        /\ ipi[BSP] = 0 => /\ pc'[BSP] = "start_ap" /\ ipi'[BSP] = 1
                           /\ init' = init \cup {next[BSP]} /\ startup' = startup
        /\ ipi[BSP] = 1 => /\ pc'[BSP] = "start_ap" /\ ipi'[BSP] = 2
                           /\ init' = init /\ startup' = startup \cup {next[BSP]}
        /\ ipi[BSP] = 2 => /\ pc'[BSP] = "spin" /\ ipi'[BSP] = 0
                           /\ init' = init /\ startup' = startup \cup {next[BSP]}
    <2>1. pc[BSP] = "start_ap" /\ ipi[BSP] \in 0 .. 2
      BY DEF StartAp, IInv, TypeOK
    <2>2. /\ pc'[BSP] = IF ipi[BSP] = 2 THEN "spin" ELSE pc[BSP]
          /\ ipi'[BSP] = (ipi[BSP] + 1) % 3
          /\ \A d \in CPU \ {BSP} : pc'[d] = pc[d] /\ ipi'[d] = ipi[d]
      BY DEF StartAp, BootAp, BootApDone, IInv, TypeOK
    <2>3. /\ init' = IF ipi[BSP] = 0 THEN init \cup {next[BSP]} ELSE init
          /\ startup' = IF ipi[BSP] = 0 THEN startup ELSE startup \cup {next[BSP]}
      BY DEF StartAp, BootAp
    <2>4. CASE ipi[BSP] = 0
      BY <2>1, <2>2, <2>3, <2>4
    <2>5. CASE ipi[BSP] = 1
      BY <2>1, <2>2, <2>3, <2>5
    <2>6. CASE ipi[BSP] = 2
      BY <2>1, <2>2, <2>3, <2>6
    <2> QED
      BY <2>1, <2>2, <2>4, <2>5, <2>6
  <1>c. ipi[BSP] \in {0, 1, 2} /\ init' \in SUBSET (init \cup {next[BSP]})
        /\ startup' \in SUBSET (startup \cup {next[BSP]}) /\ init \in SUBSET init'
    <2>1. ipi[BSP] \in {0, 1, 2}
      BY DEF IInv, TypeOK
    <2> QED
      BY <1>b, <2>1
  <1>1. TypeOK'
    <2>1. pc' \in [CPU -> {"main", "off", "start_ap", "spin", "sipi", "loader",
                       "start_c", "percpu", "lgdt", "ready", "call", "entry", "self", "reload",
                       "wild", "stop", "print"}]
      BY DEF StartAp, IInv, TypeOK
    <2>2. ipi' \in [CPU -> 0 .. 2]
      BY DEF StartAp, BootAp, IInv, TypeOK
    <2>3. init' \in SUBSET CPU /\ startup' \in SUBSET CPU
      BY <1>a, <1>c DEF IInv, TypeOK
    <2> QED
      BY <2>1, <2>2, <2>3 DEF StartAp, IInv, TypeOK, gdts
  <1>2. Record'
    BY <1>b, <1>c, <1>d DEF IInv, Record
  <1>3. Boot'
    <2>1. \A d \in CPU \ {BSP} : pc'[d] \notin {"main", "start_ap", "spin"}
      BY <1>b DEF IInv, Boot
    <2>2. pc'[BSP] \in {"start_ap", "spin"}
      BY <1>b, <1>c
    <2> QED
      BY <2>1, <2>2, <1>d DEF StartAp, IInv, Boot
  <1>4. Sent'
    BY <1>a, <1>b, <1>c, <1>d DEF IInv, Sent, Early
  <1>5. Turn'
    <2> SUFFICES ASSUME halted = {}
                 PROVE  Turn'
      BY Zenon DEF StartAp, Turn
    <2>1. \A d \in CPU \ {BSP} : /\ d < next[BSP] => pc'[d] \in {"call", "entry"}
                                 /\ d > next[BSP] => pc'[d] = "off" /\ d \notin startup'
      BY <1>a, <1>b, <1>c DEF IInv, Turn
    <2>2. next'[BSP] = next[BSP] /\ next[BSP] < NCPU /\ user_entry'
      BY <1>a, <1>d DEF StartAp
    <2>3. CASE ipi[BSP] = 0
      BY <1>a, <1>b, <1>d, <2>1, <2>2, <2>3 DEF IInv, Turn, Waits
    <2>4. CASE ipi[BSP] = 1
      BY <1>a, <1>b, <1>d, <2>1, <2>2, <2>4 DEF IInv, Turn, Waits
    <2>5. CASE ipi[BSP] = 2
      BY <1>a, <1>b, <1>d, <2>1, <2>2, <2>5 DEF IInv, Turn, Waits
    <2> QED
      BY <1>c, <2>3, <2>4, <2>5
  <1>6. OneEarly'
    BY <1>b, <1>c DEF IInv, OneEarly, Early
  <1>7. Gdts'
    BY <1>b, <1>c, <1>d DEF IInv, Gdts
  <1>8. Passed'
    <2>1. \A d \in CPU : Stopped(d) => Stopped(d)'
      BY <1>b, <1>c, <1>d DEF Stopped, Silent
    <2>2. \A b \in CPU : pc'[b] \in {"stop", "print"} => pc'[b] = pc[b] /\ ipi'[b] = ipi[b]
      BY <1>b, <1>c
    <2> QED
      BY <1>d, <2>1, <2>2 DEF IInv, Passed
  <1>9. Ipis'
    <2>1. ipi'[BSP] # 0 => pc'[BSP] = "start_ap" /\ next'[BSP] < NCPU
      BY <1>b, <1>c, <1>d DEF StartAp
    <2> QED
      BY <1>b, <1>d, <2>1 DEF IInv, Ipis, Silent
  <1> QED
    BY <1>1, <1>2, <1>3, <1>4, <1>5, <1>6, <1>7, <1>8, <1>9 DEF IInv

(* The next CPU has announced itself. *)
LEMMA SpinInv == ASSUME IInv, Spin PROVE IInv'
  <1> USE BspIsCPU
  <1>a. next[BSP] \in CPU \ {BSP} /\ user_entry /\ next'[BSP] = next[BSP] + 1
    <2>1. next[BSP] < NCPU /\ next[BSP] > 0 /\ user_entry
      BY DEF Spin, IInv, Boot
    <2>2. next[BSP] \in 0 .. NCPU /\ next'[BSP] = next[BSP] + 1
      BY DEF Spin, IInv, TypeOK
    <2> QED
      BY <2>1, <2>2, NCPUAssumption DEF CPU, BSP
  <1>b. \A d \in CPU : pc'[d] = IF d = BSP THEN "start_ap" ELSE pc[d]
    BY DEF Spin, IInv, TypeOK
  <1>c. pc'[BSP] = "start_ap"
    BY <1>b
  <1>d. /\ UNCHANGED <<user_entry, jmp_code, is_ap, ipi, init, startup, halted, gdt_data, gdtr>>
        /\ ap_ready' = 0 /\ ap_ready = 1 /\ pc[BSP] = "spin"
    BY DEF Spin, gdts, ipis
  <1>1. TypeOK'
    <2>1. next[BSP] + 1 \in 0 .. NCPU
      BY <1>a, NCPUAssumption DEF CPU
    <2>2. next' \in [CPU -> 0 .. NCPU]
      BY <2>1 DEF Spin, IInv, TypeOK
    <2>3. pc' \in [CPU -> {"main", "off", "start_ap", "spin", "sipi", "loader",
                       "start_c", "percpu", "lgdt", "ready", "call", "entry", "self", "reload",
                       "wild", "stop", "print"}]
      BY DEF Spin, IInv, TypeOK
    <2> QED
      BY <2>2, <2>3, <1>d DEF Spin, IInv, TypeOK
  <1>2. Record'
    BY <1>b, <1>d DEF IInv, Record
  <1>3. Boot'
    <2>1. \A d \in CPU \ {BSP} : pc'[d] \notin {"main", "start_ap", "spin"}
      BY <1>b DEF IInv, Boot
    <2>2. next'[BSP] > 0
      BY <1>a
    <2> QED
      BY <1>a, <1>c, <1>d, <2>1, <2>2 DEF Boot
  <1>4. Sent'
    BY <1>b, <1>d DEF IInv, Sent, Early
  <1>5. Turn'
    <2> SUFFICES ASSUME halted = {}
                 PROVE  Turn'
      BY <1>d DEF Turn
    <2>0. Waits
      BY <1>d DEF Waits
    <2>1. pc[next[BSP]] \in {"call", "entry"}
      BY <1>a, <1>d, <2>0 DEF IInv, Turn
    <2>2. \A d \in CPU \ {BSP} : /\ d < next[BSP] => pc[d] \in {"call", "entry"}
                                 /\ d > next[BSP] => pc[d] = "off" /\ d \notin startup
      BY <1>a DEF IInv, Turn
    <2>3. \A d \in CPU \ {BSP} : /\ d < next'[BSP] => pc'[d] \in {"call", "entry"}
                                 /\ d > next'[BSP] => pc'[d] = "off" /\ d \notin startup'
      BY <1>a, <1>b, <1>d, <2>1, <2>2
    <2>4. next'[BSP] < NCPU => pc'[next'[BSP]] = "off" /\ next'[BSP] \notin startup'
      <3> SUFFICES ASSUME next'[BSP] < NCPU
                   PROVE  pc'[next'[BSP]] = "off" /\ next'[BSP] \notin startup'
        OBVIOUS
      <3>1. next'[BSP] \in CPU \ {BSP} /\ next'[BSP] > next[BSP]
        BY <1>a, NCPUAssumption DEF CPU, BSP
      <3> QED
        BY <3>1, <1>b, <1>d, <2>2
    <2>5. init' = {}
      BY <1>a, <1>d, <2>1 DEF IInv, Turn
    <2>6. ~Waits'
      <3>1. ipi[BSP] = 0
        BY <1>d DEF IInv, Ipis, Silent
      <3> QED
        BY <3>1, <1>c, <1>d DEF Waits
    <2> QED
      BY <1>a, <1>c, <1>d, <2>3, <2>4, <2>5, <2>6 DEF Turn
  <1>6. OneEarly'
    BY <1>b DEF IInv, OneEarly, Early
  <1>7. Gdts'
    BY <1>b, <1>d DEF IInv, Gdts
  <1>8. Passed'
    <2>1. \A d \in CPU : Stopped(d) => Stopped(d)'
      BY <1>b, <1>d DEF Stopped, Silent
    <2>2. \A d \in CPU : d # BSP => next'[d] = next[d]
      BY DEF Spin, IInv, TypeOK
    <2> QED
      BY <1>b, <1>d, <2>1, <2>2 DEF IInv, Passed
  <1>9. Ipis'
    <2>1. ipi[BSP] = 0
      BY <1>d DEF IInv, Ipis, Silent
    <2>2. \A d \in CPU : d # BSP => next'[d] = next[d] /\ pc'[d] = pc[d]
      BY <1>b DEF Spin, IInv, TypeOK
    <2> QED
      BY <1>d, <2>1, <2>2 DEF IInv, Ipis, Silent
  <1> QED
    BY <1>1, <1>2, <1>3, <1>4, <1>5, <1>6, <1>7, <1>8, <1>9 DEF IInv

(* All have. *)
LEMMA CallUserEntryInv == ASSUME IInv, CallUserEntry PROVE IInv'
  <1> USE BspIsCPU
  <1>b. \A d \in CPU : pc'[d] = IF d = BSP THEN "entry" ELSE pc[d]
    BY DEF CallUserEntry, IInv, TypeOK
  <1>c. pc'[BSP] = "entry" /\ pc[BSP] = "start_ap" /\ next[BSP] = NCPU /\ ipi[BSP] = 0
    <2>1. pc[BSP] = "start_ap" /\ next[BSP] = NCPU
      BY DEF CallUserEntry
    <2>2. ~(next[BSP] < NCPU)
      BY <2>1, NCPUAssumption
    <2> QED
      BY <1>b, <2>1, <2>2 DEF IInv, Ipis, Silent
  <1>d. UNCHANGED <<user_entry, jmp_code, is_ap, ap_ready, next, ipi, init, startup, halted, gdt_data, gdtr>>
    BY DEF CallUserEntry, gdts, ipis
  <1>1. TypeOK'
    BY <1>d DEF CallUserEntry, IInv, TypeOK
  <1>2. Record'
    BY <1>b, <1>d DEF IInv, Record
  <1>3. Boot'
    BY <1>b, <1>c, <1>d DEF IInv, Boot
  <1>4. Sent'
    BY <1>b, <1>d DEF IInv, Sent, Early
  <1>5. Turn'
    <2> SUFFICES ASSUME halted = {}
                 PROVE  Turn'
      BY <1>d DEF Turn
    <2>1. \A d \in CPU \ {BSP} : pc'[d] = pc[d]
      BY <1>b
    <2>2. ~Waits'
      BY <1>c DEF Waits
    <2>3. \A d \in init : FALSE
      BY <1>c, NCPUAssumption, BspIsCPU DEF IInv, TypeOK, Turn, Boot
    <2> QED
      BY <1>c, <1>d, <2>1, <2>2, <2>3 DEF IInv, Turn, Boot
  <1>6. OneEarly'
    BY <1>b DEF IInv, OneEarly, Early
  <1>7. Gdts'
    BY <1>b, <1>d DEF IInv, Gdts
  <1>8. Passed'
    <2>1. \A d \in CPU : Stopped(d) => Stopped(d)'
      BY <1>b, <1>c, <1>d DEF Stopped, Silent
    <2> QED
      BY <1>b, <1>d, <2>1 DEF IInv, Passed
  <1>9. Ipis'
    BY <1>b, <1>c, <1>d DEF IInv, Ipis, Silent
  <1> QED
    BY <1>1, <1>2, <1>3, <1>4, <1>5, <1>6, <1>7, <1>8, <1>9 DEF IInv

(* From now on the boot record stops whoever comes to it. *)
LEMMA HaltInv == ASSUME IInv, NEW c \in CPU, Halt(c) PROVE IInv'
  <1>a. halted' # {} /\ halted' \in SUBSET CPU /\ jmp_code' = "self"
    BY DEF Halt, IInv, TypeOK
  <1>b. \A d \in CPU : pc'[d] = IF d = c THEN "stop" ELSE pc[d]
    BY DEF Halt, IInv, TypeOK
  <1>c. \A d \in CPU : next'[d] = IF d = c THEN 0 ELSE next[d]
    BY DEF Halt, IInv, TypeOK
  <1>d. UNCHANGED <<user_entry, is_ap, ap_ready, ipi, init, startup, gdt_data, gdtr>>
    BY DEF Halt, gdts, ipis
  <1>e. pc[c] \in {"main", "entry"} /\ ipi[c] = 0
    BY DEF Halt, IInv, Ipis, Silent
  <1>1. TypeOK'
    <2>1. next' \in [CPU -> 0 .. NCPU]
      <3>1. 0 \in 0 .. NCPU
        BY NCPUAssumption
      <3> QED
        BY <3>1 DEF Halt, IInv, TypeOK
    <2>2. pc' \in [CPU -> {"main", "off", "start_ap", "spin", "sipi", "loader",
                       "start_c", "percpu", "lgdt", "ready", "call", "entry", "self", "reload",
                       "wild", "stop", "print"}]
      BY DEF Halt, IInv, TypeOK
    <2> QED
      BY <1>a, <1>d, <2>1, <2>2 DEF Halt, IInv, TypeOK
  <1>2. Record'
    BY <1>a DEF Record
  <1>3. Boot'
    <2>1. \A d \in CPU \ {BSP} : pc'[d] \notin {"main", "start_ap", "spin"}
      BY <1>b DEF IInv, Boot
    <2>2. CASE c = BSP
      BY <1>a, <1>b, <2>1, <2>2 DEF Boot
    <2>3. CASE c # BSP
      <3>1. pc'[BSP] = pc[BSP] /\ next'[BSP] = next[BSP] /\ user_entry' = user_entry
        BY <1>b, <1>c, <1>d, <2>3, BspIsCPU
      <3>2. pc[BSP] # "main"
        <4>1. pc[c] = "entry"
          BY <2>3 DEF Halt, IInv, Boot
        <4> QED
          BY <4>1, <2>3 DEF IInv, Boot, Turn
      <3> QED
        BY <1>a, <2>1, <3>1, <3>2 DEF IInv, Boot
    <2> QED
      BY <2>2, <2>3
  <1>4. Sent'
    BY <1>a, <1>b, <1>d DEF IInv, Sent, Early
  <1>5. Turn'
    BY <1>a DEF Turn
  <1>6. OneEarly'
    BY <1>b DEF IInv, OneEarly, Early
  <1>7. Gdts'
    BY <1>b, <1>d DEF IInv, Gdts
  <1>8. Passed'
    <2>1. \A d \in CPU : Stopped(d) => Stopped(d)'
      BY <1>a, <1>b, <1>d, <1>e DEF Stopped, Silent
    <2>2. \A d \in CPU : ~(d < 0)
      BY BspIsCPU
    <2>3. \A b, d \in CPU : b # d /\ b # c =>
             /\ pc'[b] = "stop" /\ (d < next'[b] \/ (d = next'[b] /\ ipi'[b] # 0)) => Stopped(d)
             /\ pc'[b] = "print" => Stopped(d)
      BY <1>b, <1>c, <1>d DEF IInv, Passed
    <2> QED
      BY <1>b, <1>c, <1>d, <1>e, <2>1, <2>2, <2>3 DEF Passed
  <1>9. Ipis'
    BY <1>a, <1>b, <1>c, <1>d, <1>e DEF IInv, Ipis, Silent
  <1> QED
    BY <1>1, <1>2, <1>3, <1>4, <1>5, <1>6, <1>7, <1>8, <1>9 DEF IInv

(* One more CPU is stopped. *)
LEMMA StopOneInv == ASSUME IInv, NEW c \in CPU, StopOne(c) PROVE IInv'
  <1>a. halted # {} /\ jmp_code = "self" /\ pc[c] = "stop"
    BY DEF StopOne, IInv, Record
  <1>b. next[c] \in CPU /\ next[c] \in Nat /\ next[c] < NCPU /\ ipi[c] \in {0, 1, 2}
    <2>1. next[c] \in 0 .. NCPU /\ next[c] < NCPU /\ ipi[c] \in 0 .. 2
      BY DEF StopOne, IInv, TypeOK
    <2> QED
      BY <2>1, NCPUAssumption DEF CPU
  <1>c. UNCHANGED <<pc, user_entry, jmp_code, is_ap, ap_ready, halted, gdt_data, gdtr>>
    BY DEF StopOne, gdts
  <1>d. \A d \in CPU : d # c => next'[d] = next[d] /\ ipi'[d] = ipi[d]
    BY DEF StopOne, BootAp, ipis, IInv, TypeOK
  <1>e. /\ next[c] = c => next'[c] = next[c] + 1 /\ UNCHANGED <<ipi, init, startup>>
        /\ next[c] # c /\ ipi[c] = 0 => /\ next'[c] = next[c] /\ ipi'[c] = 1
                                        /\ init' = init \cup {next[c]} /\ startup' = startup
        /\ next[c] # c /\ ipi[c] = 1 => /\ next'[c] = next[c] /\ ipi'[c] = 2
                                        /\ init' = init /\ startup' = startup \cup {next[c]}
        /\ next[c] # c /\ ipi[c] = 2 => /\ next'[c] = next[c] + 1 /\ ipi'[c] = 0
                                        /\ init' = init /\ startup' = startup \cup {next[c]}
    <2>1. /\ next'[c] = IF next[c] = c \/ ipi[c] = 2 THEN next[c] + 1 ELSE next[c]
          /\ IF next[c] = c THEN UNCHANGED <<ipi, init, startup>>
             ELSE /\ ipi'[c] = (ipi[c] + 1) % 3
                  /\ init' = IF ipi[c] = 0 THEN init \cup {next[c]} ELSE init
                  /\ startup' = IF ipi[c] = 0 THEN startup ELSE startup \cup {next[c]}
      BY DEF StopOne, BootAp, BootApDone, ipis, IInv, TypeOK
    <2>2. CASE next[c] = c
      BY <2>1, <2>2
    <2>3. CASE next[c] # c /\ ipi[c] = 0
      BY <2>1, <2>3
    <2>4. CASE next[c] # c /\ ipi[c] = 1
      BY <2>1, <2>4
    <2>5. CASE next[c] # c /\ ipi[c] = 2
      BY <2>1, <2>5
    <2> QED
      BY <1>b, <2>2, <2>3, <2>4, <2>5
  <1>f. /\ init \in SUBSET init' /\ init' \in SUBSET (init \cup {next[c]})
        /\ startup' \in SUBSET (startup \cup {next[c]})
    BY <1>b, <1>e
  <1>g. next[c] = c => ipi[c] = 0
    BY <1>a DEF IInv, Ipis, Silent
  <1>1. TypeOK'
    <2>1. next' \in [CPU -> 0 .. NCPU]
      <3>1. next[c] + 1 \in 0 .. NCPU
        BY <1>b, NCPUAssumption
      <3> QED
        BY <3>1 DEF StopOne, IInv, TypeOK
    <2>2. ipi' \in [CPU -> 0 .. 2]
      BY <1>b DEF StopOne, BootAp, ipis, IInv, TypeOK
    <2>3. init' \in SUBSET CPU /\ startup' \in SUBSET CPU
      BY <1>b, <1>f DEF IInv, TypeOK
    <2> QED
      BY <1>c, <2>1, <2>2, <2>3 DEF StopOne, IInv, TypeOK
  <1>2. Record'
    BY <1>c DEF IInv, Record
  <1>3. Boot'
    <2>1. pc[BSP] \in {"start_ap", "spin"} => next'[BSP] = next[BSP]
      BY <1>a, <1>d, BspIsCPU
    <2> QED
      BY <1>c, <2>1 DEF IInv, Boot
  <1>4. Sent'
    BY <1>a, <1>c DEF IInv, Sent, Early
  <1>5. Turn'
    BY <1>a, <1>c DEF Turn
  <1>6. OneEarly'
    BY <1>c DEF IInv, OneEarly, Early
  <1>7. Gdts'
    BY <1>c DEF IInv, Gdts
  <1>8. Passed'
    <2>1. \A d \in CPU : Stopped(d) => Stopped(d)'
      BY <1>c, <1>f DEF Stopped, Silent
    <2>2. \A d \in CPU : d # c /\ (d < next'[c] \/ (d = next'[c] /\ ipi'[c] # 0)) => Stopped(d)'
      <3> SUFFICES ASSUME NEW d \in CPU, d # c, d < next'[c] \/ (d = next'[c] /\ ipi'[c] # 0)
                   PROVE  Stopped(d)'
        OBVIOUS
      <3>1. CASE d < next[c]
        BY <1>a, <2>1, <3>1 DEF IInv, Passed
      <3>2. CASE d = next[c]
        <4>1. ipi[c] # 0 => Stopped(d)
          BY <1>a, <3>2 DEF IInv, Passed
        <4>2. ipi[c] = 0 => d \in init'
          BY <1>e, <3>2
        <4> QED
          BY <1>a, <1>c, <2>1, <4>1, <4>2 DEF Stopped
      <3>3. next'[c] = next[c] \/ next'[c] = next[c] + 1
        BY <1>b, <1>e
      <3>4. next'[c] = next[c] + 1 => ipi'[c] = 0
        BY <1>b, <1>e, <1>g
      <3>5. d < next[c] \/ d = next[c]
        BY <1>b, <3>3, <3>4, BspIsCPU
      <3> QED
        BY <3>1, <3>2, <3>5
    <2>3. \A b, d \in CPU : b # d /\ b # c =>
             /\ pc'[b] = "stop" /\ (d < next'[b] \/ (d = next'[b] /\ ipi'[b] # 0)) => Stopped(d)
             /\ pc'[b] = "print" => Stopped(d)
      BY <1>c, <1>d DEF IInv, Passed
    <2> QED
      BY <1>a, <1>c, <2>1, <2>2, <2>3 DEF Passed
  <1>9. Ipis'
    <2>1. ipi'[c] # 0 => next'[c] = next[c] /\ next[c] # c
      BY <1>b, <1>e, <1>g
    <2> QED
      BY <1>a, <1>b, <1>c, <1>d, <2>1 DEF IInv, Ipis, Silent
  <1> QED
    BY <1>1, <1>2, <1>3, <1>4, <1>5, <1>6, <1>7, <1>8, <1>9 DEF IInv

(* All are. *)
LEMMA PrintHaltInv == ASSUME IInv, NEW c \in CPU, PrintHalt(c) PROVE IInv'
  <1>b. \A d \in CPU : pc'[d] = IF d = c THEN "print" ELSE pc[d]
    BY DEF PrintHalt, IInv, TypeOK
  <1>c. halted # {} /\ pc[c] = "stop" /\ next[c] = NCPU /\ ipi[c] = 0
    BY NCPUAssumption DEF PrintHalt, IInv, Record, Ipis, Silent
  <1>d. UNCHANGED <<user_entry, jmp_code, is_ap, ap_ready, next, ipi, init, startup, halted, gdt_data, gdtr>>
    BY DEF PrintHalt, gdts, ipis
  <1>1. TypeOK'
    BY <1>d DEF PrintHalt, IInv, TypeOK
  <1>2. Record'
    BY <1>b, <1>c, <1>d DEF IInv, Record
  <1>3. Boot'
    <2>1. \A d \in CPU \ {BSP} : pc'[d] \notin {"main", "start_ap", "spin"}
      BY <1>b DEF IInv, Boot
    <2>2. pc'[BSP] = "print" \/ pc'[BSP] = pc[BSP]
      BY <1>b, BspIsCPU
    <2> QED
      BY <1>d, <2>1, <2>2 DEF IInv, Boot
  <1>4. Sent'
    BY <1>b, <1>d DEF IInv, Sent, Early
  <1>5. Turn'
    BY <1>c, <1>d DEF Turn
  <1>6. OneEarly'
    BY <1>b DEF IInv, OneEarly, Early
  <1>7. Gdts'
    BY <1>b, <1>d DEF IInv, Gdts
  <1>8. Passed'
    <2>1. \A d \in CPU : Stopped(d) => Stopped(d)'
      BY <1>b, <1>c, <1>d DEF Stopped, Silent
    <2>2. \A d \in CPU : d < next[c]
      BY <1>c, BspIsCPU
    <2> QED
      BY <1>b, <1>c, <1>d, <2>1, <2>2 DEF IInv, Passed
  <1>9. Ipis'
    BY <1>b, <1>c, <1>d DEF IInv, Ipis, Silent
  <1> QED
    BY <1>1, <1>2, <1>3, <1>4, <1>5, <1>6, <1>7, <1>8, <1>9 DEF IInv

-----------------------------------------------------------------------------
(* An INIT before the first halt() finds its target off; later it leaves   *)
(* its target nothing to run.                                              *)
LEMMA TakeInitInv == ASSUME IInv, NEW c \in CPU, TakeInit(c) PROVE IInv'
  <1>a. c \in init /\ init' = init \ {c}
    BY DEF TakeInit
  <1>b. \A d \in CPU : pc'[d] = IF d = c THEN (IF c = BSP THEN "sipi" ELSE "off") ELSE pc[d]
    BY DEF TakeInit, IInv, TypeOK
  <1>c. UNCHANGED <<user_entry, jmp_code, is_ap, ap_ready, next, ipi, startup, halted, gdt_data, gdtr>>
    BY DEF TakeInit, gdts
  <1>d. halted = {} => c # BSP /\ pc' = pc
    <2> SUFFICES ASSUME halted = {}
                 PROVE  c # BSP /\ pc' = pc
      OBVIOUS
    <2>1. c # BSP /\ pc[c] = "off"
      BY <1>a DEF IInv, Turn
    <2> QED
      BY <2>1 DEF TakeInit, IInv, TypeOK
  <1>1. TypeOK'
    BY <1>a, <1>c DEF TakeInit, IInv, TypeOK
  <1>2. Record'
    BY <1>b, <1>c DEF IInv, Record
  <1>3. Boot'
    BY <1>b, <1>c, <1>d, BspIsCPU DEF IInv, Boot
  <1>4. Sent'
    BY <1>b, <1>c, <1>d DEF IInv, Sent, Early
  <1>5. Turn'
    BY <1>a, <1>c, <1>d DEF IInv, Turn, Waits
  <1>6. OneEarly'
    BY <1>b DEF IInv, OneEarly, Early
  <1>7. Gdts'
    BY <1>b, <1>c DEF IInv, Gdts
  <1>8. Passed'
    <2>1. \A d \in CPU : Stopped(d) => Stopped(d)'
      BY <1>a, <1>b, <1>c DEF Stopped, Silent
    <2> QED
      BY <1>b, <1>c, <2>1 DEF IInv, Passed
  <1>9. Ipis'
    BY <1>b, <1>c, <1>d DEF IInv, Ipis, Silent, Record
  <1> QED
    BY <1>1, <1>2, <1>3, <1>4, <1>5, <1>6, <1>7, <1>8, <1>9 DEF IInv

(* A STARTUP before the first halt() sends the next CPU to the loader or    *)
(* comes too late to matter.                                               *)
LEMMA TakeStartupInv == ASSUME IInv, NEW c \in CPU, TakeStartup(c) PROVE IInv'
  <1>a. c \in startup /\ c \notin init /\ startup' \in SUBSET startup
    BY DEF TakeStartup
  <1>b. \A d \in CPU : pc'[d] = IF d = c /\ pc[c] = "off" THEN "sipi" ELSE pc[d]
    BY DEF TakeStartup, IInv, TypeOK
  <1>c. UNCHANGED <<user_entry, jmp_code, is_ap, ap_ready, next, ipi, init, halted, gdt_data, gdtr>>
    BY DEF TakeStartup, gdts
  <1>1. TypeOK'
    BY <1>a, <1>c DEF TakeStartup, IInv, TypeOK
  <1>2. Record'
    BY <1>b, <1>c DEF IInv, Record
  <1>3. Boot'
    BY <1>b, <1>c, BspIsCPU DEF IInv, Boot
  <1>4. Sent'
    BY <1>a, <1>b, <1>c DEF IInv, Sent, Early
  <1>5. Turn'
    <2> SUFFICES ASSUME halted = {}
                 PROVE  Turn'
      BY <1>c DEF Turn
    <2>1. CASE pc[c] # "off"
      <3>1. pc' = pc
        BY <2>1 DEF TakeStartup, IInv, TypeOK
      <3> QED
        BY <1>a, <1>c, <3>1 DEF IInv, Turn, Waits
    <2>2. CASE pc[c] = "off"
      <3>1. c # BSP /\ user_entry
        BY <1>a, <2>2 DEF IInv, Boot, Turn
      <3>2. c = next[BSP]
        <4>1. ~(c < next[BSP]) /\ ~(c > next[BSP])
          BY <1>a, <2>2, <3>1 DEF IInv, Turn
        <4>2. next[BSP] \in 0 .. NCPU /\ NCPU \in Nat
          BY BspIsCPU, NCPUAssumption DEF IInv, TypeOK
        <4> QED
          BY <4>1, <4>2, BspIsCPU
      <3>3. next[BSP] < NCPU
        BY <3>2, BspIsCPU
      <3>4. Waits
        <4>1. pc[BSP] # "entry"
          BY <3>1, <3>3, NCPUAssumption DEF IInv, Turn
        <4>2. pc[BSP] = "start_ap" => Waits
          BY <1>a, <3>1, <3>2, <3>3 DEF IInv, Turn
        <4> QED
          BY <3>1, <4>1, <4>2 DEF IInv, Turn, Waits
      <3>5. ap_ready = 0
        BY <2>2, <3>1, <3>2, <3>4 DEF IInv, Turn
      <3>6. pc' = [pc EXCEPT ![c] = "sipi"]
        BY <2>2 DEF TakeStartup
      <3>7. "sipi" \in Early \cup {"off", "sipi"} /\ init' \in SUBSET init /\ c \notin init' /\ ap_ready' = 0
        BY <1>a, <1>c, <3>5
      <3> QED
        BY ONLY <1>a, <1>c, <3>1, <3>2, <3>4, <3>6, <3>7, IInv, c \in CPU, TurnKept, Zenon
    <2> QED
      BY <2>1, <2>2
  <1>6. OneEarly'
    BY <1>b DEF IInv, OneEarly, Early
  <1>7. Gdts'
    BY <1>b, <1>c DEF IInv, Gdts
  <1>8. Passed'
    <2>1. \A d \in CPU : Stopped(d) => Stopped(d)'
      BY <1>b, <1>c DEF Stopped, Silent
    <2> QED
      BY <1>b, <1>c, <2>1 DEF IInv, Passed
  <1>9. Ipis'
    BY <1>b, <1>c DEF IInv, Ipis, Silent
  <1> QED
    BY <1>1, <1>2, <1>3, <1>4, <1>5, <1>6, <1>7, <1>8, <1>9 DEF IInv

-----------------------------------------------------------------------------
(* The machine starts in the invariant. *)
LEMMA InitIInv == Init => IInv
  <1> SUFFICES ASSUME Init PROVE IInv
    OBVIOUS
  <1> USE BspIsCPU, NCPUAssumption DEF Init
  <1>1. TypeOK
    <2>1. 0 \in 0 .. NCPU /\ 0 \in 0 .. 2
      OBVIOUS
    <2> QED
      BY <2>1, Zenon DEF TypeOK, gdts, ipis
  <1>2. Record /\ Boot /\ Sent /\ Ipis
    BY DEF Record, Boot, Sent, Early, Ipis
  <1>3. Turn /\ OneEarly /\ Gdts /\ Passed
    BY DEF Turn, OneEarly, Gdts, Passed, Early
  <1> QED
    BY <1>1, <1>2, <1>3 DEF IInv

(* Every step keeps it. *)
LEMMA NextIInv == IInv /\ [Next]_vars => IInv'
  <1> SUFFICES ASSUME IInv, [Next]_vars PROVE IInv'
    OBVIOUS
  <1>1. CASE MpeStep
    BY <1>1, MpeInitInv, StartApInv, SpinInv, CallUserEntryInv DEF MpeStep
  <1>2. CASE \E c \in CPU : BootStep(c)
    BY <1>2, RunJmpCodeInv, LoadKernelInv, StartCInv, SetGdtInv, LgdtInv, OtherCpuReadyInv,
       OtherCpuEntryInv DEF BootStep
  <1>3. CASE \E c \in CPU : Halt(c)
    BY <1>3, HaltInv
  <1>4. CASE \E c \in CPU : StopOne(c) \/ PrintHalt(c) \/ TakeIpi(c)
    BY <1>4, StopOneInv, PrintHaltInv, TakeInitInv, TakeStartupInv DEF TakeIpi
  <1>5. CASE (\E c \in CPU : PowerOff(c)) \/ UNCHANGED vars
    <2>1. /\ UNCHANGED <<pc, user_entry, jmp_code, is_ap, ap_ready, next, halted, gdt_data, gdtr>>
          /\ UNCHANGED <<ipi, init, startup>> /\ power' \in BOOLEAN
      BY <1>5, Zenon DEF PowerOff, vars, gdts, ipis, IInv, TypeOK
    <2> QED
      BY <2>1 DEF IInv, TypeOK, Record, Boot, Sent, Turn, Waits, Ipis, OneEarly, Gdts, Passed, Stopped, Silent
  <1> QED
    BY <1>1, <1>2, <1>3, <1>4, <1>5 DEF Next, HaltStep

(* What it is for. *)
LEMMA IInvImplies == IInv => BootStackExclusive /\ EntryAfterAll /\ WorldStopped
  <1> SUFFICES ASSUME IInv
               PROVE  BootStackExclusive /\ EntryAfterAll /\ WorldStopped
    OBVIOUS
  <1>1. BootStackExclusive
    BY DEF IInv, OneEarly, Early, BootStackExclusive, OnBootStack
  <1>2. pc[BSP] = "entry" /\ halted = {} => \A c \in CPU \ {BSP} : pc[c] \in {"call", "entry"}
    BY BspIsCPU DEF IInv, Turn
  <1>3. EntryAfterAll
    BY <1>2 DEF IInv, Sent, Gdts, EntryAfterAll, NeverAstray
  <1>4. WorldStopped
    BY DEF IInv, Passed, Stopped, WorldStopped
  <1> QED
    BY <1>1, <1>3, <1>4

(* For any number of processors, and however many of them call halt() and   *)
(* when: the invariant holds.                                              *)
THEOREM MpeInvariant == Spec => []IInv
  <1>1. Init => IInv
    BY InitIInv
  <1>2. IInv /\ [Next]_vars => IInv'
    BY NextIInv
  <1> QED
    BY <1>1, <1>2, PTL DEF Spec

(* One boot stack is enough for all of them. *)
THEOREM MpeBootStackExclusive == Spec => []BootStackExclusive
  BY MpeInvariant, IInvImplies, PTL

(* Nobody runs user_entry too early, astray, or on another CPU's GDT. *)
THEOREM MpeEntryAfterAll == Spec => []EntryAfterAll
  BY MpeInvariant, IInvImplies, PTL

(* The CPU that prints the halt message is the only one left, but for those *)
(* on their way out.                                                       *)
THEOREM MpeWorldStopped == Spec => []WorldStopped
  BY MpeInvariant, IInvImplies, PTL

-----------------------------------------------------------------------------
(* The boot block and the start of the kernel.                              *)

\* what Devices does while it looks at the start of x86-qemu
BootSpec == X86BootInit /\ [][X86BootNext]_bvars

Places == {"reset", "args", "segments", "bss", "start", "mp", "panic", "ioapic", "gdt", "lapic", "irq",
           "main", "cte"}
Loads == {"reset", "args", "segments", "bss"}
Counts == {"start", "mp", "panic"}
Machine == [arch : {"i386", "x86_64"}, kernel : Kernels, table : MPTables, mem : MemSizes, ver : {3, 4}]

BootTypes ==
  /\ mach \in Machine /\ bpc \in Places /\ seg \in Nat
  /\ m \in [0..MemTop-1 -> Int] /\ ld \in [cur : Int, ed : Int, sect : Int]
  /\ ncpu \in Nat /\ ptr \in Nat

\* the place in the file where the next sector comes from; the arguments are before its start
FileAt(l) == (l.sect - 1) * SECTSIZE - ARGSIZE
Aligned(a) == \E q \in Int : a = q * SECTSIZE
Copies(l, buf, nbytes, offset) ==
  /\ l.ed = buf + nbytes /\ RoundDown(buf) <= l.cur /\ Aligned(l.cur)
  /\ FileAt(l) = offset + (l.cur - buf)

\* what is being copied
Copying ==
  /\ bpc \in Loads \ {"bss"} => seg <= Len(Phdrs)
  /\ bpc \in {"reset", "args"} => seg = 0
  /\ bpc \notin {"args", "segments", "bss"} => ~Loading
  /\ bpc = "args" => Copies(ld, ArgAddr, ARGSIZE, -ARGSIZE)
  /\ bpc = "segments" /\ Loading => seg = 0 /\ Copies(ld, HdrAddr, HdrSize, 0)
  /\ bpc = "bss" => /\ seg \in 1..Len(Phdrs)
                    /\ Copies(ld, Phdrs[seg].paddr, Phdrs[seg].filesz, Phdrs[seg].offset)

\* what is in memory
InFile(p, a) == FileByte(p.offset + (a - p.paddr))
Segs == CASE bpc \in {"reset", "args"} -> 0
          [] bpc = "segments" -> seg
          [] bpc = "bss" -> seg - 1
          [] OTHER -> Len(Phdrs)
ArgsIn == bpc # "reset" => \A i \in 0..ARGSIZE-1 :
            (bpc = "args" => ArgAddr + i < ld.cur) => m[ArgAddr + i] = ArgByte(i)
HeaderIn == bpc \notin {"reset", "args"} => \A i \in 0..HdrSize-1 :
            (bpc = "segments" /\ Loading => HdrAddr + i < ld.cur) => m[HdrAddr + i] = FileByte(i)
SegmentsIn == \A k \in 1..Segs : \A a \in Bytes(Phdrs[k]) :
                m[a] = IF a \in FileBytes(Phdrs[k]) THEN InFile(Phdrs[k], a) ELSE 0
PartIn == bpc = "bss" => \A a \in FileBytes(Phdrs[seg]) : a < ld.cur => m[a] = InFile(Phdrs[seg], a)
InMemory == ArgsIn /\ HeaderIn /\ SegmentsIn /\ PartIn

\* the heap
HeapBehind ==
  bpc \notin Loads \cup {"start"} =>
    /\ \A i \in DOMAIN Phdrs : \A a \in Bytes(Phdrs[i]) : a < heap.start
    /\ mach.mem >= Reg64K => heap.end = mach.mem

\* the processors among the first i entries of the table, and the words of these entries
Processors(i) == Cardinality({j \in 1..i : mach.table[j] = 0})
WordsOf(i) == 2 * i + 3 * Processors(i)
Counted ==
  /\ bpc \in Loads \cup {"start"} => ncpu = 0 /\ ptr = 0
  /\ bpc = "mp" => \E i \in 0..Len(mach.table) : ptr = WordsOf(i) /\ ncpu = Processors(i)
  /\ bpc = "panic" => Processors(Len(mach.table)) > MAX_CPU
  /\ bpc \notin Loads \cup Counts => ncpu = Processors(Len(mach.table))

\* the local APIC after n of the writes of Lapicws
Written == IF bpc = "lapic" THEN seg ELSE IF bpc \in {"irq", "main", "cte"} THEN 8 ELSE 0
LapicRegs == Lvt \cup {"SVR", "TICR", "TPR"}
Apic ==
  /\ Written \in 0..8 /\ lapic \in [LapicRegs -> [vec : Nat, flags : SUBSET {"MASKED", "ENABLE", "PERIODIC"}]]
  /\ lapic["SVR"] = IF Written < 1 THEN Plain ELSE [vec |-> 63, flags |-> {"ENABLE"}]
  /\ lapic["TIMER"] = IF Written < 2 THEN MaskedLvt ELSE [vec |-> 32, flags |-> {"PERIODIC"}]
  /\ lapic["ERROR"] = IF Written < 7 THEN MaskedLvt ELSE [vec |-> 51, flags |-> {}]
  /\ lapic["LINT0"] = MaskedLvt /\ lapic["LINT1"] = MaskedLvt /\ lapic["PCINT"] = MaskedLvt

Pins ==
  /\ bpc \in {"gdt", "lapic", "irq"} => ioapic = [i \in 0..MaxIntr |-> [on |-> FALSE, vec |-> 32 + i, cpu |-> 0]]
  /\ bpc \in {"main", "cte"} => ioapic = [i \in 0..MaxIntr |-> [on |-> i \in {1, 4}, vec |-> 32 + i, cpu |-> 0]]

Tables ==
  /\ bpc \in {"lapic", "irq", "main", "cte"} => gdt = Gdt
  /\ bpc = "cte" => \A v \in 0..255 :
       idt[v] = IF v \in IRQS THEN GATE(IrqStub(v), IF v \in UserIRQS THEN DPL_USER ELSE DPL_KERN)
                ELSE GATE(IrqStubAll, DPL_KERN)

\* seg counts the writes to the local APIC anew
Resting == bpc = "gdt" => seg = 0

BootInv == BootTypes /\ Resting /\ Copying /\ InMemory /\ HeapBehind /\ Counted /\ Apic /\ Pins /\ Tables

-----------------------------------------------------------------------------
(* Arithmetic.                                                              *)

LEMMA DivMod ==
  ASSUME NEW a \in Int, NEW n \in Nat \ {0}
  PROVE  /\ a % n \in 0 .. n-1 /\ a \div n \in Int /\ a = n * (a \div n) + (a % n)
  BY Z3

LEMMA Times ==
  ASSUME NEW n \in Nat \ {0}, NEW p \in Int, NEW q \in Int
  PROVE  /\ p * n \in Int /\ (p <= q => p * n <= q * n) /\ (p * n < q * n => p < q)
         /\ (p + 1) * n = p * n + n /\ (p + q) * n = p * n + q * n
<1>1. (p + 1) * n = p * n + n /\ (p + q) * n = p * n + q * n /\ p * n \in Int BY Z3
<1>2. ASSUME NEW a \in Int, NEW b \in Int, a <= b PROVE a * n <= b * n
  <2>1. (b - a) * n >= 0 BY <1>2, Z3
  <2>2. (b - a) * n = b * n - a * n BY Z3
  <2> QED BY <2>1, <2>2, Z3
<1>3. p * n < q * n => p < q
  <2> SUFFICES ASSUME p * n < q * n, q <= p PROVE FALSE BY Z3
  <2>1. q * n <= p * n BY <1>2
  <2> QED BY <2>1, Z3
<1> QED BY <1>1, <1>2, <1>3

LEMMA UpTo ==
  ASSUME NEW n \in Nat, NEW S, 0 \in S, \A d \in 0..n-1 : d \in S => d + 1 \in S
  PROVE  0..n \subseteq S
<1> SUFFICES ASSUME (0..n) \ S # {} PROVE FALSE OBVIOUS
<1> DEFINE R == OpToRel(<, Nat)
           T == (0..n) \ S
<1>1. IsWellFoundedOn(R, Nat) BY NatLessThanWellFounded, Zenon
<1>2. \A x, y \in Nat : x < y => <<x, y>> \in R BY DEF OpToRel
<1>3. T \in SUBSET Nat /\ T # {} OBVIOUS
<1> HIDE DEF R
<1>4. PICK x \in T : \A y \in T : <<y, x>> \notin R
  <2> HIDE DEF T
  <2> QED BY <1>1, <1>3, WFMin, Zenon
<1>5. x # 0 /\ x - 1 \in 0..n-1 /\ (x - 1) + 1 = x OBVIOUS
<1>6. x - 1 \in T BY <1>5
<1>7. x - 1 < x /\ x - 1 \in Nat /\ x \in Nat BY <1>5
<1> QED BY <1>2, <1>4, <1>6, <1>7

\* a set of numbers below n has a largest one
LEMMA Largest ==
  ASSUME NEW n \in Nat, NEW S \in SUBSET (0..n), S # {}
  PROVE  \E a \in S : \A b \in S : b <= a
<1> DEFINE R == OpToRel(<, Nat)
           T == {d \in 0..n : n - d \in S}
<1>1. IsWellFoundedOn(R, Nat) BY NatLessThanWellFounded, Zenon
<1>2. \A x, y \in Nat : x < y => <<x, y>> \in R BY DEF OpToRel
<1>3. T \in SUBSET Nat /\ T # {}
  <2>1. PICK a \in S : TRUE OBVIOUS
  <2>2. n - a \in 0..n /\ n - (n - a) = a OBVIOUS
  <2> QED BY <2>1, <2>2
<1> HIDE DEF R
<1>4. PICK x \in T : \A y \in T : <<y, x>> \notin R
  <2> HIDE DEF T
  <2> QED BY <1>1, <1>3, WFMin, Zenon
<1>5. ASSUME NEW b \in S PROVE b <= n - x
  <2>1. n - b \in 0..n /\ n - (n - b) = b OBVIOUS
  <2>2. n - b \in T BY <2>1
  <2>3. n - b \in Nat /\ x \in Nat BY <2>1
  <2>4. ~(n - b < x) BY <1>2, <1>4, <2>2, <2>3
  <2> QED BY <2>1, <2>3, <2>4
<1> QED BY <1>4, <1>5

-----------------------------------------------------------------------------
(* Sectors.                                                                 *)

LEMMA BootConstants ==
  /\ SECTSIZE \in Nat \ {0} /\ ARGSIZE \in Nat /\ HdrAddr \in Nat /\ HdrSize \in Nat
  /\ ArgAddr \in Nat /\ MemTop \in Nat
  /\ HdrAddr + HdrSize <= ArgAddr /\ ArgAddr + ARGSIZE <= MemTop
BY X86BootAssumption

LEMMA AlignedFact ==
  ASSUME NEW a \in Int, NEW b \in Int, Aligned(a)
  PROVE  /\ Aligned(a + SECTSIZE)
         /\ Aligned(b) /\ a < b => a + SECTSIZE <= b
<1>1. PICK q \in Int : a = q * SECTSIZE BY DEF Aligned
<1>2. (q + 1) * SECTSIZE = a + SECTSIZE /\ q + 1 \in Int BY <1>1, Times, BootConstants
<1>3. ASSUME Aligned(b), a < b PROVE a + SECTSIZE <= b
  <2>1. PICK r \in Int : b = r * SECTSIZE BY <1>3 DEF Aligned
  <2>2. q < r BY <1>1, <1>3, <2>1, Times, BootConstants
  <2>3. q + 1 <= r /\ q + 1 \in Int BY <2>2
  <2>4. (q + 1) * SECTSIZE <= r * SECTSIZE BY <2>3, Times, BootConstants
  <2> QED BY <1>2, <2>1, <2>4
<1>4. Aligned(a + SECTSIZE) BY <1>2 DEF Aligned
<1> QED BY <1>3, <1>4

LEMMA RoundFact ==
  ASSUME NEW a \in Int
  PROVE  /\ RoundDown(a) \in Int /\ Aligned(RoundDown(a))
         /\ RoundDown(a) <= a /\ a < RoundDown(a) + SECTSIZE
         /\ a % SECTSIZE \in Int /\ a = RoundDown(a) + (a % SECTSIZE)
<1> DEFINE q == a \div SECTSIZE
           r == a % SECTSIZE
<1>1. r \in 0 .. SECTSIZE-1 /\ q \in Int /\ a = SECTSIZE * q + r BY DivMod, BootConstants
<1>2. RoundDown(a) = q * SECTSIZE BY DEF RoundDown
<1> HIDE DEF q, r
<1>3. q * SECTSIZE = SECTSIZE * q /\ q * SECTSIZE \in Int BY <1>1, BootConstants, Z3
<1>4. Aligned(RoundDown(a)) BY <1>1, <1>2 DEF Aligned
<1>5. RoundDown(a) \in Int /\ a = RoundDown(a) + r /\ r \in 0..SECTSIZE-1 BY <1>1, <1>2, <1>3
<1>6. RoundDown(a) <= a /\ a < RoundDown(a) + SECTSIZE BY <1>5, BootConstants
<1> QED BY <1>4, <1>5, <1>6 DEF r

LEMMA RoundAligned ==
  ASSUME NEW a \in Int, Aligned(a) PROVE RoundDown(a) = a
<1>1. /\ RoundDown(a) \in Int /\ Aligned(RoundDown(a))
      /\ RoundDown(a) <= a /\ a < RoundDown(a) + SECTSIZE BY RoundFact
<1>2. RoundDown(a) < a => RoundDown(a) + SECTSIZE <= a BY <1>1, AlignedFact
<1> QED BY <1>1, <1>2, BootConstants

\* the places that are whole sectors
LEMMA WholeSectors ==
  /\ Aligned(HdrAddr) /\ Aligned(ArgAddr) /\ Aligned(ARGSIZE) /\ Aligned(-ARGSIZE) /\ Aligned(0)
  /\ Aligned(ArgAddr + ARGSIZE)
<1>1. ASSUME NEW a \in Int, a % SECTSIZE = 0 PROVE Aligned(a)
  <2>1. RoundDown(a) \in Int /\ Aligned(RoundDown(a)) /\ a = RoundDown(a) + (a % SECTSIZE) BY RoundFact
  <2>2. a = RoundDown(a) BY <1>1, <2>1
  <2> QED BY <2>1, <2>2
<1>2. Aligned(HdrAddr) /\ Aligned(ArgAddr) /\ Aligned(ARGSIZE)
  BY <1>1, BootConstants, X86BootAssumption
<1>3. PICK q \in Int, r \in Int : ARGSIZE = q * SECTSIZE /\ ArgAddr = r * SECTSIZE BY <1>2 DEF Aligned
<1>4. (-q) * SECTSIZE = -ARGSIZE /\ -q \in Int BY <1>3, BootConstants, Z3
<1>5. (r + q) * SECTSIZE = ArgAddr + ARGSIZE /\ r + q \in Int BY <1>3, Times, BootConstants
<1>6. 0 * SECTSIZE = 0 BY BootConstants, Z3
<1> QED BY <1>2, <1>4, <1>5, <1>6 DEF Aligned

\* a copy begins with the sector of its first byte
LEMMA CopyBegins ==
  ASSUME NEW buf \in Int, NEW nbytes \in Int, NEW offset \in Int,
         buf - RoundDown(buf) = offset - RoundDown(offset),
         copy_from_disk(buf, nbytes, offset)
  PROVE  ~Loading /\ ld' \in [cur : Int, ed : Int, sect : Int] /\ Copies(ld', buf, nbytes, offset)
         /\ ld'.cur = RoundDown(buf)
<1> DEFINE p == offset \div SECTSIZE
           q == ARGSIZE \div SECTSIZE
<1>1. p \in Int /\ q \in Int BY DivMod, BootConstants
<1>2. p * SECTSIZE = RoundDown(offset) /\ q * SECTSIZE = RoundDown(ARGSIZE) BY DEF RoundDown
<1>3. RoundDown(ARGSIZE) = ARGSIZE BY RoundAligned, WholeSectors, BootConstants
<1>4. ~Loading /\ ld' = [cur |-> RoundDown(buf), ed |-> buf + nbytes, sect |-> p + q + 1]
  BY DEF copy_from_disk
<1> HIDE DEF p, q
<1>5. RoundDown(buf) \in Int /\ Aligned(RoundDown(buf)) /\ RoundDown(offset) \in Int BY RoundFact
<1>6. ld'.cur = RoundDown(buf) /\ ld'.ed = buf + nbytes /\ ld'.sect = p + q + 1 BY <1>4
<1>7. ld'.sect - 1 = p + q BY <1>1, <1>6
<1>8. (p + q) * SECTSIZE = p * SECTSIZE + q * SECTSIZE BY <1>1, Times, BootConstants
<1>9. FileAt(ld') = RoundDown(offset)
  <2>1. (ld'.sect - 1) * SECTSIZE = RoundDown(offset) + ARGSIZE BY <1>2, <1>3, <1>7, <1>8
  <2> QED BY <2>1, <1>5, BootConstants DEF FileAt
<1>10. Copies(ld', buf, nbytes, offset) BY <1>5, <1>6, <1>9 DEF Copies
<1>11. ld' \in [cur : Int, ed : Int, sect : Int] BY <1>1, <1>4, <1>5
<1> QED BY <1>4, <1>6, <1>10, <1>11

\* and goes on sector by sector
LEMMA CopyGoesOn ==
  ASSUME NEW buf \in Int, NEW nbytes \in Int, NEW offset \in Int,
         ld \in [cur : Int, ed : Int, sect : Int], Copies(ld, buf, nbytes, offset), read_disk
  PROVE  /\ ld' \in [cur : Int, ed : Int, sect : Int] /\ Copies(ld', buf, nbytes, offset)
         /\ ld'.cur = ld.cur + SECTSIZE
<1>1. ld' = [cur |-> ld.cur + SECTSIZE, ed |-> ld.ed, sect |-> ld.sect + 1] BY DEF read_disk
<1>2. ld'.cur = ld.cur + SECTSIZE /\ ld'.ed = ld.ed /\ ld'.sect = ld.sect + 1 BY <1>1
<1>3. ld.cur \in Int /\ ld.sect \in Int /\ ld.ed \in Int /\ RoundDown(buf) \in Int BY RoundFact
<1>4. (ld.sect - 1 + 1) * SECTSIZE = (ld.sect - 1) * SECTSIZE + SECTSIZE
      /\ (ld.sect - 1) * SECTSIZE \in Int
  <2>1. ld.sect - 1 \in Int BY <1>3
  <2> QED BY <2>1, Times, BootConstants
<1>5. ld'.sect - 1 = ld.sect - 1 + 1 BY <1>2, <1>3
<1>6. FileAt(ld') = FileAt(ld) + SECTSIZE BY <1>4, <1>5, BootConstants DEF FileAt
<1>7. Aligned(ld.cur + SECTSIZE) BY <1>3, AlignedFact DEF Copies
<1>8. Copies(ld', buf, nbytes, offset)
  <2>1. ld'.ed = buf + nbytes BY <1>2 DEF Copies
  <2>2. RoundDown(buf) <= ld'.cur BY <1>2, <1>3, BootConstants DEF Copies
  <2>3. FileAt(ld') = offset + (ld'.cur - buf) BY <1>2, <1>3, <1>6, BootConstants DEF Copies
  <2> QED BY <1>2, <1>7, <2>1, <2>2, <2>3 DEF Copies
<1>9. ld' \in [cur : Int, ed : Int, sect : Int] BY <1>1, <1>3, BootConstants
<1> QED BY <1>2, <1>8, <1>9

\* what a sector brings to a place in memory
LEMMA SectorByte ==
  ASSUME NEW buf \in Int, NEW nbytes \in Int, NEW offset \in Int, NEW a \in 0..MemTop-1,
         ld \in [cur : Int, ed : Int, sect : Int], m \in [0..MemTop-1 -> Int],
         Copies(ld, buf, nbytes, offset), read_disk
  PROVE  /\ a \notin ld.cur .. ld.cur + SECTSIZE - 1 => m'[a] = m[a]
         /\ a \in ld.cur .. ld.cur + SECTSIZE - 1 /\ offset + (a - buf) < 0
              => m'[a] = ArgByte(offset + (a - buf) + ARGSIZE)
         /\ a \in ld.cur .. ld.cur + SECTSIZE - 1 /\ offset + (a - buf) >= 0
              => m'[a] = FileByte(offset + (a - buf))
<1>1. m'[a] = IF a \in ld.cur .. ld.cur + SECTSIZE - 1 THEN DiskByte(ld.sect, a - ld.cur) ELSE m[a]
  BY DEF read_disk
<1>2. ld.cur \in Int /\ ld.sect \in Int BY DEF Copies
<1>3. (ld.sect - 1) * SECTSIZE \in Int
  <2>1. ld.sect - 1 \in Int BY <1>2
  <2> QED BY <2>1, Times, BootConstants
<1> DEFINE place == (ld.sect - 1) * SECTSIZE
           o == place + (a - ld.cur)
<1>4. place \in Int /\ place - ARGSIZE = offset + (ld.cur - buf) BY <1>3 DEF Copies, FileAt
<1>5. o = offset + (a - buf) + ARGSIZE
  <2>1. PICK x \in Int, c \in Int : x = place /\ c = ld.cur BY <1>2, <1>4
  <2>2. o = x + (a - c) BY <2>1
  <2>3. x - ARGSIZE = offset + (c - buf) BY <1>4, <2>1
  <2> HIDE DEF o
  <2> QED BY <2>2, <2>3, BootConstants
<1>6. DiskByte(ld.sect, a - ld.cur) = IF o < ARGSIZE THEN ArgByte(o) ELSE FileByte(o - ARGSIZE) BY DEF DiskByte
<1> HIDE DEF o
<1>7. offset + (a - buf) \in Int OBVIOUS
<1>8. o < ARGSIZE <=> offset + (a - buf) < 0 BY <1>5, <1>7, BootConstants
<1>9. o - ARGSIZE = offset + (a - buf) BY <1>5, <1>7, BootConstants
<1> QED BY <1>1, <1>5, <1>6, <1>7, <1>8, <1>9

-----------------------------------------------------------------------------
(* The segments of a kernel.                                                *)

LEMMA KernelFact ==
  ASSUME mach \in Machine
  PROVE  /\ Phdrs \in Seq(Segment) /\ Linked(Phdrs) /\ Len(Phdrs) \in Nat /\ DOMAIN Phdrs = 1..Len(Phdrs)
         /\ \A k \in 1..Len(Phdrs) : Phdrs[k] \in Segment
<1>1. mach.kernel \in Kernels BY DEF Machine
<1>2. Phdrs \in Seq(Segment) /\ Linked(Phdrs) BY <1>1, X86BootAssumption DEF Phdrs
<1> QED BY <1>2

LEMMA SegmentFact ==
  ASSUME mach \in Machine, NEW k \in 1..Len(Phdrs)
  PROVE  LET p == Phdrs[k] IN
         /\ p \in Segment /\ FileBytes(p) \subseteq Bytes(p)
         /\ p.paddr - RoundDown(p.paddr) = p.offset - RoundDown(p.offset)
         /\ \A a \in Covered(p) \cup Bytes(p) : a >= ArgAddr + ARGSIZE /\ a < MemTop
         /\ \A a \in Bytes(p) : a \in 0..MemTop-1 /\ p.offset + (a - p.paddr) >= 0
<1> DEFINE p == Phdrs[k]
<1>1. p \in Segment /\ k \in DOMAIN Phdrs BY KernelFact
<1>2. p.paddr \in Nat /\ p.offset \in Nat /\ p.filesz \in Nat /\ p.memsz \in Nat BY <1>1 DEF Segment
<1>3. /\ p.filesz <= p.memsz /\ p.offset % SECTSIZE = p.paddr % SECTSIZE
      /\ \A a \in Covered(p) \cup Bytes(p) : a >= ArgAddr + ARGSIZE /\ a < MemTop
  BY <1>1, KernelFact DEF Linked
<1> HIDE DEF p
<1>4. FileBytes(p) \subseteq Bytes(p)
  <2>1. PICK x \in Nat, f \in Nat, n \in Nat : x = p.paddr /\ f = p.filesz /\ n = p.memsz BY <1>2, Zenon
  <2>2. x .. x + f - 1 \subseteq x .. x + n - 1 BY <1>3, <2>1, SMTT(60)
  <2> QED BY <2>1, <2>2, Zenon DEF FileBytes, Bytes
<1>8. p.paddr \in Int /\ p.offset \in Int BY <1>2
<1>5. p.paddr - RoundDown(p.paddr) = p.offset - RoundDown(p.offset)
  <2>1. /\ RoundDown(p.paddr) \in Int /\ p.paddr % SECTSIZE \in Int
        /\ p.paddr = RoundDown(p.paddr) + (p.paddr % SECTSIZE) BY <1>8, RoundFact, Zenon
  <2>2. /\ RoundDown(p.offset) \in Int
        /\ p.offset = RoundDown(p.offset) + (p.offset % SECTSIZE) BY <1>8, RoundFact, Zenon
  <2>3. PICK r \in Int : r = p.paddr % SECTSIZE /\ r = p.offset % SECTSIZE BY <1>3, <2>1
  <2> QED BY <2>1, <2>2, <2>3
<1>6. \A a \in Bytes(p) : a \in Int /\ a >= p.paddr BY <1>2 DEF Bytes
<1>7. \A a \in Bytes(p) : a \in 0..MemTop-1 /\ p.offset + (a - p.paddr) >= 0
  <2> SUFFICES ASSUME NEW a \in Bytes(p) PROVE a \in 0..MemTop-1 /\ p.offset + (a - p.paddr) >= 0 OBVIOUS
  <2>1. PICK x \in Nat, o \in Nat : x = p.paddr /\ o = p.offset BY <1>2, Zenon
  <2>2. a \in Int /\ a >= x /\ a >= ArgAddr + ARGSIZE /\ a < MemTop BY <1>3, <1>6, <2>1
  <2>3. a \in 0..MemTop-1 /\ o + (a - x) >= 0 BY <2>2, BootConstants
  <2> QED BY <2>1, <2>3, Zenon
<1> QED BY <1>1, <1>3, <1>4, <1>5, <1>7 DEF p

\* a sector that is copied for a segment is one that Linked speaks of
LEMMA CopiesCovered ==
  ASSUME mach \in Machine, NEW k \in 1..Len(Phdrs), ld \in [cur : Int, ed : Int, sect : Int], Loading,
         Copies(ld, Phdrs[k].paddr, Phdrs[k].filesz, Phdrs[k].offset)
  PROVE  ld.cur .. ld.cur + SECTSIZE - 1 \subseteq Covered(Phdrs[k])
<1> DEFINE p == Phdrs[k]
<1>1. p \in Segment BY SegmentFact
<1>2. p.paddr \in Nat /\ p.filesz \in Nat BY <1>1 DEF Segment
<1>3. /\ ld.ed = p.paddr + p.filesz /\ RoundDown(p.paddr) <= ld.cur /\ Aligned(ld.cur)
      /\ ld.cur < ld.ed /\ ld.cur \in Int BY DEF Copies, Loading
<1> HIDE DEF p
<1>4. /\ RoundDown(p.paddr) \in Int /\ Aligned(RoundDown(p.paddr))
      /\ RoundDown(p.paddr) <= p.paddr /\ p.paddr < RoundDown(p.paddr) + SECTSIZE
  <2>1. p.paddr \in Int BY <1>2
  <2> QED BY <2>1, RoundFact, Zenon
<1>5. RoundDown(ld.cur) = ld.cur BY <1>3, RoundAligned
<1>6. ld.cur \in Sectors(p)
  <2>1. CASE ld.cur >= p.paddr
    <3>1. ld.cur \in FileBytes(p) BY <1>2, <1>3, <2>1 DEF FileBytes
    <3> QED BY <3>1, <1>5 DEF Sectors
  <2>2. CASE ld.cur < p.paddr
    <3>1. RoundDown(p.paddr) < ld.cur => RoundDown(p.paddr) + SECTSIZE <= ld.cur
      BY <1>3, <1>4, AlignedFact
    <3>2. ld.cur = RoundDown(p.paddr) BY <1>2, <1>3, <1>4, <2>2, <3>1, BootConstants
    <3>3. p.paddr % SECTSIZE # 0
      <4>1. p.paddr \in Int BY <1>2
      <4>2. p.paddr = RoundDown(p.paddr) + (p.paddr % SECTSIZE) BY <4>1, RoundFact, Zenon
      <4>3. p.paddr # RoundDown(p.paddr) + 0 BY <1>2, <1>4, <2>2, <3>2
      <4> QED BY <4>2, <4>3, Zenon
    <3> QED BY <3>2, <3>3 DEF Sectors
  <2> QED BY <1>2, <1>3, <2>1, <2>2
<1> QED BY <1>6 DEF p, Covered

LEMMA OtherSegment ==
  ASSUME mach \in Machine, NEW k \in 1..Len(Phdrs), NEW j \in 1..Len(Phdrs), k < j
  PROVE  /\ \A a \in Bytes(Phdrs[k]) : a \notin Bytes(Phdrs[j])
         /\ \A a \in Bytes(Phdrs[k]) \cap Covered(Phdrs[j]) :
              a \in FileBytes(Phdrs[k]) /\ InFile(Phdrs[j], a) = InFile(Phdrs[k], a)
              /\ Phdrs[j].offset + (a - Phdrs[j].paddr) >= 0
<1>1. k \in DOMAIN Phdrs /\ j \in DOMAIN Phdrs /\ Phdrs[k] \in Segment /\ Phdrs[j] \in Segment
  BY KernelFact
<1> DEFINE p == Phdrs[k]
           q == Phdrs[j]
<1>2. /\ p.paddr \in Nat /\ p.offset \in Nat /\ p.filesz \in Nat /\ p.memsz \in Nat
      /\ q.paddr \in Nat /\ q.offset \in Nat BY <1>1 DEF Segment
<1>3. /\ \A a \in Bytes(p), b \in Bytes(q) : a < b
      /\ Covered(q) \cap Bytes(p) # {} => p.memsz = p.filesz /\ q.offset - q.paddr = p.offset - p.paddr
  BY <1>1, KernelFact DEF Linked
<1>4. \A a \in Bytes(p) : a \in Int /\ p.offset + (a - p.paddr) >= 0
  BY <1>1, SegmentFact
<1> HIDE DEF p, q
<1>5. \A a \in Bytes(p) : a \notin Bytes(q)
  <2> SUFFICES ASSUME NEW a \in Bytes(p), a \in Bytes(q) PROVE FALSE OBVIOUS
  <2>1. a < a BY <1>3
  <2>2. a \in Int BY <1>4
  <2> QED BY <2>1, <2>2
<1>6. ASSUME NEW a \in Bytes(p) \cap Covered(q)
      PROVE  a \in FileBytes(p) /\ InFile(q, a) = InFile(p, a) /\ q.offset + (a - q.paddr) >= 0
  <2>1. p.memsz = p.filesz /\ q.offset - q.paddr = p.offset - p.paddr BY <1>3
  <2>2. a \in FileBytes(p) BY <2>1 DEF FileBytes, Bytes
  <2>3. a \in Int /\ p.offset + (a - p.paddr) >= 0 BY <1>4
  <2>4. q.offset + (a - q.paddr) = p.offset + (a - p.paddr)
    <3>1. PICK w \in Int, x \in Int, y \in Int, z \in Int :
            w = p.offset /\ x = p.paddr /\ y = q.offset /\ z = q.paddr BY <1>2
    <3>2. y - z = w - x BY <2>1, <3>1
    <3>3. y + (a - z) = w + (a - x) BY <2>3, <3>2
    <3> QED BY <3>1, <3>3
  <2> QED BY <2>2, <2>3, <2>4 DEF InFile
<1> QED BY <1>5, <1>6 DEF p, q

-----------------------------------------------------------------------------
(* The steps of the boot block.                                             *)

LEMMA Read ==
  ASSUME BootTypes, Copying, InMemory, read_disk
  PROVE  BootTypes' /\ Copying' /\ InMemory'
<1>1. /\ Loading /\ UNCHANGED <<mach, bpc, seg, ncpu, ptr>>
      /\ m' = [a \in DOMAIN m |-> IF a \in ld.cur .. ld.cur + SECTSIZE - 1
                                  THEN DiskByte(ld.sect, a - ld.cur) ELSE m[a]]
  BY DEF read_disk
<1>2. /\ mach \in Machine /\ ld \in [cur : Int, ed : Int, sect : Int] /\ m \in [0..MemTop-1 -> Int]
      /\ ld.cur \in Int /\ ld.ed \in Int /\ ld.cur < ld.ed
  BY <1>1 DEF BootTypes, Loading
<1>3. Phdrs' = Phdrs BY <1>1 DEF Phdrs
<1>4. bpc \in {"args", "segments", "bss"} BY <1>1 DEF Copying
<1>5. PICK buf \in Int, nbytes \in Int, offset \in Int :
        /\ Copies(ld, buf, nbytes, offset)
        /\ bpc = "args" => buf = ArgAddr /\ nbytes = ARGSIZE /\ offset = -ARGSIZE
        /\ bpc = "segments" => buf = HdrAddr /\ nbytes = HdrSize /\ offset = 0
        /\ bpc = "bss" => buf = Phdrs[seg].paddr /\ nbytes = Phdrs[seg].filesz /\ offset = Phdrs[seg].offset
  <2>1. CASE bpc = "args" BY <2>1, BootConstants DEF Copying
  <2>2. CASE bpc = "segments" BY <2>2, <1>1, BootConstants DEF Copying
  <2>3. CASE bpc = "bss"
    <3>1. seg \in 1..Len(Phdrs) /\ Copies(ld, Phdrs[seg].paddr, Phdrs[seg].filesz, Phdrs[seg].offset)
      BY <2>3 DEF Copying
    <3>2. Phdrs[seg] \in Segment BY <1>2, <3>1, KernelFact
    <3> QED BY <2>3, <3>1, <3>2 DEF Segment
  <2> QED BY <1>4, <2>1, <2>2, <2>3
<1>6. /\ ld' \in [cur : Int, ed : Int, sect : Int] /\ Copies(ld', buf, nbytes, offset)
      /\ ld'.cur = ld.cur + SECTSIZE
  BY <1>2, <1>5, CopyGoesOn
<1>7. BootTypes'
  <2>1. m' \in [0..MemTop-1 -> Int]
    <3>1. \A a \in 0..MemTop-1 : m'[a] \in Int
      <4> TAKE a \in 0..MemTop-1
      <4>1. /\ a \notin ld.cur .. ld.cur + SECTSIZE - 1 => m'[a] = m[a]
            /\ a \in ld.cur .. ld.cur + SECTSIZE - 1 /\ offset + (a - buf) < 0
                 => m'[a] = ArgByte(offset + (a - buf) + ARGSIZE)
            /\ a \in ld.cur .. ld.cur + SECTSIZE - 1 /\ offset + (a - buf) >= 0
                 => m'[a] = FileByte(offset + (a - buf))
        BY <1>2, <1>5, SectorByte
      <4>2. ArgByte(offset + (a - buf) + ARGSIZE) \in Int /\ FileByte(offset + (a - buf)) \in Int
        BY BootConstants DEF ArgByte, FileByte
      <4>3. m[a] \in Int /\ offset + (a - buf) \in Int BY <1>2
      <4> QED BY <4>1, <4>2, <4>3
    <3> QED BY <1>1, <1>2, <3>1
  <2> QED BY <1>1, <1>6, <2>1 DEF BootTypes
<1>8. Copying'
  <2>1. bpc = "segments" => seg = 0 BY <1>1 DEF Copying
  <2>2. bpc = "bss" => seg \in 1..Len(Phdrs) BY DEF Copying
  <2>3. bpc = "bss" => Copies(ld', Phdrs[seg].paddr, Phdrs[seg].filesz, Phdrs[seg].offset) BY <1>5, <1>6
  <2>4. bpc = "args" => Copies(ld', ArgAddr, ARGSIZE, -ARGSIZE) BY <1>5, <1>6
  <2>5. bpc = "segments" => Copies(ld', HdrAddr, HdrSize, 0) BY <1>5, <1>6
  <2>6. (bpc \in Loads \ {"bss"} => seg <= Len(Phdrs)) /\ (bpc \in {"reset", "args"} => seg = 0) BY DEF Copying
  <2> QED BY <1>1, <1>3, <1>4, <2>1, <2>2, <2>3, <2>4, <2>5, <2>6, Zenon DEF Copying
<1>9. \A a \in 0..MemTop-1 :
        /\ a \notin ld.cur .. ld.cur + SECTSIZE - 1 => m'[a] = m[a]
        /\ a \in ld.cur .. ld.cur + SECTSIZE - 1 /\ offset + (a - buf) < 0
             => m'[a] = ArgByte(offset + (a - buf) + ARGSIZE)
        /\ a \in ld.cur .. ld.cur + SECTSIZE - 1 /\ offset + (a - buf) >= 0
             => m'[a] = FileByte(offset + (a - buf))
  BY <1>2, <1>5, SectorByte
<1>10. bpc # "args" => Segs' = Segs /\ Segs \in Nat /\ Segs <= Len(Phdrs) /\ (bpc = "segments" => Segs = 0)
                       /\ (bpc = "bss" => Segs = seg - 1)
  <2>1. Segs' = Segs BY <1>1, <1>3 DEF Segs
  <2>2. Len(Phdrs) \in Nat BY <1>2, KernelFact
  <2>3. bpc = "segments" => seg = 0 BY <1>1 DEF Copying
  <2>4. bpc = "bss" => seg \in 1..Len(Phdrs) BY DEF Copying
  <2> QED BY <1>4, <2>1, <2>2, <2>3, <2>4 DEF Segs
<1>11. CASE bpc = "args"
  <2>1. ASSUME NEW i \in 0..ARGSIZE-1, ArgAddr + i < ld'.cur PROVE m'[ArgAddr + i] = ArgByte(i)
    <3>1. ArgAddr + i \in 0..MemTop-1 BY BootConstants
    <3>2. buf = ArgAddr /\ offset = -ARGSIZE BY <1>5, <1>11
    <3>3. offset + ((ArgAddr + i) - buf) < 0 /\ offset + ((ArgAddr + i) - buf) + ARGSIZE = i
      BY <3>2, BootConstants
    <3>4. CASE ArgAddr + i < ld.cur
      <4>1. m[ArgAddr + i] = ArgByte(i) BY <1>11, <3>4 DEF InMemory, ArgsIn
      <4>2. ArgAddr + i \notin ld.cur .. ld.cur + SECTSIZE - 1 BY <1>2, <3>4
      <4> QED BY <1>9, <3>1, <4>1, <4>2
    <3>5. CASE ArgAddr + i >= ld.cur
      <4>1. ArgAddr + i \in ld.cur .. ld.cur + SECTSIZE - 1 BY <1>2, <1>6, <2>1, <3>5, BootConstants
      <4> QED BY <1>9, <3>1, <3>3, <4>1
    <3> QED BY <1>2, <3>4, <3>5, BootConstants
  <2>2. ArgsIn' BY <1>1, <1>11, <2>1 DEF ArgsIn
  <2>3. HeaderIn' /\ PartIn' BY <1>1, <1>11 DEF HeaderIn, PartIn
  <2>4. SegmentsIn' BY <1>1, <1>11 DEF SegmentsIn, Segs
  <2> QED BY <1>7, <1>8, <2>2, <2>3, <2>4 DEF InMemory
<1>12. CASE bpc = "segments"
  <2>1. buf = HdrAddr /\ nbytes = HdrSize /\ offset = 0 BY <1>5, <1>12
  <2>2. ld.cur + SECTSIZE <= ArgAddr
    <3>1. ld.ed = buf + nbytes /\ Aligned(ld.cur) BY <1>5 DEF Copies
    <3>2. ld.cur < ArgAddr BY <1>2, <2>1, <3>1, BootConstants
    <3> QED BY <1>2, <3>1, <3>2, AlignedFact, WholeSectors, BootConstants, SMTT(60)
  <2>3. ArgsIn'
    <3>1. ASSUME NEW i \in 0..ARGSIZE-1 PROVE m'[ArgAddr + i] = ArgByte(i)
      <4>1. ArgAddr + i \in 0..MemTop-1 BY BootConstants
      <4>2. ArgAddr + i \notin ld.cur .. ld.cur + SECTSIZE - 1 BY <1>2, <2>2, BootConstants
      <4>3. m[ArgAddr + i] = ArgByte(i) BY <1>12 DEF InMemory, ArgsIn
      <4> QED BY <1>9, <4>1, <4>2, <4>3
    <3> QED BY <3>1 DEF ArgsIn
  <2>4. ASSUME NEW i \in 0..HdrSize-1, HdrAddr + i < ld'.cur PROVE m'[HdrAddr + i] = FileByte(i)
    <3>1. HdrAddr + i \in 0..MemTop-1 BY BootConstants
    <3>2. offset + ((HdrAddr + i) - buf) = i /\ i >= 0 BY <2>1, BootConstants
    <3>3. CASE HdrAddr + i < ld.cur
      <4>1. m[HdrAddr + i] = FileByte(i) BY <1>12, <3>3 DEF InMemory, HeaderIn
      <4>2. HdrAddr + i \notin ld.cur .. ld.cur + SECTSIZE - 1 BY <1>2, <3>3
      <4> QED BY <1>9, <3>1, <4>1, <4>2
    <3>4. CASE HdrAddr + i >= ld.cur
      <4>1. HdrAddr + i \in ld.cur .. ld.cur + SECTSIZE - 1 BY <1>2, <1>6, <2>4, <3>4, BootConstants
      <4> QED BY <1>9, <3>1, <3>2, <4>1
    <3> QED BY <1>2, <3>3, <3>4, BootConstants
  <2>5. HeaderIn'
    <3>1. ld'.ed = HdrAddr + HdrSize BY <1>6, <2>1 DEF Copies
    <3>2. ASSUME NEW i \in 0..HdrSize-1, Loading' => HdrAddr + i < ld'.cur PROVE HdrAddr + i < ld'.cur
      <4>1. HdrAddr + i < ld'.ed BY <3>1, BootConstants
      <4>2. ld'.cur \in Int /\ ld'.ed \in Int BY <1>6
      <4> QED BY <3>2, <4>1, <4>2, BootConstants DEF Loading
    <3> QED BY <1>1, <1>12, <2>4, <3>2 DEF HeaderIn
  <2>6. SegmentsIn' BY <1>10, <1>12 DEF SegmentsIn
  <2>7. PartIn' BY <1>1, <1>12 DEF PartIn
  <2> QED BY <1>7, <1>8, <2>3, <2>5, <2>6, <2>7 DEF InMemory
<1>13. CASE bpc = "bss"
  <2>1. seg \in 1..Len(Phdrs) BY <1>13 DEF Copying
  <2>2. PICK p : p = Phdrs[seg] OBVIOUS
  <2>3. /\ p \in Segment /\ FileBytes(p) \subseteq Bytes(p)
        /\ \A a \in Covered(p) \cup Bytes(p) : a >= ArgAddr + ARGSIZE /\ a < MemTop
        /\ \A a \in Bytes(p) : a \in 0..MemTop-1 /\ p.offset + (a - p.paddr) >= 0
    BY <1>2, <2>1, <2>2, SegmentFact
  <2>4. buf = p.paddr /\ nbytes = p.filesz /\ offset = p.offset BY <1>5, <1>13, <2>2
  <2>5. ld.cur .. ld.cur + SECTSIZE - 1 \subseteq Covered(p)
    BY <1>1, <1>2, <1>5, <2>1, <2>2, <2>4, CopiesCovered
  <2>6. \A a \in ld.cur .. ld.cur + SECTSIZE - 1 : a >= ArgAddr + ARGSIZE BY <2>3, <2>5
  <2>7. ArgsIn'
    <3>1. ASSUME NEW i \in 0..ARGSIZE-1 PROVE m'[ArgAddr + i] = ArgByte(i)
      <4>1. ArgAddr + i \in 0..MemTop-1 /\ ArgAddr + i < ArgAddr + ARGSIZE BY BootConstants
      <4>2. ArgAddr + i \notin ld.cur .. ld.cur + SECTSIZE - 1 BY <2>6, <4>1, BootConstants
      <4>3. m[ArgAddr + i] = ArgByte(i) BY <1>13 DEF InMemory, ArgsIn
      <4> QED BY <1>9, <4>1, <4>2, <4>3
    <3> QED BY <3>1 DEF ArgsIn
  <2>8. HeaderIn'
    <3>1. ASSUME NEW i \in 0..HdrSize-1 PROVE m'[HdrAddr + i] = FileByte(i)
      <4>1. HdrAddr + i \in 0..MemTop-1 /\ HdrAddr + i < ArgAddr + ARGSIZE BY BootConstants
      <4>2. HdrAddr + i \notin ld.cur .. ld.cur + SECTSIZE - 1 BY <2>6, <4>1, BootConstants
      <4>3. m[HdrAddr + i] = FileByte(i) BY <1>13 DEF InMemory, HeaderIn
      <4> QED BY <1>9, <4>1, <4>2, <4>3
    <3> QED BY <3>1 DEF HeaderIn
  <2>9. SegmentsIn'
    <3>1. ASSUME NEW k \in 1..Segs, NEW a \in Bytes(Phdrs[k])
          PROVE  m'[a] = IF a \in FileBytes(Phdrs[k]) THEN InFile(Phdrs[k], a) ELSE 0
      <4>1. k \in 1..Len(Phdrs) /\ k < seg BY <1>10, <1>13, <2>1
      <4>2. a \in 0..MemTop-1 BY <1>2, <4>1, SegmentFact
      <4>3. m[a] = IF a \in FileBytes(Phdrs[k]) THEN InFile(Phdrs[k], a) ELSE 0
        BY DEF InMemory, SegmentsIn
      <4>4. CASE a \in ld.cur .. ld.cur + SECTSIZE - 1
        <5>1. a \in Bytes(Phdrs[k]) \cap Covered(Phdrs[seg]) BY <2>2, <2>5, <4>4
        <5>2. /\ a \in FileBytes(Phdrs[k]) /\ InFile(Phdrs[seg], a) = InFile(Phdrs[k], a)
              /\ Phdrs[seg].offset + (a - Phdrs[seg].paddr) >= 0
          BY <1>2, <2>1, <4>1, <5>1, OtherSegment
        <5>3. m'[a] = InFile(p, a) BY <1>9, <2>2, <2>4, <4>2, <4>4, <5>2 DEF InFile
        <5> QED BY <2>2, <5>2, <5>3
      <4>5. CASE a \notin ld.cur .. ld.cur + SECTSIZE - 1 BY <1>9, <4>2, <4>3, <4>5
      <4> QED BY <4>4, <4>5
    <3>2. Segs' = Segs BY <1>10, <1>13
    <3> QED BY <1>3, <3>1, <3>2 DEF SegmentsIn
  <2>10. ASSUME NEW a \in FileBytes(p), a < ld'.cur PROVE m'[a] = InFile(p, a)
    <3>1. a \in 0..MemTop-1 /\ p.offset + (a - p.paddr) >= 0 BY <2>3
    <3>2. CASE a < ld.cur
      <4>1. m[a] = InFile(p, a) BY <1>13, <2>2, <3>2 DEF InMemory, PartIn
      <4>2. a \notin ld.cur .. ld.cur + SECTSIZE - 1 BY <1>2, <3>1, <3>2
      <4> QED BY <1>9, <3>1, <4>1, <4>2
    <3>3. CASE a >= ld.cur
      <4>1. a \in ld.cur .. ld.cur + SECTSIZE - 1 BY <1>2, <1>6, <2>10, <3>1, <3>3, BootConstants, SMTT(60)
      <4> QED BY <1>9, <2>4, <3>1, <4>1 DEF InFile
    <3> QED BY <1>2, <3>1, <3>2, <3>3
  <2>11. PartIn' BY <1>1, <1>3, <2>2, <2>10 DEF PartIn
  <2> QED BY <1>7, <1>8, <2>7, <2>8, <2>9, <2>11 DEF InMemory
<1> QED BY <1>4, <1>11, <1>12, <1>13

LEMMA Load ==
  ASSUME BootTypes, Copying, InMemory, load_kernel
  PROVE  BootTypes' /\ Copying' /\ InMemory'
<1>1. UNCHANGED <<mach, m, ncpu, ptr>> /\ Phdrs' = Phdrs BY DEF load_kernel, Phdrs
<1>2. /\ mach \in Machine /\ ld \in [cur : Int, ed : Int, sect : Int] /\ m \in [0..MemTop-1 -> Int]
      /\ ld.cur \in Int /\ ld.ed \in Int /\ seg \in Nat
  BY DEF BootTypes
<1>3. ArgsIn /\ HeaderIn /\ SegmentsIn /\ PartIn BY DEF InMemory
<1>4. CASE bpc = "reset" /\ copy_from_disk(ArgAddr, ARGSIZE, -ARGSIZE) /\ Stage("args") /\ seg' = seg
  <2>1. RoundDown(ArgAddr) = ArgAddr /\ RoundDown(-ARGSIZE) = -ARGSIZE
    BY RoundAligned, WholeSectors, BootConstants
  <2>2. ArgAddr - RoundDown(ArgAddr) = -ARGSIZE - RoundDown(-ARGSIZE)
    <3>1. ArgAddr - ArgAddr = -ARGSIZE - (-ARGSIZE) BY BootConstants
    <3> QED BY <2>1, <3>1
  <2>3. /\ ~Loading /\ ld' \in [cur : Int, ed : Int, sect : Int] /\ Copies(ld', ArgAddr, ARGSIZE, -ARGSIZE)
        /\ ld'.cur = RoundDown(ArgAddr)
    BY <1>4, <2>2, CopyBegins, BootConstants
  <2>4. bpc' = "args" /\ seg' = 0 BY <1>4 DEF Stage, Copying
  <2>5. BootTypes' BY <1>1, <2>3, <2>4 DEF BootTypes, Places
  <2>6. Copying'
    <3>1. Len(Phdrs) \in Nat BY <1>2, KernelFact
    <3> QED BY <1>1, <2>3, <2>4, <3>1 DEF Copying, Loads
  <2>7. ArgsIn'
    <3>1. \A i \in 0..ARGSIZE-1 : ~(ArgAddr + i < ld'.cur) BY <2>1, <2>3, BootConstants
    <3> QED BY <2>4, <3>1 DEF ArgsIn
  <2>8. HeaderIn' /\ PartIn' /\ SegmentsIn' BY <2>4 DEF HeaderIn, PartIn, SegmentsIn, Segs
  <2> QED BY <2>5, <2>6, <2>7, <2>8 DEF InMemory
<1>5. CASE bpc = "args" /\ copy_from_disk(HdrAddr, HdrSize, 0) /\ Stage("segments") /\ seg' = seg
  <2>1. RoundDown(HdrAddr) = HdrAddr /\ RoundDown(0) = 0
    BY RoundAligned, WholeSectors, BootConstants
  <2>2. HdrAddr - RoundDown(HdrAddr) = 0 - RoundDown(0) BY <2>1, BootConstants
  <2>3. /\ ~Loading /\ ld' \in [cur : Int, ed : Int, sect : Int] /\ Copies(ld', HdrAddr, HdrSize, 0)
        /\ ld'.cur = HdrAddr
    BY <1>5, <2>1, <2>2, CopyBegins, BootConstants
  <2>4. bpc' = "segments" /\ seg' = 0 BY <1>5 DEF Stage, Copying
  <2>5. BootTypes' BY <1>1, <2>3, <2>4 DEF BootTypes, Places
  <2>6. Copying'
    <3>1. Len(Phdrs) \in Nat BY <1>2, KernelFact
    <3> QED BY <1>1, <2>3, <2>4, <3>1 DEF Copying, Loads
  <2>7. ArgsIn'
    <3>1. ld.cur >= ArgAddr + ARGSIZE
      <4>1. ld.ed = ArgAddr + ARGSIZE BY <1>5 DEF Copying, Copies
      <4> QED BY <1>2, <2>3, <4>1, BootConstants DEF Loading
    <3>2. ASSUME NEW i \in 0..ARGSIZE-1 PROVE m[ArgAddr + i] = ArgByte(i)
      <4>1. ArgAddr + i < ld.cur BY <1>2, <3>1, BootConstants
      <4> QED BY <1>3, <1>5, <4>1 DEF ArgsIn
    <3> QED BY <1>1, <3>2 DEF ArgsIn
  <2>8. HeaderIn'
    <3>1. ld'.ed = HdrAddr + HdrSize BY <2>3 DEF Copies
    <3>2. \A i \in 0..HdrSize-1 : Loading' /\ ~(HdrAddr + i < ld'.cur)
      BY <2>3, <3>1, BootConstants DEF Loading
    <3> QED BY <2>4, <3>2 DEF HeaderIn
  <2>9. PartIn' /\ SegmentsIn' BY <2>4 DEF PartIn, SegmentsIn, Segs
  <2> QED BY <2>5, <2>6, <2>7, <2>8, <2>9 DEF InMemory
<1>6. CASE /\ bpc = "segments" /\ HdrIn /\ seg < Len(Phdrs)
           /\ LET p == Phdrs[seg + 1] IN copy_from_disk(p.paddr, p.filesz, p.offset)
           /\ Stage("bss") /\ seg' = seg + 1
  <2>1. seg + 1 \in 1..Len(Phdrs) /\ Len(Phdrs) \in Nat BY <1>2, <1>6, KernelFact
  <2>2. PICK p : p = Phdrs[seg + 1] OBVIOUS
  <2>3. p \in Segment /\ p.paddr - RoundDown(p.paddr) = p.offset - RoundDown(p.offset)
    BY <1>2, <2>1, <2>2, SegmentFact
  <2>4. PICK buf \in Int, nbytes \in Int, offset \in Int :
          buf = p.paddr /\ nbytes = p.filesz /\ offset = p.offset BY <2>3 DEF Segment
  <2>5. copy_from_disk(buf, nbytes, offset) BY <1>6, <2>2, <2>4
  <2>6. buf - RoundDown(buf) = offset - RoundDown(offset) BY <2>3, <2>4
  <2>7. /\ ~Loading /\ ld' \in [cur : Int, ed : Int, sect : Int] /\ Copies(ld', buf, nbytes, offset)
        /\ ld'.cur = RoundDown(buf)
    BY <2>5, <2>6, CopyBegins, Zenon
  <2>8. bpc' = "bss" /\ seg' = seg + 1 BY <1>6 DEF Stage
  <2>9. BootTypes' BY <1>1, <1>2, <2>7, <2>8 DEF BootTypes, Places
  <2>10. Phdrs'[seg'] = p BY <1>1, <2>2, <2>8
  <2>11. Copying' BY <1>1, <2>1, <2>4, <2>7, <2>8, <2>10, Zenon DEF Copying, Loads
  <2>12. ArgsIn' BY <1>1, <1>3, <1>6, <2>8 DEF ArgsIn
  <2>13. HeaderIn' BY <1>1, <1>3, <1>6, <2>7, <2>8 DEF HeaderIn
  <2>14. SegmentsIn'
    <3>1. Segs = seg BY <1>6 DEF Segs
    <3>2. Segs' = seg BY <1>2, <2>8 DEF Segs
    <3> QED BY <1>1, <1>3, <3>1, <3>2 DEF SegmentsIn
  <2>15. PartIn'
    <3>1. RoundDown(buf) <= buf /\ RoundDown(buf) \in Int BY RoundFact
    <3>2. \A a \in FileBytes(p) : ~(a < ld'.cur) BY <2>3, <2>4, <2>7, <3>1 DEF FileBytes, Segment
    <3> QED BY <2>10, <3>2 DEF PartIn
  <2> QED BY <2>9, <2>11, <2>12, <2>13, <2>14, <2>15 DEF InMemory
<1>7. CASE /\ bpc = "segments" /\ ~Loading /\ (HdrIn => seg = Len(Phdrs))
           /\ Stage(IF HdrIn THEN "start" ELSE "astray") /\ UNCHANGED <<seg, ld>>
  <2>1. HdrIn BY <1>3, <1>7 DEF HdrIn, HeaderIn
  <2>2. seg = Len(Phdrs) /\ bpc' = "start" /\ UNCHANGED <<seg, ld>> BY <1>7, <2>1 DEF Stage
  <2>3. BootTypes' BY <1>1, <1>2, <2>2 DEF BootTypes, Places
  <2>4. ~Loading' BY <1>7, <2>2 DEF Loading
  <2>5. Copying' BY <2>2, <2>4 DEF Copying, Loads
  <2>6. ArgsIn' BY <1>1, <1>3, <1>7, <2>2 DEF ArgsIn
  <2>7. HeaderIn' BY <1>1, <1>3, <1>7, <2>2 DEF HeaderIn
  <2>8. SegmentsIn'
    <3>1. Segs = seg BY <1>7 DEF Segs
    <3>2. Segs' = seg BY <1>1, <2>2 DEF Segs
    <3> QED BY <1>1, <1>3, <3>1, <3>2 DEF SegmentsIn
  <2>9. PartIn' BY <2>2 DEF PartIn
  <2> QED BY <2>3, <2>5, <2>6, <2>7, <2>8, <2>9 DEF InMemory
<1> QED BY <1>4, <1>5, <1>6, <1>7, Zenon DEF load_kernel

LEMMA Zeroed ==
  ASSUME BootTypes, Copying, InMemory, load_program
  PROVE  BootTypes' /\ Copying' /\ InMemory'
<1>1. bpc = "bss" /\ ~Loading /\ bpc' = "segments" /\ UNCHANGED <<mach, seg, ld, ncpu, ptr>>
  BY DEF load_program, Stage
<1>2. /\ mach \in Machine /\ ld \in [cur : Int, ed : Int, sect : Int] /\ m \in [0..MemTop-1 -> Int]
      /\ ld.cur \in Int /\ ld.ed \in Int /\ seg \in Nat
  BY DEF BootTypes
<1>3. PICK p : p = Phdrs[seg] OBVIOUS
<1>4. m' = [a \in DOMAIN m |-> IF a \in Bytes(p) \ FileBytes(p) THEN 0 ELSE m[a]] BY <1>3 DEF load_program
<1>5. seg \in 1..Len(Phdrs) /\ Copies(ld, p.paddr, p.filesz, p.offset) BY <1>1, <1>3 DEF Copying
<1>6. /\ p \in Segment /\ FileBytes(p) \subseteq Bytes(p)
      /\ \A a \in Covered(p) \cup Bytes(p) : a >= ArgAddr + ARGSIZE /\ a < MemTop
      /\ \A a \in Bytes(p) : a \in 0..MemTop-1 /\ p.offset + (a - p.paddr) >= 0
  BY <1>2, <1>3, <1>5, SegmentFact
<1>7. Phdrs' = Phdrs /\ Len(Phdrs) \in Nat BY <1>1, <1>2, KernelFact DEF Phdrs
<1>8. \A a \in 0..MemTop-1 : m'[a] = IF a \in Bytes(p) \ FileBytes(p) THEN 0 ELSE m[a] BY <1>2, <1>4
<1>9. ArgsIn /\ HeaderIn /\ SegmentsIn /\ PartIn BY DEF InMemory
<1>10. BootTypes'
  <2>1. m' \in [0..MemTop-1 -> Int] BY <1>2, <1>4
  <2> QED BY <1>1, <2>1 DEF BootTypes, Places
<1>11. Copying'
  <2>1. ~Loading' BY <1>1 DEF Loading
  <2>2. seg <= Len(Phdrs) BY <1>5, <1>7
  <2> QED BY <1>1, <1>7, <2>1, <2>2, Zenon DEF Copying, Loads
<1>12. ArgsIn'
  <2>1. ASSUME NEW i \in 0..ARGSIZE-1 PROVE m'[ArgAddr + i] = ArgByte(i)
    <3>1. ArgAddr + i \in 0..MemTop-1 /\ ~(ArgAddr + i >= ArgAddr + ARGSIZE) BY BootConstants
    <3>2. ArgAddr + i \notin Bytes(p) BY <1>6, <3>1
    <3>3. m[ArgAddr + i] = ArgByte(i) BY <1>1, <1>9 DEF ArgsIn
    <3> QED BY <1>8, <3>1, <3>2, <3>3
  <2> QED BY <2>1 DEF ArgsIn
<1>13. HeaderIn'
  <2>1. ASSUME NEW i \in 0..HdrSize-1 PROVE m'[HdrAddr + i] = FileByte(i)
    <3>1. HdrAddr + i \in 0..MemTop-1 /\ ~(HdrAddr + i >= ArgAddr + ARGSIZE) BY BootConstants
    <3>2. HdrAddr + i \notin Bytes(p) BY <1>6, <3>1
    <3>3. m[HdrAddr + i] = FileByte(i) BY <1>1, <1>9 DEF HeaderIn
    <3> QED BY <1>8, <3>1, <3>2, <3>3
  <2> QED BY <2>1 DEF HeaderIn
<1>14. SegmentsIn'
  <2>1. Segs = seg - 1 /\ Segs' = seg BY <1>1 DEF Segs
  <2>2. ASSUME NEW k \in 1..seg, NEW a \in Bytes(Phdrs[k])
        PROVE  m'[a] = IF a \in FileBytes(Phdrs[k]) THEN InFile(Phdrs[k], a) ELSE 0
    <3>1. k \in 1..Len(Phdrs) BY <1>5, <1>7
    <3>2. a \in 0..MemTop-1 BY <1>2, <3>1, SegmentFact
    <3>3. CASE k = seg
      <4>1. ASSUME a \in FileBytes(p) PROVE m[a] = InFile(p, a)
        <5>1. ld.ed = p.paddr + p.filesz BY <1>5 DEF Copies
        <5>2. a < ld.ed BY <1>6, <4>1, <5>1 DEF FileBytes, Segment
        <5>3. a < ld.cur BY <1>1, <1>2, <3>2, <5>2 DEF Loading
        <5> QED BY <1>1, <1>3, <1>9, <4>1, <5>3 DEF PartIn
      <4> QED BY <1>3, <1>8, <3>2, <3>3, <4>1
    <3>4. CASE k # seg
      <4>1. k < seg /\ k \in 1..Segs BY <1>5, <1>7, <2>1, <3>4
      <4>2. a \notin Bytes(p) BY <1>2, <1>3, <1>5, <3>1, <4>1, OtherSegment
      <4>3. m[a] = IF a \in FileBytes(Phdrs[k]) THEN InFile(Phdrs[k], a) ELSE 0
        BY <1>9, <4>1 DEF SegmentsIn
      <4> QED BY <1>8, <3>2, <4>2, <4>3
    <3> QED BY <3>3, <3>4
  <2> QED BY <1>7, <2>1, <2>2 DEF SegmentsIn
<1>15. PartIn' BY <1>1 DEF PartIn
<1> QED BY <1>10, <1>11, <1>12, <1>13, <1>14, <1>15 DEF InMemory

-----------------------------------------------------------------------------
(* The table of processors.                                                 *)

LEMMA TableFact == mach \in Machine =>
  mach.table \in Seq(Nat) /\ Len(mach.table) \in Nat /\ DOMAIN mach.table = 1..Len(mach.table)
<1> SUFFICES ASSUME mach \in Machine
    PROVE  mach.table \in Seq(Nat) /\ Len(mach.table) \in Nat /\ DOMAIN mach.table = 1..Len(mach.table)
  OBVIOUS
<1>1. mach.table \in MPTables BY DEF Machine
<1>2. mach.table \in Seq(Nat) BY <1>1, X86BootAssumption
<1> QED BY <1>2

LEMMA ProcessorsFact ==
  ASSUME mach \in Machine
  PROVE  /\ Processors(0) = 0
         /\ \A i \in 0..Len(mach.table) : Processors(i) \in Nat /\ Processors(i) <= Processors(Len(mach.table))
         /\ \A i \in 0..Len(mach.table)-1 :
              Processors(i + 1) = Processors(i) + (IF mach.table[i+1] = 0 THEN 1 ELSE 0)
<1> DEFINE P(i) == {j \in 1..i : mach.table[j] = 0}
<1>1. Len(mach.table) \in Nat BY TableFact
<1>2. \A i \in Nat : IsFiniteSet(P(i))
  <2> TAKE i \in Nat
  <2>1. IsFiniteSet(1..i) BY FS_Interval
  <2>2. P(i) \subseteq 1..i OBVIOUS
  <2> HIDE DEF P
  <2> QED BY <2>1, <2>2, FS_Subset
<1>3. Processors(0) = 0
  <2>1. P(0) = {} OBVIOUS
  <2> QED BY <2>1, FS_EmptySet DEF Processors
<1>4. ASSUME NEW i \in 0..Len(mach.table)
      PROVE  Processors(i) \in Nat /\ Processors(i) <= Processors(Len(mach.table))
  <2>1. P(i) \subseteq P(Len(mach.table)) BY <1>1
  <2>2. IsFiniteSet(P(Len(mach.table))) /\ IsFiniteSet(P(i)) BY <1>1, <1>2
  <2>3. Processors(i) = Cardinality(P(i)) /\ Processors(Len(mach.table)) = Cardinality(P(Len(mach.table)))
    BY DEF Processors
  <2> HIDE DEF P
  <2> QED BY <2>1, <2>2, <2>3, FS_Subset, FS_CardinalityType
<1>5. ASSUME NEW i \in 0..Len(mach.table)-1
      PROVE  Processors(i + 1) = Processors(i) + (IF mach.table[i+1] = 0 THEN 1 ELSE 0)
  <2>1. i \in Nat /\ i + 1 \in Nat BY <1>1
  <2>2. IsFiniteSet(P(i)) BY <1>2, <2>1
  <2>3. Processors(i) = Cardinality(P(i)) /\ Processors(i + 1) = Cardinality(P(i + 1)) BY DEF Processors
  <2>4. CASE mach.table[i+1] = 0
    <3>1. P(i + 1) = P(i) \cup {i + 1} /\ i + 1 \notin P(i) BY <2>1, <2>4
    <3> HIDE DEF P
    <3> QED BY <2>2, <2>3, <2>4, <3>1, FS_AddElement
  <2>5. CASE mach.table[i+1] # 0
    <3>1. P(i + 1) = P(i) BY <2>1, <2>5
    <3>2. Cardinality(P(i)) \in Nat BY <2>2, FS_CardinalityType
    <3> HIDE DEF P
    <3> QED BY <2>3, <2>5, <3>1, <3>2
  <2> QED BY <2>4, <2>5
<1> QED BY <1>3, <1>4, <1>5

LEMMA Joined ==
  ASSUME NEW s \in Seq(Nat), NEW e \in Seq(Nat), Len(e) >= 1
  PROVE  /\ s \o e \in Seq(Nat) /\ Len(s \o e) = Len(s) + Len(e)
         /\ (\A x \in 1..Len(s) : (s \o e)[x] = s[x]) /\ (s \o e)[Len(s) + 1] = e[1]
OBVIOUS

(* The words of the entries, one after another, by the walk that defines     *)
(* them: each entry begins where WordsOf says, with its type.               *)
LEMMA MPConfFact ==
  ASSUME mach \in Machine
  PROVE  /\ Len(MPConf) = WordsOf(Len(mach.table))
         /\ \A i \in 0..Len(mach.table)-1 :
              WordsOf(i) + 1 \in 1..Len(MPConf) /\ MPConf[WordsOf(i) + 1] = mach.table[i+1]
<1> DEFINE n == Len(mach.table)
           Next1(f, i) == IF i = 0 THEN <<>> ELSE f[i-1] \o MPEntry(mach.table[i])
           words == CHOOSE f : f = [i \in 0..n |-> Next1(f, i)]
           Good(s, i) == /\ s \in Seq(Nat) /\ Len(s) = WordsOf(i)
                         /\ \A j \in 0..i-1 : WordsOf(j) + 1 \in 1..Len(s) /\ s[WordsOf(j) + 1] = mach.table[j+1]
           Up(g, k) == /\ g \in [0..k -> Seq(Nat)] /\ \A i \in 0..k : g[i] = Next1(g, i) /\ Good(g[i], i)
           S == {k \in 0..n : \E g : Up(g, k)}
<1>1. n \in Nat BY TableFact
<1>2. /\ Processors(0) = 0
      /\ \A i \in 0..n : Processors(i) \in Nat
      /\ \A i \in 0..n-1 : Processors(i + 1) = Processors(i) + (IF mach.table[i+1] = 0 THEN 1 ELSE 0)
  BY ProcessorsFact
<1>3. \A i \in 0..n-1 : mach.table[i+1] \in Nat
  <2> TAKE i \in 0..n-1
  <2>1. i + 1 \in 1..n BY <1>1
  <2> QED BY <2>1, TableFact, ElementOfSeq
<1>4. \A t \in Nat : /\ MPEntry(t) \in Seq(Nat) /\ MPEntry(t)[1] = t
                     /\ Len(MPEntry(t)) = 2 + (IF t = 0 THEN 3 ELSE 0)
  BY DEF MPEntry
<1>5. 0 \in S
  <2> DEFINE g == [i \in 0..0 |-> <<>>]
  <2>1. g \in [0..0 -> Seq(Nat)] /\ g[0] = <<>> OBVIOUS
  <2>2. Good(<<>>, 0)
    <3>1. WordsOf(0) = 0 BY <1>2 DEF WordsOf
    <3> QED BY <3>1
  <2>3. \A i \in 0..0 : i = 0 OBVIOUS
  <2> HIDE DEF g, Good
  <2>4. Up(g, 0) BY <2>1, <2>2, <2>3
  <2>5. 0 \in 0..n BY <1>1
  <2> HIDE DEF Up
  <2> QED BY <2>4, <2>5
<1>6. ASSUME NEW k \in 0..n-1, k \in S PROVE k + 1 \in S
  <2>1. PICK g : Up(g, k) BY <1>6
  <2>2. k + 1 \in 0..n /\ k \in Nat /\ k \in 0..k /\ k + 1 # 0 /\ (k + 1) - 1 = k BY <1>1
  <2> DEFINE e == MPEntry(mach.table[k+1])
             s == g[k] \o e
             h == [i \in 0..k+1 |-> IF i = k + 1 THEN s ELSE g[i]]
  <2>3. e \in Seq(Nat) /\ e[1] = mach.table[k+1] /\ Len(e) = 2 + (IF mach.table[k+1] = 0 THEN 3 ELSE 0)
    BY <1>3, <1>4
  <2>4. Good(g[k], k) /\ g[k] \in Seq(Nat) BY <2>1, <2>2
  <2>5. s \in Seq(Nat) /\ Len(s) = Len(g[k]) + Len(e)
        /\ (\A x \in 1..Len(g[k]) : s[x] = g[k][x]) /\ s[Len(g[k]) + 1] = e[1]
    <3>1. Len(e) >= 1 BY <2>3
    <3> HIDE DEF e
    <3> QED BY <2>3, <2>4, <3>1, Joined
  <2>6. WordsOf(k + 1) = WordsOf(k) + Len(e) /\ WordsOf(k) \in Nat /\ Len(e) >= 2
    <3>1. PICK c \in Nat, d \in Nat : c = Processors(k) /\ d = Processors(k + 1)
          /\ d = c + (IF mach.table[k+1] = 0 THEN 1 ELSE 0)
      <4>1. k \in 0..n BY <1>1
      <4> QED BY <1>2, <2>2, <4>1
    <3>2. WordsOf(k) = 2 * k + 3 * c /\ WordsOf(k + 1) = 2 * (k + 1) + 3 * d BY <3>1, Zenon DEF WordsOf
    <3>3. d - c \in {0, 1} /\ Len(e) = 2 + 3 * (d - c)
      <4> HIDE DEF e
      <4> QED BY <2>3, <3>1
    <3>4. Len(e) \in Nat BY <2>3
    <3>5. PICK l \in Nat : l = Len(e) BY <3>4
    <3>6. l = 2 + 3 * (d - c) /\ d - c \in {0, 1} BY <3>3, <3>5
    <3>7. 2 * (k + 1) + 3 * d = (2 * k + 3 * c) + l /\ 2 * k + 3 * c \in Nat /\ l >= 2 BY <2>2, <3>6
    <3> HIDE DEF e
    <3> QED BY <3>2, <3>5, <3>7, Zenon
  <2>7. Good(s, k + 1)
    <3> HIDE DEF s, e
    <3>1. Len(s) = WordsOf(k + 1) BY <2>4, <2>5, <2>6
    <3>2. ASSUME NEW j \in 0..(k+1)-1
          PROVE  WordsOf(j) + 1 \in 1..Len(s) /\ s[WordsOf(j) + 1] = mach.table[j+1]
      <4>1. CASE j = k
        <5>1. WordsOf(k) + 1 \in 1..Len(s) BY <2>6, <3>1
        <5>2. s[WordsOf(k) + 1] = mach.table[k+1] BY <2>3, <2>4, <2>5
        <5> QED BY <4>1, <5>1, <5>2
      <4>2. CASE j # k
        <5>1. j \in 0..k-1 BY <2>2, <4>2
        <5>2. WordsOf(j) + 1 \in 1..Len(g[k]) /\ g[k][WordsOf(j) + 1] = mach.table[j+1] BY <2>4, <5>1
        <5>3. Len(g[k]) <= Len(s) /\ Len(g[k]) \in Nat /\ Len(s) \in Nat BY <2>4, <2>5, <2>6, <3>1
        <5>4. s[WordsOf(j) + 1] = mach.table[j+1] BY <2>5, <5>2
        <5>5. WordsOf(j) + 1 \in 1..Len(s) BY <5>2, <5>3
        <5> QED BY <5>4, <5>5
      <4> QED BY <4>1, <4>2
    <3> QED BY <2>5, <3>1, <3>2
  <2> HIDE DEF s, Good
  <2>8. h[k + 1] = s /\ \A i \in 0..k : h[i] = g[i] BY <2>2
  <2>9. h \in [0..k+1 -> Seq(Nat)]
    <3>1. \A i \in 0..k+1 : i # k + 1 => i \in 0..k BY <2>2
    <3>2. \A i \in 0..k : g[i] \in Seq(Nat) BY <2>1
    <3> QED BY <2>5, <3>1, <3>2
  <2> HIDE DEF h
  <2>10. ASSUME NEW i \in 0..k+1 PROVE h[i] = Next1(h, i) /\ Good(h[i], i)
    <3>1. CASE i = k + 1
      <4>1. h[i-1] = g[k] BY <2>2, <2>8, <3>1
      <4> QED BY <2>2, <2>7, <2>8, <3>1, <4>1 DEF s
    <3>2. CASE i # k + 1
      <4>1. i \in 0..k /\ (i # 0 => i - 1 \in 0..k) BY <2>2, <3>2
      <4>2. g[i] = Next1(g, i) /\ Good(g[i], i) BY <2>1, <4>1
      <4>3. h[i] = g[i] /\ (i # 0 => h[i-1] = g[i-1]) BY <2>8, <4>1
      <4> QED BY <4>2, <4>3
    <3> QED BY <3>1, <3>2
  <2>11. Up(h, k + 1) BY <2>9, <2>10
  <2> HIDE DEF Up
  <2> QED BY <2>2, <2>11
<1>7. n \in S
  <2> HIDE DEF S, n
  <2>1. 0..n \subseteq S BY <1>1, <1>5, <1>6, UpTo
  <2> QED BY <1>1, <2>1
<1>8. PICK g : Up(g, n)
  <2> HIDE DEF Up
  <2> QED BY <1>7
<1>9. g = [i \in 0..n |-> Next1(g, i)]
  <2>1. g = [i \in 0..n |-> g[i]] BY <1>8
  <2>2. \A i \in 0..n : g[i] = Next1(g, i) BY <1>8
  <2> HIDE DEF Next1
  <2> QED BY <2>1, <2>2
<1>10. words = [i \in 0..n |-> Next1(words, i)]
  <2> HIDE DEF Next1
  <2> QED BY <1>9, Zenon
<1>11. MPConf = words[n] BY DEF MPConf
<1> HIDE DEF words
<1>12. \A i \in 0..n : words[i] = Next1(words, i)
  <2> HIDE DEF Next1
  <2> QED BY <1>10
<1> DEFINE T == {i \in 0..n : words[i] = g[i]}
<1>13. 0 \in T
  <2>1. 0 \in 0..n BY <1>1
  <2>2. words[0] = Next1(words, 0) /\ g[0] = Next1(g, 0) BY <1>8, <1>12, <2>1, Zenon
  <2> QED BY <2>1, <2>2
<1>14. ASSUME NEW d \in 0..n-1, d \in T PROVE d + 1 \in T
  <2>1. d + 1 \in 0..n /\ d + 1 # 0 /\ (d + 1) - 1 = d BY <1>1
  <2>2. words[d + 1] = Next1(words, d + 1) /\ g[d + 1] = Next1(g, d + 1) BY <1>8, <1>12, <2>1, Zenon
  <2>3. words[d] = g[d] BY <1>14
  <2> QED BY <2>1, <2>2, <2>3
<1>15. n \in T
  <2> HIDE DEF T, n
  <2>1. 0..n \subseteq T BY <1>1, <1>13, <1>14, UpTo
  <2> QED BY <1>1, <2>1
<1>16. MPConf = g[n] BY <1>11, <1>15
<1>17. Good(g[n], n)
  <2>1. n \in 0..n BY <1>1
  <2> HIDE DEF Good
  <2> QED BY <1>8, <2>1
<1> QED BY <1>16, <1>17

-----------------------------------------------------------------------------
(* Descriptors: the fields of a base, a limit and an entry give them back.  *)

LEMMA Widths == \/ H = 16 /\ Byte = 4
                \/ H = 64 /\ Byte = 8
                \/ H = 256 /\ Byte = 16
                \/ H = 65536 /\ Byte = 256
<1>1. \E b \in 2..256 : b * b = H
  <2>1. 4 * 4 = 16 /\ 8 * 8 = 64 /\ 16 * 16 = 256 /\ 256 * 256 = 65536 OBVIOUS
  <2>2. 4 \in 2..256 /\ 8 \in 2..256 /\ 16 \in 2..256 /\ 256 \in 2..256 OBVIOUS
  <2>3. H = 16 \/ H = 64 \/ H = 256 \/ H = 65536 BY X86DescriptorsAssumption, SMTT(60)
  <2> QED BY <2>1, <2>2, <2>3
<1>2. Byte \in 2..256 /\ Byte * Byte = H BY <1>1 DEF Byte
<1>3. PICK b \in 2..256 : b = Byte /\ b * b = H BY <1>2
<1>4. ASSUME NEW c \in 2..256, c * c = H PROVE b = c
  <2>1. b * b = c * c BY <1>3, <1>4
  <2>2. CASE b < c
    <3>1. b * b <= b * c /\ b * c < c * c BY <2>2, Z3
    <3> QED BY <2>1, <3>1, Z3
  <2>3. CASE c < b
    <3>1. c * c <= c * b /\ c * b < b * b BY <2>3, Z3
    <3> QED BY <2>1, <3>1, Z3
  <2> QED BY <2>2, <2>3
<1>5. 4 * 4 = 16 /\ 8 * 8 = 64 /\ 16 * 16 = 256 /\ 256 * 256 = 65536 OBVIOUS
<1>6. H = 16 => b = 4 BY <1>4, <1>5
<1>7. H = 64 => b = 8 BY <1>4, <1>5
<1>8. H = 256 => b = 16 BY <1>4, <1>5
<1>9. H = 65536 => b = 256 BY <1>4, <1>5
<1> QED BY <1>3, <1>6, <1>7, <1>8, <1>9, X86DescriptorsAssumption

LEMMA BaseFact ==
  ASSUME NEW a \in Nat, a < H * H, NEW lim, NEW type, NEW s, NEW dpl, NEW l, NEW db, NEW g
  PROVE  SegBase(SegDesc(lim, a, type, s, dpl, l, db, g)) = a
<1>1. SegBase(SegDesc(lim, a, type, s, dpl, l, db, g))
        = (a % H) + H * (((a \div H) % Byte) + Byte * ((a \div (H * Byte)) % Byte))
  BY DEF SegBase, SegDesc
<1>2. CASE H = 16 /\ Byte = 4
  <2>1. (a % 16) + 16 * (((a \div 16) % 4) + 4 * ((a \div 64) % 4)) = a BY <1>2, Z3
  <2> QED BY <1>1, <1>2, <2>1
<1>3. CASE H = 64 /\ Byte = 8
  <2>1. (a % 64) + 64 * (((a \div 64) % 8) + 8 * ((a \div 512) % 8)) = a BY <1>3, Z3
  <2> QED BY <1>1, <1>3, <2>1
<1>4. CASE H = 256 /\ Byte = 16
  <2>1. (a % 256) + 256 * (((a \div 256) % 16) + 16 * ((a \div 4096) % 16)) = a BY <1>4, Z3
  <2> QED BY <1>1, <1>4, <2>1
<1>5. CASE H = 65536 /\ Byte = 256
  <2>1. (a % 65536) + 65536 * (((a \div 65536) % 256) + 256 * ((a \div 16777216) % 256)) = a BY <1>5, Z3
  <2> QED BY <1>1, <1>5, <2>1
<1> QED BY <1>2, <1>3, <1>4, <1>5, Widths

\* a limit in bytes, and one in pages that covers everything
LEMMA LimitFact ==
  ASSUME NEW a \in Nat, a < 16 * H, NEW base, NEW type, NEW s, NEW dpl, NEW l, NEW db
  PROVE  SegLimit(SegDesc(a, base, type, s, dpl, l, db, 0)) = a
<1>1. SegLimit(SegDesc(a, base, type, s, dpl, l, db, 0)) = (a % H) + H * ((a \div H) % 16)
  BY DEF SegLimit, SegDesc
<1>2. CASE H = 16
  <2>1. (a % 16) + 16 * ((a \div 16) % 16) = a BY <1>2, Z3
  <2> QED BY <1>1, <1>2, <2>1
<1>3. CASE H = 64
  <2>1. (a % 64) + 64 * ((a \div 64) % 16) = a BY <1>3, Z3
  <2> QED BY <1>1, <1>3, <2>1
<1>4. CASE H = 256
  <2>1. (a % 256) + 256 * ((a \div 256) % 16) = a BY <1>4, Z3
  <2> QED BY <1>1, <1>4, <2>1
<1>5. CASE H = 65536
  <2>1. (a % 65536) + 65536 * ((a \div 65536) % 16) = a BY <1>5, Z3
  <2> QED BY <1>1, <1>5, <2>1
<1> QED BY <1>2, <1>3, <1>4, <1>5, Widths

LEMMA WholeLimit ==
  ASSUME NEW base, NEW type, NEW s, NEW dpl, NEW l, NEW db
  PROVE  SegLimit(SegDesc((H * H - 1) \div Page, base, type, s, dpl, l, db, 1)) = H * H - 1
<1> DEFINE a == (H * H - 1) \div Page
<1>1. SegLimit(SegDesc(a, base, type, s, dpl, l, db, 1)) = ((a % H) + H * ((a \div H) % 16)) * Page + Page - 1
  BY DEF SegLimit, SegDesc
<1>2. CASE H = 16
  <2>1. Page = 1 BY <1>2 DEF Page
  <2>2. a = 255 BY <1>2, <2>1
  <2> QED BY <1>1, <1>2, <2>1, <2>2
<1>3. CASE H = 64
  <2>1. Page = 4 BY <1>3 DEF Page
  <2>2. a = 1023 BY <1>3, <2>1
  <2> QED BY <1>1, <1>3, <2>1, <2>2
<1>4. CASE H = 256
  <2>1. Page = 16 BY <1>4 DEF Page
  <2>2. a = 4095 BY <1>4, <2>1
  <2> QED BY <1>1, <1>4, <2>1, <2>2
<1>5. CASE H = 65536
  <2>1. Page = 4096 BY <1>5 DEF Page
  <2>2. a = 1048575 BY <1>5, <2>1
  <2> QED BY <1>1, <1>5, <2>1, <2>2
<1> QED BY <1>2, <1>3, <1>4, <1>5, Widths

LEMMA EntryFact ==
  ASSUME NEW a \in Nat, NEW type, NEW cs, NEW dpl
  PROVE  /\ a < H * H => GateEntry(GATE32(type, cs, a, dpl)) = a
         /\ GateEntry(GATE64(type, cs, a, dpl)) = a
         /\ GATE32(type, cs, a, dpl).dpl = dpl /\ GATE64(type, cs, a, dpl).dpl = dpl
<1>1. GateEntry(GATE32(type, cs, a, dpl)) = (a % H) + H * (((a \div H) % H) + H * 0)
  BY DEF GateEntry, GATE32
<1>2. GateEntry(GATE64(type, cs, a, dpl)) = (a % H) + H * (((a \div H) % H) + H * (a \div (H * H)))
  BY DEF GateEntry, GATE32, GATE64
<1>3. GATE32(type, cs, a, dpl).dpl = dpl /\ GATE64(type, cs, a, dpl).dpl = dpl BY DEF GATE32, GATE64
<1>4. CASE H = 16
  <2>1. /\ (a % 16) + 16 * (((a \div 16) % 16) + 16 * (a \div 256)) = a
        /\ a < 256 => (a % 16) + 16 * (((a \div 16) % 16) + 16 * 0) = a BY Z3
  <2> QED BY <1>1, <1>2, <1>3, <1>4, <2>1
<1>5. CASE H = 64
  <2>1. /\ (a % 64) + 64 * (((a \div 64) % 64) + 64 * (a \div 4096)) = a
        /\ a < 4096 => (a % 64) + 64 * (((a \div 64) % 64) + 64 * 0) = a BY Z3
  <2> QED BY <1>1, <1>2, <1>3, <1>5, <2>1
<1>6. CASE H = 256
  <2>1. /\ (a % 256) + 256 * (((a \div 256) % 256) + 256 * (a \div 65536)) = a
        /\ a < 65536 => (a % 256) + 256 * (((a \div 256) % 256) + 256 * 0) = a BY Z3
  <2> QED BY <1>1, <1>2, <1>3, <1>6, <2>1
<1>7. CASE H = 65536
  <2>1. /\ (a % 65536) + 65536 * (((a \div 65536) % 65536) + 65536 * (a \div 4294967296)) = a
        /\ a < 4294967296 => (a % 65536) + 65536 * (((a \div 65536) % 65536) + 65536 * 0) = a BY Z3
  <2> QED BY <1>1, <1>2, <1>3, <1>7, <2>1
<1> QED BY <1>4, <1>5, <1>6, <1>7, Widths

-----------------------------------------------------------------------------
(* The steps of the kernel.                                                 *)

\* they leave what was loaded alone
LEMMA Kept ==
  ASSUME BootTypes, Copying, InMemory, UNCHANGED <<mach, m, ld>>, bpc \notin Loads, bpc' \notin Loads
  PROVE  Copying' /\ InMemory' /\ Phdrs' = Phdrs
<1>1. Phdrs' = Phdrs BY DEF Phdrs
<1>2. ~Loading /\ (Loading' <=> Loading) BY DEF Copying, Loads, Loading
<1>3. Copying' BY <1>2 DEF Copying, Loads
<1>4. Segs' = Segs BY <1>1 DEF Segs, Loads
<1>5. ArgsIn' BY DEF InMemory, ArgsIn, Loads
<1>6. HeaderIn' BY DEF InMemory, HeaderIn, Loads
<1>7. SegmentsIn' BY <1>1, <1>4 DEF InMemory, SegmentsIn
<1>8. PartIn' BY DEF PartIn, Loads
<1> QED BY <1>1, <1>3, <1>5, <1>6, <1>7, <1>8 DEF InMemory

LEMMA SameTable ==
  ASSUME UNCHANGED mach PROVE \A i : Processors(i)' = Processors(i) /\ WordsOf(i)' = WordsOf(i)
BY DEF Processors, WordsOf

\* the boot block does nothing to what the kernel sets up
LEMMA LoadStep ==
  ASSUME BootInv, load_kernel \/ read_disk \/ load_program PROVE BootInv'
<1>1. BootTypes' /\ Copying' /\ InMemory' BY Load, Read, Zeroed DEF BootInv
<1>2. bpc \in Loads /\ bpc' \in Loads \cup {"start"}
  <2>1. CASE load_kernel
    <3>1. bpc \in Loads /\ bpc' \in {"args", "segments", "bss", "start", "astray"}
      BY <2>1 DEF load_kernel, Stage, Loads
    <3>2. bpc' # "astray" BY <1>1 DEF BootTypes, Places
    <3> QED BY <3>1, <3>2 DEF Loads
  <2>2. CASE read_disk BY <2>2 DEF read_disk, BootInv, Copying, Loads
  <2>3. CASE load_program BY <2>3 DEF load_program, Stage, Loads
  <2> QED BY <2>1, <2>2, <2>3
<1>3. UNCHANGED <<mach, ncpu, ptr, lapic>> BY DEF load_kernel, read_disk, load_program
<1>4. HeapBehind' BY <1>2 DEF HeapBehind
<1>5. Counted' BY <1>2, <1>3 DEF BootInv, Counted, Loads, Counts
<1>6. Apic'
  <2>1. Written = 0 /\ Written' = 0 BY <1>2 DEF Written, Loads
  <2> QED BY <1>3, <2>1 DEF BootInv, Apic
<1>7. Pins' /\ Tables' BY <1>2 DEF Pins, Tables, Loads
<1>8. Resting' BY <1>2 DEF Resting, Loads
<1> QED BY <1>1, <1>4, <1>5, <1>6, <1>7, <1>8 DEF BootInv

LEMMA KernelEndFact ==
  ASSUME mach \in Machine, NEW i \in DOMAIN Phdrs, NEW a \in Bytes(Phdrs[i])
  PROVE  KernelEnd \in Int /\ a < KernelEnd
<1> DEFINE S == UNION {Bytes(Phdrs[k]) : k \in DOMAIN Phdrs}
<1>1. S \in SUBSET (0..MemTop)
  <2>1. \A k \in DOMAIN Phdrs : \A b \in Bytes(Phdrs[k]) : b \in 0..MemTop-1
    BY KernelFact, SegmentFact
  <2>2. 0..MemTop-1 \subseteq 0..MemTop BY BootConstants
  <2> QED BY <2>1, <2>2
<1>2. a \in S OBVIOUS
<1>3. KernelEnd = 1 + (CHOOSE b \in S : \A c \in S : c <= b) BY DEF KernelEnd
<1> HIDE DEF S
<1>4. \E b \in S : \A c \in S : c <= b BY <1>1, <1>2, Largest, BootConstants
<1>5. PICK top : top = CHOOSE b \in S : \A c \in S : c <= b OBVIOUS
<1>6. top \in S /\ \A c \in S : c <= top BY <1>4, <1>5
<1>7. a <= top /\ a \in Int /\ top \in Int BY <1>1, <1>2, <1>6
<1> QED BY <1>3, <1>5, <1>7

LEMMA HeapStep == ASSUME BootInv, __am_heap_init PROVE BootInv'
<1>1. bpc = "start" /\ bpc' = "mp" /\ UNCHANGED <<mach, seg, m, ld, ncpu, ptr, lapic, ioapic, gdt, idt>>
  BY DEF __am_heap_init, Stage
<1>2. Copying' /\ InMemory' /\ Phdrs' = Phdrs BY <1>1, Kept DEF BootInv, Loads
<1>3. BootTypes' BY <1>1 DEF BootInv, BootTypes, Places
<1>4. mach \in Machine /\ mach' = mach BY <1>1 DEF BootInv, BootTypes
<1>5. HeapBehind'
  <2> DEFINE lo == CmosMem % Reg64K
             hi == CmosMem \div Reg64K + 1
  <2>1. heap' = [start |-> ((KernelEnd + MiB - 1) \div MiB) * MiB, end |-> lo + hi * Reg64K]
    BY DEF __am_heap_init
  <2>2. ASSUME NEW i \in DOMAIN Phdrs, NEW a \in Bytes(Phdrs[i]) PROVE a < heap'.start
    <3>1. PICK e \in Int : e = KernelEnd /\ a < e BY <1>4, <2>2, KernelEndFact
    <3>2. a \in Int BY <1>4, <2>2, KernelFact, SegmentFact
    <3>3. a < ((e + 4 - 1) \div 4) * 4 BY <3>1, <3>2, Z3
    <3>4. heap'.start = ((e + 4 - 1) \div 4) * 4 BY <2>1, <3>1 DEF MiB
    <3> QED BY <3>3, <3>4
  <2>3. ASSUME mach.mem >= Reg64K PROVE heap'.end = mach.mem
    <3>1. Reg64K \in Nat \ {0} /\ mach.mem \in Nat BY <1>4, X86BootAssumption DEF Machine
    <3>2. PICK x \in Int : x = mach.mem - Reg64K BY <3>1
    <3>3. CmosMem = x BY <2>3, <3>1, <3>2 DEF CmosMem
    <3>4. x % Reg64K \in 0..Reg64K-1 /\ x \div Reg64K \in Int /\ x = Reg64K * (x \div Reg64K) + (x % Reg64K)
      BY <3>1, <3>2, DivMod, Zenon
    <3>5. PICK q \in Int, r \in Int : q = x \div Reg64K /\ r = x % Reg64K BY <3>4
    <3>6. x = Reg64K * q + r BY <3>4, <3>5
    <3>7. r + (q + 1) * Reg64K = x + Reg64K BY <3>1, <3>6, Z3
    <3>8. heap'.end = r + (q + 1) * Reg64K BY <2>1, <3>3, <3>5
    <3>9. x + Reg64K = mach.mem BY <3>1, <3>2
    <3> QED BY <3>7, <3>8, <3>9
  <2> QED BY <1>2, <1>4, <2>2, <2>3 DEF HeapBehind
<1>6. Counted'
  <2>1. ncpu = 0 /\ ptr = 0 BY <1>1 DEF BootInv, Counted
  <2>2. 0 \in 0..Len(mach.table) BY <1>4, TableFact
  <2>3. Processors(0) = 0 /\ WordsOf(0) = 0 BY <1>4, ProcessorsFact DEF WordsOf
  <2>4. Processors(0)' = 0 /\ WordsOf(0)' = 0 BY <1>4, <2>3, SameTable
  <2> QED BY <1>1, <2>1, <2>2, <2>4 DEF Counted, Loads, Counts
<1>7. Apic'
  <2>1. Written' = Written BY <1>1 DEF Written
  <2> QED BY <1>1, <2>1 DEF BootInv, Apic
<1>8. Pins' /\ Tables' BY <1>1 DEF Pins, Tables
<1>9. Resting' BY <1>1 DEF Resting
<1> QED BY <1>2, <1>3, <1>5, <1>6, <1>7, <1>8, <1>9 DEF BootInv

LEMMA CountStep == ASSUME BootInv, __am_lapic_init PROVE BootInv'
<1>1. bpc = "mp" /\ UNCHANGED <<mach, seg, m, ld, heap, lapic, ioapic, gdt, idt>> BY DEF __am_lapic_init
<1>2. mach \in Machine /\ mach' = mach /\ Len(mach.table) \in Nat BY <1>1, TableFact DEF BootInv, BootTypes
<1>3. PICK i \in 0..Len(mach.table) : ptr = WordsOf(i) /\ ncpu = Processors(i)
  BY <1>1 DEF BootInv, Counted
<1>4. PICK c \in Nat : c = Processors(i) BY <1>2, ProcessorsFact
<1>5. ptr = 2 * i + 3 * c /\ ncpu = c BY <1>3, <1>4 DEF WordsOf
<1>6. bpc' \in {"mp", "ioapic", "panic"} /\ ncpu' \in Nat /\ ptr' \in Nat /\ Counted'
  <2>1. CASE i = Len(mach.table)
    <3>1. ptr >= Len(MPConf)
      <4>1. Len(MPConf) = ptr BY <1>2, <1>3, <2>1, MPConfFact
      <4> QED BY <1>5, <4>1
    <3>2. bpc' = "ioapic" /\ UNCHANGED <<ncpu, ptr>> BY <1>1, <3>1 DEF __am_lapic_init, Stage
    <3>3. ncpu' = Processors(Len(mach.table))' BY <1>2, <1>3, <2>1, <3>2, SameTable
    <3> QED BY <1>2, <1>5, <3>2, <3>3 DEF Counted, Loads, Counts
  <2>2. CASE i # Len(mach.table)
    <3>1. i \in 0..Len(mach.table)-1 /\ i + 1 \in 0..Len(mach.table) BY <1>2, <2>2
    <3>2. ptr + 1 \in 1..Len(MPConf) /\ MPConf[ptr + 1] = mach.table[i+1] BY <1>2, <1>3, <3>1, MPConfFact
    <3>3. ~(ptr >= Len(MPConf)) BY <1>5, <3>2
    <3>4. PICK d \in Nat : d = Processors(i + 1) /\ d = c + (IF mach.table[i+1] = 0 THEN 1 ELSE 0)
                           /\ d <= Processors(Len(mach.table)) /\ Processors(Len(mach.table)) \in Nat
      <4>1. Len(mach.table) \in 0..Len(mach.table) BY <1>2
      <4> QED BY <1>2, <1>4, <3>1, <4>1, ProcessorsFact
    <3>5. /\ ncpu' = (IF mach.table[i+1] = 0 THEN ncpu + 1 ELSE ncpu)
          /\ ptr' = ptr + 2 + (IF mach.table[i+1] = 0 THEN 3 ELSE 0)
          /\ bpc' = (IF ncpu' > MAX_CPU THEN "panic" ELSE "mp")
      BY <3>2, <3>3 DEF __am_lapic_init, Stage
    <3>6. ncpu' = d /\ ptr' = 2 * (i + 1) + 3 * d
      <4>1. CASE mach.table[i+1] = 0 BY <1>5, <3>1, <3>4, <3>5, <4>1, SMTT(60)
      <4>2. CASE mach.table[i+1] # 0 BY <1>5, <3>1, <3>4, <3>5, <4>2
      <4> QED BY <4>1, <4>2
    <3>7. ncpu' = Processors(i + 1)' /\ ptr' = WordsOf(i + 1)'
      <4>1. ptr' = WordsOf(i + 1) BY <3>4, <3>6 DEF WordsOf
      <4> QED BY <1>2, <3>4, <3>6, <4>1, SameTable
    <3>8. CASE ncpu' > MAX_CPU
      <4>4. MAX_CPU \in Nat BY X86BootAssumption
      <4>1. Processors(Len(mach.table)) > MAX_CPU BY <3>4, <3>6, <3>8, <4>4, SMTT(60)
      <4>2. Processors(Len(mach.table))' > MAX_CPU BY <1>2, <4>1, SameTable
      <4>3. bpc' = "panic" BY <3>5, <3>8
      <4> QED BY <1>2, <3>1, <3>4, <3>6, <4>2, <4>3 DEF Counted, Loads, Counts
    <3>9. CASE ~(ncpu' > MAX_CPU)
      <4>1. bpc' = "mp" BY <3>5, <3>9
      <4>2. Counted' BY <1>2, <3>1, <3>7, <4>1 DEF Counted, Loads, Counts
      <4> QED BY <3>1, <3>4, <3>6, <4>1, <4>2, SMTT(60)
    <3> QED BY <3>8, <3>9
  <2> QED BY <2>1, <2>2
<1>7. Copying' /\ InMemory' /\ Phdrs' = Phdrs BY <1>1, <1>6, Kept DEF BootInv, Loads
<1>8. BootTypes' BY <1>1, <1>6 DEF BootInv, BootTypes, Places
<1>9. HeapBehind' BY <1>1, <1>2, <1>7 DEF BootInv, HeapBehind, Loads
<1>10. Apic'
  <2>1. Written = 0 /\ Written' = 0 BY <1>1, <1>6 DEF Written
  <2> QED BY <1>1, <2>1 DEF BootInv, Apic
<1>11. Pins' /\ Tables' BY <1>6 DEF Pins, Tables
<1>12. Resting' BY <1>6 DEF Resting
<1> QED BY <1>6, <1>7, <1>8, <1>9, <1>10, <1>11, <1>12 DEF BootInv

\* a step that leaves memory, heap and the count of processors alone
LEMMA LateStep ==
  ASSUME BootInv, UNCHANGED <<mach, m, ld, heap, ncpu, ptr>>, seg' \in Nat,
         bpc \in {"ioapic", "gdt", "lapic", "irq", "main"},
         bpc' \in {"gdt", "lapic", "irq", "main", "cte"}, Resting', Apic', Pins', Tables'
  PROVE  BootInv'
<1>1. Copying' /\ InMemory' /\ Phdrs' = Phdrs BY Kept DEF BootInv, Loads
<1>2. BootTypes' BY DEF BootInv, BootTypes, Places
<1>3. HeapBehind' BY <1>1 DEF BootInv, HeapBehind, Loads
<1>4. Counted'
  <2>1. ncpu = Processors(Len(mach.table)) BY DEF BootInv, Counted, Loads, Counts
  <2>2. ncpu' = Processors(Len(mach.table))'
    <3>1. mach' = mach OBVIOUS
    <3> QED BY <2>1, <3>1, SameTable
  <2> QED BY <2>2 DEF Counted, Loads, Counts
<1> QED BY <1>1, <1>2, <1>3, <1>4 DEF BootInv

LEMMA IoapicStep == ASSUME BootInv, __am_ioapic_init PROVE BootInv'
<1>1. /\ bpc = "ioapic" /\ bpc' = "gdt" /\ seg' = 0
      /\ ioapic' = [i \in 0..MaxIntr |-> [on |-> FALSE, vec |-> 32 + i, cpu |-> 0]]
      /\ UNCHANGED <<mach, m, ld, heap, ncpu, ptr, lapic, gdt, idt>>
  BY DEF __am_ioapic_init, Stage
<1>2. Apic'
  <2>1. Written = 0 /\ Written' = 0 BY <1>1 DEF Written
  <2> QED BY <1>1, <2>1 DEF BootInv, Apic
<1>3. Pins' BY <1>1 DEF Pins
<1>4. Tables' BY <1>1 DEF Tables
<1> QED BY <1>1, <1>2, <1>3, <1>4, LateStep DEF Resting

LEMMA GdtStep == ASSUME BootInv, __am_percpu_initgdt PROVE BootInv'
<1>1. /\ bpc = "gdt" /\ bpc' = "lapic" /\ gdt' = Gdt
      /\ UNCHANGED <<mach, seg, m, ld, heap, ncpu, ptr, lapic, ioapic, idt>>
  BY DEF __am_percpu_initgdt, Stage
<1>2. seg = 0 BY <1>1 DEF BootInv, Resting
<1>3. Apic'
  <2>1. Written = 0 /\ Written' = 0 BY <1>1, <1>2 DEF Written
  <2> QED BY <1>1, <2>1 DEF BootInv, Apic
<1>4. Pins' BY <1>1 DEF BootInv, Pins
<1>5. Tables' BY <1>1 DEF Tables, Gdt
<1>6. seg' \in Nat BY <1>1, <1>2
<1> QED BY <1>1, <1>3, <1>4, <1>5, <1>6, LateStep DEF Resting

LEMMA Register ==
  ASSUME Apic, NEW r \in LapicRegs, NEW v \in [vec : Nat, flags : SUBSET {"MASKED", "ENABLE", "PERIODIC"}],
         r \in Lvt => Written >= 1, lapicw(r, v)
  PROVE  lapic' = [lapic EXCEPT ![r] = v]
<1>1. r \in Lvt => "ENABLE" \in lapic["SVR"].flags
  <2> SUFFICES ASSUME r \in Lvt PROVE "ENABLE" \in lapic["SVR"].flags OBVIOUS
  <2>1. Written \in 0..8 /\ Written >= 1 BY DEF Apic
  <2>2. lapic["SVR"] = [vec |-> 63, flags |-> {"ENABLE"}] BY <2>1 DEF Apic
  <2> QED BY <2>2
<1> QED BY <1>1, Zenon DEF lapicw

LEMMA ApicStep == ASSUME BootInv, __am_percpu_initlapic PROVE BootInv'
<1>1. bpc = "lapic" /\ UNCHANGED <<mach, m, ld, heap, ncpu, ptr, ioapic, gdt, idt>>
  BY DEF __am_percpu_initlapic
<1>2. Written = seg /\ seg \in 0..8 /\ Apic BY <1>1 DEF BootInv, Apic, Written
<1>3. Len(Lapicws) = 8 BY DEF Lapicws
<1>4. CASE seg = 8
  <2>1. bpc' = "irq" /\ UNCHANGED <<seg, lapic>> BY <1>3, <1>4 DEF __am_percpu_initlapic, Stage
  <2>2. Written' = 8 BY <2>1 DEF Written
  <2>3. Apic' BY <1>2, <1>4, <2>1, <2>2 DEF Apic
  <2>4. Pins' /\ Tables' BY <1>1, <2>1 DEF BootInv, Pins, Tables, Gdt
  <2> QED BY <1>1, <1>2, <2>1, <2>3, <2>4, LateStep DEF Resting
<1>5. CASE seg \in 0..7
  <2>1. /\ seg' = seg + 1 /\ bpc' = bpc
        /\ IF Lapicws[seg + 1][1] = "PCINT" /\ mach.ver < 4 THEN UNCHANGED lapic
           ELSE lapicw(Lapicws[seg + 1][1], Lapicws[seg + 1][2])
    BY <1>3, <1>5 DEF __am_percpu_initlapic
  <2>2. Written' = seg + 1 /\ Written' \in 0..8 BY <1>1, <1>5, <2>1 DEF Written
  <2> DEFINE Values == [vec : Nat, flags : SUBSET {"MASKED", "ENABLE", "PERIODIC"}]
  <2>3. lapic \in [LapicRegs -> Values] BY <1>2 DEF Apic
  <2>4. {"SVR", "TICR", "TPR", "TIMER", "LINT0", "LINT1", "PCINT", "ERROR"} = LapicRegs BY DEF LapicRegs, Lvt
  <2>5. MaskedLvt \in Values /\ Plain \in Values BY DEF MaskedLvt, Plain
  <2>6. ASSUME NEW r \in LapicRegs, NEW v \in Values, Lapicws[seg + 1] = <<r, v>>, r \in Lvt => seg >= 1,
               r # "PCINT"
        PROVE  lapic' = [lapic EXCEPT ![r] = v]
    <3>1. Lapicws[seg + 1][1] = r /\ Lapicws[seg + 1][2] = v BY <2>6
    <3>2. lapicw(r, v) BY <2>1, <2>6, <3>1, Zenon
    <3> HIDE DEF Values
    <3>3. v \in [vec : Nat, flags : SUBSET {"MASKED", "ENABLE", "PERIODIC"}] BY DEF Values
    <3> QED BY <1>2, <2>6, <3>2, <3>3, Register
  <2>7. Apic'
    <3>1. CASE seg = 0
      <4>1. Lapicws[seg + 1] = <<"SVR", [vec |-> 63, flags |-> {"ENABLE"}]>> BY <3>1 DEF Lapicws
      <4>2. [vec |-> 63, flags |-> {"ENABLE"}] \in Values OBVIOUS
      <4>3. lapic' = [lapic EXCEPT !["SVR"] = [vec |-> 63, flags |-> {"ENABLE"}]]
        BY <2>4, <2>6, <4>1, <4>2 DEF Lvt
      <4> QED BY <1>2, <2>2, <2>3, <2>4, <3>1, <4>2, <4>3 DEF Apic
    <3>2. CASE seg = 1
      <4>1. Lapicws[seg + 1] = <<"TIMER", [vec |-> 32, flags |-> {"PERIODIC"}]>> BY <3>2 DEF Lapicws
      <4>2. [vec |-> 32, flags |-> {"PERIODIC"}] \in Values OBVIOUS
      <4>3. lapic' = [lapic EXCEPT !["TIMER"] = [vec |-> 32, flags |-> {"PERIODIC"}]]
        BY <2>4, <2>6, <3>2, <4>1, <4>2
      <4> QED BY <1>2, <2>2, <2>3, <2>4, <3>2, <4>2, <4>3 DEF Apic
    <3>3. CASE seg = 2
      <4>1. Lapicws[seg + 1] = <<"TICR", [vec |-> 1, flags |-> {}]>> BY <3>3 DEF Lapicws
      <4>2. [vec |-> 1, flags |-> {}] \in Values OBVIOUS
      <4>3. lapic' = [lapic EXCEPT !["TICR"] = [vec |-> 1, flags |-> {}]] BY <2>4, <2>6, <3>3, <4>1, <4>2
      <4> QED BY <1>2, <2>2, <2>3, <2>4, <3>3, <4>2, <4>3 DEF Apic
    <3>4. CASE seg = 3
      <4>1. Lapicws[seg + 1] = <<"LINT0", MaskedLvt>> BY <3>4 DEF Lapicws
      <4>2. lapic' = [lapic EXCEPT !["LINT0"] = MaskedLvt] BY <2>4, <2>5, <2>6, <3>4, <4>1
      <4> QED BY <1>2, <2>2, <2>3, <2>4, <2>5, <3>4, <4>2 DEF Apic
    <3>5. CASE seg = 4
      <4>1. Lapicws[seg + 1] = <<"LINT1", MaskedLvt>> BY <3>5 DEF Lapicws
      <4>2. lapic' = [lapic EXCEPT !["LINT1"] = MaskedLvt] BY <2>4, <2>5, <2>6, <3>5, <4>1
      <4> QED BY <1>2, <2>2, <2>3, <2>4, <2>5, <3>5, <4>2 DEF Apic
    <3>6. CASE seg = 5
      <4>1. Lapicws[seg + 1] = <<"PCINT", MaskedLvt>> BY <3>6 DEF Lapicws
      <4>2. Lapicws[seg + 1][1] = "PCINT" /\ Lapicws[seg + 1][2] = MaskedLvt BY <4>1
      <4>3. lapic' = lapic \/ lapic' = [lapic EXCEPT !["PCINT"] = MaskedLvt]
        <5>1. lapic' = lapic \/ lapicw("PCINT", MaskedLvt) BY <2>1, <4>2
        <5>2. "PCINT" \in LapicRegs /\ Written >= 1 BY <1>2, <2>4, <3>6
        <5>3. MaskedLvt \in [vec : Nat, flags : SUBSET {"MASKED", "ENABLE", "PERIODIC"}] BY <2>5
        <5> QED BY <1>2, <5>1, <5>2, <5>3, Register
      <4> QED BY <1>2, <2>2, <2>3, <2>4, <2>5, <3>6, <4>3 DEF Apic
    <3>7. CASE seg = 6
      <4>1. Lapicws[seg + 1] = <<"ERROR", [vec |-> 51, flags |-> {}]>> BY <3>7 DEF Lapicws
      <4>2. [vec |-> 51, flags |-> {}] \in Values OBVIOUS
      <4>3. lapic' = [lapic EXCEPT !["ERROR"] = [vec |-> 51, flags |-> {}]] BY <2>4, <2>6, <3>7, <4>1, <4>2
      <4> QED BY <1>2, <2>2, <2>3, <2>4, <3>7, <4>2, <4>3 DEF Apic
    <3>8. CASE seg = 7
      <4>1. Lapicws[seg + 1] = <<"TPR", Plain>> BY <3>8 DEF Lapicws
      <4>2. lapic' = [lapic EXCEPT !["TPR"] = Plain] BY <2>4, <2>5, <2>6, <3>8, <4>1
      <4> QED BY <1>2, <2>2, <2>3, <2>4, <2>5, <3>8, <4>2 DEF Apic
    <3> QED BY <1>5, <3>1, <3>2, <3>3, <3>4, <3>5, <3>6, <3>7, <3>8
  <2>8. Pins' /\ Tables' BY <1>1, <2>1 DEF BootInv, Pins, Tables, Gdt
  <2>9. seg' \in Nat BY <1>5, <2>1
  <2> QED BY <1>1, <2>1, <2>7, <2>8, <2>9, LateStep DEF Resting
<1> QED BY <1>2, <1>4, <1>5

LEMMA IrqStep == ASSUME BootInv, __am_percpu_initirq PROVE BootInv'
<1>1. /\ bpc = "irq" /\ bpc' = "main"
      /\ ioapic' = [i \in 0..MaxIntr |-> IF i \in {1, 4} THEN [on |-> TRUE, vec |-> 32 + i, cpu |-> 0]
                                         ELSE ioapic[i]]
      /\ UNCHANGED <<mach, seg, m, ld, heap, ncpu, ptr, lapic, gdt, idt>>
  BY DEF __am_percpu_initirq, Stage
<1>2. Apic'
  <2>1. Written = 8 /\ Written' = 8 BY <1>1 DEF Written
  <2> QED BY <1>1, <2>1 DEF BootInv, Apic
<1>3. Pins'
  <2>1. ioapic = [i \in 0..MaxIntr |-> [on |-> FALSE, vec |-> 32 + i, cpu |-> 0]] BY <1>1 DEF BootInv, Pins
  <2>2. \A i \in 0..MaxIntr : (IF i \in {1, 4} THEN [on |-> TRUE, vec |-> 32 + i, cpu |-> 0] ELSE ioapic[i])
                                = [on |-> i \in {1, 4}, vec |-> 32 + i, cpu |-> 0]
    <3> TAKE i \in 0..MaxIntr
    <3>1. CASE i \in {1, 4}
      <4>1. (i \in {1, 4}) = TRUE BY <3>1
      <4> QED BY <3>1, <4>1, Zenon
    <3>2. CASE i \notin {1, 4}
      <4>1. (i \in {1, 4}) = FALSE BY <3>2
      <4>2. ioapic[i] = [on |-> FALSE, vec |-> 32 + i, cpu |-> 0] BY <2>1
      <4> QED BY <3>2, <4>1, <4>2, Zenon
    <3> QED BY <3>1, <3>2
  <2>3. ioapic' = [i \in 0..MaxIntr |-> [on |-> i \in {1, 4}, vec |-> 32 + i, cpu |-> 0]]
    BY <1>1, <2>2, Zenon
  <2> QED BY <1>1, <2>3 DEF Pins
<1>4. Tables' BY <1>1 DEF BootInv, Tables, Gdt
<1>5. seg' \in Nat BY <1>1 DEF BootInv, BootTypes
<1> QED BY <1>1, <1>2, <1>3, <1>4, <1>5, LateStep DEF Resting

LEMMA IdtStep == ASSUME BootInv, cte_init PROVE BootInv'
<1>1. /\ bpc = "main" /\ bpc' = "cte" /\ UNCHANGED <<mach, seg, m, ld, heap, ncpu, ptr, lapic, ioapic, gdt>>
      /\ idt' = [v \in 0..255 |->
                   IF v \in IRQS THEN GATE(IrqStub(v), IF v \in UserIRQS THEN DPL_USER ELSE DPL_KERN)
                   ELSE GATE(IrqStubAll, DPL_KERN)]
  BY DEF cte_init, Stage
<1>2. Apic'
  <2>1. Written = 8 /\ Written' = 8 BY <1>1 DEF Written
  <2> QED BY <1>1, <2>1 DEF BootInv, Apic
<1>3. Pins' BY <1>1 DEF BootInv, Pins
<1>4. Tables'
  <2>1. gdt' = Gdt' BY <1>1 DEF BootInv, Tables, Gdt
  <2>2. \A v \in 0..255 :
          idt'[v] = IF v \in IRQS THEN GATE(IrqStub(v), IF v \in UserIRQS THEN DPL_USER ELSE DPL_KERN)
                    ELSE GATE(IrqStubAll, DPL_KERN) BY <1>1
  <2>3. \A e, d : GATE(e, d)' = GATE(e, d) BY <1>1 DEF GATE
  <2> QED BY <2>1, <2>2, <2>3 DEF Tables
<1>5. seg' \in Nat BY <1>1 DEF BootInv, BootTypes
<1> QED BY <1>1, <1>2, <1>3, <1>4, <1>5, LateStep DEF Resting

LEMMA BootInvInit == X86BootInit => BootInv
<1> SUFFICES ASSUME X86BootInit PROVE BootInv OBVIOUS
<1>1. /\ mach \in Machine /\ bpc = "reset" /\ seg = 0 /\ m = [a \in 0..MemTop-1 |-> -1]
      /\ ld = [cur |-> 0, ed |-> 0, sect |-> 0] /\ ncpu = 0 /\ ptr = 0
      /\ lapic = [r \in LapicRegs |-> IF r \in Lvt THEN MaskedLvt ELSE Plain]
  BY DEF X86BootInit, Machine, LapicRegs
<1>2. BootTypes
  <2>1. m \in [0..MemTop-1 -> Int] BY <1>1
  <2>2. ld \in [cur : Int, ed : Int, sect : Int] BY <1>1
  <2> QED BY <1>1, <2>1, <2>2 DEF BootTypes, Places
<1>3. Copying
  <2>1. ld.cur = 0 /\ ld.ed = 0 BY <1>1
  <2>2. ~Loading BY <2>1 DEF Loading
  <2>3. Len(Phdrs) \in Nat BY <1>1, KernelFact
  <2> QED BY <1>1, <2>2, <2>3 DEF Copying
<1>4. InMemory BY <1>1 DEF InMemory, ArgsIn, HeaderIn, SegmentsIn, PartIn, Segs
<1>5. HeapBehind /\ Resting BY <1>1 DEF HeapBehind, Loads, Resting
<1>6. Counted BY <1>1 DEF Counted, Loads, Counts
<1>7. Apic
  <2>1. Written = 0 BY <1>1 DEF Written
  <2>2. MaskedLvt \in [vec : Nat, flags : SUBSET {"MASKED", "ENABLE", "PERIODIC"}]
        /\ Plain \in [vec : Nat, flags : SUBSET {"MASKED", "ENABLE", "PERIODIC"}] BY DEF MaskedLvt, Plain
  <2>3. lapic \in [LapicRegs -> [vec : Nat, flags : SUBSET {"MASKED", "ENABLE", "PERIODIC"}]] BY <1>1, <2>2
  <2>4. /\ \A r \in LapicRegs : lapic[r] = IF r \in Lvt THEN MaskedLvt ELSE Plain
        /\ {"SVR", "TIMER", "LINT0", "LINT1", "PCINT", "ERROR"} \subseteq LapicRegs
        /\ {"TIMER", "LINT0", "LINT1", "PCINT", "ERROR"} \subseteq Lvt /\ "SVR" \notin Lvt
    BY <1>1 DEF LapicRegs, Lvt
  <2> QED BY <2>1, <2>3, <2>4 DEF Apic
<1>8. Pins /\ Tables BY <1>1 DEF Pins, Tables
<1> QED BY <1>2, <1>3, <1>4, <1>5, <1>6, <1>7, <1>8 DEF BootInv

LEMMA BootNextStep == ASSUME BootInv, [X86BootNext]_bvars PROVE BootInv'
<1>1. CASE UNCHANGED bvars
  <2>1. UNCHANGED <<mach, bpc, seg, m, ld, heap, ncpu, ptr, lapic, ioapic, gdt, idt>> BY <1>1 DEF bvars
  <2>2. BootTypes' /\ Resting' /\ HeapBehind' BY <2>1 DEF BootInv, BootTypes, Resting, HeapBehind, Phdrs
  <2>3. Copying'
    <3>1. Phdrs' = Phdrs /\ (Loading' <=> Loading) BY <2>1 DEF Phdrs, Loading
    <3> QED BY <2>1, <3>1 DEF BootInv, Copying
  <2>4. InMemory'
    <3>1. Phdrs' = Phdrs /\ (Loading' <=> Loading) BY <2>1 DEF Phdrs, Loading
    <3>2. Segs' = Segs BY <2>1, <3>1 DEF Segs
    <3> QED BY <2>1, <3>1, <3>2 DEF BootInv, InMemory, ArgsIn, HeaderIn, SegmentsIn, PartIn
  <2>5. Counted' BY <2>1, SameTable DEF BootInv, Counted
  <2>6. Apic' 
    <3>1. Written' = Written BY <2>1 DEF Written
    <3> QED BY <2>1, <3>1 DEF BootInv, Apic
  <2>7. Pins' BY <2>1, SMTT(60) DEF BootInv, Pins
  <2>8. Tables' BY <2>1 DEF BootInv, Tables, Gdt, GATE
  <2> QED BY <2>2, <2>3, <2>4, <2>5, <2>6, <2>7, <2>8 DEF BootInv
<1>2. CASE X86BootNext
  BY <1>2, LoadStep, HeapStep, CountStep, IoapicStep, GdtStep, ApicStep, IrqStep, IdtStep, Zenon DEF X86BootNext
<1> QED BY <1>1, <1>2

-----------------------------------------------------------------------------
(* What the invariant says when main is called.                             *)

(* Every segment that was copied is all there, and so are the arguments and  *)
(* the header: the invariant says so of each stage.                         *)
LEMMA AllLoaded == ASSUME BootInv, bpc \notin Loads PROVE Loaded
<1>1. mach \in Machine /\ bpc \in Places BY DEF BootInv, BootTypes
<1>2. DOMAIN Phdrs = 1..Len(Phdrs) /\ Segs = Len(Phdrs)
  <2>1. Segs = Len(Phdrs) BY DEF Segs, Loads
  <2> QED BY <1>1, <2>1, KernelFact
<1>3. HdrIn BY DEF BootInv, InMemory, HeaderIn, HdrIn, Loads
<1>4. \A i \in 0..ARGSIZE-1 : m[ArgAddr + i] = ArgByte(i) BY DEF BootInv, InMemory, ArgsIn, Loads
<1>5. ASSUME NEW k \in DOMAIN Phdrs, NEW a \in Bytes(Phdrs[k])
      PROVE  m[a] = IF a \in FileBytes(Phdrs[k]) THEN FileByte(Phdrs[k].offset + a - Phdrs[k].paddr) ELSE 0
  <2>1. m[a] = IF a \in FileBytes(Phdrs[k]) THEN InFile(Phdrs[k], a) ELSE 0
    BY <1>2 DEF BootInv, InMemory, SegmentsIn
  <2>2. k \in 1..Len(Phdrs) /\ a \in Int BY <1>1, <1>2, SegmentFact
  <2>3. Phdrs[k] \in Segment BY <1>1, <2>2, KernelFact
  <2>4. Phdrs[k].offset + (a - Phdrs[k].paddr) = Phdrs[k].offset + a - Phdrs[k].paddr
    <3>1. PICK x \in Int, y \in Int : x = Phdrs[k].offset /\ y = Phdrs[k].paddr BY <2>3 DEF Segment
    <3>2. x + (a - y) = x + a - y BY <2>2
    <3> QED BY <3>1, <3>2
  <2> QED BY <2>1, <2>4 DEF InFile
<1> QED BY <1>3, <1>4, <1>5 DEF Loaded

LEMMA GatesRight ==
  ASSUME BootInv, bpc = "cte", NEW v \in 0..255
  PROVE  /\ GateEntry(idt[v]) = IF v \in IRQS THEN IrqStub(v) ELSE IrqStubAll
         /\ idt[v].dpl = DPL_USER <=> v \in UserIRQS
<1>1. idt[v] = IF v \in IRQS THEN GATE(IrqStub(v), IF v \in UserIRQS THEN DPL_USER ELSE DPL_KERN)
               ELSE GATE(IrqStubAll, DPL_KERN) BY DEF BootInv, Tables
<1>2. StubAt \in Nat \ {0} /\ StubAt + 8 * 129 < H * H /\ H \in Nat
  BY X86BootAssumption, X86DescriptorsAssumption
<1>3. ASSUME NEW a \in Nat, a < H * H, NEW dpl
      PROVE  GateEntry(GATE(a, dpl)) = a /\ GATE(a, dpl).dpl = dpl
  BY <1>3, EntryFact DEF GATE
<1>4. DPL_USER # DPL_KERN BY DEF DPL_USER, DPL_KERN
<1>5. PICK w \in Int : w = H * H /\ StubAt + 8 * 129 < w BY <1>2
<1>6. CASE v \in IRQS
  <2>1. v <= 129 BY <1>6 DEF IRQS
  <2>2. StubAt + 8 * v \in Nat /\ StubAt + 8 * v < w BY <1>2, <1>5, <2>1
  <2>3. IrqStub(v) \in Nat /\ IrqStub(v) < H * H BY <1>5, <2>2 DEF IrqStub
  <2> HIDE DEF IRQS
  <2> QED BY <1>1, <1>3, <1>4, <1>6, <2>3, Zenon
<1>7. CASE v \notin IRQS
  <2>1. StubAt - 1 \in Nat /\ StubAt - 1 < w BY <1>2, <1>5
  <2>2. IrqStubAll \in Nat /\ IrqStubAll < H * H BY <1>5, <2>1 DEF IrqStubAll
  <2>3. v \notin UserIRQS BY <1>7 DEF IRQS, UserIRQS
  <2> QED BY <1>1, <1>3, <1>4, <1>7, <2>2, <2>3, Zenon
<1> QED BY <1>6, <1>7

LEMMA SegmentsRight ==
  ASSUME BootInv, bpc = "main"
  PROVE  /\ SegBase(gdt[5]) = TssAt /\ SegLimit(gdt[5]) = TssSize - 1
         /\ mach.arch = "i386" => \A k \in 1..4 : SegBase(gdt[k]) = 0 /\ SegLimit(gdt[k]) = H * H - 1
<1>1. gdt = Gdt BY DEF BootInv, Tables
<1>2. gdt[5] = SegDesc(TssSize - 1, TssAt, STS_T32A, 0, DPL_KERN, 0, 1, 0) BY <1>1 DEF Gdt, SEG16
<1>3. H \in Nat /\ TssAt \in Nat /\ TssSize \in 1..16 * H /\ TssAt + TssSize <= H * H
  BY X86BootAssumption, X86DescriptorsAssumption
<1>4. TssAt < H * H /\ 0 < H * H
  <2>1. PICK w \in Int : w = H * H BY <1>3
  <2>2. TssAt + TssSize <= w BY <1>3, <2>1
  <2>3. TssAt < w /\ 0 < w BY <1>3, <2>2
  <2> QED BY <2>1, <2>3
<1>5. TssSize - 1 \in Nat /\ TssSize - 1 < 16 * H BY <1>3
<1>6. SegBase(gdt[5]) = TssAt BY <1>2, <1>3, <1>4, BaseFact
<1>7. SegLimit(gdt[5]) = TssSize - 1 BY <1>2, <1>5, LimitFact
<1>8. ASSUME mach.arch = "i386", NEW k \in 1..4
      PROVE  SegBase(gdt[k]) = 0 /\ SegLimit(gdt[k]) = H * H - 1
  <2>1. \E type, dpl : gdt[k] = SEG32(type, 0, H * H - 1, dpl)
    <3>1. gdt[1] = SEG32(STA_X + STA_R, 0, H * H - 1, DPL_KERN) BY <1>1, <1>8 DEF Gdt
    <3>2. gdt[2] = SEG32(STA_W, 0, H * H - 1, DPL_KERN) BY <1>1, <1>8 DEF Gdt
    <3>3. gdt[3] = SEG32(STA_X + STA_R, 0, H * H - 1, DPL_USER) BY <1>1, <1>8 DEF Gdt
    <3>4. gdt[4] = SEG32(STA_W, 0, H * H - 1, DPL_USER) BY <1>1, <1>8 DEF Gdt
    <3>5. k = 1 \/ k = 2 \/ k = 3 \/ k = 4 OBVIOUS
    <3> QED BY <3>1, <3>2, <3>3, <3>4, <3>5, Zenon
  <2>2. PICK type, dpl : gdt[k] = SegDesc((H * H - 1) \div Page, 0, type, 1, dpl, 0, 1, 1) BY <2>1 DEF SEG32
  <2> QED BY <1>4, <2>2, BaseFact, WholeLimit
<1> QED BY <1>6, <1>7, <1>8

LEMMA OnlyTimer ==
  ASSUME BootInv, bpc = "main"
  PROVE  /\ {r \in Lvt : "MASKED" \notin lapic[r].flags} = {"TIMER", "ERROR"}
         /\ lapic["TIMER"].vec = 32 /\ "ENABLE" \in lapic["SVR"].flags
         /\ \A i \in DOMAIN ioapic : ioapic[i].on <=> i \in {1, 4}
         /\ ioapic[1].vec = 33 /\ ioapic[4].vec = 36 /\ ioapic[1].cpu = 0 /\ ioapic[4].cpu = 0
<1>1. /\ lapic["SVR"] = [vec |-> 63, flags |-> {"ENABLE"}]
      /\ lapic["TIMER"] = [vec |-> 32, flags |-> {"PERIODIC"}]
      /\ lapic["ERROR"] = [vec |-> 51, flags |-> {}]
      /\ lapic["LINT0"] = MaskedLvt /\ lapic["LINT1"] = MaskedLvt /\ lapic["PCINT"] = MaskedLvt
  <2>1. Written = 8 BY DEF Written
  <2> QED BY <2>1 DEF BootInv, Apic
<1>2. {r \in Lvt : "MASKED" \notin lapic[r].flags} = {"TIMER", "ERROR"}
  <2>1. /\ "MASKED" \notin lapic["TIMER"].flags /\ "MASKED" \notin lapic["ERROR"].flags
        /\ "MASKED" \in lapic["LINT0"].flags /\ "MASKED" \in lapic["LINT1"].flags
        /\ "MASKED" \in lapic["PCINT"].flags
    BY <1>1 DEF MaskedLvt
  <2>2. \A r \in Lvt : r \in {"TIMER", "ERROR", "LINT0", "LINT1", "PCINT"} BY DEF Lvt
  <2>3. "TIMER" \in Lvt /\ "ERROR" \in Lvt BY DEF Lvt
  <2>4. \A r \in Lvt : "MASKED" \notin lapic[r].flags <=> r \in {"TIMER", "ERROR"} BY <2>1, <2>2
  <2> QED BY <2>3, <2>4
<1>3. lapic["TIMER"].vec = 32 /\ "ENABLE" \in lapic["SVR"].flags BY <1>1
<1>4. ioapic = [i \in 0..MaxIntr |-> [on |-> i \in {1, 4}, vec |-> 32 + i, cpu |-> 0]] BY DEF BootInv, Pins
<1>5. 1 \in 0..MaxIntr /\ 4 \in 0..MaxIntr BY X86BootAssumption
<1>6. ioapic[1] = [on |-> 1 \in {1, 4}, vec |-> 32 + 1, cpu |-> 0]
      /\ ioapic[4] = [on |-> 4 \in {1, 4}, vec |-> 32 + 4, cpu |-> 0] BY <1>4, <1>5, Zenon
<1>7. ioapic[1].vec = 33 /\ ioapic[4].vec = 36 /\ ioapic[1].cpu = 0 /\ ioapic[4].cpu = 0 BY <1>6
<1>8. \A i \in DOMAIN ioapic : ioapic[i].on <=> i \in {1, 4}
  <2>1. DOMAIN ioapic = 0..MaxIntr BY <1>4
  <2>2. \A i \in 0..MaxIntr : ioapic[i].on = (i \in {1, 4}) BY <1>4, Zenon
  <2> QED BY <2>1, <2>2, Zenon
<1> QED BY <1>2, <1>3, <1>7, <1>8

LEMMA UpFromInv == BootInv => X86Up
<1> SUFFICES ASSUME BootInv PROVE X86Up OBVIOUS
<1> DEFINE cpus == Cardinality({i \in DOMAIN mach.table : mach.table[i] = 0})
<1>1. mach \in Machine /\ bpc \in Places BY DEF BootInv, BootTypes
<1>2. cpus = Processors(Len(mach.table)) BY <1>1, TableFact DEF Processors
<1> HIDE DEF cpus
<1>3. bpc # "astray" BY <1>1 DEF Places
<1>4. bpc = "panic" => cpus > MAX_CPU BY <1>2 DEF BootInv, Counted
<1>5. bpc \in {"start", "mp", "ioapic", "gdt", "lapic", "irq", "main"} => Loaded BY AllLoaded DEF Loads
<1>6. bpc = "main" => ncpu = cpus BY <1>2 DEF BootInv, Counted, Loads, Counts
<1>7. bpc = "main" => /\ \A i \in DOMAIN Phdrs : \A a \in Bytes(Phdrs[i]) : a < heap.start
                      /\ mach.mem >= Reg64K => heap.end = mach.mem
  BY DEF BootInv, HeapBehind, Loads
<1> QED BY <1>3, <1>4, <1>5, <1>6, <1>7, GatesRight, SegmentsRight, OnlyTimer, Zenon DEF X86Up, cpus

(* The invariant of the boot block and the start of the kernel is inductive,  *)
(* for sectors of any size, any kernel that a linker could have made and any  *)
(* table of processors.                                                      *)
THEOREM BootInvariant == BootSpec => []BootInv
<1>1. BootInv /\ [X86BootNext]_bvars => BootInv' BY BootNextStep
<1> QED BY <1>1, BootInvInit, PTL DEF BootSpec

(* The kernel starts whole, with its arguments and the header, although       *)
(* whole sectors are copied; it counts its processors, has its heap behind    *)
(* it, takes the interrupts it asked for and no others, and each has its gate. *)
THEOREM BootComesUp == BootSpec => []X86Up
BY BootInvariant, UpFromInv, PTL
=============================================================================
