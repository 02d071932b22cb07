--------------------------- MODULE NativeMpe_proofs ---------------------------
(* Proofs about NativeMpe, for any number of CPUs and processes and every   *)
(* kind of application: an inductive invariant and what it implies.         *)
EXTENDS NativeMpe, FiniteSetTheorems, TLAPS

Child == Proc \ {Main}

(* Before mpe_init there is one process; it is never at the child's end of  *)
(* the pipe, and holds its own as long as it starts the others.             *)
MainPlace ==
    /\ ~mpe => /\ pc[Main] \in {"app", "lazy", "dead"} /\ pipe = 0
               /\ \A p \in Child : pc[p] = "none"
    /\ mpe => pc[Main] \notin {"app"}
    /\ pc[Main] \notin {"none", "read", "start"}
    /\ pc[Main] \in {"fork", "init", "write"} => fds[Main] /\ i[Main] > 0
    /\ cpuid[Main] = 0

(* A child whose entry() returned goes through mpe_init's loop without the  *)
(* pipe, and gets no further than its first write.                          *)
ChildPlace ==
    \A p \in Child :
        /\ pc[p] # "app"
        /\ pc[p] # "none" => mpe /\ NCPU > 1
        /\ fds[p] => pc[p] \in {"read", "start", "dead"}
        /\ pc[p] = "start" => fds[p]
        /\ pc[p] \in {"init", "write"} => i[p] = 1

(* A child that has started, or can start, with the number it has then.     *)
Starter(p) == pc[p] \in {"start", "entry", "lazy"} \/ (pc[p] = "read" /\ fds[p])

(* No two of them have the same one. *)
Numbers ==
    /\ \A p \in Child : Starter(p) => /\ i[p] \in 1 .. NCPU - 1
                                      /\ pc[Main] = "fork" => i[p] < i[Main]
                                      /\ pc[p] \in {"entry", "lazy"} => cpuid[p] = i[p]
    /\ \A p, q \in Child : Starter(p) /\ Starter(q) /\ p # q => i[p] # i[q]

(* The bytes in the pipe are those that the first process has written. *)
Bytes ==
    /\ pc[Main] \in {"fork", "init"} => pipe = 0
    /\ pc[Main] = "write" => pipe < i[Main]

(* Nobody is let through the pipe before the devices are ready. *)
Devices ==
    "late init" \notin app =>
        /\ mpe => has_ioe
        /\ \/ mpe /\ pc[Main] \in {"write", "entry", "lazy"}
           \/ pipe > 0
           \/ \E p \in Child : pc[p] \in {"start", "entry", "lazy"}
           => ioe_init_done

(* An application without habits initialises them in mpe_init or not at all. *)
Once ==
    app = {} => /\ inits <= 1
                /\ pc[Main] \in {"app", "fork"} => inits = 0
                /\ \A p \in Proc : pc[p] # "lazy"
                /\ \A p \in Child : pc[p] \notin {"fork", "init", "write"}

Readers == {p \in Proc : pc[p] = "read"}

(* When no entry() returns, every child that waits has its byte or will.    *)
Balance ==
    "returns" \notin app =>
        /\ \A p \in Child : /\ pc[p] \notin {"fork", "init", "write"}
                            /\ pc[p] = "read" => fds[p]
        /\ ~mpe => Readers = {}
        /\ pc[Main] = "fork" => Cardinality(Readers) = i[Main] - 1
        /\ pc[Main] = "init" => Cardinality(Readers) = NCPU - 1 /\ i[Main] = 1
        /\ pc[Main] = "write" => pipe + (NCPU - i[Main]) = Cardinality(Readers)
        /\ pc[Main] \in {"entry", "lazy"} /\ mpe => pipe = Cardinality(Readers)

IInv == TypeOK /\ MainPlace /\ ChildPlace /\ Numbers /\ Bytes /\ Devices /\ Once /\ Balance

-----------------------------------------------------------------------------
(* The first process is one of them, and the sets are finite. *)
LEMMA ProcFacts ==
    /\ Main \in Proc /\ Main \notin Child /\ Proc = Child \cup {Main}
    /\ NCPU \in Nat /\ NCPU >= 1
    /\ IsFiniteSet(Readers) /\ Cardinality(Readers) \in Nat
  <1>1. Main \in Proc /\ NCPU \in Nat /\ NCPU >= 1
    BY NCPUAssumption, ProcAssumption DEF Main, Proc
  <1>2. IsFiniteSet(Proc)
    BY ProcAssumption, FS_Interval DEF Proc
  <1>3. IsFiniteSet(Readers)
    BY <1>2, FS_Subset DEF Readers
  <1> QED
    BY <1>1, <1>3, FS_CardinalityType DEF Child

(* Whoever ends the program ends the first process; the others are as they  *)
(* were or dead.                                                           *)
LEMMA ExitPlaces ==
    ASSUME IInv, NEW p \in Proc, pc[p] \in {"app", "entry"}, ExitPlatform(p)
    PROVE  /\ pc'[Main] = "dead"
           /\ \A q \in Proc : pc'[q] = pc[q] \/ (pc[q] # "none" /\ pc'[q] = "dead")
           /\ pc' \in [Proc -> {"none", "app", "lazy", "fork", "init", "write",
                              "read", "start", "entry", "dead"}]
  <1>1. p # Main => mpe /\ NCPU > 1
    BY DEF IInv, ChildPlace, Child
  <1>2. pc[Main] # "none"
    BY DEF IInv, MainPlace
  <1> QED
    BY <1>1, <1>2, ProcFacts DEF ExitPlatform, IInv, TypeOK

(* That breaks nothing. *)
LEMMA ExitInv == ASSUME IInv, NEW p \in Proc, pc[p] \in {"app", "entry"}, ExitPlatform(p),
           UNCHANGED <<app, cpuid, i, fds, pipe, mpe, has_ioe, ioe_init_done, inits>> PROVE IInv'
  <1>a. /\ pc'[Main] = "dead"
        /\ \A q \in Child : pc'[q] = pc[q] \/ (pc[q] # "none" /\ pc'[q] = "dead")
    BY ExitPlaces DEF Child
  <1>b. \A q \in Child : Starter(q)' => Starter(q)
    BY <1>a DEF Starter
  <1>1. TypeOK'
    BY ExitPlaces DEF IInv, TypeOK
  <1>2. MainPlace'
    BY <1>a DEF IInv, MainPlace
  <1>3. ChildPlace'
    BY <1>a DEF IInv, ChildPlace
  <1>4. Numbers'
    BY <1>a, <1>b DEF IInv, Numbers
  <1>5. Bytes'
    BY <1>a DEF Bytes
  <1>6. Devices'
    BY <1>a, Zenon DEF IInv, Devices
  <1>7. Once'
    BY ExitPlaces, <1>a DEF IInv, Once
  <1>8. Balance'
    <2>1. ~mpe => Readers' = {}
      BY <1>a, ProcFacts DEF IInv, MainPlace, Readers, Child
    <2> QED
      BY <1>a, <2>1 DEF IInv, Balance
  <1> QED
    BY <1>1, <1>2, <1>3, <1>4, <1>5, <1>6, <1>7, <1>8 DEF IInv

(* A second or misplaced ioe_init ends the program. *)
LEMMA IoeInitInv == ASSUME IInv, NEW p \in Proc, IoeInit(p) PROVE IInv'
  <1>a. CASE cpuid[p] # 0 \/ ioe_init_done
    BY <1>a, ExitInv DEF IoeInit
  <1>b. CASE ~(cpuid[p] # 0 \/ ioe_init_done)
    <2>1. has_ioe' /\ UNCHANGED <<pc, app, cpuid, i, fds, pipe, mpe, ioe_init_done, inits>>
      BY <1>b DEF IoeInit
    <2> QED
      BY <2>1, ZenonT(60) DEF IInv, TypeOK, MainPlace, ChildPlace, Numbers, Starter, Bytes, Devices, Once, Balance, Readers
  <1> QED
    BY <1>a, <1>b

(* The devices are not ready: the application is one that may find them so. *)
LEMMA DoIoInv == ASSUME IInv, NEW p \in Proc, DoIo(p), ~ioe_init_done PROVE IInv'
  <1>a. \A q \in Proc : pc'[q] = IF q = p THEN "lazy" ELSE pc[q]
    BY DEF DoIo, Goto, IInv, TypeOK
  <1>b. UNCHANGED <<app, cpuid, i, fds, pipe, mpe, has_ioe, ioe_init_done>> /\ inits' = inits + 1
    BY DEF DoIo
  <1>c. pc[p] \in {"app", "entry"} /\ (pc[p] = "app" => app # {})
    BY Zenon DEF DoIo, IoPlaces
  <1>d. p \in Child => pc[p] = "entry"
    BY <1>c DEF IInv, ChildPlace
  <1>e. \A q \in Child : Starter(q)' <=> Starter(q)
    BY <1>a, <1>b, <1>c, <1>d DEF Starter, Child
  <1>1. TypeOK'
    <2>1. pc' \in [Proc -> {"none", "app", "lazy", "fork", "init", "write",
                        "read", "start", "entry", "dead"}]
      BY DEF DoIo, Goto, IInv, TypeOK
    <2> QED
      BY <1>b, <2>1 DEF IInv, TypeOK
  <1>2. MainPlace'
    BY <1>a, <1>b, <1>c, <1>d, ProcFacts DEF IInv, MainPlace, Child
  <1>3. ChildPlace'
    BY <1>a, <1>b, <1>d DEF IInv, ChildPlace, Child
  <1>4. Numbers'
    BY <1>a, <1>b, <1>c, <1>d, <1>e, ProcFacts DEF IInv, Numbers, Starter, Child
  <1>5. Bytes'
    BY <1>a, <1>b, ProcFacts DEF IInv, Bytes
  <1>6. Devices'
    <2>1. "late init" \notin app /\ pc[p] = "entry" => FALSE
      BY <1>d, ProcFacts, Zenon DEF IInv, Devices, MainPlace, Child
    <2>2. pc[p] = "app" => p = Main /\ ~mpe
      BY <1>c, <1>d, ProcFacts DEF IInv, MainPlace, Child
    <2> QED
      BY <1>a, <1>b, <1>c, <2>1, <2>2, ProcFacts, Zenon DEF IInv, Devices, Child
  <1>7. Once'
    <2>1. app # {}
      BY <1>c, <1>d, ProcFacts, Zenon DEF IInv, Devices, MainPlace, Child
    <2> QED
      BY <1>b, <2>1 DEF Once
  <1>8. Balance'
    <2>1. Readers' = Readers
      BY <1>a, <1>c DEF Readers
    <2> QED
      BY <1>a, <1>b, <1>c, <1>d, <2>1, ProcFacts DEF IInv, Balance, MainPlace, Child
  <1> QED
    BY <1>1, <1>2, <1>3, <1>4, <1>5, <1>6, <1>7, <1>8 DEF IInv

(* The initialisation that do_io began ends. *)
LEMMA LazyDoneInv == ASSUME IInv, NEW p \in Proc, LazyDone(p) PROVE IInv'
  <1>a. \A q \in Proc : pc'[q] = IF q = p THEN (IF mpe THEN "entry" ELSE "app") ELSE pc[q]
    BY DEF LazyDone, Goto, IInv, TypeOK
  <1>b. UNCHANGED <<app, cpuid, i, fds, pipe, mpe, has_ioe, inits>> /\ ioe_init_done' /\ pc[p] = "lazy"
    BY DEF LazyDone
  <1>d. p \in Child => mpe
    BY <1>b DEF IInv, ChildPlace
  <1>e. \A q \in Child : Starter(q)' <=> Starter(q)
    BY <1>a, <1>b, <1>d DEF Starter, Child
  <1>1. TypeOK'
    BY <1>b DEF LazyDone, Goto, IInv, TypeOK
  <1>2. MainPlace'
    BY <1>a, <1>b, <1>d, ProcFacts DEF IInv, MainPlace, Child
  <1>3. ChildPlace'
    BY <1>a, <1>b, <1>d DEF IInv, ChildPlace, Child
  <1>4. Numbers'
    BY <1>a, <1>b, <1>d, <1>e, ProcFacts DEF IInv, Numbers, Child
  <1>5. Bytes'
    BY <1>a, <1>b, ProcFacts DEF IInv, Bytes
  <1>6. Devices'
    BY <1>b, Zenon DEF IInv, Devices
  <1>7. Once'
    BY <1>b DEF IInv, Once
  <1>8. Balance'
    <2>1. Readers' = Readers
      BY <1>a, <1>b DEF Readers
    <2> QED
      BY <1>a, <1>b, <1>d, <2>1, ProcFacts DEF IInv, Balance, Child
  <1> QED
    BY <1>1, <1>2, <1>3, <1>4, <1>5, <1>6, <1>7, <1>8 DEF IInv

(* There is one process still. *)
LEMMA MpeInitInv == ASSUME IInv, NEW p \in Proc, MpeInit(p) PROVE IInv'
  <1>a. \A q \in Proc : pc'[q] = IF q = p THEN "fork" ELSE pc[q]
    BY Zenon DEF MpeInit, Goto, IInv, TypeOK
  <1>b. p = Main /\ ~mpe /\ ("late init" \in app \/ has_ioe)
    BY Zenon DEF MpeInit, IInv, ChildPlace, MainPlace, Child
  <1>c. pc'[Main] = "fork" /\ i'[Main] = 1 /\ fds'[Main] /\ mpe' /\ pipe' = 0
    BY <1>a, <1>b, ProcFacts, Zenon DEF MpeInit, IInv, TypeOK, MainPlace
  <1>d. \A q \in Child : pc'[q] = "none" /\ fds'[q] = fds[q]
    BY <1>a, <1>b, Zenon DEF MpeInit, IInv, TypeOK, MainPlace, Child
  <1>f. UNCHANGED <<app, cpuid, has_ioe, ioe_init_done, inits>>
    BY Zenon DEF MpeInit, ioe
  <1>1. TypeOK'
    <2>1. i' \in [Proc -> 0 .. NCPU]
      <3>1. 1 \in 0 .. NCPU
        BY ProcFacts
      <3> QED
        BY <3>1, Zenon DEF MpeInit, IInv, TypeOK
    <2>2. pc' \in [Proc -> {"none", "app", "lazy", "fork", "init", "write",
                        "read", "start", "entry", "dead"}]
      BY Zenon DEF MpeInit, Goto, IInv, TypeOK
    <2>3. fds' \in [Proc -> BOOLEAN] /\ pipe' = pipe /\ mpe' \in BOOLEAN
      BY Zenon DEF MpeInit, IInv, TypeOK
    <2> QED
      BY <1>f, <2>1, <2>2, <2>3 DEF IInv, TypeOK
  <1>2. MainPlace'
    BY <1>c, <1>f, ProcFacts DEF IInv, MainPlace
  <1>3. ChildPlace'
    BY <1>b, <1>d, Zenon DEF IInv, ChildPlace, MainPlace
  <1>4. Numbers'
    BY <1>d DEF Numbers, Starter
  <1>5. Bytes'
    BY <1>c DEF Bytes
  <1>6. Devices'
    <2>1. ~(pipe' > 0) /\ pc'[Main] \notin {"write", "entry", "lazy"}
      BY <1>c
    <2>2. \A q \in Child : pc'[q] \notin {"start", "entry", "lazy"}
      BY <1>d
    <2> QED
      BY <1>b, <1>f, <2>1, <2>2, Zenon DEF Devices
  <1>7. Once'
    <2>1. app = {} => inits = 0
      BY <1>b DEF MpeInit, IInv, Once
    <2> QED
      BY <1>a, <1>b, <1>d, <1>f, <2>1 DEF IInv, Once, Child
  <1>8. Balance'
    <2>1. Readers' = {}
      BY <1>c, <1>d, ProcFacts DEF Readers
    <2>2. Cardinality({}) = 0
      BY FS_EmptySet
    <2> QED
      BY <1>c, <1>d, <2>1, <2>2 DEF Balance
  <1> QED
    BY <1>1, <1>2, <1>3, <1>4, <1>5, <1>6, <1>7, <1>8 DEF IInv

(* A child gets the number that the loop has, and the pipe if its parent has. *)
LEMMA ForkInv == ASSUME IInv, NEW p \in Proc, Fork(p) PROVE IInv'
  <1>p. PICK q \in Proc : /\ pc[q] = "none"
                          /\ pc' = [pc EXCEPT ![q] = "read"]
                          /\ cpuid' = [cpuid EXCEPT ![q] = cpuid[p]]
                          /\ i' = [i EXCEPT ![q] = i[p], ![p] = i[p] + 1]
                          /\ fds' = [fds EXCEPT ![q] = fds[p]]
    BY Zenon DEF Fork
  <1>b. UNCHANGED <<app, pipe, mpe, has_ioe, ioe_init_done, inits>> /\ pc[p] = "fork" /\ i[p] < NCPU
    BY DEF Fork, ioe
  <1>a. q \in Child /\ q # p /\ Main \in Proc /\ Main # q
    BY <1>b, <1>p, ProcFacts DEF IInv, MainPlace, Child
  <1>c. /\ pc'[q] = "read" /\ cpuid'[q] = cpuid[p] /\ fds'[q] = fds[p] /\ i'[q] = i[p]
        /\ pc'[Main] = pc[Main] /\ cpuid'[Main] = cpuid[Main] /\ fds'[Main] = fds[Main]
        /\ \A r \in Child : r # q => pc'[r] = pc[r] /\ cpuid'[r] = cpuid[r] /\ fds'[r] = fds[r]
    BY <1>a, <1>p DEF IInv, TypeOK, Child
  <1>d. /\ i'[Main] = IF p = Main THEN i[Main] + 1 ELSE i[Main]
        /\ \A r \in Child : r # q /\ r # p => i'[r] = i[r]
    BY <1>a, <1>p DEF IInv, TypeOK, Child
  <1>e. /\ p = Main => fds[Main] /\ i[Main] > 0 /\ pc[Main] = "fork" /\ i[Main] < NCPU
        /\ p # Main => p \in Child /\ ~fds[p]
    BY <1>b DEF IInv, MainPlace, ChildPlace, Child
  <1>f. mpe /\ NCPU > 1
    <2>1. CASE p = Main
      BY <1>e, <2>1, ProcFacts DEF IInv, MainPlace, TypeOK
    <2>2. CASE p # Main
      BY <1>b, <1>e, <2>2 DEF IInv, ChildPlace
    <2> QED
      BY <2>1, <2>2
  <1>g. i[p] \in 0 .. NCPU /\ i[Main] \in 0 .. NCPU
    BY <1>a DEF IInv, TypeOK
  <1>1. TypeOK'
    <2>1. i' \in [Proc -> 0 .. NCPU]
      <3>1. i[p] + 1 \in 0 .. NCPU
        BY <1>b, <1>g, ProcFacts
      <3> QED
        BY <1>g, <1>p, <3>1 DEF IInv, TypeOK
    <2>2. /\ pc' \in [Proc -> {"none", "app", "lazy", "fork", "init", "write",
                        "read", "start", "entry", "dead"}]
          /\ cpuid' \in [Proc -> 0 .. NCPU - 1] /\ fds' \in [Proc -> BOOLEAN]
      BY <1>p DEF IInv, TypeOK
    <2> QED
      BY <1>b, <2>1, <2>2 DEF IInv, TypeOK
  <1>2. MainPlace'
    <2>1. pc[Main] \in {"fork", "init", "write"} => i'[Main] > 0
      BY <1>d, <1>g, ProcFacts DEF IInv, MainPlace
    <2> QED
      BY <1>b, <1>c, <1>f, <2>1 DEF IInv, MainPlace
  <1>3. ChildPlace'
    <2>1. \A r \in Child : r # q /\ pc'[r] \in {"init", "write"} => i'[r] = 1
      BY <1>b, <1>c, <1>d DEF IInv, ChildPlace
    <2> QED
      BY <1>b, <1>c, <1>f, <2>1 DEF IInv, ChildPlace
  <1>4. Numbers'
    <2>1. \A r \in Child : r # q => /\ Starter(r)' <=> Starter(r)
                                    /\ Starter(r) => i'[r] = i[r]
      BY <1>b, <1>c, <1>d DEF Starter
    <2>2. CASE p = Main
      <3>1. i'[q] = i[Main] /\ i'[q] \in 1 .. NCPU - 1 /\ i'[q] < i'[Main] /\ i[Main] < i'[Main]
        BY <1>c, <1>d, <1>e, <1>g, <2>2, ProcFacts
      <3>2. pc[Main] = "fork" /\ i[Main] \in Nat /\ i'[Main] = i[Main] + 1 /\ ~(pc'[q] \in {"entry", "lazy"})
        BY <1>c, <1>d, <1>e, <1>g, <2>2, ProcFacts
      <3>3. \A r \in Child : Starter(r) => i[r] \in 1 .. NCPU - 1 /\ i[r] < i[Main]
        BY <3>2 DEF IInv, Numbers
      <3>4. \A r \in Child : r # q /\ Starter(r)' => i'[r] \in 1 .. NCPU - 1 /\ i'[r] < i[Main]
        BY <2>1, <3>3
      <3>5. \A r \in Child : r # q /\ Starter(r)' => i'[r] # i'[q] /\ i'[r] < i'[Main]
        BY <3>1, <3>2, <3>4, ProcFacts
      <3>6. \A r, s \in Child : r # q /\ s # q /\ Starter(r)' /\ Starter(s)' /\ r # s => i'[r] # i'[s]
        BY <2>1 DEF IInv, Numbers
      <3>7. \A r, s \in Child : Starter(r)' /\ Starter(s)' /\ r # s => i'[r] # i'[s]
        BY <1>a, <3>5, <3>6
      <3>8. \A r \in Child : r # q /\ Starter(r)' => (pc'[r] \in {"entry", "lazy"} => cpuid'[r] = i'[r])
        BY <1>c, <2>1 DEF IInv, Numbers
      <3> QED
        BY <3>1, <3>2, <3>4, <3>5, <3>7, <3>8 DEF Numbers
    <2>3. CASE p # Main
      <3>1. ~Starter(q)' /\ pc'[Main] = pc[Main] /\ i'[Main] = i[Main]
        BY <1>c, <1>d, <1>e, <2>3 DEF Starter
      <3> QED
        BY <1>c, <2>1, <3>1 DEF IInv, Numbers
    <2> QED
      BY <2>2, <2>3
  <1>5. Bytes'
    <2>1. pc[Main] = "write" => p # Main
      BY <1>b
    <2> QED
      BY <1>b, <1>c, <1>d, <2>1 DEF IInv, Bytes
  <1>6. Devices'
    <2>1. (\E r \in Child : pc'[r] \in {"start", "entry", "lazy"})
            => \E r \in Child : pc[r] \in {"start", "entry", "lazy"}
      BY <1>c
    <2> QED
      BY <1>b, <1>c, <2>1, Zenon DEF IInv, Devices
  <1>7. Once'
    <2>1. \A r \in Proc : pc'[r] = pc[r] \/ pc'[r] = "read"
      BY <1>p DEF IInv, TypeOK
    <2> QED
      BY <1>b, <1>c, <2>1 DEF IInv, Once, Child
  <1>8. Balance'
    <2> SUFFICES ASSUME "returns" \notin app
                 PROVE  Balance'
      BY <1>b DEF Balance
    <2>1. p = Main
      BY <1>b, <1>e DEF IInv, Balance
    <2>2. Readers' = Readers \cup {q} /\ q \notin Readers
      BY <1>p DEF Readers, IInv, TypeOK
    <2>3. Cardinality(Readers') = Cardinality(Readers) + 1
      BY <2>2, ProcFacts, FS_AddElement, Zenon
    <2>4. pc'[Main] = "fork" /\ i'[Main] = i[Main] + 1 /\ Cardinality(Readers) = i[Main] - 1
      BY <1>b, <1>c, <1>d, <2>1 DEF IInv, Balance
    <2>5. Cardinality(Readers') = i'[Main] - 1
      BY <2>3, <2>4, <1>g
    <2>6. \A r \in Child : /\ pc'[r] \notin {"fork", "init", "write"}
                           /\ pc'[r] = "read" => fds'[r]
      BY <1>c, <1>e, <2>1 DEF IInv, Balance
    <2>7. mpe' /\ app' = app
      BY <1>b, <1>f
    <2>8. /\ ~(pc'[Main] = "init") /\ ~(pc'[Main] = "write") /\ ~(pc'[Main] \in {"entry", "lazy"})
          /\ ~mpe' => Readers' = {}
          /\ pc'[Main] = "fork" => Cardinality(Readers') = i'[Main] - 1
      BY <1>b, <1>f, <2>4, <2>5
    <2> QED
      BY <2>6, <2>8 DEF Balance
  <1> QED
    BY <1>1, <1>2, <1>3, <1>4, <1>5, <1>6, <1>7, <1>8 DEF IInv

(* The loop is over: the devices, or at once the bytes. *)
LEMMA ForksDoneInv == ASSUME IInv, NEW p \in Proc, ForksDone(p) PROVE IInv'
  <1>a. \A q \in Proc : pc'[q] = IF q = p THEN (IF has_ioe THEN "init" ELSE "write") ELSE pc[q]
    BY DEF ForksDone, Goto, IInv, TypeOK
  <1>b. UNCHANGED <<app, cpuid, fds, pipe, mpe, has_ioe, ioe_init_done>> /\ pc[p] = "fork" /\ i[p] = NCPU
    BY DEF ForksDone
  <1>c. \A q \in Proc : i'[q] = IF q = p THEN 1 ELSE i[q]
    BY DEF ForksDone, IInv, TypeOK
  <1>d. inits' = inits + (IF has_ioe THEN 1 ELSE 0)
    BY DEF ForksDone
  <1>e. \A q \in Child : /\ Starter(q)' <=> Starter(q)
                         /\ Starter(q) => i'[q] = i[q] /\ pc'[q] = pc[q]
    <2>1. \A q \in Child : q # p => pc'[q] = pc[q] /\ i'[q] = i[q]
      BY <1>a, <1>c DEF Child
    <2>2. pc'[p] \in {"init", "write"}
      BY <1>a
    <2> QED
      BY <1>b, <2>1, <2>2 DEF Starter
  <1>f. mpe
    BY <1>b, ProcFacts DEF IInv, MainPlace, ChildPlace, Child
  <1>1. TypeOK'
    <2>1. i' \in [Proc -> 0 .. NCPU]
      <3>1. 1 \in 0 .. NCPU
        BY ProcFacts
      <3> QED
        BY <3>1 DEF ForksDone, IInv, TypeOK
    <2>2. pc' \in [Proc -> {"none", "app", "lazy", "fork", "init", "write",
                        "read", "start", "entry", "dead"}]
      BY DEF ForksDone, Goto, IInv, TypeOK
    <2>3. inits' \in Nat
      BY <1>d DEF IInv, TypeOK
    <2> QED
      BY <1>b, <2>1, <2>2, <2>3 DEF IInv, TypeOK
  <1>2. MainPlace'
    BY <1>a, <1>b, <1>c, <1>f, ProcFacts DEF IInv, MainPlace, Child
  <1>3. ChildPlace'
    BY <1>a, <1>b, <1>c DEF IInv, ChildPlace, Child
  <1>4. Numbers'
    <2>1. pc'[Main] = "fork" => pc[Main] = "fork" /\ i'[Main] = i[Main]
      BY <1>a, <1>c, ProcFacts
    <2> QED
      BY <1>b, <1>e, <2>1 DEF IInv, Numbers
  <1>5. Bytes'
    BY <1>a, <1>b, <1>c, ProcFacts DEF IInv, Bytes, Child
  <1>6. Devices'
    BY <1>a, <1>b, <1>f, ProcFacts, Zenon DEF IInv, Devices, Child
  <1>7. Once'
    <2> SUFFICES ASSUME app = {}
                 PROVE  Once'
      BY <1>b DEF Once
    <2>1. p = Main /\ inits = 0
      BY <1>b, ProcFacts DEF IInv, Once, Child
    <2>2. inits' <= 1
      BY <1>d, <2>1
    <2> QED
      BY <1>a, <2>1, <2>2, ProcFacts DEF IInv, Once, Child
  <1>8. Balance'
    <2> SUFFICES ASSUME "returns" \notin app
                 PROVE  Balance'
      BY <1>b DEF Balance
    <2>1. p = Main
      BY <1>b, ProcFacts DEF IInv, Balance
    <2>2. Readers' = Readers
      BY <1>a, <1>b DEF Readers
    <2>3. Cardinality(Readers) = NCPU - 1 /\ pipe = 0 /\ i'[Main] = 1
      BY <1>b, <1>c, <2>1, ProcFacts DEF IInv, Balance, Bytes
    <2>4. pipe' + (NCPU - i'[Main]) = Cardinality(Readers')
      BY <1>b, <2>2, <2>3, ProcFacts
    <2>5. pc'[Main] \in {"init", "write"} /\ \A q \in Child : pc'[q] = pc[q]
      BY <1>a, <2>1, ProcFacts DEF Child
    <2> QED
      BY <1>b, <1>f, <2>2, <2>3, <2>4, <2>5 DEF IInv, Balance
  <1> QED
    BY <1>1, <1>2, <1>3, <1>4, <1>5, <1>6, <1>7, <1>8 DEF IInv

(* The devices are ready. *)
LEMMA InitDoneInv == ASSUME IInv, NEW p \in Proc, InitDone(p) PROVE IInv'
  <1>a. \A q \in Proc : pc'[q] = IF q = p THEN "write" ELSE pc[q]
    BY DEF InitDone, Goto, IInv, TypeOK
  <1>b. UNCHANGED <<app, cpuid, i, fds, pipe, mpe, has_ioe, inits>> /\ ioe_init_done' /\ pc[p] = "init"
    BY DEF InitDone
  <1>e. \A q \in Child : Starter(q)' <=> Starter(q)
    BY <1>a, <1>b DEF Starter, Child
  <1>1. TypeOK'
    BY <1>b DEF InitDone, Goto, IInv, TypeOK
  <1>2. MainPlace'
    BY <1>a, <1>b, ProcFacts DEF IInv, MainPlace, Child
  <1>3. ChildPlace'
    BY <1>a, <1>b DEF IInv, ChildPlace, Child
  <1>4. Numbers'
    BY <1>a, <1>b, <1>e, ProcFacts DEF IInv, Numbers, Child
  <1>5. Bytes'
    BY <1>a, <1>b, ProcFacts DEF IInv, Bytes, MainPlace, Child
  <1>6. Devices'
    BY <1>b, Zenon DEF IInv, Devices
  <1>7. Once'
    BY <1>a, <1>b, ProcFacts DEF IInv, Once, Child
  <1>8. Balance'
    <2>1. Readers' = Readers
      BY <1>a, <1>b DEF Readers
    <2>2. "returns" \notin app => p = Main
      BY <1>b, ProcFacts DEF IInv, Balance
    <2>3. p = Main /\ "returns" \notin app => pipe + (NCPU - i[Main]) = Cardinality(Readers)
      BY <1>b, ProcFacts DEF IInv, Balance, Bytes
    <2>4. p = Main => pc'[Main] = "write" /\ \A q \in Child : pc'[q] = pc[q]
      BY <1>a, ProcFacts DEF Child
    <2>5. p = Main => mpe
      BY <1>b DEF IInv, MainPlace
    <2> QED
      BY <1>b, <2>1, <2>2, <2>3, <2>4, <2>5 DEF IInv, Balance
  <1> QED
    BY <1>1, <1>2, <1>3, <1>4, <1>5, <1>6, <1>7, <1>8 DEF IInv

(* The first process writes a byte; a child has no pipe to write to. *)
LEMMA WriteInv == ASSUME IInv, NEW p \in Proc, Write(p) PROVE IInv'
  <1>b. UNCHANGED <<app, cpuid, fds, mpe, has_ioe, ioe_init_done, inits>> /\ pc[p] = "write" /\ i[p] < NCPU
    BY DEF Write, ioe
  <1>a. \A r \in Proc : i'[r] = IF r = p THEN i[p] + 1 ELSE i[r]
    BY DEF Write, IInv, TypeOK
  <1>c. /\ fds[p] => pipe' = pipe + 1 /\ pc' = pc
        /\ ~fds[p] => pipe' = pipe /\ pc' = [pc EXCEPT ![p] = "dead"]
    BY DEF Write, Goto
  <1>d. fds[p] <=> p = Main
    BY <1>b DEF IInv, MainPlace, ChildPlace, Child
  <1>e. /\ \A r \in Proc : r # p => pc'[r] = pc[r]
        /\ p = Main => pc'[p] = "write"
        /\ p # Main => pc'[p] = "dead"
    BY <1>b, <1>c, <1>d DEF IInv, TypeOK
  <1>f. i[p] \in 0 .. NCPU /\ pipe \in 0 .. NCPU - 1 /\ mpe
    BY <1>b DEF IInv, TypeOK, MainPlace, ChildPlace, Child
  <1>g. \A r \in Child : /\ Starter(r)' <=> Starter(r)
                         /\ Starter(r) => i'[r] = i[r] /\ pc'[r] = pc[r]
    <2>1. pc'[p] \in {"write", "dead"}
      BY <1>e
    <2>2. \A r \in Child : r # p => pc'[r] = pc[r] /\ i'[r] = i[r]
      BY <1>a, <1>e DEF Child
    <2> QED
      BY <1>b, <2>1, <2>2 DEF Starter
  <1>1. TypeOK'
    <2>1. i' \in [Proc -> 0 .. NCPU]
      <3>1. i[p] + 1 \in 0 .. NCPU
        BY <1>b, <1>f, ProcFacts
      <3> QED
        BY <3>1 DEF Write, IInv, TypeOK
    <2>2. pc' \in [Proc -> {"none", "app", "lazy", "fork", "init", "write",
                        "read", "start", "entry", "dead"}]
      BY <1>c, <1>d DEF IInv, TypeOK
    <2>3. pipe' \in 0 .. NCPU - 1
      <3>1. p = Main => pipe < i[p]
        BY <1>b DEF IInv, Bytes
      <3> QED
        BY <1>b, <1>c, <1>d, <1>f, <3>1, ProcFacts
    <2> QED
      BY <1>b, <2>1, <2>2, <2>3 DEF IInv, TypeOK
  <1>2. MainPlace'
    <2>1. pc'[Main] \in {"fork", "init", "write"} => pc[Main] = pc'[Main] /\ i'[Main] > 0
      BY <1>a, <1>b, <1>e, <1>f, ProcFacts DEF IInv, MainPlace
    <2>2. pc'[Main] = pc[Main]
      BY <1>b, <1>e, ProcFacts
    <2> QED
      BY <1>b, <1>f, <2>1, <2>2 DEF IInv, MainPlace
  <1>3. ChildPlace'
    <2>1. \A r \in Child : r # p => pc'[r] = pc[r] /\ i'[r] = i[r]
      BY <1>a, <1>e DEF Child
    <2>2. p \in Child => pc'[p] = "dead" /\ NCPU > 1
      BY <1>b, <1>e DEF IInv, ChildPlace, Child
    <2> QED
      BY <1>b, <1>f, <2>1, <2>2 DEF IInv, ChildPlace
  <1>4. Numbers'
    <2>1. pc'[Main] = "fork" => pc[Main] = "fork" /\ i'[Main] = i[Main]
      BY <1>a, <1>b, <1>e, ProcFacts
    <2> QED
      BY <1>b, <1>g, <2>1 DEF IInv, Numbers
  <1>5. Bytes'
    <2>1. CASE p = Main
      <3>1. pipe < i[Main] /\ pipe' = pipe + 1 /\ i'[Main] = i[Main] + 1 /\ pc'[Main] = "write"
        BY <1>a, <1>b, <1>c, <1>d, <1>e, <2>1 DEF IInv, Bytes
      <3> QED
        BY <1>f, <2>1, <3>1 DEF Bytes
    <2>2. CASE p # Main
      BY <1>a, <1>c, <1>d, <1>e, <2>2, ProcFacts DEF IInv, Bytes
    <2> QED
      BY <2>1, <2>2
  <1>6. Devices'
    <2>1. \/ mpe' /\ pc'[Main] \in {"write", "entry", "lazy"}
          \/ \E r \in Child : pc'[r] \in {"start", "entry", "lazy"}
          => \/ mpe /\ pc[Main] \in {"write", "entry", "lazy"}
             \/ \E r \in Child : pc[r] \in {"start", "entry", "lazy"}
      BY <1>b, <1>e, ProcFacts DEF Child
    <2>2. pipe' > 0 => pipe > 0 \/ (mpe /\ pc[Main] = "write")
      BY <1>b, <1>c, <1>d, <1>f
    <2> QED
      BY <1>b, <2>1, <2>2, Zenon DEF IInv, Devices
  <1>7. Once'
    <2>1. \A r \in Proc : pc'[r] = pc[r] \/ pc'[r] = "dead"
      BY <1>b, <1>e
    <2> QED
      BY <1>b, <2>1, ProcFacts DEF IInv, Once, Child
  <1>8. Balance'
    <2> SUFFICES ASSUME "returns" \notin app
                 PROVE  Balance'
      BY <1>b DEF Balance
    <2>1. p = Main
      BY <1>b, ProcFacts DEF IInv, Balance
    <2>2. pc' = pc /\ pipe' = pipe + 1 /\ i'[Main] = i[Main] + 1
      BY <1>a, <1>c, <1>d, <2>1, ProcFacts
    <2>3. Readers' = Readers /\ Cardinality(Readers) \in Nat /\ NCPU \in Nat
      BY <2>2, ProcFacts DEF Readers
    <2>4. pipe' + (NCPU - i'[Main]) = Cardinality(Readers')
      <3>1. pipe + (NCPU - i[Main]) = Cardinality(Readers)
        BY <1>b, <2>1 DEF IInv, Balance
      <3> QED
        BY <1>f, <2>1, <2>2, <2>3, <3>1
    <2>5. pc'[Main] = "write" /\ \A r \in Child : pc'[r] = pc[r]
      BY <1>b, <2>1, <2>2
    <2> QED
      BY <1>b, <1>f, <2>3, <2>4, <2>5 DEF IInv, Balance
  <1> QED
    BY <1>1, <1>2, <1>3, <1>4, <1>5, <1>6, <1>7, <1>8 DEF IInv

(* All bytes are written; a child never comes here. *)
LEMMA WritesDoneInv == ASSUME IInv, NEW p \in Proc, WritesDone(p) PROVE IInv'
  <1>b. UNCHANGED <<app, cpuid, i, pipe, mpe, has_ioe, ioe_init_done, inits>> /\ pc[p] = "write" /\ i[p] = NCPU
    BY DEF WritesDone, ioe
  <1>d. p = Main
    BY <1>b, ProcFacts DEF IInv, ChildPlace, Child
  <1>a. /\ pc'[Main] = "entry" /\ fds'[Main] = FALSE
        /\ \A r \in Child : pc'[r] = pc[r] /\ fds'[r] = fds[r]
    BY <1>d, ProcFacts DEF WritesDone, Goto, IInv, TypeOK, Child
  <1>f. mpe
    BY <1>b, <1>d DEF IInv, MainPlace
  <1>g. \A r \in Child : Starter(r)' <=> Starter(r)
    BY <1>a DEF Starter
  <1>1. TypeOK'
    <2>1. /\ pc' \in [Proc -> {"none", "app", "lazy", "fork", "init", "write",
                        "read", "start", "entry", "dead"}]
          /\ fds' \in [Proc -> BOOLEAN]
      BY DEF WritesDone, Goto, IInv, TypeOK
    <2> QED
      BY <1>b, <2>1 DEF IInv, TypeOK
  <1>2. MainPlace'
    BY <1>a, <1>b, <1>f DEF IInv, MainPlace
  <1>3. ChildPlace'
    BY <1>a, <1>b DEF IInv, ChildPlace
  <1>4. Numbers'
    BY <1>a, <1>b, <1>g DEF IInv, Numbers
  <1>5. Bytes'
    BY <1>a DEF Bytes
  <1>6. Devices'
    <2>1. "late init" \notin app => has_ioe /\ ioe_init_done
      BY <1>b, <1>d, <1>f, Zenon DEF IInv, Devices
    <2> QED
      BY <1>b, <2>1, Zenon DEF Devices
  <1>7. Once'
    <2>1. pc'[Main] # "lazy" /\ pc'[Main] \notin {"app", "fork"}
      BY <1>a
    <2> QED
      BY <1>a, <1>b, <2>1, ProcFacts DEF IInv, Once, Child
  <1>8. Balance'
    <2>1. Readers' = Readers
      BY <1>a, <1>b, <1>d, ProcFacts DEF Readers
    <2>2. "returns" \notin app => pipe = Cardinality(Readers)
      <3>1. "returns" \notin app => pipe + (NCPU - i[Main]) = Cardinality(Readers)
        BY <1>b, <1>d DEF IInv, Balance
      <3>2. pipe \in Nat
        BY ProcFacts DEF IInv, TypeOK
      <3> QED
        BY <1>b, <1>d, <3>1, <3>2, ProcFacts
    <2> QED
      BY <1>a, <1>b, <1>f, <2>1, <2>2 DEF IInv, Balance
  <1> QED
    BY <1>1, <1>2, <1>3, <1>4, <1>5, <1>6, <1>7, <1>8 DEF IInv

(* A child takes a byte, or fails for want of the pipe. *)
LEMMA ReadInv == ASSUME IInv, NEW p \in Proc, Read(p) PROVE IInv'
  <1>b. UNCHANGED <<app, cpuid, i, fds, mpe, has_ioe, ioe_init_done, inits>> /\ pc[p] = "read"
    BY DEF Read, ioe
  <1>d. p \in Child /\ Main # p
    BY <1>b DEF IInv, MainPlace, Child
  <1>a. /\ \A r \in Proc : r # p => pc'[r] = pc[r]
        /\ fds[p] => pc'[p] = "start" /\ pipe > 0 /\ pipe' = pipe - 1
        /\ ~fds[p] => pc'[p] = "dead" /\ pipe' = pipe
    BY DEF Read, Goto, IInv, TypeOK
  <1>c. pc'[Main] = pc[Main] /\ \A r \in Child : r # p => pc'[r] = pc[r]
    BY <1>a, <1>d, ProcFacts DEF Child
  <1>f. mpe /\ pipe \in 0 .. NCPU - 1 /\ NCPU > 1
    BY <1>b, <1>d DEF IInv, TypeOK, ChildPlace
  <1>g. \A r \in Child : Starter(r)' <=> Starter(r)
    <2>1. Starter(p)' <=> Starter(p)
      BY <1>a, <1>b DEF Starter
    <2>2. \A r \in Child : r # p => (Starter(r)' <=> Starter(r))
      BY <1>b, <1>c DEF Starter
    <2> QED
      BY <2>1, <2>2
  <1>1. TypeOK'
    <2>1. pc' \in [Proc -> {"none", "app", "lazy", "fork", "init", "write",
                        "read", "start", "entry", "dead"}]
      BY DEF Read, Goto, IInv, TypeOK
    <2>2. pipe' \in 0 .. NCPU - 1
      BY <1>a, <1>f, ProcFacts DEF IInv, TypeOK
    <2> QED
      BY <1>b, <2>1, <2>2 DEF IInv, TypeOK
  <1>2. MainPlace'
    BY <1>b, <1>c, <1>f DEF IInv, MainPlace
  <1>3. ChildPlace'
    <2>1. pc'[p] \in {"start", "dead"} /\ (pc'[p] = "start" => fds[p])
      BY <1>a DEF IInv, TypeOK
    <2> QED
      BY <1>b, <1>c, <1>f, <2>1 DEF IInv, ChildPlace
  <1>4. Numbers'
    <2>1. pc'[p] \notin {"entry", "lazy"}
      BY <1>a DEF IInv, TypeOK
    <2> QED
      BY <1>b, <1>c, <1>g, <2>1 DEF IInv, Numbers
  <1>5. Bytes'
    <2>1. pipe' <= pipe /\ pipe \in Nat /\ pipe' \in Nat /\ i[Main] \in Nat
      BY <1>1, <1>a, <1>f, ProcFacts DEF IInv, TypeOK
    <2>2. pc[Main] \in {"fork", "init"} => pipe = 0
      BY DEF IInv, Bytes
    <2>3. pc[Main] = "write" => pipe < i[Main]
      BY DEF IInv, Bytes
    <2>4. pc'[Main] \in {"fork", "init"} => pipe' = 0
      BY <1>c, <2>1, <2>2
    <2>5. pc'[Main] = "write" => pipe' < i'[Main]
      BY <1>b, <1>c, <2>1, <2>3
    <2> QED
      BY <2>4, <2>5 DEF Bytes
  <1>6. Devices'
    <2>1. \/ mpe' /\ pc'[Main] \in {"write", "entry", "lazy"}
          \/ pipe' > 0
          \/ \E r \in Child : pc'[r] \in {"start", "entry", "lazy"}
          => \/ mpe /\ pc[Main] \in {"write", "entry", "lazy"}
             \/ pipe > 0
             \/ \E r \in Child : pc[r] \in {"start", "entry", "lazy"}
      <3>1. pipe' > 0 => pipe > 0
        BY <1>a, <1>f
      <3>2. pc'[p] \in {"start", "entry", "lazy"} => pipe > 0
        BY <1>a
      <3> QED
        BY <1>b, <1>c, <3>1, <3>2
    <2> QED
      BY <1>b, <2>1, Zenon DEF IInv, Devices
  <1>7. Once'
    <2>1. \A r \in Proc : pc'[r] = pc[r] \/ pc'[r] \in {"start", "dead"}
      BY <1>a DEF IInv, TypeOK
    <2> QED
      BY <1>b, <1>c, <2>1, ProcFacts DEF IInv, Once, Child
  <1>8. Balance'
    <2> SUFFICES ASSUME "returns" \notin app
                 PROVE  Balance'
      BY <1>b DEF Balance
    <2>1. fds[p] /\ pc'[p] = "start" /\ pipe > 0 /\ pipe' = pipe - 1
      BY <1>a, <1>b, <1>d DEF IInv, Balance
    <2>2. Readers' = Readers \ {p} /\ p \in Readers
      BY <1>a, <1>b, <2>1 DEF Readers
    <2>3. Cardinality(Readers') = Cardinality(Readers) - 1
      BY <2>2, ProcFacts, FS_RemoveElement, Zenon
    <2>4. pc[Main] \notin {"fork", "init"}
      BY <1>f, <2>1 DEF IInv, Bytes
    <2>5. i[Main] \in Nat /\ NCPU \in Nat /\ Cardinality(Readers) \in Nat /\ pipe \in Nat
      BY <1>f, ProcFacts DEF IInv, TypeOK
    <2>6. pc'[Main] = "write" => pipe' + (NCPU - i'[Main]) = Cardinality(Readers')
      <3>1. pc[Main] = "write" => pipe + (NCPU - i[Main]) = Cardinality(Readers)
        BY DEF IInv, Balance
      <3> QED
        BY <1>b, <1>c, <2>1, <2>3, <2>5, <3>1
    <2>7. pc'[Main] \in {"entry", "lazy"} => pipe' = Cardinality(Readers')
      <3>1. pc[Main] \in {"entry", "lazy"} => pipe = Cardinality(Readers)
        BY <1>f DEF IInv, Balance
      <3> QED
        BY <1>c, <2>1, <2>3, <2>5, <3>1
    <2>8. \A r \in Child : /\ pc'[r] \notin {"fork", "init", "write"}
                           /\ pc'[r] = "read" => fds'[r]
      BY <1>b, <1>c, <2>1 DEF IInv, Balance
    <2>9. mpe' /\ pc'[Main] \notin {"fork", "init"}
      BY <1>b, <1>c, <1>f, <2>4
    <2> QED
      BY <2>6, <2>7, <2>8, <2>9 DEF Balance
  <1> QED
    BY <1>1, <1>2, <1>3, <1>4, <1>5, <1>6, <1>7, <1>8 DEF IInv

(* A child takes its number and calls entry(). *)
LEMMA StartInv == ASSUME IInv, NEW p \in Proc, Start(p) PROVE IInv'
  <1>b. UNCHANGED <<app, i, pipe, mpe, has_ioe, ioe_init_done, inits>> /\ pc[p] = "start"
    BY DEF Start, ioe
  <1>d. p \in Child /\ Main # p
    BY <1>b DEF IInv, MainPlace, Child
  <1>a. /\ pc'[p] = "entry" /\ fds'[p] = FALSE /\ cpuid'[p] = i[p]
        /\ \A r \in Proc : r # p => pc'[r] = pc[r] /\ fds'[r] = fds[r] /\ cpuid'[r] = cpuid[r]
    BY DEF Start, Goto, IInv, TypeOK
  <1>c. /\ pc'[Main] = pc[Main] /\ fds'[Main] = fds[Main] /\ cpuid'[Main] = cpuid[Main]
        /\ \A r \in Child : r # p => pc'[r] = pc[r] /\ fds'[r] = fds[r] /\ cpuid'[r] = cpuid[r]
    BY <1>a, <1>d, ProcFacts DEF Child
  <1>f. mpe /\ NCPU > 1 /\ Starter(p) /\ i[p] \in 1 .. NCPU - 1
    BY <1>b, <1>d DEF IInv, ChildPlace, Numbers, Starter
  <1>g. \A r \in Child : Starter(r)' <=> Starter(r)
    <2>1. Starter(p)'
      BY <1>a DEF Starter
    <2>2. \A r \in Child : r # p => (Starter(r)' <=> Starter(r))
      BY <1>c DEF Starter
    <2> QED
      BY <1>f, <2>1, <2>2
  <1>1. TypeOK'
    <2>1. cpuid' \in [Proc -> 0 .. NCPU - 1]
      <3>1. i[p] \in 0 .. NCPU - 1
        BY <1>f, ProcFacts
      <3> QED
        BY <3>1 DEF Start, IInv, TypeOK
    <2>2. /\ pc' \in [Proc -> {"none", "app", "lazy", "fork", "init", "write",
                        "read", "start", "entry", "dead"}]
          /\ fds' \in [Proc -> BOOLEAN]
      BY DEF Start, Goto, IInv, TypeOK
    <2> QED
      BY <1>b, <2>1, <2>2 DEF IInv, TypeOK
  <1>2. MainPlace'
    BY <1>b, <1>c, <1>f DEF IInv, MainPlace
  <1>3. ChildPlace'
    BY <1>a, <1>b, <1>c, <1>f DEF IInv, ChildPlace
  <1>4. Numbers'
    BY <1>a, <1>b, <1>c, <1>g DEF IInv, Numbers
  <1>5. Bytes'
    BY <1>b, <1>c DEF IInv, Bytes
  <1>6. Devices'
    <2>1. "late init" \notin app => has_ioe /\ ioe_init_done
      BY <1>b, <1>d, <1>f, Zenon DEF IInv, Devices
    <2> QED
      BY <1>b, <2>1, Zenon DEF Devices
  <1>7. Once'
    <2>1. \A r \in Proc : pc'[r] = pc[r] \/ pc'[r] = "entry"
      BY <1>a
    <2> QED
      BY <1>b, <1>c, <2>1, ProcFacts DEF IInv, Once, Child
  <1>8. Balance'
    <2>1. Readers' = Readers
      BY <1>a, <1>b DEF Readers
    <2>2. "returns" \notin app => \A r \in Child : /\ pc'[r] \notin {"fork", "init", "write"}
                                                   /\ pc'[r] = "read" => fds'[r]
      BY <1>a, <1>c DEF IInv, Balance
    <2> QED
      BY <1>b, <1>c, <2>1, <2>2 DEF IInv, Balance
  <1> QED
    BY <1>1, <1>2, <1>3, <1>4, <1>5, <1>6, <1>7, <1>8 DEF IInv

(* A child whose entry() returns goes on with the loop, without the pipe. *)
LEMMA ReturnedInv == ASSUME IInv, NEW p \in Child, EntryReturn(p) PROVE IInv'
  <1>b. /\ UNCHANGED <<app, cpuid, fds, pipe, mpe, has_ioe, ioe_init_done, inits>>
        /\ pc[p] = "entry" /\ "returns" \in app /\ p # Main /\ p \in Proc
    BY DEF EntryReturn, Child, ioe
  <1>a. /\ pc'[p] = "fork" /\ i'[p] = i[p] + 1
        /\ pc'[Main] = pc[Main] /\ i'[Main] = i[Main]
        /\ \A r \in Child : r # p => pc'[r] = pc[r] /\ i'[r] = i[r]
    BY <1>b, ProcFacts DEF EntryReturn, Goto, IInv, TypeOK, Child
  <1>f. mpe /\ NCPU > 1 /\ ~fds[p] /\ i[p] \in 1 .. NCPU - 1
    BY <1>b DEF IInv, ChildPlace, Numbers, Starter
  <1>g. \A r \in Child : Starter(r)' => Starter(r) /\ r # p
    BY <1>a, <1>b DEF Starter
  <1>1. TypeOK'
    <2>1. i' \in [Proc -> 0 .. NCPU]
      <3>1. i[p] + 1 \in 0 .. NCPU
        BY <1>f, ProcFacts
      <3> QED
        BY <1>b, <3>1 DEF EntryReturn, IInv, TypeOK
    <2>2. pc' \in [Proc -> {"none", "app", "lazy", "fork", "init", "write",
                        "read", "start", "entry", "dead"}]
      BY <1>b DEF EntryReturn, Goto, IInv, TypeOK
    <2> QED
      BY <1>b, <2>1, <2>2 DEF IInv, TypeOK
  <1>2. MainPlace'
    BY <1>a, <1>b, <1>f DEF IInv, MainPlace
  <1>3. ChildPlace'
    BY <1>a, <1>b, <1>f DEF IInv, ChildPlace
  <1>4. Numbers'
    BY <1>a, <1>b, <1>g DEF IInv, Numbers
  <1>5. Bytes'
    BY <1>a, <1>b DEF IInv, Bytes
  <1>6. Devices'
    <2>1. (\E r \in Child : pc'[r] \in {"start", "entry", "lazy"})
            => \E r \in Child : pc[r] \in {"start", "entry", "lazy"}
      BY <1>a
    <2> QED
      BY <1>a, <1>b, <2>1, Zenon DEF IInv, Devices
  <1>7. Once'
    BY <1>b DEF Once
  <1>8. Balance'
    BY <1>b DEF Balance
  <1> QED
    BY <1>1, <1>2, <1>3, <1>4, <1>5, <1>6, <1>7, <1>8 DEF IInv

(* The invariant holds at first, when the program is alone. *)
LEMMA InitIInv == Init => IInv
  <1> SUFFICES ASSUME Init
               PROVE  IInv
    OBVIOUS
  <1>a. /\ pc[Main] = "app" /\ \A q \in Child : pc[q] = "none"
        /\ \A q \in Proc : cpuid[q] = 0 /\ i[q] = 0 /\ ~fds[q]
    BY ProcFacts DEF Init, Child
  <1>b. pipe = 0 /\ mpe = FALSE /\ has_ioe = FALSE /\ ioe_init_done = FALSE /\ inits = 0
    BY DEF Init
  <1>1. TypeOK
    <2>1. 0 \in 0 .. NCPU - 1 /\ 0 \in 0 .. NCPU
      BY ProcFacts
    <2> QED
      BY <2>1, Zenon DEF Init, TypeOK
  <1>2. MainPlace
    BY <1>a, <1>b, ProcFacts DEF MainPlace
  <1>3. ChildPlace
    BY <1>a, ProcFacts DEF ChildPlace, Child
  <1>4. Numbers
    BY <1>a DEF Numbers, Starter
  <1>5. Bytes
    BY <1>a DEF Bytes
  <1>6. Devices
    <2>1. ~mpe /\ ~(pipe > 0) /\ ~\E q \in Child : pc[q] \in {"start", "entry", "lazy"}
      BY <1>a, <1>b
    <2> QED
      BY <2>1, Zenon DEF Devices
  <1>7. Once
    BY <1>a, <1>b, ProcFacts DEF Once, Child
  <1>8. Balance
    <2>1. Readers = {}
      BY <1>a, ProcFacts DEF Readers, Child
    <2> QED
      BY <1>a, <1>b, <2>1 DEF Balance
  <1> QED
    BY <1>1, <1>2, <1>3, <1>4, <1>5, <1>6, <1>7, <1>8 DEF IInv

(* Every step keeps it. *)
LEMMA NextIInv == IInv /\ [Next]_vars => IInv'
  <1> SUFFICES ASSUME IInv, [Next]_vars
               PROVE  IInv'
    OBVIOUS
  <1>1. CASE UNCHANGED vars
    BY <1>1, ZenonT(60) DEF vars, IInv, TypeOK, MainPlace, ChildPlace, Numbers, Starter, Bytes, Devices, Once, Balance, Readers
  <1>2. ASSUME NEW p \in Proc, Step(p)
        PROVE  IInv'
    BY <1>2, MpeInitInv, ForkInv, ForksDoneInv, InitDoneInv, WriteInv, WritesDoneInv,
       ReadInv, StartInv, LazyDoneInv DEF Step, Start0
  <1>3. ASSUME NEW p \in Proc, App(p)
        PROVE  IInv'
    <2>1. CASE IoeInit(p)
      BY <2>1, IoeInitInv
    <2>2. CASE DoIo(p) /\ ~ioe_init_done
      BY <2>2, DoIoInv
    <2>3. CASE DoIo(p) /\ ioe_init_done
      <3>1. UNCHANGED vars
        BY <2>3 DEF DoIo, vars
      <3> QED
        BY <3>1, ZenonT(60) DEF vars, IInv, TypeOK, MainPlace, ChildPlace, Numbers, Starter, Bytes, Devices, Once, Balance, Readers
    <2>4. CASE Halt(p)
      BY <2>4, ExitInv DEF Halt, ioe
    <2>5. CASE EntryReturn(p) /\ p = Main
      BY <2>5, ExitInv DEF EntryReturn, ioe
    <2>6. CASE EntryReturn(p) /\ p # Main
      BY <2>6, ReturnedInv DEF Child
    <2> QED
      BY <1>3, <2>1, <2>2, <2>3, <2>4, <2>5, <2>6 DEF App
  <1> QED
    BY <1>1, <1>2, <1>3 DEF Next

-----------------------------------------------------------------------------
(* The parts of the invariant that a reader asks for. *)
LEMMA IInvCpus == IInv => DistinctCpus
  <1> SUFFICES ASSUME IInv, NEW p \in Proc, NEW q \in Proc,
                      Running(p), Running(q), p # q
               PROVE  cpuid[p] # cpuid[q]
    BY DEF IInv, DistinctCpus
  <1>1. \A r \in Child : Running(r) => cpuid[r] \in 1 .. NCPU - 1 /\ cpuid[r] = i[r] /\ Starter(r)
    BY DEF IInv, Numbers, Starter, Running
  <1>2. cpuid[Main] = 0
    BY DEF IInv, MainPlace
  <1>3. CASE p \in Child /\ q \in Child
    BY <1>1, <1>3 DEF IInv, Numbers
  <1>4. CASE p = Main \/ q = Main
    <2>1. 0 \notin 1 .. NCPU - 1
      BY ProcFacts
    <2> QED
      BY <1>1, <1>2, <1>4, <2>1 DEF Child
  <1> QED
    BY <1>3, <1>4 DEF Child

LEMMA IInvTidy == IInv => IoeOnceIfTidy
  <1> SUFFICES ASSUME IInv
               PROVE  IoeOnceIfTidy
    OBVIOUS
  <1>1. DevicesFirst
    BY Zenon DEF IInv, Devices, DevicesFirst, Running, Child
  <1>2. app = {} => IoeOnce
    BY DEF IInv, Once, IoeOnce
  <1> QED
    BY <1>1, <1>2 DEF IoeOnceIfTidy

LEMMA IInvBalance == IInv => PipeBalance
  <1> SUFFICES ASSUME IInv, "returns" \notin app, pc[Main] \in {"write", "entry"}
               PROVE  pipe + (IF pc[Main] = "write" THEN NCPU - i[Main] ELSE 0) = Cardinality(Readers)
    BY DEF PipeBalance, Readers
  <1>1. mpe
    BY DEF IInv, MainPlace
  <1>2. CASE pc[Main] = "write"
    BY <1>2 DEF IInv, Balance
  <1>3. CASE pc[Main] = "entry"
    <2>1. pipe = Cardinality(Readers) /\ pipe \in Nat
      BY <1>1, <1>3, ProcFacts DEF IInv, Balance, TypeOK
    <2> QED
      BY <1>3, <2>1
  <1> QED
    BY <1>2, <1>3

-----------------------------------------------------------------------------
(* The invariant of mpe_init is inductive, for any number of CPUs and any   *)
(* application.                                                            *)
THEOREM NativeMpeInvariant == Spec => []IInv
  <1>1. Init => IInv
    BY InitIInv
  <1>2. IInv /\ [Next]_vars => IInv'
    BY NextIInv
  <1> QED
    BY <1>1, <1>2, PTL DEF Spec

(* cpu_current() tells the processes that run entry() apart, even when some *)
(* entry() returned and its process went on forking.                       *)
THEOREM NativeDistinctCpus == Spec => []DistinctCpus
  BY NativeMpeInvariant, IInvCpus, PTL

(* Whoever calls ioe_init first finds the devices ready in entry(), and     *)
(* without any habit they are initialised once.                            *)
THEOREM NativeIoeOnce == Spec => []IoeOnceIfTidy
  BY NativeMpeInvariant, IInvTidy, PTL

(* Every child that waits in read() has its byte, or will have it.          *)
THEOREM NativePipeBalance == Spec => []PipeBalance
  BY NativeMpeInvariant, IInvBalance, PTL
==============================================================================
