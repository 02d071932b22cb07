---------------------------- MODULE X86Vme_proofs ----------------------------
(* Proofs about X86Vme: IInv is an inductive invariant, and what it implies. *)
EXTENDS X86Vme, Integers, SequenceTheorems, WellFoundedInduction, TLAPS

-----------------------------------------------------------------------------
(* Induction over the levels of the tables.                                *)

(* A set of naturals with a smallest element. *)
LEMMA HasLeast ==
    ASSUME NEW T \in SUBSET Nat, T # {}
    PROVE  \E x \in T : \A y \in T : x <= y
  <1> DEFINE R == OpToRel(<, Nat)
  <1>1. IsWellFoundedOn(R, Nat)
    BY NatLessThanWellFounded, Zenon
  <1>2. \A x, y \in Nat : x < y => <<x, y>> \in R
    BY DEF OpToRel
  <1> HIDE DEF R
  <1>3. PICK x \in T : \A y \in T : <<y, x>> \notin R
    BY <1>1, WFMin, Zenon
  <1>4. \A y \in T : ~(y < x)
    BY <1>2, <1>3, Zenon
  <1> QED
    BY <1>4

(* What holds of 1, and of d + 1 if of d, holds of all levels. *)
LEMMA LevelInduction ==
    ASSUME NEW n \in Nat, NEW S, 1 \in S,
           \A d \in 1 .. n - 1 : d \in S => d + 1 \in S
    PROVE  1 .. n \subseteq S
  <1> SUFFICES ASSUME (1 .. n) \ S # {} PROVE FALSE
    OBVIOUS
  <1>1. PICK x \in (1 .. n) \ S : \A y \in (1 .. n) \ S : x <= y
    <2>1. (1 .. n) \ S \in SUBSET Nat
      OBVIOUS
    <2> QED
      BY <2>1, HasLeast, Zenon
  <1>2. x - 1 \in 1 .. n - 1 /\ x - 1 \notin (1 .. n) \ S
    BY <1>1
  <1> QED
    BY <1>1, <1>2

-----------------------------------------------------------------------------
(* Paths: the first indexes of an address.                                 *)

LEMMA PathSeq == \A p \in Path : p \in Seq(Idx) /\ Len(p) \in 0 .. L - 1
  BY VaAssumption, SeqDef DEF Path

LEMMA PathAppend ==
    ASSUME NEW p \in Path, NEW i \in Idx
    PROVE  /\ Append(p, i) # <<>> /\ Len(Append(p, i)) = Len(p) + 1
           /\ Append(p, i) \in Seq(Idx)
           /\ \A j \in 1 .. Len(p) : Append(p, i)[j] = p[j]
           /\ Append(p, i)[Len(p) + 1] = i
           /\ Len(p) # L - 1 => Append(p, i) \in Path
  <1>1. p \in Seq(Idx) /\ Len(p) \in 0 .. L - 1
    BY PathSeq
  <1>2. Append(p, i) \in Seq(Idx) /\ Len(Append(p, i)) = Len(p) + 1
    BY <1>1
  <1>3. Append(p, i) # <<>>
    BY <1>1, <1>2
  <1>4. /\ \A j \in 1 .. Len(p) : Append(p, i)[j] = p[j]
        /\ Append(p, i)[Len(p) + 1] = i
    BY <1>1
  <1>5. ASSUME Len(p) # L - 1 PROVE Append(p, i) \in Path
    <2>1. Len(p) + 1 \in 0 .. L - 1
      BY <1>1, <1>5, VaAssumption
    <2>2. Append(p, i) \in [1 .. Len(p) + 1 -> Idx]
      BY <1>2, LenProperties, Zenon
    <2> QED
      BY <2>1, <2>2 DEF Path
  <1> QED
    BY <1>2, <1>3, <1>4, <1>5

(* Append is injective. *)
LEMMA PathInjective ==
    ASSUME NEW p \in Path, NEW q \in Path, NEW i \in Idx, NEW j \in Idx,
           Append(p, i) = Append(q, j)
    PROVE  p = q /\ i = j
  <1>1. Len(p) = Len(q) /\ i = j
    BY PathAppend, PathSeq
  <1> DEFINE s == Append(p, i)
             t == Append(q, j)
  <1>a. \A n \in 1 .. Len(p) : s[n] = p[n]
    BY PathAppend
  <1>b. \A n \in 1 .. Len(q) : t[n] = q[n]
    BY PathAppend
  <1>c. s = t
    OBVIOUS
  <1> HIDE DEF s, t
  <1>2. \A n \in 1 .. Len(p) : p[n] = q[n]
    BY <1>1, <1>a, <1>b, <1>c
  <1>3. p \in Seq(Idx) /\ q \in Seq(Idx)
    BY PathSeq
  <1>4. p = q
    BY <1>1, <1>2, <1>3, SeqEqual
  <1> QED
    BY <1>1, <1>4

(* The indexes by which a table on the way to an address is reached. *)
LEMMA PathOf ==
    ASSUME NEW va \in UserVa \cup KernelVa, NEW d \in 1 .. L
    PROVE  /\ va[d] \in Idx /\ va \in Seq(Idx) /\ Len(va) = L
           /\ SubSeq(va, 1, d - 1) \in Path
           /\ Len(SubSeq(va, 1, d - 1)) = d - 1
           /\ \A j \in 1 .. d - 1 : SubSeq(va, 1, d - 1)[j] = va[j]
           /\ d = 1 <=> SubSeq(va, 1, d - 1) = <<>>
           /\ Append(SubSeq(va, 1, d - 1), va[d]) = SubSeq(va, 1, d)
           /\ SubSeq(va, 1, L) = va
  <1>1. va \in [1 .. L -> Idx] /\ L \in Nat \ {0}
    BY VaAssumption
  <1>2. va \in Seq(Idx) /\ Len(va) = L /\ va[d] \in Idx
    BY <1>1, SeqDef
  <1>3. /\ SubSeq(va, 1, d - 1) \in Seq(Idx)
        /\ Len(SubSeq(va, 1, d - 1)) = d - 1
        /\ \A j \in 1 .. d - 1 : SubSeq(va, 1, d - 1)[j] = va[j]
    <2>1. \A j \in 1 .. d - 1 : va[j] \in Idx
      BY <1>1
    <2> QED
      BY <2>1, SubSeqProperties, <1>1
  <1>4. /\ SubSeq(va, 1, d) \in Seq(Idx)
        /\ Len(SubSeq(va, 1, d)) = d
        /\ \A j \in 1 .. d : SubSeq(va, 1, d)[j] = va[j]
    <2>1. \A j \in 1 .. d : va[j] \in Idx
      BY <1>1
    <2> QED
      BY <2>1, SubSeqProperties, <1>1
  <1>5. SubSeq(va, 1, d - 1) \in Path
    <2>1. SubSeq(va, 1, d - 1) \in [1 .. d - 1 -> Idx]
      BY <1>3, LenProperties, Zenon
    <2>2. d - 1 \in 0 .. L - 1
      BY <1>1
    <2> QED
      BY <2>1, <2>2 DEF Path
  <1>6. d = 1 <=> SubSeq(va, 1, d - 1) = <<>>
    <2> DEFINE s == SubSeq(va, 1, d - 1)
    <2>1. s \in Seq(Idx) /\ Len(s) = d - 1
      BY <1>3
    <2> HIDE DEF s
    <2>2. d = 1 <=> s = <<>>
      BY <2>1
    <2> QED
      BY <2>2 DEF s
  <1>7. Append(SubSeq(va, 1, d - 1), va[d]) = SubSeq(va, 1, d)
    <2> DEFINE s == Append(SubSeq(va, 1, d - 1), va[d])
    <2>1. s \in Seq(Idx) /\ Len(s) = d
      BY <1>2, <1>3
    <2>2. \A j \in 1 .. d : s[j] = SubSeq(va, 1, d)[j]
      BY <1>2, <1>3, <1>4
    <2> HIDE DEF s
    <2>3. s = SubSeq(va, 1, d)
      BY <2>1, <2>2, <1>4, SeqEqual
    <2> QED
      BY <2>3 DEF s
  <1>8. SubSeq(va, 1, L) = va
    BY <1>2, SubSeqFull
  <1> QED
    BY <1>2, <1>3, <1>5, <1>6, <1>7, <1>8

-----------------------------------------------------------------------------
(* The recursive functions of Lookup and Teardown, level by level.         *)

(* Lookup follows one entry per level, until one is absent. *)
LEMMA LookupWalk ==
    ASSUME NEW root, NEW va
    PROVE  \E walk :
             /\ walk[1] = root
             /\ \A d \in 1 .. L : walk[d + 1] =
                  IF walk[d] = NULL THEN NULL ELSE pt[walk[d]][va[d]].next
             /\ Lookup(root, va) = walk[L + 1]
  <1> DEFINE Next1(w, d) == IF d = 1 THEN root
                            ELSE IF w[d - 1] = NULL THEN NULL
                            ELSE pt[w[d - 1]][va[d - 1]].next
             Walks(n, w) == w = [d \in 1 .. n |-> Next1(w, d)]
             S == {n \in Nat : \E w : Walks(n, w)}
  <1>1. 1 \in S
    <2> DEFINE w == [d \in 1 .. 1 |-> root]
    <2>1. Walks(1, w)
      OBVIOUS
    <2> QED
      BY <2>1, Zenon
  <1>2. ASSUME NEW n \in 1 .. L, n \in S PROVE n + 1 \in S
    <2>1. PICK w : Walks(n, w)
      BY <1>2
    <2> DEFINE v == [d \in 1 .. n + 1 |-> IF d = n + 1 THEN Next1(w, d) ELSE w[d]]
    <2>0. \A d \in 1 .. n : w[d] = Next1(w, d)
      <3> HIDE DEF Next1
      <3> QED
        BY <2>1
    <2>2. \A d \in 1 .. n : v[d] = w[d]
      OBVIOUS
    <2>3. \A d \in 1 .. n + 1 : v[d] = Next1(w, d)
      <3> HIDE DEF Next1
      <3> QED
        BY <2>0, SMTT(60)
    <2>4. \A d \in 1 .. n + 1 : Next1(v, d) = Next1(w, d)
      <3> HIDE DEF v
      <3> QED
        BY <2>2, SMTT(60)
    <2>5. v = [d \in 1 .. n + 1 |-> v[d]]
      OBVIOUS
    <2> HIDE DEF v, Next1
    <2>6. \A d \in 1 .. n + 1 : v[d] = Next1(v, d)
      BY <2>3, <2>4
    <2>7. [d \in 1 .. n + 1 |-> v[d]] = [d \in 1 .. n + 1 |-> Next1(v, d)]
      BY <2>6
    <2>8. Walks(n + 1, v)
      BY <2>5, <2>7
    <2> HIDE DEF Walks
    <2> QED
      BY <2>8
  <1>3. L + 1 \in S
    <2> HIDE DEF S
    <2>1. 1 .. L + 1 \subseteq S
      BY <1>1, <1>2, LevelInduction, VaAssumption, SMTT(60)
    <2> QED
      BY <2>1, VaAssumption
  <1> DEFINE walk == CHOOSE w : Walks(L + 1, w)
  <1>4. Walks(L + 1, walk)
    BY <1>3, Zenon
  <1>5. Lookup(root, va) = walk[L + 1]
    BY DEF Lookup
  <1> HIDE DEF walk
  <1>6. walk[1] = root
    BY <1>4, VaAssumption
  <1>7. ASSUME NEW d \in 1 .. L
        PROVE  walk[d + 1] =
                 IF walk[d] = NULL THEN NULL ELSE pt[walk[d]][va[d]].next
    <2>1. d + 1 \in 1 .. L + 1 /\ d + 1 # 1 /\ (d + 1) - 1 = d
      BY VaAssumption, SMTT(60)
    <2>2. walk[d + 1] = Next1(walk, d + 1)
      BY <1>4, <2>1, Zenon
    <2> QED
      BY <2>1, <2>2
  <1> QED
    BY <1>5, <1>6, <1>7

(* Teardown frees the root and, below each table that it frees, the tables *)
(* that the user's entries lead to.                                        *)
LEMMA TeardownReach ==
    ASSUME NEW root
    PROVE  \E reach :
             /\ reach[1] = {root}
             /\ \A d \in 1 .. L - 1 : reach[d + 1] =
                  UNION {{pt[x][i].next : i \in {j \in Idx : pt[x][j].u}} :
                           x \in reach[d]}
             /\ Teardown(root) = UNION {reach[d] : d \in 1 .. L}
  <1> DEFINE Below1(T) == UNION {{pt[x][i].next : i \in {j \in Idx : pt[x][j].u}} :
                                   x \in T}
             Next1(r, d) == IF d = 1 THEN {root} ELSE Below1(r[d - 1])
             Reaches(n, r) == r = [d \in 1 .. n |-> Next1(r, d)]
             S == {n \in Nat : \E r : Reaches(n, r)}
             reach == CHOOSE r : Reaches(L, r)
  <1>5. Teardown(root) = UNION {reach[d] : d \in 1 .. L}
    BY DEF Teardown
  <1> HIDE DEF Below1
  <1>1. 1 \in S
    <2> DEFINE w == [d \in 1 .. 1 |-> {root}]
    <2>1. Reaches(1, w)
      OBVIOUS
    <2> QED
      BY <2>1, Zenon
  <1>2. ASSUME NEW n \in 1 .. L - 1, n \in S PROVE n + 1 \in S
    <2>1. PICK w : Reaches(n, w)
      BY <1>2
    <2> DEFINE v == [d \in 1 .. n + 1 |-> IF d = n + 1 THEN Next1(w, d) ELSE w[d]]
    <2>0. \A d \in 1 .. n : w[d] = Next1(w, d)
      <3> HIDE DEF Next1
      <3> QED
        BY <2>1
    <2>2. \A d \in 1 .. n : v[d] = w[d]
      OBVIOUS
    <2>3. \A d \in 1 .. n + 1 : v[d] = Next1(w, d)
      <3> HIDE DEF Next1
      <3> QED
        BY <2>0
    <2>4. \A d \in 1 .. n + 1 : Next1(v, d) = Next1(w, d)
      <3> HIDE DEF v
      <3> QED
        BY <2>2, SMTT(60)
    <2>5. v = [d \in 1 .. n + 1 |-> v[d]]
      OBVIOUS
    <2> HIDE DEF v
    <2>6. Reaches(n + 1, v)
      BY <2>3, <2>4, <2>5, ZenonT(60)
    <2> HIDE DEF Reaches
    <2> QED
      BY <2>6
  <1>3. L \in S
    <2> HIDE DEF S
    <2>1. 1 .. L \subseteq S
      BY <1>1, <1>2, LevelInduction, VaAssumption
    <2> QED
      BY <2>1, VaAssumption
  <1>4. Reaches(L, reach)
    BY <1>3, Zenon
  <1> HIDE DEF reach
  <1>6. reach[1] = {root}
    BY <1>4, VaAssumption
  <1>7. ASSUME NEW d \in 1 .. L - 1 PROVE reach[d + 1] = Below1(reach[d])
    <2>1. d + 1 \in 1 .. L /\ d + 1 # 1 /\ (d + 1) - 1 = d
      BY VaAssumption
    <2>2. reach[d + 1] = Next1(reach, d + 1)
      BY <1>4, <2>1, Zenon
    <2> QED
      BY <2>1, <2>2
  <1> QED
    BY <1>5, <1>6, <1>7 DEF Below1

-----------------------------------------------------------------------------
(* What the invariant says of tables, one level at a time.                 *)

(* The place below the one that an address reaches at level d. *)
LEMMA BelowIsNext ==
    ASSUME NEW h, NEW va \in UserVa, NEW d \in 1 .. L - 1
    PROVE  /\ Below(TableOf(h, va, d), va[d]) = TableOf(h, va, d + 1)
           /\ d + 1 \in 1 .. L
  <1>1. d \in 1 .. L /\ d + 1 \in 1 .. L /\ (d + 1) - 1 = d
    BY VaAssumption
  <1>2. Append(SubSeq(va, 1, d - 1), va[d]) = SubSeq(va, 1, d)
    BY <1>1, PathOf
  <1> QED
    BY <1>1, <1>2, Zenon DEF Below, TableOf

(* The kernel's entries of a root are not on the way to a user's page. *)
LEMMA UserNotKernel ==
    ASSUME NEW h, NEW va \in UserVa, NEW d \in 1 .. L
    PROVE  ~(TableOf(h, va, d).path = <<>> /\ KernelIdx(va[d]))
  <1>1. d = 1 <=> SubSeq(va, 1, d - 1) = <<>>
    BY PathOf, Zenon
  <1> QED
    BY <1>1, VaAssumption DEF TableOf, KernelIdx

(* From a table on the way to a user's page: the entry leads to the table  *)
(* of the next level, or there is none.                                    *)
LEMMA EntryDown ==
    ASSUME TypeOK, NEW at \in [InUse -> Place], Placed(at),
           NEW h, NEW va \in UserVa, NEW d \in 1 .. L,
           NEW x \in InUse, at[x] = TableOf(h, va, d)
    PROVE  /\ pt[x][va[d]] \in Entry
           /\ pt[x][va[d]].next = NULL <=> ~pt[x][va[d]].u
           /\ pt[x][va[d]].next = NULL => pt[x][va[d]] = Absent
           /\ pt[x][va[d]].next # NULL /\ d = L => pt[x][va[d]].next \in Frame
           /\ pt[x][va[d]].next # NULL /\ d # L =>
                /\ pt[x][va[d]].next \in InUse
                /\ at[pt[x][va[d]].next] = TableOf(h, va, d + 1)
  <1> DEFINE e == pt[x][va[d]]
  <1>1. va[d] \in Idx /\ Len(SubSeq(va, 1, d - 1)) = d - 1
    BY PathOf
  <1>2. x \in Page /\ e \in Entry
    BY <1>1 DEF InUse, TypeOK
  <1>3. ~(at[x].path = <<>> /\ KernelIdx(va[d]))
    BY UserNotKernel
  <1>4. Len(at[x].path) = L - 1 <=> d = L
    BY <1>1, VaAssumption DEF TableOf
  <1>5. EntryPlaced(at, x, va[d])
    BY <1>1 DEF Placed
  <1>6. ~e.u => e = Absent /\ e.next = NULL
    BY <1>3, <1>5 DEF EntryPlaced, Absent
  <1>7. e.u /\ d = L => e.next \in Frame /\ e.next # NULL
    BY <1>4, <1>5, NullAssumption DEF EntryPlaced
  <1>8. ASSUME e.u, d # L
        PROVE  e.next \in InUse /\ at[e.next] = TableOf(h, va, d + 1) /\ e.next # NULL
    <2>1. e.next \in InUse /\ at[e.next] = Below(at[x], va[d])
      BY <1>4, <1>5, <1>8 DEF EntryPlaced
    <2>2. d \in 1 .. L - 1
      BY <1>8, VaAssumption
    <2> QED
      BY <2>1, <2>2, BelowIsNext, NullAssumption DEF InUse
  <1> QED
    BY <1>2, <1>6, <1>7, <1>8

(* To a table on the way to a user's page: an entry of the table above. *)
LEMMA EntryUp ==
    ASSUME TypeOK, NEW at \in [InUse -> Place], Placed(at),
           NEW h, NEW va \in UserVa, NEW d \in 1 .. L - 1,
           NEW y \in InUse, at[y] = TableOf(h, va, d + 1)
    PROVE  \E x \in InUse : /\ at[x] = TableOf(h, va, d)
                            /\ pt[x][va[d]] = [next |-> y, u |-> TRUE]
  <1>1. d \in 1 .. L /\ d + 1 \in 1 .. L /\ (d + 1) - 1 = d
    BY VaAssumption
  <1>2. /\ SubSeq(va, 1, d - 1) \in Path /\ va[d] \in Idx
        /\ Append(SubSeq(va, 1, d - 1), va[d]) = SubSeq(va, 1, d)
    BY <1>1, PathOf, Zenon
  <1>3. at[y].space = h /\ at[y].path = SubSeq(va, 1, d)
    BY <1>1 DEF TableOf
  <1>4. at[y].path # <<>>
    BY <1>2, <1>3, PathAppend
  <1>5. PICK x \in InUse, i \in Idx :
            pt[x][i] = [next |-> y, u |-> TRUE] /\ at[y] = Below(at[x], i)
    BY <1>4 DEF Placed
  <1>6. at[x] \in Place /\ at[x].path \in Path
    BY DEF InUse, Place
  <1>7. at[x].space = h /\ Append(at[x].path, i) = SubSeq(va, 1, d)
    <2>1. /\ Below(at[x], i).space = at[x].space
          /\ Below(at[x], i).path = Append(at[x].path, i)
      BY DEF Below
    <2> QED
      BY <1>3, <1>5, <2>1, Zenon
  <1>8. at[x].path = SubSeq(va, 1, d - 1) /\ i = va[d]
    <2> DEFINE p == at[x].path
               q == SubSeq(va, 1, d - 1)
    <2>1. p \in Path /\ q \in Path /\ va[d] \in Idx /\ i \in Idx
      BY <1>2, <1>6
    <2>2. Append(p, i) = Append(q, va[d])
      BY <1>2, <1>7
    <2> HIDE DEF p, q
    <2>3. p = q /\ i = va[d]
      BY <2>1, <2>2, PathInjective
    <2> QED
      BY <2>3 DEF p, q
  <1>9. at[x] = TableOf(h, va, d)
    BY <1>6, <1>7, <1>8 DEF TableOf, Place
  <1> QED
    BY <1>5, <1>8, <1>9

(* The hardware finds for a user's page what the table at its place says. *)
LEMMA LookupPlaced ==
    ASSUME TypeOK, NEW at \in [InUse -> Place], Placed(at),
           NEW h \in made, NEW va \in UserVa
    PROVE  /\ Lookup(ptr[h], va) \in Frame \cup {NULL}
           /\ \A f : f # NULL =>
                (Lookup(ptr[h], va) = f <=>
                   \E x \in InUse : at[x] = TableOf(h, va, L) /\ pt[x][va[L]].next = f)
  <1>1. PICK walk :
             /\ walk[1] = ptr[h]
             /\ \A d \in 1 .. L : walk[d + 1] =
                  IF walk[d] = NULL THEN NULL ELSE pt[walk[d]][va[d]].next
             /\ Lookup(ptr[h], va) = walk[L + 1]
    BY LookupWalk
  <1> DEFINE At(d, x) == x \in InUse /\ at[x] = TableOf(h, va, d)
             P(d) == \/ At(d, walk[d])
                     \/ walk[d] = NULL /\ ~\E x : At(d, x)
             S == {d \in Nat : P(d)}
  <1>2. 1 \in S
    <2>1. ptr[h] \in InUse /\ at[ptr[h]] = [space |-> h, path |-> <<>>]
      BY DEF Placed
    <2>2. TableOf(h, va, 1) = [space |-> h, path |-> <<>>]
      BY PathOf, VaAssumption DEF TableOf
    <2> QED
      BY <1>1, <2>1, <2>2
  <1>3. ASSUME NEW d \in 1 .. L - 1, d \in S PROVE d + 1 \in S
    <2>0. d \in 1 .. L /\ d + 1 \in Nat /\ d # L
      BY VaAssumption
    <2>1. CASE At(d, walk[d])
      <3>1. walk[d] # NULL /\ walk[d + 1] = pt[walk[d]][va[d]].next
        BY <1>1, <2>0, <2>1, NullAssumption DEF InUse
      <3>2. CASE walk[d + 1] # NULL
        <4>1. /\ pt[walk[d]][va[d]].next \in InUse
              /\ at[pt[walk[d]][va[d]].next] = TableOf(h, va, d + 1)
          BY <2>0, <2>1, <3>1, <3>2, EntryDown, Zenon
        <4> QED
          BY <2>0, <3>1, <4>1
      <3>3. CASE walk[d + 1] = NULL
        <4>1. ASSUME NEW y, At(d + 1, y) PROVE FALSE
          <5>1. PICK x \in InUse : /\ at[x] = TableOf(h, va, d)
                                   /\ pt[x][va[d]] = [next |-> y, u |-> TRUE]
            BY <4>1, EntryUp
          <5>2. x = walk[d]
            BY <2>1, <5>1 DEF Placed
          <5>3. y = NULL
            <6>1. pt[x][va[d]].next = y
              BY <5>1
            <6> QED
              BY <3>1, <3>3, <5>2, <6>1, Zenon
          <5> QED
            BY <4>1, <5>3, NullAssumption DEF InUse
        <4> QED
          BY <3>3, <4>1, <2>0
      <3> QED
        BY <3>2, <3>3
    <2>2. CASE walk[d] = NULL /\ ~\E x : At(d, x)
      <3>1. walk[d + 1] = NULL
        BY <1>1, <2>0, <2>2
      <3>2. ASSUME NEW y, At(d + 1, y) PROVE FALSE
        <4>1. \E x \in InUse : at[x] = TableOf(h, va, d)
          BY <3>2, EntryUp, ZenonT(60)
        <4> QED
          BY <2>2, <4>1
      <3> QED
        BY <3>1, <3>2, <2>0
    <2> QED
      BY <1>3, <2>1, <2>2
  <1>4. L \in S
    <2> HIDE DEF S
    <2>1. 1 .. L \subseteq S
      BY <1>2, <1>3, LevelInduction, VaAssumption, Zenon
    <2> QED
      BY <2>1, VaAssumption
  <1>5. L \in 1 .. L
    BY VaAssumption
  <1>6. CASE At(L, walk[L])
    <2>1. walk[L] # NULL /\ Lookup(ptr[h], va) = pt[walk[L]][va[L]].next
      BY <1>1, <1>5, <1>6, NullAssumption DEF InUse
    <2>2. pt[walk[L]][va[L]].next # NULL => pt[walk[L]][va[L]].next \in Frame
      BY <1>5, <1>6, EntryDown
    <2>3. \A x \in InUse : at[x] = TableOf(h, va, L) => x = walk[L]
      BY <1>6 DEF Placed
    <2> QED
      BY <1>6, <2>1, <2>2, <2>3
  <1>7. CASE walk[L] = NULL /\ ~\E x : At(L, x)
    <2>1. Lookup(ptr[h], va) = NULL
      BY <1>1, <1>5, <1>7
    <2> QED
      BY <1>7, <2>1
  <1> QED
    BY <1>4, <1>6, <1>7

(* A table is one level below the one whose entry leads to it. *)
LEMMA BelowDeeper ==
    ASSUME NEW a \in Place, NEW i \in Idx
    PROVE  /\ Below(a, i).space = a.space
           /\ Len(Below(a, i).path) = Len(a.path) + 1
           /\ Below(a, i).path # <<>>
           /\ Len(a.path) \in 0 .. L - 1
           /\ Len(a.path) # L - 1 => Below(a, i) \in Place
  <1>1. a.path \in Path /\ a.space \in Space
    BY DEF Place
  <1>2. Below(a, i).space = a.space /\ Below(a, i).path = Append(a.path, i)
    BY DEF Below
  <1>3. Len(Append(a.path, i)) = Len(a.path) + 1 /\ Append(a.path, i) # <<>>
    BY <1>1, PathAppend
  <1>4. ASSUME Len(a.path) # L - 1 PROVE Below(a, i) \in Place
    BY <1>1, <1>4, PathAppend DEF Below, Place
  <1> QED
    BY <1>1, <1>2, <1>3, <1>4, PathSeq

(* unprotect frees the tables that are in the space, those of all levels. *)
LEMMA TeardownPlaced ==
    ASSUME TypeOK, NEW at \in [InUse -> Place], Placed(at), NEW h \in made
    PROVE  Teardown(ptr[h]) = {x \in InUse : at[x].space = h}
  <1>1. PICK reach :
             /\ reach[1] = {ptr[h]}
             /\ \A d \in 1 .. L - 1 : reach[d + 1] =
                  UNION {{pt[x][i].next : i \in {j \in Idx : pt[x][j].u}} :
                           x \in reach[d]}
             /\ Teardown(ptr[h]) = UNION {reach[d] : d \in 1 .. L}
    BY TeardownReach, Zenon
  <1>0. \A x \in InUse : at[x] \in Place /\ Len(at[x].path) \in 0 .. L - 1
                           /\ at[x].path \in Path
    BY PathSeq DEF InUse, Place
  <1> DEFINE Level(d) == {x \in InUse : at[x].space = h /\ Len(at[x].path) = d - 1}
             S == {d \in Nat : reach[d] = Level(d)}
  <1>2. 1 \in S
    <2>1. ptr[h] \in Level(1)
      <3>1. ptr[h] \in InUse /\ at[ptr[h]] = [space |-> h, path |-> <<>>]
        BY DEF Placed
      <3>2. at[ptr[h]].space = h /\ at[ptr[h]].path = <<>>
        BY <3>1
      <3> QED
        BY <3>1, <3>2
    <2>2. ASSUME NEW x \in Level(1) PROVE x = ptr[h]
      <3>1. at[x].path = <<>>
        BY <1>0, PathSeq, <2>2
      <3>2. at[x] = [space |-> h, path |-> <<>>]
        BY <1>0, <3>1, <2>2 DEF Place
      <3> QED
        BY <3>2, <2>2 DEF Placed
    <2> QED
      BY <1>1, <2>1, <2>2
  <1>3. ASSUME NEW d \in 1 .. L - 1, d \in S PROVE d + 1 \in S
    <2>0. d + 1 \in Nat /\ (d + 1) - 1 = d /\ d - 1 # L - 1
      BY VaAssumption
    <2>1. ASSUME NEW x \in Level(d), NEW i \in Idx, pt[x][i].u
          PROVE  pt[x][i].next \in Level(d + 1)
      <3>1. x \in InUse /\ at[x].space = h /\ Len(at[x].path) = d - 1
        OBVIOUS
      <3>2. EntryPlaced(at, x, i)
        BY <3>1 DEF Placed
      <3>3. pt[x][i].next \in InUse /\ at[pt[x][i].next] = Below(at[x], i)
        BY <2>0, <2>1, <3>1, <3>2 DEF EntryPlaced
      <3> QED
        BY <1>0, <2>0, <3>1, <3>3, BelowDeeper
    <2>2. ASSUME NEW y \in Level(d + 1)
          PROVE  \E x \in Level(d), i \in Idx : pt[x][i].u /\ pt[x][i].next = y
      <3>1. y \in InUse /\ at[y].space = h /\ Len(at[y].path) = d
        BY <2>0
      <3>2. at[y].path # <<>>
        BY <3>1, EmptySeq
      <3>3. PICK x \in InUse, i \in Idx :
                pt[x][i] = [next |-> y, u |-> TRUE] /\ at[y] = Below(at[x], i)
        BY <3>1, <3>2 DEF Placed
      <3>4. at[x].space = h /\ Len(at[x].path) + 1 = d
        BY <1>0, <3>1, <3>3, BelowDeeper
      <3>5. x \in Level(d)
        BY <1>0, <3>4
      <3>6. pt[x][i].u /\ pt[x][i].next = y
        BY <3>3
      <3> QED
        BY <3>5, <3>6
    <2>3. reach[d + 1] = UNION {{pt[x][i].next : i \in {j \in Idx : pt[x][j].u}} :
                                  x \in Level(d)}
      BY <1>1, <1>3
    <2> HIDE DEF Level
    <2>4. reach[d + 1] = Level(d + 1)
      BY <2>1, <2>2, <2>3
    <2> QED
      BY <2>0, <2>4
  <1>4. \A d \in 1 .. L : reach[d] = Level(d)
    <2> HIDE DEF Level
    <2>1. \A d \in 1 .. L - 1 : d \in S => d + 1 \in S
      BY <1>3
    <2>2. 1 \in S
      BY <1>2
    <2>3. 1 .. L \subseteq S
      <3> HIDE DEF S
      <3> QED
        BY <2>1, <2>2, LevelInduction, VaAssumption, Zenon
    <2> QED
      BY <2>3
  <1>5. \A x \in InUse : Len(at[x].path) + 1 \in 1 .. L
    BY <1>0, VaAssumption
  <1>6. ASSUME NEW x \in InUse, at[x].space = h
        PROVE  \E d \in 1 .. L : x \in reach[d]
    <2>1. x \in Level(Len(at[x].path) + 1)
      BY <1>0, <1>6
    <2> QED
      BY <1>4, <1>5, <2>1
  <1>7. ASSUME NEW d \in 1 .. L, NEW x \in reach[d]
        PROVE  x \in InUse /\ at[x].space = h
    BY <1>4
  <1> QED
    BY <1>1, <1>6, <1>7

(* The kernel finds its memory below every root. *)
LEMMA KernelLookup ==
    ASSUME TypeOK, KernelTables, NEW at \in [InUse -> Place], Placed(at),
           NEW root, Root(root), root # NULL, NEW va \in KernelVa
    PROVE  Lookup(root, va) = va
  <1>1. PICK walk :
             /\ walk[1] = root
             /\ \A d \in 1 .. L : walk[d + 1] =
                  IF walk[d] = NULL THEN NULL ELSE pt[walk[d]][va[d]].next
             /\ Lookup(root, va) = walk[L + 1]
    BY LookupWalk
  <1> DEFINE To(d) == IF d = L THEN va ELSE KTable[SubSeq(va, 1, d)]
             S == {d \in Nat : walk[d + 1] = To(d)}
  <1>2. \A d \in 1 .. L : SubSeq(va, 1, d - 1) \in Prefix
    BY VaAssumption DEF Prefix
  <1>3. ASSUME NEW d \in 1 .. L
        PROVE  KernelTable(SubSeq(va, 1, d - 1))[va[d]].next = To(d)
    <2>1. /\ va[d] \in Idx
          /\ Append(SubSeq(va, 1, d - 1), va[d]) = SubSeq(va, 1, d)
          /\ SubSeq(va, 1, L) = va /\ Len(va) = L
      BY PathOf
    <2>2. d # L => SubSeq(va, 1, d) \in Prefix
      BY VaAssumption DEF Prefix
    <2>3. va \notin Prefix
      <3> SUFFICES ASSUME NEW k \in KernelVa, NEW e \in 0 .. L - 1, va = SubSeq(k, 1, e)
                   PROVE  FALSE
        BY DEF Prefix
      <3>1. e + 1 \in 1 .. L /\ (e + 1) - 1 = e
        BY VaAssumption
      <3>2. Len(SubSeq(k, 1, e)) = e
        BY <3>1, PathOf
      <3> QED
        BY <2>1, <3>2, VaAssumption
    <2> QED
      BY <2>1, <2>2, <2>3, Zenon DEF KernelTable
  <1>4. root # NULL /\ pt[root][va[1]].next = To(1)
    <2>0. 1 \in 1 .. L /\ va[1] \in Idx /\ SubSeq(va, 1, 1 - 1) = <<>>
      BY VaAssumption, PathOf
    <2>1. KernelTable(<<>>)[va[1]].next = To(1)
      BY <1>3, <2>0, Zenon
    <2>2. CASE root = KTable[<<>>] /\ Built
      <3>1. pt[root] = KernelTable(<<>>)
        BY <1>2, <2>0, <2>2, Zenon DEF KernelTables
      <3> QED
        BY <2>1, <3>1
    <2>3. ASSUME NEW h \in made, root = ptr[h] PROVE pt[root][va[1]].next = To(1)
      <3>0. root \in InUse /\ at[root] = [space |-> h, path |-> <<>>]
        BY <2>3 DEF Placed
      <3>1. EntryPlaced(at, root, va[1]) /\ at[root].path = <<>>
        BY <2>0, <3>0 DEF Placed
      <3>2. KernelIdx(va[1])
        BY DEF KernelIdx
      <3> QED
        BY <2>1, <3>1, <3>2 DEF EntryPlaced
    <2> QED
      BY <2>2, <2>3 DEF Root
  <1>5. 1 \in S
    BY <1>1, <1>4, VaAssumption
  <1>6. ASSUME NEW d \in 1 .. L - 1, d \in S PROVE d + 1 \in S
    <2>0. d + 1 \in 1 .. L /\ (d + 1) - 1 = d /\ d # L
      BY VaAssumption
    <2> DEFINE p == SubSeq(va, 1, d)
    <2>1. walk[d + 1] = KTable[p] /\ p \in Prefix
      BY <1>2, <1>6, <2>0
    <2>2. KTable[p] # NULL
      BY <2>1, NullAssumption DEF KPage
    <2>3. Built
      BY DEF Root, KernelTables, Built
    <2>4. pt[KTable[p]] = KernelTable(p)
      BY <2>1, <2>3 DEF KernelTables
    <2>5. KernelTable(p)[va[d + 1]].next = To(d + 1)
      BY <1>3, <2>0
    <2>6. walk[(d + 1) + 1] = pt[walk[d + 1]][va[d + 1]].next
      BY <1>1, <2>0, <2>1, <2>2
    <2> HIDE DEF p, To
    <2> QED
      BY <2>0, <2>1, <2>4, <2>5, <2>6
  <1>7. L \in S
    <2> HIDE DEF S
    <2>1. 1 .. L \subseteq S
      BY <1>5, <1>6, LevelInduction, VaAssumption, Zenon
    <2> QED
      BY <2>1, VaAssumption
  <1> QED
    BY <1>1, <1>7

-----------------------------------------------------------------------------
(* The initial state.                                                      *)

(* The kernel's tables have the right form, and building them writes them  *)
(* and nothing else.                                                       *)
LEMMA KernelBuilt ==
    ASSUME NEW old \in [Page \cup KPage -> [Idx -> Entry]]
    PROVE  /\ \A p \in Prefix : KernelTable(p) \in [Idx -> Entry]
           /\ WithKernel(old) \in [Page \cup KPage -> [Idx -> Entry]]
           /\ \A p \in Prefix : WithKernel(old)[KTable[p]] = KernelTable(p)
           /\ \A x \in Page : WithKernel(old)[x] = old[x]
  <1>1. ASSUME NEW p \in Prefix PROVE KernelTable(p) \in [Idx -> Entry]
    BY DEF KernelTable, Entry, KPage
  <1>2. ASSUME NEW x \in KPage
        PROVE  WithKernel(old)[x] = KernelTable(CHOOSE p \in Prefix : KTable[p] = x)
    BY DEF WithKernel
  <1>3. ASSUME NEW p \in Prefix PROVE WithKernel(old)[KTable[p]] = KernelTable(p)
    <2>1. KTable[p] \in KPage
      BY DEF KPage
    <2>2. (CHOOSE q \in Prefix : KTable[q] = KTable[p]) = p
      BY TableAssumption
    <2> QED
      BY <1>2, <2>1, <2>2
  <1>4. ASSUME NEW x \in Page PROVE WithKernel(old)[x] = old[x]
    BY TableAssumption DEF WithKernel
  <1>5. WithKernel(old) \in [Page \cup KPage -> [Idx -> Entry]]
    <2>1. ASSUME NEW x \in KPage PROVE WithKernel(old)[x] \in [Idx -> Entry]
      <3>1. PICK p \in Prefix : KTable[p] = x
        BY DEF KPage
      <3> QED
        BY <1>1, <1>3, <3>1
    <2>2. WithKernel(old) = [x \in Page \cup KPage |-> WithKernel(old)[x]]
      BY DEF WithKernel
    <2> QED
      BY <1>4, <2>1, <2>2
  <1> QED
    BY <1>1, <1>3, <1>4, <1>5

(* The root of the kernel's tables. *)
LEMMA KernelRoot == <<>> \in Prefix /\ KTable[<<>>] \in KPage
  <1>1. PICK k : k \in KernelVa
    BY VaAssumption
  <1>2. 0 \in 0 .. L - 1 /\ SubSeq(k, 1, 0) = <<>>
    <2>1. 1 \in 1 .. L /\ SubSeq(k, 1, 1 - 1) = <<>>
      BY <1>1, VaAssumption, PathOf
    <2> QED
      BY <2>1, VaAssumption
  <1>3. <<>> \in {SubSeq(k, 1, d) : d \in 0 .. L - 1}
    BY <1>2
  <1>4. <<>> \in Prefix
    BY <1>1, <1>3 DEF Prefix
  <1> QED
    BY <1>4 DEF KPage

(* The initial state satisfies the inductive invariant. *)
LEMMA InitIInv == Init => IInv
  <1> SUFFICES ASSUME Init PROVE IInv
    OBVIOUS
  <1> DEFINE none == [x \in Page \cup KPage |-> ZeroPage]
  <1>0. none \in [Page \cup KPage -> [Idx -> Entry]]
    BY DEF ZeroPage, Absent, Entry
  <1> HIDE DEF none
  <1>1. pt = IF Arch = 64 THEN WithKernel(none) ELSE none
    BY DEF Init, none
  <1>2. pt \in [Page \cup KPage -> [Idx -> Entry]]
    BY <1>0, <1>1, KernelBuilt
  <1>3. TypeOK
    <2>1. \A c \in CPU : op[c] = Idle
      BY Zenon DEF Init
    <2>2. op \in [CPU -> Op]
      BY VaAssumption DEF Init, Idle, Op
    <2> QED
      BY <1>2, <2>2, KernelRoot, Zenon DEF Init, TypeOK, Context
  <1>4. KernelTables /\ RootsLoaded
    <2>1. Arch = 64 => \A p \in Prefix : pt[KTable[p]] = KernelTable(p)
      BY <1>0, <1>1, KernelBuilt, ZenonT(60)
    <2>2. KernelTables
      BY <2>1, KernelRoot DEF Init, KernelTables, Built
    <2>3. RootsLoaded
      BY KernelRoot, NullAssumption, Zenon DEF Init, RootsLoaded, Root, Built, Context
    <2> QED
      BY <2>2, <2>3
  <1>5. RunsOnce /\ OwnSpace /\ UnmapAlone
    BY DEF Init, RunsOnce, OwnSpace, UnmapAlone, UserRuns, Idle, Context
  <1>6. \E at \in [InUse -> Place] : TRUE
    <2>1. InUse = {}
      BY DEF Init, InUse
    <2>2. [x \in {} |-> x] \in [InUse -> Place]
      BY <2>1
    <2> QED
      BY <2>2, Zenon
  <1>7. ASSUME NEW at \in [InUse -> Place] PROVE Placed(at) /\ OnItsWay(at) /\ Cached(at)
    BY DEF Init, Placed, InUse, OnItsWay, Cached, UserRuns, Idle, Context
  <1> QED
    BY <1>3, <1>4, <1>5, <1>6, <1>7 DEF IInv

-----------------------------------------------------------------------------
(* Steps that change tables: the places after them.                        *)

(* Steps that change none. *)
LEMMA PlacedSame ==
    ASSUME NEW at, Placed(at), UNCHANGED tables
    PROVE  Placed(at)' /\ InUse' = InUse
  BY DEF Placed, EntryPlaced, InUse, tables

(* What the places are after a step. *)
PlacedNext(at) == Placed(at)'
WritesEntry(x, i, e) ==
    /\ InUse' = InUse /\ pt'[x][i] = e
    /\ \A y \in InUse, j \in Idx : ~(y = x /\ j = i) => pt'[y][j] = pt[y][j]
AddsTable(at, at2, x, a) ==
    /\ InUse' = InUse \cup {x} /\ x \notin InUse
    /\ at2 \in [InUse' -> Place] /\ at2[x] = a
    /\ \A y \in InUse : at2[y] = at[y]

(* protect: the new root is reached by no index, and has no user entries. *)
LEMMA PlacedProtect ==
    ASSUME TypeOK, KernelTables, NEW at \in [InUse -> Place], Placed(at),
           kpt # NULL, NEW h \in Space \ made, NEW x \in pool,
           pool' = pool \ {x}, pt' = [pt EXCEPT ![x] = ProtectRoot(x)],
           ptr' = [ptr EXCEPT ![h] = x], made' = made \cup {h}
    PROVE  \E at2 : PlacedNext(at2)
                      /\ AddsTable(at, at2, x, [space |-> h, path |-> <<>>])
  <1> DEFINE a == [space |-> h, path |-> <<>>]
  <1>1. InUse' = InUse \cup {x} /\ x \notin InUse /\ x \in Page
    BY DEF InUse, TypeOK
  <1>2. a \in Place /\ a.space = h /\ a.path = <<>>
    <2>1. <<>> \in [1 .. 0 -> Idx] /\ 0 \in 0 .. L - 1
      BY VaAssumption
    <2>2. <<>> \in Path
      BY <2>1 DEF Path
    <2> QED
      BY <2>2 DEF Place
  <1> HIDE DEF a
  <1>3. PICK at2 \in [InUse' -> Place] :
            at2[x] = a /\ \A y \in InUse : at2[y] = at[y]
    <2> DEFINE f == [y \in InUse' |-> IF y = x THEN a ELSE at[y]]
    <2>1. f \in [InUse' -> Place] /\ f[x] = a /\ \A y \in InUse : f[y] = at[y]
      BY <1>1, <1>2
    <2> QED
      BY <2>1
  <1>4. \A y \in InUse : pt'[y] = pt[y]
    BY <1>1 DEF TypeOK, InUse
  <1>5. pt'[x] = ProtectRoot(x)
    BY <1>1 DEF TypeOK
  <1>6. pt[kpt] = KernelTable(<<>>)
    BY KernelRoot DEF KernelTables, Built
  <1>7. \A y \in InUse : at[y].space \in made
    BY DEF Placed, PlacedNext
  <1>8. ASSUME NEW g \in made'
        PROVE  ptr'[g] \in InUse' /\ at2[ptr'[g]] = [space |-> g, path |-> <<>>]
    <2>1. CASE g = h
      BY <1>1, <1>3, <2>1 DEF TypeOK, a
    <2>2. CASE g # h
      <3>1. g \in made /\ ptr'[g] = ptr[g]
        BY <2>2 DEF TypeOK
      <3>2. ptr[g] \in InUse /\ at[ptr[g]] = [space |-> g, path |-> <<>>]
        BY <3>1 DEF Placed, PlacedNext
      <3> QED
        BY <1>1, <1>3, <3>1, <3>2
    <2> QED
      BY <2>1, <2>2
  <1>9. \A y \in InUse' : at2[y].space \in made'
    BY <1>1, <1>2, <1>3, <1>7
  <1>10. \A y, z \in InUse' : at2[y] = at2[z] => y = z
    <2>1. \A y \in InUse : at2[y].space # at2[x].space
      BY <1>2, <1>3, <1>7
    <2>2. \A y, z \in InUse : at2[y] = at2[z] => y = z
      BY <1>3 DEF Placed, PlacedNext
    <2> QED
      BY <1>1, <2>1, <2>2
  <1>11. ASSUME NEW y \in InUse, NEW i \in Idx PROVE EntryPlaced(at2, y, i)'
    <2>1. EntryPlaced(at, y, i)
      BY DEF Placed, PlacedNext
    <2>2. at2[y] = at[y] /\ pt'[y] = pt[y]
      BY <1>3, <1>4
    <2>3. pt[y][i].next \in InUse =>
            pt[y][i].next \in InUse' /\ at2[pt[y][i].next] = at[pt[y][i].next]
      BY <1>1, <1>3
    <2> QED
      BY <2>1, <2>2, <2>3 DEF EntryPlaced
  <1>12. ASSUME NEW i \in Idx PROVE EntryPlaced(at2, x, i)'
    <2>1. pt'[x][i] = IF KernelIdx(i) THEN KernelTable(<<>>)[i] ELSE Absent
      BY <1>5, <1>6 DEF ProtectRoot, KernelIdx
    <2>2. ~pt'[x][i].u
      BY <2>1 DEF KernelTable, Absent
    <2>3. at2[x].path = <<>>
      BY <1>2, <1>3
    <2> QED
      BY <2>1, <2>2, <2>3 DEF EntryPlaced
  <1>13. ASSUME NEW y \in InUse', at2[y].path # <<>>
         PROVE  \E z \in InUse', i \in Idx :
                  pt'[z][i] = [next |-> y, u |-> TRUE] /\ at2[y] = Below(at2[z], i)
    <2>1. y \in InUse /\ at[y].path # <<>>
      BY <1>1, <1>2, <1>3, <1>13
    <2>2. PICK z \in InUse, i \in Idx :
              pt[z][i] = [next |-> y, u |-> TRUE] /\ at[y] = Below(at[z], i)
      BY <2>1 DEF Placed, PlacedNext
    <2> QED
      BY <1>1, <1>3, <1>4, <2>1, <2>2
  <1>14. PlacedNext(at2)
    BY <1>1, <1>8, <1>9, <1>10, <1>11, <1>12, <1>13 DEF Placed, PlacedNext
  <1> QED
    BY <1>1, <1>3, <1>14 DEF a, AddsTable

(* unprotect: what is left is in the other spaces. *)
LEMMA PlacedUnprotect ==
    ASSUME TypeOK, NEW at \in [InUse -> Place], Placed(at), NEW h \in made,
           pool' = pool \cup Teardown(ptr[h]), made' = made \ {h},
           UNCHANGED <<pt, ptr>>
    PROVE  /\ InUse' = {x \in InUse : at[x].space # h}
           /\ \E at2 \in [InUse' -> Place] :
                 PlacedNext(at2) /\ \A y \in InUse' : at2[y] = at[y]
  <1>1. InUse' = {x \in InUse : at[x].space # h}
    BY TeardownPlaced DEF InUse
  <1>2. PICK at2 \in [InUse' -> Place] : \A y \in InUse' : y \in InUse /\ at2[y] = at[y]
    <2> DEFINE f == [y \in InUse' |-> at[y]]
    <2>1. f \in [InUse' -> Place] /\ \A y \in InUse' : y \in InUse /\ f[y] = at[y]
      BY <1>1
    <2> QED
      BY <2>1, Zenon
  <1>3. ASSUME NEW g \in made'
        PROVE  ptr[g] \in InUse' /\ at2[ptr[g]] = [space |-> g, path |-> <<>>]
    <2>1. ptr[g] \in InUse /\ at[ptr[g]] = [space |-> g, path |-> <<>>]
      BY DEF Placed, PlacedNext
    <2>2. at[ptr[g]].space # h
      BY <2>1
    <2> QED
      BY <1>1, <1>2, <2>1, <2>2
  <1>4. \A y \in InUse' : at2[y].space \in made'
    BY <1>1, <1>2 DEF Placed, PlacedNext
  <1>5. \A y, z \in InUse' : at2[y] = at2[z] => y = z
    BY <1>2 DEF Placed, PlacedNext
  <1>6. ASSUME NEW y \in InUse', NEW i \in Idx PROVE EntryPlaced(at2, y, i)'
    <2>1. EntryPlaced(at, y, i) /\ at2[y] = at[y] /\ y \in InUse
      BY <1>2 DEF Placed, PlacedNext
    <2>2. ASSUME pt[y][i].next \in InUse, at[pt[y][i].next] = Below(at[y], i)
          PROVE  pt[y][i].next \in InUse' /\ at2[pt[y][i].next] = at[pt[y][i].next]
      <3>1. at[pt[y][i].next].space = at[y].space
        BY <2>2 DEF Below
      <3> QED
        BY <1>1, <1>2, <2>2, <3>1
    <2> QED
      BY <2>1, <2>2 DEF EntryPlaced
  <1>7. ASSUME NEW y \in InUse', at2[y].path # <<>>
        PROVE  \E z \in InUse', i \in Idx :
                 pt[z][i] = [next |-> y, u |-> TRUE] /\ at2[y] = Below(at2[z], i)
    <2>1. y \in InUse /\ at[y].path # <<>>
      BY <1>2, <1>7
    <2>2. PICK z \in InUse, i \in Idx :
              pt[z][i] = [next |-> y, u |-> TRUE] /\ at[y] = Below(at[z], i)
      BY <2>1 DEF Placed, PlacedNext
    <2>3. at[y].space = at[z].space
      BY <2>2 DEF Below
    <2>4. z \in InUse'
      BY <1>1, <2>3
    <2> QED
      BY <1>2, <2>2, <2>4
  <1>8. PlacedNext(at2)
    BY <1>3, <1>4, <1>5, <1>6, <1>7 DEF Placed, PlacedNext
  <1> QED
    BY <1>1, <1>2, <1>8, Zenon

(* map() links an empty table where there was none. *)
LEMMA PlacedLink ==
    ASSUME TypeOK, NEW at \in [InUse -> Place], Placed(at),
           NEW h \in made, NEW va \in UserVa, NEW d \in 1 .. L - 1,
           NEW cur \in InUse, at[cur] = TableOf(h, va, d),
           pt[cur][va[d]].next = NULL, NEW x \in pool, pool' = pool \ {x},
           pt' = [pt EXCEPT ![cur][va[d]] = [next |-> x, u |-> TRUE],
                            ![x] = ZeroPage],
           UNCHANGED <<made, ptr>>
    PROVE  \E at2 : PlacedNext(at2)
                      /\ AddsTable(at, at2, x, TableOf(h, va, d + 1))
  <1> DEFINE a == TableOf(h, va, d + 1)
             i0 == va[d]
  <1>0. d \in 1 .. L /\ d # L /\ d + 1 \in 1 .. L
    BY VaAssumption
  <1>1. InUse' = InUse \cup {x} /\ x \notin InUse /\ x \in Page
    BY DEF InUse, TypeOK
  <1>2. i0 \in Idx /\ a = Below(at[cur], i0)
    BY <1>0, PathOf, BelowIsNext
  <1>3. /\ pt'[x] = ZeroPage
        /\ pt'[cur][i0] = [next |-> x, u |-> TRUE]
        /\ \A y \in InUse, i \in Idx :
              ~(y = cur /\ i = i0) => pt'[y][i] = pt[y][i]
    <2>1. \A y \in Page : pt[y] \in [Idx -> Entry]
      BY DEF TypeOK
    <2>2. x # cur /\ x \in Page /\ cur \in Page
      BY <1>1 DEF InUse
    <2>3. pt'[x] = ZeroPage /\ pt'[cur] = [pt[cur] EXCEPT ![i0] = [next |-> x, u |-> TRUE]]
      BY <2>2, Zenon DEF TypeOK
    <2>4. \A y \in InUse : y # cur => pt'[y] = pt[y]
      BY <1>1, <2>2 DEF TypeOK, InUse
    <2> QED
      BY <1>2, <2>1, <2>2, <2>3, <2>4, ZenonT(60)
  <1>4. /\ a \in Place /\ a.space = h /\ a.path # <<>>
        /\ Len(at[cur].path) # L - 1
    <2>1. at[cur] \in Place /\ Len(at[cur].path) = d - 1
      <3>1. Len(SubSeq(va, 1, d - 1)) = d - 1
        BY <1>0, PathOf
      <3> QED
        BY ONLY <3>1, at[cur] = TableOf(h, va, d), at \in [InUse -> Place],
                cur \in InUse DEF TableOf
    <2>2. a.space = h
      BY DEF TableOf
    <2>3. d - 1 # L - 1
      BY <1>0, VaAssumption
    <2> QED
      BY <1>2, <2>1, <2>2, <2>3, BelowDeeper
  <1>5. \A y \in InUse : at[y] # a
    <2> SUFFICES ASSUME NEW y \in InUse, at[y] = a PROVE FALSE
      OBVIOUS
    <2>1. PICK z \in InUse : /\ at[z] = TableOf(h, va, d)
                             /\ pt[z][va[d]] = [next |-> y, u |-> TRUE]
      BY EntryUp
    <2>2. z = cur
      BY <2>1 DEF Placed, PlacedNext
    <2>3. pt[z][va[d]].next = y
      BY <2>1
    <2> QED
      BY <2>2, <2>3, NullAssumption DEF InUse
  <1> HIDE DEF a, i0
  <1>6. PICK at2 \in [InUse' -> Place] :
            at2[x] = a /\ \A y \in InUse : at2[y] = at[y]
    <2> DEFINE f == [y \in InUse' |-> IF y = x THEN a ELSE at[y]]
    <2>1. f \in [InUse' -> Place] /\ f[x] = a /\ \A y \in InUse : f[y] = at[y]
      BY <1>1, <1>4
    <2> QED
      BY <2>1
  <1>7. ASSUME NEW g \in made
        PROVE  ptr[g] \in InUse' /\ at2[ptr[g]] = [space |-> g, path |-> <<>>]
    BY <1>1, <1>6 DEF Placed, PlacedNext
  <1>8. \A y \in InUse' : at2[y].space \in made
    BY <1>1, <1>4, <1>6 DEF Placed, PlacedNext
  <1>9. \A y, z \in InUse' : at2[y] = at2[z] => y = z
    BY <1>1, <1>5, <1>6 DEF Placed, PlacedNext
  <1>10. ASSUME NEW y \in InUse, NEW i \in Idx, ~(y = cur /\ i = i0)
         PROVE  EntryPlaced(at2, y, i)'
    <2>1. EntryPlaced(at, y, i) /\ at2[y] = at[y] /\ pt'[y][i] = pt[y][i]
      BY <1>3, <1>6, <1>10, Zenon DEF Placed, PlacedNext
    <2>2. pt[y][i].next \in InUse =>
            pt[y][i].next \in InUse' /\ at2[pt[y][i].next] = at[pt[y][i].next]
      BY <1>1, <1>6
    <2> QED
      BY <2>1, <2>2 DEF EntryPlaced
  <1>11. EntryPlaced(at2, cur, i0)'
    <2>1. at2[cur] = at[cur] /\ at2[x] = Below(at2[cur], i0) /\ x \in InUse'
      BY <1>1, <1>2, <1>6
    <2>2. pt'[cur][i0].u /\ pt'[cur][i0].next = x
      BY <1>3
    <2>3. ~(at2[cur].path = <<>> /\ KernelIdx(i0))
      <3>1. ~(TableOf(h, va, d).path = <<>> /\ KernelIdx(va[d]))
        BY <1>0, UserNotKernel
      <3> QED
        BY <2>1, <3>1 DEF i0
    <2> QED
      BY <1>4, <2>1, <2>2, <2>3 DEF EntryPlaced
  <1>12. ASSUME NEW i \in Idx PROVE EntryPlaced(at2, x, i)'
    <2>1. pt'[x][i] = Absent /\ at2[x].path # <<>>
      BY <1>3, <1>4, <1>6 DEF ZeroPage
    <2>2. ~pt'[x][i].u
      BY <2>1 DEF Absent
    <2> QED
      BY <2>1, <2>2 DEF EntryPlaced
  <1>13. ASSUME NEW y \in InUse', at2[y].path # <<>>
         PROVE  \E z \in InUse', i \in Idx :
                  pt'[z][i] = [next |-> y, u |-> TRUE] /\ at2[y] = Below(at2[z], i)
    <2>1. CASE y = x
      <3>1. cur \in InUse' /\ at2[y] = Below(at2[cur], i0)
        BY <1>1, <1>2, <1>6, <2>1
      <3>2. pt'[cur][i0] = [next |-> y, u |-> TRUE]
        BY <1>3, <2>1
      <3> QED
        BY <1>2, <3>1, <3>2, Zenon
    <2>2. CASE y # x
      <3>1. y \in InUse /\ at[y].path # <<>>
        BY <1>1, <1>6, <1>13, <2>2
      <3>2. PICK z \in InUse, i \in Idx :
                pt[z][i] = [next |-> y, u |-> TRUE] /\ at[y] = Below(at[z], i)
        BY <3>1 DEF Placed, PlacedNext
      <3>3. pt[z][i].next # NULL
        BY <3>1, <3>2, NullAssumption DEF InUse
      <3>4. ~(z = cur /\ i = i0)
        BY <3>3 DEF i0
      <3>5. pt'[z][i] = [next |-> y, u |-> TRUE]
        BY <1>3, <3>2, <3>4, Zenon
      <3> QED
        BY <1>1, <1>6, <3>1, <3>2, <3>5
    <2> QED
      BY <2>1, <2>2, Zenon
  <1>15. ASSUME NEW y \in InUse', NEW i \in Idx PROVE EntryPlaced(at2, y, i)'
    BY <1>1, <1>10, <1>11, <1>12
  <1>14. PlacedNext(at2)
    BY <1>7, <1>8, <1>9, <1>13, <1>15, Zenon DEF Placed, PlacedNext
  <1> QED
    BY <1>1, <1>6, <1>14 DEF a, AddsTable

(* map() writes the entry of a page, in a table of the last level. *)
LEMMA PlacedLeaf ==
    ASSUME TypeOK, NEW at \in [InUse -> Place], Placed(at),
           NEW h \in made, NEW va \in UserVa,
           NEW cur \in InUse, at[cur] = TableOf(h, va, L),
           NEW e, e = Absent \/ (e.u /\ e.next \in Frame),
           pt' = [pt EXCEPT ![cur][va[L]] = e],
           UNCHANGED <<pool, made, ptr>>
    PROVE  PlacedNext(at) /\ WritesEntry(cur, va[L], e)
  <1> DEFINE i0 == va[L]
  <1>0. L \in 1 .. L
    BY VaAssumption
  <1>1. i0 \in Idx /\ InUse' = InUse
    BY <1>0, PathOf DEF InUse
  <1>2. Len(at[cur].path) = L - 1
    BY <1>0, PathOf DEF TableOf
  <1>3. ~(at[cur].path = <<>> /\ KernelIdx(i0))
    BY <1>0, UserNotKernel
  <1>4. /\ pt'[cur][i0] = e
        /\ \A y \in InUse, i \in Idx :
              ~(y = cur /\ i = i0) => pt'[y][i] = pt[y][i]
    BY <1>1 DEF TypeOK, InUse
  <1> HIDE DEF i0
  <1>5. ASSUME NEW y \in InUse, NEW i \in Idx, ~(y = cur /\ i = i0)
        PROVE  EntryPlaced(at, y, i)'
    <2>1. EntryPlaced(at, y, i) /\ pt'[y][i] = pt[y][i]
      BY <1>4, <1>5 DEF Placed, PlacedNext
    <2> QED
      BY <1>1, <2>1 DEF EntryPlaced
  <1>6. EntryPlaced(at, cur, i0)'
    <2>1. CASE e = Absent
      <3>1. ~pt'[cur][i0].u /\ pt'[cur][i0] = Absent
        BY <1>4, <2>1 DEF Absent
      <3> QED
        BY <1>3, <3>1 DEF EntryPlaced
    <2>2. CASE e.u /\ e.next \in Frame
      <3>1. pt'[cur][i0].u /\ pt'[cur][i0].next \in Frame
        BY <1>4, <2>2
      <3> QED
        BY <1>2, <1>3, <3>1 DEF EntryPlaced
    <2> QED
      BY <2>1, <2>2
  <1>7. ASSUME NEW y \in InUse, at[y].path # <<>>
        PROVE  \E z \in InUse, i \in Idx :
                 pt'[z][i] = [next |-> y, u |-> TRUE] /\ at[y] = Below(at[z], i)
    <2>1. PICK z \in InUse, i \in Idx :
              pt[z][i] = [next |-> y, u |-> TRUE] /\ at[y] = Below(at[z], i)
      BY <1>7 DEF Placed, PlacedNext
    <2>2. at[z] \in Place /\ at[y] \in Place
      OBVIOUS
    <2>3. Len(at[y].path) = Len(at[z].path) + 1 /\ Len(at[y].path) \in 0 .. L - 1
      BY <2>1, <2>2, BelowDeeper
    <2>4. Len(at[z].path) # L - 1
      BY <2>3, <2>2, BelowDeeper, <1>2, VaAssumption
    <2>5. z # cur
      BY <1>2, <2>4
    <2> QED
      BY <1>4, <2>1, <2>5
  <1>8. PlacedNext(at)
    BY <1>1, <1>5, <1>6, <1>7 DEF Placed, PlacedNext
  <1> QED
    BY <1>1, <1>4, <1>8 DEF i0, WritesEntry

-----------------------------------------------------------------------------
(* The inductive step, action by action.                                   *)

(* Nothing changes but that the machine stops. *)
LEMMA PanicIInv ==
    ASSUME IInv, halted' \in BOOLEAN, UNCHANGED <<tables, tasks, cpu, op>>
    PROVE  IInv'
  <1>1. TypeOK /\ KernelTables /\ RootsLoaded /\ RunsOnce /\ OwnSpace /\ UnmapAlone
    BY DEF IInv
  <1>2. PICK at \in [InUse -> Place] : Placed(at) /\ OnItsWay(at) /\ Cached(at)
    BY DEF IInv
  <1>3. Placed(at)' /\ InUse' = InUse
    BY <1>2, PlacedSame DEF tables
  <1>4. TypeOK'
    BY <1>1 DEF TypeOK, tables, tasks, cpu
  <1>5. KernelTables' /\ RootsLoaded'
    BY <1>1 DEF KernelTables, RootsLoaded, Built, Root, tables, tasks, cpu
  <1>6. RunsOnce' /\ OwnSpace' /\ UnmapAlone'
    BY <1>1 DEF RunsOnce, OwnSpace, UnmapAlone, UserRuns, tables, tasks, cpu
  <1>7. OnItsWay(at)' /\ Cached(at)'
    BY <1>2, <1>3 DEF OnItsWay, Cached, UserRuns, tables, tasks, cpu
  <1> QED
    BY <1>3, <1>4, <1>5, <1>6, <1>7 DEF IInv

(* A step of map() that goes on to another table of the space. *)
LEMMA MapGoesOn ==
    ASSUME IInv, NEW c \in CPU, ~UserRuns(c), NEW o \in Op,
           op' = [op EXCEPT ![c] = o], UNCHANGED <<tables, tasks, cpu, halted>>,
           \A at \in [InUse -> Place] : Placed(at) /\ OnItsWay(at) =>
              /\ o.space \in made /\ o.va \in UserVa /\ o.cur \in InUse
              /\ at[o.cur] = TableOf(o.space, o.va, o.i)
              /\ o.what = "map" => o.pa \in Frame,
           o.what = "unmap" =>
             \A d \in CPU : UserRuns(d) => space[run[d]] # o.space
    PROVE  IInv'
  <1>1. TypeOK /\ KernelTables /\ RootsLoaded /\ RunsOnce /\ OwnSpace /\ UnmapAlone
    BY DEF IInv
  <1>2. PICK at \in [InUse -> Place] : Placed(at) /\ OnItsWay(at) /\ Cached(at)
    BY DEF IInv
  <1>3. Placed(at)' /\ InUse' = InUse
    BY <1>2, PlacedSame DEF tables
  <1>4. /\ op'[c] = o /\ op' \in [CPU -> Op]
        /\ \A d \in CPU : d # c => op'[d] = op[d]
    BY <1>1 DEF TypeOK
  <1>5. TypeOK'
    BY <1>1, <1>4 DEF TypeOK, tables, tasks, cpu
  <1>6. KernelTables' /\ RootsLoaded'
    BY <1>1 DEF KernelTables, RootsLoaded, Built, Root, tables, tasks, cpu
  <1>7. \A d \in CPU : UserRuns(d)' <=> UserRuns(d)
    BY DEF UserRuns, tasks, cpu
  <1>8. OwnSpace'
    BY <1>1, <1>7 DEF OwnSpace, tables, tasks, cpu
  <1>9. RunsOnce'
    BY <1>1, <1>4, <1>7 DEF RunsOnce, tasks, cpu
  <1>10. UnmapAlone'
    BY <1>1, <1>4, <1>7 DEF UnmapAlone, tasks, cpu
  <1>11. OnItsWay(at)'
    BY <1>2, <1>3, <1>4 DEF OnItsWay, tables
  <1>12. Cached(at)'
    BY <1>2, <1>3, <1>7 DEF Cached, tables, tasks, cpu
  <1> QED
    BY <1>3, <1>5, <1>6, <1>8, <1>9, <1>10, <1>11, <1>12 DEF IInv

LEMMA MapBeginIInv ==
    ASSUME IInv, NEW c \in CPU, NEW h \in Space, NEW va \in UserVa,
           NEW pa \in Frame \cup {NULL}, MapBegin(c, h, va, pa)
    PROVE  IInv'
  <1> DEFINE o == [what |-> IF pa = NULL THEN "unmap" ELSE "map",
                   space |-> h, va |-> va, pa |-> pa, i |-> 1, cur |-> ptr[h]]
  <1>1. op' = [op EXCEPT ![c] = o] /\ UNCHANGED <<tables, tasks, cpu, halted>>
    BY DEF MapBegin
  <1>2. ~UserRuns(c)
    BY DEF MapBegin, InKernel, UserRuns
  <1>3. o.what = "unmap" =>
            \A d \in CPU : UserRuns(d) => space[run[d]] # o.space
    BY <1>2 DEF MapBegin, UserRuns
  <1>4. 1 \in 1 .. L /\ TableOf(h, va, 1) = [space |-> h, path |-> <<>>]
    BY VaAssumption, PathOf DEF TableOf
  <1>5. h \in made /\ ptr[h] \in Page
    BY Zenon DEF MapBegin, IInv, Placed, InUse
  <1>6. o \in Op
    BY <1>4, <1>5 DEF Op
  <1>7. ASSUME NEW at \in [InUse -> Place], Placed(at)
        PROVE  /\ o.space \in made /\ o.va \in UserVa /\ o.cur \in InUse
               /\ at[o.cur] = TableOf(o.space, o.va, o.i)
               /\ o.what = "map" => o.pa \in Frame
    <2>1. ptr[h] \in InUse /\ at[ptr[h]] = [space |-> h, path |-> <<>>]
      BY <1>5, <1>7 DEF Placed
    <2> QED
      BY <1>4, <1>5, <2>1
  <1> HIDE DEF o
  <1> QED
    BY <1>1, <1>2, <1>3, <1>6, <1>7, MapGoesOn, Zenon

(* Where map() goes on from a table that is not the last. *)
LEMMA WalkGoesOn ==
    ASSUME TypeOK, NEW c \in CPU, op[c].what # "idle", ~AtLeaf(op[c])
    PROVE  /\ op[c].i \in 1 .. L - 1 /\ op[c].i + 1 \in 1 .. L
           /\ op[c] \in Op
           /\ \A x \in Page :
                LET o == [what |-> op[c].what, space |-> op[c].space,
                          va |-> op[c].va, pa |-> op[c].pa,
                          i |-> op[c].i + 1, cur |-> x]
                IN  o \in Op /\ [op EXCEPT ![c].i = @ + 1, ![c].cur = x]
                                  = [op EXCEPT ![c] = o]
  <1>1. op[c] \in Op /\ op \in [CPU -> Op]
    BY DEF TypeOK
  <1>2. op[c].i \in 1 .. L - 1 /\ op[c].i + 1 \in 1 .. L
    BY <1>1, VaAssumption DEF AtLeaf, Op
  <1>3. ASSUME NEW x \in Page
        PROVE  LET o == [what |-> op[c].what, space |-> op[c].space,
                          va |-> op[c].va, pa |-> op[c].pa,
                          i |-> op[c].i + 1, cur |-> x]
                IN  o \in Op /\ [op EXCEPT ![c].i = @ + 1, ![c].cur = x]
                                  = [op EXCEPT ![c] = o]
    <2> DEFINE o == [what |-> op[c].what, space |-> op[c].space,
                     va |-> op[c].va, pa |-> op[c].pa,
                     i |-> op[c].i + 1, cur |-> x]
    <2>1. o \in Op
      BY <1>1, <1>2 DEF Op
    <2>2. [op[c] EXCEPT !.i = @ + 1, !.cur = x] = o
      <3> DEFINE r == [op[c] EXCEPT !.i = @ + 1]
      <3>1. r = [what |-> op[c].what, space |-> op[c].space, va |-> op[c].va,
                 pa |-> op[c].pa, i |-> op[c].i + 1, cur |-> op[c].cur]
        BY <1>1 DEF Op
      <3>2. r \in Op
        BY <1>1, <1>2, <3>1 DEF Op
      <3>3. [op[c] EXCEPT !.i = @ + 1, !.cur = x] = [r EXCEPT !.cur = x]
        OBVIOUS
      <3> HIDE DEF r
      <3>4. [r EXCEPT !.cur = x] =
              [what |-> r.what, space |-> r.space, va |-> r.va,
               pa |-> r.pa, i |-> r.i, cur |-> x]
        BY <3>2 DEF Op
      <3> QED
        BY <3>1, <3>3, <3>4
    <2>3. [op EXCEPT ![c].i = @ + 1, ![c].cur = x]
            = [op EXCEPT ![c] = [op[c] EXCEPT !.i = @ + 1, !.cur = x]]
      BY <1>1, Zenon
    <2> HIDE DEF o
    <2>4. [op EXCEPT ![c].i = @ + 1, ![c].cur = x] = [op EXCEPT ![c] = o]
      BY <2>2, <2>3, Zenon
    <2> QED
      BY <2>1, <2>4 DEF o
  <1> QED
    BY <1>1, <1>2, <1>3, Zenon

(* ptwalk follows an entry. *)
LEMMA WalkFollowIInv ==
    ASSUME IInv, NEW c \in CPU, op[c].what # "idle", ~AtLeaf(op[c]),
           pt[op[c].cur][op[c].va[op[c].i]].next # NULL,
           op' = [op EXCEPT ![c].i = @ + 1,
                            ![c].cur = pt[op[c].cur][op[c].va[op[c].i]].next],
           UNCHANGED <<tables, tasks, cpu, halted>>
    PROVE  IInv'
  <1> DEFINE x == pt[op[c].cur][op[c].va[op[c].i]].next
             o == [what |-> op[c].what, space |-> op[c].space, va |-> op[c].va,
                   pa |-> op[c].pa, i |-> op[c].i + 1, cur |-> x]
  <1>1. TypeOK /\ RunsOnce /\ UnmapAlone
    BY Zenon DEF IInv
  <1>2. op[c].i \in 1 .. L - 1 /\ op[c].i + 1 \in 1 .. L
    BY <1>1, WalkGoesOn, SMTT(60)
  <1>3. ASSUME NEW at \in [InUse -> Place], Placed(at), OnItsWay(at)
        PROVE  /\ op[c].space \in made /\ op[c].va \in UserVa /\ x \in InUse
               /\ at[x] = TableOf(op[c].space, op[c].va, op[c].i + 1)
               /\ op[c].what = "map" => op[c].pa \in Frame
    <2>1. /\ op[c].cur \in InUse /\ op[c].va \in UserVa
          /\ at[op[c].cur] = TableOf(op[c].space, op[c].va, op[c].i)
          /\ op[c].what = "map" => op[c].pa \in Frame
          /\ op[c].space \in made
      BY <1>3 DEF OnItsWay
    <2>2. op[c].i \in 1 .. L /\ op[c].i # L
      BY <1>2, VaAssumption
    <2> DEFINE va == op[c].va
               d == op[c].i
               y == op[c].cur
    <2>3. va \in UserVa /\ d \in 1 .. L /\ y \in InUse /\ d # L /\ x = pt[y][va[d]].next
      BY <2>1, <2>2
    <2>4. at[y] = TableOf(op[c].space, va, d)
      BY <2>1
    <2> HIDE DEF va, d, y, x
    <2>5. x # NULL
      BY SMTT(60) DEF x
    <2>6. x \in InUse /\ at[x] = TableOf(op[c].space, va, d + 1)
      BY <1>1, <1>3, <2>3, <2>4, <2>5, EntryDown, SMTT(60)
    <2> QED
      BY <2>1, <2>6 DEF va, d
  <1>4. x \in Page
    BY <1>3, ZenonT(60) DEF IInv, InUse
  <1> HIDE DEF x
  <1>5. o \in Op /\ op' = [op EXCEPT ![c] = o]
    BY <1>1, <1>4, WalkGoesOn, Zenon DEF x
  <1>6. /\ o.what = op[c].what /\ o.space = op[c].space /\ o.va = op[c].va
        /\ o.pa = op[c].pa /\ o.i = op[c].i + 1 /\ o.cur = x
    OBVIOUS
  <1> HIDE DEF o
  <1>7. ~UserRuns(c)
    BY <1>1 DEF RunsOnce
  <1>8. o.what = "unmap" =>
            \A d \in CPU : UserRuns(d) => space[run[d]] # o.space
    BY <1>1, <1>6, Zenon DEF UnmapAlone
  <1>9. \A at \in [InUse -> Place] : Placed(at) /\ OnItsWay(at) =>
              /\ o.space \in made /\ o.va \in UserVa /\ o.cur \in InUse
              /\ at[o.cur] = TableOf(o.space, o.va, o.i)
              /\ o.what = "map" => o.pa \in Frame
    BY <1>3, <1>6
  <1> QED
    BY <1>5, <1>7, <1>8, <1>9, MapGoesOn, Zenon

(* A new context: not one that runs.  ctx[k].cr3 is NULL, or the root of a *)
(* space for a user context.                                               *)
LEMMA NewContextIInv ==
    ASSUME IInv, NEW c \in CPU, NEW k \in Task, NEW h \in made \cup {NULL},
           New(c, k), live' = live \cup {k}, space' = [space EXCEPT ![k] = h],
           ctx' = [ctx EXCEPT ![k] = IF h = NULL
                      THEN [cr3 |-> NULL, rsp0 |-> NULL]
                      ELSE [cr3 |-> ptr[h], rsp0 |-> k]],
           UNCHANGED <<tables, cpu, op, halted>>
    PROVE  IInv'
  <1> DEFINE x == IF h = NULL THEN [cr3 |-> NULL, rsp0 |-> NULL]
                              ELSE [cr3 |-> ptr[h], rsp0 |-> k]
  <1>1. TypeOK /\ KernelTables /\ RootsLoaded /\ RunsOnce /\ OwnSpace /\ UnmapAlone
    BY DEF IInv
  <1>2. PICK at \in [InUse -> Place] : Placed(at) /\ OnItsWay(at) /\ Cached(at)
    BY DEF IInv
  <1>3. Placed(at)' /\ InUse' = InUse
    BY <1>2, PlacedSame DEF tables
  <1>4. k \in Context /\ h \in Space \cup {NULL}
        /\ ptr \in [Space -> Page \cup {NULL}]
    BY <1>1 DEF Context, TypeOK
  <1>5. /\ x \in [cr3 : Page \cup KPage \cup {NULL}, rsp0 : Context \cup {NULL}]
        /\ h = NULL => x.cr3 = NULL
        /\ h # NULL => x.cr3 = ptr[h] /\ x = [cr3 |-> ptr[h], rsp0 |-> k]
    BY <1>4
  <1>6. /\ \A d \in CPU : run[d] # k /\ run[d] \in Context
        /\ \A j \in Context : j # k => ctx'[j] = ctx[j] /\ space'[j] = space[j]
        /\ ctx'[k] = x /\ space'[k] = h
    BY <1>1, <1>4 DEF New, TypeOK
  <1> HIDE DEF x
  <1>7. TypeOK'
    <2>1. ctx' \in [Context -> [cr3 : Page \cup KPage \cup {NULL},
                                rsp0 : Context \cup {NULL}]]
      BY <1>1, <1>4, <1>5 DEF TypeOK, x
    <2>2. live' \subseteq Context /\ space' \in [Context -> Space \cup {NULL}]
      BY <1>1, <1>4 DEF TypeOK
    <2> QED
      BY <1>1, <2>1, <2>2 DEF TypeOK, tables, cpu
  <1>8. KernelTables'
    BY <1>1 DEF KernelTables, Built, tables
  <1>9. RootsLoaded'
    <2>1. Root(x.cr3)
      BY <1>5 DEF Root
    <2>2. \A j \in live' : Root(ctx'[j].cr3)
      BY <1>1, <1>6, <2>1 DEF RootsLoaded, TypeOK
    <2>3. \A y : Root(y)' <=> Root(y)
      BY DEF Root, Built, tables
    <2> QED
      BY <1>1, <2>2, <2>3 DEF RootsLoaded, cpu
  <1>10. \A d \in CPU : /\ UserRuns(d)' <=> UserRuns(d)
                        /\ run'[d] = run[d] /\ space'[run[d]] = space[run[d]]
    BY <1>6 DEF UserRuns, cpu
  <1>11. RunsOnce'
    BY <1>1, <1>10 DEF RunsOnce, cpu
  <1>12. OwnSpace'
    <2>1. ASSUME NEW j \in live', space'[j] # NULL
          PROVE  space'[j] \in made /\ ctx'[j] = [cr3 |-> ptr[space'[j]], rsp0 |-> j]
      <3>1. CASE j = k
        BY <1>5, <1>6, <2>1, <3>1
      <3>2. CASE j # k
        BY <1>1, <1>6, <2>1, <3>2 DEF OwnSpace, TypeOK
      <3> QED
        BY <3>1, <3>2
    <2> QED
      BY <1>1, <1>10, <2>1 DEF OwnSpace, tables, cpu
  <1>13. UnmapAlone'
    BY <1>1, <1>10 DEF UnmapAlone, cpu
  <1>14. OnItsWay(at)' /\ Cached(at)'
    BY <1>2, <1>3, <1>10 DEF OnItsWay, Cached, tables, cpu
  <1> QED
    BY <1>3, <1>7, <1>8, <1>9, <1>11, <1>12, <1>13, <1>14 DEF IInv

LEMMA kcontextIInv ==
    ASSUME IInv, NEW c \in CPU, NEW k \in Task, kcontext(c, k)
    PROVE  IInv'
  <1>1. ctx' = [ctx EXCEPT ![k] = IF NULL = NULL
                      THEN [cr3 |-> NULL, rsp0 |-> NULL]
                      ELSE [cr3 |-> ptr[NULL], rsp0 |-> k]]
    BY DEF kcontext
  <1>2. NULL \in made \cup {NULL}
    OBVIOUS
  <1>3. /\ New(c, k) /\ live' = live \cup {k} /\ space' = [space EXCEPT ![k] = NULL]
        /\ UNCHANGED <<tables, cpu, op, halted>>
    BY DEF kcontext
  <1> QED
    BY <1>1, <1>2, <1>3, NewContextIInv, Zenon

LEMMA ucontextIInv ==
    ASSUME IInv, NEW c \in CPU, NEW h \in Space, NEW k \in Task, ucontext(c, h, k)
    PROVE  IInv'
  <1>1. h # NULL
    BY NullAssumption
  <1>2. ctx' = [ctx EXCEPT ![k] = IF h = NULL
                      THEN [cr3 |-> NULL, rsp0 |-> NULL]
                      ELSE [cr3 |-> ptr[h], rsp0 |-> k]]
    BY <1>1 DEF ucontext
  <1>3. /\ New(c, k) /\ live' = live \cup {k} /\ space' = [space EXCEPT ![k] = h]
        /\ h \in made \cup {NULL} /\ UNCHANGED <<tables, cpu, op, halted>>
    BY DEF ucontext
  <1> QED
    BY <1>2, <1>3, NewContextIInv, Zenon

LEMMA ExitIInv ==
    ASSUME IInv, NEW c \in CPU, NEW k \in Task, Exit(c, k)
    PROVE  IInv'
  <1>1. TypeOK /\ KernelTables /\ RootsLoaded /\ RunsOnce /\ OwnSpace /\ UnmapAlone
    BY DEF IInv
  <1>2. PICK at \in [InUse -> Place] : Placed(at) /\ OnItsWay(at) /\ Cached(at)
    BY DEF IInv
  <1>u. live' = live \ {k} /\ UNCHANGED <<tables, space, ctx, cpu, op, halted>>
    BY DEF Exit
  <1>3. Placed(at)' /\ InUse' = InUse
    BY <1>2, <1>u, PlacedSame DEF tables
  <1>4. TypeOK'
    BY <1>1, <1>u DEF TypeOK, tables, cpu
  <1>5. KernelTables' /\ RootsLoaded'
    BY <1>1, <1>u DEF KernelTables, RootsLoaded, Built, Root, tables, cpu
  <1>6. RunsOnce'
    <2>1. \A d \in CPU : mode[d] = "run" => run[d] # k
      BY DEF Exit
    <2> QED
      BY <1>1, <1>u, <2>1 DEF RunsOnce, UserRuns, cpu
  <1>7. OwnSpace' /\ UnmapAlone'
    BY <1>1, <1>u DEF OwnSpace, UnmapAlone, UserRuns, tables, cpu
  <1>8. OnItsWay(at)' /\ Cached(at)'
    BY <1>2, <1>3, <1>u DEF OnItsWay, Cached, UserRuns, tables, cpu
  <1> QED
    BY <1>3, <1>4, <1>5, <1>6, <1>7, <1>8 DEF IInv

(* A trap saves the space of the code that ran, which is its own. *)
LEMMA TrapIInv ==
    ASSUME IInv, NEW c \in CPU, Trap(c)
    PROVE  IInv'
  <1> DEFINE k == run[c]
  <1>1. TypeOK /\ KernelTables /\ RootsLoaded /\ RunsOnce /\ OwnSpace /\ UnmapAlone
    BY DEF IInv
  <1>2. PICK at \in [InUse -> Place] : Placed(at) /\ OnItsWay(at) /\ Cached(at)
    BY DEF IInv
  <1>u. /\ ctx' = [ctx EXCEPT ![k] = [cr3 |-> cr3[c], rsp0 |-> rsp0[c]]]
        /\ mode' = [mode EXCEPT ![c] = "handler"] /\ mode[c] = "run"
        /\ UNCHANGED <<tables, live, space, run, cr3, pg, rsp0, tlb, op, halted>>
    BY DEF Trap
  <1>3. Placed(at)' /\ InUse' = InUse
    BY <1>2, <1>u, PlacedSame DEF tables
  <1>4. /\ k \in Context /\ ctx'[k] = [cr3 |-> cr3[c], rsp0 |-> rsp0[c]]
        /\ \A j \in Context : j # k => ctx'[j] = ctx[j]
        /\ mode'[c] = "handler" /\ \A d \in CPU : d # c => mode'[d] = mode[d]
    BY <1>1, <1>u DEF TypeOK
  <1>5. TypeOK'
    BY <1>1, <1>u, <1>4 DEF TypeOK, tables
  <1>6. KernelTables'
    BY <1>1, <1>u DEF KernelTables, Built, tables
  <1>7. RootsLoaded'
    <2>1. \A y : Root(y)' <=> Root(y)
      BY <1>u DEF Root, Built, tables
    <2>2. ctx'[k].cr3 = cr3[c]
      BY <1>4
    <2> HIDE DEF k
    <2>3. \A j \in live : Root(ctx'[j].cr3)
      BY <1>1, <1>4, <2>2 DEF RootsLoaded, TypeOK
    <2> QED
      BY <1>1, <1>u, <2>1, <2>3 DEF RootsLoaded
  <1>8. \A d \in CPU : UserRuns(d)' => UserRuns(d)
    BY <1>4, <1>u DEF UserRuns
  <1>9. RunsOnce'
    BY <1>1, <1>4, <1>8, <1>u DEF RunsOnce
  <1>10. OwnSpace'
    <2>1. k \in live /\ (space[k] # NULL => cr3[c] = ptr[space[k]] /\ rsp0[c] = k)
      BY <1>1, <1>u DEF RunsOnce, OwnSpace, UserRuns
    <2> HIDE DEF k
    <2>2. ASSUME NEW j \in live, space[j] # NULL
          PROVE  space[j] \in made /\ ctx'[j] = [cr3 |-> ptr[space[j]], rsp0 |-> j]
      <3>1. CASE j = k
        BY <1>1, <1>4, <2>1, <2>2, <3>1 DEF OwnSpace
      <3>2. CASE j # k
        BY <1>1, <1>4, <2>2, <3>2 DEF OwnSpace, TypeOK
      <3> QED
        BY <3>1, <3>2
    <2> QED
      BY <1>1, <1>8, <1>u, <2>2 DEF OwnSpace, tables
  <1>11. UnmapAlone'
    BY <1>1, <1>8, <1>u DEF UnmapAlone
  <1>12. OnItsWay(at)' /\ Cached(at)'
    BY <1>2, <1>3, <1>8, <1>u DEF OnItsWay, Cached, tables
  <1> QED
    BY <1>3, <1>5, <1>6, <1>7, <1>9, <1>10, <1>11, <1>12 DEF IInv

(* A return loads the space of a user context, and forgets translations. *)
LEMMA ReturnIInv ==
    ASSUME IInv, NEW c \in CPU, NEW k \in Context, Return(c, k)
    PROVE  IInv'
  <1>1. TypeOK /\ KernelTables /\ RootsLoaded /\ RunsOnce /\ OwnSpace /\ UnmapAlone
    BY DEF IInv
  <1>2. PICK at \in [InUse -> Place] : Placed(at) /\ OnItsWay(at) /\ Cached(at)
    BY DEF IInv
  <1>u. /\ run' = [run EXCEPT ![c] = k] /\ mode' = [mode EXCEPT ![c] = "run"]
        /\ op[c] = Idle /\ Resumable(c, k)
        /\ UNCHANGED <<tables, tasks, pg, op, halted>>
    BY DEF Return
  <1>3. Placed(at)' /\ InUse' = InUse
    BY <1>2, <1>u, PlacedSame DEF tables
  <1>4. /\ run'[c] = k /\ mode'[c] = "run" /\ k \in live
        /\ \A d \in CPU : d # c =>
              /\ run'[d] = run[d] /\ mode'[d] = mode[d] /\ run[d] # k
              /\ cr3'[d] = cr3[d] /\ rsp0'[d] = rsp0[d] /\ tlb'[d] = tlb[d]
    BY <1>1, <1>u DEF TypeOK, Resumable, Return, LoadSpace
  <1>5. /\ ctx[k].cr3 # NULL =>
             cr3'[c] = ctx[k].cr3 /\ rsp0'[c] = ctx[k].rsp0 /\ tlb'[c] = {}
        /\ ctx[k].cr3 = NULL =>
             cr3'[c] = cr3[c] /\ rsp0'[c] = rsp0[c] /\ tlb'[c] = tlb[c]
    BY <1>1 DEF TypeOK, Return, LoadSpace
  <1>6. TypeOK'
    <2>1. ctx[k] \in [cr3 : Page \cup KPage \cup {NULL}, rsp0 : Context \cup {NULL}]
      BY <1>1 DEF TypeOK
    <2>2. /\ cr3' \in [CPU -> Page \cup KPage \cup {NULL}]
          /\ rsp0' \in [CPU -> Context \cup {NULL}]
          /\ tlb' \in [CPU -> SUBSET (UserVa \X Frame)]
      BY <1>1, <2>1, Zenon DEF TypeOK, Return, LoadSpace
    <2>3. run' \in [CPU -> Context] /\ mode' \in [CPU -> {"run", "handler"}]
      BY <1>1, <1>u DEF TypeOK
    <2> QED
      BY <1>1, <1>u, <2>2, <2>3 DEF TypeOK, tables, tasks
  <1>7. KernelTables'
    BY <1>1, <1>u DEF KernelTables, Built, tables
  <1>8. RootsLoaded'
    <2>1. \A y : Root(y)' <=> Root(y)
      BY <1>u DEF Root, Built, tables
    <2>2. Root(ctx[k].cr3) /\ Root(cr3[c])
      BY <1>1, <1>4 DEF RootsLoaded
    <2>3. Root(cr3'[c]) /\ (pg[c] => cr3'[c] # NULL)
      BY <1>1, <1>5, <2>2 DEF RootsLoaded
    <2> QED
      BY <1>1, <1>4, <1>u, <2>1, <2>3 DEF RootsLoaded, tasks
  <1>9. \A d \in CPU : d # c => (UserRuns(d)' <=> UserRuns(d))
    BY <1>4, <1>u DEF UserRuns, tasks
  <1>10. UserRuns(c)' => space[k] # NULL
    BY <1>4, <1>u DEF UserRuns, tasks
  <1>11. RunsOnce'
    <2>1. op'[c].what = "idle"
      BY <1>u DEF Idle
    <2> QED
      BY <1>1, <1>4, <1>9, <1>u, <2>1 DEF RunsOnce, tasks
  <1>12. space[k] # NULL => /\ space[k] \in made /\ ptr[space[k]] # NULL
                            /\ ctx[k].cr3 = ptr[space[k]] /\ ctx[k].rsp0 = k
    <2>1. space[k] # NULL =>
             space[k] \in made /\ ctx[k] = [cr3 |-> ptr[space[k]], rsp0 |-> k]
      BY <1>1, <1>4 DEF OwnSpace
    <2>2. \A h \in made : ptr[h] # NULL
      <3>1. \A h \in made : ptr[h] \in Page
        BY <1>2, Zenon DEF Placed, InUse
      <3>2. NULL \notin Page
        BY NullAssumption
      <3> QED
        BY <3>1, <3>2
    <2> QED
      BY <2>1, <2>2
  <1>13. OwnSpace'
    <2>1. \A d \in CPU : UserRuns(d)' =>
             cr3'[d] = ptr[space[run'[d]]] /\ rsp0'[d] = run'[d]
      BY <1>1, <1>4, <1>5, <1>9, <1>10, <1>12 DEF OwnSpace
    <2> QED
      BY <1>1, <1>u, <2>1 DEF OwnSpace, tables, tasks
  <1>14. UnmapAlone'
    BY <1>1, <1>4, <1>9, <1>10, <1>u DEF UnmapAlone, Resumable, tasks
  <1>15. OnItsWay(at)'
    BY <1>2, <1>3, <1>u DEF OnItsWay, tables
  <1>16. Cached(at)'
    <2>1. UserRuns(c)' => tlb'[c] = {}
      BY <1>5, <1>10, <1>12
    <2> QED
      BY <1>2, <1>3, <1>4, <1>9, <1>u, <2>1 DEF Cached, tables, tasks
  <1> QED
    BY <1>3, <1>6, <1>7, <1>8, <1>11, <1>13, <1>14, <1>15, <1>16 DEF IInv

(* The processor caches what the tables of the running space say. *)
LEMMA TouchIInv ==
    ASSUME IInv, NEW c \in CPU, NEW va \in UserVa, Touch(c, va)
    PROVE  IInv'
  <1> DEFINE f == Lookup(cr3[c], va)
             h == space[run[c]]
  <1>1. TypeOK /\ KernelTables /\ RootsLoaded /\ RunsOnce /\ OwnSpace /\ UnmapAlone
    BY DEF IInv
  <1>2. PICK at \in [InUse -> Place] : Placed(at) /\ OnItsWay(at) /\ Cached(at)
    BY DEF IInv
  <1>u. /\ tlb' = [tlb EXCEPT ![c] = @ \cup {<<va, f>>}]
        /\ UserRuns(c) /\ f # NULL
        /\ UNCHANGED <<tables, tasks, run, mode, cr3, pg, rsp0, op, halted>>
    BY DEF Touch
  <1>3. Placed(at)' /\ InUse' = InUse
    BY <1>2, <1>u, PlacedSame
  <1>4. cr3[c] = ptr[h] /\ h \in made
    BY <1>1, <1>u, Zenon DEF OwnSpace, RunsOnce, UserRuns
  <1>5. /\ f \in Frame
        /\ \E x \in InUse : at[x] = TableOf(h, va, L) /\ pt[x][va[L]].next = f
    BY <1>1, <1>2, <1>4, <1>u, LookupPlaced
  <1> HIDE DEF f
  <1>6. TypeOK'
    BY <1>1, <1>5, <1>u DEF TypeOK, tables, tasks
  <1>7. KernelTables' /\ RootsLoaded'
    BY <1>1, <1>u DEF KernelTables, RootsLoaded, Built, Root, tables, tasks
  <1>8. RunsOnce' /\ OwnSpace' /\ UnmapAlone'
    BY <1>1, <1>u DEF RunsOnce, OwnSpace, UnmapAlone, UserRuns, tables, tasks
  <1>9. OnItsWay(at)'
    BY <1>2, <1>3, <1>u DEF OnItsWay, tables
  <1>10. Cached(at)'
    <2>1. tlb'[c] = tlb[c] \cup {<<va, f>>} /\ \A d \in CPU : d # c => tlb'[d] = tlb[d]
      BY <1>1, <1>u DEF TypeOK
    <2>2. \A d \in CPU : UserRuns(d)' <=> UserRuns(d)
      BY <1>u DEF UserRuns, tasks
    <2>3. ASSUME NEW d \in CPU, UserRuns(d), NEW e \in tlb'[d]
          PROVE  \E x \in InUse : /\ at[x] = TableOf(space[run[d]], e[1], L)
                                  /\ pt[x][e[1][L]].next = e[2]
      <3>1. CASE e \in tlb[d]
        BY <1>2, <2>3, <3>1 DEF Cached
      <3>2. CASE e \notin tlb[d]
        <4>1. d = c /\ e = <<va, f>>
          BY <2>1, <2>3, <3>2
        <4> QED
          BY <1>5, <4>1
      <3> QED
        BY <3>1, <3>2
    <2> QED
      BY <1>3, <1>u, <2>2, <2>3 DEF Cached, tables, tasks
  <1> QED
    BY <1>3, <1>6, <1>7, <1>8, <1>9, <1>10 DEF IInv

(* vme_init: no space is protected yet, so no table of one is in use. *)
LEMMA VmeInitIInv ==
    ASSUME IInv, VmeInit
    PROVE  IInv'
  <1>1. TypeOK /\ KernelTables /\ RootsLoaded /\ RunsOnce /\ OwnSpace /\ UnmapAlone
    BY DEF IInv, PlacedNext
  <1>2. PICK at \in [InUse -> Place] : Placed(at) /\ OnItsWay(at) /\ Cached(at)
    BY DEF IInv, PlacedNext
  <1>u. /\ kpt = NULL /\ kpt' = KTable[<<>>] /\ pt' = WithKernel(pt)
        /\ cr3' = [cr3 EXCEPT ![BSP] = kpt'] /\ pg' = [pg EXCEPT ![BSP] = TRUE]
        /\ tlb' = [tlb EXCEPT ![BSP] = {}]
        /\ UNCHANGED <<pool, made, ptr, tasks, run, mode, rsp0, op, halted>>
    BY DEF VmeInit
  <1>3. made = {} /\ InUse = {} /\ InUse' = {}
    <2>1. made = {}
      BY <1>1, <1>u DEF KernelTables
    <2>2. InUse = {}
      BY <1>2, <2>1 DEF Placed
    <2> QED
      BY <1>u, <2>1, <2>2 DEF InUse
  <1>4. /\ \A d \in CPU : ~UserRuns(d) /\ ~UserRuns(d)'
        /\ \A d \in CPU : op[d].what = "idle"
        /\ \A k \in live : space[k] = NULL
    <2>1. \A k \in live : space[k] = NULL
      BY <1>1, <1>3 DEF OwnSpace
    <2>2. \A d \in CPU : ~UserRuns(d)
      BY <1>1, <2>1 DEF RunsOnce, UserRuns
    <2>3. \A d \in CPU : UserRuns(d)' <=> UserRuns(d)
      BY <1>u DEF UserRuns, tasks
    <2>4. \A d \in CPU : op[d].what = "idle"
      BY <1>2, <1>3 DEF OnItsWay
    <2> QED
      BY <2>1, <2>2, <2>3, <2>4
  <1>5. /\ pt' \in [Page \cup KPage -> [Idx -> Entry]]
        /\ \A p \in Prefix : pt'[KTable[p]] = KernelTable(p)
    BY <1>1, <1>u, KernelBuilt, Zenon DEF TypeOK
  <1>6. TypeOK'
    BY <1>1, <1>5, <1>u, KernelRoot, Zenon DEF TypeOK, tasks
  <1>7. KernelTables'
    BY <1>3, <1>5, <1>u DEF KernelTables
  <1>8. RootsLoaded'
    <2>1. KTable[<<>>] # NULL /\ Built'
      BY <1>u, KernelRoot, NullAssumption DEF Built
    <2>2. \A y : Root(y) => Root(y)'
      BY <1>3, <1>u, <2>1 DEF Root
    <2>3. \A d \in CPU : \/ cr3'[d] = cr3[d] /\ pg'[d] = pg[d]
                         \/ cr3'[d] = KTable[<<>>]
      BY <1>1, <1>u, Zenon DEF TypeOK
    <2>4. Root(KTable[<<>>])'
      BY <2>1 DEF Root
    <2> QED
      BY <1>1, <1>u, <2>1, <2>2, <2>3, <2>4, Zenon DEF RootsLoaded, tasks
  <1>9. RunsOnce' /\ OwnSpace' /\ UnmapAlone'
    BY <1>1, <1>4, <1>u DEF RunsOnce, OwnSpace, UnmapAlone, tasks
  <1>10. Placed(at)' /\ OnItsWay(at)' /\ Cached(at)' /\ at \in [InUse' -> Place]
    BY <1>3, <1>4, <1>u DEF Placed, OnItsWay, Cached
  <1> QED
    BY <1>6, <1>7, <1>8, <1>9, <1>10 DEF IInv, PlacedNext

LEMMA protectIInv ==
    ASSUME IInv, NEW c \in CPU, NEW h \in Space, protect(c, h), pool # {}
    PROVE  IInv'
  <1>1. TypeOK /\ KernelTables /\ RootsLoaded /\ RunsOnce /\ OwnSpace /\ UnmapAlone
    BY DEF IInv, PlacedNext
  <1>2. PICK at \in [InUse -> Place] : Placed(at) /\ OnItsWay(at) /\ Cached(at)
    BY DEF IInv, PlacedNext
  <1>u. PICK x \in pool :
          /\ kpt # NULL /\ h \notin made /\ pool' = pool \ {x}
          /\ pt' = [pt EXCEPT ![x] = ProtectRoot(x)]
          /\ ptr' = [ptr EXCEPT ![h] = x] /\ made' = made \cup {h}
          /\ UNCHANGED <<kpt, tasks, cpu, op, halted>>
    BY DEF protect
  <1>3. PICK at2 : PlacedNext(at2)
                   /\ AddsTable(at, at2, x, [space |-> h, path |-> <<>>])
    <2>1. h \in Space \ made
      BY <1>u
    <2> QED
      BY <1>1, <1>2, <1>u, <2>1, PlacedProtect, Zenon
  <1>4. /\ at2 \in [InUse' -> Place] /\ PlacedNext(at2)
        /\ InUse' = InUse \cup {x} /\ x \notin InUse
        /\ \A y \in InUse : at2[y] = at[y]
    BY <1>3 DEF AddsTable
  <1>5. /\ x \in Page /\ ptr'[h] = x
        /\ \A g \in made : ptr'[g] = ptr[g] /\ g \in made'
        /\ \A y \in Page \cup KPage : y # x => pt'[y] = pt[y]
    BY <1>1, <1>u DEF TypeOK
  <1>6. TypeOK'
    <2>1. pt[kpt] = KernelTable(<<>>)
      BY <1>1, <1>u, KernelRoot DEF KernelTables, Built
    <2>2. KernelTable(<<>>) \in [Idx -> Entry]
      BY <1>1, KernelBuilt, KernelRoot, Zenon DEF TypeOK
    <2>3. ProtectRoot(x) \in [Idx -> Entry]
      BY <2>1, <2>2 DEF ProtectRoot, Absent, Entry
    <2> QED
      BY <1>1, <1>5, <1>u, <2>3 DEF TypeOK, tasks, cpu
  <1>7. KernelTables'
    <2>1. \A p \in Prefix : KTable[p] \in KPage /\ KTable[p] # x
      BY <1>5, TableAssumption DEF KPage
    <2> QED
      BY <1>1, <1>5, <1>u, <2>1 DEF KernelTables, Built
  <1>8. RootsLoaded'
    <2>1. \A y : Root(y) => Root(y)'
      BY <1>5, <1>u DEF Root, Built
    <2> QED
      BY <1>1, <1>u, <2>1 DEF RootsLoaded, tasks, cpu
  <1>9. \A d \in CPU : UserRuns(d)' <=> UserRuns(d)
    BY <1>u DEF UserRuns, tasks, cpu
  <1>10. OwnSpace'
    <2>1. \A d \in CPU : UserRuns(d) => space[run[d]] \in made
      BY <1>1, Zenon DEF OwnSpace, RunsOnce, UserRuns
    <2> QED
      BY <1>1, <1>5, <1>9, <1>u, <2>1, ZenonT(60) DEF OwnSpace, tasks, cpu
  <1>11. RunsOnce' /\ UnmapAlone'
    BY <1>1, <1>9, <1>u DEF RunsOnce, UnmapAlone, tasks, cpu
  <1>12. OnItsWay(at2)'
    BY <1>2, <1>4, <1>u DEF OnItsWay
  <1>13. Cached(at2)'
    <2>1. \A y \in InUse : pt'[y] = pt[y]
      BY <1>4, <1>5 DEF InUse
    <2> QED
      BY <1>2, <1>4, <1>9, <1>u, <2>1 DEF Cached, tasks, cpu
  <1> QED
    BY <1>4, <1>6, <1>7, <1>8, <1>10, <1>11, <1>12, <1>13 DEF IInv, PlacedNext

(* unprotect: nobody uses the space. *)
LEMMA unprotectIInv ==
    ASSUME IInv, NEW c \in CPU, NEW h \in Space, unprotect(c, h)
    PROVE  IInv'
  <1>1. TypeOK /\ KernelTables /\ RootsLoaded /\ RunsOnce /\ OwnSpace /\ UnmapAlone
    BY DEF IInv, PlacedNext
  <1>2. PICK at \in [InUse -> Place] : Placed(at) /\ OnItsWay(at) /\ Cached(at)
    BY DEF IInv, PlacedNext
  <1>u. /\ h \in made /\ Unused(h) /\ pool' = pool \cup Teardown(ptr[h])
        /\ made' = made \ {h}
        /\ UNCHANGED <<pt, kpt, ptr, tasks, cpu, op, halted>>
    BY DEF unprotect
  <1>3. /\ InUse' = {x \in InUse : at[x].space # h}
        /\ \E at2 \in [InUse' -> Place] :
              PlacedNext(at2) /\ \A y \in InUse' : at2[y] = at[y]
    BY <1>1, <1>2, <1>u, PlacedUnprotect
  <1>4. PICK at2 \in [InUse' -> Place] :
          PlacedNext(at2) /\ \A y \in InUse' : at2[y] = at[y]
    BY <1>3, Zenon
  <1>5. TypeOK'
    <2>1. Teardown(ptr[h]) \subseteq Page
      BY <1>1, <1>2, <1>u, TeardownPlaced DEF InUse
    <2> QED
      BY <1>1, <1>u, <2>1 DEF TypeOK, tasks, cpu
  <1>6. KernelTables'
    BY <1>1, <1>u DEF KernelTables, Built
  <1>7. RootsLoaded'
    <2>1. \A y : Root(y) /\ y # ptr[h] => Root(y)'
      BY <1>u DEF Root, Built
    <2>2. \A d \in CPU : cr3[d] # ptr[h]
      BY <1>u DEF Unused
    <2>3. \A k \in live : ctx[k].cr3 # ptr[h]
      BY <1>u DEF Unused
    <2> QED
      BY <1>1, <1>u, <2>1, <2>2, <2>3 DEF RootsLoaded, tasks, cpu
  <1>8. \A d \in CPU : UserRuns(d)' <=> UserRuns(d)
    BY <1>u DEF UserRuns, tasks, cpu
  <1>9. OwnSpace'
    <2>1. \A k \in live : space[k] # h
      BY <1>u DEF Unused
    <2> QED
      BY <1>1, <1>8, <1>u, <2>1 DEF OwnSpace, tasks, cpu
  <1>10. RunsOnce' /\ UnmapAlone'
    BY <1>1, <1>8, <1>u DEF RunsOnce, UnmapAlone, tasks, cpu
  <1>11. \A g, va, d : TableOf(g, va, d).space = g
    BY DEF TableOf
  <1>12. OnItsWay(at2)'
    <2>1. \A d \in CPU : op[d].space # h
      BY <1>u DEF Unused
    <2> QED
      BY <1>2, <1>3, <1>4, <1>11, <1>u, <2>1 DEF OnItsWay
  <1>13. Cached(at2)'
    <2>1. \A d \in CPU : UserRuns(d) => space[run[d]] # h
      BY <1>1, <1>u DEF Unused, RunsOnce, UserRuns
    <2>2. ASSUME NEW d \in CPU, UserRuns(d), NEW e \in tlb[d]
          PROVE  \E x \in InUse' : /\ at2[x] = TableOf(space[run[d]], e[1], L)
                                   /\ pt[x][e[1][L]].next = e[2]
      <3>1. PICK x \in InUse : /\ at[x] = TableOf(space[run[d]], e[1], L)
                               /\ pt[x][e[1][L]].next = e[2]
        BY <1>2, <2>2 DEF Cached
      <3>2. x \in InUse'
        BY <1>3, <1>11, <2>1, <2>2, <3>1
      <3> QED
        BY <1>4, <3>1, <3>2
    <2> QED
      BY <1>8, <1>u, <2>2 DEF Cached, tasks, cpu
  <1> QED
    BY <1>4, <1>5, <1>6, <1>7, <1>9, <1>10, <1>12, <1>13 DEF IInv, PlacedNext

(* ptwalk links a new table: no translation of a page changes. *)
LEMMA WalkLinkIInv ==
    ASSUME IInv, NEW c \in CPU, op[c].what # "idle", ~AtLeaf(op[c]),
           pt[op[c].cur][op[c].va[op[c].i]].next = NULL,
           NEW x \in pool, pool' = pool \ {x}, pt' = Link(op[c], x),
           op' = [op EXCEPT ![c].i = @ + 1, ![c].cur = x],
           UNCHANGED <<kpt, made, ptr, tasks, cpu, halted>>
    PROVE  IInv'
  <1> DEFINE o == [what |-> op[c].what, space |-> op[c].space, va |-> op[c].va,
                   pa |-> op[c].pa, i |-> op[c].i + 1, cur |-> x]
             cur == op[c].cur
             va == op[c].va
             d == op[c].i
             h == op[c].space
  <1>1. TypeOK /\ KernelTables /\ RootsLoaded /\ RunsOnce /\ OwnSpace /\ UnmapAlone
    BY DEF IInv, PlacedNext
  <1>2. PICK at \in [InUse -> Place] : Placed(at) /\ OnItsWay(at) /\ Cached(at)
    BY DEF IInv, PlacedNext
  <1>3. d \in 1 .. L - 1 /\ op[c].i + 1 \in 1 .. L
    BY <1>1, WalkGoesOn
  <1>4. /\ h \in made /\ va \in UserVa /\ cur \in InUse
        /\ at[cur] = TableOf(h, va, d)
        /\ op[c].what = "map" => op[c].pa \in Frame
    BY <1>2 DEF OnItsWay
  <1>5. pt' = [pt EXCEPT ![cur][va[d]] = [next |-> x, u |-> TRUE],
                         ![x] = ZeroPage]
    BY DEF Link
  <1>6. pt[cur][va[d]].next = NULL
    OBVIOUS
  <1>7. x \in Page
    BY <1>1 DEF TypeOK
  <1>8. o \in Op /\ op' = [op EXCEPT ![c] = o]
    BY <1>1, <1>7, WalkGoesOn, Zenon
  <1>9. /\ o.what = op[c].what /\ o.space = h /\ o.va = va
        /\ o.pa = op[c].pa /\ o.i = d + 1 /\ o.cur = x
    OBVIOUS
  <1> HIDE DEF o, cur, va, d, h
  <1>10. PICK at2 : PlacedNext(at2)
                    /\ AddsTable(at, at2, x, TableOf(h, va, d + 1))
    BY <1>1, <1>2, <1>3, <1>4, <1>5, <1>6, PlacedLink, Zenon
  <1>11. /\ at2 \in [InUse' -> Place] /\ PlacedNext(at2)
         /\ InUse' = InUse \cup {x} /\ x \notin InUse
         /\ at2[x] = TableOf(h, va, d + 1)
         /\ \A y \in InUse : at2[y] = at[y]
    BY <1>10 DEF AddsTable
  <1>12. /\ op'[c] = o /\ op' \in [CPU -> Op]
         /\ \A b \in CPU : b # c => op'[b] = op[b]
    BY <1>1, <1>8, ZenonT(60) DEF TypeOK
  <1>13. /\ cur \in Page /\ va[d] \in Idx
         /\ \A y \in Page \cup KPage : y # x /\ y # cur => pt'[y] = pt[y]
    <2>1. d \in 1 .. L
      BY <1>3, VaAssumption
    <2>2. va[d] \in Idx
      BY <1>4, <2>1, PathOf
    <2> QED
      BY <1>1, <1>4, <1>5, <2>2 DEF TypeOK, InUse
  <1>14. TypeOK'
    <2>1. /\ ZeroPage \in [Idx -> Entry]
          /\ [next |-> x, u |-> TRUE] \in Entry
      BY <1>7 DEF ZeroPage, Absent, Entry
    <2>2. [pt EXCEPT ![cur][va[d]] = [next |-> x, u |-> TRUE]]
            \in [Page \cup KPage -> [Idx -> Entry]]
      BY <1>1, <1>13, <2>1 DEF TypeOK
    <2>3. pt' \in [Page \cup KPage -> [Idx -> Entry]]
      BY <1>5, <2>1, <2>2, Zenon
    <2> QED
      BY <1>1, <1>12, <2>3 DEF TypeOK, tasks, cpu
  <1>15. KernelTables'
    <2>1. \A p \in Prefix : KTable[p] \in KPage /\ KTable[p] # x /\ KTable[p] # cur
      BY <1>7, <1>13, TableAssumption DEF KPage
    <2> QED
      BY <1>1, <1>13, <2>1 DEF KernelTables, Built
  <1>16. RootsLoaded'
    BY <1>1 DEF RootsLoaded, Root, Built, tasks, cpu
  <1>17. \A b \in CPU : UserRuns(b)' <=> UserRuns(b)
    BY DEF UserRuns, tasks, cpu
  <1>18. OwnSpace'
    BY <1>1, <1>17 DEF OwnSpace, tasks, cpu
  <1>19. \A b \in CPU : op'[b].what = op[b].what /\ op'[b].space = op[b].space
    BY <1>9, <1>12 DEF h
  <1>20. RunsOnce' /\ UnmapAlone'
    <2>1. RunsOnce'
      BY <1>1, <1>17, <1>19, Zenon DEF RunsOnce, tasks, cpu
    <2>2. UnmapAlone'
      BY <1>1, <1>17, <1>19, ZenonT(60) DEF UnmapAlone, tasks, cpu
    <2> QED
      BY <2>1, <2>2
  <1>21. OnItsWay(at2)'
    <2>1. ASSUME NEW b \in CPU, op'[b].what # "idle"
          PROVE  /\ op'[b].space \in made /\ op'[b].va \in UserVa
                 /\ op'[b].cur \in InUse'
                 /\ at2[op'[b].cur] = TableOf(op'[b].space, op'[b].va, op'[b].i)
                 /\ op'[b].what = "map" => op'[b].pa \in Frame
      <3>1. CASE b = c
        BY <1>4, <1>9, <1>11, <1>12, <3>1, Zenon
      <3>2. CASE b # c
        BY <1>2, <1>11, <1>12, <2>1, <3>2 DEF OnItsWay
      <3> QED
        BY <3>1, <3>2
    <2> QED
      BY <2>1, Zenon DEF OnItsWay
  <1>22. Cached(at2)'
    <2>1. ASSUME NEW b \in CPU, UserRuns(b), NEW e \in tlb[b]
          PROVE  \E y \in InUse' : /\ at2[y] = TableOf(space[run[b]], e[1], L)
                                   /\ pt'[y][e[1][L]].next = e[2]
      <3>1. PICK y \in InUse : /\ at[y] = TableOf(space[run[b]], e[1], L)
                               /\ pt[y][e[1][L]].next = e[2]
        BY <1>2, <2>1 DEF Cached
      <3>2. e[1] \in UserVa
        BY <1>1 DEF TypeOK
      <3>3. Len(SubSeq(e[1], 1, L - 1)) = L - 1 /\ Len(SubSeq(va, 1, d - 1)) = d - 1
        BY <1>3, <1>4, <3>2, PathOf, VaAssumption
      <3>4. y # cur
        BY <1>3, <1>4, <3>1, <3>3, VaAssumption DEF TableOf
      <3>5. pt'[y] = pt[y]
        BY <1>11, <1>13, <3>4 DEF InUse
      <3> QED
        BY <1>11, <3>1, <3>5
    <2> QED
      BY <1>17, <2>1 DEF Cached, tasks, cpu
  <1> QED
    BY <1>11, <1>14, <1>15, <1>16, <1>18, <1>20, <1>21, <1>22 DEF IInv, PlacedNext

(* What the end of map() and of unmap() writes, and where. *)
EndWrites(c, at, cur, va, e) ==
    /\ op[c].space \in made /\ op[c].cur = cur /\ op[c].va = va
    /\ at[cur] = TableOf(op[c].space, va, L)
    /\ pt' = [pt EXCEPT ![cur][va[L]] = e]
    /\ PlacedNext(at) /\ WritesEntry(cur, va[L], e)
    /\ \/ op[c].what = "map" /\ pt[cur][va[L]].next = NULL /\ e.next \in Frame
       \/ op[c].what = "unmap" /\ pt[cur][va[L]].next # NULL /\ e = Absent

LEMMA MapEndWrites ==
    ASSUME TypeOK, NEW c \in CPU, op[c].what # "idle", AtLeaf(op[c]),
           ~((op[c].what = "map") = (pt[op[c].cur][op[c].va[L]].next # NULL)),
           NEW at \in [InUse -> Place], Placed(at), OnItsWay(at),
           pt' = [pt EXCEPT ![op[c].cur][op[c].va[L]] =
                    IF op[c].what = "map" THEN [next |-> op[c].pa, u |-> TRUE]
                                          ELSE Absent],
           UNCHANGED <<pool, made, ptr>>
    PROVE  \E cur \in InUse, va \in UserVa, e \in Entry :
              EndWrites(c, at, cur, va, e)
  <1>1. PICK cur, va, h, e :
          /\ cur = op[c].cur /\ va = op[c].va /\ h = op[c].space
          /\ e = IF op[c].what = "map" THEN [next |-> op[c].pa, u |-> TRUE]
                                       ELSE Absent
    OBVIOUS
  <1>2. op[c] \in Op
    BY DEF TypeOK
  <1>3. /\ h \in made /\ va \in UserVa /\ cur \in InUse
        /\ at[cur] = TableOf(h, va, L)
        /\ op[c].what = "map" => op[c].pa \in Frame
    BY <1>1 DEF OnItsWay, AtLeaf
  <1>4. op[c].what \in {"map", "unmap"}
    BY <1>2 DEF Op
  <1>5. e \in Entry /\ (e = Absent \/ (e.u /\ e.next \in Frame))
    BY <1>1, <1>3, SMTT(60) DEF Entry, Absent
  <1>6. \/ op[c].what = "map" /\ pt[cur][va[L]].next = NULL /\ e.next \in Frame
        \/ op[c].what = "unmap" /\ pt[cur][va[L]].next # NULL /\ e = Absent
    BY <1>1, <1>3, <1>4
  <1>7. pt' = [pt EXCEPT ![cur][va[L]] = e]
    BY <1>1, SMTT(60)
  <1>8. PlacedNext(at) /\ WritesEntry(cur, va[L], e)
    BY <1>3, <1>5, <1>7, PlacedLeaf, Zenon
  <1>9. EndWrites(c, at, cur, va, e)
    BY <1>1, <1>3, <1>6, <1>7, <1>8 DEF EndWrites
  <1> QED
    BY <1>3, <1>5, <1>9

(* map() ends: only pages that user code has not cached are written, and   *)
(* unmap writes when no user code of the space runs.                       *)
LEMMA MapEndIInv ==
    ASSUME IInv, NEW c \in CPU, op[c].what # "idle", AtLeaf(op[c]),
           ~((op[c].what = "map") = (pt[op[c].cur][op[c].va[L]].next # NULL)),
           pt' = [pt EXCEPT ![op[c].cur][op[c].va[L]] =
                    IF op[c].what = "map" THEN [next |-> op[c].pa, u |-> TRUE]
                                          ELSE Absent],
           op' = [op EXCEPT ![c] = Idle],
           UNCHANGED <<pool, kpt, made, ptr, tasks, cpu, halted>>
    PROVE  IInv'
  <1>1. TypeOK /\ KernelTables /\ RootsLoaded /\ RunsOnce /\ OwnSpace /\ UnmapAlone
    BY DEF IInv
  <1>2. PICK at \in [InUse -> Place] : Placed(at) /\ OnItsWay(at) /\ Cached(at)
    BY SMTT(60) DEF IInv
  <1>3. PICK cur \in InUse, va \in UserVa, e \in Entry :
            EndWrites(c, at, cur, va, e)
    BY <1>1, <1>2, MapEndWrites, ZenonT(60)
  <1>4. /\ InUse' = InUse /\ PlacedNext(at) /\ pt' = [pt EXCEPT ![cur][va[L]] = e]
        /\ \A y \in InUse, j \in Idx :
              ~(y = cur /\ j = va[L]) => pt'[y][j] = pt[y][j]
        /\ at[cur].space = op[c].space
    <2>1. at[cur] = TableOf(op[c].space, va, L)
      BY <1>3 DEF EndWrites
    <2>2. at[cur].space = op[c].space
      BY <2>1 DEF TableOf
    <2>3. PlacedNext(at) /\ pt' = [pt EXCEPT ![cur][va[L]] = e]
      BY <1>3, Zenon DEF EndWrites
    <2>4. /\ InUse' = InUse
          /\ \A y \in InUse, j \in Idx :
                ~(y = cur /\ j = va[L]) => pt'[y][j] = pt[y][j]
      BY <1>3 DEF EndWrites, WritesEntry
    <2> QED
      BY <2>2, <2>3, <2>4, Zenon
  <1>5. /\ op'[c] = Idle /\ \A b \in CPU : b # c => op'[b] = op[b]
        /\ Idle.what = "idle"
    BY <1>1 DEF TypeOK, Idle
  <1>6. TypeOK'
    <2>1. Idle \in Op
      BY VaAssumption DEF Idle, Op
    <2>2. op' \in [CPU -> Op]
      BY <1>1, <2>1 DEF TypeOK
    <2>3. pt' \in [Page \cup KPage -> [Idx -> Entry]]
      <3>1. cur \in Page /\ va[L] \in Idx
        BY PathOf, VaAssumption DEF InUse
      <3>2. pt \in [Page \cup KPage -> [Idx -> Entry]]
        BY <1>1 DEF TypeOK
      <3>3. cur \in Page \cup KPage /\ pt[cur] \in [Idx -> Entry]
        BY <3>1, <3>2
      <3>4. [pt[cur] EXCEPT ![va[L]] = e] \in [Idx -> Entry]
        BY <3>1, <3>3
      <3>5. pt' = [pt EXCEPT ![cur] = [pt[cur] EXCEPT ![va[L]] = e]]
        BY <1>4, Zenon
      <3> QED
        BY <3>2, <3>3, <3>4, <3>5, Zenon
    <2> QED
      BY <1>1, <2>2, <2>3 DEF TypeOK, tasks, cpu
  <1>7. KernelTables'
    <2>1. \A p \in Prefix : KTable[p] \in KPage /\ KTable[p] # cur
      BY TableAssumption DEF KPage, InUse
    <2>2. \A p \in Prefix : pt'[KTable[p]] = pt[KTable[p]]
      BY <1>1, <1>4, <2>1 DEF TypeOK
    <2> QED
      BY <1>1, <2>2, Zenon DEF KernelTables, Built
  <1>8. RootsLoaded'
    BY <1>1 DEF RootsLoaded, Root, Built, tasks, cpu
  <1>9. \A b \in CPU : UserRuns(b)' <=> UserRuns(b)
    BY DEF UserRuns, tasks, cpu
  <1>10. OwnSpace'
    BY <1>1, <1>9 DEF OwnSpace, tasks, cpu
  <1>11. RunsOnce'
    BY <1>1, <1>5, <1>9 DEF RunsOnce, tasks, cpu
  <1>12. UnmapAlone'
    BY <1>1, <1>5, <1>9, SMTT(60) DEF UnmapAlone, tasks, cpu
  <1>13. OnItsWay(at)'
    BY <1>2, <1>4, <1>5, SMTT(60) DEF OnItsWay
  <1>14. Cached(at)'
    <2>1. ASSUME NEW b \in CPU, UserRuns(b), NEW f \in tlb[b]
          PROVE  \E x \in InUse : /\ at[x] = TableOf(space[run[b]], f[1], L)
                                  /\ pt'[x][f[1][L]].next = f[2]
      <3>1. PICK x \in InUse : /\ at[x] = TableOf(space[run[b]], f[1], L)
                               /\ pt[x][f[1][L]].next = f[2]
        BY <1>2, <2>1 DEF Cached
      <3>2. f[1] \in UserVa /\ f[2] \in Frame /\ f[2] # NULL
        BY <1>1, NullAssumption DEF TypeOK
      <3>3. f[1][L] \in Idx
        BY <3>2, PathOf, VaAssumption
      <3>4. ~(x = cur /\ f[1][L] = va[L])
        <4>1. CASE pt[cur][va[L]].next = NULL
          BY <3>1, <3>2, <4>1, SMTT(60)
        <4>2. CASE op[c].what = "unmap"
          <5>1. space[run[b]] # op[c].space
            BY <1>1, <2>1, <4>2 DEF UnmapAlone
          <5>2. at[x].space = space[run[b]]
            BY <3>1, SMTT(60) DEF TableOf
          <5> QED
            BY <1>4, <5>1, <5>2
        <4> QED
          BY <1>3, <4>1, <4>2 DEF EndWrites
      <3> QED
        <4>1. pt'[x][f[1][L]] = pt[x][f[1][L]]
          BY <1>4, <3>3, <3>4, SMTT(60)
        <4> QED
          BY <3>1, <4>1
    <2>2. InUse' = InUse /\ tlb' = tlb /\ space' = space /\ run' = run
      BY <1>4, SMTT(60) DEF tasks, cpu
    <2>3. \A b \in CPU : UserRuns(b)' => \A f \in tlb[b] : \E x \in InUse :
             at[x] = TableOf(space[run[b]], f[1], L) /\ pt'[x][f[1][L]].next = f[2]
      BY <1>9, <2>1, Zenon
    <2> QED
      BY <2>2, <2>3, ZenonT(60) DEF Cached
  <1> QED
    BY <1>2, <1>4, <1>6, <1>7, <1>8, <1>10, <1>11, <1>12, <1>13, <1>14
       DEF IInv, PlacedNext

(* Every step of a processor keeps the invariant. *)
LEMMA StepIInv ==
    ASSUME IInv, halted \in BOOLEAN, NEW c \in CPU, Step(c)
    PROVE  IInv'
  <1>1. ASSUME Panic PROVE IInv'
    BY <1>1, PanicIInv DEF Panic
  <1>2. ASSUME NEW h \in Space, protect(c, h) PROVE IInv'
    <2>1. CASE pool = {}
      BY <1>1, <1>2, <2>1 DEF protect
    <2>2. CASE pool # {}
      BY <1>2, <2>2, protectIInv
    <2> QED
      BY <2>1, <2>2
  <1>3. ASSUME NEW h \in Space, unprotect(c, h) PROVE IInv'
    BY <1>3, unprotectIInv
  <1>4. ASSUME NEW h \in Space, NEW va \in UserVa, NEW pa \in Frame \cup {NULL},
               MapBegin(c, h, va, pa)
        PROVE  IInv'
    BY <1>4, MapBeginIInv, SMTT(60)
  <1>5. ASSUME Walk(c) PROVE IInv'
    <2> DEFINE e == pt[op[c].cur][op[c].va[op[c].i]]
    <2>0. op[c].what # "idle" /\ ~AtLeaf(op[c])
      BY <1>5, SMTT(60) DEF Walk
    <2>1. CASE e.next # NULL
      <3>1. /\ op' = [op EXCEPT ![c].i = @ + 1, ![c].cur = e.next]
            /\ UNCHANGED <<tables, tasks, cpu, halted>>
        BY <1>5, <2>1 DEF Walk
      <3> QED
        BY <2>0, <2>1, <3>1, WalkFollowIInv, Zenon
    <2>2. CASE e.next = NULL /\ pool = {}
      BY <1>1, <1>5, <2>2, SMTT(60) DEF Walk
    <2>3. CASE e.next = NULL /\ pool # {}
      <3>1. PICK x \in pool :
                /\ pool' = pool \ {x} /\ pt' = Link(op[c], x)
                /\ op' = [op EXCEPT ![c].i = @ + 1, ![c].cur = x]
                /\ UNCHANGED <<kpt, made, ptr, tasks, cpu, halted>>
        BY <1>5, <2>3 DEF Walk
      <3> QED
        BY <2>0, <2>3, <3>1, WalkLinkIInv, Zenon
    <2> QED
      BY <2>1, <2>2, <2>3, SMTT(60)
  <1>6. ASSUME MapEnd(c) PROVE IInv'
    <2> DEFINE e == pt[op[c].cur][op[c].va[L]]
    <2>0. op[c].what # "idle" /\ AtLeaf(op[c])
      BY <1>6 DEF MapEnd
    <2>1. CASE (op[c].what = "map") = (e.next # NULL)
      BY <1>1, <1>6, <2>1, SMTT(60) DEF MapEnd
    <2>2. CASE ~((op[c].what = "map") = (e.next # NULL))
      <3>1. /\ pt' = [pt EXCEPT ![op[c].cur][op[c].va[L]] =
                    IF op[c].what = "map" THEN [next |-> op[c].pa, u |-> TRUE]
                                          ELSE Absent]
            /\ op' = [op EXCEPT ![c] = Idle]
            /\ UNCHANGED <<pool, kpt, made, ptr, tasks, cpu, halted>>
        BY <1>6, <2>2 DEF MapEnd
      <3> QED
        BY <2>0, <2>2, <3>1, MapEndIInv, Zenon
    <2> QED
      BY <2>1, <2>2
  <1>7. ASSUME NEW k \in Task, kcontext(c, k) PROVE IInv'
    BY <1>7, kcontextIInv
  <1>8. ASSUME NEW k \in Task, Exit(c, k) PROVE IInv'
    BY <1>8, ExitIInv
  <1>9. ASSUME NEW h \in Space, NEW k \in Task, ucontext(c, h, k) PROVE IInv'
    BY <1>9, ucontextIInv
  <1>10. ASSUME Trap(c) PROVE IInv'
    BY <1>10, TrapIInv
  <1>11. ASSUME NEW k \in Context, Return(c, k) PROVE IInv'
    BY <1>11, ReturnIInv
  <1>12. ASSUME NEW va \in UserVa, Touch(c, va) PROVE IInv'
    BY <1>12, TouchIInv
  <1> QED
    BY <1>2, <1>3, <1>4, <1>5, <1>6, <1>7, <1>8, <1>9, <1>10, <1>11, <1>12 DEF Step

-----------------------------------------------------------------------------
(* The tables and registers of x86-qemu (vme.c, cte.c): IInv is inductive, *)
(* for any number of levels, spaces, processors and contexts.              *)
THEOREM X86VmeInvariant == Spec => []IInv
  <1>1. IInv /\ [Next]_vars => IInv'
    <2> SUFFICES ASSUME IInv, [Next]_vars PROVE IInv'
      OBVIOUS
    <2>0. halted \in BOOLEAN
      BY DEF IInv, TypeOK
    <2>1. CASE UNCHANGED vars
      BY <2>0, <2>1, PanicIInv DEF vars
    <2>2. CASE VmeInit
      BY <2>2, VmeInitIInv
    <2>3. ASSUME NEW c \in CPU, Step(c) PROVE IInv'
      BY <2>0, <2>3, StepIInv
    <2> QED
      BY <2>1, <2>2, <2>3 DEF Next
  <1> QED
    BY <1>1, InitIInv, PTL DEF Spec

(* The tables in use are those that a teardown of their space finds.       *)
LEMMA IInvPages == IInv => PagesAccounted
  <1> SUFFICES ASSUME IInv PROVE PagesAccounted
    OBVIOUS
  <1>1. TypeOK
    BY DEF IInv
  <1>2. PICK at \in [InUse -> Place] : Placed(at)
    BY DEF IInv
  <1>3. \A h \in made : Teardown(ptr[h]) = {x \in InUse : at[x].space = h}
    BY <1>1, <1>2, TeardownPlaced
  <1>4. \A x \in InUse : at[x].space \in made
    BY <1>2 DEF Placed
  <1>5. Page = pool \cup UNION {Teardown(ptr[h]) : h \in made}
    <2>1. pool \subseteq Page
      BY <1>1 DEF TypeOK
    <2>2. \A x \in InUse : x \in Teardown(ptr[at[x].space])
      BY <1>3, <1>4
    <2>3. InUse \subseteq UNION {Teardown(ptr[h]) : h \in made}
      BY <1>4, <2>2
    <2> QED
      BY <1>3, <2>1, <2>3 DEF InUse
  <1> QED
    BY <1>1, <1>3, <1>5 DEF PagesAccounted, InUse

(* What unprotect may free (teardown of vme.c): every page is free or a    *)
(* table of exactly one space.                                             *)
THEOREM X86PagesAccounted == Spec => []PagesAccounted
  BY X86VmeInvariant, IInvPages, PTL

(* The space, the kernel stack and the kernel's pages that user code has.  *)
LEMMA IInvUserSpace == IInv => UserSpace
  <1> SUFFICES ASSUME IInv PROVE UserSpace
    OBVIOUS
  <1>1. TypeOK /\ KernelTables /\ RootsLoaded /\ OwnSpace
    BY DEF IInv
  <1>2. PICK at \in [InUse -> Place] : Placed(at)
    BY DEF IInv
  <1>3. ASSUME NEW c \in CPU, UserRuns(c)
        PROVE  cr3[c] = ptr[space[run[c]]] /\ rsp0[c] = run[c]
    BY <1>1, <1>3 DEF OwnSpace
  <1>4. ASSUME NEW c \in CPU, NEW va \in KernelVa, pg[c]
        PROVE  Lookup(cr3[c], va) = va
    <2>1. Root(cr3[c]) /\ cr3[c] # NULL
      BY <1>1, <1>4 DEF RootsLoaded
    <2> QED
      BY <1>1, <1>2, <2>1, KernelLookup
  <1> QED
    BY <1>3, <1>4, Zenon DEF UserSpace

(* What a return loads and a trap saves (cte.c): user code runs in its own *)
(* space, with its own kernel stack, and the kernel is always visible.     *)
THEOREM X86UserSpace == Spec => []UserSpace
  BY X86VmeInvariant, IInvUserSpace, PTL

(* A translation in use is one that the tables give.                       *)
LEMMA IInvTlb == IInv => TlbFresh
  <1> SUFFICES ASSUME IInv, NEW c \in CPU, UserRuns(c), NEW e \in tlb[c]
               PROVE  Lookup(cr3[c], e[1]) = e[2]
    BY DEF TlbFresh
  <1>1. TypeOK /\ OwnSpace /\ RunsOnce
    BY DEF IInv
  <1>2. PICK at \in [InUse -> Place] : Placed(at) /\ Cached(at)
    BY DEF IInv
  <1>3. e[1] \in UserVa /\ e[2] \in Frame /\ e[2] # NULL
    BY <1>1, NullAssumption DEF TypeOK
  <1>4. space[run[c]] \in made /\ cr3[c] = ptr[space[run[c]]]
    BY <1>1, Zenon DEF OwnSpace, RunsOnce, UserRuns
  <1>5. \E x \in InUse : /\ at[x] = TableOf(space[run[c]], e[1], L)
                         /\ pt[x][e[1][L]].next = e[2]
    BY <1>2 DEF Cached
  <1>6. Lookup(ptr[space[run[c]]], e[1]) = e[2]
    <2>1. TypeOK /\ Placed(at)
      BY <1>1, <1>2
    <2> QED
      BY ONLY <2>1, <1>3, <1>4, <1>5, LookupPlaced
  <1> QED
    BY <1>4, <1>6

(* map() does not invalidate translations (vme.c), and none that user code *)
(* uses is stale.                                                          *)
THEOREM X86TlbFresh == Spec => []TlbFresh
  BY X86VmeInvariant, IInvTlb, PTL

-----------------------------------------------------------------------------
(* The refinement of AddrMaps.                                             *)

(* The map of a space, as the refinement takes it. *)
MapOf(h) == IF h \notin made THEN NULL
            ELSE [va \in UserVa |-> Lookup(ptr[h], va)]

(* A page is found by the table at its place. *)
Found(at, h, va, f) ==
    \E x \in InUse : at[x] = TableOf(h, va, L) /\ pt[x][va[L]].next = f
LookupFound ==
    \A at \in [InUse -> Place] : Placed(at) =>
        \A h \in made, va \in UserVa :
            /\ Lookup(ptr[h], va) \in Frame \cup {NULL}
            /\ \A f : f # NULL => (Lookup(ptr[h], va) = f <=> Found(at, h, va, f))

LEMMA TypedLookup == TypeOK => LookupFound
  BY LookupPlaced DEF LookupFound, Found

(* The same after a step. *)
LEMMA TypedLookupNext == TypeOK' => LookupFound'
  BY TypedLookup, PTL

LookupAfter(h, va) == Lookup(ptr[h], va)'
FoundAfter(at, h, va, f) == Found(at, h, va, f)'

(* The page of a space that a step leaves in its table is found as before. *)
LEMMA FoundSame ==
    ASSUME TypeOK, TypeOK', NEW at \in [InUse -> Place], Placed(at),
           NEW at2 \in [InUse' -> Place], PlacedNext(at2),
           NEW h \in made, h \in made', NEW va \in UserVa,
           \A f \in Frame : Found(at, h, va, f) <=> FoundAfter(at2, h, va, f)
    PROVE  LookupAfter(h, va) = Lookup(ptr[h], va)
  <1>1. /\ Lookup(ptr[h], va) \in Frame \cup {NULL}
        /\ \A f : f # NULL => (Lookup(ptr[h], va) = f <=> Found(at, h, va, f))
    BY TypedLookup DEF LookupFound
  <1>2. /\ LookupAfter(h, va) \in Frame \cup {NULL}
        /\ \A f : f # NULL =>
              (LookupAfter(h, va) = f <=> FoundAfter(at2, h, va, f))
    BY TypedLookupNext DEF LookupFound, LookupAfter, FoundAfter, PlacedNext
  <1> QED
    BY <1>1, <1>2, NullAssumption

MapAfter(h) == MapOf(h)'

(* A space is as before if each of its pages is found as before. *)
LEMMA SpaceSame ==
    ASSUME TypeOK, TypeOK', NEW at \in [InUse -> Place], Placed(at),
           NEW at2 \in [InUse' -> Place], PlacedNext(at2),
           NEW h, h \in made <=> h \in made',
           h \in made => \A va \in UserVa, f \in Frame :
                            Found(at, h, va, f) <=> FoundAfter(at2, h, va, f)
    PROVE  MapAfter(h) = MapOf(h)
  <1>1. CASE h \notin made
    BY <1>1 DEF MapAfter, MapOf
  <1>2. CASE h \in made
    <2>1. \A va \in UserVa : LookupAfter(h, va) = Lookup(ptr[h], va)
      BY <1>2, FoundSame
    <2>2. MapAfter(h) = [va \in UserVa |-> LookupAfter(h, va)]
      BY <1>2 DEF MapAfter, MapOf, LookupAfter
    <2> QED
      BY <1>2, <2>1, <2>2 DEF MapOf
  <1> QED
    BY <1>1, <1>2

(* Steps that write no table and no root. *)
LEMMA TablesSame ==
    ASSUME IInv, IInv', UNCHANGED tables, NEW h \in Space
    PROVE  MapAfter(h) = MapOf(h)
  <1>1. TypeOK /\ TypeOK'
    BY DEF IInv
  <1>2. PICK at \in [InUse -> Place] : Placed(at)
    BY DEF IInv
  <1>3. PlacedNext(at) /\ InUse' = InUse
    BY <1>2, PlacedSame DEF PlacedNext
  <1>4. pt' = pt /\ made' = made
    BY DEF tables
  <1>5. \A va \in UserVa, f \in Frame :
            Found(at, h, va, f) <=> FoundAfter(at, h, va, f)
    BY <1>3, <1>4 DEF Found, FoundAfter
  <1> QED
    BY <1>1, <1>2, <1>3, <1>4, <1>5, SpaceSame

(* vme_init: there are no spaces before. *)
LEMMA VmeInitMaps ==
    ASSUME IInv, VmeInit, NEW h \in Space
    PROVE  MapAfter(h) = MapOf(h)
  <1>1. made = {} /\ made' = made
    BY DEF IInv, KernelTables, VmeInit
  <1> QED
    BY <1>1 DEF MapAfter, MapOf

(* protect: a new space with no page; the others are as before. *)
LEMMA protectMaps ==
    ASSUME IInv, IInv', NEW c \in CPU, NEW h \in Space, protect(c, h), pool # {}
    PROVE  /\ h \notin made /\ h \in made'
           /\ MapAfter(h) = [va \in UserVa |-> NULL]
           /\ \A g \in Space \ {h} : MapAfter(g) = MapOf(g)
  <1>1. TypeOK /\ TypeOK' /\ KernelTables
    BY DEF IInv
  <1>2. PICK at \in [InUse -> Place] : Placed(at)
    BY DEF IInv
  <1>u. PICK x \in pool :
          /\ kpt # NULL /\ h \notin made /\ pool' = pool \ {x}
          /\ pt' = [pt EXCEPT ![x] = ProtectRoot(x)]
          /\ ptr' = [ptr EXCEPT ![h] = x] /\ made' = made \cup {h}
    BY DEF protect
  <1>3. PICK at2 : PlacedNext(at2)
                   /\ AddsTable(at, at2, x, [space |-> h, path |-> <<>>])
    <2>1. h \in Space \ made
      BY <1>u
    <2> QED
      BY <1>1, <1>2, <1>u, <2>1, PlacedProtect, Zenon
  <1>4. /\ at2 \in [InUse' -> Place] /\ PlacedNext(at2)
        /\ InUse' = InUse \cup {x} /\ x \notin InUse
        /\ at2[x] = [space |-> h, path |-> <<>>]
        /\ \A y \in InUse : at2[y] = at[y] /\ at[y].space # h
        /\ at2[x].space = h /\ at2[x].path = <<>>
    BY <1>2, <1>3, <1>u DEF AddsTable, Placed
  <1>5. /\ pt'[x] = ProtectRoot(x) /\ \A y \in InUse : pt'[y] = pt[y]
    BY <1>1, <1>4, <1>u DEF TypeOK, InUse
  <1>6. ASSUME NEW g \in Space \ {h} PROVE MapAfter(g) = MapOf(g)
    <2>1. \A va \in UserVa : at2[x] # TableOf(g, va, L)
      BY <1>4, <1>6 DEF TableOf
    <2>2. \A va \in UserVa, f \in Frame :
              Found(at, g, va, f) <=> FoundAfter(at2, g, va, f)
      BY <1>4, <1>5, <2>1 DEF Found, FoundAfter
    <2>3. g \in made <=> g \in made'
      BY <1>6, <1>u
    <2> QED
      BY <1>1, <1>2, <1>4, <2>2, <2>3, SpaceSame, Zenon
  <1>7. ASSUME NEW va \in UserVa PROVE LookupAfter(h, va) = NULL
    <2>1. ASSUME NEW f \in Frame, FoundAfter(at2, h, va, f) PROVE FALSE
      <3>1. PICK y \in InUse' : at2[y] = TableOf(h, va, L) /\ pt'[y][va[L]].next = f
        BY <2>1 DEF FoundAfter, Found
      <3>2. y = x
        <4>1. TableOf(h, va, L).space = h
          BY DEF TableOf
        <4> QED
          BY <1>4, <3>1, <4>1
      <3>3. SubSeq(va, 1, L - 1) = <<>>
        <4>1. TableOf(h, va, L).path = SubSeq(va, 1, L - 1)
          BY Zenon DEF TableOf
        <4> QED
          BY <1>4, <3>1, <3>2, <4>1, Zenon
      <3>4. L = 1 /\ va[1] \in Idx
        BY <3>3, PathOf, VaAssumption
      <3>5. ~KernelIdx(va[1])
        BY VaAssumption DEF KernelIdx
      <3>6. pt'[x][va[1]] = Absent
        BY <1>5, <3>4, <3>5 DEF ProtectRoot, KernelIdx
      <3>7. f = NULL
        BY <3>1, <3>2, <3>4, <3>6 DEF Absent
      <3> QED
        BY <3>7, NullAssumption
    <2>2. /\ LookupAfter(h, va) \in Frame \cup {NULL}
          /\ \A f : f # NULL =>
                (LookupAfter(h, va) = f <=> FoundAfter(at2, h, va, f))
      BY <1>1, <1>4, <1>u, TypedLookupNext, ZenonT(60)
         DEF LookupFound, LookupAfter, FoundAfter, PlacedNext
    <2> QED
      BY <2>1, <2>2
  <1>8. MapAfter(h) = [va \in UserVa |-> NULL]
    <2>1. MapAfter(h) = [va \in UserVa |-> LookupAfter(h, va)]
      BY <1>u DEF MapAfter, MapOf, LookupAfter
    <2> QED
      BY <1>7, <2>1
  <1> QED
    BY <1>6, <1>8, <1>u

(* unprotect: the tables of the other spaces stay. *)
LEMMA unprotectMaps ==
    ASSUME IInv, IInv', NEW c \in CPU, NEW h \in Space, unprotect(c, h)
    PROVE  /\ h \in made /\ h \notin made'
           /\ \A g \in Space \ {h} : MapAfter(g) = MapOf(g)
  <1>1. TypeOK /\ TypeOK'
    BY DEF IInv
  <1>2. PICK at \in [InUse -> Place] : Placed(at)
    BY DEF IInv
  <1>u. /\ h \in made /\ pool' = pool \cup Teardown(ptr[h])
        /\ made' = made \ {h} /\ UNCHANGED <<pt, ptr>>
    BY DEF unprotect
  <1>3. /\ InUse' = {x \in InUse : at[x].space # h}
        /\ \E at2 \in [InUse' -> Place] :
              PlacedNext(at2) /\ \A y \in InUse' : at2[y] = at[y]
    BY <1>1, <1>2, <1>u, PlacedUnprotect
  <1>4. PICK at2 \in [InUse' -> Place] :
          PlacedNext(at2) /\ \A y \in InUse' : at2[y] = at[y]
    BY <1>3, Zenon
  <1>5. ASSUME NEW g \in Space \ {h} PROVE MapAfter(g) = MapOf(g)
    <2>1. \A va \in UserVa : TableOf(g, va, L).space # h
      BY <1>5 DEF TableOf
    <2>2. \A va \in UserVa, f \in Frame :
              Found(at, g, va, f) <=> FoundAfter(at2, g, va, f)
      BY <1>3, <1>4, <1>u, <2>1 DEF Found, FoundAfter
    <2>3. g \in made <=> g \in made'
      BY <1>5, <1>u
    <2> QED
      BY <1>1, <1>2, <1>4, <2>2, <2>3, SpaceSame
  <1> QED
    BY <1>5, <1>u

(* ptwalk allocates a table: it is empty, and above the last level only an *)
(* absent entry is written.                                                *)
LEMMA WalkLinkMaps ==
    ASSUME IInv, IInv', NEW c \in CPU, op[c].what # "idle", ~AtLeaf(op[c]),
           pt[op[c].cur][op[c].va[op[c].i]].next = NULL,
           NEW x \in pool, pool' = pool \ {x}, pt' = Link(op[c], x),
           UNCHANGED <<made, ptr>>, NEW g \in Space
    PROVE  MapAfter(g) = MapOf(g)
  <1>1. TypeOK /\ TypeOK'
    BY DEF IInv
  <1>2. PICK at \in [InUse -> Place] : Placed(at) /\ OnItsWay(at)
    BY DEF IInv
  <1>3. PICK h, va, d, cur :
            h = op[c].space /\ va = op[c].va /\ d = op[c].i /\ cur = op[c].cur
    BY Zenon
  <1>4. /\ h \in made /\ va \in UserVa /\ cur \in InUse /\ d \in 1 .. L - 1
        /\ at[cur] = TableOf(h, va, d) /\ pt[cur][va[d]].next = NULL
    BY <1>1, <1>2, <1>3, WalkGoesOn, Zenon DEF OnItsWay
  <1>5. pt' = [pt EXCEPT ![cur][va[d]] = [next |-> x, u |-> TRUE],
                         ![x] = ZeroPage]
    BY <1>3 DEF Link
  <1>6. PICK at2 : PlacedNext(at2)
                   /\ AddsTable(at, at2, x, TableOf(h, va, d + 1))
    BY <1>1, <1>2, <1>4, <1>5, PlacedLink, Zenon
  <1>7. /\ at2 \in [InUse' -> Place] /\ InUse' = InUse \cup {x} /\ x \notin InUse
        /\ \A y \in InUse : at2[y] = at[y]
    BY <1>6 DEF AddsTable
  <1>8. /\ pt'[x] = ZeroPage /\ \A y \in InUse : y # cur => pt'[y] = pt[y]
    <2>1. x \in Page \cup KPage /\ InUse \subseteq Page \cup KPage
      BY <1>1 DEF TypeOK, InUse
    <2>2. pt \in [Page \cup KPage -> [Idx -> Entry]]
      BY <1>1 DEF TypeOK
    <2> QED
      BY <1>5, <1>7, <2>1, <2>2
  <1>9. ASSUME NEW v \in UserVa PROVE at[cur] # TableOf(g, v, L)
    <2>1. d \in 1 .. L /\ L \in 1 .. L /\ d # L
      BY <1>4, VaAssumption
    <2>2. Len(SubSeq(va, 1, d - 1)) = d - 1 /\ Len(SubSeq(v, 1, L - 1)) = L - 1
      BY <1>4, <2>1, PathOf
    <2>3. /\ TableOf(h, va, d).path = SubSeq(va, 1, d - 1)
          /\ TableOf(g, v, L).path = SubSeq(v, 1, L - 1)
      BY Zenon DEF TableOf
    <2>4. Len(TableOf(h, va, d).path) # Len(TableOf(g, v, L).path)
      BY <2>1, <2>2, <2>3
    <2> QED
      BY <1>4, <2>4
  <1>10. ASSUME NEW v \in UserVa PROVE pt'[x][v[L]].next = NULL
    BY <1>8, PathOf, VaAssumption DEF ZeroPage, Absent
  <1>11. \A v \in UserVa, f \in Frame :
            Found(at, g, v, f) <=> FoundAfter(at2, g, v, f)
    BY <1>7, <1>8, <1>9, <1>10, NullAssumption DEF Found, FoundAfter
  <1> QED
    BY <1>1, <1>2, <1>6, <1>7, <1>11, SpaceSame, Zenon

(* One page of one space is written by the end of map(). *)
MapEnds(h, va, e) ==
    /\ MapAfter(h) = [MapOf(h) EXCEPT ![va] = e.next]
    /\ \/ MapOf(h)[va] = NULL /\ e.next \in Frame
       \/ MapOf(h)[va] \in Frame /\ e.next = NULL

LEMMA MapEndMaps ==
    ASSUME IInv, IInv', NEW c \in CPU, op[c].what # "idle", AtLeaf(op[c]),
           ~((op[c].what = "map") = (pt[op[c].cur][op[c].va[L]].next # NULL)),
           pt' = [pt EXCEPT ![op[c].cur][op[c].va[L]] =
                    IF op[c].what = "map" THEN [next |-> op[c].pa, u |-> TRUE]
                                          ELSE Absent],
           UNCHANGED <<pool, made, ptr>>
    PROVE  \E h \in made, va \in UserVa, e \in Entry :
             /\ MapEnds(h, va, e)
             /\ \A g \in Space \ {h} : MapAfter(g) = MapOf(g)
  <1>1. TypeOK /\ TypeOK'
    BY DEF IInv
  <1>2. PICK at \in [InUse -> Place] : Placed(at) /\ OnItsWay(at)
    BY SMTT(60) DEF IInv
  <1>3. PICK cur \in InUse, va \in UserVa, e \in Entry :
            EndWrites(c, at, cur, va, e)
    BY <1>1, <1>2, MapEndWrites, Zenon
  <1>4. PICK h \in made : h = op[c].space
    BY <1>3 DEF EndWrites
  <1>5. /\ at[cur] = TableOf(h, va, L) /\ PlacedNext(at)
        /\ InUse' = InUse /\ pt'[cur][va[L]] = e
        /\ \A y \in InUse, j \in Idx :
              ~(y = cur /\ j = va[L]) => pt'[y][j] = pt[y][j]
        /\ \/ pt[cur][va[L]].next = NULL /\ e.next \in Frame
           \/ pt[cur][va[L]].next # NULL /\ e.next = NULL
    BY <1>3, <1>4, SMTT(60) DEF EndWrites, WritesEntry, Absent
  <1>6. ASSUME NEW g \in Space, NEW v \in UserVa, <<g, v>> # <<h, va>>,
               NEW f \in Frame
        PROVE  Found(at, g, v, f) <=> FoundAfter(at, g, v, f)
    <2>1. v[L] \in Idx
      BY PathOf, VaAssumption
    <2>2. ~(at[cur] = TableOf(g, v, L) /\ v[L] = va[L])
      <3>1. SUFFICES ASSUME at[cur] = TableOf(g, v, L), v[L] = va[L] PROVE FALSE
        OBVIOUS
      <3>2. g = h /\ SubSeq(v, 1, L - 1) = SubSeq(va, 1, L - 1)
        <4>1. /\ TableOf(g, v, L).space = g /\ TableOf(h, va, L).space = h
              /\ TableOf(g, v, L).path = SubSeq(v, 1, L - 1)
              /\ TableOf(h, va, L).path = SubSeq(va, 1, L - 1)
          BY Zenon DEF TableOf
        <4>2. TableOf(g, v, L) = TableOf(h, va, L)
          BY <1>5, <3>1
        <4> QED
          BY <4>1, <4>2, Zenon
      <3>3. L \in 1 .. L
        BY VaAssumption
      <3>4. \A w \in UserVa : Append(SubSeq(w, 1, L - 1), w[L]) = w
        BY <3>3, PathOf, Zenon
      <3>5. v = va
        BY <3>1, <3>2, <3>4, Zenon
      <3> QED
        BY <1>6, <3>2, <3>5
    <2>3. \A y \in InUse : at[y] = TableOf(g, v, L) =>
             pt'[y][v[L]] = pt[y][v[L]]
      BY <1>5, <2>1, <2>2, Zenon
    <2> QED
      BY <1>5, <2>3, ZenonT(60) DEF Found, FoundAfter
  <1>7. ASSUME NEW g \in Space \ {h} PROVE MapAfter(g) = MapOf(g)
    <2>1. \A v \in UserVa, f \in Frame :
             Found(at, g, v, f) <=> FoundAfter(at, g, v, f)
      BY <1>6, <1>7
    <2> QED
      BY <1>1, <1>2, <1>5, <2>1, SpaceSame
  <1>8. h \in Space /\ h \in made'
    BY <1>1, <1>4 DEF TypeOK
  <1>9. \A v \in UserVa \ {va} : LookupAfter(h, v) = Lookup(ptr[h], v)
    <2>1. \A v \in UserVa \ {va}, f \in Frame :
             Found(at, h, v, f) <=> FoundAfter(at, h, v, f)
      BY <1>6, <1>8
    <2> QED
      BY <1>1, <1>2, <1>4, <1>5, <1>8, <2>1, FoundSame
  <1>10. Lookup(ptr[h], va) = pt[cur][va[L]].next
    <2>1. /\ Lookup(ptr[h], va) \in Frame \cup {NULL}
          /\ \A f : f # NULL => (Lookup(ptr[h], va) = f <=> Found(at, h, va, f))
      BY <1>1, <1>2, <1>4, TypedLookup, SMTT(60) DEF LookupFound
    <2>2. \A f : Found(at, h, va, f) <=> pt[cur][va[L]].next = f
      BY <1>2, <1>5 DEF Found, Placed
    <2> QED
      BY <2>1, <2>2, Zenon
  <1>11. LookupAfter(h, va) = e.next
    <2>1. /\ LookupAfter(h, va) \in Frame \cup {NULL}
          /\ \A f : f # NULL =>
                (LookupAfter(h, va) = f <=> FoundAfter(at, h, va, f))
      BY <1>1, <1>5, <1>8, TypedLookupNext, SMTT(60)
         DEF LookupFound, LookupAfter, FoundAfter, PlacedNext
    <2>2. \A f : FoundAfter(at, h, va, f) <=> e.next = f
      BY <1>2, <1>5 DEF FoundAfter, Found, Placed
    <2> QED
      BY <2>1, <2>2
  <1>12. MapEnds(h, va, e)
    <2>1. MapOf(h) = [v \in UserVa |-> Lookup(ptr[h], v)]
      BY DEF MapOf
    <2>2. MapAfter(h) = [v \in UserVa |-> LookupAfter(h, v)]
      BY <1>8 DEF MapAfter, MapOf, LookupAfter
    <2>3. MapAfter(h) = [MapOf(h) EXCEPT ![va] = e.next]
      BY <1>9, <1>11, <2>1, <2>2
    <2>4. Lookup(ptr[h], va) \in Frame \cup {NULL}
      BY <1>1, <1>2, <1>4, TypedLookup DEF LookupFound
    <2> QED
      BY <1>5, <1>10, <2>1, <2>3, <2>4 DEF MapEnds
  <1> QED
    BY <1>7, <1>12

(* The maps of the spaces, as the refinement takes them. *)
AllMaps == [h \in Space |-> MapOf(h)]

(* A step keeps all maps or changes one, as AddrMaps allows. *)
MapChanges(h) ==
    /\ MapAfter(h) # MapOf(h)
    /\ \/ MapOf(h) = NULL /\ MapAfter(h) = [va \in UserVa |-> NULL]
       \/ MapOf(h) # NULL /\ MapAfter(h) = NULL
       \/ \E va \in UserVa : \E f \in Frame :
            /\ MapOf(h) # NULL /\ MapOf(h)[va] = NULL
            /\ MapAfter(h) = [MapOf(h) EXCEPT ![va] = f]
       \/ \E va \in UserVa :
            /\ MapOf(h) # NULL /\ MapOf(h)[va] # NULL
            /\ MapAfter(h) = [MapOf(h) EXCEPT ![va] = NULL]
MapsStep ==
    \/ \A g \in Space : MapAfter(g) = MapOf(g)
    \/ \E h \in Space : /\ MapChanges(h)
                        /\ \A g \in Space \ {h} : MapAfter(g) = MapOf(g)

(* A protected space has a map. *)
LEMMA MadeMap ==
    ASSUME TypeOK, NEW at \in [InUse -> Place], Placed(at), NEW h \in made
    PROVE  MapOf(h) \in [UserVa -> Frame \cup {NULL}] /\ MapOf(h) # NULL
  <1>1. \A va \in UserVa : Lookup(ptr[h], va) \in Frame \cup {NULL}
    BY LookupPlaced
  <1>2. MapOf(h) \in [UserVa -> Frame \cup {NULL}]
    BY <1>1 DEF MapOf
  <1> QED
    BY <1>2, NullAssumption

LEMMA MapEndsStep ==
    ASSUME TypeOK, NEW at \in [InUse -> Place], Placed(at),
           NEW h \in made, NEW va \in UserVa, NEW e \in Entry,
           MapEnds(h, va, e), \A g \in Space \ {h} : MapAfter(g) = MapOf(g)
    PROVE  MapsStep
  <1>1. MapOf(h) \in [UserVa -> Frame \cup {NULL}] /\ MapOf(h) # NULL /\ h \in Space
    BY MadeMap DEF TypeOK
  <1>2. /\ MapAfter(h) = [MapOf(h) EXCEPT ![va] = e.next]
        /\ \/ MapOf(h)[va] = NULL /\ e.next \in Frame
           \/ MapOf(h)[va] # NULL /\ e.next = NULL
    BY NullAssumption DEF MapEnds
  <1>3. MapAfter(h)[va] = e.next /\ e.next # MapOf(h)[va]
    BY <1>1, <1>2, NullAssumption
  <1>4. MapChanges(h)
    BY <1>1, <1>2, <1>3, Zenon DEF MapChanges
  <1> QED
    BY <1>1, <1>4 DEF MapsStep

(* Every step of a processor is a step of the maps, or none. *)
LEMMA StepMaps ==
    ASSUME IInv, IInv', NEW c \in CPU, Step(c)
    PROVE  MapsStep
  <1>0. PICK at \in [InUse -> Place] : TypeOK /\ Placed(at)
    BY DEF IInv
  <1>1. ASSUME UNCHANGED tables PROVE MapsStep
    BY <1>1, TablesSame DEF MapsStep
  <1>2. ASSUME NEW h \in Space, protect(c, h) PROVE MapsStep
    <2>1. CASE pool = {}
      BY <1>1, <1>2, <2>1 DEF protect, Panic
    <2>2. CASE pool # {}
      <3>1. /\ h \notin made /\ MapAfter(h) = [va \in UserVa |-> NULL]
            /\ \A g \in Space \ {h} : MapAfter(g) = MapOf(g)
        BY <1>2, <2>2, protectMaps
      <3>2. MapOf(h) = NULL
        BY <3>1 DEF MapOf
      <3>3. [va \in UserVa |-> NULL] # NULL
        BY NullAssumption
      <3>4. MapChanges(h)
        BY <3>1, <3>2, <3>3 DEF MapChanges
      <3> QED
        BY <3>1, <3>4 DEF MapsStep
    <2> QED
      BY <2>1, <2>2
  <1>3. ASSUME NEW h \in Space, unprotect(c, h) PROVE MapsStep
    <2>1. /\ h \in made /\ h \notin made'
          /\ \A g \in Space \ {h} : MapAfter(g) = MapOf(g)
      BY <1>3, unprotectMaps
    <2>2. MapAfter(h) = NULL
      BY <2>1 DEF MapAfter, MapOf
    <2>3. MapOf(h) # NULL
      BY <1>0, <2>1, MadeMap
    <2>4. MapChanges(h)
      BY <2>2, <2>3 DEF MapChanges
    <2> QED
      BY <2>1, <2>4 DEF MapsStep
  <1>4. ASSUME NEW h \in Space, NEW va \in UserVa, NEW pa \in Frame \cup {NULL},
               MapBegin(c, h, va, pa)
        PROVE  MapsStep
    BY <1>1, <1>4 DEF MapBegin
  <1>5. ASSUME Walk(c) PROVE MapsStep
    <2> DEFINE e == pt[op[c].cur][op[c].va[op[c].i]]
    <2>0. op[c].what # "idle" /\ ~AtLeaf(op[c])
      BY <1>5 DEF Walk
    <2>1. CASE e.next # NULL
      BY <1>1, <1>5, <2>1 DEF Walk
    <2>2. CASE e.next = NULL /\ pool = {}
      BY <1>1, <1>5, <2>2 DEF Walk, Panic
    <2>3. CASE e.next = NULL /\ pool # {}
      <3>1. PICK x \in pool :
                /\ pool' = pool \ {x} /\ pt' = Link(op[c], x)
                /\ UNCHANGED <<kpt, made, ptr, tasks, cpu, halted>>
        BY <1>5, <2>3 DEF Walk
      <3>2. \A g \in Space : MapAfter(g) = MapOf(g)
        BY <2>0, <2>3, <3>1, WalkLinkMaps
      <3> QED
        BY <3>2 DEF MapsStep
    <2> QED
      BY <2>1, <2>2, <2>3
  <1>6. ASSUME MapEnd(c) PROVE MapsStep
    <2> DEFINE e == pt[op[c].cur][op[c].va[L]]
    <2>0. op[c].what # "idle" /\ AtLeaf(op[c])
      BY <1>6 DEF MapEnd
    <2>1. CASE (op[c].what = "map") = (e.next # NULL)
      BY <1>1, <1>6, <2>1 DEF MapEnd, Panic
    <2>2. CASE ~((op[c].what = "map") = (e.next # NULL))
      <3>1. /\ pt' = [pt EXCEPT ![op[c].cur][op[c].va[L]] =
                    IF op[c].what = "map" THEN [next |-> op[c].pa, u |-> TRUE]
                                          ELSE Absent]
            /\ UNCHANGED <<pool, kpt, made, ptr, tasks, cpu, halted>>
        BY <1>6, <2>2, SMTT(60) DEF MapEnd
      <3>2. PICK h \in made, va \in UserVa, f \in Entry :
               /\ MapEnds(h, va, f)
               /\ \A g \in Space \ {h} : MapAfter(g) = MapOf(g)
        BY <2>0, <2>2, <3>1, MapEndMaps, Zenon
      <3> QED
        BY <1>0, <3>2, MapEndsStep
    <2> QED
      BY <2>1, <2>2
  <1>7. ASSUME NEW k \in Task, kcontext(c, k) PROVE MapsStep
    BY <1>1, <1>7 DEF kcontext
  <1>8. ASSUME NEW k \in Task, Exit(c, k) PROVE MapsStep
    BY <1>1, <1>8 DEF Exit
  <1>9. ASSUME NEW h \in Space, NEW k \in Task, ucontext(c, h, k) PROVE MapsStep
    BY <1>1, <1>9 DEF ucontext
  <1>10. ASSUME Trap(c) PROVE MapsStep
    BY <1>1, <1>10 DEF Trap
  <1>11. ASSUME NEW k \in Context, Return(c, k) PROVE MapsStep
    BY <1>1, <1>11 DEF Return
  <1>12. ASSUME NEW va \in UserVa, Touch(c, va) PROVE MapsStep
    BY <1>1, <1>12 DEF Touch
  <1> QED
    BY <1>2, <1>3, <1>4, <1>5, <1>6, <1>7, <1>8, <1>9, <1>10, <1>11, <1>12 DEF Step

(* The page tables of vme.c implement the maps that am.h promises: nothing *)
(* but map() on a space changes what its pages are.                        *)
THEOREM X86ImplementsAddrMaps == Spec => MapsSpec
  <1>1. Init => Maps!Init
    BY DEF Init, Maps!Init
  <1>2. ASSUME IInv, IInv', [Next]_vars PROVE MapsStep
    <2>1. CASE UNCHANGED vars
      BY <1>2, <2>1, TablesSame DEF vars, tables, MapsStep
    <2>2. CASE VmeInit
      BY <1>2, <2>2, VmeInitMaps DEF MapsStep
    <2>3. ASSUME NEW c \in CPU, Step(c) PROVE MapsStep
      BY <1>2, <2>3, StepMaps
    <2> QED
      BY <1>2, <2>1, <2>2, <2>3 DEF Next
  <1>3. MapsStep => [Maps!Next]_AllMaps
    <2>1. ASSUME \A g \in Space : MapAfter(g) = MapOf(g) PROVE AllMaps' = AllMaps
      BY <2>1 DEF AllMaps, MapAfter
    <2>2. ASSUME NEW h \in Space, MapChanges(h),
                 \A g \in Space \ {h} : MapAfter(g) = MapOf(g)
          PROVE  Maps!Next
      <3>1. PICK m, n : m = AllMaps /\ n = AllMaps'
        OBVIOUS
      <3>2. n = [m EXCEPT ![h] = MapAfter(h)] /\ m[h] = MapOf(h)
        BY <2>2, <3>1 DEF AllMaps, MapAfter
      <3>3. Maps!Next <=>
              \E g \in Space :
                /\ n[g] # m[g]
                /\ \/ m[g] = NULL /\ n = [m EXCEPT ![g] = [va \in UserVa |-> NULL]]
                   \/ m[g] # NULL /\ n = [m EXCEPT ![g] = NULL]
                   \/ \E va \in UserVa :
                        \/ /\ m[g] # NULL /\ m[g][va] # NULL
                           /\ n = [m EXCEPT ![g][va] = NULL]
                        \/ \E f \in Frame :
                             /\ m[g] # NULL /\ m[g][va] = NULL
                             /\ n = [m EXCEPT ![g][va] = f]
        BY <3>1 DEF Maps!Next, Maps!Protect, Maps!Unprotect, Maps!Map, Maps!Unmap,
                    Maps!Empty, AllMaps, MapOf
      <3>4. n[h] # m[h]
        BY <2>2, <3>1, <3>2 DEF MapChanges, AllMaps, MapAfter
      <3>5. CASE MapOf(h) = NULL /\ MapAfter(h) = [va \in UserVa |-> NULL]
        BY <3>2, <3>3, <3>4, <3>5, Zenon
      <3>6. CASE MapOf(h) # NULL /\ MapAfter(h) = NULL
        BY <3>2, <3>3, <3>4, <3>6, Zenon
      <3>7. ASSUME NEW va \in UserVa, NEW f \in Frame, MapOf(h) # NULL,
                   MapOf(h)[va] = NULL, MapAfter(h) = [MapOf(h) EXCEPT ![va] = f]
            PROVE  Maps!Next
        <4>1. n = [m EXCEPT ![h][va] = f]
          BY <3>2, <3>7
        <4>2. m[h] # NULL /\ m[h][va] = NULL
          BY <3>2, <3>7
        <4>3. \E w \in UserVa : \E g \in Frame :
                 m[h] # NULL /\ m[h][w] = NULL /\ n = [m EXCEPT ![h][w] = g]
          BY <4>1, <4>2, Zenon
        <4> QED
          BY <3>3, <3>4, <4>3, Zenon
      <3>8. ASSUME NEW va \in UserVa, MapOf(h) # NULL, MapOf(h)[va] # NULL,
                   MapAfter(h) = [MapOf(h) EXCEPT ![va] = NULL]
            PROVE  Maps!Next
        <4>1. n = [m EXCEPT ![h][va] = NULL]
          BY <3>2, <3>8
        <4> QED
          BY <3>2, <3>3, <3>4, <3>8, <4>1, Zenon
      <3> QED
        BY <2>2, <3>5, <3>6, <3>7, <3>8 DEF MapChanges
    <2> QED
      BY <2>1, <2>2 DEF MapsStep
  <1>4. IInv /\ IInv' /\ [Next]_vars => [Maps!Next]_AllMaps
    BY <1>2, <1>3
  <1> QED
    BY <1>1, <1>4, X86VmeInvariant, PTL DEF Spec, MapsSpec, Maps!Spec, AllMaps, MapOf
=============================================================================
