----------------------------- MODULE KlibStdlib -----------------------------
(***************************************************************************)
(* klib's stdlib.c: the allocator of the 32-bit RISC-V builds and the      *)
(* random numbers.  Pointers are numbers modulo PtrMod.  heap_alloc_ptr is  *)
(* set by nemu's trm.c before main; the other RISC-V builds leave it NULL,  *)
(* outside their heap.                                                     *)
(***************************************************************************)
EXTENDS Integers, Sequences

CONSTANTS PtrMod,               \* the number of addresses
          heap_start, heap_end, \* the Area heap
          Sizes,                \* the sizes the program asks for
          Seeds,                \* the seeds it uses
          Mul, Inc, Drop,       \* 1103515245, 12345 and 65536 of rand
          RandMod,              \* 32768
          LongMod,              \* one past the largest unsigned long
          MaxDraw,              \* how often the program calls rand after srand
          MaxBlocks             \* how many blocks it asks for

ASSUME StdlibAssumption ==
  /\ {PtrMod, Drop, RandMod, LongMod} \subseteq Nat \ {0}
  /\ {heap_start, heap_end, Mul, Inc, MaxDraw, MaxBlocks} \subseteq Nat
  /\ heap_start < heap_end /\ heap_end < PtrMod
  /\ Sizes \subseteq Nat /\ Seeds \subseteq 0..LongMod-1

VARIABLES heap_alloc_ptr,
          blocks,     \* the areas malloc returned, in order, a history
          next,       \* the state of rand
          drawn,      \* what the last rand returned
          draws,      \* [seed, n]: n calls since the last srand, a history
          halted      \* panic was called

stdlib_vars == <<heap_alloc_ptr, blocks, next, drawn, draws, halted>>

StdlibInit ==
  /\ heap_alloc_ptr = heap_start /\ blocks = <<>>
  /\ next = 1 /\ drawn = 0 /\ draws = [seed |-> 1, n |-> 0]
  /\ halted = FALSE

ROUNDUP(a, sz) == (((a + sz - 1) % PtrMod) \div sz) * sz

IN_RANGE(p) == heap_start <= p /\ p < heap_end

\* mutant: the check is made before the pointer moves
mallocCheckOld(size) ==
  /\ ~halted /\ Len(blocks) < MaxBlocks
  /\ heap_alloc_ptr' = ROUNDUP((heap_alloc_ptr + size) % PtrMod, 4)
  /\ halted' = ~IN_RANGE(heap_alloc_ptr)
  /\ blocks' = IF IN_RANGE(heap_alloc_ptr)
               THEN Append(blocks, [at |-> heap_alloc_ptr, size |-> size])
               ELSE blocks
  /\ UNCHANGED <<next, drawn, draws>>

\* The pointer moves even when the check fails; panic_on then halts.
malloc(size) ==
  LET new == ROUNDUP((heap_alloc_ptr + size) % PtrMod, 4)
  IN /\ ~halted /\ Len(blocks) < MaxBlocks
     /\ heap_alloc_ptr' = new
     /\ halted' = ~IN_RANGE(new)
     /\ blocks' = IF IN_RANGE(new)
                  THEN Append(blocks, [at |-> heap_alloc_ptr, size |-> size])
                  ELSE blocks
     /\ UNCHANGED <<next, drawn, draws>>

srand(seed) ==
  /\ ~halted
  /\ next' = seed /\ draws' = [seed |-> seed, n |-> 0]
  /\ UNCHANGED <<heap_alloc_ptr, blocks, drawn, halted>>

rand ==
  /\ ~halted /\ draws.n < MaxDraw
  /\ next' = (next * Mul + Inc) % LongMod
  /\ drawn' = (next' \div Drop) % RandMod
  /\ draws' = [draws EXCEPT !.n = @ + 1]
  /\ UNCHANGED <<heap_alloc_ptr, blocks, halted>>

\* free does nothing
StdlibNext ==
  \/ \E size \in Sizes : malloc(size)
  \/ \E seed \in Seeds : srand(seed)
  \/ rand

-----------------------------------------------------------------------------
(* What malloc returns is memory of the heap, aligned to 4, that nobody else   *)
(* was given, as long as no size exceeds the whole heap.  A larger size is     *)
(* refused too, with a panic and never with NULL, unless pointer and size wrap *)
(* around into the heap: then it is served, and the pointer does not advance,  *)
(* so that blocks from before may be given out again.  A block of 0 bytes has  *)
(* the address of the next.                                                   *)
Huge(b) == b.size > heap_end - heap_start

BlocksAccounted ==
  LET Next(i) == IF i = Len(blocks) THEN heap_alloc_ptr ELSE blocks[i+1].at
  IN \A i \in DOMAIN blocks :
       LET b == blocks[i]
       IN /\ b.at % 4 = 0 /\ IN_RANGE(b.at)
          /\ IF Huge(b) THEN b.at + b.size + 3 >= PtrMod + heap_start
                        ELSE b.at + b.size < heap_end
          /\ \A j \in i+1..Len(blocks) :
               (\A k \in i..j : ~Huge(blocks[k])) => b.at + b.size <= blocks[j].at
          /\ ~halted \/ i < Len(blocks) =>
               (Next(i) > b.at <=> b.size > 0 /\ ~Huge(b))

(* rand draws the numbers that exact arithmetic gives, so a program gets the  *)
(* same ones on a 32-bit and on a 64-bit build.  *)
RandPortable ==
  LET exact[i \in 0..draws.n] ==
        IF i = 0 THEN draws.seed ELSE exact[i-1] * Mul + Inc
  IN draws.n > 0 => drawn = (exact[draws.n] \div Drop) % RandMod

(* After any calls of malloc, srand and rand: what the C standard promises of  *)
(* memory up to the size of the heap, what becomes of larger sizes, and the    *)
(* random numbers.                                                            *)
StdlibIso == BlocksAccounted /\ RandPortable
=============================================================================
