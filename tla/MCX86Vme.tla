------------------------------- MODULE MCX86Vme -------------------------------
(* Instances of X86Vme for TLC: two levels of tables with three entries.   *)
EXTENDS X86Vme, TLC

CONSTANTS c0, c1, k1, k2

User == {<<1, 0>>, <<1, 1>>}
Kernel == {<<0, 0>>}
Tables == <<>> :> k1 @@ <<0>> :> k2
Indexes == 0 .. 1
Symmetry == Permutations(Page) \cup Permutations(Space)
              \cup Permutations(Frame) \cup Permutations(Task)
=============================================================================
