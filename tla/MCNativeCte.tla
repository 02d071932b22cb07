------------------------------ MODULE MCNativeCte ------------------------------
(* Instances of NativeCte for TLC: one CPU with nested traps, and two CPUs *)
(* that exchange tasks.                                                    *)
EXTENDS NativeCte, TLC

CONSTANTS c0, c1, k0, k1, u0

OneBoot == c0 :> k0
TwoBoot == c0 :> k0 @@ c1 :> k1
=============================================================================
