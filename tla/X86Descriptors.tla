---------------------------- MODULE X86Descriptors ----------------------------
(***************************************************************************)
(* The segment and gate descriptors of x86.h, as records of their bit      *)
(* fields, and what the processor makes of them.  An address of i386 has   *)
(* two halves of H values, each of two bytes; one of x86_64 has four.      *)
(***************************************************************************)
EXTENDS Integers

CONSTANT H                  \* 2^16

ASSUME X86DescriptorsAssumption == H \in {16, 64, 256, 65536}

Byte == CHOOSE b \in 2..256 : b * b = H
Page == H \div 16           \* the unit of a limit with g set: 2^12

DPL_KERN == 0
DPL_USER == 3
STA_X == 8
STA_W == 2
STA_R == 2
STS_T32A == 9
STS_TG == 15

SegDesc(lim, base, type, s, dpl, l, db, g) ==
  [lim_15_0 |-> lim % H, base_15_0 |-> base % H, base_23_16 |-> (base \div H) % Byte,
   type |-> type, s |-> s, dpl |-> dpl, p |-> 1, lim_19_16 |-> (lim \div H) % 16,
   l |-> l, db |-> db, g |-> g, base_31_24 |-> (base \div (H * Byte)) % Byte]

SEG16(type, base, lim, dpl) == SegDesc(lim, base, type, 0, dpl, 0, 1, 0)
SEG32(type, base, lim, dpl) == SegDesc(lim \div Page, base, type, 1, dpl, 0, 1, 1)
SEG64(type, dpl) == SegDesc(0, 0, type, 1, dpl, 1, 0, 0)
NoSeg == [SegDesc(0, 0, 0, 0, 0, 0, 0, 0) EXCEPT !.p = 0]

GATE32(type, cs, entry, dpl) ==
  [off_15_0 |-> entry % H, cs |-> cs, type |-> type, dpl |-> dpl, p |-> 1,
   off_31_16 |-> (entry \div H) % H, off_63_32 |-> 0]
GATE64(type, cs, entry, dpl) ==
  [GATE32(type, cs, entry, dpl) EXCEPT !.off_63_32 = entry \div (H * H)]

\* the processor
SegBase(d) == d.base_15_0 + H * (d.base_23_16 + Byte * d.base_31_24)
SegLimit(d) == LET lim == d.lim_15_0 + H * d.lim_19_16
               IN IF d.g = 1 THEN lim * Page + Page - 1 ELSE lim
GateEntry(d) == d.off_15_0 + H * (d.off_31_16 + H * d.off_63_32)
=============================================================================
