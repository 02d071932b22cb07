----------------------------- MODULE MCTrapFrames -----------------------------
(***************************************************************************)
(* TrapFrames for all ports whose C code and assembly agree.               *)
(***************************************************************************)
EXTENDS TrapFrames

MCPorts == {"riscv32-nemu", "riscv32e-npc", "riscv32e-ysyxsoc", "mips32-nemu",
            "loongarch32r-nemu", "x86-nemu", "x86-qemu", "x86_64-qemu"}
MCBroken == {"riscv32e-nemu"}
=============================================================================
